-------------------------------- MODULE NoValue --------------------------------
(* What stands for undefined in the models of the services. *)
CONSTANT None
=============================================================================
