-------------------------------- MODULE Lists --------------------------------
(***************************************************************************)
(* What the code does with arrays: filter, as an operator that proofs can  *)
(* expand.                                                                 *)
(***************************************************************************)
EXTENDS Integers, Sequences

(* The elements of a list that are among these, in their order. *)
Selected(list, these) ==
    LET some[k \in 0..Len(list)] ==
            IF k = 0 THEN << >>
            ELSE IF list[k] \in these THEN Append(some[k - 1], list[k])
            ELSE some[k - 1]
    IN  some[Len(list)]
=============================================================================
