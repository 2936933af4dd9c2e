----------------------------- MODULE MCAuthSessions -----------------------------
(* AuthSessions for TLC: calls are alike, sessions rotate or do not.        *)
EXTENDS AuthSessions, TLC

Symmetry == Permutations(Call)
=================================================================================
