----------------------------- MODULE MCScopeFile -----------------------------
(* ScopeFile with the symmetry of its windows, edits and temporary names,  *)
(* for the runs that check no liveness.                                    *)
EXTENDS ScopeFile, TLC

Symmetry == Permutations(Window) \cup Permutations(Edit) \cup Permutations(TempName)
=============================================================================
