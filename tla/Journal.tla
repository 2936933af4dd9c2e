------------------------------- MODULE Journal -------------------------------
(***************************************************************************)
(* What a scope's file promises to a user who works alone (store.ts, its   *)
(* persist and its mutate): a mutation that was asked for enters the file, *)
(* with others or by itself, is acknowledged only when it is there, and    *)
(* never leaves.  One that was reported as failed may still enter later.   *)
(***************************************************************************)
CONSTANT Edit       \* the mutations

VARIABLES
    asked,      \* those users have made
    saved,      \* those the file holds
    acked       \* those whose promise has been fulfilled

Init == asked = {} /\ saved = {} /\ acked = {}

Ask(e) ==
    /\ e \notin asked
    /\ asked' = asked \cup {e}
    /\ UNCHANGED <<saved, acked>>

Save(edits) ==
    /\ edits \subseteq asked
    /\ saved' = saved \cup edits
    /\ UNCHANGED <<asked, acked>>

Acknowledge(e) ==
    /\ e \in saved
    /\ acked' = acked \cup {e}
    /\ UNCHANGED <<asked, saved>>

Next ==
    \/ \E e \in Edit : Ask(e) \/ Acknowledge(e)
    \/ \E edits \in SUBSET Edit : Save(edits)

Spec == Init /\ [][Next]_<<asked, saved, acked>>
==============================================================================
