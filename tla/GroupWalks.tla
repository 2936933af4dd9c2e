------------------------------ MODULE GroupWalks ------------------------------
(***************************************************************************)
(* The three loops of packages/core/src/model/normalize.ts, one step per   *)
(* turn: the walks up the chain of parents of hasCycle and                 *)
(* wouldCreateCycle, and the breadth-first walk down of                    *)
(* descendantGroupIds.  Their input is any hierarchy with unique ids, so   *)
(* it may have unknown parents and cycles: a file edited by hand reaches   *)
(* hasCycle as it is.                                                      *)
(*                                                                         *)
(* The queue of descendantGroupIds is a set: the order in which the code   *)
(* serves it only orders the list of ids, which callers use as a set.      *)
(***************************************************************************)
EXTENDS Normalize

VARIABLES
    call,       \* the call in progress: its function and arguments
    visited,    \* `visited` or `seen`
    current,    \* `current`; a Ref outside the hierarchy stands for undefined
    queue,      \* `queue` of descendantGroupIds
    running,    \* the call has not returned
    answer      \* what the two predicates return

vars == <<call, visited, current, queue, running, answer>>

Functions == {"hasCycle", "wouldCreateCycle", "descendantGroupIds"}

(* Only normalizeGroups calls hasCycle, with one of its own groups. *)
Calls ==
    {c \in [fn : Functions, parent : Hierarchy, group : GroupId, target : Ref] :
        c.fn = "hasCycle" => c.group \in DOMAIN c.parent}

parent == call.parent
Known == DOMAIN parent
Children(g) == {c \in Known : parent[c] = g}

TypeOK ==
    /\ call \in Calls
    /\ visited \in SUBSET GroupId
    /\ current \in Ref
    /\ queue \in SUBSET GroupId
    /\ running \in BOOLEAN
    /\ answer \in BOOLEAN

Init ==
    /\ call \in Calls
    /\ running = TRUE
    /\ answer = FALSE
    /\ \/ /\ call.fn = "hasCycle"
          /\ visited = {call.group}
          /\ current = parent[call.group]
          /\ queue = {}
       \/ /\ call.fn = "wouldCreateCycle"
          /\ visited = {}
          /\ current = call.target
          /\ queue = {}
       \/ /\ call.fn = "descendantGroupIds"
          /\ visited = {}
          /\ current = NoGroup
          /\ queue = Children(call.group)

(* descendantGroupIds returns `out`, the groups in `seen`. *)
Return(value) ==
    /\ running' = FALSE
    /\ answer' = value
    /\ UNCHANGED <<call, visited, current, queue>>

(* Mutant: the walk does not remember where it was. *)
ClimbBlindly ==
    /\ current' = parent[current]
    /\ UNCHANGED <<call, visited, queue, running, answer>>

(* One turn of a walk up: remember the group and go to its parent. *)
Climb ==
    /\ visited' = visited \cup {current}
    /\ current' = parent[current]
    /\ UNCHANGED <<call, queue, running, answer>>

(* Mutant: only a walk that comes back to its first group is a cycle. *)
HasCycleTurnStrict ==
    /\ call.fn = "hasCycle" /\ running
    /\ \/ current \notin Known /\ Return(FALSE)
       \/ current \in Known /\ current \in visited /\ Return(current = call.group)
       \/ current \in Known /\ current \notin visited /\ Climb

HasCycleTurn ==
    /\ call.fn = "hasCycle" /\ running
    /\ \/ current \notin Known /\ Return(FALSE)
       \/ current \in Known /\ current \in visited /\ Return(TRUE)
       \/ current \in Known /\ current \notin visited /\ Climb

(* Mutant: only the target and its parent are looked at. *)
WouldCreateCycleTurnShallow ==
    /\ call.fn = "wouldCreateCycle" /\ running
    /\ \/ current \notin Known /\ Return(call.target = call.group /\ call.target # NoGroup)
       \/ current \in Known /\ Return(call.group \in {current, parent[current]})

(***************************************************************************)
(* The two early returns of wouldCreateCycle are turns of their own: an    *)
(* absent target is never a cycle, a group under itself always is, even    *)
(* when the hierarchy does not know it.                                    *)
(***************************************************************************)
WouldCreateCycleTurn ==
    /\ call.fn = "wouldCreateCycle" /\ running
    /\ \/ call.target = NoGroup /\ Return(FALSE)
       \/ call.target = call.group /\ Return(TRUE)
       \/ /\ call.target \notin {NoGroup, call.group}
          /\ \/ current \notin Known /\ Return(FALSE)
             \/ current \in Known /\ current = call.group /\ Return(TRUE)
             \/ /\ current \in Known /\ current # call.group
                /\ \/ current \in visited /\ Return(FALSE)
                   \/ current \notin visited /\ Climb

(* Mutant: children only. *)
DescendantsTurnShallow ==
    /\ call.fn = "descendantGroupIds" /\ running
    /\ \/ queue = {} /\ Return(answer)
       \/ \E id \in queue :
            /\ visited' = visited \cup {id}
            /\ queue' = queue \ {id}
            /\ UNCHANGED <<call, current, running, answer>>

DescendantsTurn ==
    /\ call.fn = "descendantGroupIds" /\ running
    /\ \/ queue = {} /\ Return(answer)
       \/ \E id \in queue :
            /\ IF id \in visited
               THEN queue' = queue \ {id} /\ UNCHANGED visited
               ELSE /\ visited' = visited \cup {id}
                    /\ queue' = (queue \ {id}) \cup Children(id)
            /\ UNCHANGED <<call, current, running, answer>>

Next == HasCycleTurn \/ WouldCreateCycleTurn \/ DescendantsTurn

(* JavaScript runs a loop that still has turns to take. *)
Spec == Init /\ [][Next]_vars /\ WF_vars(Next)

(***************************************************************************)
(* Properties                                                              *)
(***************************************************************************)

(* hasCycle returns true exactly for the groups whose parents never end:   *)
(* those on a cycle and those that lead into one (normalize.ts 43-52).     *)
HasCycleCorrect ==
    call.fn = "hasCycle" /\ ~running =>
        answer = HasCycle(parent, call.group)

(* wouldCreateCycle answers whether the target is the group or one of its  *)
(* descendants, also on a hierarchy that already has a cycle elsewhere     *)
(* (normalize.ts 55-72).                                                   *)
WouldCreateCycleCorrect ==
    call.fn = "wouldCreateCycle" /\ ~running =>
        answer = WouldCreateCycle(parent, call.group, call.target)

(* descendantGroupIds returns every group below the given one and no       *)
(* other; deleteGroup deletes what it returns (normalize.ts 75-94).  On a  *)
(* cycle a group is below itself and is returned as well, though the       *)
(* comment says "excluding the group itself" (line 74).                    *)
DescendantsCorrect ==
    call.fn = "descendantGroupIds" /\ ~running =>
        visited = DescendantGroupIds(parent, call.group)

(* Every loop ends, on cyclic hierarchies too: `visited` and `seen` are    *)
(* there so that a hand-edited file cannot hang the extension.             *)
Terminates == <>~running
=============================================================================
