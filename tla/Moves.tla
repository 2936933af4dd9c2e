--------------------------------- MODULE Moves ---------------------------------
(***************************************************************************)
(* Moving an item from one scope to another: Store.moveItem of             *)
(* apps/extension/src/store/store.ts, next to what else changes the scopes *)
(* meanwhile, with saves that fail or overtake each other, loads, and a    *)
(* window that goes.                                                       *)
(*                                                                         *)
(* The module follows one item, in one window.  A scope has it or has not, *)
(* in memory and in its file; a save carries what memory had when persist  *)
(* built its text, and is over when its file is renamed, in any order: two *)
(* calls of persist do not wait for each other.                            *)
(***************************************************************************)
EXTENDS NoValue, Naturals

CONSTANTS
    ItemScope,      \* the scopes
    Mover,          \* moves under way at once
    MaxSaves        \* bound on the saves, in all

ASSUME MovesAssumption == None \notin Mover

VARIABLES
    memory,         \* the scopes that have the item in memory
    file,           \* those that have it in their file
    saves,          \* the saves under way: [scope, nr, has, by]
    begun,          \* how many saves have begun
    landed,         \* of each scope, the number of the save its file is from
    reads,          \* the loads that have read a file: [scope, has]
    move,           \* each move: [step, from, to]
    deleted,        \* the user has deleted the item, or one copy of it
    raced           \* an overlap may have cost the item (see MoveKeepsTheItem)

moveVars == <<memory, file, saves, begun, landed, reads, move, deleted, raced>>

NoMove == [step |-> "none"]

MovesInit ==
    /\ \E home \in ItemScope : memory = {home}
    /\ file = memory
    /\ saves = {} /\ begun = 0
    /\ landed = [s \in ItemScope |-> 0]
    /\ reads = {}
    /\ move = [m \in Mover |-> NoMove]
    /\ deleted = FALSE /\ raced = FALSE

With(scopes, s, has) == IF has THEN scopes \cup {s} ELSE scopes \ {s}

(* mutate: the change in memory, and the save of what memory then has. *)
Change(s, has, by, left) ==
    /\ begun < MaxSaves
    /\ begun' = begun + 1
    /\ memory' = With(memory, s, has)
    /\ saves' = left \cup {[scope |-> s, nr |-> begun', has |-> has, by |-> by]}

(* A move from this scope begins while one from another scope has not yet  *)
(* saved its target.                                                       *)
Crosses(from) == \E m \in Mover : move[m] # NoMove /\ move[m].step = "target" /\ move[m].from # from

(* Mutant: the source is emptied first. *)
MoveItemAway(m, from, to) ==
    /\ move[m] = NoMove /\ from # to /\ from \in memory
    /\ Change(from, FALSE, m, saves)
    /\ move' = [move EXCEPT ![m] = [step |-> "target", from |-> to, to |-> from]]
    /\ raced' = (raced \/ Crosses(from))
    /\ UNCHANGED <<file, landed, reads, deleted>>

(* moveItem across scopes: a copy is added to the target. *)
MoveItem(m, from, to) ==
    /\ move[m] = NoMove /\ from # to /\ from \in memory
    /\ Change(to, TRUE, m, saves)
    /\ move' = [move EXCEPT ![m] = [step |-> "target", from |-> from, to |-> to]]
    /\ raced' = (raced \/ Crosses(from))
    /\ UNCHANGED <<file, landed, reads, deleted>>

(* Any other change of a scope: of this item, of others, of groups. *)
Mutate(s) ==
    /\ Change(s, s \in memory, None, saves)
    /\ UNCHANGED <<file, landed, reads, move, deleted, raced>>

DeleteItem(s) ==
    /\ s \in memory
    /\ Change(s, FALSE, None, saves)
    /\ deleted' = TRUE
    /\ UNCHANGED <<file, landed, reads, move, raced>>

(* A save is over: its file is there.  The save of the target lets its     *)
(* move delete the item from the source; the save of the source ends it.   *)
Saved(save) ==
    /\ file' = With(file, save.scope, save.has)
    /\ landed' = [landed EXCEPT ![save.scope] = save.nr]
    /\ raced' = (raced \/ save.nr < landed[save.scope])
    /\ \/ /\ save.by = None
          /\ saves' = saves \ {save}
          /\ UNCHANGED <<memory, begun, move>>
       \/ /\ save.by # None /\ move[save.by].step = "target"
          /\ Change(move[save.by].from, FALSE, save.by, saves \ {save})
          /\ move' = [move EXCEPT ![save.by].step = "source"]
       \/ /\ save.by # None /\ move[save.by].step = "source"
          /\ saves' = saves \ {save}
          /\ move' = [move EXCEPT ![save.by] = NoMove]
          /\ UNCHANGED <<memory, begun>>
    /\ UNCHANGED <<reads, deleted>>

(* persist throws: the scope is in error, or the disk is.  The move ends. *)
SaveFails(save) ==
    /\ saves' = saves \ {save}
    /\ move' = [m \in Mover |-> IF m = save.by THEN NoMove ELSE move[m]]
    /\ UNCHANGED <<memory, file, begun, landed, reads, deleted, raced>>

(* A load reads the file, and later installs what it has read, or finds    *)
(* the text of the last save and leaves memory as it is.                   *)
ReadFile(s) ==
    /\ reads' = reads \cup {[scope |-> s, has |-> s \in file]}
    /\ UNCHANGED <<memory, file, saves, begun, landed, move, deleted, raced>>

Install(read) ==
    LET stale == read.has # (read.scope \in file) \/ \E save \in saves : save.scope = read.scope
    IN  /\ \/ memory' = With(memory, read.scope, read.has) /\ raced' = (raced \/ stale)
           \/ UNCHANGED <<memory, raced>>
        /\ reads' = reads \ {read}
        /\ UNCHANGED <<file, saves, begun, landed, move, deleted>>

(* The window goes, at any time, and another one loads the files. *)
Restart ==
    /\ memory' = file
    /\ saves' = {} /\ reads' = {}
    /\ move' = [m \in Mover |-> NoMove]
    /\ UNCHANGED <<file, begun, landed, deleted, raced>>

MovesNext ==
    \/ \E s \in ItemScope : Mutate(s) \/ DeleteItem(s) \/ ReadFile(s)
    \/ \E save \in saves : Saved(save) \/ SaveFails(save)
    \/ \E read \in reads : Install(read)
    \/ \E m \in Mover, from, to \in ItemScope : MoveItem(m, from, to)
    \/ Restart

MovesSpec == MovesInit /\ [][MovesNext]_moveVars

-----------------------------------------------------------------------------
(* An item that is moved is never without a copy in a file, whichever save *)
(* fails, whatever else is changed and saved at the same time and whenever *)
(* the window goes: it may be there twice, and it is there (store.ts 353-  *)
(* 369).  Moves may overlap too.  Three races are excepted, which do lose  *)
(* it: a move from one scope begins before a move from another has saved   *)
(* its target; an older save of a scope is renamed after a newer one; and  *)
(* a load installs what its file no longer has, or has while a save of the *)
(* scope is under way.                                                     *)
MoveKeepsTheItem == ~deleted /\ ~raced => file # {}
=============================================================================
