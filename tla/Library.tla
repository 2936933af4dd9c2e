------------------------------- MODULE Library -------------------------------
(***************************************************************************)
(* The library one scope holds in memory, and every mutation the store     *)
(* offers on it: apps/extension/src/store/store.ts, its mutations, and     *)
(* packages/core/src/store/merge.ts.                                       *)
(*                                                                         *)
(* store.mutate copies the file, lets a callback edit the copy, repairs    *)
(* the copy and installs it, all before its first await: a mutation is one *)
(* step.  What happens to the file on disk is module ScopeFile's.          *)
(*                                                                         *)
(* Groups are a function from the ids present to parents (see Normalize).  *)
(* Items are a set of copies [id, group, stamp], where stamp is updatedAt  *)
(* and stands for the item's text: moveItem and files edited by hand can   *)
(* put two items of one id in a scope, so an id may have several copies.   *)
(* The order of the array is left out, and where the code takes the first  *)
(* or the last item of an id, the action takes any of its copies.  Names   *)
(* and sibling order are left out too, and with them renameGroup and       *)
(* reorderGroups, which change nothing else.                               *)
(***************************************************************************)
EXTENDS Normalize, FiniteSets

CONSTANTS
    ItemId,         \* the item ids
    IncomingFiles,  \* the parsed files a user may import or find on disk
    MaxCopies,      \* bound on the copies of one id, for model checking
    MaxNow          \* bound on the clock, for model checking

Stamp == Nat
Item == [id : ItemId, group : Ref, stamp : Stamp]
File == [groups : Seq(GroupEntry), items : SUBSET Item]

ASSUME LibraryAssumption ==
    /\ IncomingFiles \subseteq File
    /\ MaxCopies \in Nat
    /\ MaxNow \in Nat

VARIABLES
    parent,     \* state.file.groups
    items,      \* state.file.items
    now         \* Date.now()

vars == <<parent, items, now>>

TypeOK ==
    /\ parent \in Hierarchy
    /\ items \in SUBSET Item
    /\ now \in Stamp

Ids == {it.id : it \in items}
Copies(i) == {it \in items : it.id = i}

(* A scope starts as emptyFile(). *)
Init ==
    /\ parent = [g \in {} |-> NoGroup]
    /\ items = {}
    /\ now = 0

(* mutate: the edited draft is repaired and installed. *)
Mutate(draftParent, draftItems) ==
    /\ parent' = NormalizeGroups(draftParent)
    /\ items' = NormalizeItems(draftParent, draftItems)
    /\ UNCHANGED now

-----------------------------------------------------------------------------
(* Items.  The group comes from a menu or a form that may be out of date,  *)
(* so it may name a group that is gone.                                    *)

(* addItem, with an id from newId(). *)
AddItem(i, g) ==
    /\ i \notin Ids
    /\ Mutate(parent, items \cup {[id |-> i, group |-> g, stamp |-> now]})

(* The target's half of a moveItem from another scope: no test of the id. *)
ReceiveItem(i, g) ==
    /\ Cardinality(Copies(i)) < MaxCopies
    /\ Mutate(parent, items \cup {[id |-> i, group |-> g, stamp |-> now]})

(* updateItem with a patch that leaves the group alone. *)
UpdateItem(i) ==
    \E it \in Copies(i) :
        Mutate(parent, (items \ {it}) \cup {[it EXCEPT !.stamp = now]})

(* moveItem inside the scope: updateItem with a groupId. *)
MoveWithinScope(i, g) ==
    \E it \in Copies(i) :
        Mutate(parent, (items \ {it}) \cup {[it EXCEPT !.group = g, !.stamp = now]})

DeleteItem(i) == Mutate(parent, items \ Copies(i))

-----------------------------------------------------------------------------
(* Groups.                                                                 *)

AddGroup(g, p) ==
    /\ g \notin DOMAIN parent
    /\ Mutate([x \in DOMAIN parent \cup {g} |-> IF x = g THEN p ELSE parent[x]], items)

(* Mutant: no guard; the repair takes the cycle apart. *)
ReparentGroupAnywhere(g, p) ==
    Mutate([x \in DOMAIN parent |-> IF x = g THEN p ELSE parent[x]], items)

ReparentGroup(g, p) ==
    /\ ~WouldCreateCycle(parent, g, p)
    /\ Mutate([x \in DOMAIN parent |-> IF x = g THEN p ELSE parent[x]], items)

(* Mutant: what is below the group is forgotten. *)
DeleteOneGroupAndItems(g) ==
    /\ g \in DOMAIN parent
    /\ Mutate([x \in DOMAIN parent \ {g} |-> parent[x]], {it \in items : it.group # g})

(* deleteGroup 'deleteItems': the group, what is below it and their items. *)
DeleteGroupAndItems(g) ==
    LET doomed == {g} \cup DescendantGroupIds(parent, g)
    IN  /\ g \in DOMAIN parent
        /\ Mutate([x \in DOMAIN parent \ doomed |-> parent[x]],
                  {it \in items : it.group \notin doomed})

(* Mutant: the group is dropped and what was in it goes to the root. *)
DropGroupOnly(g) ==
    /\ g \in DOMAIN parent
    /\ Mutate([x \in DOMAIN parent \ {g} |-> parent[x]], items)

(* deleteGroup 'moveToParent': its children and items go to its parent. *)
DeleteGroupOnly(g) ==
    LET Lift(r) == IF r = g THEN parent[g] ELSE r
    IN  /\ g \in DOMAIN parent
        /\ Mutate([x \in DOMAIN parent \ {g} |-> Lift(parent[x])],
                  {[it EXCEPT !.group = Lift(@)] : it \in items})

-----------------------------------------------------------------------------
(* mergeFiles.                                                             *)

LastOf(entries, g) ==
    entries[CHOOSE i \in DOMAIN entries :
                /\ entries[i].id = g
                /\ \A j \in DOMAIN entries : entries[j].id = g => j <= i]

(* Incoming groups replace known ones, the last entry of an id winning. *)
MergeGroups(base, entries) ==
    [g \in DOMAIN base \cup IdsOf(entries) |->
        IF g \in IdsOf(entries) THEN LastOf(entries, g).parent ELSE base[g]]

Newest(copies) == {c \in copies : \A d \in copies : d.stamp <= c.stamp}

(* Mutant: an incoming copy always replaces a known one. *)
MergeArriving(base, arriving) ==
    IF arriving = {} THEN {base}
    ELSE IF base = {} THEN {{w} : w \in Newest(arriving)}
    ELSE {(base \ {t}) \cup {w} : t \in base, w \in arriving}

(***************************************************************************)
(* What the merge may make of one id.  `itemIndex` holds one of the copies *)
(* the base has; an incoming copy replaces it only when it is newer.  An   *)
(* id new to the base is added once, and its later duplicates compete.     *)
(***************************************************************************)
MergeCopies(base, arriving) ==
    IF arriving = {} THEN {base}
    ELSE IF base = {} THEN {{w} : w \in Newest(arriving)}
    ELSE UNION { { (base \ {t}) \cup {w} :
                       w \in Newest({t} \cup {a \in arriving : a.stamp > t.stamp}) } :
                 t \in base }

CopiesIn(file, i) == {a \in file.items : a.id = i}

ImportMerge(file) ==
    \E outcome \in [ItemId -> UNION {MergeCopies(Copies(i), CopiesIn(file, i)) : i \in ItemId}] :
        /\ \A i \in ItemId : outcome[i] \in MergeCopies(Copies(i), CopiesIn(file, i))
        /\ Mutate(MergeGroups(parent, file.groups), UNION {outcome[i] : i \in ItemId})

(* An import with 'replace', and also what load installs of a valid file. *)
ReplaceFile(file) == Mutate(DropDuplicates(file.groups), file.items)

-----------------------------------------------------------------------------
Tick ==
    /\ now < MaxNow
    /\ now' = now + 1
    /\ UNCHANGED <<parent, items>>

Next ==
    \/ \E i \in ItemId :
          \/ \E g \in Ref : AddItem(i, g) \/ ReceiveItem(i, g) \/ MoveWithinScope(i, g)
          \/ UpdateItem(i)
          \/ DeleteItem(i)
    \/ \E g \in GroupId :
          \/ \E p \in Ref : AddGroup(g, p) \/ ReparentGroup(g, p)
          \/ DeleteGroupAndItems(g)
          \/ DeleteGroupOnly(g)
    \/ \E file \in IncomingFiles : ImportMerge(file) \/ ReplaceFile(file)
    \/ Tick

Spec == Init /\ [][Next]_vars

-----------------------------------------------------------------------------
(* Properties                                                              *)

(* No group is its own ancestor and nothing refers to a group that is not  *)
(* there, whatever was imported, read from disk or dropped where.          *)
WellFormed ==
    /\ Forest(parent)
    /\ ParentsResolve(parent)
    /\ ItemsResolve(parent, items)

(* A move of a group that wouldCreateCycle accepts does that and no more:  *)
(* the repair that follows never detaches another group.                   *)
ReparentsExactly ==
    \A g \in DOMAIN parent, p \in DOMAIN parent \cup {NoGroup} :
        ReparentGroup(g, p) => parent' = [parent EXCEPT ![g] = p] /\ items' = items

ReparentIsExact == [][ReparentsExactly]_vars

(* Deleting a group with its items takes the whole subtree and leaves      *)
(* every group and item outside it as it was.                              *)
DeleteTakesTheSubtree ==
    [][\A g \in DOMAIN parent :
          DeleteGroupAndItems(g) =>
              /\ DOMAIN parent' = {x \in DOMAIN parent : ~AtOrAbove(parent, g, x)}
              /\ \A x \in DOMAIN parent' : parent'[x] = parent[x]
              /\ items' = {it \in items : ~AtOrAbove(parent, g, it.group)}]_vars

(* Deleting only the group loses no item, and whatever was below another   *)
(* group is still below it.                                                *)
UngroupKeepsThePlace ==
    [][\A g \in DOMAIN parent :
          DeleteGroupOnly(g) =>
              /\ DOMAIN parent' = DOMAIN parent \ {g}
              /\ \A a, x \in DOMAIN parent' : AtOrAbove(parent, a, x) <=> AtOrAbove(parent', a, x)
              /\ \A it \in items : \E moved \in items' :
                    /\ moved.id = it.id /\ moved.stamp = it.stamp
                    /\ \A a \in DOMAIN parent' :
                          AtOrAbove(parent, a, it.group) <=> AtOrAbove(parent', a, moved.group)]_vars

(* A merge import takes away at most one copy of an id, and only for a     *)
(* newer one of the file; what it adds is one copy, as the file has it;    *)
(* and of all the copies on both sides the newest text stays or comes      *)
(* (merge.ts 18-19, 53-70).  So no copy is lost and no text gets older,    *)
(* whatever file is imported now and however often it repeats an id.       *)
KeepsFresh(known, arriving, outcome) ==
    /\ \A gone, other \in known \ outcome : gone = other
    /\ \A gone \in known \ outcome : \E new \in outcome \cap arriving : new.stamp > gone.stamp
    /\ outcome \subseteq known \cup arriving
    /\ \A new, other \in outcome \ known : new = other
    /\ \A it \in known \cup arriving : \E kept \in outcome : kept.stamp >= it.stamp

MergeKeepsFreshItems ==
    \A i \in ItemId, file \in IncomingFiles :
        \A outcome \in MergeCopies(Copies(i), CopiesIn(file, i)) :
            KeepsFresh(Copies(i), CopiesIn(file, i), outcome)
=============================================================================
