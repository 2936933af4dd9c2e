------------------------------ MODULE Normalize ------------------------------
(***************************************************************************)
(* The repair pass of a library: packages/core/src/model/normalize.ts.     *)
(*                                                                         *)
(* A file's groups are a sequence of [id, parent] entries, as parsed: ids  *)
(* may repeat, a parent may be unknown and parents may form cycles.  Once  *)
(* duplicates are dropped, ids are unique and the groups are a function    *)
(* from the ids present to their parent; NoGroup is an absent parentId (of *)
(* a group) or groupId (of an item).                                       *)
(*                                                                         *)
(* The loops of the code are written here by what they compute, as         *)
(* statements about sets closed under "parent of".  Module GroupWalks has  *)
(* the loops themselves, step by step, and the proofs that they compute    *)
(* these operators on every input, cyclic ones included.                   *)
(***************************************************************************)
EXTENDS Naturals, Sequences

CONSTANTS
    GroupId,    \* the group ids
    NoGroup     \* an absent parentId or groupId

ASSUME NoGroupAssumption == NoGroup \notin GroupId

(* A group or item reference: an optional id. *)
Ref == GroupId \cup {NoGroup}

(* What a parsed file may hold, and what is left once ids are unique. *)
GroupEntry == [id : GroupId, parent : Ref]
Hierarchy == UNION {[S -> Ref] : S \in SUBSET GroupId}

(***************************************************************************)
(* Duplicate ids: normalizeGroups keeps the first entry of an id.          *)
(***************************************************************************)
IdsOf(entries) == {entries[i].id : i \in DOMAIN entries}

FirstOf(entries, g) ==
    entries[CHOOSE i \in DOMAIN entries :
                /\ entries[i].id = g
                /\ \A j \in DOMAIN entries : entries[j].id = g => i <= j]

DropDuplicates(entries) ==
    [g \in IdsOf(entries) |-> FirstOf(entries, g).parent]

(***************************************************************************)
(* hasCycle: the chain of parents that starts at g never ends.  It never   *)
(* ends exactly when some set of known groups holds g and, with each of    *)
(* its groups, that group's parent.  A group that merely leads into a      *)
(* cycle counts, as in the code.                                           *)
(***************************************************************************)
HasCycle(parent, g) ==
    \E S \in SUBSET DOMAIN parent :
        /\ g \in S
        /\ \A x \in S : parent[x] \in S

(* normalizeGroups, after the duplicates are gone. *)
NormalizeGroups(parent) ==
    [g \in DOMAIN parent |->
        IF \/ parent[g] \notin DOMAIN parent
           \/ parent[g] = g
           \/ HasCycle(parent, g)
        THEN NoGroup
        ELSE parent[g]]

(* Mutant: items keep a group that is not there. *)
KeepItems(parent, items) == items

(* normalizeFile's treatment of items, which any record with a group is. *)
NormalizeItems(parent, items) ==
    {[it EXCEPT !.group = IF @ \in DOMAIN parent THEN @ ELSE NoGroup] : it \in items}

(***************************************************************************)
(* g is p or above p: every set that holds p and is closed under "parent   *)
(* of" holds g.                                                            *)
(***************************************************************************)
ClosedUpward(parent, U) == \A x \in U \cap DOMAIN parent : parent[x] \in U

AtOrAbove(parent, g, p) ==
    \A U \in SUBSET Ref : p \in U /\ ClosedUpward(parent, U) => g \in U

(* wouldCreateCycle: the new parent p is g itself or lies below it. *)
WouldCreateCycle(parent, g, p) ==
    /\ p # NoGroup
    /\ \/ p = g
       \/ g \in DOMAIN parent /\ AtOrAbove(parent, g, p)

(* descendantGroupIds: the groups whose parent is g or lies below it. *)
DescendantGroupIds(parent, g) ==
    {d \in DOMAIN parent : AtOrAbove(parent, g, parent[d])}

(***************************************************************************)
(* What the repair is for.  A forest has no set of groups in which every   *)
(* group's parent is again in the set, so every chain of parents ends.     *)
(***************************************************************************)
Forest(parent) ==
    \A S \in SUBSET DOMAIN parent : S # {} => \E x \in S : parent[x] \notin S

ParentsResolve(parent) ==
    \A g \in DOMAIN parent : parent[g] \in DOMAIN parent \cup {NoGroup}

ItemsResolve(parent, items) ==
    \A it \in items : it.group \in DOMAIN parent \cup {NoGroup}
=============================================================================
