---------------------------- MODULE LibraryProofs ----------------------------
(***************************************************************************)
(* Theorems about Library, for any ids, any incoming files and any bounds. *)
(* Every mutation ends in the repair pass, so the lemmas are about what    *)
(* the repair makes of an arbitrary draft (RepairMakesForest,              *)
(* RepairIsWellFormed) and about drafts it has nothing to do to            *)
(* (RepairKeepsForest).  Each action is then a draft of the right type,    *)
(* and a move or a deletion whose draft is in order is left as it is.      *)
(***************************************************************************)
EXTENDS Library, WellFoundedInduction, TLAPS

-----------------------------------------------------------------------------
(* The repair pass.                                                        *)

(* normalizeGroups leaves a forest, whatever it is given: were a set of    *)
(* groups closed under the repaired parents, it would be closed under the  *)
(* original ones, and the repair detaches every group of such a set.       *)
LEMMA RepairMakesForest ==
    ASSUME NEW p \in Hierarchy
    PROVE  Forest(NormalizeGroups(p))
<1> DEFINE fixed == NormalizeGroups(p)
<1>1. DOMAIN fixed = DOMAIN p /\ DOMAIN p \subseteq GroupId
  BY DEF NormalizeGroups, Hierarchy
<1>2. SUFFICES ASSUME NEW S \in SUBSET DOMAIN fixed, NEW g \in S,
                      \A x \in S : fixed[x] \in S
               PROVE  FALSE
  BY DEF Forest
<1>3. \A x \in S : fixed[x] # NoGroup
  BY <1>1, <1>2, NoGroupAssumption
<1>4. \A x \in S : p[x] \in S /\ ~HasCycle(p, x)
  BY <1>1, <1>2, <1>3 DEF NormalizeGroups
<1>5. HasCycle(p, g)
  BY <1>1, <1>2, <1>4 DEF HasCycle
<1>. QED
  BY <1>2, <1>4, <1>5

(* ... and no group or item that refers to a group that is not there.      *)
LEMMA RepairIsWellFormed ==
    ASSUME NEW p \in Hierarchy, NEW its \in SUBSET Item
    PROVE  /\ NormalizeGroups(p) \in Hierarchy
           /\ NormalizeItems(p, its) \in SUBSET Item
           /\ Forest(NormalizeGroups(p))
           /\ ParentsResolve(NormalizeGroups(p))
           /\ ItemsResolve(NormalizeGroups(p), NormalizeItems(p, its))
<1>1. DOMAIN NormalizeGroups(p) = DOMAIN p /\ DOMAIN p \subseteq GroupId
  BY DEF NormalizeGroups, Hierarchy
<1>2. NormalizeGroups(p) \in Hierarchy
  BY <1>1 DEF NormalizeGroups, Hierarchy, Ref
<1>3. ParentsResolve(NormalizeGroups(p))
  BY <1>1 DEF NormalizeGroups, ParentsResolve
<1>4. \A it \in NormalizeItems(p, its) : it \in Item /\ it.group \in DOMAIN p \cup {NoGroup}
  <2> SUFFICES ASSUME NEW it \in its
               PROVE  LET moved == [it EXCEPT !.group = IF @ \in DOMAIN p THEN @ ELSE NoGroup]
                      IN  moved \in Item /\ moved.group \in DOMAIN p \cup {NoGroup}
    BY DEF NormalizeItems
  <2>. QED
    BY <1>1 DEF Item, Ref
<1>. QED
  BY <1>1, <1>2, <1>3, <1>4, RepairMakesForest DEF ItemsResolve

(* A draft that is a forest with resolved parents is left as it is.        *)
LEMMA RepairKeepsForest ==
    ASSUME NEW p \in Hierarchy, Forest(p), ParentsResolve(p)
    PROVE  NormalizeGroups(p) = p
<1>1. p = [g \in DOMAIN p |-> p[g]]
  BY DEF Hierarchy
<1>2. ASSUME NEW g \in DOMAIN p PROVE ~HasCycle(p, g) /\ p[g] # g
  <2>1. ASSUME HasCycle(p, g) PROVE FALSE
    <3>1. PICK S \in SUBSET DOMAIN p : g \in S /\ \A x \in S : p[x] \in S
      BY <2>1 DEF HasCycle
    <3>2. S # {}
      BY <3>1
    <3>. QED
      BY <3>1, <3>2 DEF Forest
  <2>2. p[g] = g => HasCycle(p, g)
    <3>1. {g} \in SUBSET DOMAIN p
      OBVIOUS
    <3>2. p[g] = g => g \in {g} /\ \A x \in {g} : p[x] \in {g}
      OBVIOUS
    <3>. QED
      BY <3>1, <3>2 DEF HasCycle
  <2>. QED
    BY <2>1, <2>2
<1>3. \A g \in DOMAIN p :
        (IF p[g] \notin DOMAIN p \/ p[g] = g \/ HasCycle(p, g) THEN NoGroup ELSE p[g]) = p[g]
  BY <1>2 DEF ParentsResolve
<1>4. NormalizeGroups(p) = [g \in DOMAIN p |-> p[g]]
  BY <1>3 DEF NormalizeGroups
<1>. QED
  BY <1>1, <1>4

(* An accepted move of a group leaves a forest: a set closed under the new *)
(* parents would hold the moved group, and then what it shares with a set  *)
(* that shows the move to be safe would be closed under the old ones.      *)
LEMMA MoveKeepsForest ==
    ASSUME NEW p \in Hierarchy, Forest(p), ParentsResolve(p),
           NEW g \in DOMAIN p, NEW r \in DOMAIN p \cup {NoGroup},
           ~WouldCreateCycle(p, g, r)
    PROVE  LET moved == [p EXCEPT ![g] = r]
           IN  moved \in Hierarchy /\ Forest(moved) /\ ParentsResolve(moved)
<1> DEFINE moved == [p EXCEPT ![g] = r]
<1>1. DOMAIN moved = DOMAIN p /\ DOMAIN p \subseteq GroupId
  BY DEF Hierarchy
<1>2. moved \in Hierarchy /\ ParentsResolve(moved)
  BY <1>1 DEF Hierarchy, ParentsResolve, Ref
<1>3. ASSUME NEW S \in SUBSET DOMAIN p, S # {}, \A x \in S : moved[x] \in S
      PROVE  FALSE
  <2>1. \A x \in S \ {g} : p[x] \in S
    BY <1>1, <1>3
  <2>2. g \in S
    BY <1>3, <2>1 DEF Forest
  <2>3. r \in S /\ r # NoGroup
    BY <1>1, <1>3, <2>2, NoGroupAssumption
  <2>4. PICK U \in SUBSET Ref : r \in U /\ ClosedUpward(p, U) /\ g \notin U
    BY <2>3 DEF WouldCreateCycle, AtOrAbove
  <2>5. \A x \in S \cap U : p[x] \in S \cap U
    BY <2>1, <2>4 DEF ClosedUpward
  <2>6. S \cap U \in SUBSET DOMAIN p /\ S \cap U # {}
    BY <2>3, <2>4
  <2>. QED
    BY <2>5, <2>6 DEF Forest
<1>. QED
  BY <1>1, <1>2, <1>3 DEF Forest

(* Items whose groups are there are left as they are.                      *)
LEMMA RepairKeepsItems ==
    ASSUME NEW p, NEW its \in SUBSET Item, ItemsResolve(p, its), NoGroup \notin DOMAIN p
    PROVE  NormalizeItems(p, its) = its
<1>1. ASSUME NEW it \in its
      PROVE  [it EXCEPT !.group = IF @ \in DOMAIN p THEN @ ELSE NoGroup] = it
  BY DEF ItemsResolve, Item
<1>. QED
  BY <1>1 DEF NormalizeItems

-----------------------------------------------------------------------------
(* What is above what.                                                     *)

(* What is above a group is the group itself or above its parent.          *)
LEMMA AboveParent ==
    ASSUME NEW p \in Hierarchy, NEW a \in GroupId, NEW x \in DOMAIN p
    PROVE  AtOrAbove(p, a, x) <=> a = x \/ AtOrAbove(p, a, p[x])
<1>0. DOMAIN p \subseteq GroupId /\ p[x] \in Ref
  BY DEF Hierarchy
<1>1. ASSUME AtOrAbove(p, a, x), a # x, NEW U \in SUBSET Ref, p[x] \in U, ClosedUpward(p, U)
      PROVE  a \in U
  <2>1. U \cup {x} \in SUBSET Ref /\ ClosedUpward(p, U \cup {x})
    BY <1>0, <1>1 DEF ClosedUpward, Ref
  <2>. QED
    BY <1>1, <2>1 DEF AtOrAbove
<1>2. ASSUME a = x \/ AtOrAbove(p, a, p[x]), NEW U \in SUBSET Ref, x \in U, ClosedUpward(p, U)
      PROVE  a \in U
  BY <1>2 DEF ClosedUpward, AtOrAbove
<1>. QED
  BY <1>1, <1>2 DEF AtOrAbove

(* No group is above the root.                                             *)
LEMMA NothingAboveRoot ==
    ASSUME NEW p \in Hierarchy, NEW a \in GroupId
    PROVE  ~AtOrAbove(p, a, NoGroup)
<1>1. {NoGroup} \in SUBSET Ref /\ ClosedUpward(p, {NoGroup})
  BY NoGroupAssumption DEF ClosedUpward, Ref, Hierarchy
<1>. QED
  BY <1>1, NoGroupAssumption DEF AtOrAbove

(* A hierarchy, by its groups and their parents.                           *)
LEMMA IsHierarchy ==
    ASSUME NEW D \in SUBSET GroupId, NEW f \in [D -> Ref]
    PROVE  f \in Hierarchy
BY DEF Hierarchy

(* No group of a forest is its own parent.                                 *)
LEMMA NoSelfParent ==
    ASSUME NEW p \in Hierarchy, Forest(p), NEW g \in DOMAIN p
    PROVE  p[g] # g
<1>1. {g} \in SUBSET DOMAIN p /\ {g} # {}
  OBVIOUS
<1>. QED
  BY <1>1 DEF Forest

-----------------------------------------------------------------------------
(* Every step but a tick of the clock repairs a draft of the right type.   *)

(* A set of natural numbers that is not empty has a least element.         *)
LEMMA LeastExists ==
    ASSUME NEW T \in SUBSET Nat, T # {}
    PROVE  \E n \in T : \A m \in T : n <= m
<1> DEFINE Less == OpToRel(<, Nat)
<1>1. \A m, n \in Nat : m < n => <<m, n>> \in Less
  BY Zenon DEF OpToRel
<1> HIDE DEF Less
<1>2. IsWellFoundedOn(Less, Nat)
  BY NatLessThanWellFounded, Zenon DEF Less
<1>3. \E n \in T : \A m \in T : <<m, n>> \notin Less
  BY <1>2, WFMin
<1>4. PICK n \in T : \A m \in T : <<m, n>> \notin Less
  BY <1>3
<1>5. \A m \in T : ~(m < n)
  BY <1>1, <1>4
<1>6. \A m \in T : n <= m
  BY <1>5
<1>. QED
  BY <1>6

(* The first and the last entry of an id are entries.                      *)
LEMMA EntryOfType ==
    ASSUME NEW entries \in Seq(GroupEntry), NEW g \in IdsOf(entries)
    PROVE  FirstOf(entries, g) \in GroupEntry /\ LastOf(entries, g) \in GroupEntry
<1> DEFINE At == {i \in DOMAIN entries : entries[i].id = g}
           FromEnd == {Len(entries) - i : i \in At}
<1>1. DOMAIN entries = 1..Len(entries) /\ Len(entries) \in Nat
  OBVIOUS
<1>2. At # {} /\ At \in SUBSET Nat /\ At \subseteq DOMAIN entries
  BY <1>1 DEF IdsOf
<1>3. \E i \in At : \A j \in At : i <= j
  BY <1>2, LeastExists
<1>4. \E i \in At : \A j \in At : j <= i
  <2>1. FromEnd # {} /\ FromEnd \in SUBSET Nat
    BY <1>1, <1>2
  <2>2. PICK n \in FromEnd : \A m \in FromEnd : n <= m
    BY <2>1, LeastExists
  <2>3. PICK i \in At : n = Len(entries) - i
    BY <2>2
  <2>4. \A j \in At : Len(entries) - i <= Len(entries) - j
    BY <2>2, <2>3
  <2>5. \A j \in At : j <= i
    BY <1>1, <1>2, <2>4
  <2>. QED
    BY <2>5
<1>5. \A i \in DOMAIN entries : entries[i] \in GroupEntry
  OBVIOUS
<1>6. FirstOf(entries, g) \in GroupEntry
  BY <1>3, <1>5 DEF FirstOf
<1>7. LastOf(entries, g) \in GroupEntry
  BY <1>4, <1>5 DEF LastOf
<1>. QED
  BY <1>6, <1>7

(* What an import makes of an id's copies are copies it was given.         *)
LEMMA MergeCopiesType ==
    ASSUME NEW base \in SUBSET Item, NEW arriving \in SUBSET Item,
           NEW out \in MergeCopies(base, arriving)
    PROVE  out \in SUBSET Item
<1>1. CASE arriving = {}
  BY <1>1 DEF MergeCopies
<1>2. CASE arriving # {} /\ base = {}
  BY <1>2 DEF MergeCopies, Newest
<1>3. CASE arriving # {} /\ base # {}
  BY <1>3 DEF MergeCopies, Newest
<1>. QED
  BY <1>1, <1>2, <1>3

Repairs == \E p \in Hierarchy, its \in SUBSET Item : Mutate(p, its)

LEMMA ItemSteps ==
    ASSUME TypeOK, NEW i \in ItemId, NEW g \in Ref
    PROVE  /\ AddItem(i, g) => Repairs
           /\ ReceiveItem(i, g) => Repairs
           /\ MoveWithinScope(i, g) => Repairs
           /\ UpdateItem(i) => Repairs
           /\ DeleteItem(i) => Repairs
<1> USE DEF TypeOK, Repairs, Item, Stamp
<1>1. AddItem(i, g) => Repairs
  BY DEF AddItem
<1>2. ReceiveItem(i, g) => Repairs
  BY DEF ReceiveItem
<1>3. MoveWithinScope(i, g) => Repairs
  BY DEF MoveWithinScope, Copies
<1>4. UpdateItem(i) => Repairs
  BY DEF UpdateItem, Copies
<1>5. DeleteItem(i) => Repairs
  BY DEF DeleteItem
<1>. QED
  BY <1>1, <1>2, <1>3, <1>4, <1>5

LEMMA GroupSteps ==
    ASSUME TypeOK, NEW g \in GroupId, NEW r \in Ref
    PROVE  /\ AddGroup(g, r) => Repairs
           /\ ReparentGroup(g, r) => Repairs
           /\ DeleteGroupAndItems(g) => Repairs
           /\ DeleteGroupOnly(g) => Repairs
<1>0. DOMAIN parent \subseteq GroupId /\ \A x \in DOMAIN parent : parent[x] \in Ref
  BY DEF TypeOK, Hierarchy
<1>1. AddGroup(g, r) => Repairs
  BY <1>0 DEF AddGroup, TypeOK, Repairs, Hierarchy
<1>2. ReparentGroup(g, r) => Repairs
  BY <1>0 DEF ReparentGroup, TypeOK, Repairs, Hierarchy
<1>3. DeleteGroupAndItems(g) => Repairs
  BY <1>0 DEF DeleteGroupAndItems, TypeOK, Repairs, Hierarchy
<1>4. DeleteGroupOnly(g) => Repairs
  <2> SUFFICES ASSUME DeleteGroupOnly(g) PROVE Repairs
    OBVIOUS
  <2> DEFINE Lift(x) == IF x = g THEN parent[g] ELSE x
             p == [x \in DOMAIN parent \ {g} |-> Lift(parent[x])]
             its == {[it EXCEPT !.group = Lift(@)] : it \in items}
  <2>1. p \in Hierarchy
    BY <1>0 DEF Hierarchy, DeleteGroupOnly
  <2>2. its \in SUBSET Item
    BY <1>0 DEF TypeOK, Item, DeleteGroupOnly
  <2>3. Mutate(p, its)
    BY DEF DeleteGroupOnly
  <2>. QED
    BY <2>1, <2>2, <2>3 DEF Repairs
<1>. QED
  BY <1>1, <1>2, <1>3, <1>4

LEMMA FileSteps ==
    ASSUME TypeOK, NEW file \in IncomingFiles
    PROVE  /\ ImportMerge(file) => Repairs
           /\ ReplaceFile(file) => Repairs
<1>1. file.groups \in Seq(GroupEntry) /\ file.items \in SUBSET Item
  BY LibraryAssumption DEF File
<1>2. IdsOf(file.groups) \subseteq GroupId
  <2>1. \A i \in DOMAIN file.groups : file.groups[i] \in GroupEntry
    BY <1>1
  <2>. QED
    BY <2>1 DEF IdsOf, GroupEntry
<1>3. ReplaceFile(file) => Repairs
  <2>1. \A g \in IdsOf(file.groups) : FirstOf(file.groups, g).parent \in Ref
    BY <1>1, EntryOfType DEF GroupEntry
  <2>2. DropDuplicates(file.groups) \in Hierarchy
    BY <1>2, <2>1 DEF DropDuplicates, Hierarchy
  <2>. QED
    BY <1>1, <2>2 DEF ReplaceFile, Repairs
<1>4. ImportMerge(file) => Repairs
  <2>1. MergeGroups(parent, file.groups) \in Hierarchy
    <3>1. \A g \in IdsOf(file.groups) : LastOf(file.groups, g).parent \in Ref
      BY <1>1, EntryOfType DEF GroupEntry
    <3>2. DOMAIN parent \subseteq GroupId /\ \A g \in DOMAIN parent : parent[g] \in Ref
      BY DEF TypeOK, Hierarchy
    <3> DEFINE merged == MergeGroups(parent, file.groups)
    <3>3. DOMAIN merged \in SUBSET GroupId /\ merged = [g \in DOMAIN merged |-> merged[g]]
      BY <1>2, <3>2 DEF MergeGroups
    <3>4. \A g \in DOMAIN merged : merged[g] \in Ref
      BY <3>1, <3>2 DEF MergeGroups
    <3> HIDE DEF merged
    <3>5. merged \in Hierarchy
      BY <3>3, <3>4 DEF Hierarchy
    <3>. QED
      BY <3>5 DEF merged
  <2>2. SUFFICES ASSUME NEW outcome,
                        \A i \in ItemId : outcome[i] \in MergeCopies(Copies(i), CopiesIn(file, i)),
                        Mutate(MergeGroups(parent, file.groups), UNION {outcome[i] : i \in ItemId})
                 PROVE  Repairs
    BY DEF ImportMerge
  <2>3. \A i \in ItemId : outcome[i] \in SUBSET Item
    BY <1>1, <2>2, MergeCopiesType DEF Copies, CopiesIn, TypeOK
  <2>4. UNION {outcome[i] : i \in ItemId} \in SUBSET Item
    BY <2>3
  <2>. QED
    BY <2>1, <2>2, <2>4 DEF Repairs
<1>. QED
  BY <1>3, <1>4

LEMMA EveryStep == TypeOK /\ Next => Tick \/ Repairs
<1> SUFFICES ASSUME TypeOK, Next, ~Tick PROVE Repairs
  OBVIOUS
<1>1. NoGroup \in Ref
  BY DEF Ref
<1>2. ASSUME NEW i \in ItemId, UpdateItem(i) \/ DeleteItem(i)
      PROVE  Repairs
  BY <1>1, <1>2, ItemSteps
<1>3. ASSUME NEW i \in ItemId, NEW g \in Ref,
             AddItem(i, g) \/ ReceiveItem(i, g) \/ MoveWithinScope(i, g)
      PROVE  Repairs
  BY <1>3, ItemSteps
<1>4. ASSUME NEW g \in GroupId, NEW p \in Ref, AddGroup(g, p) \/ ReparentGroup(g, p)
      PROVE  Repairs
  BY <1>4, GroupSteps
<1>5. ASSUME NEW g \in GroupId, DeleteGroupAndItems(g) \/ DeleteGroupOnly(g)
      PROVE  Repairs
  BY <1>1, <1>5, GroupSteps
<1>6. ASSUME NEW file \in IncomingFiles, ImportMerge(file) \/ ReplaceFile(file)
      PROVE  Repairs
  BY <1>6, FileSteps
<1>. QED
  BY <1>2, <1>3, <1>4, <1>5, <1>6 DEF Next

-----------------------------------------------------------------------------
(* Type correctness: a draft never leaves the types of the library.        *)
THEOREM TypeCorrect == Spec => []TypeOK
<1>1. Init => TypeOK
  <2>1. [g \in {} |-> NoGroup] \in [{} -> Ref] /\ {} \in SUBSET GroupId
    BY DEF Ref
  <2>2. [g \in {} |-> NoGroup] \in Hierarchy
    BY <2>1 DEF Hierarchy
  <2>. QED
    BY <2>2 DEF Init, TypeOK, Stamp
<1>2. TypeOK /\ [Next]_vars => TypeOK'
  <2> SUFFICES ASSUME TypeOK, [Next]_vars PROVE TypeOK'
    OBVIOUS
  <2>1. CASE Tick
    BY <2>1 DEF Tick, TypeOK, Stamp
  <2>2. CASE Repairs
    BY <2>2, RepairIsWellFormed DEF Repairs, Mutate, TypeOK
  <2>3. CASE UNCHANGED vars
    BY <2>3 DEF vars, TypeOK
  <2>. QED
    BY <2>1, <2>2, <2>3, EveryStep
<1>. QED
  BY <1>1, <1>2, PTL DEF Spec

(* The groups always are a forest and every reference resolves.            *)
THEOREM AlwaysWellFormed == Spec => []WellFormed
<1>1. Init => WellFormed
  BY DEF Init, WellFormed, Forest, ParentsResolve, ItemsResolve
<1>2. TypeOK /\ WellFormed /\ [Next]_vars => WellFormed'
  <2> SUFFICES ASSUME TypeOK, WellFormed, [Next]_vars PROVE WellFormed'
    OBVIOUS
  <2>1. CASE Tick
    BY <2>1 DEF Tick, WellFormed
  <2>2. CASE Repairs
    <3>1. PICK p \in Hierarchy, its \in SUBSET Item : Mutate(p, its)
      BY <2>2 DEF Repairs
    <3>2. parent' = NormalizeGroups(p) /\ items' = NormalizeItems(p, its)
      BY <3>1 DEF Mutate
    <3>. QED
      BY <3>2, RepairIsWellFormed DEF WellFormed
  <2>3. CASE UNCHANGED vars
    BY <2>3 DEF vars, WellFormed
  <2>. QED
    BY <2>1, <2>2, <2>3, EveryStep
<1>. QED
  BY <1>1, <1>2, TypeCorrect, PTL DEF Spec

(* An accepted move of a group changes that group's parent alone.          *)
THEOREM ReparentingIsExact == Spec => ReparentIsExact
<1>1. TypeOK /\ WellFormed => ReparentsExactly
  <2> SUFFICES ASSUME TypeOK, WellFormed,
                      NEW g \in DOMAIN parent, NEW r \in DOMAIN parent \cup {NoGroup},
                      ReparentGroup(g, r)
               PROVE  parent' = [parent EXCEPT ![g] = r] /\ items' = items
    BY DEF ReparentsExactly
  <2> DEFINE moved == [parent EXCEPT ![g] = r]
  <2>1. parent \in Hierarchy /\ Forest(parent) /\ ParentsResolve(parent) /\ ItemsResolve(parent, items)
    BY DEF TypeOK, WellFormed
  <2>2. moved = [x \in DOMAIN parent |-> IF x = g THEN r ELSE parent[x]]
    BY <2>1 DEF Hierarchy
  <2>3. Mutate(moved, items) /\ ~WouldCreateCycle(parent, g, r)
    BY <2>2 DEF ReparentGroup
  <2>4. moved \in Hierarchy /\ Forest(moved) /\ ParentsResolve(moved)
    BY <2>1, <2>3, MoveKeepsForest
  <2>5. NormalizeGroups(moved) = moved
    BY <2>4, RepairKeepsForest
  <2>6. DOMAIN moved = DOMAIN parent
    OBVIOUS
  <2>7. NormalizeItems(moved, items) = items
    <3>1. \A it \in items : [it EXCEPT !.group = IF @ \in DOMAIN moved THEN @ ELSE NoGroup] = it
      BY <2>1, <2>6 DEF ItemsResolve, TypeOK, Item
    <3>. QED
      BY <3>1 DEF NormalizeItems
  <2>. QED
    BY <2>3, <2>5, <2>7 DEF Mutate
<1>2. TypeOK /\ WellFormed /\ [Next]_vars => [ReparentsExactly]_vars
  BY <1>1
<1>. QED
  BY <1>2, TypeCorrect, AlwaysWellFormed, PTL DEF Spec, ReparentIsExact

-----------------------------------------------------------------------------
(* What a deletion takes, and what it leaves.                              *)

(* A group is deleted with the groups it is above and with no other, and   *)
(* what is left is a forest the repair has nothing to do to.               *)
LEMMA SubtreeIsTaken ==
    ASSUME TypeOK, WellFormed, NEW g \in DOMAIN parent, DeleteGroupAndItems(g)
    PROVE  /\ DOMAIN parent' = {x \in DOMAIN parent : ~AtOrAbove(parent, g, x)}
           /\ \A x \in DOMAIN parent' : parent'[x] = parent[x]
           /\ items' = {it \in items : ~AtOrAbove(parent, g, it.group)}
<1> DEFINE doomed == {g} \cup DescendantGroupIds(parent, g)
           left == [x \in DOMAIN parent \ doomed |-> parent[x]]
           kept == {it \in items : it.group \notin doomed}
<1>1. /\ parent \in Hierarchy /\ items \in SUBSET Item
      /\ DOMAIN parent \subseteq GroupId /\ g \in GroupId
      /\ Forest(parent) /\ ParentsResolve(parent) /\ ItemsResolve(parent, items)
  BY DEF TypeOK, Hierarchy, WellFormed
<1>2. parent' = NormalizeGroups(left) /\ items' = NormalizeItems(left, kept)
  BY DEF DeleteGroupAndItems, Mutate
<1>3. ASSUME NEW x \in DOMAIN parent
      PROVE  x \in doomed <=> AtOrAbove(parent, g, x)
  BY <1>1, AboveParent DEF DescendantGroupIds
<1>4. NoGroup \notin doomed /\ ~AtOrAbove(parent, g, NoGroup)
  BY <1>1, NothingAboveRoot, NoGroupAssumption DEF DescendantGroupIds
<1>5. left \in Hierarchy /\ Forest(left)
  <2>1. DOMAIN left \in SUBSET GroupId /\ \A x \in DOMAIN left : parent[x] \in Ref
    BY <1>1 DEF Hierarchy
  <2>2. left \in [DOMAIN left -> Ref]
    BY <2>1
  <2>3. left \in Hierarchy
    BY <2>1, <2>2, IsHierarchy
  <2>. QED
    BY <1>1, <2>3 DEF Forest
<1>6. ParentsResolve(left)
  <2> SUFFICES ASSUME NEW x \in DOMAIN parent, x \notin doomed
               PROVE  parent[x] \in (DOMAIN parent \ doomed) \cup {NoGroup}
    BY DEF ParentsResolve
  <2>1. ~AtOrAbove(parent, g, parent[x])
    BY <1>1, <1>3, AboveParent
  <2>. QED
    BY <1>1, <1>3, <2>1 DEF ParentsResolve
<1>7. kept \in SUBSET Item /\ ItemsResolve(left, kept) /\ NoGroup \notin DOMAIN left
  BY <1>1, NoGroupAssumption DEF ItemsResolve
<1>8. parent' = left /\ items' = kept
  BY <1>2, <1>5, <1>6, <1>7, RepairKeepsForest, RepairKeepsItems
<1>9. \A it \in items : it.group \in doomed <=> AtOrAbove(parent, g, it.group)
  BY <1>1, <1>3, <1>4 DEF ItemsResolve
<1>. QED
  BY <1>3, <1>8, <1>9

(* Deleting a group with its items takes its subtree and nothing else.     *)
THEOREM DeletionTakesTheSubtree == Spec => DeleteTakesTheSubtree
<1>1. TypeOK /\ WellFormed =>
        \A g \in DOMAIN parent :
          DeleteGroupAndItems(g) =>
              /\ DOMAIN parent' = {x \in DOMAIN parent : ~AtOrAbove(parent, g, x)}
              /\ \A x \in DOMAIN parent' : parent'[x] = parent[x]
              /\ items' = {it \in items : ~AtOrAbove(parent, g, it.group)}
  BY SubtreeIsTaken
<1>. QED
  BY <1>1, TypeCorrect, AlwaysWellFormed, PTL DEF DeleteTakesTheSubtree

(* What is left when one group is taken out of a hierarchy and what it     *)
(* held goes to its parent.                                                *)
LiftedTo(p, g, r) == IF r = g THEN p[g] ELSE r
WithoutGroup(p, g) == [x \in DOMAIN p \ {g} |-> LiftedTo(p, g, p[x])]

(* Taking one group out leaves a forest: a set closed under the new        *)
(* parents is closed under the old ones once the group joins it, if one of *)
(* its members was below the group.                                        *)
LEMMA UngroupLeavesForest ==
    ASSUME NEW p \in Hierarchy, Forest(p), ParentsResolve(p), NEW g \in DOMAIN p
    PROVE  /\ WithoutGroup(p, g) \in Hierarchy
           /\ Forest(WithoutGroup(p, g))
           /\ ParentsResolve(WithoutGroup(p, g))
<1> DEFINE q == WithoutGroup(p, g)
<1>1. /\ DOMAIN q = DOMAIN p \ {g} /\ DOMAIN p \subseteq GroupId
      /\ \A x \in DOMAIN q : q[x] = (IF p[x] = g THEN p[g] ELSE p[x])
      /\ p[g] # g /\ \A x \in DOMAIN p : p[x] \in Ref
  BY NoSelfParent DEF WithoutGroup, LiftedTo, Hierarchy
<1>2. q \in Hierarchy
  <2>1. DOMAIN p \ {g} \in SUBSET GroupId
    BY <1>1
  <2>2. \A x \in DOMAIN p \ {g} : LiftedTo(p, g, p[x]) \in Ref
    BY <1>1 DEF LiftedTo
  <2>3. q \in [DOMAIN p \ {g} -> Ref]
    BY <2>2 DEF WithoutGroup
  <2>. QED
    BY <2>1, <2>3, IsHierarchy
<1>3. ParentsResolve(q)
  BY <1>1 DEF ParentsResolve
<1>4. ASSUME NEW S \in SUBSET DOMAIN q, S # {}, \A x \in S : q[x] \in S
      PROVE  FALSE
  <2>1. CASE \E x \in S : p[x] = g
    <3>1. p[g] \in S
      BY <1>1, <1>4, <2>1
    <3>2. S \cup {g} \in SUBSET DOMAIN p /\ \A x \in S \cup {g} : p[x] \in S \cup {g}
      BY <1>1, <1>4, <3>1
    <3>. QED
      BY <3>2 DEF Forest
  <2>2. CASE \A x \in S : p[x] # g
    <3>1. S \in SUBSET DOMAIN p /\ \A x \in S : p[x] \in S
      BY <1>1, <1>4, <2>2
    <3>. QED
      BY <1>4, <3>1 DEF Forest
  <2>. QED
    BY <2>1, <2>2
<1>. QED
  BY <1>2, <1>3, <1>4 DEF Forest

(* ... and keeps who is above whom among the groups that stay.             *)
LEMMA UngroupKeepsAbove ==
    ASSUME NEW p \in Hierarchy, Forest(p), ParentsResolve(p), NEW g \in DOMAIN p,
           NEW a \in DOMAIN p \ {g}, NEW r \in Ref
    PROVE  AtOrAbove(p, a, r) <=> AtOrAbove(WithoutGroup(p, g), a, LiftedTo(p, g, r))
<1> DEFINE q == WithoutGroup(p, g)
<1>1. /\ DOMAIN q = DOMAIN p \ {g} /\ DOMAIN p \subseteq GroupId
      /\ \A x \in DOMAIN q : q[x] = LiftedTo(p, g, p[x])
      /\ p[g] # g /\ \A x \in DOMAIN p : p[x] \in Ref
  BY NoSelfParent DEF WithoutGroup, Hierarchy
<1> HIDE DEF q
<1>2. ASSUME AtOrAbove(p, a, r),
             NEW U \in SUBSET Ref, LiftedTo(p, g, r) \in U, ClosedUpward(q, U)
      PROVE  a \in U
  <2> DEFINE V == {y \in Ref : LiftedTo(p, g, y) \in U}
  <2>1. r \in V
    BY <1>2
  <2>2. ASSUME NEW y \in V \cap DOMAIN p PROVE p[y] \in V
    <3>1. CASE y = g
      BY <1>1, <2>2, <3>1 DEF LiftedTo
    <3>2. CASE y # g
      <4>1. y \in U \cap DOMAIN q
        BY <1>1, <2>2, <3>2 DEF LiftedTo
      <4>2. LiftedTo(p, g, p[y]) \in U
        BY <1>1, <1>2, <4>1 DEF ClosedUpward
      <4>. QED
        BY <1>1, <4>2
    <3>. QED
      BY <3>1, <3>2
  <2>3. a \in V
    BY <1>2, <2>1, <2>2 DEF AtOrAbove, ClosedUpward
  <2>. QED
    BY <2>3 DEF LiftedTo
<1>3. ASSUME AtOrAbove(q, a, LiftedTo(p, g, r)),
             NEW U \in SUBSET Ref, r \in U, ClosedUpward(p, U)
      PROVE  a \in U
  <2>1. LiftedTo(p, g, r) \in U
    BY <1>3 DEF LiftedTo, ClosedUpward
  <2>2. ClosedUpward(q, U)
    BY <1>1, <1>3 DEF LiftedTo, ClosedUpward
  <2>. QED
    BY <1>3, <2>1, <2>2 DEF AtOrAbove
<1>. QED
  BY <1>2, <1>3 DEF AtOrAbove, q

(* So the repair leaves the lifted groups and items alone, and everything  *)
(* stays below what it was below.                                          *)
LEMMA PlacesAreKept ==
    ASSUME TypeOK, WellFormed, NEW g \in DOMAIN parent, DeleteGroupOnly(g)
    PROVE  /\ DOMAIN parent' = DOMAIN parent \ {g}
           /\ \A a, x \in DOMAIN parent' : AtOrAbove(parent, a, x) <=> AtOrAbove(parent', a, x)
           /\ \A it \in items : \E moved \in items' :
                 /\ moved.id = it.id /\ moved.stamp = it.stamp
                 /\ \A a \in DOMAIN parent' :
                       AtOrAbove(parent, a, it.group) <=> AtOrAbove(parent', a, moved.group)
<1> DEFINE Lifted(it) == [it EXCEPT !.group = LiftedTo(parent, g, @)]
           lifted == {Lifted(it) : it \in items}
<1>1. /\ parent \in Hierarchy /\ items \in SUBSET Item
      /\ DOMAIN parent \subseteq GroupId /\ \A x \in DOMAIN parent : parent[x] \in Ref
      /\ Forest(parent) /\ ParentsResolve(parent) /\ ItemsResolve(parent, items)
  BY DEF TypeOK, Hierarchy, WellFormed
<1>2. /\ parent' = NormalizeGroups(WithoutGroup(parent, g))
      /\ items' = NormalizeItems(WithoutGroup(parent, g), lifted)
  BY DEF DeleteGroupOnly, Mutate, WithoutGroup, LiftedTo
<1>3. parent' = WithoutGroup(parent, g) /\ DOMAIN parent' = DOMAIN parent \ {g}
  <2>1. /\ WithoutGroup(parent, g) \in Hierarchy
        /\ Forest(WithoutGroup(parent, g)) /\ ParentsResolve(WithoutGroup(parent, g))
    BY <1>1, UngroupLeavesForest
  <2>2. NormalizeGroups(WithoutGroup(parent, g)) = WithoutGroup(parent, g)
    BY <2>1, RepairKeepsForest
  <2>3. DOMAIN WithoutGroup(parent, g) = DOMAIN parent \ {g}
    BY DEF WithoutGroup
  <2>. QED
    BY <1>2, <2>2, <2>3
<1>4. ASSUME NEW it \in items
      PROVE  /\ Lifted(it) \in Item
             /\ Lifted(it).id = it.id /\ Lifted(it).stamp = it.stamp
             /\ Lifted(it).group = LiftedTo(parent, g, it.group)
             /\ Lifted(it).group \in (DOMAIN parent \ {g}) \cup {NoGroup}
             /\ it.group \in Ref
  <2>1. it \in Item /\ it.group \in DOMAIN parent \cup {NoGroup}
    BY <1>1 DEF ItemsResolve
  <2>2. LiftedTo(parent, g, it.group) \in Ref
    BY <1>1, <2>1 DEF LiftedTo, Item
  <2>3. LiftedTo(parent, g, it.group) \in (DOMAIN parent \ {g}) \cup {NoGroup}
    BY <1>1, <2>1, NoSelfParent DEF LiftedTo, ParentsResolve
  <2>. QED
    BY <2>1, <2>2, <2>3 DEF Item
<1>5. items' = lifted
  <2>1. lifted \in SUBSET Item
    BY <1>4
  <2>2. DOMAIN WithoutGroup(parent, g) = DOMAIN parent \ {g}
    BY DEF WithoutGroup
  <2>3. ItemsResolve(WithoutGroup(parent, g), lifted)
    BY <1>4, <2>2 DEF ItemsResolve
  <2>4. NoGroup \notin DOMAIN WithoutGroup(parent, g)
    BY <1>1, <2>2, NoGroupAssumption
  <2>. QED
    BY <1>2, <2>1, <2>3, <2>4, RepairKeepsItems
<1>6. ASSUME NEW a \in DOMAIN parent', NEW x \in DOMAIN parent'
      PROVE  AtOrAbove(parent, a, x) <=> AtOrAbove(parent', a, x)
  <2>1. x \in Ref /\ LiftedTo(parent, g, x) = x
    BY <1>1, <1>3 DEF LiftedTo, Ref
  <2>. QED
    BY <1>1, <1>3, <2>1, UngroupKeepsAbove
<1>7. ASSUME NEW it \in items
      PROVE  \E moved \in items' :
                 /\ moved.id = it.id /\ moved.stamp = it.stamp
                 /\ \A a \in DOMAIN parent' :
                       AtOrAbove(parent, a, it.group) <=> AtOrAbove(parent', a, moved.group)
  <2>1. \A a \in DOMAIN parent' :
          AtOrAbove(parent, a, it.group)
            <=> AtOrAbove(parent', a, LiftedTo(parent, g, it.group))
    BY <1>1, <1>3, <1>4, UngroupKeepsAbove
  <2>2. Lifted(it) \in items'
    BY <1>5
  <2> HIDE DEF Lifted
  <2>. QED
    BY <1>4, <2>1, <2>2
<1>. QED
  BY <1>3, <1>6, <1>7

(* Deleting only a group keeps every item and everything's place.          *)
THEOREM UngroupingKeepsThePlace == Spec => UngroupKeepsThePlace
<1>1. TypeOK /\ WellFormed =>
        \A g \in DOMAIN parent :
          DeleteGroupOnly(g) =>
              /\ DOMAIN parent' = DOMAIN parent \ {g}
              /\ \A a, x \in DOMAIN parent' : AtOrAbove(parent, a, x) <=> AtOrAbove(parent', a, x)
              /\ \A it \in items : \E moved \in items' :
                    /\ moved.id = it.id /\ moved.stamp = it.stamp
                    /\ \A a \in DOMAIN parent' :
                          AtOrAbove(parent, a, it.group) <=> AtOrAbove(parent', a, moved.group)
  BY PlacesAreKept
<1>. QED
  BY <1>1, TypeCorrect, AlwaysWellFormed, PTL DEF UngroupKeepsThePlace

(* No merge loses a copy, puts an older text in the place of a newer one   *)
(* or misses the newest text there is: one known copy gives way, if any,   *)
(* and only to the newest of the newer arrivals.                           *)
THEOREM MergingKeepsFreshItems == Spec => []MergeKeepsFreshItems
<1>1. TypeOK => MergeKeepsFreshItems
  <2> SUFFICES ASSUME TypeOK, NEW i \in ItemId, NEW file \in IncomingFiles,
                      NEW outcome \in MergeCopies(Copies(i), CopiesIn(file, i))
               PROVE  KeepsFresh(Copies(i), CopiesIn(file, i), outcome)
    BY DEF MergeKeepsFreshItems
  <2> DEFINE known == Copies(i)
             arriving == CopiesIn(file, i)
  <2>1. \A c \in known \cup arriving : c.stamp \in Nat
    BY LibraryAssumption DEF Copies, CopiesIn, TypeOK, File, Item, Stamp
  <2>2. outcome \in MergeCopies(known, arriving)
    OBVIOUS
  <2> SUFFICES KeepsFresh(known, arriving, outcome)
    OBVIOUS
  <2> HIDE DEF known, arriving
  <2>3. CASE arriving = {}
    BY <2>1, <2>2, <2>3 DEF MergeCopies, KeepsFresh
  <2>4. CASE arriving # {} /\ known = {}
    <3>1. PICK w \in Newest(arriving) : outcome = {w}
      BY <2>2, <2>4 DEF MergeCopies
    <3>. QED
      BY <2>1, <2>4, <3>1 DEF Newest, KeepsFresh
  <2>5. CASE arriving # {} /\ known # {}
    <3>1. PICK t \in known :
            outcome \in { (known \ {t}) \cup {w} :
                            w \in Newest({t} \cup {a \in arriving : a.stamp > t.stamp}) }
      BY <2>2, <2>5 DEF MergeCopies
    <3>2. PICK w \in Newest({t} \cup {a \in arriving : a.stamp > t.stamp}) :
            outcome = (known \ {t}) \cup {w}
      BY <3>1
    <3>3. /\ w = t \/ (w \in arriving /\ w.stamp > t.stamp)
          /\ \A a \in arriving : w.stamp >= a.stamp
          /\ w.stamp >= t.stamp
      BY <2>1, <3>1, <3>2 DEF Newest
    <3>4. known \ outcome \subseteq {t} /\ outcome \ known \subseteq {w} /\ w \in outcome
      BY <3>2
    <3>5. \A gone \in known \ outcome : gone = t /\ w \in arriving /\ w.stamp > t.stamp
      BY <3>2, <3>3, <3>4
    <3>6. outcome \subseteq known \cup arriving
      BY <3>1, <3>2, <3>3
    <3>7. \A it \in known \cup arriving : \E kept \in outcome : kept.stamp >= it.stamp
      BY <2>1, <3>1, <3>2, <3>3, <3>4
    <3>. QED
      BY <3>4, <3>5, <3>6, <3>7 DEF KeepsFresh
  <2>. QED
    BY <2>3, <2>4, <2>5
<1>. QED
  BY <1>1, TypeCorrect, PTL
=============================================================================
