-------------------------- MODULE FunctionsProofs ---------------------------
(***************************************************************************)
(* Theorems about functions without state, for any input and not only the  *)
(* ones the run enumerates: the walks over groups compute the operators of *)
(* module Normalize, files and items that are saved load again, every way  *)
(* an item is made gives a sound one, the form saves what it showed, a     *)
(* chain of commands hides none of its steps, and the tree shows the whole *)
(* of any view.  The last section shows that the inputs of the run are     *)
(* among these, so that the properties the run checks are invariants by    *)
(* the general theorems.                                                   *)
(***************************************************************************)

EXTENDS MCFunctions, FiniteSetTheorems, WellFoundedInduction, TLAPS

-----------------------------------------------------------------------------
(* The loops of normalize.ts compute the operators of module Normalize,    *)
(* for any set of group ids and any hierarchy, cyclic or not.  Each loop   *)
(* has the invariant that makes it right: the groups visited are closed    *)
(* under "parent of" but for the current one, and every set the definition *)
(* quantifies over that holds the start holds all of them.                 *)

HasCycleInv ==
    call.fn = "hasCycle" =>
        /\ call.group \in visited
        /\ visited \in SUBSET Known
        /\ \A x \in visited : parent[x] \in visited \cup {current}
        /\ \A S \in SUBSET Known :
              call.group \in S /\ (\A x \in S : parent[x] \in S)
                  => visited \subseteq S /\ current \in S

WouldCreateCycleInv ==
    call.fn = "wouldCreateCycle" =>
        /\ visited \in SUBSET (Known \ {call.group})
        /\ \A x \in visited : parent[x] \in visited \cup {current}
        /\ call.target \in visited \cup {current}
        /\ \A U \in SUBSET Ref :
              call.target \in U /\ ClosedUpward(parent, U)
                  => visited \subseteq U /\ current \in U

DescendantsInv ==
    call.fn = "descendantGroupIds" =>
        /\ visited \cup queue \subseteq DescendantGroupIds(parent, call.group)
        /\ \A x \in visited \cup {call.group} : Children(x) \subseteq visited \cup queue
        /\ ~running => queue = {}

Inv ==
    /\ TypeOK
    /\ HasCycleInv /\ HasCycleCorrect
    /\ WouldCreateCycleInv /\ WouldCreateCycleCorrect
    /\ DescendantsInv

-----------------------------------------------------------------------------
(* A group's parent is a reference, whatever the hierarchy. *)
LEMMA ParentType ==
    ASSUME TypeOK, NEW g \in Known
    PROVE  g \in GroupId /\ parent[g] \in Ref
BY DEF TypeOK, Calls, Hierarchy, Known, parent

(* The loops start with their invariants true and no answer given. *)
LEMMA InitInv == Init => Inv
<1> SUFFICES ASSUME Init PROVE Inv
  OBVIOUS
<1>1. TypeOK
  <2>1. call \in Calls
    BY DEF Init
  <2>2. Known \in SUBSET GroupId /\ parent \in [Known -> Ref]
    BY <2>1 DEF Calls, Hierarchy, Known, parent
  <2>3. call.fn = "hasCycle" => call.group \in Known
    BY <2>1 DEF Calls, Known, parent
  <2>. QED
    BY <2>1, <2>2, <2>3 DEF Init, TypeOK, Ref, Calls, Children
<1>2. HasCycleInv
  BY <1>1 DEF Init, HasCycleInv, TypeOK, Calls, Known, parent
<1>3. WouldCreateCycleInv
  BY DEF Init, WouldCreateCycleInv
<1>4. DescendantsInv
  <2> SUFFICES ASSUME call.fn = "descendantGroupIds", NEW c \in Children(call.group)
               PROVE  c \in DescendantGroupIds(parent, call.group)
    BY DEF Init, DescendantsInv
  <2>. QED
    BY DEF Children, DescendantGroupIds, AtOrAbove, Known
<1>. QED
  BY <1>1, <1>2, <1>3, <1>4 DEF Init, Inv, HasCycleCorrect, WouldCreateCycleCorrect

(* A turn of hasCycle keeps its invariant, and returns the right answer.   *)
LEMMA HasCycleStep ==
    ASSUME Inv, HasCycleTurn
    PROVE  HasCycleInv' /\ HasCycleCorrect'
<1> USE DEF Inv
<1>1. call' = call /\ call.fn = "hasCycle" /\ running /\ parent' = parent /\ Known' = Known
  BY DEF HasCycleTurn, Return, Climb, parent, Known
<1>2. CASE current \notin Known /\ Return(FALSE)
  <2>1. ~HasCycle(parent, call.group)
    BY <1>1, <1>2 DEF HasCycleInv, HasCycle, Known
  <2>2. answer' = FALSE /\ visited' = visited /\ current' = current
    BY <1>2 DEF Return
  <2>3. HasCycleInv'
    BY <1>1, <2>2 DEF HasCycleInv
  <2>4. HasCycleCorrect'
    BY <1>1, <2>1, <2>2 DEF HasCycleCorrect, HasCycle
  <2>. QED
    BY <2>3, <2>4
<1>3. CASE current \in Known /\ current \in visited /\ Return(TRUE)
  <2>1. \A x \in visited : parent[x] \in visited
    BY <1>1, <1>3 DEF HasCycleInv
  <2>2. HasCycle(parent, call.group)
    BY <1>1, <2>1 DEF HasCycleInv, HasCycle, Known
  <2>3. answer' = TRUE /\ visited' = visited /\ current' = current
    BY <1>3 DEF Return
  <2>4. HasCycleInv'
    BY <1>1, <2>3 DEF HasCycleInv
  <2>5. HasCycleCorrect'
    BY <1>1, <2>2, <2>3 DEF HasCycleCorrect, HasCycle
  <2>. QED
    BY <2>4, <2>5
<1>4. CASE current \in Known /\ current \notin visited /\ Climb
  <2>1. running' /\ visited' = visited \cup {current} /\ current' = parent[current]
    BY <1>1, <1>4 DEF Climb
  <2>2. HasCycleInv'
    BY <1>1, <1>4, <2>1 DEF HasCycleInv
  <2>. QED
    BY <2>1, <2>2 DEF HasCycleCorrect
<1>. QED
  BY <1>2, <1>3, <1>4 DEF HasCycleTurn

(* A turn of wouldCreateCycle keeps its invariant, and returns the right   *)
(* answer.                                                                 *)
LEMMA WouldCreateCycleStep ==
    ASSUME Inv, WouldCreateCycleTurn
    PROVE  WouldCreateCycleInv' /\ WouldCreateCycleCorrect'
<1> USE DEF Inv
<1>1. /\ call' = call /\ call.fn = "wouldCreateCycle" /\ running
      /\ parent' = parent /\ Known' = Known
  BY DEF WouldCreateCycleTurn, Return, Climb, parent, Known
<1>2. /\ call.group \in GroupId /\ call.target \in Ref /\ current \in Ref
      /\ Known \subseteq GroupId /\ NoGroup \notin GroupId
  BY NoGroupAssumption DEF TypeOK, Calls, Known, parent, Hierarchy
<1>3. ASSUME NEW value, Return(value), value = WouldCreateCycle(parent, call.group, call.target)
      PROVE  WouldCreateCycleInv' /\ WouldCreateCycleCorrect'
  <2>1. answer' = value /\ visited' = visited /\ current' = current
    BY <1>3 DEF Return
  <2>2. WouldCreateCycleInv'
    BY <1>1, <2>1 DEF WouldCreateCycleInv, ClosedUpward
  <2>3. WouldCreateCycleCorrect'
    BY <1>1, <1>3, <2>1 DEF WouldCreateCycleCorrect, WouldCreateCycle, AtOrAbove, ClosedUpward
  <2>. QED
    BY <2>2, <2>3
<1>4. CASE call.target = NoGroup /\ Return(FALSE)
  BY <1>3, <1>4 DEF WouldCreateCycle
<1>5. CASE call.target = call.group /\ Return(TRUE)
  BY <1>2, <1>3, <1>5 DEF WouldCreateCycle
<1>6. CASE call.target \notin {NoGroup, call.group} /\ current \notin Known /\ Return(FALSE)
  <2> DEFINE U == visited \cup {current}
  <2>1. call.group \notin Known \/ (call.group \notin U /\ call.target \in U)
    BY <1>1, <1>6 DEF WouldCreateCycleInv
  <2>2. U \in SUBSET Ref /\ ClosedUpward(parent, U)
    BY <1>1, <1>2, <1>6 DEF WouldCreateCycleInv, ClosedUpward, Known, Ref
  <2>3. ~WouldCreateCycle(parent, call.group, call.target)
    BY <1>6, <2>1, <2>2 DEF WouldCreateCycle, AtOrAbove, Known
  <2>4. FALSE = WouldCreateCycle(parent, call.group, call.target)
    BY <2>3 DEF WouldCreateCycle
  <2>. QED
    BY <1>3, <1>6, <2>4
<1>7. CASE /\ call.target \notin {NoGroup, call.group}
           /\ current \in Known /\ current = call.group /\ Return(TRUE)
  <2>1. AtOrAbove(parent, call.group, call.target)
    BY <1>1, <1>7 DEF WouldCreateCycleInv, AtOrAbove
  <2>2. WouldCreateCycle(parent, call.group, call.target)
    BY <1>7, <2>1 DEF WouldCreateCycle, Known
  <2>3. TRUE = WouldCreateCycle(parent, call.group, call.target)
    BY <2>2 DEF WouldCreateCycle
  <2>. QED
    BY <1>3, <1>7, <2>3
<1>8. CASE /\ call.target \notin {NoGroup, call.group}
           /\ current \in Known /\ current # call.group /\ current \in visited /\ Return(FALSE)
  <2>1. visited \in SUBSET Ref /\ ClosedUpward(parent, visited)
    BY <1>1, <1>2, <1>8 DEF WouldCreateCycleInv, ClosedUpward, Ref
  <2>2. call.target \in visited /\ call.group \notin visited
    BY <1>1, <1>8 DEF WouldCreateCycleInv
  <2>3. FALSE = WouldCreateCycle(parent, call.group, call.target)
    BY <1>8, <2>1, <2>2 DEF WouldCreateCycle, AtOrAbove
  <2>. QED
    BY <1>3, <1>8, <2>3
<1>9. CASE /\ call.target \notin {NoGroup, call.group}
           /\ current \in Known /\ current # call.group /\ current \notin visited /\ Climb
  <2>1. running' /\ visited' = visited \cup {current} /\ current' = parent[current]
    BY <1>1, <1>9 DEF Climb
  <2>2. WouldCreateCycleInv'
    BY <1>1, <1>9, <2>1 DEF WouldCreateCycleInv, ClosedUpward, Known
  <2>. QED
    BY <2>1, <2>2 DEF WouldCreateCycleCorrect
<1>. QED
  BY <1>4, <1>5, <1>6, <1>7, <1>8, <1>9 DEF WouldCreateCycleTurn

(* A turn of descendantGroupIds keeps its invariant: what is below a       *)
(* visited group is visited or queued, and nothing else ever is.           *)
LEMMA DescendantsStep ==
    ASSUME Inv, DescendantsTurn
    PROVE  DescendantsInv'
<1> USE DEF Inv
<1>1. /\ call' = call /\ call.fn = "descendantGroupIds" /\ running
      /\ parent' = parent /\ Known' = Known
  BY DEF DescendantsTurn, Return, parent, Known
<1>2. CASE queue = {} /\ Return(answer)
  BY <1>1, <1>2 DEF Return, DescendantsInv, DescendantGroupIds, AtOrAbove, ClosedUpward, Children
<1>3. ASSUME NEW id \in queue, running' = running,
             id \in visited, queue' = queue \ {id}, visited' = visited
      PROVE  DescendantsInv'
  BY <1>1, <1>3 DEF DescendantsInv, DescendantGroupIds, AtOrAbove, ClosedUpward, Children
<1>4. ASSUME NEW id \in queue, running' = running,
             visited' = visited \cup {id}, queue' = (queue \ {id}) \cup Children(id)
      PROVE  DescendantsInv'
  <2>1. Children(id) \subseteq DescendantGroupIds(parent, call.group)
    <3> SUFFICES ASSUME NEW c \in Children(id), NEW U \in SUBSET Ref,
                        id \in U, ClosedUpward(parent, U)
                 PROVE  call.group \in U
      BY DEF Children, DescendantGroupIds, AtOrAbove, Known
    <3>1. id \in Known /\ AtOrAbove(parent, call.group, parent[id])
      BY <1>1 DEF DescendantsInv, DescendantGroupIds, Known
    <3>2. parent[id] \in U
      BY <3>1 DEF ClosedUpward, Known
    <3>. QED
      BY <3>1, <3>2 DEF AtOrAbove
  <2>2. DescendantGroupIds(parent, call.group)' = DescendantGroupIds(parent, call.group)
    BY <1>1 DEF DescendantGroupIds, AtOrAbove, ClosedUpward
  <2>3. \A x : Children(x)' = Children(x)
    BY <1>1 DEF Children
  <2>. QED
    BY <1>1, <1>4, <2>1, <2>2, <2>3 DEF DescendantsInv
<1>. QED
  BY <1>1, <1>2, <1>3, <1>4 DEF DescendantsTurn

LEMMA TypeStep == ASSUME TypeOK, [Next]_vars PROVE TypeOK'
<1>1. CASE HasCycleTurn
  BY <1>1, ParentType DEF TypeOK, HasCycleTurn, Return, Climb, Known
<1>2. CASE WouldCreateCycleTurn
  BY <1>2, ParentType DEF TypeOK, WouldCreateCycleTurn, Return, Climb, Known
<1>3. CASE DescendantsTurn
  BY <1>3, ParentType DEF TypeOK, DescendantsTurn, Return, Children
<1>4. CASE UNCHANGED vars
  BY <1>4 DEF TypeOK, vars
<1>. QED
  BY <1>1, <1>2, <1>3, <1>4 DEF Next

(* A turn of one function leaves the invariants of the others vacuous.     *)
LEMMA InvStep == Inv /\ [Next]_vars => Inv'
<1> SUFFICES ASSUME Inv, [Next]_vars PROVE Inv'
  OBVIOUS
<1>1. TypeOK'
  BY TypeStep DEF Inv
<1>2. CASE HasCycleTurn
  <2>1. call'.fn = "hasCycle"
    BY <1>2 DEF HasCycleTurn, Return, Climb
  <2>. QED
    BY <1>1, <1>2, <2>1, HasCycleStep
    DEF Inv, WouldCreateCycleInv, WouldCreateCycleCorrect, DescendantsInv
<1>3. CASE WouldCreateCycleTurn
  <2>1. call'.fn = "wouldCreateCycle"
    BY <1>3 DEF WouldCreateCycleTurn, Return, Climb
  <2>. QED
    BY <1>1, <1>3, <2>1, WouldCreateCycleStep DEF Inv, HasCycleInv, HasCycleCorrect, DescendantsInv
<1>4. CASE DescendantsTurn
  <2>1. call'.fn = "descendantGroupIds"
    BY <1>4 DEF DescendantsTurn, Return
  <2>. QED
    BY <1>1, <1>4, <2>1, DescendantsStep
    DEF Inv, HasCycleInv, HasCycleCorrect, WouldCreateCycleInv, WouldCreateCycleCorrect
<1>5. CASE UNCHANGED vars
  BY <1>1, <1>5
  DEF Inv, vars, HasCycleInv, HasCycleCorrect, WouldCreateCycleInv, WouldCreateCycleCorrect,
      DescendantsInv, HasCycle, WouldCreateCycle, AtOrAbove, ClosedUpward,
      DescendantGroupIds, Children, Known, parent
<1>. QED
  BY <1>2, <1>3, <1>4, <1>5 DEF Next

LEMMA Invariance == Spec => []Inv
BY InitInv, InvStep, PTL DEF Spec

(* When its queue is empty, descendantGroupIds has found every descendant: *)
(* the groups it has not seen, other than the given one, are closed under  *)
(* "parent of", so no chain of parents leads from them to it.              *)
LEMMA DescendantsDone == Inv => DescendantsCorrect
<1> SUFFICES ASSUME Inv, call.fn = "descendantGroupIds", ~running
             PROVE  visited = DescendantGroupIds(parent, call.group)
  BY DEF DescendantsCorrect
<1>1. visited \subseteq DescendantGroupIds(parent, call.group)
  BY DEF Inv, DescendantsInv
<1>2. SUFFICES ASSUME NEW d \in DescendantGroupIds(parent, call.group), d \notin visited
               PROVE  FALSE
  BY <1>1
<1>3. \A x \in visited \cup {call.group} : Children(x) \subseteq visited
  BY DEF Inv, DescendantsInv
<1> DEFINE U == Ref \ (visited \cup {call.group})
<1>4. d \in Known /\ parent[d] \in U
  BY <1>2, <1>3, ParentType DEF DescendantGroupIds, Children, Known, Inv
<1>5. ClosedUpward(parent, U)
  BY <1>3, ParentType DEF ClosedUpward, Children, Known, Inv
<1>6. call.group \in U
  <2>1. AtOrAbove(parent, call.group, parent[d])
    BY <1>2 DEF DescendantGroupIds
  <2>. QED
    BY <2>1, <1>4, <1>5 DEF AtOrAbove
<1>. QED
  BY <1>6

(* hasCycle is right on every hierarchy.                                   *)
THEOREM HasCycleIsCorrect == Spec => []HasCycleCorrect
BY Invariance, PTL DEF Inv

(* wouldCreateCycle is right on every hierarchy.                           *)
THEOREM WouldCreateCycleIsCorrect == Spec => []WouldCreateCycleCorrect
BY Invariance, PTL DEF Inv

(* descendantGroupIds is right on every hierarchy.                         *)
THEOREM DescendantsAreCorrect == Spec => []DescendantsCorrect
BY Invariance, DescendantsDone, PTL

-----------------------------------------------------------------------------
(* What the functions are given.                                           *)

JsonValue == Format!Value \cup {"object"}

(* An item as JSON: without a context it has none of its lists. *)
RawItem ==
    {i \in [Format!Field -> JsonValue] :
        i.context # "object" => \A f \in Format!Context : i[f] = "undefined"}

(* What a field of an item in memory may have. *)
Held(f) ==
    IF f \in Format!Times THEN {"number"}
    ELSE IF f = "tags" THEN Format!Lists
    ELSE Format!Accepted(f)

SoundItem == {i \in [Format!Field -> JsonValue] : \A f \in Format!Field : i[f] \in Held(f)}

(* What the form may post: what its inputs hold, whatever is typed. *)
Posted ==
    {p \in [Format!Field \ ({"id", "context", "pinned"} \cup Format!Times) -> Format!Value] :
        /\ p.type \in {"snippet", "command"}
        /\ \A f \in {"title", "body", "description", "prefix", "groupId"} : p[f] \in Format!Strings
        /\ \A f \in {"tags", "steps"} \cup Format!Context : p[f] \in Format!Lists
        /\ p.cwd \in {"workspace", "fileDir"} /\ p.confirm \in {"true", "false"}}

-----------------------------------------------------------------------------
(* Files: Formats.                                                         *)

LEMMA FieldsAre ==
    /\ Format!Field = {"id", "type", "title", "body", "description", "prefix", "groupId", "tags", "context",
          "cwd", "steps", "languages", "globs", "markers", "confirm", "pinned", "createdAt", "updatedAt"}
    /\ Format!Context = {"languages", "globs", "markers"}
    /\ Format!Times = {"createdAt", "updatedAt"}
    /\ Format!Flags = {"confirm", "pinned"}
BY DEF Format!Field, Format!Context, Format!Flags, Format!Times

LEMMA ValuesAre ==
    /\ Format!NonEmpty = {"blank", "padded", "text"}
    /\ Format!Strings = {"empty", "blank", "padded", "text"}
    /\ Format!Filled = {"list", "pieces", "commas", "lines", "spaced", "blanks", "separators", "loose"}
    /\ Format!Lists = {"list", "pieces", "commas", "lines", "spaced", "blanks", "separators", "loose", "empty"}
BY DEF Format!NonEmpty, Format!Strings, Format!Filled, Format!Lists

(* What is left of a string that is trimmed, and of a list that is split. *)
LEMMA TrimmedIs ==
    /\ Format!Trimmed("undefined") = "undefined" /\ Format!Trimmed("empty") = "undefined"
    /\ Format!Trimmed("blank") = "undefined" /\ Format!Trimmed("padded") = "text"
    /\ \A v : v \notin {"empty", "blank", "padded"} => Format!Trimmed(v) = v
BY DEF Format!Trimmed

LEMMA SplitIs ==
    ASSUME NEW list \in Format!Lists
    PROVE  /\ Format!SplitList(list) \in Format!Lists /\ Format!SplitLines(list) \in Format!Lists
           /\ list \in {"list", "pieces", "empty"} => Format!SplitList(list) = list
           /\ list \in {"list", "pieces", "commas", "separators", "empty"} => Format!SplitLines(list) = list
BY ValuesAre DEF Format!SplitList, Format!SplitLines, Format!SplitAgain

LEMMA HeldAre ==
    /\ Held("tags") = Format!Lists
    /\ Held("context") = {"undefined", "object"}
    /\ \A f \in Format!Times : Held(f) = {"number"}
    /\ \A f \in Format!Context : Held(f) = Format!Lists \cup {"undefined"}
    /\ \A f \in Format!Field : Held(f) \subseteq Format!Accepted(f)
    /\ \A f \in Format!Field : Held(f) \subseteq JsonValue
BY FieldsAre, ValuesAre DEF JsonValue, Held, Format!Accepted, Format!Value

(* What orderedItem writes of each field. *)
LEMMA OrderedContext ==
  ASSUME NEW i \in SoundItem
  PROVE  /\ Format!OrderedItem(i).context =
                IF \E l \in Format!Context : i[l] \in Format!Filled THEN "object" ELSE "undefined"
         /\ \A f \in Format!Field \ {"context"} :
                Format!OrderedItem(i)[f] =
                    IF i[f] \in {"empty", "false"} /\ f \notin {"id", "title", "body", "tags", "groupId"}
                    THEN "undefined" ELSE i[f]
<1>1. i["context"] \in {"undefined", "object"}
  BY FieldsAre, HeldAre DEF SoundItem
<1> QED
  BY <1>1, FieldsAre DEF Format!OrderedItem

(* What is written of a sound item is sound, and the validator accepts it. *)
LEMMA OrderedIsSound ==
  ASSUME NEW i \in SoundItem
  PROVE  /\ Format!OrderedItem(i) \in SoundItem
         /\ Format!ItemErrors(Format!OrderedItem(i)) = {}
<1> DEFINE o == Format!OrderedItem(i)
<1>1. o.context \in Held("context")
  BY OrderedContext, HeldAre
<1>2. \A f \in Format!Field \ {"context"} : o[f] \in Held(f)
  <2> TAKE f \in Format!Field \ {"context"}
  <2>1. i[f] \in Held(f)
    BY DEF SoundItem
  <2>2. i[f] \in {"empty", "false"} =>
            "undefined" \in Held(f) \/ f \in {"id", "title", "body", "tags", "groupId"}
    BY <2>1, FieldsAre, ValuesAre DEF Held, Format!Accepted
  <2> QED
    BY <2>1, <2>2, OrderedContext
<1>3. DOMAIN o = Format!Field /\ o = [f \in Format!Field |-> o[f]]
  BY DEF Format!OrderedItem
<1> HIDE DEF o
<1>4. o \in SoundItem
  BY <1>1, <1>2, <1>3, HeldAre DEF SoundItem
<1>5. Format!ItemErrors(o) = {}
  BY <1>1, <1>2, HeldAre DEF Format!ItemErrors
<1> QED
  BY <1>4, <1>5 DEF o

(* What is read from what was written. *)
LEMMA WrittenIsRead ==
  ASSUME NEW i \in SoundItem
  PROVE  LET o == Format!OrderedItem(i) IN
         /\ \A f \in Format!Field \ {"context"} : Format!Says(Format!ValidItem(o), f) = Format!Says(i, f)
         /\ Format!ValidItem(o) = o
<1> DEFINE o == Format!OrderedItem(i)
<1>1. o \in SoundItem
  BY OrderedIsSound
<1>2. \A f \in Format!Context : o.context = "undefined" => o[f] = "undefined"
  <2> SUFFICES ASSUME NEW f \in Format!Context, o.context = "undefined" PROVE o[f] = "undefined"
    OBVIOUS
  <2>1. i[f] \notin Format!Filled
    BY OrderedContext
  <2>2. i[f] \in {"empty", "undefined"}
    BY <2>1, HeldAre, FieldsAre, ValuesAre DEF SoundItem
  <2> QED
    BY <2>2, OrderedContext, FieldsAre
<1>3. \A f \in Format!Field : Format!ValidItem(o)[f] = o[f]
  BY <1>1, <1>2, HeldAre, FieldsAre, ValuesAre DEF Format!ValidItem, SoundItem
<1>4. Format!ValidItem(o) = o
  BY <1>1, <1>3 DEF Format!ValidItem, SoundItem
<1>5. \A f \in Format!Field \ {"context"} : Format!Says(o, f) = Format!Says(i, f)
  BY OrderedContext DEF Format!Says
<1> QED
  BY <1>4, <1>5

(* A file with any item whose fields hold what they may in memory is read  *)
(* again without an error, and has the item with the same fields: what     *)
(* serializeFile leaves out, validateFile puts back.                       *)
THEOREM SoundItemsLoadAgain ==
  ASSUME NEW i \in SoundItem
  PROVE  Format!LoadsAgain(i)
<1> DEFINE o == Format!OrderedItem(i)
           saved == Format!SerializeFile(Format!FileWith(i))
<1>1. saved = [syntax |-> "object", schemaVersion |-> "1", groupsAre |-> "list", groups |-> {},
               itemsAre |-> "list", items |-> {o}]
  BY DEF Format!SerializeFile, Format!FileWith
<1>2. Format!ItemErrors(o) = {} /\ Format!ValidItem(o) = o
  BY OrderedIsSound, WrittenIsRead
<1>3. Format!SayTheSame(o, i, Format!Field)
  BY <1>2, WrittenIsRead DEF Format!SayTheSame
<1> HIDE DEF o, saved
<1>4. Format!ParseFile(saved) = Format!ValidateFile(saved)
  BY <1>1 DEF Format!ParseFile
<1>5. Format!Migrated(saved.schemaVersion) = "1"
  BY <1>1 DEF Format!Migrated
<1>6. /\ {Format!ValidGroup(g) : g \in saved.groups} = {}
      /\ {Format!ValidItem(x) : x \in saved.items} = {o}
  BY <1>1, <1>2
<1>7. Format!ParseFile(saved) = [ok |-> TRUE, groups |-> {}, items |-> {o}]
  BY <1>1, <1>2, <1>4, <1>5, <1>6 DEF Format!ValidateFile
<1> QED
  BY <1>3, <1>7 DEF Format!LoadsAgain, saved

(* An item that the validator accepts is sound, and says what it said. *)
LEMMA ValidIsSound ==
  ASSUME NEW i \in RawItem, Format!ItemErrors(i) = {}
  PROVE  /\ Format!ValidItem(i) \in SoundItem
         /\ \A f \in Format!Field \ ({"context"} \cup Format!Times) :
                Format!Says(Format!ValidItem(i), f) = Format!Says(i, f)
<1> DEFINE v == Format!ValidItem(i)
<1>1. \A f \in Format!Field \ Format!Context : i[f] \in Format!Accepted(f)
  BY DEF Format!ItemErrors
<1>2. i.context \in {"undefined", "object"}
  BY <1>1, FieldsAre DEF Format!Accepted
<1>3. \A f \in Format!Context : v[f] \in Held(f) /\ v[f] = i[f]
  <2>1. \A f \in Format!Context : i.context = "object" => i[f] \in Format!Accepted(f)
    BY FieldsAre DEF Format!ItemErrors
  <2> QED
    BY <1>2, <2>1, FieldsAre DEF Held, Format!Accepted, Format!ValidItem, RawItem
<1>4. \A f \in Format!Times : v[f] \in Held(f)
  BY FieldsAre DEF Format!ValidItem, Held
<1>5. v.tags \in Held("tags") /\ v.tags = IF i.tags = "undefined" THEN "empty" ELSE i.tags
  BY <1>1, FieldsAre, ValuesAre DEF Format!ValidItem, Format!Accepted, Held
<1>6. \A f \in Format!Field \ (Format!Context \cup Format!Times \cup {"tags"}) : v[f] = i[f]
  BY FieldsAre DEF Format!ValidItem
<1>7. \A f \in Format!Field \ (Format!Context \cup Format!Times \cup {"tags"}) : v[f] \in Held(f)
  BY <1>1, <1>6 DEF Held
<1>8. v \in [Format!Field -> JsonValue]
  BY FieldsAre DEF Format!ValidItem, RawItem, JsonValue, Format!Value, Format!Strings, Format!Lists
<1> HIDE DEF v
<1>9. v \in SoundItem
  BY <1>3, <1>4, <1>5, <1>7, <1>8 DEF SoundItem
<1>10. \A f \in Format!Field \ ({"context"} \cup Format!Times) : Format!Says(v, f) = Format!Says(i, f)
  <2> TAKE f \in Format!Field \ ({"context"} \cup Format!Times)
  <2>1. v[f] = i[f] \/ (v[f] = "empty" /\ i[f] = "undefined")
    BY <1>3, <1>5, <1>6
  <2> QED
    BY <2>1 DEF Format!Says
<1> QED
  BY <1>9, <1>10 DEF v

RawGroup == [id : JsonValue, name : JsonValue, parentId : JsonValue, order : JsonValue]

(* Any text of a file: what of it is not there is empty. *)
Document ==
    [syntax : {"object"}, schemaVersion : {"undefined", "other"} \cup {"0", "1", "2"},
     groupsAre : {"undefined", "list", "other"}, groups : SUBSET RawGroup,
     itemsAre : {"undefined", "list", "other"}, items : SUBSET RawItem]
    \cup [syntax : {"blank", "invalid", "notAnObject"}, groups : {{}}, items : {{}}]

(* A file that is sound in memory is read as it was written. *)
LEMMA SavedIsRead ==
  ASSUME NEW file, file.items \subseteq SoundItem, file.groups \subseteq RawGroup,
         \A g \in file.groups : Format!GroupErrors(g) = {} /\ g.order = "number"
  PROVE  LET saved == Format!SerializeFile(file)
         IN  Format!ParseFile(saved) = [ok |-> TRUE, groups |-> saved.groups, items |-> saved.items]
<1> DEFINE saved == Format!SerializeFile(file)
<1>1. /\ saved.syntax = "object" /\ saved.schemaVersion = "1"
      /\ saved.groupsAre = "list" /\ saved.itemsAre = "list"
      /\ saved.groups = file.groups
      /\ saved.items = {Format!OrderedItem(i) : i \in file.items}
  BY DEF Format!SerializeFile
<1> HIDE DEF saved
<1>2. \A o \in saved.items : Format!ItemErrors(o) = {} /\ Format!ValidItem(o) = o
  BY <1>1, OrderedIsSound, WrittenIsRead
<1>3. \A g \in saved.groups : Format!ValidGroup(g) = g
  BY <1>1 DEF Format!ValidGroup, RawGroup
<1>4. Format!ParseFile(saved) = Format!ValidateFile(saved)
  BY <1>1 DEF Format!ParseFile
<1>5. Format!Migrated(saved.schemaVersion) = "1"
  BY <1>1 DEF Format!Migrated
<1>6. /\ {Format!ValidGroup(g) : g \in saved.groups} = saved.groups
      /\ {Format!ValidItem(i) : i \in saved.items} = saved.items
  BY <1>2, <1>3
<1>7. \A g \in saved.groups : Format!GroupErrors(g) = {}
  BY <1>1
<1> QED
  BY <1>1, <1>2, <1>4, <1>5, <1>6, <1>7 DEF Format!ValidateFile, saved

(* Any text that parseFile accepts is rewritten, with the groups and items *)
(* it had, to a text that is accepted and read as it was written.          *)
THEOREM FilesAreRewritten ==
  ASSUME NEW doc \in Document
  PROVE  Format!Rewritten(doc)
<1> DEFINE file == Format!ParseFile(doc)
           saved == Format!SerializeFile(file)
<1> SUFFICES ASSUME file.ok
             PROVE  /\ Format!ParseFile(saved) = [ok |-> TRUE, groups |-> saved.groups, items |-> saved.items]
                    /\ \A g \in doc.groups : \E h \in saved.groups :
                          \A f \in {"id", "name", "parentId"} : g[f] = h[f]
                    /\ \A i \in doc.items : \E j \in saved.items :
                          Format!SayTheSame(i, j, Format!Field \ Format!Times)
  BY DEF Format!Rewritten
<1>1. /\ file.groups = {Format!ValidGroup(g) : g \in doc.groups}
      /\ file.items = {Format!ValidItem(i) : i \in doc.items}
      /\ \A g \in doc.groups : Format!GroupErrors(g) = {}
      /\ \A i \in doc.items : Format!ItemErrors(i) = {}
  <2>1. CASE doc.syntax = "object"
    <3>1. file = Format!ValidateFile(doc)
      BY <2>1 DEF Format!ParseFile
    <3>2. file # Format!Refused
      BY DEF Format!Refused
    <3> QED
      BY <3>1, <3>2 DEF Format!ValidateFile
  <2>2. CASE doc.syntax # "object"
    <3>1. doc.groups = {} /\ doc.items = {} /\ doc.syntax \in {"blank", "invalid", "notAnObject"}
      BY <2>2 DEF Document
    <3>2. file = [ok |-> TRUE, groups |-> {}, items |-> {}] \/ file = Format!Refused
      BY <3>1 DEF Format!ParseFile
    <3> QED
      BY <3>1, <3>2 DEF Format!Refused
  <2> QED BY <2>1, <2>2
<1>2. doc.groups \subseteq RawGroup /\ doc.items \subseteq RawItem
  BY DEF Document
<1> HIDE DEF file
<1>3. file.items \subseteq SoundItem
  BY <1>1, <1>2, ValidIsSound
<1>4. \A g \in doc.groups : LET h == Format!ValidGroup(g)
                            IN  /\ h \in RawGroup /\ Format!GroupErrors(h) = {} /\ h.order = "number"
                                /\ \A f \in {"id", "name", "parentId"} : g[f] = h[f]
  BY <1>1, <1>2 DEF Format!ValidGroup, Format!GroupErrors, RawGroup, JsonValue, Format!Value
<1>5. /\ file.groups \subseteq RawGroup
      /\ \A h \in file.groups : Format!GroupErrors(h) = {} /\ h.order = "number"
  BY <1>1, <1>4
<1>6. Format!ParseFile(saved) = [ok |-> TRUE, groups |-> saved.groups, items |-> saved.items]
  BY <1>3, <1>5, SavedIsRead
<1>7. saved.groups = file.groups /\ saved.items = {Format!OrderedItem(i) : i \in file.items}
  BY DEF Format!SerializeFile
<1> HIDE DEF saved
<1>8. ASSUME NEW i \in doc.items
      PROVE  \E j \in saved.items : Format!SayTheSame(i, j, Format!Field \ Format!Times)
  <2> DEFINE v == Format!ValidItem(i)
             o == Format!OrderedItem(v)
  <2>1. v \in SoundItem /\ o \in saved.items
    BY <1>1, <1>2, <1>7, ValidIsSound
  <2>2. \A f \in Format!Field \ ({"context"} \cup Format!Times) :
           Format!Says(v, f) = Format!Says(i, f) /\ Format!Says(o, f) = Format!Says(v, f)
    BY <1>1, <1>2, <2>1, ValidIsSound, WrittenIsRead
  <2> QED
    BY <2>1, <2>2 DEF Format!SayTheSame
<1>9. ASSUME NEW g \in doc.groups
      PROVE  \E h \in saved.groups : \A f \in {"id", "name", "parentId"} : g[f] = h[f]
  <2>1. Format!ValidGroup(g) \in saved.groups
    BY <1>1, <1>7
  <2> QED
    BY <1>4, <2>1, Zenon
<1> QED
  BY <1>6, <1>8, <1>9, Zenon

(* One field of an item takes a value it may have. *)
LEMMA ChangedIsSound ==
  ASSUME NEW i \in SoundItem, NEW f \in Format!Field, NEW v \in Held(f)
  PROVE  [i EXCEPT ![f] = v] \in SoundItem
<1>1. v \in JsonValue
  BY HeldAre
<1>2. \A g \in Format!Field : [i EXCEPT ![f] = v][g] = IF g = f THEN v ELSE i[g]
  BY DEF SoundItem
<1> QED
  BY <1>1, <1>2 DEF SoundItem

LEMMA HeldValues ==
    /\ Held("title") = Format!NonEmpty
    /\ Held("body") = Format!Strings
    /\ Held("description") = Format!Strings \cup {"undefined"}
    /\ Held("prefix") = Format!Strings \cup {"undefined"}
    /\ Held("groupId") = Format!NonEmpty \cup {"undefined"}
    /\ Held("cwd") = {"undefined", "workspace", "fileDir"}
    /\ Held("steps") = Format!Lists \cup {"undefined"}
    /\ Held("confirm") = {"undefined", "true", "false"}
    /\ Held("pinned") = {"undefined", "true", "false"}
    /\ Held("type") = {"snippet", "command"}
    /\ Held("id") = Format!NonEmpty
BY FieldsAre DEF Held, Format!Accepted

LEMMA NewIsSound ==
  ASSUME NEW type \in {"snippet", "command"}, NEW title \in Format!NonEmpty, NEW body \in Format!Strings
  PROVE  Format!Item(type, title, body) \in SoundItem
<1> DEFINE i == Format!Item(type, title, body)
<1>1. /\ i.id = "text" /\ i.type = type /\ i.title = title /\ i.body = body /\ i.tags = "empty"
      /\ \A f \in Format!Times : i[f] = "number"
      /\ \A f \in Format!Field \ ({"id", "type", "title", "body", "tags"} \cup Format!Times) : i[f] = "undefined"
  BY FieldsAre DEF Format!Item
<1>2. DOMAIN i = Format!Field /\ i = [f \in Format!Field |-> i[f]]
  BY DEF Format!Item
<1> HIDE DEF i
<1>3. \A f \in Format!Field : i[f] \in Held(f)
  BY <1>1, FieldsAre, ValuesAre, HeldAre, HeldValues
<1>4. i \in SoundItem
  BY <1>2, <1>3, HeldAre DEF SoundItem
<1> QED
  BY <1>4 DEF i

LEMMA PlacedIsSound ==
  ASSUME NEW i \in SoundItem, NEW group \in Format!NonEmpty \cup {"undefined"},
         NEW languages \in Format!Lists \cup {"undefined"}
  PROVE  /\ Format!InGroup(i, group) \in SoundItem
         /\ Format!ForLanguages(i, languages) \in SoundItem
<1>1. [i EXCEPT !["groupId"] = group] \in SoundItem
  BY ChangedIsSound, FieldsAre, HeldValues
<1>2. [i EXCEPT !["context"] = "object"] \in SoundItem
  BY ChangedIsSound, FieldsAre, HeldAre
<1>3. [[i EXCEPT !["context"] = "object"] EXCEPT !["languages"] = languages] \in SoundItem
  BY <1>2, ChangedIsSound, FieldsAre, HeldAre
<1> QED
  BY <1>1, <1>3 DEF Format!InGroup, Format!ForLanguages

(* The commands that make an item, the copy of a discovered task with a    *)
(* name and the import of a snippet under a key that is not empty give     *)
(* sound items: what they add is saved and loaded again.  Of a snippet     *)
(* under the empty key the import makes an item without a title, and the   *)
(* file it is saved in does not load (codeSnippets.ts 97).                 *)
THEOREM MadeItemsAreSound ==
  ASSUME NEW group \in Format!NonEmpty \cup {"undefined"}
  PROVE  /\ \A body \in Format!Strings, editor \in BOOLEAN :
               Format!CreateSnippet(body, group, editor) \in SoundItem
         /\ Format!CreateCommandItem(group) \in SoundItem
         /\ \A task \in [name : Format!NonEmpty, command : Format!Strings,
                         detail : Format!Strings \cup {"undefined"}] :
               Format!CopyDiscovered(task, group) \in SoundItem
         /\ \A snippet \in [name : Format!NonEmpty, body : Format!Strings,
                            prefix : Format!Strings \cup {"undefined"},
                            description : Format!Strings \cup {"undefined"},
                            languages : Format!Lists \cup {"undefined"}] :
               Format!SnippetToItem(snippet, group) \in SoundItem
<1>1. ASSUME NEW body \in Format!Strings, NEW editor \in BOOLEAN
      PROVE  Format!CreateSnippet(body, group, editor) \in SoundItem
  BY NewIsSound, PlacedIsSound, ValuesAre DEF Format!CreateSnippet
<1>2. Format!CreateCommandItem(group) \in SoundItem
  <2> DEFINE i == Format!InGroup(Format!Item("command", "text", "text"), group)
  <2>1. i \in SoundItem
    BY NewIsSound, PlacedIsSound, ValuesAre
  <2>2. [i EXCEPT !["cwd"] = "workspace"] \in SoundItem
    BY <2>1, ChangedIsSound, FieldsAre, HeldValues
  <2> QED
    BY <2>2 DEF Format!CreateCommandItem
<1>3. ASSUME NEW task \in [name : Format!NonEmpty, command : Format!Strings,
                           detail : Format!Strings \cup {"undefined"}]
      PROVE  Format!CopyDiscovered(task, group) \in SoundItem
  <2> DEFINE i == Format!CreateCommandItem(group)
             said == IF task.detail = "empty" THEN "undefined" ELSE task.detail
  <2>1. [i EXCEPT !["title"] = task.name] \in SoundItem
    BY <1>2, ChangedIsSound, FieldsAre, HeldValues
  <2>2. [[i EXCEPT !["title"] = task.name] EXCEPT !["body"] = task.command] \in SoundItem
    BY <2>1, ChangedIsSound, FieldsAre, HeldValues
  <2>3. [[[i EXCEPT !["title"] = task.name] EXCEPT !["body"] = task.command]
            EXCEPT !["tags"] = "list"] \in SoundItem
    BY <2>2, ChangedIsSound, FieldsAre, HeldAre, ValuesAre
  <2>4. [[[[i EXCEPT !["title"] = task.name] EXCEPT !["body"] = task.command] EXCEPT !["tags"] = "list"]
            EXCEPT !["description"] = said] \in SoundItem
    BY <2>3, ChangedIsSound, FieldsAre, HeldValues, ValuesAre
  <2> QED
    BY <2>4 DEF Format!CopyDiscovered
<1>4. ASSUME NEW snippet \in [name : Format!NonEmpty, body : Format!Strings,
                              prefix : Format!Strings \cup {"undefined"},
                              description : Format!Strings \cup {"undefined"}, languages : Format!Lists \cup {"undefined"}]
      PROVE  Format!SnippetToItem(snippet, group) \in SoundItem
  <2> DEFINE i == Format!ForLanguages(Format!InGroup(Format!Item("snippet", snippet.name, snippet.body), group),
                                      snippet.languages)
             said(value) == IF value = "empty" THEN "undefined" ELSE value
  <2>1. i \in SoundItem
    BY NewIsSound, PlacedIsSound
  <2>2. said(snippet.description) \in Held("description") /\ said(snippet.prefix) \in Held("prefix")
    BY HeldValues, ValuesAre
  <2>3. [i EXCEPT !["description"] = said(snippet.description)] \in SoundItem
    BY <2>1, <2>2, ChangedIsSound, FieldsAre
  <2>4. [[i EXCEPT !["description"] = said(snippet.description)]
            EXCEPT !["prefix"] = said(snippet.prefix)] \in SoundItem
    BY <2>2, <2>3, ChangedIsSound, FieldsAre
  <2> QED
    BY <2>4 DEF Format!SnippetToItem
<1> QED
  BY <1>1, <1>2, <1>3, <1>4

(* What a patch has of each field, whatever the form posts. *)
LEMMA PatchHolds ==
  ASSUME NEW p \in Posted
  PROVE  LET patch == Format!ToPatch(p) IN
         /\ DOMAIN patch = Format!Field \ ({"id", "pinned"} \cup Format!Times)
         /\ \A f \in DOMAIN patch : patch[f] \in Held(f)
<1> DEFINE patch == Format!ToPatch(p)
<1>1. /\ patch.title \in Format!NonEmpty /\ patch.type \in {"snippet", "command"}
      /\ patch.body \in Format!Strings
  BY FieldsAre, ValuesAre DEF Posted, Format!ToPatch, Format!OrElse, Format!Trimmed
<1>2. /\ patch.description \in Format!Strings \cup {"undefined"}
      /\ patch.prefix \in Format!Strings \cup {"undefined"}
      /\ patch.groupId \in Format!NonEmpty \cup {"undefined"}
      /\ patch.context \in {"undefined", "object"}
  BY FieldsAre, ValuesAre DEF Posted, Format!ToPatch, Format!Trimmed
<1>3. /\ patch.tags \in Format!Lists
      /\ patch.steps \in Format!Lists \cup {"undefined"}
      /\ \A f \in Format!Context : patch[f] \in Format!Lists \cup {"undefined"}
  <2>1. /\ patch.tags = Format!SplitList(p.tags) /\ p.tags \in Format!Lists
        /\ patch.steps \in {"undefined", Format!Trimmed(Format!SplitLines(p.steps))} /\ p.steps \in Format!Lists
        /\ \A f \in Format!Context :
              patch[f] = Format!Trimmed(Format!SplitList(p[f])) /\ p[f] \in Format!Lists
    BY FieldsAre DEF Posted, Format!ToPatch
  <2>2. \A v \in Format!Lists : Format!Trimmed(v) \in Format!Lists \cup {"undefined"}
    BY ValuesAre, TrimmedIs
  <2> QED
    BY <2>1, <2>2, SplitIs
<1>4. /\ patch.cwd \in {"undefined", "workspace", "fileDir"}
      /\ patch.confirm \in {"undefined", "true", "false"}
  BY FieldsAre, ValuesAre DEF Posted, Format!ToPatch, Format!Trimmed
<1>5. DOMAIN patch = Format!Field \ ({"id", "pinned"} \cup Format!Times)
  BY DEF Format!ToPatch
<1> HIDE DEF patch
<1>6. \A f \in DOMAIN patch : patch[f] \in Held(f)
  BY <1>1, <1>2, <1>3, <1>4, <1>5, FieldsAre, ValuesAre, HeldAre, HeldValues
<1> QED
  BY <1>5, <1>6 DEF patch

(* Whatever is typed into the form, the item with the patch of its message *)
(* is sound.                                                               *)
THEOREM PatchedItemsAreSound ==
  ASSUME NEW i \in SoundItem, NEW p \in Posted
  PROVE  Format!UpdateItem(i, Format!ToPatch(p)) \in SoundItem
<1> DEFINE patch == Format!ToPatch(p)
           j == Format!UpdateItem(i, patch)
<1>1. \A f \in Format!Field : j[f] \in Held(f)
  BY PatchHolds DEF Format!UpdateItem, SoundItem
<1>2. j = [f \in Format!Field |-> j[f]]
  BY DEF Format!UpdateItem
<1> HIDE DEF j
<1>3. j \in SoundItem
  BY <1>1, <1>2, HeldAre DEF SoundItem
<1> QED
  BY <1>3 DEF j

(* The patch, field by field. *)
LEMMA PatchIs ==
  ASSUME NEW p
  PROVE  LET patch == Format!ToPatch(p) IN
         /\ patch.title = Format!OrElse(Format!Trimmed(p.title), "text")
         /\ patch.type = p.type /\ patch.body = p.body
         /\ patch.groupId = IF p.groupId = "empty" THEN "undefined" ELSE p.groupId
         /\ patch.tags = Format!SplitList(p.tags)
         /\ patch.description = Format!Trimmed(p.description)
         /\ p.type = "snippet" => patch.prefix = Format!Trimmed(p.prefix)
         /\ p.type = "command" =>
               /\ patch.cwd = Format!Trimmed(p.cwd)
               /\ patch.steps = Format!Trimmed(Format!SplitLines(p.steps))
               /\ patch.confirm = IF p.confirm = "false" THEN "undefined" ELSE Format!Trimmed(p.confirm)
         /\ \A f \in Format!Context : patch[f] = Format!Trimmed(Format!SplitList(p[f]))
<1> DEFINE patch == Format!ToPatch(p)
<1>1. /\ patch.title = Format!OrElse(Format!Trimmed(p.title), "text")
      /\ patch.type = p.type /\ patch.body = p.body
      /\ patch.groupId = IF p.groupId = "empty" THEN "undefined" ELSE p.groupId
  BY FieldsAre DEF Format!ToPatch
<1>2. patch.tags = Format!SplitList(p.tags) /\ patch.description = Format!Trimmed(p.description)
  BY FieldsAre DEF Format!ToPatch
<1>3. p.type = "snippet" => patch.prefix = Format!Trimmed(p.prefix)
  BY FieldsAre DEF Format!ToPatch
<1>4. p.type = "command" =>
        /\ patch.cwd = Format!Trimmed(p.cwd)
        /\ patch.steps = Format!Trimmed(Format!SplitLines(p.steps))
        /\ patch.confirm = IF p.confirm = "false" THEN "undefined" ELSE Format!Trimmed(p.confirm)
  BY FieldsAre DEF Format!ToPatch
<1>5. \A f \in Format!Context : patch[f] = Format!Trimmed(Format!SplitList(p[f]))
  BY FieldsAre DEF Format!ToPatch
<1> QED
  BY <1>1, <1>2, <1>3, <1>4, <1>5

(* What the form shows, field by field. *)
LEMMA ShownIs ==
  ASSUME NEW i
  PROVE  LET p == Format!Shown(i) IN
         /\ p.cwd = Format!OrElse(i.cwd, "workspace") /\ p.confirm = Format!OrElse(i.confirm, "false")
         /\ \A f \in {"type", "title", "body", "description", "prefix", "groupId", "tags", "steps"}
                      \cup Format!Context :
               p[f] = Format!OrElse(i[f], "empty")
BY FieldsAre DEF Format!Shown

(* Saving the form of any sound item without typing leaves every field of  *)
(* its type as it was, but for text that is trimmed, the working directory *)
(* that is then said, and the lists that splitting does not give back.     *)
THEOREM SavingTheFormKeepsItems ==
  ASSUME NEW item \in SoundItem
  PROVE  Format!KeptByTheForm(item)
<1> DEFINE p == Format!Shown(item)
           patch == Format!ToPatch(p)
           saved == Format!UpdateItem(item, patch)
           meant == [item EXCEPT !.cwd = Format!OrElse(@, "workspace"),
                                 !.title = Format!OrElse(Format!Trimmed(@), "text"),
                                 !.description = Format!Trimmed(@),
                                 !.prefix = Format!Trimmed(@)]
           split == Format!Resplit(item)
<1> SUFFICES \A f \in (Format!FieldsOf(item) \ split) \ {"context"} : Format!Says(saved, f) = Format!Says(meant, f)
  BY DEF Format!KeptByTheForm, Format!SayTheSame
<1>1. \A f \in Format!Field : item[f] \in Held(f)
  BY DEF SoundItem
<1>2. /\ \A f \in Format!Field \ {"cwd", "title", "description", "prefix"} : meant[f] = item[f]
      /\ meant.cwd = Format!OrElse(item.cwd, "workspace")
      /\ meant.title = Format!OrElse(Format!Trimmed(item.title), "text")
      /\ meant.description = Format!Trimmed(item.description)
      /\ meant.prefix = Format!Trimmed(item.prefix)
  BY FieldsAre DEF SoundItem
<1>3. /\ \A f \in {"id", "pinned"} \cup Format!Times : saved[f] = item[f]
      /\ \A f \in Format!Field \ ({"id", "pinned"} \cup Format!Times) : saved[f] = patch[f]
  BY FieldsAre DEF Format!UpdateItem, Format!ToPatch
<1>4. item.type \in {"snippet", "command"} /\ p.type = item.type
  BY <1>1, FieldsAre, HeldValues, ShownIs DEF Format!OrElse
<1> HIDE DEF p, patch, saved, meant, split
<1>5. \A f \in {"id", "pinned"} \cup Format!Times : Format!Says(saved, f) = Format!Says(meant, f)
  BY <1>2, <1>3, FieldsAre DEF Format!Says
<1>6. Format!Says(saved, "title") = Format!Says(meant, "title")
  <2>1. item.title # "undefined"
    BY <1>1, FieldsAre, HeldValues, ValuesAre
  <2>2. patch.title = Format!OrElse(Format!Trimmed(item.title), "text")
    BY <2>1, ShownIs, PatchIs DEF p, patch, Format!OrElse
  <2> QED
    BY <1>2, <1>3, <2>2, FieldsAre DEF Format!Says
<1>7. \A f \in {"type", "body"} : Format!Says(saved, f) = Format!Says(meant, f)
  <2>1. item.body # "undefined"
    BY <1>1, FieldsAre, HeldValues, ValuesAre
  <2>2. patch.type = item.type /\ patch.body = item.body
    BY <1>4, <2>1, ShownIs, PatchIs DEF p, patch, Format!OrElse
  <2> QED
    BY <1>2, <1>3, <2>2, FieldsAre DEF Format!Says
<1>8. Format!Says(saved, "groupId") = Format!Says(meant, "groupId")
  <2>1. item.groupId \in {"undefined", "blank", "padded", "text"}
    BY <1>1, FieldsAre, HeldValues, ValuesAre
  <2>2. patch.groupId = item.groupId
    BY <2>1, ShownIs, PatchIs DEF p, patch, Format!OrElse
  <2> QED
    BY <1>2, <1>3, <2>2, FieldsAre DEF Format!Says
<1>9. ASSUME "tags" \notin split PROVE Format!Says(saved, "tags") = Format!Says(meant, "tags")
  <2>1. item.tags \in {"list", "pieces", "empty"}
    BY <1>1, <1>9, FieldsAre, HeldAre, ValuesAre DEF split, Format!Resplit
  <2>2. patch.tags = item.tags
    BY <2>1, ValuesAre, SplitIs, ShownIs, PatchIs DEF p, patch, Format!OrElse
  <2> QED
    BY <1>2, <1>3, <2>2, FieldsAre DEF Format!Says
<1>10. \A f \in Format!Context \ split : Format!Says(saved, f) = Format!Says(meant, f)
  <2> TAKE f \in Format!Context \ split
  <2>1. item[f] \in {"list", "pieces", "empty", "undefined"}
    BY <1>1, FieldsAre, HeldAre, ValuesAre DEF split, Format!Resplit
  <2>2. patch[f] = Format!Trimmed(Format!SplitList(Format!OrElse(item[f], "empty")))
    BY ShownIs, PatchIs DEF p, patch
  <2>3. patch[f] = IF item[f] = "empty" THEN "undefined" ELSE item[f]
    BY <2>1, <2>2, ValuesAre, SplitIs, TrimmedIs DEF Format!OrElse
  <2> QED
    BY <1>2, <1>3, <2>3, FieldsAre DEF Format!Says
<1>11. Format!Says(saved, "description") = Format!Says(meant, "description")
  <2>1. item.description \in Format!Strings \cup {"undefined"}
    BY <1>1, FieldsAre, HeldValues
  <2>2. patch.description = Format!Trimmed(Format!OrElse(item.description, "empty"))
    BY ShownIs, PatchIs DEF p, patch
  <2>3. saved.description = patch.description
    BY <1>3, FieldsAre
  <2> QED
    BY <1>2, <2>1, <2>2, <2>3, ValuesAre DEF Format!Says, Format!OrElse, Format!Trimmed
<1>12. ASSUME item.type = "snippet" PROVE Format!Says(saved, "prefix") = Format!Says(meant, "prefix")
  <2>1. item.prefix \in Format!Strings \cup {"undefined"}
    BY <1>1, FieldsAre, HeldValues
  <2>2. patch.prefix = Format!Trimmed(Format!OrElse(item.prefix, "empty"))
    BY <1>4, <1>12, ShownIs, PatchIs DEF p, patch
  <2>3. saved.prefix = patch.prefix
    BY <1>3, FieldsAre
  <2> QED
    BY <1>2, <2>1, <2>2, <2>3, ValuesAre DEF Format!Says, Format!OrElse, Format!Trimmed
<1>13. ASSUME item.type = "command"
       PROVE  \A f \in {"cwd", "confirm", "steps"} \ split : Format!Says(saved, f) = Format!Says(meant, f)
  <2>1. /\ item.cwd \in {"undefined", "workspace", "fileDir"}
        /\ item.confirm \in {"undefined", "true", "false"}
        /\ item.steps \in Format!Lists \cup {"undefined"}
    BY <1>1, FieldsAre, HeldValues
  <2>2. /\ patch.cwd = Format!Trimmed(p.cwd) /\ patch.steps = Format!Trimmed(Format!SplitLines(p.steps))
        /\ patch.confirm = IF p.confirm = "false" THEN "undefined" ELSE Format!Trimmed(p.confirm)
    BY <1>4, <1>13, PatchIs DEF patch
  <2>3. /\ p.cwd = Format!OrElse(item.cwd, "workspace") /\ p.confirm = Format!OrElse(item.confirm, "false")
        /\ p.steps = Format!OrElse(item.steps, "empty")
    BY ShownIs DEF p
  <2>4. /\ saved.cwd = patch.cwd /\ saved.confirm = patch.confirm /\ saved.steps = patch.steps
        /\ meant.confirm = item.confirm /\ meant.steps = item.steps
    BY <1>2, <1>3, FieldsAre
  <2>5. Format!Says(saved, "cwd") = Format!Says(meant, "cwd")
    BY <1>2, <2>1, <2>2, <2>3, <2>4 DEF Format!Says, Format!OrElse, Format!Trimmed
  <2>6. Format!Says(saved, "confirm") = Format!Says(meant, "confirm")
    BY <2>1, <2>2, <2>3, <2>4 DEF Format!Says, Format!OrElse, Format!Trimmed
  <2>7. ASSUME "steps" \notin split PROVE Format!Says(saved, "steps") = Format!Says(meant, "steps")
    <3>1. item.steps \in {"list", "pieces", "commas", "separators", "empty", "undefined"}
      BY <2>1, <2>7, ValuesAre DEF split, Format!Resplit
    <3> QED
      BY <2>2, <2>3, <2>4, <3>1, ValuesAre, SplitIs, TrimmedIs DEF Format!Says, Format!OrElse
  <2> QED
    BY <2>5, <2>6, <2>7
<1>14. CASE item.type = "snippet"
  BY <1>5, <1>6, <1>7, <1>8, <1>9, <1>10, <1>11, <1>12, <1>14, FieldsAre DEF Format!FieldsOf
<1>15. CASE item.type = "command"
  BY <1>5, <1>6, <1>7, <1>8, <1>9, <1>10, <1>11, <1>13, <1>15, FieldsAre DEF Format!FieldsOf
<1> QED
  BY <1>4, <1>14, <1>15 DEF p, patch, saved, meant

-----------------------------------------------------------------------------
(* Induction up to a number.                                               *)

(* A set of natural numbers that is not empty has a least element.         *)
LEMMA LeastExists ==
    ASSUME NEW T \in SUBSET Nat, T # {}
    PROVE  \E n \in T : \A m \in T : n <= m
<1> DEFINE Less == OpToRel(<, Nat)
<1>1. \A m, n \in Nat : m < n => <<m, n>> \in Less
  BY Zenon DEF OpToRel
<1> HIDE DEF Less
<1>2. IsWellFoundedOn(Less, Nat)
  BY NatLessThanWellFounded, Zenon DEF Less
<1>3. PICK n \in T : \A m \in T : <<m, n>> \notin Less
  BY <1>2, WFMin
<1>4. \A m \in T : ~(m < n)
  BY <1>1, <1>3
<1> QED
  BY <1>4

(* Induction, for a set instead of a predicate. *)
LEMMA UpTo ==
    ASSUME NEW n \in Nat, NEW S, n >= 1 => 1 \in S,
           \A i \in 1..n : i < n /\ i \in S => i + 1 \in S
    PROVE  1..n \subseteq S
<1> SUFFICES ASSUME (1..n) \ S # {} PROVE FALSE
  OBVIOUS
<1>0. (1..n) \ S \in SUBSET Nat
  OBVIOUS
<1>1. PICK m \in (1..n) \ S : \A k \in (1..n) \ S : m <= k
  BY <1>0, LeastExists
<1>2. m # 1
  BY <1>1
<1>3. m - 1 \in 1..n /\ m - 1 < n /\ m - 1 \in S
  BY <1>1, <1>2
<1> QED
  BY <1>1, <1>3

(* And down from it, where each step may use all that come after. *)
LEMMA DownToOne ==
    ASSUME NEW n \in Nat, NEW S, n + 1 \in S,
           \A i \in 1..n : (\A j \in i + 1..n + 1 : j \in S) => i \in S
    PROVE  \A i \in 1..n + 1 : i \in S
<1> DEFINE D == {m \in 1..n + 1 : \A i \in n + 2 - m..n + 1 : i \in S}
<1>1. 1 \in D
  <2>1. 1 \in 1..n + 1 /\ \A i \in n + 2 - 1..n + 1 : i = n + 1
    OBVIOUS
  <2> QED
    BY <2>1
<1>2. ASSUME NEW m \in 1..n + 1, m < n + 1, m \in D
      PROVE  m + 1 \in D
  <2> DEFINE k == n + 1 - m
  <2>1. /\ k \in 1..n /\ n + 2 - m = k + 1 /\ n + 2 - (m + 1) = k /\ m + 1 \in 1..n + 1
        /\ \A i \in k..n + 1 : i = k \/ i \in k + 1..n + 1
    BY <1>2
  <2> HIDE DEF k
  <2>2. \A j \in k + 1..n + 1 : j \in S
    BY <1>2, <2>1
  <2>3. k \in S
    BY <2>1, <2>2
  <2>4. \A i \in k..n + 1 : i \in S
    BY <2>1, <2>2, <2>3
  <2> QED
    BY <2>1, <2>4
<1> HIDE DEF D
<1>3. n + 1 \in D
  <2>1. n + 1 \in Nat /\ n + 1 \in 1..n + 1 /\ \A m \in 1..n + 1 : m < n + 1 /\ m \in D => m + 1 \in D
    BY <1>2
  <2>2. 1..n + 1 \subseteq D
    BY <1>1, <2>1, UpTo
  <2> QED
    BY <2>1, <2>2
<1>4. n + 2 - (n + 1) = 1
  OBVIOUS
<1> QED
  BY <1>3, <1>4 DEF D

-----------------------------------------------------------------------------
(* Chains of commands: Danger.                                             *)

(* What FlattenSeq computes: one sequence after the other. *)
LEMMA FlattenIs ==
    ASSUME NEW T, NEW seqs \in Seq(Seq(T)), Len(seqs) > 0
    PROVE  \E f \in [1..Len(seqs) -> Seq(T)] :
              /\ f[1] = seqs[1]
              /\ \A i \in 1..Len(seqs) - 1 : f[i + 1] = f[i] \o seqs[i + 1]
              /\ Command!FlattenSeq(seqs) = f[Len(seqs)]
<1> DEFINE n == Len(seqs)
           Part(m, g) == /\ g \in [1..m -> Seq(T)] /\ g[1] = seqs[1]
                         /\ \A i \in 1..m - 1 : g[i + 1] = g[i] \o seqs[i + 1]
           S == {m \in 1..n : \E g : Part(m, g)}
           flatten == CHOOSE h : h = [i \in 1..n |-> IF i = 1 THEN seqs[i] ELSE h[i - 1] \o seqs[i]]
<1>1. n \in Nat /\ n >= 1 /\ \A i \in 1..n : seqs[i] \in Seq(T)
  OBVIOUS
<1>2. 1 \in S
  <2>1. Part(1, [i \in 1..1 |-> seqs[1]])
    BY <1>1
  <2> HIDE DEF Part
  <2> QED
    BY <1>1, <2>1
<1>3. ASSUME NEW m \in 1..n, m < n, m \in S
      PROVE  m + 1 \in S
  <2>1. PICK g : Part(m, g)
    BY <1>3
  <2> DEFINE h == [i \in 1..(m + 1) |-> IF i = m + 1 THEN g[m] \o seqs[m + 1] ELSE g[i]]
  <2>2. m \in Nat /\ m + 1 \in 1..n
    BY <1>1, <1>3
  <2>3. g[m] \in Seq(T) /\ seqs[m + 1] \in Seq(T)
    BY <1>1, <2>1, <2>2
  <2>4. g[m] \o seqs[m + 1] \in Seq(T)
    BY <2>3
  <2>5. h \in [1..(m + 1) -> Seq(T)]
    BY <2>1, <2>2, <2>4
  <2>6. h[1] = seqs[1]
    BY <1>3, <2>1, <2>2
  <2>7. ASSUME NEW i \in 1..(m + 1) - 1
        PROVE  h[i + 1] = h[i] \o seqs[i + 1]
    <3>1. i \in 1..m /\ i # m + 1 /\ h[i] = g[i]
      BY <2>2
    <3>2. CASE i = m
      <4>1. m + 1 \in 1..(m + 1)
        BY <2>2
      <4>2. h[m + 1] = g[m] \o seqs[m + 1]
        BY <4>1, Zenon
      <4> QED
        BY <3>1, <3>2, <4>2
    <3>3. CASE i # m
      <4>1. i \in 1..m - 1 /\ i + 1 # m + 1 /\ i + 1 \in 1..(m + 1)
        BY <2>2, <3>1, <3>3
      <4> QED
        BY <2>1, <3>1, <4>1
    <3> QED BY <3>2, <3>3
  <2> HIDE DEF h
  <2>8. Part(m + 1, h)
    BY <2>5, <2>6, <2>7
  <2> HIDE DEF Part
  <2> QED
    BY <2>2, <2>8
<1>4. PICK g : Part(n, g)
  <2> HIDE DEF S
  <2>1. \A m \in 1..n : m < n /\ m \in S => m + 1 \in S
    BY <1>3
  <2>2. 1..n \subseteq S
    BY <1>1, <1>2, <2>1, UpTo
  <2>3. n \in S
    BY <1>1, <2>2
  <2> QED
    BY <2>3 DEF S
<1>5. g = [i \in 1..n |-> IF i = 1 THEN seqs[i] ELSE g[i - 1] \o seqs[i]]
  <2>1. ASSUME NEW i \in 1..n, i # 1
        PROVE  g[i] = g[i - 1] \o seqs[i]
    <3>1. i - 1 \in 1..n - 1 /\ (i - 1) + 1 = i
      BY <1>1, <2>1
    <3> QED
      BY <1>4, <3>1
  <2>2. g = [i \in 1..n |-> g[i]] /\ g[1] = seqs[1]
    BY <1>4
  <2>3. \A i \in 1..n : g[i] = IF i = 1 THEN seqs[i] ELSE g[i - 1] \o seqs[i]
    BY <2>1, <2>2
  <2> QED
    BY <2>2, <2>3, Zenon
<1>6. flatten = [i \in 1..n |-> IF i = 1 THEN seqs[i] ELSE flatten[i - 1] \o seqs[i]]
  BY <1>5
<1>7. Command!FlattenSeq(seqs) = flatten[n]
  BY <1>1 DEF Command!FlattenSeq
<1> HIDE DEF flatten
<1>8. flatten[1] = seqs[1]
  BY <1>1, <1>6
<1>9. ASSUME NEW i \in 1..n - 1
      PROVE  flatten[i + 1] = flatten[i] \o seqs[i + 1]
  <2>1. i + 1 \in 1..n /\ i + 1 # 1 /\ (i + 1) - 1 = i
    BY <1>1
  <2> QED
    BY <1>6, <2>1
<1> DEFINE R == {i \in 1..n : flatten[i] \in Seq(T)}
<1>10. 1..n \subseteq R
  <2>1. 1 \in R
    BY <1>1, <1>8
  <2>2. ASSUME NEW i \in 1..n, i < n, i \in R
        PROVE  i + 1 \in R
    <3>1. i \in 1..n - 1 /\ i + 1 \in 1..n
      BY <1>1, <2>2
    <3>2. flatten[i] \o seqs[i + 1] \in Seq(T)
      BY <1>1, <2>2, <3>1
    <3> QED
      BY <1>9, <3>1, <3>2
  <2> HIDE DEF R
  <2>3. \A i \in 1..n : i < n /\ i \in R => i + 1 \in R
    BY <2>2
  <2> QED
    BY <1>1, <2>1, <2>3, UpTo
<1>11. flatten \in [1..n -> Seq(T)]
  BY <1>6, <1>10
<1> QED
  BY <1>7, <1>8, <1>9, <1>11

(* A part of a text, from the place after `at` on. *)
Segment(text, part, at) ==
    /\ at + Len(part) <= Len(text)
    /\ \A i \in 1..Len(part) : text[at + i] = part[i]

(* A part stays where it is when more text follows. *)
LEMMA PrefixedSegment ==
    ASSUME NEW T, NEW text \in Seq(T), NEW more \in Seq(T), NEW part \in Seq(T), NEW at \in Nat,
           Segment(text, part, at)
    PROVE  Segment(text \o more, part, at)
<1>1. /\ Len(text) \in Nat /\ Len(more) \in Nat /\ Len(part) \in Nat
      /\ Len(text \o more) = Len(text) + Len(more)
  OBVIOUS
<1>2. \A i \in 1..Len(text) : (text \o more)[i] = text[i]
  OBVIOUS
<1>3. \A i \in 1..Len(part) : at + i \in 1..Len(text)
  BY <1>1 DEF Segment
<1> QED
  BY <1>1, <1>2, <1>3 DEF Segment

(* The text that is appended is a part from there on. *)
LEMMA AppendedSegment ==
    ASSUME NEW T, NEW text \in Seq(T), NEW part \in Seq(T)
    PROVE  Segment(text \o part, part, Len(text)) /\ Len(text) \in Nat
<1>1. /\ Len(text) \in Nat /\ Len(part) \in Nat
      /\ Len(text \o part) = Len(text) + Len(part)
  OBVIOUS
<1>2. \A i \in 1..Len(part) : (text \o part)[Len(text) + i] = part[i]
  OBVIOUS
<1> QED
  BY <1>1, <1>2 DEF Segment

(* Where each sequence is in the concatenation: after the one before it. *)
LEMMA FlattenPlaces ==
    ASSUME NEW T, NEW seqs \in Seq(Seq(T)), Len(seqs) > 0
    PROVE  LET text == Command!FlattenSeq(seqs) IN
           /\ text \in Seq(T)
           /\ \E at \in [1..Len(seqs) + 1 -> Nat] :
                 /\ at[1] = 0 /\ at[Len(seqs) + 1] = Len(text)
                 /\ \A k \in 1..Len(seqs) :
                       at[k + 1] = at[k] + Len(seqs[k]) /\ Segment(text, seqs[k], at[k])
<1> DEFINE n == Len(seqs)
<1>1. n \in Nat /\ n > 0 /\ \A i \in 1..n : seqs[i] \in Seq(T) /\ Len(seqs[i]) \in Nat
  OBVIOUS
<1>2. PICK f \in [1..n -> Seq(T)] :
          /\ f[1] = seqs[1]
          /\ \A i \in 1..n - 1 : f[i + 1] = f[i] \o seqs[i + 1]
          /\ Command!FlattenSeq(seqs) = f[n]
  BY <1>1, FlattenIs
<1> HIDE DEF n
<1> DEFINE at == [k \in 1..n + 1 |-> IF k = 1 THEN 0 ELSE Len(f[k - 1])]
<1>3. at[1] = 0 /\ \A k \in 1..n : at[k + 1] = Len(f[k])
  <2>1. 1 \in 1..n + 1 /\ \A k \in 1..n : k + 1 \in 1..n + 1 /\ k + 1 # 1 /\ (k + 1) - 1 = k
    BY <1>1
  <2> QED
    BY <2>1
<1>4. at \in [1..n + 1 -> Nat]
  <2>1. \A k \in 1..n + 1 : k # 1 => k - 1 \in 1..n
    BY <1>1
  <2>2. \A s \in Seq(T) : Len(s) \in Nat
    OBVIOUS
  <2> QED
    BY <1>2, <2>1, <2>2
<1> HIDE DEF at
<1>5. ASSUME NEW k \in 1..n
      PROVE  at[k + 1] = at[k] + Len(seqs[k]) /\ Segment(f[k], seqs[k], at[k])
  <2>1. CASE k = 1
    <3>1. Segment(f[1], seqs[1], 0) /\ Len(f[1]) = 0 + Len(seqs[1])
      BY <1>1, <1>2 DEF Segment
    <3> QED
      BY <1>3, <2>1, <3>1
  <2>2. CASE k # 1
    <3> DEFINE i == k - 1
    <3>1. i \in 1..n - 1 /\ i \in 1..n /\ i + 1 = k
      BY <1>1, <2>2
    <3> HIDE DEF i
    <3>2. f[k] = f[i] \o seqs[k] /\ f[i] \in Seq(T) /\ seqs[k] \in Seq(T)
      BY <1>1, <1>2, <3>1
    <3>3. Segment(f[k], seqs[k], Len(f[i])) /\ Len(f[k]) = Len(f[i]) + Len(seqs[k])
      BY <3>2, AppendedSegment
    <3> QED
      BY <1>3, <3>1, <3>3
  <2> QED BY <2>1, <2>2
<1>6. ASSUME NEW k \in 1..n
      PROVE  Segment(f[n], seqs[k], at[k])
  <2> DEFINE R == {i \in 1..n : i >= k => Segment(f[i], seqs[k], at[k])}
  <2>1. 1 \in R
    BY <1>1, <1>5
  <2>2. ASSUME NEW i \in 1..n, i < n, i \in R
        PROVE  i + 1 \in R
    <3>1. i \in 1..n - 1 /\ i + 1 \in 1..n
      BY <1>1, <2>2
    <3>2. CASE i + 1 < k
      BY <1>1, <3>1, <3>2
    <3>3. CASE i + 1 = k
      BY <1>5, <3>1, <3>3
    <3>4. CASE i + 1 > k
      <4>1. Segment(f[i], seqs[k], at[k]) /\ at[k] \in Nat
        BY <1>1, <1>4, <2>2, <3>4
      <4>2. /\ f[i + 1] = f[i] \o seqs[i + 1]
            /\ f[i] \in Seq(T) /\ seqs[i + 1] \in Seq(T) /\ seqs[k] \in Seq(T)
        BY <1>1, <1>2, <3>1
      <4>3. Segment(f[i + 1], seqs[k], at[k])
        BY <4>1, <4>2, PrefixedSegment
      <4> QED
        BY <3>1, <4>3
    <3> QED
      BY <1>1, <3>2, <3>3, <3>4
  <2> HIDE DEF R
  <2>3. \A i \in 1..n : i < n /\ i \in R => i + 1 \in R
    BY <2>2
  <2>4. n \in R /\ n >= k
    <3>1. 1..n \subseteq R
      BY <1>1, <2>1, <2>3, UpTo
    <3> QED
      BY <1>1, <3>1
  <2> QED
    BY <2>4 DEF R
<1>7. n \in 1..n
  BY <1>1
<1>8. /\ f[n] \in Seq(T)
      /\ at[1] = 0 /\ at[n + 1] = Len(f[n])
      /\ \A k \in 1..n : at[k + 1] = at[k] + Len(seqs[k]) /\ Segment(f[n], seqs[k], at[k])
  BY <1>2, <1>3, <1>5, <1>6, <1>7
<1> QED
  BY <1>2, <1>4, <1>8 DEF n

(* Each of the sequences is a part of their concatenation. *)
LEMMA FlattenHasAll ==
    ASSUME NEW T, NEW seqs \in Seq(Seq(T)), NEW k \in 1..Len(seqs)
    PROVE  /\ Command!FlattenSeq(seqs) \in Seq(T)
           /\ \E at \in Nat : Segment(Command!FlattenSeq(seqs), seqs[k], at)
<1>1. Len(seqs) > 0 /\ k \in 1..Len(seqs) + 1
  OBVIOUS
<1>2. PICK at \in [1..Len(seqs) + 1 -> Nat] : Segment(Command!FlattenSeq(seqs), seqs[k], at[k])
  BY <1>1, FlattenPlaces
<1>3. at[k] \in Nat
  BY <1>1
<1> QED
  BY <1>1, <1>2, <1>3, FlattenPlaces

(* Each step is in the text of its chain. *)
LEMMA StepIsInText ==
    ASSUME NEW T, "&&" \in T, NEW item, item.steps \in Seq(Seq(T)), NEW k \in DOMAIN item.steps
    PROVE  /\ Command!CommandText(item) \in Seq(T)
           /\ \E at \in Nat : Segment(Command!CommandText(item), item.steps[k], at)
<1> DEFINE steps == item.steps
           seqs == [i \in DOMAIN steps |-> IF i = 1 THEN steps[i] ELSE <<"&&">> \o steps[i]]
           text == Command!FlattenSeq(seqs)
<1>1. DOMAIN steps = 1..Len(steps) /\ Len(steps) \in Nat /\ \A i \in DOMAIN steps : steps[i] \in Seq(T)
  OBVIOUS
<1>2. steps # << >>
  OBVIOUS
<1>3. Command!CommandText(item) = text
  BY <1>2 DEF Command!CommandText
<1>4. <<"&&">> \in Seq(T) /\ Len(<<"&&">>) = 1
  OBVIOUS
<1> HIDE DEF steps
<1>5. \A i \in DOMAIN steps : <<"&&">> \o steps[i] \in Seq(T)
  BY <1>1, <1>4
<1>6. seqs \in Seq(Seq(T)) /\ Len(seqs) = Len(steps)
  BY <1>1, <1>5
<1>7. k \in 1..Len(seqs) /\ k \in DOMAIN steps
  BY <1>1, <1>6 DEF steps
<1> HIDE DEF text
<1>8. text \in Seq(T) /\ \E at \in Nat : Segment(text, seqs[k], at)
  <2> HIDE DEF seqs
  <2> QED
    BY <1>6, <1>7, FlattenHasAll DEF text
<1>9. PICK at \in Nat : Segment(text, seqs[k], at)
  BY <1>8
<1>10. \E there \in Nat : Segment(text, steps[k], there)
  <2>1. CASE k = 1
    BY <1>7, <1>9, <2>1
  <2>2. CASE k # 1
    <3> DEFINE part == <<"&&">> \o steps[k]
    <3>1. seqs[k] = part
      BY <1>7, <2>2
    <3>2. Len(part) = 1 + Len(steps[k]) /\ Len(steps[k]) \in Nat /\ Len(text) \in Nat
      BY <1>1, <1>4, <1>7, <1>8
    <3>3. \A i \in 1..Len(steps[k]) : part[1 + i] = steps[k][i]
      BY <1>1, <1>4, <1>7
    <3> HIDE DEF part
    <3>4. \A i \in 1..Len(steps[k]) : 1 + i \in 1..Len(part) /\ at + (1 + i) = (at + 1) + i
      BY <3>2
    <3>5. Segment(text, steps[k], at + 1)
      <4>1. at + Len(part) <= Len(text) /\ \A i \in 1..Len(part) : text[at + i] = part[i]
        BY <1>9, <3>1 DEF Segment
      <4>2. ASSUME NEW i \in 1..Len(steps[k])
            PROVE  text[(at + 1) + i] = steps[k][i]
        <5>1. text[at + (1 + i)] = part[1 + i]
          BY <3>4, <4>1
        <5> QED
          BY <3>3, <3>4, <5>1
      <4>3. (at + 1) + Len(steps[k]) <= Len(text)
        BY <3>2, <4>1
      <4> QED
        BY <4>2, <4>3 DEF Segment
    <3> QED
      BY <3>5
  <2> QED BY <2>1, <2>2
<1> QED
  BY <1>3, <1>8, <1>10 DEF steps

LEMMA SegmentPlaces ==
    ASSUME NEW T, NEW text \in Seq(T), NEW part \in Seq(T), NEW at \in Nat, Segment(text, part, at)
    PROVE  /\ DOMAIN part = 1..Len(part) /\ DOMAIN text = 1..Len(text)
           /\ Len(part) \in Nat /\ Len(text) \in Nat /\ at + Len(part) <= Len(text)
           /\ \A i \in 1..Len(part) : at + i \in 1..Len(text) /\ text[at + i] = part[i]
<1>1. Len(part) \in Nat /\ Len(text) \in Nat
  OBVIOUS
<1> QED
  BY <1>1 DEF Segment

(* The flags after a command name, in a part and in the text. *)
LEMMA FlagsStay ==
    ASSUME NEW T, NEW text \in Seq(T), NEW part \in Seq(T), NEW at \in Nat, Segment(text, part, at), NEW name
    PROVE  /\ Command!FlagsAfter(part, name).short \subseteq Command!FlagsAfter(text, name).short
           /\ Command!FlagsAfter(part, name).long \subseteq Command!FlagsAfter(text, name).long
<1> DEFINE Args(tokens) ==
               {j \in DOMAIN tokens :
                   \E i \in 1..j - 1 : /\ Command!BaseName(tokens[i]) = name
                                       /\ \A k \in i + 1..j : tokens[k] \notin Command!Separators}
<1>1. ASSUME NEW j \in Args(part)
      PROVE  at + j \in Args(text) /\ text[at + j] = part[j]
  <2>1. j \in 1..Len(part) /\ Len(part) \in Nat
    BY SegmentPlaces
  <2>2. PICK i \in 1..j - 1 : /\ Command!BaseName(part[i]) = name
                              /\ \A k \in i + 1..j : part[k] \notin Command!Separators
    OBVIOUS
  <2>3. i \in 1..Len(part) /\ at + i \in 1..(at + j) - 1 /\ text[at + i] = part[i]
    <3>1. i \in 1..Len(part) /\ at + i \in 1..(at + j) - 1
      BY <2>1, <2>2
    <3> QED
      BY <3>1, SegmentPlaces
  <2>4. ASSUME NEW k \in (at + i) + 1..at + j
        PROVE  text[k] \notin Command!Separators
    <3>1. k - at \in i + 1..j /\ k - at \in 1..Len(part) /\ at + (k - at) = k
      BY <2>1, <2>2
    <3>2. text[at + (k - at)] = part[k - at]
      BY <3>1, SegmentPlaces
    <3> QED
      BY <2>2, <3>1, <3>2
  <2>5. at + j \in DOMAIN text /\ text[at + j] = part[j]
    BY <2>1, SegmentPlaces
  <2> QED
    BY <2>2, <2>3, <2>4, <2>5
<1>2. \A tokens : /\ Command!FlagsAfter(tokens, name).short =
                        UNION {Command!ShortFlags(tokens[j]) : j \in Args(tokens)}
                  /\ Command!FlagsAfter(tokens, name).long =
                        {Command!LongFlag(tokens[j]) : j \in Args(tokens)} \cap Command!LongFlags
  BY DEF Command!FlagsAfter
<1> HIDE DEF Args
<1> QED
  BY <1>1, <1>2

(* Tokens, calls and neighbours in a part are in the text. *)
LEMMA TokensStay ==
    ASSUME NEW T, NEW text \in Seq(T), NEW part \in Seq(T), NEW at \in Nat, Segment(text, part, at)
    PROVE  /\ \A token : Command!Has(part, token) => Command!Has(text, token)
           /\ \A name : Command!Calls(part, name) => Command!Calls(text, name)
           /\ \A one, other : Command!Adjacent(part, one, other) => Command!Adjacent(text, one, other)
           /\ \A one, other : (\E i, j \in DOMAIN part : i < j /\ part[i] = one /\ part[j] = other)
                 => \E i, j \in DOMAIN text : i < j /\ text[i] = one /\ text[j] = other
<1>1. ASSUME NEW token, Command!Has(part, token)
      PROVE  Command!Has(text, token)
  BY <1>1, SegmentPlaces DEF Command!Has, Command!ToSet
<1>2. ASSUME NEW name, Command!Calls(part, name)
      PROVE  Command!Calls(text, name)
  <2>1. PICK i \in 1..Len(part) : Command!BaseName(part[i]) = name
    BY <1>2, SegmentPlaces DEF Command!Calls
  <2>2. at + i \in DOMAIN text /\ text[at + i] = part[i]
    BY SegmentPlaces
  <2> QED
    BY <2>1, <2>2 DEF Command!Calls
<1>3. ASSUME NEW one, NEW other, Command!Adjacent(part, one, other)
      PROVE  Command!Adjacent(text, one, other)
  <2>1. PICK i \in 1..Len(part) - 1 : part[i] \in one /\ part[i + 1] \in other
    BY <1>3 DEF Command!Adjacent
  <2>2. /\ i \in 1..Len(part) /\ i + 1 \in 1..Len(part) /\ at + i \in 1..Len(text) - 1
        /\ (at + i) + 1 = at + (i + 1)
    BY SegmentPlaces
  <2>3. text[at + i] = part[i] /\ text[at + (i + 1)] = part[i + 1]
    BY <2>2, SegmentPlaces
  <2> QED
    BY <2>1, <2>2, <2>3 DEF Command!Adjacent
<1>4. ASSUME NEW one, NEW other, NEW i \in DOMAIN part, NEW j \in DOMAIN part,
             i < j, part[i] = one, part[j] = other
      PROVE  \E k, l \in DOMAIN text : k < l /\ text[k] = one /\ text[l] = other
  <2>1. at + i \in DOMAIN text /\ at + j \in DOMAIN text /\ at + i < at + j
    BY <1>4, SegmentPlaces
  <2>2. i \in 1..Len(part) /\ j \in 1..Len(part)
    BY SegmentPlaces
  <2>3. text[at + i] = part[i] /\ text[at + j] = part[j]
    BY <2>2, SegmentPlaces
  <2> QED
    BY <1>4, <2>1, <2>3
<1> QED
  BY <1>1, <1>2, <1>3, <1>4

LEMMA MinIsLeast ==
    ASSUME NEW S \in SUBSET Nat, S # {}
    PROVE  Command!Min(S) \in S /\ \A m \in S : Command!Min(S) <= m
<1>1. \E n \in S : \A m \in S : n <= m
  BY LeastExists
<1> QED
  BY <1>1 DEF Command!Min

LEMMA RestIs ==
    ASSUME NEW T, NEW tokens \in Seq(T), NEW g \in 1..Len(tokens)
    PROVE  Command!ToSet(SubSeq(tokens, g + 1, Len(tokens))) = {tokens[j] : j \in g + 1..Len(tokens)}
<1> DEFINE n == Len(tokens)
           rest == SubSeq(tokens, g + 1, n)
<1>1. n \in Nat /\ g \in Nat /\ g <= n
  OBVIOUS
<1>2. DOMAIN rest = 1..n - g /\ \A i \in 1..n - g : rest[i] = tokens[g + i]
  BY <1>1
<1>3. \A j \in g + 1..n : j - g \in 1..n - g /\ g + (j - g) = j
  BY <1>1
<1>4. \A i \in 1..n - g : g + i \in g + 1..n
  BY <1>1
<1> HIDE DEF rest, n
<1>5. {rest[i] : i \in DOMAIN rest} = {tokens[j] : j \in g + 1..n}
  <2>1. ASSUME NEW i \in DOMAIN rest
        PROVE  \E j \in g + 1..n : rest[i] = tokens[j]
    BY <1>2, <1>4
  <2>2. ASSUME NEW j \in g + 1..n
        PROVE  \E i \in DOMAIN rest : tokens[j] = rest[i]
    <3>1. j - g \in DOMAIN rest /\ rest[j - g] = tokens[g + (j - g)]
      BY <1>2, <1>3
    <3> QED
      BY <1>3, <3>1
  <2> QED
    BY <2>1, <2>2
<1> QED
  BY <1>5 DEF Command!ToSet, rest, n

(* The first git of the text is no later than the one of a part. *)
LEMMA ForcePushStays ==
    ASSUME NEW T, NEW text \in Seq(T), NEW part \in Seq(T), NEW at \in Nat, Segment(text, part, at),
           Command!ForcePush(part)
    PROVE  Command!ForcePush(text)
<1> DEFINE Gits(tokens) == {i \in DOMAIN tokens : Command!BaseName(tokens[i]) = "git"}
           Rest(tokens) == SubSeq(tokens, Command!Min(Gits(tokens)) + 1, Len(tokens))
           Forced(token) == "f" \in Command!ShortFlags(token) \/ token \in {"--force", "--force-with-lease"}
<1>1. \A tokens : Command!ForcePush(tokens) <=>
          /\ Gits(tokens) # {}
          /\ "push" \in Command!ToSet(Rest(tokens))
          /\ \E token \in Command!ToSet(Rest(tokens)) : Forced(token)
  BY DEF Command!ForcePush, Command!Has
<1>2. \A tokens \in Seq(T) : Gits(tokens) \in SUBSET Nat /\ Gits(tokens) \subseteq 1..Len(tokens)
  OBVIOUS
<1>3. \A i \in Gits(part) : at + i \in Gits(text)
  BY SegmentPlaces
<1> HIDE DEF Gits, Forced
<1>4. Gits(part) # {} /\ Gits(text) # {}
  BY <1>1, <1>3
<1> DEFINE g == Command!Min(Gits(part))
           h == Command!Min(Gits(text))
<1>5. g \in 1..Len(part) /\ h \in 1..Len(text) /\ h <= at + g
  BY <1>2, <1>3, <1>4, MinIsLeast
<1> HIDE DEF g, h
<1>6. /\ Command!ToSet(Rest(part)) = {part[j] : j \in g + 1..Len(part)}
      /\ Command!ToSet(Rest(text)) = {text[j] : j \in h + 1..Len(text)}
  BY <1>5, RestIs DEF g, h
<1>7. ASSUME NEW j \in g + 1..Len(part)
      PROVE  part[j] \in {text[k] : k \in h + 1..Len(text)}
  <2>1. Len(part) \in Nat /\ Len(text) \in Nat
    OBVIOUS
  <2>2. j \in 1..Len(part)
    BY <1>5, <2>1
  <2>3. at + j \in 1..Len(text) /\ text[at + j] = part[j]
    BY <2>2, SegmentPlaces
  <2>4. at + j \in h + 1..Len(text)
    BY <1>5, <2>1, <2>3
  <2> QED
    BY <2>3, <2>4
<1>8. Command!ToSet(Rest(part)) \subseteq Command!ToSet(Rest(text))
  BY <1>6, <1>7
<1> HIDE DEF Rest
<1> QED
  BY <1>1, <1>4, <1>8

(* What is flagged in a part of a text is flagged in the text. *)
LEMMA RulesStay ==
    ASSUME NEW T, NEW text \in Seq(T), NEW part \in Seq(T), NEW at \in Nat, Segment(text, part, at)
    PROVE  Command!DetectDangerous(part) \subseteq Command!DetectDangerous(text)
<1> SUFFICES ASSUME NEW rule \in Command!Rules, Command!Matches(rule, part)
             PROVE  Command!Matches(rule, text)
  BY DEF Command!DetectDangerous
<1>1. CASE rule = "rm-recursive-force"
  BY <1>1, FlagsStay DEF Command!Matches, Command!Recursive, Command!Forced
<1>2. CASE rule = "force-flag"
  <2>1. \A token : token \in Command!ToSet(part) => token \in Command!ToSet(text)
    BY TokensStay DEF Command!Has
  <2> QED
    BY <1>2, <2>1 DEF Command!Matches
<1>3. CASE rule = "git-push-force"
  BY <1>3, ForcePushStays DEF Command!Matches
<1>4. CASE rule = "drop-database"
  BY <1>4, TokensStay DEF Command!Matches
<1>5. CASE rule = "mkfs"
  BY <1>5, TokensStay DEF Command!Matches
<1>6. CASE rule = "dd"
  <2>1. \E i, j \in DOMAIN part : i < j /\ part[i] = "dd" /\ part[j] = "if=x"
    BY <1>6 DEF Command!Matches
  <2>2. \E i, j \in DOMAIN text : i < j /\ text[i] = "dd" /\ text[j] = "if=x"
    BY <2>1, TokensStay
  <2> QED
    BY <1>6, <2>2 DEF Command!Matches
<1>7. CASE rule = "fork-bomb"
  BY <1>7, TokensStay DEF Command!Matches
<1>8. CASE rule = "chmod-777"
  BY <1>8, FlagsStay, TokensStay DEF Command!Matches, Command!Recursive
<1>9. CASE rule = "device-write"
  BY <1>9, TokensStay DEF Command!Matches
<1>10. CASE rule = "sudo"
  BY <1>10, TokensStay DEF Command!Matches
<1> QED
  BY <1>1, <1>2, <1>3, <1>4, <1>5, <1>6, <1>7, <1>8, <1>9, <1>10 DEF Command!Rules

(* In a chain of any length, of any commands, each rule that flags a step  *)
(* flags the text of the chain, which is what is confirmed: no step is     *)
(* hidden by those before or after it.                                     *)
THEOREM ChainsHideNoStep ==
    ASSUME NEW T, "&&" \in T, NEW item, item.steps \in Seq(Seq(T))
    PROVE  Command!KeepsDanger(item)
<1> SUFFICES ASSUME NEW k \in DOMAIN item.steps
             PROVE  Command!DetectDangerous(item.steps[k])
                       \subseteq Command!DetectDangerous(Command!CommandText(item))
  BY DEF Command!KeepsDanger
<1>1. item.steps[k] \in Seq(T)
  OBVIOUS
<1> QED
  BY <1>1, StepIsInText, RulesStay

-----------------------------------------------------------------------------
(* The tree of any view: TreeView.                                         *)

(* What mutations leave of each scope, as the provider reads it. *)
SoundView(view) ==
    \A s \in Tree!Scope :
        LET groups == view.groups[s] IN
        /\ DOMAIN groups \subseteq GroupId
        /\ Tree!ParentsResolve(Tree!ParentsOf(groups)) /\ Tree!Forest(Tree!ParentsOf(groups))
        /\ \A i \in DOMAIN view.items[s] : view.items[s][i] \in DOMAIN groups \cup {NoGroup}

LEMMA SizesAre == \A S : Tree!Cardinality(S) = Cardinality(S)
BY DEF Tree!Cardinality, Cardinality

(* The levels of the tree: the roots, and under each level its children. *)
LEMMA LevelsAre ==
    ASSUME IsFiniteSet(GroupId), NEW view
    PROVE  \E level :
              /\ level[0] = Tree!RootNodes(view)
              /\ \A d \in 0..Cardinality(GroupId) + 2 :
                    level[d + 1] = UNION {Tree!GetChildren(view, n) : n \in level[d]}
              /\ Tree!AllNodes(view) = UNION {level[d] : d \in 0..Cardinality(GroupId) + 3}
<1> DEFINE last == Cardinality(GroupId) + 3
           Under(nodes) == UNION {Tree!GetChildren(view, n) : n \in nodes}
           Part(m, g) == /\ g = [d \in 0..m |-> g[d]] /\ g[0] = Tree!RootNodes(view)
                         /\ \A d \in 0..m - 1 : g[d + 1] = Under(g[d])
           S == {m \in 1..last : \E g : Part(m, g)}
           level == CHOOSE h : h = [d \in 0..last |-> IF d = 0 THEN Tree!RootNodes(view) ELSE Under(h[d - 1])]
<1>1. last \in Nat /\ last >= 1
  BY FS_CardinalityType
<1> HIDE DEF last, Under
<1>2. 1 \in S
  <2>1. Part(1, [d \in 0..1 |-> IF d = 0 THEN Tree!RootNodes(view) ELSE Under(Tree!RootNodes(view))])
    OBVIOUS
  <2> HIDE DEF Part
  <2> QED
    BY <1>1, <2>1
<1>3. ASSUME NEW m \in 1..last, m < last, m \in S
      PROVE  m + 1 \in S
  <2>1. PICK g : Part(m, g)
    BY <1>3
  <2> DEFINE h == [d \in 0..(m + 1) |-> IF d = m + 1 THEN Under(g[m]) ELSE g[d]]
  <2>2. m \in Nat /\ m + 1 \in 1..last
    BY <1>1, <1>3
  <2>3. h[0] = Tree!RootNodes(view)
    BY <2>1, <2>2
  <2>4. ASSUME NEW d \in 0..(m + 1) - 1
        PROVE  h[d + 1] = Under(h[d])
    <3>1. d \in 0..m /\ d # m + 1 /\ h[d] = g[d]
      BY <2>2
    <3>2. CASE d = m
      <4>1. m + 1 \in 0..(m + 1)
        BY <2>2
      <4>2. h[m + 1] = Under(g[m])
        BY <4>1, Zenon
      <4> QED
        BY <3>1, <3>2, <4>2
    <3>3. CASE d # m
      <4>1. d \in 0..m - 1 /\ d + 1 # m + 1 /\ d + 1 \in 0..(m + 1)
        BY <2>2, <3>1, <3>3
      <4> QED
        BY <2>1, <3>1, <4>1
    <3> QED BY <3>2, <3>3
  <2>5. h = [d \in 0..(m + 1) |-> h[d]]
    OBVIOUS
  <2> HIDE DEF h
  <2>6. Part(m + 1, h)
    BY <2>3, <2>4, <2>5
  <2> HIDE DEF Part
  <2> QED
    BY <2>2, <2>6
<1>4. PICK g : Part(last, g)
  <2> HIDE DEF S
  <2>1. \A m \in 1..last : m < last /\ m \in S => m + 1 \in S
    BY <1>3
  <2>2. 1..last \subseteq S
    BY <1>1, <1>2, <2>1, UpTo
  <2>3. last \in S
    BY <1>1, <2>2
  <2> QED
    BY <2>3 DEF S
<1>5. g = [d \in 0..last |-> IF d = 0 THEN Tree!RootNodes(view) ELSE Under(g[d - 1])]
  <2>1. ASSUME NEW d \in 0..last, d # 0
        PROVE  g[d] = Under(g[d - 1])
    <3>1. d - 1 \in 0..last - 1 /\ (d - 1) + 1 = d
      BY <1>1, <2>1
    <3> QED
      BY <1>4, <3>1
  <2> QED
    BY <1>4, <2>1
<1>6. level = [d \in 0..last |-> IF d = 0 THEN Tree!RootNodes(view) ELSE Under(level[d - 1])]
  BY <1>5
<1>7. Tree!AllNodes(view) = UNION {level[d] : d \in 0..last}
  BY SizesAre DEF Tree!AllNodes, last, Under
<1> HIDE DEF level
<1>8. level[0] = Tree!RootNodes(view)
  BY <1>1, <1>6
<1>9. ASSUME NEW d \in 0..last - 1
      PROVE  level[d + 1] = Under(level[d])
  <2>1. d + 1 \in 0..last /\ d + 1 # 0 /\ (d + 1) - 1 = d
    BY <1>1
  <2> QED
    BY <1>6, <2>1
<1>10. last - 1 = Cardinality(GroupId) + 2
  BY FS_CardinalityType DEF last
<1> QED
  BY <1>7, <1>8, <1>9, <1>10 DEF last, Under

ScopeNode(s) == [kind |-> "scope", scope |-> s]
GroupNode(s, g) == [kind |-> "group", scope |-> s, group |-> g]

(* Group by group, a forest is reached level by level: at level d all its  *)
(* groups have been found, or d of them.                                   *)
LEMMA GroupsAreReached ==
    ASSUME IsFiniteSet(GroupId), NEW view, SoundView(view), NEW s \in Tree!Scope, NEW level,
           ScopeNode(s) \in level[0],
           \A d \in 0..Cardinality(GroupId) + 2 :
              level[d + 1] = UNION {Tree!GetChildren(view, n) : n \in level[d]}
    PROVE  \A g \in DOMAIN view.groups[s] : \E d \in 1..Cardinality(GroupId) : GroupNode(s, g) \in level[d]
<1> DEFINE groups == view.groups[s]
           up == Tree!ParentsOf(groups)
           total == Cardinality(GroupId)
           Found(d) == {g \in DOMAIN groups : \E e \in 1..d : GroupNode(s, g) \in level[e]}
           S == {d \in 1..total : Found(d) = DOMAIN groups \/ Cardinality(Found(d)) >= d}
<1>1. /\ DOMAIN groups \subseteq GroupId /\ DOMAIN up = DOMAIN groups
      /\ \A g \in DOMAIN groups : up[g] = groups[g].parent /\ up[g] \in DOMAIN groups \cup {NoGroup}
      /\ \A T \in SUBSET DOMAIN groups : T # {} => \E x \in T : up[x] \notin T
  BY DEF SoundView, Tree!ParentsOf, Tree!ParentsResolve, Tree!Forest
<1>2. total \in Nat /\ IsFiniteSet(DOMAIN groups) /\ Cardinality(DOMAIN groups) <= total
  BY <1>1, FS_CardinalityType, FS_Subset
<1>3. \A d : /\ Found(d) \subseteq DOMAIN groups
             /\ IsFiniteSet(Found(d)) /\ Cardinality(Found(d)) \in Nat
             /\ Cardinality(Found(d)) <= Cardinality(DOMAIN groups)
             /\ Cardinality(Found(d)) = Cardinality(DOMAIN groups) => Found(d) = DOMAIN groups
  <2> TAKE d
  <2>1. Found(d) \in SUBSET DOMAIN groups
    OBVIOUS
  <2> HIDE DEF Found, groups
  <2> QED
    BY <1>2, <2>1, FS_Subset, FS_CardinalityType
<1>4. NoGroup \notin DOMAIN groups
  BY <1>1, NoGroupAssumption
<1>5. \A g \in DOMAIN groups : up[g] = NoGroup => GroupNode(s, g) \in level[1]
  <2> SUFFICES ASSUME NEW g \in DOMAIN groups, groups[g].parent = NoGroup
               PROVE  GroupNode(s, g) \in level[1]
    BY <1>1
  <2>1. GroupNode(s, g) \in Tree!GetChildren(view, ScopeNode(s))
    BY DEF Tree!GetChildren, Tree!ScopeChildren, Tree!GroupNodes, Tree!ChildrenOf, ScopeNode, GroupNode
  <2>2. 0 \in 0..total + 2 /\ 0 + 1 = 1
    BY <1>2
  <2>3. level[1] = UNION {Tree!GetChildren(view, n) : n \in level[0]}
    BY <2>2
  <2> QED
    BY <2>1, <2>3
<1>6. ASSUME NEW g \in DOMAIN groups, NEW h \in DOMAIN groups, up[g] = h,
             NEW d \in 1..total, GroupNode(s, h) \in level[d]
      PROVE  GroupNode(s, g) \in level[d + 1]
  <2>1. GroupNode(s, g) \in Tree!GetChildren(view, GroupNode(s, h))
    BY <1>1, <1>6 DEF Tree!GetChildren, Tree!GroupNodes, Tree!ChildrenOf, GroupNode
  <2>2. d \in 0..total + 2
    BY <1>2
  <2>3. level[d + 1] = UNION {Tree!GetChildren(view, n) : n \in level[d]}
    BY <2>2
  <2> QED
    BY <1>6, <2>1, <2>3
<1> HIDE DEF groups, up
<1>7. DOMAIN groups # {} => total >= 1 /\ \E g \in DOMAIN groups : up[g] = NoGroup
  BY <1>1, <1>2, FS_EmptySet
<1>8. ASSUME total >= 1
      PROVE  1 \in S
  <2>1. CASE DOMAIN groups = {}
    BY <1>2, <1>3, <1>8, <2>1
  <2>2. CASE DOMAIN groups # {}
    <3>1. PICK g \in DOMAIN groups : up[g] = NoGroup
      BY <1>7, <2>2
    <3>2. g \in Found(1)
      BY <1>5, <3>1
    <3>3. Cardinality(Found(1)) >= 1
      <4> HIDE DEF Found
      <4> QED
        BY <1>3, <3>2, FS_EmptySet
    <3>4. 1 \in 1..total
      BY <1>2, <1>8
    <3> HIDE DEF Found, total
    <3> QED
      BY <3>3, <3>4
  <2> QED BY <2>1, <2>2
<1>9. ASSUME NEW d \in 1..total, d < total, d \in S
      PROVE  d + 1 \in S
  <2>1. d + 1 \in 1..total /\ d \in Nat
    BY <1>2, <1>9
  <2>2. Found(d) \subseteq Found(d + 1)
    BY <2>1
  <2>3. CASE Found(d) = DOMAIN groups
    BY <1>3, <2>1, <2>2, <2>3
  <2>4. CASE Found(d) # DOMAIN groups
    <3>1. PICK x \in DOMAIN groups \ Found(d) : up[x] \notin DOMAIN groups \ Found(d)
      <4>1. DOMAIN groups \ Found(d) # {} /\ DOMAIN groups \ Found(d) \in SUBSET DOMAIN groups
        BY <1>3, <2>4
      <4> HIDE DEF Found
      <4> QED
        BY <1>1, <4>1
    <3>2. up[x] # NoGroup
      BY <1>5, <2>1, <3>1
    <3>3. up[x] \in Found(d)
      <4> HIDE DEF Found
      <4> QED
        BY <1>1, <3>1, <3>2
    <3>4. PICK e \in 1..d : GroupNode(s, up[x]) \in level[e]
      BY <3>3
    <3>5. GroupNode(s, x) \in level[e + 1] /\ e + 1 \in 1..d + 1
      <4>1. e \in 1..total /\ e + 1 \in 1..d + 1
        BY <2>1, <1>2
      <4>2. up[x] \in DOMAIN groups
        BY <1>3, <3>3
      <4> QED
        BY <1>6, <3>4, <4>1, <4>2
    <3>6. x \in Found(d + 1)
      BY <3>5
    <3>7. Cardinality(Found(d) \cup {x}) = Cardinality(Found(d)) + 1
      <4> HIDE DEF Found
      <4> QED
        BY <1>3, <3>1, FS_AddElement
    <3>8. Cardinality(Found(d) \cup {x}) <= Cardinality(Found(d + 1))
      <4>1. Found(d) \cup {x} \in SUBSET Found(d + 1)
        BY <2>2, <3>6
      <4> HIDE DEF Found
      <4> QED
        BY <1>3, <4>1, FS_Subset
    <3>9. Cardinality(Found(d)) >= d
      BY <1>9, <2>4
    <3>10. Cardinality(Found(d + 1)) >= d + 1
      <4> HIDE DEF Found
      <4> QED
        BY <1>3, <2>1, <3>7, <3>8, <3>9
    <3> QED
      BY <2>1, <3>10
  <2> QED BY <2>3, <2>4
<1>10. ASSUME total >= 1
       PROVE  Found(total) = DOMAIN groups
  <2>1. total \in S
    <3> HIDE DEF S
    <3>1. \A d \in 1..total : d < total /\ d \in S => d + 1 \in S
      BY <1>9
    <3>2. 1..total \subseteq S
      BY <1>2, <1>8, <1>10, <3>1, UpTo
    <3> QED
      BY <1>2, <1>10, <3>2
  <2>2. Found(total) = DOMAIN groups \/ Cardinality(Found(total)) >= total
    BY <2>1
  <2> HIDE DEF Found
  <2> QED
    BY <1>2, <1>3, <2>2, FS_CardinalityType
<1>11. total >= 1 \/ DOMAIN groups = {}
  BY <1>7
<1> QED
  BY <1>10, <1>11 DEF groups

(* Every shape a node has. *)
NodeShape(n) ==
    \/ \E s \in Tree!Scope : n = ScopeNode(s)
    \/ \E s \in Tree!Scope : \E g : g # NoGroup /\ n = GroupNode(s, g)
    \/ \E s, i : n = [kind |-> "item", scope |-> s, item |-> i]
    \/ \E s : n = [kind |-> "error", scope |-> s]
    \/ \E f : n = [kind |-> "discoveryRoot", folder |-> f]
    \/ \E f, s : n = [kind |-> "discoveryGroup", folder |-> f, source |-> s]
    \/ \E f, s, t : n = [kind |-> "discoveryItem", folder |-> f, source |-> s, task |-> t]
    \/ \E v : n = [kind |-> "remoteVault", vault |-> v]
    \/ \E v : n = [kind |-> "remoteNotice", vault |-> v]
    \/ n = [kind |-> "signIn"]

LEMMA InGroupsOfScope ==
    ASSUME NEW view, SoundView(view), NEW s \in Tree!Scope, NEW p, NEW c,
           c \in Tree!GroupNodes(view, s, p) \cup Tree!ItemNodes(view, s, p)
    PROVE  NodeShape(c) /\ Tree!GetParent(view, c) = Tree!InTree(s, p) /\ c.kind \in {"group", "item"}
<1>1. CASE c \in Tree!GroupNodes(view, s, p)
  <2>1. PICK g \in DOMAIN view.groups[s] : view.groups[s][g].parent = p /\ c = GroupNode(s, g)
    BY <1>1 DEF Tree!GroupNodes, Tree!ChildrenOf, GroupNode
  <2>2. g # NoGroup
    BY NoGroupAssumption DEF SoundView
  <2>3. NodeShape(c)
    BY <2>1, <2>2 DEF NodeShape
  <2> QED
    BY <2>1, <2>3 DEF Tree!GetParent, GroupNode
<1>2. CASE c \in Tree!ItemNodes(view, s, p)
  <2>1. PICK i \in DOMAIN view.items[s] :
            view.items[s][i] = p /\ c = [kind |-> "item", scope |-> s, item |-> i]
    BY <1>2 DEF Tree!ItemNodes
  <2>2. NodeShape(c)
    BY <2>1 DEF NodeShape
  <2> QED
    BY <2>1, <2>2 DEF Tree!GetParent
<1> QED
  BY <1>1, <1>2

(* A child has a shape, and the parent it was found under. *)
LEMMA ChildrenFit ==
    ASSUME NEW view, SoundView(view), NEW n, NodeShape(n), NEW c \in Tree!GetChildren(view, n)
    PROVE  NodeShape(c) /\ (c.kind # "discoveryRoot" => Tree!GetParent(view, c) = n)
<1>1. ASSUME NEW s \in Tree!Scope, n = ScopeNode(s)
      PROVE  NodeShape(c) /\ (c.kind # "discoveryRoot" => Tree!GetParent(view, c) = n)
  <2>1. c \in Tree!ScopeChildren(view, s)
    BY <1>1 DEF Tree!GetChildren, ScopeNode
  <2>2. CASE c \in Tree!GroupNodes(view, s, NoGroup) \cup Tree!ItemNodes(view, s, NoGroup)
    BY <1>1, <2>2, InGroupsOfScope DEF Tree!InTree, ScopeNode
  <2>3. CASE c = [kind |-> "error", scope |-> s]
    BY <1>1, <2>3 DEF NodeShape, Tree!GetParent, Tree!InTree, ScopeNode
  <2>4. CASE \E f : c = [kind |-> "discoveryRoot", folder |-> f]
    <3>1. PICK f : c = [kind |-> "discoveryRoot", folder |-> f]
      BY <2>4
    <3>2. NodeShape(c)
      BY <3>1 DEF NodeShape
    <3> QED
      BY <3>1, <3>2
  <2> QED
    BY <2>1, <2>2, <2>3, <2>4 DEF Tree!ScopeChildren
<1>2. ASSUME NEW s \in Tree!Scope, NEW g, g # NoGroup, n = GroupNode(s, g)
      PROVE  NodeShape(c) /\ Tree!GetParent(view, c) = n
  <2>1. c \in Tree!GroupNodes(view, s, g) \cup Tree!ItemNodes(view, s, g)
    BY <1>2 DEF Tree!GetChildren, GroupNode
  <2> QED
    BY <1>2, <2>1, InGroupsOfScope DEF Tree!InTree, GroupNode
<1>3. ASSUME NEW f, n = [kind |-> "discoveryRoot", folder |-> f]
      PROVE  NodeShape(c) /\ Tree!GetParent(view, c) = n
  <2>1. PICK s : c = [kind |-> "discoveryGroup", folder |-> f, source |-> s]
    BY <1>3 DEF Tree!GetChildren
  <2> QED
    BY <1>3, <2>1 DEF NodeShape, Tree!GetParent
<1>4. ASSUME NEW f, NEW s, n = [kind |-> "discoveryGroup", folder |-> f, source |-> s]
      PROVE  NodeShape(c) /\ Tree!GetParent(view, c) = n
  <2>1. PICK t : c = [kind |-> "discoveryItem", folder |-> f, source |-> s, task |-> t]
    BY <1>4 DEF Tree!GetChildren
  <2> QED
    BY <1>4, <2>1 DEF NodeShape, Tree!GetParent
<1>5. ASSUME NEW v, n = [kind |-> "remoteVault", vault |-> v]
      PROVE  NodeShape(c) /\ Tree!GetParent(view, c) = n
  <2>1. c = [kind |-> "remoteNotice", vault |-> v]
    BY <1>5 DEF Tree!GetChildren
  <2> QED
    BY <1>5, <2>1 DEF NodeShape, Tree!GetParent
<1>6. n.kind \in {"scope", "group", "discoveryRoot", "discoveryGroup", "remoteVault"}
  <2>1. n.kind \notin {"scope", "group", "discoveryRoot", "discoveryGroup", "remoteVault"} =>
            Tree!GetChildren(view, n) = {}
    BY DEF Tree!GetChildren
  <2> QED
    BY <2>1
<1> QED
  BY <1>1, <1>2, <1>3, <1>4, <1>5, <1>6 DEF NodeShape

LEMMA RootsFit ==
    ASSUME NEW view, NEW n \in Tree!RootNodes(view)
    PROVE  NodeShape(n)
<1>1. n \in {ScopeNode(s) : s \in Tree!Scope} \cup Tree!Vaults(view)
  BY DEF Tree!RootNodes, ScopeNode
<1>2. n \in Tree!Vaults(view) => n = [kind |-> "signIn"] \/ \E v : n = [kind |-> "remoteVault", vault |-> v]
  BY DEF Tree!Vaults
<1> QED
  BY <1>1, <1>2 DEF NodeShape

(* Whatever there is to see of a view is in its tree, and every node but   *)
(* the one above the tasks names as its parent the node it is found under. *)
THEOREM TreesAreComplete ==
    ASSUME IsFiniteSet(GroupId), NEW view, SoundView(view)
    PROVE  Tree!TreeIsComplete(view)
<1> DEFINE total == Cardinality(GroupId)
           nodes == Tree!AllNodes(view)
           Under(ns) == UNION {Tree!GetChildren(view, n) : n \in ns}
<1>1. PICK level : /\ level[0] = Tree!RootNodes(view)
                   /\ \A d \in 0..total + 2 : level[d + 1] = Under(level[d])
                   /\ nodes = UNION {level[d] : d \in 0..total + 3}
  BY LevelsAre
<1>2. total \in Nat
  BY FS_CardinalityType
<1> HIDE DEF nodes, total
<1>3. \A d \in 0..total + 2 : \A n \in level[d] : \A c \in Tree!GetChildren(view, n) : c \in level[d + 1]
  <2>1. \A d \in 0..total + 2 : level[d + 1] = Under(level[d])
    BY <1>1, <1>2
  <2> QED
    BY <2>1
<1>4. \A n \in nodes : NodeShape(n)
  <2> DEFINE S == {d \in 1..total + 3 : \A n \in level[d] : NodeShape(n)}
  <2>1. ASSUME NEW d \in 0..total + 2, \A n \in level[d] : NodeShape(n)
        PROVE  \A n \in level[d + 1] : NodeShape(n)
    <3>1. level[d + 1] = Under(level[d])
      BY <1>1, <1>2
    <3> QED
      BY <2>1, <3>1, ChildrenFit
  <2>2. \A n \in level[0] : NodeShape(n)
    BY <1>1, RootsFit
  <2>3. 1 \in S
    <3>1. 0 \in 0..total + 2 /\ 0 + 1 = 1 /\ 1 \in 1..total + 3
      BY <1>2
    <3> QED
      BY <2>1, <2>2, <3>1
  <2>4. ASSUME NEW d \in 1..total + 3, d < total + 3, d \in S
        PROVE  d + 1 \in S
    <3>1. d \in 0..total + 2 /\ d + 1 \in 1..total + 3
      BY <1>2, <2>4
    <3> QED
      BY <2>1, <2>4, <3>1
  <2> HIDE DEF S
  <2>5. total + 3 \in Nat /\ \A d \in 1..total + 3 : d < total + 3 /\ d \in S => d + 1 \in S
    BY <1>2, <2>4
  <2>6. 1..total + 3 \subseteq S
    BY <2>3, <2>5, UpTo
  <2>7. \A d \in 0..total + 3 : d = 0 \/ d \in 1..total + 3
    BY <1>2
  <2> QED
    BY <1>1, <2>2, <2>6, <2>7 DEF S
<1>5. \A n \in nodes : \A c \in Tree!GetChildren(view, n) :
         c.kind # "discoveryRoot" => Tree!GetParent(view, c) = n
  BY <1>4, ChildrenFit
<1>6. ASSUME NEW d \in 0..total + 3, NEW n \in level[d]
      PROVE  n \in nodes
  BY <1>1
<1>7. \/ Tree!IsLibraryEmpty(view) /\ Tree!Vaults(view) = {}
      \/ /\ \A s \in Tree!Scope : ScopeNode(s) \in level[0]
         /\ Tree!Vaults(view) \subseteq level[0]
  BY <1>1 DEF Tree!RootNodes, ScopeNode
<1>8. 0 \in 0..total + 2 /\ 1 \in 0..total + 2 /\ 2 \in 0..total + 2 /\ 0 + 1 = 1 /\ 1 + 1 = 2 /\ 2 + 1 = 3
  BY <1>2
<1>9. ASSUME NEW s \in Tree!Scope, ScopeNode(s) \in level[0]
      PROVE  /\ \A g \in DOMAIN view.groups[s] : GroupNode(s, g) \in nodes
             /\ \A i \in DOMAIN view.items[s] \ view.hidden : [kind |-> "item", scope |-> s, item |-> i] \in nodes
             /\ s \in view.broken => [kind |-> "error", scope |-> s] \in nodes
  <2>1. \A g \in DOMAIN view.groups[s] : \E d \in 1..total : GroupNode(s, g) \in level[d]
    <3>1. \A d \in 0..Cardinality(GroupId) + 2 : level[d + 1] = Under(level[d])
      BY <1>1, <1>2 DEF total
    <3> QED
      BY <1>9, <3>1, GroupsAreReached DEF total
  <2>2. \A d \in 1..total : d \in 0..total + 2 /\ d \in 0..total + 3 /\ d + 1 \in 0..total + 3
    BY <1>2
  <2>3. ASSUME NEW i \in DOMAIN view.items[s] \ view.hidden
        PROVE  [kind |-> "item", scope |-> s, item |-> i] \in nodes
    <3> DEFINE p == view.items[s][i]
               node == [kind |-> "item", scope |-> s, item |-> i]
    <3>1. node \in Tree!ItemNodes(view, s, p)
      BY DEF Tree!ItemNodes
    <3>2. p \in DOMAIN view.groups[s] \cup {NoGroup}
      BY DEF SoundView
    <3>3. CASE p = NoGroup
      <4>1. node \in Tree!GetChildren(view, ScopeNode(s))
        BY <3>1, <3>3 DEF Tree!GetChildren, Tree!ScopeChildren, ScopeNode
      <4>2. node \in level[1] /\ 1 \in 0..total + 3
        BY <1>2, <1>3, <1>8, <1>9, <4>1
      <4> QED
        BY <1>6, <4>2
    <3>4. CASE p # NoGroup
      <4>1. PICK d \in 1..total : GroupNode(s, p) \in level[d]
        BY <2>1, <3>2, <3>4
      <4>2. node \in Tree!GetChildren(view, GroupNode(s, p))
        BY <3>1 DEF Tree!GetChildren, GroupNode
      <4>3. node \in level[d + 1] /\ d + 1 \in 0..total + 3
        BY <1>3, <2>2, <4>1, <4>2
      <4> QED
        BY <1>6, <4>3
    <3> QED BY <3>3, <3>4
  <2>4. ASSUME s \in view.broken
        PROVE  [kind |-> "error", scope |-> s] \in nodes
    <3>1. [kind |-> "error", scope |-> s] \in Tree!GetChildren(view, ScopeNode(s))
      BY <2>4 DEF Tree!GetChildren, Tree!ScopeChildren, ScopeNode
    <3>2. [kind |-> "error", scope |-> s] \in level[1] /\ 1 \in 0..total + 3
      BY <1>2, <1>3, <1>8, <1>9, <3>1
    <3> QED
      BY <1>6, <3>2
  <2> QED
    BY <1>6, <2>1, <2>2, <2>3, <2>4
<1>10. ASSUME NEW f \in Folder, view.discovery, ScopeNode(f) \in level[0],
              NEW s \in DOMAIN view.discovered[f], NEW t \in view.discovered[f][s]
       PROVE  [kind |-> "discoveryItem", folder |-> f, source |-> s, task |-> t] \in nodes
  <2>1. s \in Tree!Sources(view, f)
    BY DEF Tree!Sources
  <2>2. [kind |-> "discoveryRoot", folder |-> f] \in Tree!GetChildren(view, ScopeNode(f))
    BY <1>10, <2>1 DEF Tree!GetChildren, Tree!ScopeChildren, ScopeNode
  <2>3. [kind |-> "discoveryGroup", folder |-> f, source |-> s]
           \in Tree!GetChildren(view, [kind |-> "discoveryRoot", folder |-> f])
    BY <2>1 DEF Tree!GetChildren
  <2>4. [kind |-> "discoveryItem", folder |-> f, source |-> s, task |-> t]
           \in Tree!GetChildren(view, [kind |-> "discoveryGroup", folder |-> f, source |-> s])
    BY DEF Tree!GetChildren
  <2>5. [kind |-> "discoveryRoot", folder |-> f] \in level[1]
    BY <1>3, <1>8, <1>10, <2>2
  <2>6. [kind |-> "discoveryGroup", folder |-> f, source |-> s] \in level[2]
    BY <1>3, <1>8, <2>3, <2>5
  <2>7. [kind |-> "discoveryItem", folder |-> f, source |-> s, task |-> t] \in level[3] /\ 3 \in 0..total + 3
    BY <1>2, <1>3, <1>8, <2>4, <2>6
  <2> QED
    BY <1>6, <2>7
<1>11. ASSUME view.server # NoServer, view.signedIn, NEW v \in view.mounted
       PROVE  [kind |-> "remoteVault", vault |-> v] \in Tree!Vaults(view)
  BY <1>11 DEF Tree!Vaults
<1>12. CASE Tree!IsLibraryEmpty(view) /\ Tree!Vaults(view) = {}
  <2>1. \A s \in Tree!Scope : DOMAIN view.items[s] = {} /\ DOMAIN view.groups[s] = {} /\ s \notin view.broken
    BY <1>12 DEF Tree!IsLibraryEmpty
  <2>2. view.discovery => \A f \in Folder : \A s \in DOMAIN view.discovered[f] : view.discovered[f][s] = {}
    BY <1>12 DEF Tree!IsLibraryEmpty, Tree!Sources
  <2> QED
    BY <1>5, <1>11, <1>12, <2>1, <2>2 DEF Tree!TreeIsComplete, nodes
<1>13. CASE /\ \A s \in Tree!Scope : ScopeNode(s) \in level[0]
            /\ Tree!Vaults(view) \subseteq level[0]
  <2>1. \A f \in Folder : f \in Tree!Scope
    BY DEF Tree!Scope
  <2>2. 0 \in 0..total + 3
    BY <1>2
  <2> QED
    BY <1>5, <1>6, <1>9, <1>10, <1>11, <1>13, <2>1, <2>2 DEF Tree!TreeIsComplete, nodes, GroupNode
<1> QED
  BY <1>7, <1>12, <1>13

-----------------------------------------------------------------------------
(* The inputs of the run are among those of the theorems.                  *)

LEMMA FullItemIs ==
  ASSUME NEW type \in {"snippet", "command"}
  PROVE  LET i == FullItem(type) IN
         /\ i \in SoundItem
         /\ i.context = "object"
         /\ i.type = type /\ i.title = "text" /\ i.body = "text"
         /\ i.description = "text" /\ i.groupId = "text" /\ i.tags = "list"
         /\ i.languages = "list" /\ i.globs = "list" /\ i.markers = "undefined"
         /\ i.prefix = "text" /\ i.cwd = "fileDir" /\ i.confirm = "true" /\ i.steps = "list"
<1> DEFINE n == Format!Item(type, "text", "text")
           i == FullItem(type)
<1>1. n \in SoundItem
  BY NewIsSound, ValuesAre
<1>2. /\ n.type = type /\ n.title = "text" /\ n.body = "text" /\ n.markers = "undefined"
      /\ DOMAIN n = Format!Field
  BY FieldsAre DEF Format!Item
<1> HIDE DEF n
<1>3. /\ i.context = "object"
      /\ i.type = type /\ i.title = "text" /\ i.body = "text"
      /\ i.description = "text" /\ i.groupId = "text" /\ i.tags = "list"
      /\ i.languages = "list" /\ i.globs = "list" /\ i.markers = "undefined"
      /\ i.prefix = "text" /\ i.cwd = "fileDir" /\ i.confirm = "true" /\ i.pinned = "true" /\ i.steps = "list"
      /\ i.id = n.id /\ i.createdAt = n.createdAt /\ i.updatedAt = n.updatedAt
  BY <1>2, FieldsAre DEF FullItem, n
<1>4. i = [f \in Format!Field |-> i[f]]
  BY <1>1 DEF FullItem, n, SoundItem
<1> HIDE DEF i
<1>5. \A f \in Format!Field : i[f] \in Held(f)
  <2>1. n.id \in Held("id") /\ \A f \in Format!Times : n[f] \in Held(f)
    BY <1>1, FieldsAre DEF SoundItem
  <2> QED
    BY <1>3, <2>1, FieldsAre, ValuesAre, HeldAre, HeldValues
<1>6. i \in SoundItem
  BY <1>4, <1>5, HeldAre DEF SoundItem
<1> QED
  BY <1>3, <1>6 DEF i

LEMMA VariedWithin ==
  ASSUME NEW base, NEW fields, NEW values, NEW S,
         \A f \in fields, v \in values : [base EXCEPT ![f] = v] \in S
  PROVE  Varied(base, fields, values) \subseteq S
BY DEF Varied

LEMMA RawItemsAreRaw == RawItems \subseteq RawItem
<1>1. ASSUME NEW i \in Base
      PROVE  /\ i \in [Format!Field -> JsonValue] /\ i.context = "object" /\ i.markers = "undefined"
  BY FullItemIs DEF Base, SoundItem
<1>2. Format!Value \subseteq JsonValue /\ Format!Lists \cup {"undefined", "other"} \subseteq JsonValue
  BY ValuesAre DEF JsonValue, Format!Value
<1>3. ASSUME NEW i \in Base, NEW f \in Format!Field \ {"context"}, NEW v \in Format!Value
      PROVE  [i EXCEPT ![f] = v] \in RawItem
  BY <1>1, <1>2, FieldsAre DEF RawItem
<1>4. ASSUME NEW i \in Base, NEW c \in {"undefined", "other"}
      PROVE  WithoutContext(i, c) \in RawItem
  <2> DEFINE j == WithoutContext(i, c)
  <2>1. c \in JsonValue /\ "undefined" \in JsonValue
    BY DEF JsonValue, Format!Value
  <2>2. j \in [Format!Field -> JsonValue]
    BY <1>1, <2>1 DEF WithoutContext
  <2>3. j.languages = "undefined" /\ j.globs = "undefined" /\ j.markers = "undefined"
    BY <1>1, FieldsAre DEF WithoutContext
  <2> QED
    BY <2>2, <2>3, FieldsAre DEF RawItem
<1>5. ASSUME NEW i \in Base, NEW l \in ContextList, NEW g \in ContextList
      PROVE  WithLists(i, l, g) \in RawItem
  BY <1>1, <1>2, FieldsAre DEF RawItem, WithLists, ContextList
<1>6. UNION {Varied(i, Format!Field \ {"context"}, Format!Value) : i \in Base} \subseteq RawItem
  BY <1>3 DEF Varied
<1>7. {WithoutContext(i, c) : i \in Base, c \in {"undefined", "other"}} \subseteq RawItem
  BY <1>4
<1>8. {WithLists(i, l, g) : i \in Base, l \in ContextList, g \in ContextList} \subseteq RawItem
  BY <1>5
<1> QED
  BY <1>6, <1>7, <1>8 DEF RawItems

LEMMA ShownIsPosted ==
  ASSUME NEW i \in Base
  PROVE  Payloads(i) \subseteq Posted
<1> DEFINE p == Format!Shown(i)
<1>1. /\ p.type \in {"snippet", "command"}
      /\ p.title = "text" /\ p.body = "text" /\ p.description = "text" /\ p.prefix = "text" /\ p.groupId = "text"
      /\ p.tags = "list" /\ p.steps = "list" /\ p.languages = "list" /\ p.globs = "list" /\ p.markers = "empty"
      /\ p.cwd = "fileDir" /\ p.confirm = "true"
  BY FullItemIs, FieldsAre DEF Base, Format!Shown, Format!OrElse
<1>2. p = [f \in Format!Field \ ({"id", "context", "pinned"} \cup Format!Times) |-> p[f]]
  BY DEF Format!Shown
<1> HIDE DEF p
<1>3. p \in [Format!Field \ ({"id", "context", "pinned"} \cup Format!Times) -> Format!Value]
  BY <1>1, <1>2, FieldsAre, ValuesAre DEF Format!Value
<1>4. p \in Posted
  BY <1>1, <1>3, FieldsAre, ValuesAre DEF Posted
<1>5. Format!Strings \cup Format!Lists \cup {"true", "false"} \subseteq Format!Value
  BY ValuesAre DEF Format!Value
<1>6. ASSUME NEW f \in {"title", "body", "description", "prefix"}, NEW v \in Format!Strings
      PROVE  [p EXCEPT ![f] = v] \in Posted
  BY <1>3, <1>4, <1>5, FieldsAre DEF Posted
<1>7. ASSUME NEW f \in {"tags", "steps", "languages", "globs"}, NEW v \in Format!Lists
      PROVE  [p EXCEPT ![f] = v] \in Posted
  BY <1>3, <1>4, <1>5, FieldsAre DEF Posted
<1>8. ASSUME NEW f \in {"confirm"}, NEW v \in {"true", "false"}
      PROVE  [p EXCEPT ![f] = v] \in Posted
  BY <1>3, <1>4, <1>5, FieldsAre DEF Posted
<1>9. Varied(p, {"title", "body", "description", "prefix"}, Format!Strings) \subseteq Posted
  BY <1>6, VariedWithin
<1>10. Varied(p, {"tags", "steps", "languages", "globs"}, Format!Lists) \subseteq Posted
  BY <1>7, VariedWithin
<1>11. Varied(p, {"confirm"}, {"true", "false"}) \subseteq Posted
  BY <1>8, VariedWithin
<1> QED
  BY <1>9, <1>10, <1>11 DEF Payloads, p

LEMMA MadeIsSound == Made \subseteq SoundItem
<1>1. LoadedItems \subseteq SoundItem
  BY RawItemsAreRaw, ValidIsSound DEF LoadedItems
<1>2. Base \subseteq SoundItem
  BY FullItemIs DEF Base
<1>3. ASSUME NEW i \in Base, NEW j \in Base, NEW p \in Payloads(j)
      PROVE  Format!UpdateItem(i, Format!ToPatch(p)) \in SoundItem
  BY <1>2, ShownIsPosted, PatchedItemsAreSound
<1>4. ASSUME NEW g \in {"undefined", "text"}
      PROVE  /\ \A b \in Format!Strings, e \in BOOLEAN : Format!CreateSnippet(b, g, e) \in SoundItem
             /\ Format!CreateCommandItem(g) \in SoundItem
             /\ \A t \in [name : {"text"}, command : {"text"}, detail : {"undefined", "empty", "text"}] :
                   Format!CopyDiscovered(t, g) \in SoundItem
             /\ \A s \in Snippets : Format!SnippetToItem(s, g) \in SoundItem
  <2>1. [name : {"text"}, command : {"text"}, detail : {"undefined", "empty", "text"}]
           \subseteq [name : Format!NonEmpty, command : Format!Strings,
                      detail : Format!Strings \cup {"undefined"}]
    BY ValuesAre
  <2>2. Snippets \subseteq [name : Format!NonEmpty, body : Format!Strings,
                            prefix : Format!Strings \cup {"undefined"},
                            description : Format!Strings \cup {"undefined"},
                            languages : Format!Lists \cup {"undefined"}]
    BY ValuesAre DEF Snippets
  <2>3. g \in Format!NonEmpty \cup {"undefined"}
    BY ValuesAre
  <2> QED
    BY <2>1, <2>2, <2>3, MadeItemsAreSound
<1>5. /\ {Format!CreateSnippet(b, g, e) : b \in Format!Strings, g \in {"undefined", "text"}, e \in BOOLEAN}
            \subseteq SoundItem
      /\ {Format!CreateCommandItem(g) : g \in {"undefined", "text"}} \subseteq SoundItem
      /\ {Format!CopyDiscovered(t, g) :
              t \in [name : {"text"}, command : {"text"}, detail : {"undefined", "empty", "text"}],
              g \in {"undefined", "text"}} \subseteq SoundItem
      /\ {Format!SnippetToItem(s, g) : s \in Snippets, g \in {"undefined", "text"}} \subseteq SoundItem
  BY <1>4
<1>6. UNION {{Format!UpdateItem(i, Format!ToPatch(p)) : p \in Payloads(j)} : i, j \in Base} \subseteq SoundItem
  BY <1>3
<1> QED
  BY <1>1, <1>5, <1>6 DEF Made

LEMMA DocumentsAreDocuments == Documents \subseteq Document
<1>1. RawGroups \subseteq RawGroup
  BY ValuesAre DEF RawGroups, RawGroup, JsonValue, Format!Value
<1>2. ASSUME NEW i \in RawItems
      PROVE  OnlyItem(i) \in Document
  <2>1. {i} \in SUBSET RawItem
    BY RawItemsAreRaw
  <2> QED
    BY <2>1 DEF OnlyItem, Document
<1>3. \A g \in RawGroups : {g} \in SUBSET RawGroup
  BY <1>1
<1>4. [syntax : {"object"}, schemaVersion : {"undefined", "0", "1", "2", "other"},
       groupsAre : {"list"}, groups : {{g} : g \in RawGroups}, itemsAre : {"undefined", "other"}, items : {{}}]
         \subseteq Document
  BY <1>3 DEF Document
<1> QED
  BY <1>2, <1>4 DEF Documents, Document

(* The hierarchies of the run's views are forests. *)
LEMMA NormalizedIsForest ==
    ASSUME NEW S \in SUBSET GroupId, NEW up \in Forests(S)
    PROVE  Tree!ParentsResolve(up) /\ Tree!Forest(up)
<1>1. up \in [S -> S \cup {NoGroup}] /\ NormalizeGroups(up) = up
  BY DEF Forests
<1>2. ASSUME NEW T \in SUBSET S, T # {}, \A x \in T : up[x] \in T
      PROVE  FALSE
  <2>1. PICK x \in T : TRUE
    BY <1>2
  <2>2. HasCycle(up, x)
    BY <1>1, <1>2, <2>1 DEF HasCycle
  <2>3. up[x] = NoGroup
    BY <1>1, <2>1, <2>2 DEF NormalizeGroups
  <2> QED
    BY <1>2, <2>1, <2>3, NoGroupAssumption
<1> QED
  BY <1>1, <1>2 DEF Tree!ParentsResolve, Tree!Forest

LEMMA ViewsAreSound ==
    ASSUME NEW view \in Views
    PROVE  SoundView(view)
<1>1. TreeGroup \in SUBSET GroupId
  BY FunctionsAssumption DEF TreeGroup
<1>2. PICK S \in SUBSET TreeGroup : \E u \in GroupsOf(S, {0}) : view \in ViewsOf(u)
  BY DEF Views
<1>3. PICK u \in GroupsOf(S, {0}) : view \in ViewsOf(u)
  BY <1>2
<1>4. PICK up \in Forests(S), order \in [S -> {0}] :
         u = [g \in S |-> [parent |-> up[g], order |-> order[g], name |-> NameOf[g]]]
  BY <1>3 DEF GroupsOf
<1>5. DOMAIN u = S /\ Tree!ParentsOf(u) = up
  BY <1>4 DEF Tree!ParentsOf, Forests
<1>6. PICK f \in Placed(S), rest \in Unplaced :
         view.items = [s \in Tree!Scope |-> IF s = User THEN f ELSE rest]
  BY <1>3, <1>5 DEF ViewsOf
<1>7. view.groups = [s \in Tree!Scope |-> IF s = User THEN u ELSE << >>]
  BY <1>3 DEF ViewsOf
<1>8. /\ \A i \in DOMAIN f : f[i] \in S \cup {NoGroup}
      /\ \A i \in DOMAIN rest : rest[i] = NoGroup
  BY DEF Placed, Unplaced
<1>9. Tree!ParentsResolve(up) /\ Tree!Forest(up) /\ S \subseteq GroupId
  BY <1>1, <1>2, NormalizedIsForest
<1>10. DOMAIN Tree!ParentsOf(<< >>) = {} /\ DOMAIN (<< >>) = {}
  BY DEF Tree!ParentsOf
<1>11. Tree!ParentsResolve(Tree!ParentsOf(<< >>)) /\ Tree!Forest(Tree!ParentsOf(<< >>))
  BY <1>10 DEF Tree!ParentsResolve, Tree!Forest
<1>12. ASSUME NEW s \in Tree!Scope
       PROVE  LET groups == view.groups[s] IN
              /\ DOMAIN groups \subseteq GroupId
              /\ Tree!ParentsResolve(Tree!ParentsOf(groups)) /\ Tree!Forest(Tree!ParentsOf(groups))
              /\ \A i \in DOMAIN view.items[s] : view.items[s][i] \in DOMAIN groups \cup {NoGroup}
  <2>1. CASE s = User
    <3>1. view.groups[s] = u /\ view.items[s] = f
      BY <1>6, <1>7, <2>1
    <3> QED
      BY <1>5, <1>8, <1>9, <3>1
  <2>2. CASE s # User
    <3>1. view.groups[s] = << >> /\ view.items[s] = rest
      BY <1>6, <1>7, <2>2
    <3> QED
      BY <1>8, <1>10, <1>11, <3>1
  <2> QED BY <2>1, <2>2
<1> QED
  BY <1>12 DEF SoundView

(* What an initial state gives a function is one of its inputs. *)
LEMMA InitialInputs ==
  ASSUME FunctionsInit
  PROVE  /\ input.about = "made" => input.given.item \in Made
         /\ input.about = "document" => input.given.doc \in Documents
         /\ input.about = "form" => input.given.item \in LoadedItems
         /\ input.about = "chain" => input.given.steps \in Chains
         /\ input.about = "template" => input.given.text \in Texts
<1>1. CASE input = [about |-> "walk"]
  BY <1>1
<1>2. CASE SomeInput
  BY <1>2 DEF SomeInput, Given
<1> QED
  BY <1>1, <1>2 DEF FunctionsInit

(* What the run checks of files holds for any of its inputs: made items    *)
(* and accepted documents are saved to text that loads again.              *)
THEOREM SavedFilesLoadAgain == FunctionsSpec => []SavedFilesLoad
<1>1. FunctionsInit => SavedFilesLoad
  BY InitialInputs, MadeIsSound, DocumentsAreDocuments, SoundItemsLoadAgain, FilesAreRewritten
     DEF SavedFilesLoad
<1>2. SavedFilesLoad /\ [FunctionsNext]_<<vars, input>> => SavedFilesLoad'
  <2> SUFFICES ASSUME SavedFilesLoad, [FunctionsNext]_<<vars, input>>
               PROVE  SavedFilesLoad'
    OBVIOUS
  <2>1. input' = input
    BY DEF FunctionsNext
  <2> QED
    BY <2>1 DEF SavedFilesLoad
<1> QED
  BY <1>1, <1>2, PTL DEF FunctionsSpec

(* Saving the form of a loaded item without a change keeps the item.       *)
THEOREM SavingTheFormChangesNothing == FunctionsSpec => []FormKeepsTheItem
<1>1. \A i \in LoadedItems : i \in SoundItem
  BY RawItemsAreRaw, ValidIsSound DEF LoadedItems
<1>2. FunctionsInit => FormKeepsTheItem
  BY <1>1, InitialInputs, SavingTheFormKeepsItems DEF FormKeepsTheItem
<1>3. FormKeepsTheItem /\ [FunctionsNext]_<<vars, input>> => FormKeepsTheItem'
  <2> SUFFICES ASSUME FormKeepsTheItem, [FunctionsNext]_<<vars, input>>
               PROVE  FormKeepsTheItem'
    OBVIOUS
  <2>1. input' = input
    BY DEF FunctionsNext
  <2> QED
    BY <2>1 DEF FormKeepsTheItem
<1> QED
  BY <1>2, <1>3, PTL DEF FunctionsSpec

LEMMA ShortSequences ==
    ASSUME NEW T, NEW a \in T, NEW b \in T
    PROVE  <<a, b>> \in Seq(T) /\ <<a>> \in Seq(T) /\ << >> \in Seq(T)
OBVIOUS

LEMMA SeqUpToIs ==
    ASSUME NEW T, NEW S \in SUBSET T, NEW n \in Nat
    PROVE  SeqUpTo(S, n) \subseteq Seq(T)
<1> SUFFICES ASSUME NEW k \in 0..n, NEW s \in [1..k -> S]
             PROVE  s \in Seq(T)
  BY DEF SeqUpTo
<1>1. s \in [1..k -> T] /\ k \in Nat
  OBVIOUS
<1> QED
  BY <1>1

(* The words of the chains that are given. *)
ChainToken ==
    {"rm", "/bin/rm", "-r", "-f", "--force", "git", "push", "sudo", ";"}
    \cup {"chmod", "777", "-R", "drop", "table", "dd", "if=x", ">", "/dev/sda", "mkfs", ":(){",
          "--force=x", "--recursive", "/usr/bin/sudo"}
    \cup {"&&", "x", "-x"}

LEMMA ChainsAreSequences ==
    ASSUME NEW steps \in Chains
    PROVE  steps \in Seq(Seq(ChainToken))
<1>1. Steps \subseteq Seq(ChainToken)
  <2> DEFINE S == {"rm", "/bin/rm", "-r", "-f", "--force", "git", "push", "sudo", ";"}
  <2>1. S \in SUBSET ChainToken /\ 3 \in Nat
    BY DEF ChainToken
  <2> HIDE DEF S
  <2>2. SeqUpTo(S, 3) \subseteq Seq(ChainToken)
    BY <2>1, SeqUpToIs
  <2> QED
    BY <2>2 DEF Steps, S
<1>2. OddSteps \subseteq Seq(ChainToken)
  <2> DEFINE S == {"chmod", "777", "-R", "drop", "table", "dd", "if=x", ">", "/dev/sda", "mkfs", ":(){",
                   "--force=x", "--recursive", "/usr/bin/sudo"}
  <2>1. S \in SUBSET ChainToken /\ 2 \in Nat
    BY DEF ChainToken
  <2> HIDE DEF S
  <2>2. SeqUpTo(S, 2) \subseteq Seq(ChainToken)
    BY <2>1, SeqUpToIs
  <2> QED
    BY <2>2 DEF OddSteps, S
<1>3. {"rm", "x", "git", "chmod", "-x"} \subseteq ChainToken
  BY DEF ChainToken
<1>4. {<<"rm", "x">>, <<"git">>, <<"chmod", "-x">>, << >>} \subseteq Seq(ChainToken)
  <2> HIDE DEF ChainToken
  <2> QED
    BY <1>3, ShortSequences
<1>5. \E s, t \in Seq(ChainToken) : steps = <<s, t>>
  <2> HIDE DEF ChainToken
  <2>1. CASE steps \in {<<s, t>> : s \in {<<"rm", "x">>, <<"git">>, <<"chmod", "-x">>, << >>},
                                   t \in Steps \cup OddSteps}
    <3>1. PICK s \in {<<"rm", "x">>, <<"git">>, <<"chmod", "-x">>, << >>}, t \in Steps \cup OddSteps :
             steps = <<s, t>>
      BY <2>1
    <3>2. s \in Seq(ChainToken) /\ t \in Seq(ChainToken)
      BY <1>1, <1>2, <1>4
    <3> QED
      BY <3>1, <3>2
  <2>2. CASE steps \in {<<t, s>> : s \in {<<"rm", "x">>, <<"git">>}, t \in Steps \cup OddSteps}
    <3>1. PICK s \in {<<"rm", "x">>, <<"git">>}, t \in Steps \cup OddSteps : steps = <<t, s>>
      BY <2>2
    <3>2. s \in Seq(ChainToken) /\ t \in Seq(ChainToken)
      BY <1>1, <1>2, <1>4
    <3> QED
      BY <3>1, <3>2
  <2> QED BY <2>1, <2>2 DEF Chains
<1> QED
  BY <1>5, ShortSequences

(* The text of a chain is flagged for whatever one of its steps is.        *)
THEOREM ChainsAreFlagged == FunctionsSpec => []ChainsKeepDanger
<1>1. FunctionsInit => ChainsKeepDanger
  <2> SUFFICES ASSUME FunctionsInit, input.about = "chain"
               PROVE  Command!KeepsDanger([steps |-> input.given.steps, body |-> << >>])
    BY DEF ChainsKeepDanger
  <2> DEFINE item == [steps |-> input.given.steps, body |-> << >>]
  <2>1. input.given.steps \in Seq(Seq(ChainToken))
    BY InitialInputs, ChainsAreSequences
  <2>2. item.steps \in Seq(Seq(ChainToken)) /\ "&&" \in ChainToken
    BY <2>1 DEF ChainToken
  <2> HIDE DEF item
  <2>3. Command!KeepsDanger(item)
    BY <2>2, ChainsHideNoStep
  <2> QED
    BY <2>3 DEF item
<1>2. ChainsKeepDanger /\ [FunctionsNext]_<<vars, input>> => ChainsKeepDanger'
  <2> SUFFICES ASSUME ChainsKeepDanger, [FunctionsNext]_<<vars, input>>
               PROVE  ChainsKeepDanger'
    OBVIOUS
  <2>1. input' = input
    BY DEF FunctionsNext
  <2> QED
    BY <2>1 DEF ChainsKeepDanger
<1> QED
  BY <1>1, <1>2, PTL DEF FunctionsSpec

(* Every view of the run is shown as a whole.                              *)
THEOREM EveryViewIsShown == FunctionsSpec => []TreeShowsEverything
<1>1. FunctionsInit => TreeShowsEverything
  <2> SUFFICES ASSUME FunctionsInit, input.about = "view"
               PROVE  Tree!TreeIsComplete(input.given.view)
    BY DEF TreeShowsEverything
  <2>1. input.given.view \in Views
    <3>1. input # [about |-> "walk"]
      OBVIOUS
    <3> QED
      BY <3>1 DEF FunctionsInit, SomeInput, Given
  <2> QED
    BY <2>1, ViewsAreSound, TreesAreComplete, FunctionsAssumption
<1>2. TreeShowsEverything /\ [FunctionsNext]_<<vars, input>> => TreeShowsEverything'
  <2> SUFFICES ASSUME TreeShowsEverything, [FunctionsNext]_<<vars, input>>
               PROVE  TreeShowsEverything'
    OBVIOUS
  <2>1. input' = input
    BY DEF FunctionsNext
  <2> QED
    BY <2>1 DEF TreeShowsEverything
<1> QED
  BY <1>1, <1>2, PTL DEF FunctionsSpec
=============================================================================
