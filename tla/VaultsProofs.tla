---------------------------- MODULE VaultsProofs ----------------------------
(***************************************************************************)
(* Theorems about Vaults, for any users, tenants, teams and number of      *)
(* listings.  That all callers agree needs more than itself to be          *)
(* inductive: an answer outlives the query that gave it, so the invariant  *)
(* says that what was answered is still the one row of its key, unless the *)
(* tenant or team is gone, and those never come back.                      *)
(***************************************************************************)
EXTENDS Vaults, TLAPS

(* The unique indexes. *)
OneRowPerKey == \A r, s \in vaults : r.key = s.key => r = s

(* The foreign keys. *)
RowsLive == \A r \in vaults : Lives(r.key)

(* A listing that inserts or reads again has a key to do it for. *)
KeyTaken == \A l \in Listing : step[l] \in {"insert", "reread"} => key[l] \in Key

RowInv == OneRowPerKey /\ RowsLive /\ AnswersLast /\ CallersAgree
IInv == TypeOK /\ KeyTaken /\ RowInv

-----------------------------------------------------------------------------
(* Facts about keys and rows.                                              *)

LEMMA KeyFacts ==
    /\ \A o \in Org, u \in User : PersonalKey(o, u) \in Key
    /\ \A t \in Team : ProjectKey(t) \in Key
    /\ \A k \in Key : k.org \in Org
    /\ \A k \in Key : k.kind = "project" => k.team \in Team /\ k = ProjectKey(k.team)
BY VaultsAssumption DEF Key, Personal, Project, PersonalKey, ProjectKey

LEMMA FreshIdIsUnused ==
    ASSUME NEW v \in FreshId
    PROVE  v \in VaultId /\ \A r \in vaults : r.id # v
BY DEF FreshId, Unused

-----------------------------------------------------------------------------
(* The initial states and each step keep IInv.                             *)

LEMMA InitHolds == Init => IInv
BY DEF Init, IInv, RowInv, TypeOK, OneRowPerKey, RowsLive, KeyTaken, AnswersLast, CallersAgree, Steps

(* A step that changes no row, tenant or team and gives no new answer.     *)
LEMMA QuietStep ==
    ASSUME RowInv, UNCHANGED <<orgs, teams, vaults>>,
           \A l \in Listing : answer'[l] \subseteq answer[l]
    PROVE  RowInv'
BY DEF RowInv, OneRowPerKey, RowsLive, AnswersLast, CallersAgree, Lives

(* Being answered with the row of a key is safe. *)

(* A listing may be answered with a row that is there when it is answered: *)
(* the rows are those of before, perhaps with the new one.                 *)
LEMMA AnswerFromRow ==
    ASSUME TypeOK, RowInv,
           NEW l \in Listing, NEW k \in Key, NEW v \in VaultId,
           Answer(l, k, v), UNCHANGED <<orgs, teams>>,
           \/ UNCHANGED vaults /\ [id |-> v, key |-> k] \in vaults
           \/ /\ Lives(k) /\ RowsFor(k) = {}
              /\ vaults' = vaults \cup {[id |-> v, key |-> k]}
    PROVE  RowInv'
<1> DEFINE row == [id |-> v, key |-> k]
<1>1. row.id = v /\ row.key = k
  OBVIOUS
<1>2. vaults \subseteq vaults' /\ row \in vaults' /\ vaults' \subseteq vaults \cup {row}
  OBVIOUS
<1>3. OneRowPerKey'
  BY <1>1 DEF RowInv, OneRowPerKey, RowsFor
<1>9. Lives(k) /\ RowsLive'
  BY <1>1, <1>2 DEF RowInv, RowsLive, Lives
<1>4. \A m \in Listing : \A a \in answer'[m] : a \in answer[m] \/ a = <<k, v>>
  BY DEF Answer, TypeOK
<1>5. AnswersLast'
  <2> SUFFICES ASSUME NEW m \in Listing, NEW a \in answer'[m], Lives(a[1])
               PROVE  [id |-> a[2], key |-> a[1]] \in vaults'
    BY DEF AnswersLast, Lives
  <2>1. CASE a \in answer[m]
    BY <1>2, <2>1 DEF RowInv, AnswersLast, Lives
  <2>2. CASE a = <<k, v>>
    BY <1>2, <2>2
  <2>. QED
    BY <1>4, <2>1, <2>2
<1>6. \A m \in Listing : \A a \in answer[m] : a[1] = k => a[2] = v
  <2> SUFFICES ASSUME NEW m \in Listing, NEW a \in answer[m], a[1] = k
               PROVE  a[2] = v
    OBVIOUS
  <2> DEFINE old == [id |-> a[2], key |-> a[1]]
  <2>1. old.id = a[2] /\ old.key = k
    OBVIOUS
  <2>2. old \in vaults
    BY <1>9 DEF RowInv, AnswersLast
  <2>3. old \in vaults' /\ row \in vaults'
    BY <1>2, <2>2
  <2>4. old = row
    BY <1>1, <1>3, <2>1, <2>3 DEF OneRowPerKey
  <2>. QED
    BY <1>1, <2>1, <2>4
<1>7. CallersAgree'
  BY <1>4, <1>6 DEF RowInv, CallersAgree
<1>. QED
  BY <1>3, <1>5, <1>7, <1>9 DEF RowInv

(* Deletions cascade to the rows of the keys that go with the tenant or    *)
(* team, and to no others.                                                 *)
LEMMA DeletionStep ==
    ASSUME TypeOK, RowInv, UNCHANGED answer, vaults' \subseteq vaults,
           orgs' \subseteq orgs, teams' \subseteq teams,
           \A r \in vaults : r \in vaults' <=> Lives(r.key)'
    PROVE  RowInv'
<1>1. OneRowPerKey' /\ RowsLive' /\ CallersAgree'
  BY DEF RowInv, OneRowPerKey, RowsLive, CallersAgree
<1>2. ASSUME NEW l \in Listing, NEW a \in answer[l], Lives(a[1])'
      PROVE  [id |-> a[2], key |-> a[1]] \in vaults'
  <2> DEFINE row == [id |-> a[2], key |-> a[1]]
  <2>1. row \in vaults
    BY <1>2 DEF RowInv, AnswersLast, Lives
  <2>. QED
    BY <1>2, <2>1
<1>. QED
  BY <1>1, <1>2 DEF RowInv, AnswersLast

-----------------------------------------------------------------------------
(* Each action keeps the type invariant and the key in hand.               *)

LEMMA StepKeepsType ==
    ASSUME TypeOK, KeyTaken, [Next]_vars
    PROVE  TypeOK' /\ KeyTaken'
<1> USE DEF TypeOK, KeyTaken, Steps, Ended
<1>1. CASE UNCHANGED vars
  BY <1>1 DEF vars, tenantVars, listingVars
<1>2. ASSUME NEW l \in Listing, NEW u \in User, Begin(l, u) PROVE TypeOK' /\ KeyTaken'
  BY <1>2 DEF Begin, GoTo, tenantVars
<1>3. ASSUME NEW l \in Listing, ReadOrganizations(l) PROVE TypeOK' /\ KeyTaken'
  BY <1>3 DEF ReadOrganizations, GoTo, tenantVars
<1>4. ASSUME NEW l \in Listing, ReadTeams(l) PROVE TypeOK' /\ KeyTaken'
  <2> DEFINE mine == {t \in teams : <<user[l], t>> \in teamMembers}
             keys == {PersonalKey(o, user[l]) : o \in found[l]}
                        \cup {ProjectKey(t) : t \in {t \in mine : OrgOf[t] \in found[l]}}
  <2>1. keys \subseteq Key
    <3>1. \A o \in found[l] : PersonalKey(o, user[l]) \in Key
      BY KeyFacts
    <3>2. \A t \in mine : ProjectKey(t) \in Key
      BY KeyFacts
    <3>. QED
      BY <3>1, <3>2
  <2>2. /\ todo' = [todo EXCEPT ![l] = keys]
        /\ GoTo(l, IF keys = {} THEN "done" ELSE "find")
        /\ UNCHANGED <<tenantVars, vaults, user, found, key, answer, changed, changes>>
    BY <1>4 DEF ReadTeams
  <2> HIDE DEF keys
  <2>. QED
    BY <2>1, <2>2 DEF GoTo, tenantVars
<1>5. ASSUME NEW l \in Listing, NEW k \in Key, NEW v \in VaultId, Answer(l, k, v)
      PROVE  /\ step' \in [Listing -> Steps] /\ todo' \in [Listing -> SUBSET Key]
             /\ key' \in [Listing -> Key \cup {NoKey}]
             /\ answer' \in [Listing -> SUBSET (Key \X VaultId)]
             /\ KeyTaken'
  BY <1>5 DEF Answer, GoTo
<1>6. ASSUME NEW l \in Listing, Fail(l)
      PROVE  /\ step' \in [Listing -> Steps] /\ todo' \in [Listing -> SUBSET Key]
             /\ key' \in [Listing -> Key \cup {NoKey}]
             /\ answer' \in [Listing -> SUBSET (Key \X VaultId)]
             /\ KeyTaken'
  BY <1>6 DEF Fail, GoTo
<1>7. ASSUME NEW l \in Listing, Find(l) PROVE TypeOK' /\ KeyTaken'
  <2>1. PICK k \in todo[l] :
            \/ \E r \in RowsFor(k) : Answer(l, k, r.id)
            \/ key' = [key EXCEPT ![l] = k] /\ GoTo(l, "insert") /\ UNCHANGED <<todo, answer>>
    BY <1>7 DEF Find
  <2>2. k \in Key
    OBVIOUS
  <2>3. UNCHANGED <<tenantVars, vaults, user, found, changed, changes>>
    BY <1>7 DEF Find
  <2>4. ASSUME NEW r \in RowsFor(k), Answer(l, k, r.id) PROVE TypeOK' /\ KeyTaken'
    <3>1. r.id \in VaultId
      BY DEF RowsFor, Row
    <3>. QED
      BY <1>5, <2>2, <2>3, <2>4, <3>1 DEF tenantVars
  <2>5. CASE key' = [key EXCEPT ![l] = k] /\ GoTo(l, "insert") /\ UNCHANGED <<todo, answer>>
    BY <2>2, <2>3, <2>5 DEF GoTo, tenantVars
  <2>. QED
    BY <2>1, <2>4, <2>5
<1>8. ASSUME NEW l \in Listing, Insert(l) PROVE TypeOK' /\ KeyTaken'
  <2>1. UNCHANGED <<tenantVars, user, found, changed, changes>> /\ key[l] \in Key
    BY <1>8 DEF Insert
  <2>2. CASE Fail(l) /\ UNCHANGED vaults
    BY <1>6, <2>1, <2>2 DEF tenantVars
  <2>3. CASE GoTo(l, "reread") /\ UNCHANGED <<vaults, todo, key, answer>>
    BY <2>1, <2>3 DEF GoTo, tenantVars
  <2>4. ASSUME NEW v \in FreshId, vaults' = vaults \cup {[id |-> v, key |-> key[l]]},
               Answer(l, key[l], v)
        PROVE  TypeOK' /\ KeyTaken'
    <3>1. v \in VaultId /\ vaults' \in SUBSET Row
      BY <2>1, <2>4, FreshIdIsUnused DEF Row
    <3>. QED
      BY <1>5, <2>1, <2>4, <3>1 DEF tenantVars
  <2>. QED
    BY <1>8, <2>2, <2>3, <2>4 DEF Insert
<1>9. ASSUME NEW l \in Listing, Reread(l) PROVE TypeOK' /\ KeyTaken'
  <2>1. UNCHANGED <<tenantVars, vaults, user, found, changed, changes>> /\ key[l] \in Key
    BY <1>9 DEF Reread
  <2>2. CASE Fail(l)
    BY <1>6, <2>1, <2>2 DEF tenantVars
  <2>3. ASSUME NEW r \in RowsFor(key[l]), Answer(l, key[l], r.id) PROVE TypeOK' /\ KeyTaken'
    <3>1. r.id \in VaultId
      BY DEF RowsFor, Row
    <3>. QED
      BY <1>5, <2>1, <2>3, <3>1 DEF tenantVars
  <2>. QED
    BY <1>9, <2>2, <2>3 DEF Reread
<1>10. ASSUME NEW u \in User, NEW o \in Org, ChangeMember(u, o) PROVE TypeOK' /\ KeyTaken'
  BY <1>10 DEF ChangeMember, Change, listingVars
<1>11. ASSUME NEW u \in User, NEW t \in Team, ChangeTeamMember(u, t) PROVE TypeOK' /\ KeyTaken'
  BY <1>11 DEF ChangeTeamMember, Change, listingVars
<1>12. ASSUME NEW t \in Team, DeleteTeam(t) PROVE TypeOK' /\ KeyTaken'
  BY <1>12 DEF DeleteTeam, Change, listingVars
<1>13. ASSUME NEW o \in Org, DeleteOrg(o) PROVE TypeOK' /\ KeyTaken'
  BY <1>13 DEF DeleteOrg, Change, listingVars
<1>. QED
  BY <1>1, <1>2, <1>3, <1>4, <1>7, <1>8, <1>9, <1>10, <1>11, <1>12, <1>13 DEF Next, Serve

LEMMA StepKeepsRows ==
    ASSUME IInv, [Next]_vars
    PROVE  RowInv'
<1> USE DEF IInv
<1>1. CASE UNCHANGED vars
  BY <1>1, QuietStep DEF vars, tenantVars, listingVars
<1>2. ASSUME NEW l \in Listing, NEW u \in User, Begin(l, u) PROVE RowInv'
  BY <1>2, QuietStep DEF Begin, tenantVars, TypeOK
<1>3. ASSUME NEW l \in Listing, ReadOrganizations(l) \/ ReadTeams(l) PROVE RowInv'
  BY <1>3, QuietStep DEF ReadOrganizations, ReadTeams, tenantVars
<1>4. ASSUME NEW l \in Listing, Find(l) PROVE RowInv'
  <2>1. PICK k \in todo[l] : (\E r \in RowsFor(k) : Answer(l, k, r.id)) \/ UNCHANGED answer
    BY <1>4 DEF Find
  <2>2. k \in Key /\ UNCHANGED <<orgs, teams, vaults>>
    BY <1>4 DEF Find, TypeOK, tenantVars
  <2>3. CASE UNCHANGED answer
    BY <2>2, <2>3, QuietStep
  <2>4. ASSUME NEW r \in RowsFor(k), Answer(l, k, r.id) PROVE RowInv'
    <3>1. r.id \in VaultId /\ [id |-> r.id, key |-> k] \in vaults
      BY DEF RowsFor, Row, TypeOK
    <3>. QED
      BY <2>2, <2>4, <3>1, AnswerFromRow
  <2>. QED
    BY <2>1, <2>3, <2>4
<1>5. ASSUME NEW l \in Listing, Insert(l) PROVE RowInv'
  <2>1. UNCHANGED <<orgs, teams>> /\ key[l] \in Key
    BY <1>5 DEF Insert, KeyTaken, tenantVars
  <2>2. CASE UNCHANGED <<vaults, answer>>
    BY <2>1, <2>2, QuietStep
  <2>3. ASSUME NEW v \in FreshId, vaults' = vaults \cup {[id |-> v, key |-> key[l]]},
               Lives(key[l]), RowsFor(key[l]) = {}, Answer(l, key[l], v)
        PROVE  RowInv'
    <3>1. v \in VaultId
      BY FreshIdIsUnused
    <3>. QED
      BY <2>1, <2>3, <3>1, AnswerFromRow
  <2>. QED
    BY <1>5, <2>2, <2>3 DEF Insert, Fail
<1>6. ASSUME NEW l \in Listing, Reread(l) PROVE RowInv'
  <2>1. UNCHANGED <<orgs, teams, vaults>> /\ key[l] \in Key
    BY <1>6 DEF Reread, KeyTaken, tenantVars
  <2>2. CASE UNCHANGED answer
    BY <2>1, <2>2, QuietStep
  <2>3. ASSUME NEW r \in RowsFor(key[l]), Answer(l, key[l], r.id) PROVE RowInv'
    <3>1. r.id \in VaultId /\ [id |-> r.id, key |-> key[l]] \in vaults
      BY DEF RowsFor, Row, TypeOK
    <3>. QED
      BY <2>1, <2>3, <3>1, AnswerFromRow
  <2>. QED
    BY <1>6, <2>2, <2>3 DEF Reread, Fail
<1>7. ASSUME NEW u \in User, (\E o \in Org : ChangeMember(u, o)) \/ (\E t \in Team : ChangeTeamMember(u, t))
      PROVE  RowInv'
  BY <1>7, QuietStep DEF ChangeMember, ChangeTeamMember, Change, listingVars
<1>8. ASSUME NEW t \in Team, DeleteTeam(t) PROVE RowInv'
  <2>1. \A r \in vaults : r.key \in Key /\ Lives(r.key)
    BY DEF RowInv, RowsLive, TypeOK, Row
  <2>2. \A k \in Key : Lives(k) => (Lives(k)' <=> k # ProjectKey(t))
    BY <1>8, KeyFacts DEF DeleteTeam, Lives, ProjectKey, Key, Personal, Project
  <2>. QED
    BY <1>8, <2>1, <2>2, DeletionStep DEF DeleteTeam, Change, listingVars
<1>9. ASSUME NEW o \in Org, DeleteOrg(o) PROVE RowInv'
  <2>1. \A r \in vaults : r.key \in Key /\ Lives(r.key)
    BY DEF RowInv, RowsLive, TypeOK, Row
  <2>2. \A k \in Key : Lives(k) => (Lives(k)' <=> k.org # o)
    BY <1>9 DEF DeleteOrg, Lives, Key, Personal, Project
  <2>. QED
    BY <1>9, <2>1, <2>2, DeletionStep DEF DeleteOrg, Change, listingVars
<1>. QED
  BY <1>1, <1>2, <1>3, <1>4, <1>5, <1>6, <1>7, <1>8, <1>9 DEF Next, Serve

THEOREM InductiveInvariant == Spec => []IInv
<1>1. IInv /\ [Next]_vars => IInv'
  BY StepKeepsType, StepKeepsRows DEF IInv
<1>. QED
  BY InitHolds, <1>1, PTL DEF Spec

-----------------------------------------------------------------------------
(* The invariants the runs check.                                          *)

(* Every table, and all a listing remembers, stays what the code declares. *)
THEOREM TypeCorrect == Spec => []TypeOK
<1>1. IInv => TypeOK
  BY DEF IInv
<1>. QED
  BY InductiveInvariant, <1>1, PTL

(* Two listings are never told of two vaults of one member or team, and a  *)
(* listing never of two (service.ts 45: "the unique index held").          *)
THEOREM AllAgree == Spec => []CallersAgree
<1>1. IInv => CallersAgree
  BY DEF IInv, RowInv
<1>. QED
  BY InductiveInvariant, <1>1, PTL

(* What a listing was told is still so, until the tenant or team goes.     *)
THEOREM AnswersStay == Spec => []AnswersLast
<1>1. IInv => AnswersLast
  BY DEF IInv, RowInv
<1>. QED
  BY InductiveInvariant, <1>1, PTL

-----------------------------------------------------------------------------
(* The listings implement VaultRegistry.                                   *)

VaultKeys == {r.key : r \in vaults}
VaultOf == [k \in VaultKeys |-> (CHOOSE r \in vaults : r.key = k).id]

LEMMA VaultOfRow ==
    ASSUME OneRowPerKey, NEW r \in vaults
    PROVE  r.key \in VaultKeys /\ VaultOf[r.key] = r.id
<1>1. r.key \in VaultKeys
  BY DEF VaultKeys
<1>2. (CHOOSE s \in vaults : s.key = r.key) = r
  BY DEF OneRowPerKey
<1>. QED
  BY <1>1, <1>2 DEF VaultOf

(* Rows that go and rows that stay, seen as a function.                    *)
LEMMA VaultOfFewerRows ==
    ASSUME OneRowPerKey, vaults' \subseteq vaults
    PROVE  VaultOf' = [k \in VaultKeys \ {k \in VaultKeys : k \notin VaultKeys'} |-> VaultOf[k]]
<1>1. OneRowPerKey' /\ VaultKeys' \subseteq VaultKeys
  BY DEF OneRowPerKey, VaultKeys
<1>2. ASSUME NEW k \in VaultKeys' PROVE (VaultOf[k])' = VaultOf[k]
  <2>1. PICK r \in vaults' : r.key = k
    BY DEF VaultKeys
  <2>2. VaultOf[k] = r.id
    BY <2>1, VaultOfRow
  <2>3. (CHOOSE s \in vaults' : s.key = k) = r
    BY <1>1, <2>1 DEF OneRowPerKey
  <2>. QED
    BY <2>2, <2>3 DEF VaultOf
<1>3. VaultOf' = [k \in VaultKeys' |-> (VaultOf[k])']
  BY DEF VaultOf
<1>. QED
  BY <1>1, <1>2, <1>3

LEMMA InitRefines == Init => Registry!Init
BY DEF Init, Registry!Init

LEMMA QuietRefines ==
    ASSUME UNCHANGED <<vaults, answer>>
    PROVE  [Registry!Next]_<<VaultOf, answer>>
BY DEF VaultOf, VaultKeys

(* An answer from a row that is there. *)
LEMMA FoundRefines ==
    ASSUME TypeOK, OneRowPerKey, UNCHANGED vaults,
           NEW l \in Listing, NEW r \in vaults, Answer(l, r.key, r.id)
    PROVE  Registry!Next
<1>1. r.key \in VaultKeys /\ VaultOf[r.key] = r.id /\ DOMAIN VaultOf = VaultKeys
  BY VaultOfRow DEF VaultOf
<1>2. VaultOf' = VaultOf
  BY DEF VaultOf, VaultKeys
<1>3. Registry!Ensure(l, r.key, r.id)
  BY <1>1, <1>2 DEF Registry!Ensure, Answer, VaultOf, VaultKeys
<1>4. r.key \in Key /\ r.id \in VaultId
  BY DEF TypeOK, Row
<1>. QED
  BY <1>3, <1>4 DEF Registry!Next

(* An answer with the row just inserted. *)
LEMMA CreatedRefines ==
    ASSUME TypeOK, OneRowPerKey,
           NEW l \in Listing, NEW k \in Key, NEW v \in FreshId, RowsFor(k) = {},
           vaults' = vaults \cup {[id |-> v, key |-> k]}, Answer(l, k, v)
    PROVE  Registry!Next
<1> DEFINE row == [id |-> v, key |-> k]
<1>1. v \in VaultId /\ (\A r \in vaults : r.id # v) /\ k \notin VaultKeys
  BY FreshIdIsUnused DEF VaultKeys, RowsFor
<1>2. row.id = v /\ row.key = k /\ row \in vaults'
  OBVIOUS
<1>3. OneRowPerKey' /\ VaultKeys' = VaultKeys \cup {k}
  BY <1>2 DEF OneRowPerKey, VaultKeys, RowsFor
<1>4. \A j \in VaultKeys : VaultOf[j] # v
  <2> SUFFICES ASSUME NEW r \in vaults PROVE VaultOf[r.key] # v
    BY DEF VaultKeys
  <2>. QED
    BY <1>1, VaultOfRow
<1>5. \A r \in vaults' : (CHOOSE s \in vaults' : s.key = r.key) = r
  BY <1>3 DEF OneRowPerKey
<1>6. \A j \in VaultKeys' : (CHOOSE s \in vaults' : s.key = j).id = (IF j = k THEN v ELSE VaultOf[j])
  <2> SUFFICES ASSUME NEW r \in vaults'
               PROVE  r.id = (IF r.key = k THEN v ELSE VaultOf[r.key])
    BY <1>5 DEF VaultKeys
  <2>1. CASE r = row
    BY <1>2, <2>1
  <2>2. CASE r \in vaults
    BY <1>1, <2>2, VaultOfRow
  <2>. QED
    BY <2>1, <2>2
<1>7. VaultOf' = [j \in VaultKeys \cup {k} |-> IF j = k THEN v ELSE VaultOf[j]]
  BY <1>3, <1>6 DEF VaultOf
<1>8. DOMAIN VaultOf = VaultKeys
  BY DEF VaultOf
<1>9. Registry!Ensure(l, k, v)
  BY <1>1, <1>4, <1>7, <1>8 DEF Registry!Ensure, Answer, VaultOf, VaultKeys
<1>. QED
  BY <1>1, <1>9 DEF Registry!Next

LEMMA DeletionRefines ==
    ASSUME TypeOK, OneRowPerKey, vaults' \subseteq vaults, UNCHANGED answer
    PROVE  Registry!Next
<1> DEFINE gone == {k \in VaultKeys : k \notin VaultKeys'}
<1>1. VaultOf' = [k \in VaultKeys \ gone |-> VaultOf[k]] /\ DOMAIN VaultOf = VaultKeys
  BY VaultOfFewerRows DEF VaultOf
<1>2. PICK K \in SUBSET Key : K = gone
  BY DEF VaultKeys, TypeOK, Row
<1>3. Registry!Delete(K)
  BY <1>1, <1>2 DEF Registry!Delete, VaultOf, VaultKeys
<1>. QED
  BY <1>3 DEF Registry!Next

LEMMA StepRefines ==
    ASSUME IInv, [Next]_vars
    PROVE  [Registry!Next]_<<VaultOf, answer>>
<1> USE DEF IInv, RowInv
<1>1. CASE UNCHANGED vars
  BY <1>1, QuietRefines DEF vars, listingVars
<1>2. ASSUME NEW l \in Listing, NEW u \in User, Begin(l, u) PROVE Registry!Next
  <2>1. VaultOf' = VaultOf
    BY <1>2 DEF Begin, VaultOf, VaultKeys
  <2>2. Registry!Begin(l)
    BY <1>2, <2>1 DEF Begin, Registry!Begin, VaultOf, VaultKeys
  <2>. QED
    BY <2>2 DEF Registry!Next
<1>3. ASSUME NEW l \in Listing, ReadOrganizations(l) \/ ReadTeams(l)
      PROVE  [Registry!Next]_<<VaultOf, answer>>
  BY <1>3, QuietRefines DEF ReadOrganizations, ReadTeams
<1>4. ASSUME NEW l \in Listing, Find(l) \/ Reread(l)
      PROVE  [Registry!Next]_<<VaultOf, answer>>
  <2>1. \/ UNCHANGED <<vaults, answer>>
        \/ UNCHANGED vaults /\ \E r \in vaults : Answer(l, r.key, r.id)
    BY <1>4 DEF Find, Reread, Fail, RowsFor
  <2>. QED
    BY <2>1, QuietRefines, FoundRefines
<1>5. ASSUME NEW l \in Listing, Insert(l) PROVE [Registry!Next]_<<VaultOf, answer>>
  <2>1. key[l] \in Key
    BY <1>5 DEF Insert, KeyTaken
  <2>2. \/ UNCHANGED <<vaults, answer>>
        \/ /\ RowsFor(key[l]) = {}
           /\ \E v \in FreshId : /\ vaults' = vaults \cup {[id |-> v, key |-> key[l]]}
                                 /\ Answer(l, key[l], v)
    BY <1>5 DEF Insert, Fail
  <2>. QED
    BY <2>1, <2>2, QuietRefines, CreatedRefines
<1>6. ASSUME NEW u \in User, (\E o \in Org : ChangeMember(u, o)) \/ (\E t \in Team : ChangeTeamMember(u, t))
      PROVE  [Registry!Next]_<<VaultOf, answer>>
  BY <1>6, QuietRefines DEF ChangeMember, ChangeTeamMember, Change, listingVars
<1>7. ASSUME (\E t \in Team : DeleteTeam(t)) \/ (\E o \in Org : DeleteOrg(o))
      PROVE  Registry!Next
  BY <1>7, DeletionRefines DEF DeleteTeam, DeleteOrg, Change, listingVars
<1>. QED
  BY <1>1, <1>2, <1>3, <1>4, <1>5, <1>6, <1>7 DEF Next, Serve

(* However their queries interleave, the listings get or create as if each *)
(* asked in one step: two that race for a first vault cannot both make one *)
(* (service.ts 24-78, and the unique indexes of schema.ts).                *)
THEOREM ImplementsRegistry == Spec => GetOrCreate
<1>1. IInv /\ [Next]_vars => [Registry!Next]_<<VaultOf, answer>>
  BY StepRefines
<1>. QED
  BY InitRefines, InductiveInvariant, <1>1, PTL
     DEF Spec, GetOrCreate, Registry!Spec, VaultOf, VaultKeys

-----------------------------------------------------------------------------
(* What a listing knows while nothing changes under it.                    *)

TenantInv == \A t \in teams : OrgOf[t] \in orgs
MembershipsOf(u) == {o \in Org : <<u, o>> \in members}
AnsweredKeys(l) == {a[1] : a \in answer[l]}

Progress(l) ==
    /\ step[l] = "organizations" => answer[l] = {} /\ found[l] = MembershipsOf(user[l])
    /\ step[l] = "teams" => answer[l] = {} /\ found[l] = MembershipsOf(user[l]) \cap orgs
    /\ step[l] \in {"find", "insert", "reread"} =>
            AnsweredKeys(l) \cup todo[l] = Entitled(user[l])
    /\ step[l] \in {"insert", "reread"} => key[l] \in todo[l]
    /\ step[l] = "reread" => RowsFor(key[l]) # {}
    /\ step[l] = "done" => AnsweredKeys(l) = Entitled(user[l])
    /\ step[l] # "failed"

ListingInv == \A l \in Listing : ~changed[l] => Progress(l)

LEMMA EntitledLives ==
    ASSUME TypeOK, TenantInv, NEW u \in User, NEW k \in Entitled(u)
    PROVE  Lives(k)
<1>1. CASE \E o \in orgs : k = PersonalKey(o, u)
  BY <1>1 DEF PersonalKey, Lives
<1>2. CASE \E t \in teams : k = ProjectKey(t)
  BY <1>2 DEF ProjectKey, Lives, TenantInv
<1>. QED
  BY <1>1, <1>2 DEF Entitled

(* A step of one listing leaves what the others know as it is.             *)
LEMMA OthersProgress ==
    ASSUME NEW m \in Listing, Progress(m),
           UNCHANGED tenantVars, vaults \subseteq vaults',
           <<step[m], user[m], found[m], todo[m], key[m], answer[m]>>'
               = <<step[m], user[m], found[m], todo[m], key[m], answer[m]>>
    PROVE  Progress(m)'
<1>1. /\ UNCHANGED <<step[m], user[m], found[m], todo[m], key[m], answer[m]>>
      /\ UNCHANGED <<orgs, teams, members, teamMembers>>
  BY DEF tenantVars
<1>2. /\ MembershipsOf(user[m])' = MembershipsOf(user[m])
      /\ Entitled(user[m])' = Entitled(user[m])
      /\ AnsweredKeys(m)' = AnsweredKeys(m)
      /\ RowsFor(key[m]) \subseteq RowsFor(key[m])'
  BY <1>1 DEF MembershipsOf, Entitled, AnsweredKeys, RowsFor
<1>. QED
  BY <1>1, <1>2 DEF Progress

(* An answer for a key still to do is progress.                            *)
LEMMA AnswerProgress ==
    ASSUME TypeOK, NEW l \in Listing, NEW k \in todo[l], NEW v \in VaultId,
           Answer(l, k, v), UNCHANGED <<tenantVars, user>>,
           AnsweredKeys(l) \cup todo[l] = Entitled(user[l])
    PROVE  Progress(l)'
<1>1. /\ answer'[l] = answer[l] \cup {<<k, v>>} /\ todo'[l] = todo[l] \ {k}
      /\ step'[l] = (IF todo[l] \subseteq {k} THEN "done" ELSE "find")
  BY DEF Answer, GoTo, TypeOK
<1>2. AnsweredKeys(l)' = AnsweredKeys(l) \cup {k}
  <2>1. AnsweredKeys(l)' = {a[1] : a \in answer[l] \cup {<<k, v>>}}
    BY <1>1 DEF AnsweredKeys
  <2>2. \A a \in {<<k, v>>} : a[1] = k
    OBVIOUS
  <2>. QED
    BY <2>1, <2>2 DEF AnsweredKeys
<1>3. Entitled(user[l])' = Entitled(user[l])
  BY DEF Entitled, tenantVars
<1>. QED
  BY <1>1, <1>2, <1>3 DEF Progress

(* Each query of a listing, when nothing has changed under it.             *)
LEMMA BeginProgress ==
    ASSUME TypeOK, NEW l \in Listing, NEW u \in User, Begin(l, u)
    PROVE  Progress(l)'
<1>1. /\ user'[l] = u /\ answer'[l] = {} /\ found'[l] = MembershipsOf(u)
      /\ step'[l] = (IF found'[l] = {} THEN "done" ELSE "organizations")
      /\ UNCHANGED <<orgs, teams, members, teamMembers>>
  BY DEF Begin, GoTo, TypeOK, MembershipsOf, tenantVars
<1>2. MembershipsOf(user[l])' = MembershipsOf(u) /\ Entitled(user[l])' = Entitled(u)
  BY <1>1 DEF MembershipsOf, Entitled
<1>3. MembershipsOf(u) = {} => Entitled(u) = {}
  BY VaultsAssumption DEF MembershipsOf, Entitled, TypeOK
<1>4. AnsweredKeys(l)' = {}
  BY <1>1 DEF AnsweredKeys
<1>. QED
  BY <1>1, <1>2, <1>3, <1>4 DEF Progress

LEMMA ReadOrganizationsProgress ==
    ASSUME TypeOK, NEW l \in Listing, Progress(l), ReadOrganizations(l)
    PROVE  Progress(l)'
<1>1. /\ found'[l] = found[l] \cap orgs /\ step'[l] = "teams" /\ answer'[l] = answer[l]
      /\ UNCHANGED <<orgs, teams, members, teamMembers, user>>
  BY DEF ReadOrganizations, GoTo, TypeOK, tenantVars
<1>2. MembershipsOf(user[l])' = MembershipsOf(user[l])
  BY <1>1 DEF MembershipsOf
<1>3. answer[l] = {} /\ found[l] = MembershipsOf(user[l])
  BY DEF Progress, ReadOrganizations
<1>. QED
  BY <1>1, <1>2, <1>3 DEF Progress

LEMMA ReadTeamsProgress ==
    ASSUME TypeOK, TenantInv, NEW l \in Listing, Progress(l), ReadTeams(l)
    PROVE  Progress(l)'
<1> DEFINE mine == {t \in teams : <<user[l], t>> \in teamMembers}
           keys == {PersonalKey(o, user[l]) : o \in found[l]}
                      \cup {ProjectKey(t) : t \in {t \in mine : OrgOf[t] \in found[l]}}
<1>1. /\ todo'[l] = keys /\ step'[l] = (IF keys = {} THEN "done" ELSE "find")
      /\ answer'[l] = answer[l] /\ UNCHANGED <<orgs, teams, members, teamMembers, user>>
  BY DEF ReadTeams, GoTo, TypeOK, tenantVars
<1>2. Entitled(user[l])' = Entitled(user[l])
  BY <1>1 DEF Entitled
<1>3. answer[l] = {} /\ found[l] = MembershipsOf(user[l]) \cap orgs
  BY DEF Progress, ReadTeams
<1>4. keys = Entitled(user[l])
  <2>1. found[l] = {o \in orgs : <<user[l], o>> \in members}
    BY <1>3 DEF MembershipsOf, TypeOK
  <2>2. {t \in mine : OrgOf[t] \in found[l]}
            = {t \in teams : <<user[l], t>> \in teamMembers /\ <<user[l], OrgOf[t]>> \in members}
    BY <2>1 DEF TenantInv
  <2>. QED
    BY <2>1, <2>2 DEF Entitled
<1>5. AnsweredKeys(l)' = {}
  BY <1>1, <1>3 DEF AnsweredKeys
<1> HIDE DEF keys
<1>. QED
  BY <1>1, <1>2, <1>4, <1>5 DEF Progress

LEMMA FindProgress ==
    ASSUME TypeOK, NEW l \in Listing, Progress(l), Find(l)
    PROVE  Progress(l)'
<1>1. /\ step[l] = "find" /\ UNCHANGED <<orgs, teams, members, teamMembers, user, vaults>>
      /\ AnsweredKeys(l) \cup todo[l] = Entitled(user[l])
  BY DEF Find, Progress, tenantVars
<1>2. PICK k \in todo[l] :
          \/ \E r \in RowsFor(k) : Answer(l, k, r.id)
          \/ key' = [key EXCEPT ![l] = k] /\ GoTo(l, "insert") /\ UNCHANGED <<todo, answer>>
  BY DEF Find
<1>3. CASE \E r \in RowsFor(k) : Answer(l, k, r.id)
  BY <1>1, <1>3, AnswerProgress DEF RowsFor, TypeOK, Row, tenantVars
<1>4. CASE key' = [key EXCEPT ![l] = k] /\ GoTo(l, "insert") /\ UNCHANGED <<todo, answer>>
  <2>1. key'[l] = k /\ step'[l] = "insert" /\ todo'[l] = todo[l] /\ answer'[l] = answer[l]
    BY <1>4 DEF GoTo, TypeOK
  <2>2. Entitled(user[l])' = Entitled(user[l]) /\ AnsweredKeys(l)' = AnsweredKeys(l)
    BY <1>1, <2>1 DEF Entitled, AnsweredKeys
  <2>. QED
    BY <1>1, <2>1, <2>2 DEF Progress
<1>. QED
  BY <1>2, <1>3, <1>4

LEMMA InsertProgress ==
    ASSUME TypeOK, TenantInv, NEW l \in Listing, Progress(l), Insert(l)
    PROVE  Progress(l)'
<1>1. /\ step[l] = "insert" /\ UNCHANGED <<orgs, teams, members, teamMembers, user>>
      /\ AnsweredKeys(l) \cup todo[l] = Entitled(user[l]) /\ key[l] \in todo[l]
  BY DEF Insert, Progress, tenantVars
<1>2. Lives(key[l])
  BY <1>1, EntitledLives DEF TypeOK
<1>3. CASE RowsFor(key[l]) # {} /\ GoTo(l, "reread") /\ UNCHANGED <<vaults, todo, key, answer>>
  <2>1. step'[l] = "reread" /\ RowsFor(key[l])' = RowsFor(key[l])
    BY <1>3 DEF GoTo, TypeOK, RowsFor
  <2>2. Entitled(user[l])' = Entitled(user[l]) /\ AnsweredKeys(l)' = AnsweredKeys(l)
    BY <1>1, <1>3 DEF Entitled, AnsweredKeys
  <2>. QED
    BY <1>1, <1>3, <2>1, <2>2 DEF Progress
<1>4. ASSUME NEW v \in FreshId, Answer(l, key[l], v) PROVE Progress(l)'
  BY <1>1, <1>4, AnswerProgress, FreshIdIsUnused DEF tenantVars
<1>. QED
  BY <1>2, <1>3, <1>4 DEF Insert

LEMMA RereadProgress ==
    ASSUME TypeOK, NEW l \in Listing, Progress(l), Reread(l)
    PROVE  Progress(l)'
<1>1. /\ step[l] = "reread" /\ UNCHANGED <<orgs, teams, members, teamMembers, user>>
      /\ AnsweredKeys(l) \cup todo[l] = Entitled(user[l]) /\ key[l] \in todo[l]
      /\ RowsFor(key[l]) # {}
  BY DEF Reread, Progress, tenantVars
<1>2. PICK r \in RowsFor(key[l]) : Answer(l, key[l], r.id)
  BY <1>1 DEF Reread
<1>. QED
  BY <1>1, <1>2, AnswerProgress DEF RowsFor, TypeOK, Row, tenantVars

LEMMA StepKeepsListings ==
    ASSUME TypeOK, TenantInv, ListingInv, [Next]_vars
    PROVE  TenantInv' /\ ListingInv'
<1>1. TenantInv'
  <2>1. CASE UNCHANGED <<orgs, teams>>
    BY <2>1 DEF TenantInv
  <2>2. CASE \E t \in Team : DeleteTeam(t)
    BY <2>2 DEF TenantInv, DeleteTeam
  <2>3. CASE \E o \in Org : DeleteOrg(o)
    BY <2>3 DEF TenantInv, DeleteOrg
  <2>4. ASSUME NEW l \in Listing, Serve(l) \/ \E u \in User : Begin(l, u)
        PROVE  UNCHANGED <<orgs, teams>>
    BY <2>4 DEF Serve, Begin, ReadOrganizations, ReadTeams, Find, Insert, Reread, tenantVars
  <2>5. ASSUME NEW u \in User, (\E o \in Org : ChangeMember(u, o)) \/ (\E t \in Team : ChangeTeamMember(u, t))
        PROVE  UNCHANGED <<orgs, teams>>
    BY <2>5 DEF ChangeMember, ChangeTeamMember
  <2>6. UNCHANGED vars => UNCHANGED <<orgs, teams>>
    BY DEF vars, tenantVars
  <2>. QED
    BY <2>1, <2>2, <2>3, <2>4, <2>5, <2>6 DEF Next
<1>2. CASE UNCHANGED vars
  <2>1. ASSUME NEW m \in Listing, ~changed'[m] PROVE Progress(m)'
    <3>1. Progress(m)
      BY <1>2, <2>1 DEF ListingInv, vars
    <3>2. /\ UNCHANGED <<tenantVars, vaults>>
          /\ <<step[m], user[m], found[m], todo[m], key[m], answer[m]>>'
                = <<step[m], user[m], found[m], todo[m], key[m], answer[m]>>
      BY <1>2 DEF vars, listingVars
    <3>. QED
      BY <3>1, <3>2, OthersProgress
  <2>. QED
    BY <1>1, <2>1 DEF ListingInv
<1>3. CASE Change
  BY <1>1, <1>3 DEF Change, ListingInv
<1>4. ASSUME NEW l \in Listing, Serve(l) \/ \E u \in User : Begin(l, u)
      PROVE  ListingInv'
  <2>1. /\ UNCHANGED tenantVars /\ vaults \subseteq vaults'
        /\ \A m \in Listing \ {l} :
              /\ <<step[m], user[m], found[m], todo[m], key[m], answer[m]>>'
                    = <<step[m], user[m], found[m], todo[m], key[m], answer[m]>>
              /\ changed'[m] = changed[m]
    BY <1>4 DEF Serve, Begin, ReadOrganizations, ReadTeams, Find, Insert, Reread, Answer, Fail,
                GoTo, TypeOK
  <2>2. ASSUME NEW m \in Listing \ {l}, ~changed'[m] PROVE Progress(m)'
    BY <2>1, <2>2, OthersProgress DEF ListingInv
  <2>3. ASSUME ~changed'[l] PROVE Progress(l)'
    <3>1. CASE \E u \in User : Begin(l, u)
      BY <3>1, BeginProgress
    <3>2. CASE Serve(l)
      <4>1. ~changed[l]
        BY <2>3, <3>2 DEF Serve, ReadOrganizations, ReadTeams, Find, Insert, Reread
      <4>2. Progress(l)
        BY <4>1 DEF ListingInv
      <4>. QED
        BY <3>2, <4>2, ReadOrganizationsProgress, ReadTeamsProgress, FindProgress,
           InsertProgress, RereadProgress DEF Serve
    <3>. QED
      BY <1>4, <3>1, <3>2
  <2>. QED
    BY <2>2, <2>3 DEF ListingInv
<1>. QED
  BY <1>1, <1>2, <1>3, <1>4 DEF Next, ChangeMember, ChangeTeamMember, DeleteTeam, DeleteOrg

THEOREM ListingsProgress == Spec => [](TenantInv /\ ListingInv)
<1>1. Init => TenantInv /\ ListingInv
  BY VaultsAssumption DEF Init, TenantInv, ListingInv, Progress
<1>2. TypeOK /\ TenantInv /\ ListingInv /\ [Next]_vars => (TenantInv /\ ListingInv)'
  BY StepKeepsListings
<1>. QED
  BY TypeCorrect, <1>1, <1>2, PTL DEF Spec

(* A listing nothing changed under lists exactly what its user may reach:  *)
(* losing a race for a first vault costs it nothing (service.ts 80-128).   *)
THEOREM ListingsAreComplete == Spec => []ListsEverything
<1>1. ListingInv => ListsEverything
  BY DEF ListingInv, Progress, ListsEverything, AnsweredKeys
<1>. QED
  BY ListingsProgress, <1>1, PTL

(* ... and does not fail: the errors of service.ts 53 and 76 and a broken  *)
(* foreign key take a tenant or a team that goes meanwhile.                *)
THEOREM ListingsFailOnlyOnChange == Spec => []FailsOnlyOnChange
<1>1. ListingInv => FailsOnlyOnChange
  BY DEF ListingInv, Progress, FailsOnlyOnChange
<1>. QED
  BY ListingsProgress, <1>1, PTL
=============================================================================
