-------------------------------- MODULE Vaults --------------------------------
(***************************************************************************)
(* GET /v1/vaults: listVaultsForUser of apps/api/src/vaults/service.ts on  *)
(* the tables of packages/db/src.                                          *)
(*                                                                         *)
(* A listing makes one database query after another and holds what it has  *)
(* read meanwhile; every query is one step, and other listings, and the    *)
(* changes of tenants, teams and memberships that better-auth makes, run   *)
(* between them.  No listing holds a transaction.                          *)
(*                                                                         *)
(* A key is what a vault is kept for: a tenant and one of its members, or  *)
(* a tenant and one of its teams.  Names, slugs and the order of the       *)
(* answer are left out; users are not deleted.                             *)
(***************************************************************************)
EXTENDS FiniteSets, Naturals

CONSTANTS
    User, Org, Team,
    OrgOf,          \* a team's organizationId, which never changes
    VaultId,        \* what randomUUID() may return
    Listing,        \* the requests being served
    MaxChanges      \* bound on the changes of tenants, teams and memberships

ASSUME VaultsAssumption ==
    /\ OrgOf \in [Team -> Org]
    /\ MaxChanges \in Nat

Personal == [kind : {"personal"}, org : Org, owner : User]
Project == {k \in [kind : {"project"}, org : Org, team : Team] : k.org = OrgOf[k.team]}
Key == Personal \cup Project

PersonalKey(o, u) == [kind |-> "personal", org |-> o, owner |-> u]
ProjectKey(t) == [kind |-> "project", org |-> OrgOf[t], team |-> t]
NoKey == [kind |-> "none"]

VARIABLES
    orgs,           \* table organization
    teams,          \* table team
    members,        \* table member
    teamMembers,    \* table team_member
    vaults,         \* table vault: rows [id, key]
    step,           \* the query a listing makes next, or how it ended
    user,           \* whose listing it is
    found,          \* the ids of the tenants it has read
    todo,           \* the keys it has still to look up or create
    key,            \* the key it is creating a vault for
    answer,         \* the <<key, id>> pairs it has so far
    changed,        \* something changed since the listing began
    changes         \* how many changes there were

tenantVars == <<orgs, teams, members, teamMembers>>
listingVars == <<step, user, found, todo, key, answer>>
vars == <<tenantVars, vaults, listingVars, changed, changes>>

Steps == {"idle", "organizations", "teams", "find", "insert", "reread", "done", "failed"}
Ended == {"idle", "done", "failed"}
Row == [id : VaultId, key : Key]

TypeOK ==
    /\ orgs \in SUBSET Org /\ teams \in SUBSET Team
    /\ members \in SUBSET (User \X Org)
    /\ teamMembers \in SUBSET (User \X Team)
    /\ vaults \in SUBSET Row
    /\ step \in [Listing -> Steps]
    /\ user \in [Listing -> User]
    /\ found \in [Listing -> SUBSET Org]
    /\ todo \in [Listing -> SUBSET Key]
    /\ key \in [Listing -> Key \cup {NoKey}]
    /\ answer \in [Listing -> SUBSET (Key \X VaultId)]
    /\ changed \in [Listing -> BOOLEAN]
    /\ changes \in Nat

Init ==
    /\ orgs = Org /\ teams = Team
    /\ members = User \X Org
    /\ teamMembers = User \X Team
    /\ vaults = {}
    /\ step = [l \in Listing |-> "idle"]
    /\ user \in [Listing -> User]
    /\ found = [l \in Listing |-> {}]
    /\ todo = [l \in Listing |-> {}]
    /\ key = [l \in Listing |-> NoKey]
    /\ answer = [l \in Listing |-> {}]
    /\ changed = [l \in Listing |-> FALSE]
    /\ changes = 0

RowsFor(k) == {r \in vaults : r.key = k}
GoTo(l, s) == step' = [step EXCEPT ![l] = s]

(* The tenant and the team of the key are still there: the foreign keys.   *)
Lives(k) == k.org \in orgs /\ (k.kind = "project" => k.team \in teams)

-----------------------------------------------------------------------------
(* listVaultsForUser: three reads, and then a loop.                             *)

(* The memberships.  Without any, the answer is the empty list. *)
Begin(l, u) ==
    /\ step[l] \in Ended
    /\ user' = [user EXCEPT ![l] = u]
    /\ found' = [found EXCEPT ![l] = {o \in Org : <<u, o>> \in members}]
    /\ answer' = [answer EXCEPT ![l] = {}]
    /\ changed' = [changed EXCEPT ![l] = FALSE]
    /\ GoTo(l, IF found'[l] = {} THEN "done" ELSE "organizations")
    /\ UNCHANGED <<tenantVars, vaults, todo, key, changes>>

ReadOrganizations(l) ==
    /\ step[l] = "organizations"
    /\ found' = [found EXCEPT ![l] = @ \cap orgs]
    /\ GoTo(l, "teams")
    /\ UNCHANGED <<tenantVars, vaults, user, todo, key, answer, changed, changes>>

(* Mutant: teams of tenants the user has left are listed too. *)
ReadAllTeams(l) ==
    LET mine == {t \in teams : <<user[l], t>> \in teamMembers}
        keys == {PersonalKey(o, user[l]) : o \in found[l]} \cup {ProjectKey(t) : t \in mine}
    IN  /\ step[l] = "teams"
        /\ todo' = [todo EXCEPT ![l] = keys]
        /\ GoTo(l, IF keys = {} THEN "done" ELSE "find")
        /\ UNCHANGED <<tenantVars, vaults, user, found, key, answer, changed, changes>>

(* The teams, and with them all that is to be listed; a tenant that the    *)
(* second read did not find is passed over.                                *)
ReadTeams(l) ==
    LET mine == {t \in teams : <<user[l], t>> \in teamMembers}
        keys == {PersonalKey(o, user[l]) : o \in found[l]}
                    \cup {ProjectKey(t) : t \in {t \in mine : OrgOf[t] \in found[l]}}
    IN  /\ step[l] = "teams"
        /\ todo' = [todo EXCEPT ![l] = keys]
        /\ GoTo(l, IF keys = {} THEN "done" ELSE "find")
        /\ UNCHANGED <<tenantVars, vaults, user, found, key, answer, changed, changes>>

(* One vault is there: on to the next key. *)
Answer(l, k, v) ==
    /\ answer' = [answer EXCEPT ![l] = @ \cup {<<k, v>>}]
    /\ todo' = [todo EXCEPT ![l] = @ \ {k}]
    /\ key' = [key EXCEPT ![l] = NoKey]
    /\ GoTo(l, IF todo[l] \subseteq {k} THEN "done" ELSE "find")

Fail(l) ==
    /\ GoTo(l, "failed")
    /\ key' = [key EXCEPT ![l] = NoKey]
    /\ todo' = [todo EXCEPT ![l] = {}]
    /\ UNCHANGED answer

(* ensurePersonalVault and ensureProjectVault, which are one algorithm.    *)
(* Personal vaults come first.                                             *)
Find(l) ==
    \E k \in todo[l] :
        /\ step[l] = "find"
        /\ k.kind = "project" => todo[l] \cap Personal = {}
        /\ \/ \E r \in RowsFor(k) : Answer(l, k, r.id)
           \/ /\ RowsFor(k) = {}
              /\ key' = [key EXCEPT ![l] = k]
              /\ GoTo(l, "insert")
              /\ UNCHANGED <<todo, answer>>
        /\ UNCHANGED <<tenantVars, vaults, user, found, changed, changes>>

(* randomUUID returns an id never seen before; it makes no difference      *)
(* which, so it is always the same one of them.                            *)
Unused ==
    {v \in VaultId : /\ \A r \in vaults : r.id # v
                     /\ \A l \in Listing : \A a \in answer[l] : a[2] # v}

FreshId == {CHOOSE v \in Unused : TRUE} \cap Unused

(* Mutant: no unique index. *)
InsertAnyway(l) ==
    /\ step[l] = "insert"
    /\ \/ ~Lives(key[l]) /\ Fail(l) /\ UNCHANGED vaults
       \/ /\ Lives(key[l])
          /\ \E v \in FreshId :
                /\ vaults' = vaults \cup {[id |-> v, key |-> key[l]]}
                /\ Answer(l, key[l], v)
    /\ UNCHANGED <<tenantVars, user, found, changed, changes>>

(* Mutant: onConflictDoUpdate, with the new id. *)
InsertOver(l) ==
    /\ step[l] = "insert"
    /\ \/ ~Lives(key[l]) /\ Fail(l) /\ UNCHANGED vaults
       \/ /\ Lives(key[l])
          /\ \E v \in FreshId :
                /\ vaults' = (vaults \ RowsFor(key[l])) \cup {[id |-> v, key |-> key[l]]}
                /\ Answer(l, key[l], v)
    /\ UNCHANGED <<tenantVars, user, found, changed, changes>>

(* Mutant: nothing returned counts as a failure. *)
InsertOnce(l) ==
    /\ step[l] = "insert"
    /\ \/ /\ ~Lives(key[l]) \/ RowsFor(key[l]) # {}
          /\ Fail(l) /\ UNCHANGED vaults
       \/ /\ Lives(key[l]) /\ RowsFor(key[l]) = {}
          /\ \E v \in FreshId :
                /\ vaults' = vaults \cup {[id |-> v, key |-> key[l]]}
                /\ Answer(l, key[l], v)
    /\ UNCHANGED <<tenantVars, user, found, changed, changes>>

(* onConflictDoNothing: a row that breaks a unique index is not inserted   *)
(* and nothing is returned.  A broken foreign key is an error.             *)
Insert(l) ==
    /\ step[l] = "insert"
    /\ \/ ~Lives(key[l]) /\ Fail(l) /\ UNCHANGED vaults
       \/ /\ RowsFor(key[l]) # {}
          /\ GoTo(l, "reread")
          /\ UNCHANGED <<vaults, todo, key, answer>>
       \/ /\ Lives(key[l]) /\ RowsFor(key[l]) = {}
          /\ \E v \in FreshId :
                /\ vaults' = vaults \cup {[id |-> v, key |-> key[l]]}
                /\ Answer(l, key[l], v)
    /\ UNCHANGED <<tenantVars, user, found, changed, changes>>

Reread(l) ==
    /\ step[l] = "reread"
    /\ \/ \E r \in RowsFor(key[l]) : Answer(l, key[l], r.id)
       \/ RowsFor(key[l]) = {} /\ Fail(l)
    /\ UNCHANGED <<tenantVars, vaults, user, found, changed, changes>>

Serve(l) == ReadOrganizations(l) \/ ReadTeams(l) \/ Find(l) \/ Insert(l) \/ Reread(l)

-----------------------------------------------------------------------------
(* Tenants, teams and memberships are better-auth's, and external.         *)

Change ==
    /\ changes < MaxChanges /\ changes' = changes + 1
    /\ changed' = [l \in Listing |-> TRUE]
    /\ UNCHANGED listingVars

ChangeMember(u, o) ==
    /\ Change
    /\ o \in orgs
    /\ members' = IF <<u, o>> \in members THEN members \ {<<u, o>>} ELSE members \cup {<<u, o>>}
    /\ UNCHANGED <<orgs, teams, teamMembers, vaults>>

ChangeTeamMember(u, t) ==
    /\ Change
    /\ t \in teams
    /\ teamMembers' = IF <<u, t>> \in teamMembers
                      THEN teamMembers \ {<<u, t>>} ELSE teamMembers \cup {<<u, t>>}
    /\ UNCHANGED <<orgs, teams, members, vaults>>

(* Deletions cascade. *)
DeleteTeam(t) ==
    /\ Change
    /\ t \in teams
    /\ teams' = teams \ {t}
    /\ teamMembers' = {m \in teamMembers : m[2] # t}
    /\ vaults' = {r \in vaults : r.key # ProjectKey(t)}
    /\ UNCHANGED <<orgs, members>>

DeleteOrg(o) ==
    /\ Change
    /\ o \in orgs
    /\ orgs' = orgs \ {o}
    /\ teams' = {t \in teams : OrgOf[t] # o}
    /\ members' = {m \in members : m[2] # o}
    /\ teamMembers' = {m \in teamMembers : OrgOf[m[2]] # o}
    /\ vaults' = {r \in vaults : r.key.org # o}

Next ==
    \/ \E l \in Listing : Serve(l) \/ \E u \in User : Begin(l, u)
    \/ \E u \in User : \/ \E o \in Org : ChangeMember(u, o)
                       \/ \E t \in Team : ChangeTeamMember(u, t)
    \/ \E t \in Team : DeleteTeam(t)
    \/ \E o \in Org : DeleteOrg(o)

Spec == Init /\ [][Next]_vars

-----------------------------------------------------------------------------
(* Properties                                                              *)

(* Whoever asks, and however their listings interleave with one another    *)
(* and with deletions, one key has been answered with one vault only.      *)
CallersAgree ==
    \A l, m \in Listing : \A a \in answer[l], b \in answer[m] : a[1] = b[1] => a[2] = b[2]

(* A vault that was answered is there until its tenant or team is deleted. *)
AnswersLast ==
    \A l \in Listing : \A a \in answer[l] :
        Lives(a[1]) => [id |-> a[2], key |-> a[1]] \in vaults

(* What a user may reach: a vault in each of their tenants, and those of   *)
(* their teams there (service.ts 80-86).                                   *)
Entitled(u) ==
    {PersonalKey(o, u) : o \in {o \in orgs : <<u, o>> \in members}}
        \cup {ProjectKey(t) : t \in {t \in teams : <<u, t>> \in teamMembers
                                                   /\ <<u, OrgOf[t]>> \in members}}

(* A listing during which nothing changed lists exactly what the user may  *)
(* reach, the vaults that did not exist yet included.                      *)
ListsEverything ==
    \A l \in Listing :
        step[l] = "done" /\ ~changed[l] => {a[1] : a \in answer[l]} = Entitled(user[l])

(* Losing a race for the first vault is no failure: a listing fails only   *)
(* if a tenant or a team may have gone under it.                           *)
FailsOnlyOnChange == \A l \in Listing : step[l] = "failed" => changed[l]

(* Taken together, the queries of all listings get or create in one step.  *)
Registry ==
    INSTANCE VaultRegistry WITH
        Caller <- Listing,
        vaultOf <- [k \in {r.key : r \in vaults} |-> (CHOOSE r \in vaults : r.key = k).id],
        answers <- answer

GetOrCreate == Registry!Spec
===============================================================================
