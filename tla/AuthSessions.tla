----------------------------- MODULE AuthSessions -----------------------------
(***************************************************************************)
(* The sessions of the extension: SnipPickAuthProvider and SessionStore in *)
(* apps/extension/src/auth, with refreshTokens of packages/api-client.     *)
(*                                                                         *)
(* All sessions are one value in VS Code's SecretStorage, which every      *)
(* window shares.  A change reads the whole value, waits, and writes the   *)
(* whole value.  VS Code asks each window for its sessions often; asking   *)
(* refreshes the ones that are expiring, and calls overlap as they please. *)
(*                                                                         *)
(* The tokens of a session are numbered as the server issues them; one     *)
(* number is an access token and the refresh token that goes with it.  The *)
(* server is external: it may rotate refresh tokens, and then answers one  *)
(* already used with the same response again for a while (rotated_at and   *)
(* rotation_replay_expires_at, packages/db/src/auth-schema.ts 294-296).    *)
(* Every token set has a refresh token, since SCOPES has offline_access.   *)
(***************************************************************************)
EXTENDS Naturals, FiniteSets

CONSTANTS
    Session,        \* the sessions' ids: a server and an account
    Rotating,       \* those whose server rotates refresh tokens
    Call,           \* the calls of the provider, of all windows
    NoTokens,       \* no session stored
    MaxToken,       \* bound on the tokens issued for a session
    MaxFailures     \* bound on lost requests, revocations and crashes

ASSUME AuthAssumption ==
    /\ Rotating \subseteq Session
    /\ MaxToken \in Nat /\ MaxFailures \in Nat
    /\ NoTokens \notin Nat

Token == 1..MaxToken
Stored == [Session -> Token \cup {NoTokens}]
Nothing == [s \in Session |-> NoTokens]

VARIABLES
    stored,         \* the value in SecretStorage
    issued,         \* how many tokens the server has issued for a session
    accepted,       \* the tokens of it the server would refresh
    replays,        \* <<used, new>> pairs it would answer once more
    expired,        \* tokens up to this one are expiring
    call,           \* the calls of the provider
    failures,       \* lost requests, revocations and crashes so far
    status,         \* what the user last did: signed in, or out; see SignedOut
    risked          \* the sessions a lost answer or an overlap may have cost

serverVars == <<issued, accepted, replays, expired>>
historyVars == <<status, risked>>
vars == <<stored, serverVars, call, failures, historyVars>>

Steps == {"request", "upsertRead", "upsertWrite", "removeRead", "removeWrite"}
NoSession == "no session"

(* A call of getSessions or sessionFor has read `all` and goes through it; *)
(* createSession and removeSession have one session to deal with.          *)
Busy == [op : {"getSessions", "createSession", "removeSession"},
         step : Steps,
         all : SUBSET (Session \X Token),
         session : Session,                     \* the one it is busy with
         tokens : Token \cup {NoTokens},        \* and its tokens
         snapshot : Stored]                     \* what upsert or remove has read
Idle == [op |-> "none"]

(* getSessions between two of its sessions. *)
Between(all) == [op |-> "getSessions", step |-> "next", all |-> all,
                 session |-> NoSession, tokens |-> NoTokens, snapshot |-> Nothing]

Running == Busy \cup {Between(all) : all \in SUBSET (Session \X Token)} \cup {Idle}

TypeOK ==
    /\ stored \in Stored
    /\ issued \in [Session -> 0..MaxToken]
    /\ accepted \in [Session -> SUBSET Token]
    /\ replays \in [Session -> SUBSET (Token \X Token)]
    /\ expired \in [Session -> 0..MaxToken]
    /\ call \in [Call -> Running]
    /\ failures \in Nat
    /\ status \in [Session -> {"in", "out", "raced"}]
    /\ risked \in SUBSET Session

Init ==
    /\ stored = Nothing
    /\ issued = [s \in Session |-> 0]
    /\ accepted = [s \in Session |-> {}]
    /\ replays = [s \in Session |-> {}]
    /\ expired = [s \in Session |-> 0]
    /\ call = [c \in Call |-> Idle]
    /\ failures = 0
    /\ status = [s \in Session |-> "out"]
    /\ risked = {}

-----------------------------------------------------------------------------
At(c, step) == call[c] # Idle /\ call[c].step = step
GoTo(c, step) == call' = [call EXCEPT ![c].step = step]
Become(c, record) == call' = [call EXCEPT ![c] = record]

(* The call is done with one session: on to the rest, or to its end. *)
GoOn(c, rest) == Become(c, IF rest = {} THEN Idle ELSE Between(rest))

Risk(sessions) == risked' = risked \cup sessions

Fail == failures < MaxFailures /\ failures' = failures + 1

(* getSessions takes all sessions, or those with the wanted scopes;        *)
(* sessionFor takes the session of a server.  Both have read all of them.  *)
GetSessions(c) ==
    \E wanted \in {Session} \cup {{s} : s \in Session} :
        LET all == {p \in wanted \X Token : stored[p[1]] = p[2]}
        IN  /\ call[c] = Idle
            /\ all # {}
            /\ Become(c, Between(all))
            /\ UNCHANGED <<stored, serverVars, failures, historyVars>>

(* ensureFresh: a session that is not expiring is returned as it is. *)
EnsureFresh(c) ==
    /\ At(c, "next")
    /\ \E p \in call[c].all :
          IF p[2] > expired[p[1]]
          THEN GoOn(c, call[c].all \ {p})
          ELSE Become(c, [call[c] EXCEPT !.step = "request", !.all = @ \ {p},
                                         !.session = p[1], !.tokens = p[2]])
    /\ UNCHANGED <<stored, serverVars, failures, historyVars>>

(* The server issues the next token of a session. *)
Issue(s) ==
    /\ issued[s] < MaxToken
    /\ issued' = [issued EXCEPT ![s] = @ + 1]
    /\ UNCHANGED expired

(* The server grants the request for token n, and its answer arrives or not. *)
Grant(c, s, n) ==
    /\ n \in accepted[s]
    /\ Issue(s)
    /\ IF s \in Rotating
       THEN /\ accepted' = [accepted EXCEPT ![s] = (@ \ {n}) \cup {issued[s] + 1}]
            /\ replays' = [replays EXCEPT ![s] = @ \cup {<<n, issued[s] + 1>>}]
       ELSE /\ accepted' = [accepted EXCEPT ![s] = @ \cup {issued[s] + 1}]
            /\ UNCHANGED replays
    /\ \/ /\ Become(c, [call[c] EXCEPT !.step = "upsertRead", !.tokens = issued[s] + 1])
          /\ UNCHANGED <<failures, risked>>
       \/ Fail /\ GoOn(c, call[c].all) /\ Risk({s} \cap Rotating)

Replay(c, s, n) ==
    \E pair \in replays[s] :
        /\ pair[1] = n
        /\ Become(c, [call[c] EXCEPT !.step = "upsertRead", !.tokens = pair[2]])
        /\ UNCHANGED <<serverVars, failures, risked>>

Refused(s, n) == n \notin accepted[s] /\ \A pair \in replays[s] : pair[1] # n

(* Mutant: any error drops the session. *)
RefreshOrDrop(c) ==
    /\ At(c, "request")
    /\ LET s == call[c].session
           n == call[c].tokens
       IN  \/ Grant(c, s, n)
           \/ Replay(c, s, n)
           \/ Refused(s, n) /\ GoTo(c, "removeRead") /\ UNCHANGED <<serverVars, failures, risked>>
           \/ Fail /\ GoTo(c, "removeRead") /\ UNCHANGED <<serverVars, risked>>
    /\ UNCHANGED <<stored, status>>

(* Only a refusal drops the session; any other error leaves it as it is. *)
Refresh(c) ==
    /\ At(c, "request")
    /\ LET s == call[c].session
           n == call[c].tokens
       IN  \/ Grant(c, s, n)
           \/ Replay(c, s, n)
           \/ Refused(s, n) /\ GoTo(c, "removeRead") /\ UNCHANGED <<serverVars, failures, risked>>
           \/ Fail /\ GoOn(c, call[c].all) /\ UNCHANGED <<serverVars, risked>>
    /\ UNCHANGED <<stored, status>>

(* createSession, once the server has exchanged the code for tokens. *)
SignIn(c, s) ==
    /\ call[c] = Idle
    /\ Issue(s)
    /\ accepted' = [accepted EXCEPT ![s] = @ \cup {issued[s] + 1}]
    /\ Become(c, [op |-> "createSession", step |-> "upsertRead", all |-> {}, session |-> s,
                  tokens |-> issued[s] + 1, snapshot |-> Nothing])
    /\ UNCHANGED <<stored, replays, failures, historyVars>>

(* removeSession *)
SignOut(c, s) ==
    /\ call[c] = Idle
    /\ Become(c, [op |-> "removeSession", step |-> "removeRead", all |-> {}, session |-> s,
                  tokens |-> NoTokens, snapshot |-> Nothing])
    /\ UNCHANGED <<stored, serverVars, failures, historyVars>>

-----------------------------------------------------------------------------
(* SessionStore.                                                           *)

UpsertRead(c) ==
    /\ At(c, "upsertRead")
    /\ Become(c, [call[c] EXCEPT !.step = "upsertWrite", !.snapshot = stored])
    /\ UNCHANGED <<stored, serverVars, failures, historyVars>>

(* What the write of a call overwrites: sessions that have changed since   *)
(* the call read the store.                                                *)
Overwritten(c) == {t \in Session \ {call[c].session} : call[c].snapshot[t] # stored[t]}

(* Its own session is safe with tokens the server still accepts. *)
UpsertRisks(c) ==
    LET s == call[c].session
    IN  IF call[c].tokens \in accepted[s]
        THEN (risked \cup Overwritten(c)) \ {s}
        ELSE risked \cup Overwritten(c) \cup {s}

UpsertStatus(c) ==
    IF call[c].op = "createSession" THEN [status EXCEPT ![call[c].session] = "in"] ELSE status

(* Mutant: the session is written alone. *)
UpsertWriteAlone(c) ==
    /\ At(c, "upsertWrite")
    /\ stored' = [Nothing EXCEPT ![call[c].session] = call[c].tokens]
    /\ status' = UpsertStatus(c) /\ risked' = UpsertRisks(c)
    /\ GoOn(c, call[c].all)
    /\ UNCHANGED <<serverVars, failures>>

UpsertWrite(c) ==
    /\ At(c, "upsertWrite")
    /\ stored' = [call[c].snapshot EXCEPT ![call[c].session] = call[c].tokens]
    /\ status' = UpsertStatus(c) /\ risked' = UpsertRisks(c)
    /\ GoOn(c, call[c].all)
    /\ UNCHANGED <<serverVars, failures>>

(* A session that is not there is not removed. *)
RemoveRead(c) ==
    /\ At(c, "removeRead")
    /\ IF stored[call[c].session] = NoTokens
       THEN GoOn(c, call[c].all)
       ELSE Become(c, [call[c] EXCEPT !.step = "removeWrite", !.snapshot = stored])
    /\ UNCHANGED <<stored, serverVars, failures, historyVars>>

(* A refresh of session s, or a write of another session with what it has  *)
(* read of s, is under way and would store s.                              *)
Holds(d, s) ==
    /\ call[d] # Idle
    /\ \/ \E n \in Token : <<s, n>> \in call[d].all
       \/ /\ call[d].op = "getSessions" /\ call[d].session = s
          /\ call[d].step \in {"request", "upsertRead", "upsertWrite"}
       \/ /\ call[d].step \in {"upsertWrite", "removeWrite"} /\ call[d].session # s
          /\ call[d].snapshot[s] # NoTokens

(* The user has signed out of s, and only of "out" it is said that no      *)
(* refresh was under way.                                                  *)
SignedOut(c, s) == IF \A d \in Call \ {c} : ~Holds(d, s) THEN "out" ELSE "raced"

RemoveStatus(c) ==
    LET s == call[c].session
    IN  IF call[c].op = "removeSession" THEN [status EXCEPT ![s] = SignedOut(c, s)] ELSE status

(* A refresh that was refused removes whatever tokens are stored by now. *)
RemoveRisks(c) ==
    LET s == call[c].session
    IN  risked \cup Overwritten(c) \cup
            (IF call[c].op = "getSessions" /\ stored[s] # call[c].tokens THEN {s} ELSE {})

(* Mutant: the write is forgotten. *)
RemoveNothing(c) ==
    /\ At(c, "removeWrite")
    /\ status' = RemoveStatus(c) /\ risked' = RemoveRisks(c)
    /\ GoOn(c, call[c].all)
    /\ UNCHANGED <<stored, serverVars, failures>>

RemoveWrite(c) ==
    /\ At(c, "removeWrite")
    /\ stored' = [call[c].snapshot EXCEPT ![call[c].session] = NoTokens]
    /\ status' = RemoveStatus(c) /\ risked' = RemoveRisks(c)
    /\ GoOn(c, call[c].all)
    /\ UNCHANGED <<serverVars, failures>>

Proceed(c) ==
    EnsureFresh(c) \/ Refresh(c) \/ UpsertRead(c) \/ UpsertWrite(c) \/ RemoveRead(c) \/ RemoveWrite(c)

-----------------------------------------------------------------------------
(* The rest of the world.                                                  *)

(* Time passes and the tokens issued so far are expiring. *)
Expire(s) ==
    /\ expired[s] < issued[s]
    /\ expired' = [expired EXCEPT ![s] = issued[s]]
    /\ UNCHANGED <<stored, issued, accepted, replays, call, failures, historyVars>>

(* The time for replays is over, whatever calls are under way: no request  *)
(* of a refresh has a limit in time (oauth.ts).                            *)
EndReplays(s) ==
    /\ replays[s] # {}
    /\ replays' = [replays EXCEPT ![s] = {}]
    /\ UNCHANGED <<stored, issued, accepted, expired, call, failures, historyVars>>

(* The server takes the session back. *)
Revoke(s) ==
    /\ Fail
    /\ accepted[s] # {}
    /\ accepted' = [accepted EXCEPT ![s] = {}]
    /\ replays' = [replays EXCEPT ![s] = {}]
    /\ UNCHANGED <<stored, issued, expired, call, historyVars>>

(* The call has tokens of s that it has still to store. *)
Carries(c, s) ==
    /\ At(c, "upsertRead") \/ At(c, "upsertWrite")
    /\ call[c].session = s
    /\ call[c].tokens \in accepted[s]

(* The window of a call goes, between any two steps. *)
Crash(c) ==
    /\ Fail
    /\ call[c] # Idle
    /\ Become(c, Idle)
    /\ Risk({s \in Session : Carries(c, s)})
    /\ UNCHANGED <<stored, serverVars, status>>

Next ==
    \/ \E c \in Call :
          \/ GetSessions(c) \/ Proceed(c) \/ Crash(c)
          \/ \E s \in Session : SignIn(c, s) \/ SignOut(c, s)
    \/ \E s \in Session : Expire(s) \/ EndReplays(s) \/ Revoke(s)

Spec == Init /\ [][Next]_vars

-----------------------------------------------------------------------------
(* Properties of the code as it is                                         *)

(* Signing out lasts when no refresh of the session, nor a write that has  *)
(* read it, was under way as the store was written: refreshes, sign-ins    *)
(* and sign-outs of other sessions never bring it back, whenever they run. *)
SignedOutStaysOut == \A s \in Session : status[s] = "out" => stored[s] = NoTokens

(* A session the user is signed in to and the server still accepts stays   *)
(* stored with tokens that it accepts, or they are on their way to the     *)
(* store, through refreshes of several windows, rotation, replays, refused *)
(* and failing requests, as long as none of these has hit it: an answer    *)
(* lost after a rotation, a window gone with the tokens, a write over one  *)
(* that was newer, a refusal of tokens that are no longer the stored ones. *)
KeepsAcceptedSessions ==
    \A s \in Session \ risked : status[s] = "in" /\ accepted[s] # {} =>
        stored[s] \in accepted[s] \/ \E c \in Call : Carries(c, s)

-----------------------------------------------------------------------------
(* What is said of the code, and does not hold                             *)

Leaves(s) == stored[s] # NoTokens /\ stored'[s] = NoTokens
Removes(c, s) == At(c, "removeWrite") /\ call[c].session = s

(* "... several accounts ... can coexist" (authProvider.ts 38-40): no      *)
(* write of one session loses another.                                     *)
AccountsCoexist == [][\A s \in Session : Leaves(s) => \E c \in Call : Removes(c, s)]_vars
===============================================================================
