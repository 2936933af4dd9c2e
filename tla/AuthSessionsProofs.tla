-------------------------- MODULE AuthSessionsProofs --------------------------
(***************************************************************************)
(* Theorems about AuthSessions, for any sessions, calls, tokens and        *)
(* failures, with all calls overlapping.  Three invariants on top of the   *)
(* types: no token is around that was not issued, so that a token once     *)
(* refused stays refused; a session the user is out of is neither stored   *)
(* nor about to be; and a session the server accepts is stored, or on its  *)
(* way to the store, unless one of the named events has hit it.            *)
(***************************************************************************)
EXTENDS AuthSessions, TLAPS

(* A token of a session that a call may present, or store.                 *)
HeldBy(c, s, n) ==
    /\ call[c] # Idle
    /\ \/ <<s, n>> \in call[c].all
       \/ call[c].session = s /\ call[c].tokens = n
       \/ call[c].snapshot[s] = n

Around(s, n) ==
    \/ stored[s] = n
    \/ n \in accepted[s]
    \/ \E pair \in replays[s] : pair[2] = n
    \/ \E c \in Call : HeldBy(c, s, n)

TokensIssued == \A s \in Session, n \in Token : Around(s, n) => n <= issued[s]

(* A call that drops a session because it was refused. *)
Dropping(c) ==
    call[c] # Idle /\ call[c].op = "getSessions" /\ call[c].step \in {"removeRead", "removeWrite"}

RefusedStayRefused == \A c \in Call : Dropping(c) => call[c].tokens \notin accepted[call[c].session]

(* Signing in and out has its own steps. *)
Shapes ==
    \A c \in Call :
        /\ call[c].op = "createSession" => call[c].step \in {"upsertRead", "upsertWrite"}
        /\ call[c].op = "removeSession" => call[c].step \in {"removeRead", "removeWrite"} /\ call[c].all = {}

OutIsOut ==
    \A s \in Session : status[s] = "out" => stored[s] = NoTokens /\ \A c \in Call : ~Holds(c, s)

IInv == TypeOK /\ Shapes /\ TokensIssued /\ RefusedStayRefused /\ OutIsOut /\ KeepsAcceptedSessions

-----------------------------------------------------------------------------
(* Types.                                                                  *)

(* One call changes. *)
LEMMA OneCallChanges ==
    ASSUME TypeOK, NEW c \in Call, NEW r, Become(c, r)
    PROVE  /\ call'[c] = r /\ \A d \in Call \ {c} : call'[d] = call[d]
           /\ r \in Running => call' \in [Call -> Running]
BY DEF TypeOK, Become

(* A call at a step is busy with a session. *)
LEMMA BusyCall ==
    ASSUME TypeOK, NEW c \in Call, NEW step \in Steps, At(c, step)
    PROVE  /\ call[c] \in Busy /\ call[c] # Idle
           /\ call[c].session \in Session /\ call[c].tokens \in Token \cup {NoTokens}
           /\ call[c].snapshot \in Stored /\ call[c].all \in SUBSET (Session \X Token)
<1>1. call[c] \in Running /\ call[c] # Idle /\ call[c].step # "next"
  BY DEF TypeOK, At, Steps
<1>2. call[c] \in Busy
  BY <1>1 DEF Running, Between
<1>. QED
  BY <1>1, <1>2 DEF Busy

(* A call between two sessions. *)
LEMMA NextCall ==
    ASSUME TypeOK, NEW c \in Call, At(c, "next")
    PROVE  /\ call[c] # Idle
           /\ \E all \in SUBSET (Session \X Token) : call[c] = Between(all) /\ call[c].all = all
BY DEF TypeOK, At, Running, Busy, Steps, Between

LEMMA GoOnTypes ==
    ASSUME TypeOK, NEW c \in Call, NEW rest \in SUBSET (Session \X Token), GoOn(c, rest)
    PROVE  call' \in [Call -> Running]
BY OneCallChanges DEF GoOn, Running

LEMMA TypesInit == Init => TypeOK
BY AuthAssumption DEF Init, TypeOK, Stored, Nothing, Running

LEMMA TypesStep == ASSUME TypeOK, [Next]_vars PROVE TypeOK'
<1>. DEFINE Calls == [Call -> Running]
<1>. USE DEF historyVars
<1>1. ASSUME NEW c \in Call, GetSessions(c) PROVE TypeOK'
  <2>1. PICK wanted \in SUBSET Session :
            Become(c, Between({p \in wanted \X Token : stored[p[1]] = p[2]}))
    BY <1>1 DEF GetSessions
  <2>2. Between({p \in wanted \X Token : stored[p[1]] = p[2]}) \in Running
    BY DEF Running
  <2>. QED
    BY <1>1, <2>1, <2>2, OneCallChanges DEF GetSessions, TypeOK, serverVars
<1>2. ASSUME NEW c \in Call, EnsureFresh(c) PROVE TypeOK'
  <2>1. PICK all \in SUBSET (Session \X Token) : call[c] = Between(all) /\ call[c].all = all
    BY <1>2, NextCall DEF EnsureFresh
  <2>2. PICK p \in all :
            \/ GoOn(c, all \ {p})
            \/ Become(c, [Between(all) EXCEPT !.step = "request", !.all = @ \ {p},
                                              !.session = p[1], !.tokens = p[2]])
    BY <1>2, <2>1 DEF EnsureFresh
  <2>3. all \ {p} \in SUBSET (Session \X Token) /\ p[1] \in Session /\ p[2] \in Token
    OBVIOUS
  <2>4. [Between(all) EXCEPT !.step = "request", !.all = @ \ {p}, !.session = p[1], !.tokens = p[2]] \in Busy
    BY <2>3 DEF Between, Busy, Steps, Stored, Nothing
  <2>5. call' \in Calls
    BY <2>2, <2>3, <2>4, OneCallChanges, GoOnTypes DEF Running
  <2>. QED
    BY <1>2, <2>5 DEF EnsureFresh, TypeOK, serverVars
<1>3. ASSUME NEW c \in Call, Refresh(c) PROVE TypeOK'
  <2>. DEFINE s == call[c].session
              n == call[c].tokens
  <2>1. call[c] \in Busy /\ s \in Session /\ call[c].all \in SUBSET (Session \X Token)
    BY <1>3, BusyCall DEF Refresh, Steps
  <2>2. \A m \in Token : [call[c] EXCEPT !.step = "upsertRead", !.tokens = m] \in Running
    BY <2>1 DEF Busy, Running, Steps
  <2>3. [call[c] EXCEPT !.step = "removeRead"] \in Running
    BY <2>1 DEF Busy, Running, Steps
  <2>4. CASE Grant(c, s, n)
    <3>1. issued[s] + 1 \in Token /\ issued[s] + 1 \in 0..MaxToken /\ n \in Token
      BY <2>1, <2>4, AuthAssumption DEF Grant, Issue, TypeOK, Token
    <3>2. issued' \in [Session -> 0..MaxToken] /\ accepted' \in [Session -> SUBSET Token]
      BY <2>1, <2>4, <3>1 DEF Grant, Issue, TypeOK
    <3>3. replays' \in [Session -> SUBSET (Token \X Token)]
      BY <2>1, <2>4, <3>1 DEF Grant, TypeOK
    <3>4. call' \in Calls
      BY <2>1, <2>2, <2>4, <3>1, OneCallChanges, GoOnTypes DEF Grant
    <3>5. failures' \in Nat /\ risked' \in SUBSET Session
      BY <2>1, <2>4 DEF Grant, Fail, Risk, TypeOK
    <3>. QED
      BY <1>3, <2>4, <3>2, <3>3, <3>4, <3>5 DEF Grant, Issue, Refresh, TypeOK
  <2>5. CASE Replay(c, s, n)
    <3>1. PICK pair \in replays[s] :
              Become(c, [call[c] EXCEPT !.step = "upsertRead", !.tokens = pair[2]])
      BY <2>5 DEF Replay
    <3>2. pair[2] \in Token
      BY <2>1 DEF TypeOK
    <3>3. call' \in Calls
      BY <2>2, <3>1, <3>2, OneCallChanges
    <3>. QED
      BY <1>3, <2>5, <3>3 DEF Replay, Refresh, TypeOK, serverVars
  <2>6. CASE GoTo(c, "removeRead") /\ UNCHANGED <<serverVars, failures, risked>>
    <3>1. call' \in Calls
      BY <2>3, <2>6, OneCallChanges DEF GoTo, Become
    <3>. QED
      BY <1>3, <2>6, <3>1 DEF Refresh, TypeOK, serverVars
  <2>7. CASE Fail /\ GoOn(c, call[c].all) /\ UNCHANGED <<serverVars, risked>>
    <3>1. call' \in Calls
      BY <2>1, <2>7, GoOnTypes
    <3>. QED
      BY <1>3, <2>7, <3>1 DEF Refresh, Fail, TypeOK, serverVars
  <2>. QED
    BY <1>3, <2>4, <2>5, <2>6, <2>7 DEF Refresh
<1>4. ASSUME NEW c \in Call, UpsertRead(c) \/ RemoveRead(c) PROVE TypeOK'
  <2>1. call[c] \in Busy /\ call[c].all \in SUBSET (Session \X Token)
    BY <1>4, BusyCall DEF UpsertRead, RemoveRead, Steps
  <2>2. \A step \in Steps : [call[c] EXCEPT !.step = step, !.snapshot = stored] \in Busy
    BY <2>1 DEF Busy, TypeOK
  <2>3. call' \in Calls
    BY <1>4, <2>1, <2>2, OneCallChanges, GoOnTypes DEF UpsertRead, RemoveRead, Running, Steps
  <2>. QED
    BY <1>4, <2>3 DEF UpsertRead, RemoveRead, TypeOK, serverVars
<1>5. ASSUME NEW c \in Call, UpsertWrite(c) \/ RemoveWrite(c) PROVE TypeOK'
  <2>1. /\ call[c].all \in SUBSET (Session \X Token) /\ call[c].session \in Session
        /\ call[c].tokens \in Token \cup {NoTokens} /\ call[c].snapshot \in Stored
    BY <1>5, BusyCall DEF UpsertWrite, RemoveWrite, Steps
  <2>2. call' \in Calls
    BY <1>5, <2>1, GoOnTypes DEF UpsertWrite, RemoveWrite
  <2>3. stored' \in Stored
    BY <1>5, <2>1 DEF UpsertWrite, RemoveWrite, Stored
  <2>4. status' \in [Session -> {"in", "out", "raced"}]
    BY <1>5, <2>1 DEF UpsertWrite, UpsertStatus, RemoveWrite, RemoveStatus, SignedOut, TypeOK
  <2>5. risked' \in SUBSET Session
    BY <1>5, <2>1 DEF UpsertWrite, UpsertRisks, RemoveWrite, RemoveRisks, Overwritten, TypeOK
  <2>. QED
    BY <1>5, <2>2, <2>3, <2>4, <2>5 DEF UpsertWrite, RemoveWrite, TypeOK, serverVars
<1>6. ASSUME NEW c \in Call, NEW s \in Session, SignIn(c, s) PROVE TypeOK'
  <2>1. issued[s] + 1 \in Token /\ issued[s] + 1 \in 0..MaxToken
    BY <1>6, AuthAssumption DEF SignIn, Issue, TypeOK, Token
  <2>2. issued' \in [Session -> 0..MaxToken] /\ accepted' \in [Session -> SUBSET Token]
    BY <1>6, <2>1 DEF SignIn, Issue, TypeOK
  <2>3. [op |-> "createSession", step |-> "upsertRead", all |-> {}, session |-> s,
         tokens |-> issued[s] + 1, snapshot |-> Nothing] \in Running
    BY <2>1 DEF Running, Busy, Steps, Stored, Nothing
  <2>. QED
    BY <1>6, <2>2, <2>3, OneCallChanges DEF SignIn, Issue, TypeOK
<1>7. ASSUME NEW c \in Call, NEW s \in Session, SignOut(c, s) PROVE TypeOK'
  <2>1. [op |-> "removeSession", step |-> "removeRead", all |-> {}, session |-> s,
         tokens |-> NoTokens, snapshot |-> Nothing] \in Running
    BY DEF Running, Busy, Steps, Stored, Nothing
  <2>. QED
    BY <1>7, <2>1, OneCallChanges DEF SignOut, TypeOK, serverVars
<1>8. ASSUME NEW c \in Call, Crash(c) PROVE TypeOK'
  BY <1>8, OneCallChanges DEF Crash, Fail, Risk, TypeOK, serverVars, Running
<1>9. ASSUME NEW s \in Session, Expire(s) \/ EndReplays(s) \/ Revoke(s) PROVE TypeOK'
  BY <1>9 DEF Expire, EndReplays, Revoke, Fail, TypeOK
<1>10. CASE UNCHANGED vars
  BY <1>10 DEF vars, serverVars, TypeOK
<1>. QED
  BY <1>1, <1>2, <1>3, <1>4, <1>5, <1>6, <1>7, <1>8, <1>9, <1>10 DEF Next, Proceed

(* Every variable of AuthSessions keeps its type. *)
THEOREM TypeCorrect == Spec => []TypeOK
BY TypesInit, TypesStep, PTL DEF Spec

-----------------------------------------------------------------------------
(* What a step does to the call that takes it.                             *)

(* A call that goes on, or ends, holds no more than before.                *)
LEMMA GoOnHolds ==
    ASSUME TypeOK, NEW c \in Call, call[c] # Idle, call[c].all \in SUBSET (Session \X Token),
           NEW rest \in SUBSET call[c].all, GoOn(c, rest)
    PROVE  /\ \A d \in Call \ {c} : call'[d] = call[d]
           /\ \/ call'[c] = Idle
              \/ /\ call'[c].op = "getSessions" /\ call'[c].step = "next" /\ call'[c].all = rest
                 /\ rest # {}
           /\ \A s \in Session, n \in Token : HeldBy(c, s, n)' => HeldBy(c, s, n)
           /\ \A s \in Session : (Holds(c, s)' => Holds(c, s)) /\ ~Carries(c, s)'
           /\ ~Dropping(c)'
<1>1. /\ \A d \in Call \ {c} : call'[d] = call[d]
      /\ call'[c] = IF rest = {} THEN Idle ELSE Between(rest)
  BY OneCallChanges DEF GoOn
<1>2. CASE rest = {}
  BY <1>1, <1>2 DEF HeldBy, Holds, Carries, At, Dropping
<1>3. CASE rest # {}
  <2>1. /\ call'[c].op = "getSessions" /\ call'[c].step = "next" /\ call'[c].all = rest
        /\ call'[c].tokens = NoTokens /\ call'[c].snapshot = Nothing
    BY <1>1, <1>3 DEF Between
  <2>2. \A n \in Token : n # NoTokens
    BY AuthAssumption DEF Token
  <2>3. \A s \in Session, n \in Token : HeldBy(c, s, n)' => <<s, n>> \in rest
    BY <2>1, <2>2 DEF HeldBy, Nothing
  <2>4. \A s \in Session : Holds(c, s)' => \E n \in Token : <<s, n>> \in rest
    BY <2>1 DEF Holds
  <2>. QED
    BY <1>1, <1>3, <2>1, <2>3, <2>4 DEF HeldBy, Holds, Carries, At, Dropping
<1>. QED
  BY <1>2, <1>3

(* getSessions takes up its next session, or skips it. *)
LEMMA FreshEffect ==
    ASSUME TypeOK, NEW c \in Call, EnsureFresh(c)
    PROVE  /\ call[c] # Idle /\ \A d \in Call \ {c} : call'[d] = call[d]
           /\ call'[c].op \in {"none", "getSessions"}
           /\ \A s \in Session, n \in Token : HeldBy(c, s, n)' => HeldBy(c, s, n)
           /\ \A s \in Session : (Holds(c, s)' => Holds(c, s)) /\ ~Carries(c, s)'
           /\ ~Dropping(c)'
<1>1. PICK all \in SUBSET (Session \X Token) :
          call[c] # Idle /\ call[c] = Between(all) /\ call[c].all = all
  BY NextCall DEF EnsureFresh
<1>2. PICK p \in all :
          \/ GoOn(c, all \ {p})
          \/ Become(c, [call[c] EXCEPT !.step = "request", !.all = @ \ {p},
                                       !.session = p[1], !.tokens = p[2]])
  BY <1>1 DEF EnsureFresh
<1>3. CASE GoOn(c, all \ {p})
  BY <1>1, <1>3, GoOnHolds DEF Idle
<1>4. CASE Become(c, [call[c] EXCEPT !.step = "request", !.all = @ \ {p},
                                     !.session = p[1], !.tokens = p[2]])
  <2>. DEFINE r == [call[c] EXCEPT !.step = "request", !.all = @ \ {p},
                                   !.session = p[1], !.tokens = p[2]]
  <2>1. /\ r.op = "getSessions" /\ r.step = "request" /\ r.all = all \ {p}
        /\ r.session = p[1] /\ r.tokens = p[2] /\ r.snapshot = Nothing
    BY <1>1 DEF Between
  <2>2. Become(c, r)
    BY <1>4
  <2>. HIDE DEF r
  <2>3. call'[c] = r /\ \A d \in Call \ {c} : call'[d] = call[d]
    BY <2>2, OneCallChanges
  <2>4. p = <<p[1], p[2]>> /\ p[2] \in Token /\ \A n \in Token : n # NoTokens
    BY AuthAssumption DEF Token
  <2>5. \A s \in Session, n \in Token : HeldBy(c, s, n)' => HeldBy(c, s, n)
    BY <1>1, <2>1, <2>3, <2>4 DEF HeldBy, Nothing
  <2>6. \A s \in Session : Holds(c, s)' => Holds(c, s)
    BY <1>1, <2>1, <2>3, <2>4 DEF Holds
  <2>. QED
    BY <1>1, <2>1, <2>3, <2>5, <2>6 DEF Carries, At, Dropping
<1>. QED
  BY <1>2, <1>3, <1>4

(* A request is answered, or is not. *)
LEMMA RequestEffect ==
    ASSUME TypeOK, NEW c \in Call, Refresh(c),
           NEW s, s = call[c].session, NEW n, n = call[c].tokens
    PROVE  /\ call[c] \in Busy /\ call[c] # Idle /\ s \in Session /\ n \in Token \cup {NoTokens}
           /\ \A d \in Call \ {c} : call'[d] = call[d]
           /\ UNCHANGED <<stored, status>>
           /\ \A t \in Session : (Holds(c, t)' => Holds(c, t) \/ call[c].op # "getSessions")
           /\ call'[c] = Idle \/ call'[c].op \in {"getSessions", call[c].op}
           /\ \/ /\ GoOn(c, call[c].all) /\ ~Dropping(c)'
                 /\ \A t \in Session, m \in Token : HeldBy(c, t, m)' => HeldBy(c, t, m)
              \/ /\ call'[c].op = call[c].op /\ call'[c].session = s /\ call'[c].all = call[c].all
                 /\ call'[c].snapshot = call[c].snapshot
                 /\ call'[c].step \in {"upsertRead", "removeRead"}
<1>1. /\ call[c] \in Busy /\ call[c] # Idle /\ s \in Session /\ n \in Token \cup {NoTokens}
      /\ call[c].all \in SUBSET (Session \X Token)
  BY BusyCall DEF Refresh, Steps
<1>2. UNCHANGED <<stored, status>> /\ call[c].step = "request"
  BY DEF Refresh, At
<1>3. CASE GoOn(c, call[c].all)
  BY <1>1, <1>2, <1>3, GoOnHolds
<1>4. ASSUME NEW m, Become(c, [call[c] EXCEPT !.step = "upsertRead", !.tokens = m])
      PROVE  /\ \A d \in Call \ {c} : call'[d] = call[d]
             /\ call'[c].op = call[c].op /\ call'[c].session = s /\ call'[c].all = call[c].all
             /\ call'[c].snapshot = call[c].snapshot /\ call'[c].step = "upsertRead"
  <2>. DEFINE r == [call[c] EXCEPT !.step = "upsertRead", !.tokens = m]
  <2>1. /\ r.op = call[c].op /\ r.step = "upsertRead" /\ r.all = call[c].all
        /\ r.session = s /\ r.snapshot = call[c].snapshot
    BY <1>1 DEF Busy
  <2>2. Become(c, r)
    BY <1>4
  <2>. HIDE DEF r
  <2>. QED
    BY <2>1, <2>2, OneCallChanges
<1>5. ASSUME GoTo(c, "removeRead")
      PROVE  /\ \A d \in Call \ {c} : call'[d] = call[d]
             /\ call'[c].op = call[c].op /\ call'[c].session = s /\ call'[c].all = call[c].all
             /\ call'[c].snapshot = call[c].snapshot /\ call'[c].step = "removeRead"
  BY <1>1, <1>5 DEF GoTo, TypeOK, Busy
<1>6. \/ GoOn(c, call[c].all)
      \/ \E m : Become(c, [call[c] EXCEPT !.step = "upsertRead", !.tokens = m])
      \/ GoTo(c, "removeRead")
  BY DEF Refresh, Grant, Replay
<1>7. ASSUME call'[c].op = call[c].op, call'[c].session = s, call'[c].all = call[c].all,
             call'[c].step \in {"upsertRead", "removeRead"}
      PROVE  \A t \in Session : (Holds(c, t)' => Holds(c, t) \/ call[c].op # "getSessions")
  BY <1>1, <1>2, <1>7 DEF Holds
<1>. QED
  BY <1>1, <1>2, <1>3, <1>4, <1>5, <1>6, <1>7

(* The store is read, or there is nothing to remove. *)
LEMMA ReadEffect ==
    ASSUME TypeOK, NEW c \in Call, UpsertRead(c) \/ RemoveRead(c)
    PROVE  /\ call[c] \in Busy /\ call[c] # Idle /\ call[c].session \in Session
           /\ \A d \in Call \ {c} : call'[d] = call[d]
           /\ UNCHANGED <<stored, issued, accepted, replays, failures, status, risked>>
           /\ \/ /\ RemoveRead(c) /\ GoOn(c, call[c].all) /\ ~Dropping(c)'
                 /\ call'[c].op \in {"none", "getSessions"}
                 /\ \A s \in Session, n \in Token : HeldBy(c, s, n)' => HeldBy(c, s, n)
                 /\ \A s \in Session : (Holds(c, s)' => Holds(c, s)) /\ ~Carries(c, s)'
              \/ /\ call'[c].op = call[c].op /\ call'[c].session = call[c].session
                 /\ call'[c].all = call[c].all /\ call'[c].tokens = call[c].tokens
                 /\ call'[c].snapshot = stored
                 /\ \/ UpsertRead(c) /\ call[c].step = "upsertRead" /\ call'[c].step = "upsertWrite"
                    \/ RemoveRead(c) /\ call[c].step = "removeRead" /\ call'[c].step = "removeWrite"
<1>1. call[c] \in Busy /\ call[c] # Idle /\ call[c].session \in Session /\ call[c].all \in SUBSET (Session \X Token)
  BY BusyCall DEF UpsertRead, RemoveRead, Steps
<1>2. UNCHANGED <<stored, issued, accepted, replays, failures, status, risked>>
  BY DEF UpsertRead, RemoveRead, serverVars, historyVars
<1>3. CASE RemoveRead(c) /\ GoOn(c, call[c].all)
  BY <1>1, <1>2, <1>3, GoOnHolds DEF Idle
<1>4. ASSUME NEW step, Become(c, [call[c] EXCEPT !.step = step, !.snapshot = stored])
      PROVE  /\ \A d \in Call \ {c} : call'[d] = call[d]
             /\ call'[c].op = call[c].op /\ call'[c].step = step /\ call'[c].all = call[c].all
             /\ call'[c].session = call[c].session
             /\ call'[c].tokens = call[c].tokens /\ call'[c].snapshot = stored
  <2>. DEFINE r == [call[c] EXCEPT !.step = step, !.snapshot = stored]
  <2>1. /\ r.op = call[c].op /\ r.step = step /\ r.all = call[c].all
        /\ r.session = call[c].session /\ r.tokens = call[c].tokens /\ r.snapshot = stored
    BY <1>1 DEF Busy
  <2>2. Become(c, r)
    BY <1>4
  <2>. HIDE DEF r
  <2>. QED
    BY <2>1, <2>2, OneCallChanges
<1>5. CASE UpsertRead(c)
  BY <1>1, <1>2, <1>4, <1>5 DEF UpsertRead, At
<1>6. CASE RemoveRead(c) /\ Become(c, [call[c] EXCEPT !.step = "removeWrite", !.snapshot = stored])
  BY <1>1, <1>2, <1>4, <1>6 DEF RemoveRead, At
<1>. QED
  BY <1>3, <1>5, <1>6 DEF RemoveRead

(* The store is written, and the call goes on. *)
LEMMA WriteEffect ==
    ASSUME TypeOK, NEW c \in Call, UpsertWrite(c) \/ RemoveWrite(c),
           NEW s, s = call[c].session
    PROVE  /\ call[c] # Idle /\ s \in Session /\ call[c].snapshot \in Stored
           /\ \A d \in Call \ {c} : call'[d] = call[d]
           /\ UNCHANGED <<issued, accepted, replays>>
           /\ call'[c].op \in {"none", "getSessions"} /\ ~Dropping(c)'
           /\ \A t \in Session, n \in Token : HeldBy(c, t, n)' => HeldBy(c, t, n)
           /\ \A t \in Session : (Holds(c, t)' => Holds(c, t)) /\ ~Carries(c, t)'
           /\ call[c].all = {} => call'[c] = Idle
           /\ call[c].step \in {"upsertWrite", "removeWrite"}
           /\ \A t \in Session \ {s} : /\ stored'[t] = call[c].snapshot[t]
                                       /\ status'[t] = status[t]
                                       /\ t \in risked' <=> t \in risked \/ stored'[t] # stored[t]
           /\ UpsertWrite(c) => stored'[s] = call[c].tokens
           /\ RemoveWrite(c) => stored'[s] = NoTokens
<1>1. /\ call[c] # Idle /\ s \in Session /\ call[c].snapshot \in Stored
      /\ call[c].all \in SUBSET (Session \X Token) /\ call[c].step \in {"upsertWrite", "removeWrite"}
  BY BusyCall DEF UpsertWrite, RemoveWrite, Steps, At
<1>2. GoOn(c, call[c].all) /\ UNCHANGED <<issued, accepted, replays>>
  BY DEF UpsertWrite, RemoveWrite, serverVars
<1>3. /\ \A d \in Call \ {c} : call'[d] = call[d]
      /\ call'[c].op \in {"none", "getSessions"} /\ ~Dropping(c)'
      /\ \A t \in Session, n \in Token : HeldBy(c, t, n)' => HeldBy(c, t, n)
      /\ \A t \in Session : (Holds(c, t)' => Holds(c, t)) /\ ~Carries(c, t)'
      /\ call[c].all = {} => call'[c] = Idle
  BY <1>1, <1>2, GoOnHolds DEF Idle
<1>4. /\ \A t \in Session \ {s} : stored'[t] = call[c].snapshot[t]
      /\ UpsertWrite(c) => stored'[s] = call[c].tokens
      /\ RemoveWrite(c) => stored'[s] = NoTokens
  BY <1>1 DEF UpsertWrite, RemoveWrite, Stored
<1>5. \A t \in Session \ {s} : status'[t] = status[t]
  BY DEF UpsertWrite, RemoveWrite, UpsertStatus, RemoveStatus, TypeOK
<1>6. \A t \in Session \ {s} : t \in risked' <=> t \in risked \/ stored'[t] # stored[t]
  BY <1>4 DEF UpsertWrite, RemoveWrite, UpsertRisks, RemoveRisks, Overwritten
<1>. QED
  BY <1>1, <1>2, <1>3, <1>4, <1>5, <1>6

(* A call begins. *)
LEMMA StartEffect ==
    ASSUME TypeOK, NEW c \in Call, GetSessions(c) \/ \E s \in Session : SignIn(c, s) \/ SignOut(c, s)
    PROVE  /\ call[c] = Idle /\ \A d \in Call \ {c} : call'[d] = call[d]
           /\ ~Dropping(c)' /\ UNCHANGED <<stored, status, risked, replays>>
           /\ \A s \in Session : Holds(c, s)' => stored[s] # NoTokens
           /\ \A s \in Session, n \in Token :
                 HeldBy(c, s, n)' => stored[s] = n \/ (SignIn(c, s) /\ n = issued[s] + 1)
           /\ call'[c].op = "createSession" => call'[c].step = "upsertRead"
           /\ call'[c].op = "removeSession" => call'[c].step = "removeRead" /\ call'[c].all = {}
<1>0. \A n \in Token : n # NoTokens
  BY AuthAssumption DEF Token
<1>1. CASE GetSessions(c)
  <2>1. PICK wanted \in SUBSET Session :
            Become(c, Between({p \in wanted \X Token : stored[p[1]] = p[2]}))
    BY <1>1 DEF GetSessions
  <2>2. /\ call'[c].op = "getSessions" /\ call'[c].step = "next"
        /\ call'[c].all = {p \in wanted \X Token : stored[p[1]] = p[2]}
        /\ call'[c].tokens = NoTokens /\ call'[c].snapshot = Nothing
        /\ \A d \in Call \ {c} : call'[d] = call[d]
    BY <2>1, OneCallChanges DEF Between
  <2>3. call[c] = Idle /\ UNCHANGED <<stored, status, risked, replays>>
    BY <1>1 DEF GetSessions, historyVars, serverVars
  <2>4. \A s \in Session, n \in Token : <<s, n>> \in call'[c].all => stored[s] = n
    BY <2>2
  <2>. QED
    BY <1>0, <2>2, <2>3, <2>4 DEF Dropping, Holds, HeldBy, Nothing
<1>2. ASSUME NEW s \in Session, SignIn(c, s)
      PROVE  /\ call'[c].op = "createSession" /\ call'[c].step = "upsertRead" /\ call'[c].all = {}
             /\ call'[c].session = s /\ call'[c].tokens = issued[s] + 1 /\ call'[c].snapshot = Nothing
             /\ call[c] = Idle /\ \A d \in Call \ {c} : call'[d] = call[d]
             /\ UNCHANGED <<stored, status, risked, replays>>
  BY <1>2, OneCallChanges DEF SignIn, historyVars
<1>3. ASSUME NEW s \in Session, SignOut(c, s)
      PROVE  /\ call'[c].op = "removeSession" /\ call'[c].step = "removeRead" /\ call'[c].all = {}
             /\ call'[c].tokens = NoTokens /\ call'[c].snapshot = Nothing
             /\ call[c] = Idle /\ \A d \in Call \ {c} : call'[d] = call[d]
             /\ UNCHANGED <<stored, status, risked, replays>>
  BY <1>3, OneCallChanges DEF SignOut, historyVars, serverVars
<1>4. CASE \E s \in Session : SignIn(c, s)
  BY <1>0, <1>2, <1>4 DEF Dropping, Holds, HeldBy, Nothing
<1>5. CASE \E s \in Session : SignOut(c, s)
  BY <1>0, <1>3, <1>5 DEF Dropping, Holds, HeldBy, Nothing
<1>. QED
  BY <1>1, <1>4, <1>5

LEMMA CrashEffect ==
    ASSUME TypeOK, NEW c \in Call, Crash(c)
    PROVE  call'[c] = Idle /\ (\A d \in Call \ {c} : call'[d] = call[d])
           /\ UNCHANGED <<stored, issued, accepted, replays, status>>
BY OneCallChanges DEF Crash, serverVars

-----------------------------------------------------------------------------
(* Signing in and out has its own steps.                                   *)

LEMMA ShapesStep == ASSUME TypeOK, Shapes, [Next]_vars PROVE Shapes'
<1>. SUFFICES ASSUME NEW c \in Call
     PROVE  \/ UNCHANGED call
            \/ \E d \in Call :
                  /\ \A e \in Call \ {d} : call'[e] = call[e]
                  /\ call'[d].op = "createSession" => call'[d].step \in {"upsertRead", "upsertWrite"}
                  /\ call'[d].op = "removeSession" =>
                        call'[d].step \in {"removeRead", "removeWrite"} /\ call'[d].all = {}
  BY DEF Shapes
<1>1. ASSUME NEW d \in Call, GetSessions(d) \/ \E s \in Session : SignIn(d, s) \/ SignOut(d, s)
      PROVE  /\ \A e \in Call \ {d} : call'[e] = call[e]
             /\ call'[d].op = "createSession" => call'[d].step \in {"upsertRead", "upsertWrite"}
             /\ call'[d].op = "removeSession" =>
                   call'[d].step \in {"removeRead", "removeWrite"} /\ call'[d].all = {}
  BY <1>1, StartEffect
<1>2. ASSUME NEW d \in Call, Proceed(d) \/ Crash(d)
      PROVE  /\ \A e \in Call \ {d} : call'[e] = call[e]
             /\ call'[d].op = "createSession" => call'[d].step \in {"upsertRead", "upsertWrite"}
             /\ call'[d].op = "removeSession" =>
                   call'[d].step \in {"removeRead", "removeWrite"} /\ call'[d].all = {}
  <2>1. CASE EnsureFresh(d)
    BY <2>1, FreshEffect
  <2>2. CASE Refresh(d)
    <3>1. call[d].step = "request"
      BY <2>2 DEF Refresh, At
    <3>2. call[d].op # "createSession" /\ call[d].op # "removeSession"
      BY <3>1 DEF Shapes
    <3>. QED
      BY <2>2, <3>2, RequestEffect DEF Idle
  <2>3. CASE UpsertRead(d) \/ RemoveRead(d)
    BY <2>3, ReadEffect DEF Shapes
  <2>4. CASE UpsertWrite(d) \/ RemoveWrite(d)
    BY <2>4, WriteEffect
  <2>5. CASE Crash(d)
    BY <2>5, CrashEffect DEF Idle
  <2>. QED
    BY <1>2, <2>1, <2>2, <2>3, <2>4, <2>5 DEF Proceed
<1>3. ASSUME NEW s \in Session, Expire(s) \/ EndReplays(s) \/ Revoke(s) PROVE UNCHANGED call
  BY <1>3 DEF Expire, EndReplays, Revoke
<1>. QED
  BY <1>1, <1>2, <1>3 DEF Next, vars

-----------------------------------------------------------------------------
(* No token is around that was not issued.                                 *)

(* A step that adds, for each session, tokens up to issued' only. *)
LEMMA IssuedBy ==
    ASSUME TypeOK, TypeOK', TokensIssued, \A s \in Session : issued[s] <= issued'[s],
           \A s \in Session, n \in Token : Around(s, n)' => Around(s, n) \/ n <= issued'[s]
    PROVE  TokensIssued'
<1>. SUFFICES ASSUME NEW s \in Session, NEW n \in Token, Around(s, n)'
     PROVE  n <= issued'[s]
  BY DEF TokensIssued
<1>1. n \in Nat /\ issued[s] \in Nat /\ issued'[s] \in Nat
  BY AuthAssumption DEF Token, TypeOK
<1>2. Around(s, n) => n <= issued[s]
  BY DEF TokensIssued
<1>. QED
  BY <1>1, <1>2

(* A step of one call by which the server accepts no more than before.     *)
LEMMA IssuedByCall ==
    ASSUME TypeOK, TypeOK', TokensIssued, NEW c \in Call, UNCHANGED <<issued, accepted, replays>>,
           \A d \in Call \ {c} : call'[d] = call[d],
           \A s \in Session, n \in Token : HeldBy(c, s, n)' => Around(s, n),
           \A s \in Session, n \in Token : stored'[s] = n => Around(s, n)
    PROVE  TokensIssued'
<1>1. \A d \in Call \ {c}, s \in Session, n \in Token : HeldBy(d, s, n)' => HeldBy(d, s, n)
  BY DEF HeldBy
<1>2. \A s \in Session, n \in Token : Around(s, n)' => Around(s, n)
  BY <1>1 DEF Around
<1>3. \A s \in Session : issued[s] <= issued'[s]
  BY DEF TypeOK
<1>. QED
  BY <1>2, <1>3, IssuedBy

LEMMA IssuedStep == ASSUME TypeOK, TypeOK', TokensIssued, [Next]_vars PROVE TokensIssued'
<1>0. /\ \A n \in Token : n # NoTokens /\ n \in Nat
      /\ \A s \in Session : issued[s] \in Nat
  BY AuthAssumption DEF Token, TypeOK
<1>1. ASSUME NEW c \in Call, GetSessions(c) \/ \E s \in Session : SignOut(c, s) PROVE TokensIssued'
  <2>1. UNCHANGED <<issued, accepted, replays>>
    BY <1>1 DEF GetSessions, SignOut, serverVars
  <2>2. \A s \in Session : ~SignIn(c, s) \/ Around(s, issued[s] + 1)
    BY <1>0, <2>1, <1>1 DEF SignIn, Issue, TypeOK
  <2>. QED
    BY <1>1, <2>1, <2>2, StartEffect, IssuedByCall DEF Around
<1>2. ASSUME NEW c \in Call, NEW s \in Session, SignIn(c, s) PROVE TokensIssued'
  <2>1. /\ \A t \in Session : t # s => issued'[t] = issued[t] /\ accepted'[t] = accepted[t]
        /\ issued'[s] = issued[s] + 1 /\ accepted'[s] = accepted[s] \cup {issued[s] + 1}
        /\ UNCHANGED <<stored, replays>>
    BY <1>2 DEF SignIn, Issue, TypeOK
  <2>2. \A d \in Call \ {c} : call'[d] = call[d]
    BY <1>2, StartEffect
  <2>3. \A t \in Session, n \in Token : HeldBy(c, t, n)' => stored[t] = n \/ (t = s /\ n = issued[s] + 1)
    <3>1. \A t \in Session : SignIn(c, t) => t = s
      BY <1>2, <1>0 DEF SignIn, Issue, TypeOK
    <3>. QED
      BY <1>2, <3>1, StartEffect
  <2>4. \A d \in Call \ {c}, t \in Session, n \in Token : HeldBy(d, t, n)' => HeldBy(d, t, n)
    BY <2>2 DEF HeldBy
  <2>5. \A t \in Session, n \in Token : Around(t, n)' => Around(t, n) \/ (t = s /\ n = issued[s] + 1)
    BY <2>1, <2>3, <2>4 DEF Around
  <2>. QED
    BY <1>0, <2>1, <2>5, IssuedBy
<1>3. ASSUME NEW c \in Call, EnsureFresh(c) PROVE TokensIssued'
  BY <1>3, FreshEffect, IssuedByCall DEF EnsureFresh, serverVars, Around
<1>4. ASSUME NEW c \in Call, Refresh(c) PROVE TokensIssued'
  <2>. DEFINE s == call[c].session
              n == call[c].tokens
  <2>1. /\ call[c] \in Busy /\ call[c] # Idle /\ s \in Session /\ n \in Token \cup {NoTokens}
        /\ \A d \in Call \ {c} : call'[d] = call[d]
        /\ UNCHANGED stored
    BY <1>4, RequestEffect
  <2>2. \A d \in Call \ {c}, t \in Session, m \in Token : HeldBy(d, t, m)' => HeldBy(d, t, m)
    BY <2>1 DEF HeldBy
  <2>3. ASSUME NEW new, Become(c, [call[c] EXCEPT !.step = "upsertRead", !.tokens = new])
        PROVE  \A t \in Session, m \in Token : HeldBy(c, t, m)' => HeldBy(c, t, m) \/ (t = s /\ m = new)
    <3>. DEFINE r == [call[c] EXCEPT !.step = "upsertRead", !.tokens = new]
    <3>1. /\ r.all = call[c].all /\ r.session = s /\ r.tokens = new /\ r.snapshot = call[c].snapshot
      BY <2>1 DEF Busy
    <3>2. Become(c, r)
      BY <2>3
    <3>. HIDE DEF r
    <3>. QED
      BY <2>1, <3>1, <3>2, OneCallChanges DEF HeldBy
  <2>4. ASSUME GoOn(c, call[c].all)
        PROVE  \A t \in Session, m \in Token : HeldBy(c, t, m)' => HeldBy(c, t, m)
    <3>1. call[c].all \in SUBSET (Session \X Token)
      BY <2>1 DEF Busy
    <3>. QED
      BY <2>1, <2>4, <3>1, GoOnHolds
  <2>5. CASE Grant(c, s, n)
    <3>. DEFINE new == issued[s] + 1
    <3>1. /\ \A t \in Session : t # s => issued'[t] = issued[t] /\ accepted'[t] = accepted[t] /\ replays'[t] = replays[t]
          /\ issued'[s] = new
          /\ accepted'[s] \subseteq accepted[s] \cup {new}
          /\ \A pair \in replays'[s] : pair \in replays[s] \/ pair[2] = new
      BY <2>1, <2>5 DEF Grant, Issue, TypeOK
    <3>2. \A t \in Session, m \in Token : HeldBy(c, t, m)' => HeldBy(c, t, m) \/ (t = s /\ m = new)
      BY <2>3, <2>4, <2>5 DEF Grant
    <3>3. \A t \in Session, m \in Token : Around(t, m)' => Around(t, m) \/ (t = s /\ m = new)
      BY <2>1, <2>2, <3>1, <3>2 DEF Around
    <3>. QED
      BY <1>0, <2>1, <3>1, <3>3, IssuedBy
  <2>6. CASE Replay(c, s, n)
    <3>1. PICK pair \in replays[s] :
              Become(c, [call[c] EXCEPT !.step = "upsertRead", !.tokens = pair[2]])
      BY <2>6 DEF Replay
    <3>2. \A t \in Session, m \in Token : HeldBy(c, t, m)' => HeldBy(c, t, m) \/ (t = s /\ m = pair[2])
      BY <2>3, <3>1
    <3>3. \A t \in Session, m \in Token : HeldBy(c, t, m)' => Around(t, m)
      BY <2>1, <3>2 DEF Around
    <3>4. UNCHANGED <<issued, accepted, replays>>
      BY <2>6 DEF Replay, serverVars
    <3>5. \A t \in Session, m \in Token : stored'[t] = m => Around(t, m)
      BY <2>1 DEF Around
    <3>. QED
      BY <2>1, <3>3, <3>4, <3>5, IssuedByCall
  <2>7. CASE GoTo(c, "removeRead") /\ UNCHANGED <<serverVars, failures, risked>>
    <3>1. \A t \in Session, m \in Token : HeldBy(c, t, m)' => HeldBy(c, t, m)
      <4>1. /\ call'[c].all = call[c].all /\ call'[c].session = call[c].session
            /\ call'[c].tokens = call[c].tokens /\ call'[c].snapshot = call[c].snapshot
        BY <2>1, <2>7 DEF GoTo, TypeOK, Busy
      <4>. QED
        BY <2>1, <4>1 DEF HeldBy
    <3>. QED
      BY <2>1, <2>7, <3>1, IssuedByCall DEF Around, serverVars
  <2>8. CASE Fail /\ GoOn(c, call[c].all) /\ UNCHANGED <<serverVars, risked>>
    BY <2>1, <2>4, <2>8, IssuedByCall DEF Around, serverVars
  <2>. QED
    BY <1>4, <2>5, <2>6, <2>7, <2>8 DEF Refresh
<1>5. ASSUME NEW c \in Call, UpsertRead(c) \/ RemoveRead(c) PROVE TokensIssued'
  <2>1. \A s \in Session, n \in Token : HeldBy(c, s, n)' => HeldBy(c, s, n) \/ stored[s] = n
    BY <1>5, ReadEffect DEF HeldBy
  <2>. QED
    BY <1>5, <2>1, ReadEffect, IssuedByCall DEF Around
<1>6. ASSUME NEW c \in Call, UpsertWrite(c) \/ RemoveWrite(c) PROVE TokensIssued'
  <2>1. \A s \in Session, n \in Token : stored'[s] = n => HeldBy(c, s, n)
    BY <1>0, <1>6, WriteEffect DEF HeldBy
  <2>. QED
    BY <1>6, <2>1, WriteEffect, IssuedByCall DEF Around
<1>7. ASSUME NEW c \in Call, Crash(c) PROVE TokensIssued'
  BY <1>7, CrashEffect, IssuedByCall DEF Around, HeldBy
<1>8. ASSUME NEW s \in Session, Expire(s) \/ EndReplays(s) \/ Revoke(s) PROVE TokensIssued'
  <2>1. UNCHANGED <<stored, issued, call>>
    BY <1>8 DEF Expire, EndReplays, Revoke
  <2>2. \A t \in Session : accepted'[t] \subseteq accepted[t] /\ replays'[t] \subseteq replays[t]
    BY <1>8 DEF Expire, EndReplays, Revoke, TypeOK
  <2>3. \A t \in Session, n \in Token : Around(t, n)' => Around(t, n)
    BY <2>1, <2>2 DEF Around, HeldBy
  <2>. QED
    BY <1>0, <2>1, <2>3, IssuedBy
<1>9. CASE UNCHANGED vars
  BY <1>9 DEF vars, serverVars, TokensIssued, Around, HeldBy
<1>. QED
  BY <1>1, <1>2, <1>3, <1>4, <1>5, <1>6, <1>7, <1>8, <1>9 DEF Next, Proceed

-----------------------------------------------------------------------------
(* A refused token stays refused.                                          *)

LEMMA NewTokens ==
    ASSUME TypeOK, TokensIssued, NEW c \in Call, call[c] \in Busy, call[c] # Idle,
           NEW s \in Session, call[c].tokens \notin accepted[s], call[c].session = s,
           accepted'[s] \subseteq accepted[s] \cup {issued[s] + 1}
    PROVE  call[c].tokens \notin accepted'[s]
<1>1. call[c].tokens \in Token => call[c].tokens <= issued[s]
  BY DEF TokensIssued, Around, HeldBy
<1>2. call[c].tokens \in Token \cup {NoTokens} /\ issued[s] \in Nat /\ \A n \in Token : n \in Nat
  BY DEF TypeOK, Busy, Token
<1>3. call[c].tokens # issued[s] + 1
  BY <1>1, <1>2, AuthAssumption
<1>. QED
  BY <1>3

(* The server comes to accept only the token it issues. *)
LEMMA AcceptedGrows ==
    ASSUME TypeOK, [Next]_vars, NEW s \in Session
    PROVE  accepted'[s] \subseteq accepted[s] \cup {issued[s] + 1}
<1>1. ASSUME NEW c \in Call, Refresh(c) PROVE accepted'[s] \subseteq accepted[s] \cup {issued[s] + 1}
  <2>. DEFINE r == call[c].session
              n == call[c].tokens
  <2>1. r \in Session
    BY <1>1, RequestEffect
  <2>2. CASE Grant(c, r, n)
    BY <2>1, <2>2 DEF Grant, TypeOK
  <2>3. CASE UNCHANGED accepted
    BY <2>3
  <2>. QED
    BY <1>1, <2>2, <2>3 DEF Refresh, Replay, serverVars
<1>2. ASSUME NEW c \in Call, NEW t \in Session, SignIn(c, t)
      PROVE  accepted'[s] \subseteq accepted[s] \cup {issued[s] + 1}
  BY <1>2 DEF SignIn, TypeOK
<1>3. ASSUME NEW c \in Call,
             \/ GetSessions(c) \/ EnsureFresh(c) \/ UpsertRead(c) \/ UpsertWrite(c) \/ RemoveRead(c)
             \/ RemoveWrite(c) \/ Crash(c) \/ \E t \in Session : SignOut(c, t)
      PROVE  UNCHANGED accepted
  BY <1>3 DEF GetSessions, EnsureFresh, UpsertRead, UpsertWrite, RemoveRead, RemoveWrite, Crash, SignOut, serverVars
<1>4. ASSUME NEW t \in Session, Expire(t) \/ EndReplays(t) \/ Revoke(t)
      PROVE  accepted'[s] \subseteq accepted[s]
  BY <1>4 DEF Expire, EndReplays, Revoke, TypeOK
<1>5. UNCHANGED vars => UNCHANGED accepted
  BY DEF vars, serverVars
<1>. QED
  BY <1>1, <1>2, <1>3, <1>4, <1>5 DEF Next, Proceed

(* A call that drops a session was refused, or was dropping it before.     *)
LEMMA DroppingStep ==
    ASSUME TypeOK, [Next]_vars, NEW c \in Call, Dropping(c)'
    PROVE  /\ call[c] \in Busy /\ call[c] # Idle
           /\ call'[c].session = call[c].session /\ call'[c].tokens = call[c].tokens
           /\ Dropping(c) \/ (call[c].tokens \notin accepted[call[c].session] /\ UNCHANGED accepted)
<1>0. ASSUME Dropping(c), call'[c] = call[c]
      PROVE  /\ call[c] \in Busy /\ call[c] # Idle
             /\ call'[c].session = call[c].session /\ call'[c].tokens = call[c].tokens
  BY <1>0, BusyCall DEF Dropping, At, Steps
<1>1. ASSUME call'[c] = call[c] PROVE Dropping(c)
  BY <1>1 DEF Dropping
<1>2. ASSUME NEW d \in Call, GetSessions(d) \/ \E s \in Session : SignIn(d, s) \/ SignOut(d, s)
      PROVE  call'[c] = call[c]
  BY <1>2, StartEffect
<1>3. ASSUME NEW d \in Call, EnsureFresh(d) \/ UpsertWrite(d) \/ RemoveWrite(d) \/ Crash(d)
      PROVE  call'[c] = call[c]
  BY <1>3, FreshEffect, WriteEffect, CrashEffect DEF Dropping
<1>4. ASSUME NEW d \in Call, UpsertRead(d) \/ RemoveRead(d)
      PROVE  \/ call'[c] = call[c]
             \/ /\ call[c] \in Busy /\ call[c] # Idle /\ Dropping(c)
                /\ call'[c].session = call[c].session /\ call'[c].tokens = call[c].tokens
  BY <1>4, ReadEffect DEF Dropping
<1>5. ASSUME NEW d \in Call, Refresh(d)
      PROVE  \/ call'[c] = call[c]
             \/ /\ call[c] \in Busy /\ call[c] # Idle
                /\ call'[c].session = call[c].session /\ call'[c].tokens = call[c].tokens
                /\ call[c].tokens \notin accepted[call[c].session] /\ UNCHANGED accepted
  <2>1. /\ call[d] \in Busy /\ call[d] # Idle
        /\ \A e \in Call \ {d} : call'[e] = call[e]
        /\ GoOn(d, call[d].all) => ~Dropping(d)'
    <3>1. call[d] \in Busy /\ call[d] # Idle /\ \A e \in Call \ {d} : call'[e] = call[e]
      BY <1>5, RequestEffect
    <3>2. call[d].all \in SUBSET (Session \X Token)
      BY <3>1 DEF Busy
    <3>. QED
      BY <3>1, <3>2, GoOnHolds
  <2>2. CASE c # d
    BY <2>1, <2>2
  <2>3. CASE c = d
    <3>1. \A m : ~Become(c, [call[c] EXCEPT !.step = "upsertRead", !.tokens = m])
      <4>. SUFFICES ASSUME NEW m, Become(c, [call[c] EXCEPT !.step = "upsertRead", !.tokens = m])
           PROVE  FALSE
        OBVIOUS
      <4>. DEFINE r == [call[c] EXCEPT !.step = "upsertRead", !.tokens = m]
      <4>1. r.step = "upsertRead"
        BY <2>1, <2>3 DEF Busy
      <4>2. Become(c, r)
        OBVIOUS
      <4>. HIDE DEF r
      <4>. QED
        BY <4>1, <4>2, OneCallChanges DEF Dropping
    <3>2. Refused(call[c].session, call[c].tokens) /\ GoTo(c, "removeRead") /\ UNCHANGED accepted
      BY <1>5, <2>1, <2>3, <3>1 DEF Refresh, Grant, Replay, serverVars
    <3>. QED
      BY <2>1, <2>3, <3>2 DEF GoTo, Refused, TypeOK, Busy
  <2>. QED
    BY <2>2, <2>3
<1>6. ASSUME NEW s \in Session, Expire(s) \/ EndReplays(s) \/ Revoke(s) PROVE call'[c] = call[c]
  BY <1>6 DEF Expire, EndReplays, Revoke
<1>7. UNCHANGED vars => call'[c] = call[c]
  BY DEF vars
<1>. QED
  BY <1>0, <1>1, <1>2, <1>3, <1>4, <1>5, <1>6, <1>7 DEF Next, Proceed

LEMMA RefusedStep ==
    ASSUME TypeOK, TokensIssued, RefusedStayRefused, [Next]_vars
    PROVE  RefusedStayRefused'
<1>. SUFFICES ASSUME NEW c \in Call, Dropping(c)'
     PROVE  call'[c].tokens \notin accepted'[call'[c].session]
  BY DEF RefusedStayRefused
<1>1. /\ call[c] \in Busy /\ call[c] # Idle
      /\ call'[c].session = call[c].session /\ call'[c].tokens = call[c].tokens
      /\ Dropping(c) \/ (call[c].tokens \notin accepted[call[c].session] /\ UNCHANGED accepted)
  BY DroppingStep
<1>2. call[c].tokens \notin accepted[call[c].session] /\ call[c].session \in Session
  BY <1>1 DEF RefusedStayRefused, Busy
<1>. QED
  BY <1>1, <1>2, NewTokens, AcceptedGrows

-----------------------------------------------------------------------------
(* A session the user is out of stays out of the store.                    *)

(* A step of one call that leaves the store and the user's doings alone. *)
LEMMA OutByCall ==
    ASSUME OutIsOut, NEW c \in Call, UNCHANGED <<stored, status>>,
           \A d \in Call \ {c} : call'[d] = call[d],
           \A s \in Session : Holds(c, s)' => Holds(c, s) \/ stored[s] # NoTokens
    PROVE  OutIsOut'
BY DEF OutIsOut, Holds

LEMMA OutStep == ASSUME TypeOK, Shapes, OutIsOut, [Next]_vars PROVE OutIsOut'
<1>1. ASSUME NEW c \in Call, GetSessions(c) \/ \E s \in Session : SignIn(c, s) \/ SignOut(c, s)
      PROVE  OutIsOut'
  BY <1>1, StartEffect, OutByCall
<1>2. ASSUME NEW c \in Call, EnsureFresh(c) PROVE OutIsOut'
  BY <1>2, FreshEffect, OutByCall DEF EnsureFresh, historyVars
<1>3. ASSUME NEW c \in Call, Refresh(c) PROVE OutIsOut'
  <2>1. call[c].op = "getSessions"
    <3>1. call[c] \in Busy /\ call[c].step = "request"
      BY <1>3, BusyCall DEF Refresh, At, Steps
    <3>. QED
      BY <3>1 DEF Shapes, Busy
  <2>. QED
    BY <1>3, <2>1, RequestEffect, OutByCall
<1>4. ASSUME NEW c \in Call, UpsertRead(c) \/ RemoveRead(c) PROVE OutIsOut'
  <2>1. \A s \in Session : Holds(c, s)' => Holds(c, s) \/ stored[s] # NoTokens
    BY <1>4, ReadEffect DEF Holds
  <2>. QED
    BY <1>4, <2>1, ReadEffect, OutByCall
<1>5. ASSUME NEW c \in Call, UpsertWrite(c) \/ RemoveWrite(c) PROVE OutIsOut'
  <2>s. PICK s \in Session : s = call[c].session
    BY <1>5, WriteEffect
  <2>0. /\ call[c] # Idle /\ s \in Session /\ call[c].snapshot \in Stored
        /\ \A d \in Call \ {c} : call'[d] = call[d]
        /\ \A t \in Session : Holds(c, t)' => Holds(c, t)
        /\ call[c].all = {} => call'[c] = Idle
        /\ call[c].step \in {"upsertWrite", "removeWrite"}
        /\ \A t \in Session \ {s} : stored'[t] = call[c].snapshot[t] /\ status'[t] = status[t]
        /\ RemoveWrite(c) => stored'[s] = NoTokens
    BY <1>5, <2>s, WriteEffect
  <2>1. \A d \in Call, t \in Session : Holds(d, t)' => Holds(d, t)
    <3>1. \A d \in Call \ {c}, t \in Session : Holds(d, t)' => Holds(d, t)
      BY <2>0 DEF Holds
    <3>. QED
      BY <2>0, <3>1
  <2>2. ASSUME NEW t \in Session \ {s}, status'[t] = "out"
        PROVE  stored'[t] = NoTokens /\ \A d \in Call : ~Holds(d, t)'
    <3>1. ~Holds(c, t) /\ \A d \in Call : ~Holds(d, t)
      BY <2>0, <2>2 DEF OutIsOut
    <3>2. call[c].snapshot[t] = NoTokens
      BY <2>s, <2>0, <3>1 DEF Holds
    <3>3. stored'[t] = NoTokens
      <4>1. stored'[t] = call[c].snapshot[t]
        BY <2>0
      <4>. QED
        BY <3>2, <4>1
    <3>4. t \in Session
      BY <2>2
    <3>. QED
      BY <2>1, <3>1, <3>3, <3>4
  <2>3. ASSUME status'[s] = "out"
        PROVE  stored'[s] = NoTokens /\ \A d \in Call : ~Holds(d, s)'
    <3>1. CASE UpsertWrite(c)
      <4>1. call[c] \in Busy /\ call[c].step = "upsertWrite"
        BY <3>1, BusyCall DEF UpsertWrite, At, Steps
      <4>2. call[c].op \in {"createSession", "getSessions"}
        BY <4>1 DEF Shapes, Busy
      <4>3. call[c].op = "getSessions"
        BY <2>0, <2>s, <2>3, <3>1, <4>2 DEF UpsertWrite, UpsertStatus, TypeOK
      <4>4. status[s] = "out" /\ Holds(c, s)
        BY <2>0, <2>s, <2>3, <3>1, <4>1, <4>3 DEF UpsertWrite, UpsertStatus, Holds
      <4>. QED
        BY <2>0, <2>s, <4>4 DEF OutIsOut
    <3>2. CASE RemoveWrite(c) /\ call[c].op = "removeSession"
      <4>1. call'[c] = Idle
        BY <2>0, <2>s, <3>2 DEF Shapes
      <4>2. \A d \in Call \ {c} : ~Holds(d, s)
        BY <2>0, <2>s, <2>3, <3>2 DEF RemoveWrite, RemoveStatus, SignedOut, TypeOK
      <4>3. ~Holds(c, s)'
        BY <4>1 DEF Holds
      <4>4. \A d \in Call : ~Holds(d, s)'
        BY <2>0, <2>s, <2>1, <4>2, <4>3
      <4>. QED
        BY <2>0, <2>s, <3>2, <4>4
    <3>3. CASE RemoveWrite(c) /\ call[c].op # "removeSession"
      <4>1. status[s] = "out"
        BY <2>s, <2>3, <3>3 DEF RemoveWrite, RemoveStatus
      <4>2. \A d \in Call : ~Holds(d, s)
        BY <2>0, <2>s, <4>1 DEF OutIsOut
      <4>. QED
        BY <2>0, <2>s, <2>1, <3>3, <4>2
    <3>. QED
      BY <1>5, <3>1, <3>2, <3>3
  <2>4. \A t \in Session : status'[t] = "out" => stored'[t] = NoTokens /\ \A d \in Call : ~Holds(d, t)'
    BY <2>2, <2>3
  <2>. QED
    BY <2>4 DEF OutIsOut
<1>6. ASSUME NEW c \in Call, Crash(c) PROVE OutIsOut'
  BY <1>6, CrashEffect, OutByCall DEF Holds
<1>7. ASSUME NEW s \in Session, Expire(s) \/ EndReplays(s) \/ Revoke(s) PROVE OutIsOut'
  BY <1>7 DEF Expire, EndReplays, Revoke, OutIsOut, Holds, historyVars
<1>8. CASE UNCHANGED vars
  BY <1>8 DEF vars, OutIsOut, Holds, historyVars
<1>. QED
  BY <1>1, <1>2, <1>3, <1>4, <1>5, <1>6, <1>7, <1>8 DEF Next, Proceed


-----------------------------------------------------------------------------
(* An accepted session stays stored, or on its way to the store.           *)

Kept(s) ==
    s \notin risked /\ status[s] = "in" /\ accepted[s] # {} =>
        stored[s] \in accepted[s] \/ \E c \in Call : Carries(c, s)

(* A call that does not touch a session, and goes on carrying its tokens. *)
LEMMA KeptByCall ==
    ASSUME NEW s \in Session, Kept(s), NEW c \in Call, \A d \in Call \ {c} : call'[d] = call[d],
           s \in risked => s \in risked',
           status'[s] = status[s], stored'[s] = stored[s], accepted'[s] = accepted[s],
           Carries(c, s) => Carries(c, s)' \/ s \in risked'
    PROVE  Kept(s)'
<1>1. \A d \in Call \ {c} : Carries(d, s) => Carries(d, s)'
  BY DEF Carries, At
<1>. QED
  BY <1>1 DEF Kept

(* A call carries tokens only between the answer and the write. *)
LEMMA Carrying ==
    ASSUME NEW c \in Call, NEW s \in Session, Carries(c, s)
    PROVE  call[c] # Idle /\ call[c].step \in {"upsertRead", "upsertWrite"} /\ call[c].session = s
BY DEF Carries, At

LEMMA KeptByRefresh ==
    ASSUME TypeOK, NEW c \in Call, Refresh(c), NEW s \in Session, Kept(s)
    PROVE  Kept(s)'
<1>1. PICK r \in Session : r = call[c].session
  BY RequestEffect
<1>2. PICK n : n = call[c].tokens
  OBVIOUS
<1>3. /\ call[c] \in Busy /\ \A d \in Call \ {c} : call'[d] = call[d]
      /\ UNCHANGED <<stored, status>> /\ ~Carries(c, s)
  <2>1. call[c].step = "request"
    BY DEF Refresh, At
  <2>. QED
    BY <2>1, RequestEffect, Carrying
<1>4. CASE Grant(c, r, n)
  <2>1. /\ accepted'[r] = IF r \in Rotating THEN (accepted[r] \ {n}) \cup {issued[r] + 1}
                                            ELSE accepted[r] \cup {issued[r] + 1}
        /\ \A t \in Session : t # r => accepted'[t] = accepted[t]
        /\ risked \subseteq risked'
        /\ n \in accepted[r]
    BY <1>4 DEF Grant, Risk, TypeOK
  <2>2. CASE s # r
    BY <1>3, <2>1, <2>2, KeptByCall
  <2>3. CASE s = r /\ Become(c, [call[c] EXCEPT !.step = "upsertRead", !.tokens = issued[r] + 1])
    <3>. DEFINE b == [call[c] EXCEPT !.step = "upsertRead", !.tokens = issued[r] + 1]
    <3>1. b.step = "upsertRead" /\ b.session = r /\ b.tokens = issued[r] + 1 /\ b.op = call[c].op
      BY <1>1, <1>3 DEF Busy
    <3>2. call'[c] = b
      BY <2>3, OneCallChanges
    <3>3. call[c].op # "none"
      BY <1>3 DEF Busy
    <3>. HIDE DEF b
    <3>4. call'[c] # Idle
      BY <3>1, <3>2, <3>3 DEF Idle
    <3>5. Carries(c, s)'
      BY <2>1, <2>3, <3>1, <3>2, <3>4 DEF Carries, At
    <3>. QED
      BY <3>5 DEF Kept
  <2>4. CASE s = r /\ Risk({r} \cap Rotating)
    <3>1. CASE r \in Rotating
      BY <2>4, <3>1 DEF Risk, Kept
    <3>2. CASE r \notin Rotating
      <4>1. accepted[s] \subseteq accepted'[s] /\ accepted[s] # {}
        BY <2>1, <2>4, <3>2
      <4>2. \A d \in Call \ {c} : Carries(d, s) => Carries(d, s)'
        BY <1>3, <4>1 DEF Carries, At
      <4>. QED
        BY <1>3, <2>1, <4>1, <4>2 DEF Kept
    <3>. QED
      BY <3>1, <3>2
  <2>. QED
    BY <1>4, <2>2, <2>3, <2>4 DEF Grant
<1>5. CASE UNCHANGED <<accepted, risked>>
  BY <1>3, <1>5, KeptByCall
<1>. QED
  BY <1>1, <1>2, <1>4, <1>5 DEF Refresh, Replay, serverVars

LEMMA KeptByWrite ==
    ASSUME TypeOK, Shapes, RefusedStayRefused, NEW c \in Call, UpsertWrite(c) \/ RemoveWrite(c),
           NEW s \in Session, Kept(s)
    PROVE  Kept(s)'
<1>1. PICK r \in Session : r = call[c].session
  BY WriteEffect
<1>2. /\ call[c] # Idle /\ UNCHANGED accepted
      /\ \A d \in Call \ {c} : call'[d] = call[d]
      /\ \A t \in Session \ {r} : status'[t] = status[t]
      /\ \A t \in Session \ {r} : t \in risked' <=> t \in risked \/ stored'[t] # stored[t]
      /\ UpsertWrite(c) => stored'[r] = call[c].tokens
  BY <1>1, WriteEffect
<1>3. CASE s # r /\ stored'[s] # stored[s]
  BY <1>2, <1>3 DEF Kept
<1>4. CASE s # r /\ stored'[s] = stored[s]
  BY <1>1, <1>2, <1>4, KeptByCall, Carrying
<1>5. CASE s = r /\ UpsertWrite(c)
  <2>1. call[c].tokens \notin accepted[r] => r \in risked'
    BY <1>1, <1>5 DEF UpsertWrite, UpsertRisks
  <2>. QED
    BY <1>2, <1>5, <2>1 DEF Kept
<1>6. CASE s = r /\ RemoveWrite(c)
  <2>1. call[c] \in Busy /\ call[c].step = "removeWrite"
    BY <1>6, BusyCall DEF RemoveWrite, At, Steps
  <2>2. CASE call[c].op = "removeSession"
    <3>1. status'[r] # "in"
      BY <1>1, <1>6, <2>2 DEF RemoveWrite, RemoveStatus, SignedOut, TypeOK
    <3>. QED
      BY <1>6, <3>1 DEF Kept
  <2>3. CASE call[c].op = "getSessions" /\ stored[r] # call[c].tokens
    <3>1. r \in risked'
      BY <1>1, <1>6, <2>3 DEF RemoveWrite, RemoveRisks
    <3>. QED
      BY <1>6, <3>1 DEF Kept
  <2>4. CASE call[c].op = "getSessions" /\ stored[r] = call[c].tokens
    <3>1. stored[r] \notin accepted[r]
      BY <1>1, <1>2, <2>1, <2>4 DEF RefusedStayRefused, Dropping
    <3>2. status' = status /\ risked \subseteq risked'
      BY <1>6, <2>4 DEF RemoveWrite, RemoveStatus, RemoveRisks
    <3>3. \A d \in Call : Carries(d, s) => d # c
      BY <2>1, Carrying
    <3>4. \A d \in Call \ {c} : Carries(d, s) => Carries(d, s)'
      BY <1>2 DEF Carries, At
    <3>. QED
      BY <1>2, <1>6, <3>1, <3>2, <3>3, <3>4 DEF Kept
  <2>. QED
    BY <2>1, <2>2, <2>3, <2>4 DEF Shapes, Busy
<1>. QED
  BY <1>3, <1>4, <1>5, <1>6

LEMMA KeptStep ==
    ASSUME TypeOK, Shapes, RefusedStayRefused, KeepsAcceptedSessions, [Next]_vars
    PROVE  KeepsAcceptedSessions'
<1>. SUFFICES ASSUME NEW s \in Session PROVE Kept(s)'
  BY DEF KeepsAcceptedSessions, Kept
<1>0. Kept(s)
  BY DEF KeepsAcceptedSessions, Kept
<1>1. ASSUME NEW c \in Call, NEW t \in Session, SignIn(c, t) PROVE Kept(s)'
  <2>1. /\ call[c] = Idle /\ \A d \in Call \ {c} : call'[d] = call[d]
        /\ UNCHANGED <<stored, status, risked>>
    BY <1>1, StartEffect
  <2>2. CASE s = t
    <3>1. call'[c] = [op |-> "createSession", step |-> "upsertRead", all |-> {}, session |-> t,
                      tokens |-> issued[t] + 1, snapshot |-> Nothing]
      BY <1>1, OneCallChanges DEF SignIn
    <3>2. issued[t] + 1 \in accepted'[t]
      BY <1>1 DEF SignIn, TypeOK
    <3>3. Carries(c, s)'
      BY <2>2, <3>1, <3>2 DEF Carries, At, Idle
    <3>. QED
      BY <3>3 DEF Kept
  <2>3. CASE s # t
    <3>1. accepted'[s] = accepted[s]
      BY <1>1, <2>3 DEF SignIn, TypeOK
    <3>. QED
      BY <1>0, <2>1, <3>1, KeptByCall, Carrying
  <2>. QED
    BY <2>2, <2>3
<1>2. ASSUME NEW c \in Call, GetSessions(c) \/ \E t \in Session : SignOut(c, t) PROVE Kept(s)'
  <2>1. /\ call[c] = Idle /\ \A d \in Call \ {c} : call'[d] = call[d]
        /\ UNCHANGED <<stored, status, risked>>
    BY <1>2, StartEffect
  <2>2. UNCHANGED accepted
    BY <1>2 DEF GetSessions, SignOut, serverVars
  <2>. QED
    BY <1>0, <2>1, <2>2, KeptByCall, Carrying
<1>3. ASSUME NEW c \in Call, EnsureFresh(c) PROVE Kept(s)'
  <2>1. ~Carries(c, s)
    BY <1>3, Carrying DEF EnsureFresh, At
  <2>. QED
    BY <1>0, <1>3, <2>1, FreshEffect, KeptByCall DEF EnsureFresh, serverVars, historyVars
<1>4. ASSUME NEW c \in Call, Refresh(c) PROVE Kept(s)'
  BY <1>0, <1>4, KeptByRefresh
<1>5. ASSUME NEW c \in Call, UpsertRead(c) \/ RemoveRead(c) PROVE Kept(s)'
  <2>1. Carries(c, s) => Carries(c, s)'
    <3>. SUFFICES ASSUME Carries(c, s) PROVE Carries(c, s)'
      OBVIOUS
    <3>1. call[c].step # "removeRead"
      BY Carrying
    <3>2. /\ UpsertRead(c) /\ UNCHANGED accepted /\ call[c] \in Busy
          /\ call'[c].op = call[c].op /\ call'[c].session = call[c].session
          /\ call'[c].tokens = call[c].tokens /\ call'[c].step = "upsertWrite"
      BY <1>5, <3>1, ReadEffect DEF RemoveRead, At
    <3>3. call'[c] # Idle
      BY <3>2 DEF Busy, Idle
    <3>. QED
      BY <3>2, <3>3 DEF Carries, At
  <2>. QED
    BY <1>0, <1>5, <2>1, ReadEffect, KeptByCall
<1>6. ASSUME NEW c \in Call, UpsertWrite(c) \/ RemoveWrite(c) PROVE Kept(s)'
  BY <1>0, <1>6, KeptByWrite
<1>7. ASSUME NEW c \in Call, Crash(c) PROVE Kept(s)'
  <2>1. risked \subseteq risked' /\ (Carries(c, s) => s \in risked')
    BY <1>7 DEF Crash, Risk
  <2>. QED
    BY <1>0, <1>7, <2>1, CrashEffect, KeptByCall
<1>8. ASSUME NEW t \in Session, Expire(t) \/ EndReplays(t) \/ Revoke(t) PROVE Kept(s)'
  <2>1. UNCHANGED <<stored, status, risked, call>>
    BY <1>8 DEF Expire, EndReplays, Revoke, historyVars
  <2>2. accepted'[s] = accepted[s] \/ accepted'[s] = {}
    BY <1>8 DEF Expire, EndReplays, Revoke, TypeOK
  <2>3. accepted'[s] = accepted[s] => \A c \in Call : Carries(c, s) => Carries(c, s)'
    BY <2>1 DEF Carries, At
  <2>. QED
    BY <1>0, <2>1, <2>2, <2>3 DEF Kept
<1>9. CASE UNCHANGED vars
  BY <1>0, <1>9 DEF vars, serverVars, historyVars, Kept, Carries, At
<1>. QED
  BY <1>1, <1>2, <1>3, <1>4, <1>5, <1>6, <1>7, <1>8, <1>9 DEF Next, Proceed

-----------------------------------------------------------------------------
(* The theorems.                                                           *)

LEMMA InvariantInit == Init => IInv
<1>. SUFFICES ASSUME Init PROVE IInv
  OBVIOUS
<1>1. \A c \in Call : call[c] = Idle
  BY DEF Init
<1>2. \A n \in Token : n # NoTokens
  BY AuthAssumption DEF Token
<1>3. Shapes
  BY <1>1 DEF Shapes, Idle
<1>4. TokensIssued
  BY <1>1, <1>2 DEF Init, TokensIssued, Around, HeldBy, Nothing
<1>5. RefusedStayRefused
  BY <1>1 DEF RefusedStayRefused, Dropping
<1>6. OutIsOut
  BY <1>1 DEF Init, OutIsOut, Holds, Nothing
<1>7. KeepsAcceptedSessions
  BY DEF Init, KeepsAcceptedSessions
<1>. QED
  BY <1>3, <1>4, <1>5, <1>6, <1>7, TypesInit DEF IInv

LEMMA InvariantStep == IInv /\ [Next]_vars => IInv'
<1>. SUFFICES ASSUME IInv, [Next]_vars PROVE IInv'
  OBVIOUS
<1>1. TypeOK /\ Shapes /\ TokensIssued /\ RefusedStayRefused /\ OutIsOut /\ KeepsAcceptedSessions
  BY DEF IInv
<1>2. TypeOK'
  BY <1>1, TypesStep
<1>. QED
  BY <1>1, <1>2, ShapesStep, IssuedStep, RefusedStep, OutStep, KeptStep DEF IInv

LEMMA Invariant == Spec => []IInv
BY InvariantInit, InvariantStep, PTL DEF Spec

(* Signing out lasts unless a refresh of the session, or a write that has  *)
(* read it, was under way as it was written: whatever other calls overlap, *)
(* fail or crash.                                                          *)
THEOREM SigningOutLasts == Spec => []SignedOutStaysOut
<1>1. IInv => SignedOutStaysOut
  BY DEF IInv, OutIsOut, SignedOutStaysOut
<1>. QED
  BY <1>1, Invariant, PTL

(* A session the server accepts stays in the store with tokens that it     *)
(* accepts, or is on its way there, unless one of the events that          *)
(* KeepsAcceptedSessions names has hit it.                                 *)
THEOREM AcceptedSessionsStay == Spec => []KeepsAcceptedSessions
<1>1. IInv => KeepsAcceptedSessions
  BY DEF IInv
<1>. QED
  BY <1>1, Invariant, PTL
=============================================================================
