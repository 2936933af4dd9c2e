---------------------------- MODULE ServicesProofs ----------------------------
(***************************************************************************)
(* Theorems about the services, for any keys, requests, sign-ins, servers, *)
(* folders, moves and runs: of each service the safety property            *)
(* Services.cfg checks, from an invariant that says what it keeps between  *)
(* two steps.                                                              *)
(***************************************************************************)
EXTENDS KeySet, SignIn, Remote, Folders, Moves, Runs, TLAPS

-----------------------------------------------------------------------------
(* KeySet: what a set of keys lacks was published after its load began.    *)

CachedSet == [ids : SUBSET Kid, loadedAt : Nat]
Load == [started : Nat, read : BOOLEAN, ids : SUBSET Kid]
RequestState ==
    [kid : Kid \cup {NoKid}, asked : Nat, joined : Nat, status : {"idle", "waiting", "accepted", "refused", "failed"}]

KeyTypeOK ==
    /\ now \in Nat
    /\ rotatedAt \in [DOMAIN rotatedAt -> Nat] /\ DOMAIN rotatedAt \subseteq Kid
    /\ cached \in CachedSet \cup {None}
    /\ inFlight \in Load \cup {None}
    /\ request \in [Request -> RequestState]

(* A key that is not among these was published at the time t or later.     *)
MissesOnlyNewer(ids, t) == \A k \in DOMAIN rotatedAt \ ids : rotatedAt[k] >= t

KeysKnown ==
    /\ \A k \in DOMAIN rotatedAt : rotatedAt[k] <= now
    /\ \A r \in Request : request[r].asked <= now

(* A request that waits does so for the load under way. *)
WaitsForTheLoad ==
    \A r \in Request : request[r].status = "waiting" =>
        inFlight # None /\ request[r].joined = inFlight.started

CacheAge == cached # None => cached.loadedAt <= now /\ MissesOnlyNewer(cached.ids, cached.loadedAt)

LoadAge ==
    inFlight # None =>
        /\ inFlight.started <= now
        /\ inFlight.read => MissesOnlyNewer(inFlight.ids, inFlight.started)

KeyInv == KeyTypeOK /\ KeysKnown /\ WaitsForTheLoad /\ CacheAge /\ LoadAge /\ RotationIsSeen

LEMMA KeyInvInit == KeyInit => KeyInv
<1>. SUFFICES ASSUME KeyInit PROVE KeyInv
  OBVIOUS
<1>1. PICK k \in Kid : rotatedAt = [id \in {k} |-> 0]
  BY DEF KeyInit
<1>2. KeyTypeOK
  BY <1>1 DEF KeyInit, KeyTypeOK, RequestState
<1>. QED
  BY <1>1, <1>2 DEF KeyInit, KeyInv, KeysKnown, WaitsForTheLoad, CacheAge, LoadAge, RotationIsSeen

(* What a refused token was verified with lacks its key.                   *)
LEMMA RefusedLacksKey ==
    ASSUME NEW kid, kid # NoKid, NEW ids, Verify(kid, ids) = "refused"
    PROVE  kid \notin ids
BY DEF Verify

(* A load that is over leaves no request waiting, and gives each one that  *)
(* waited an answer.                                                       *)
LEMMA AllAreAnswered ==
    ASSUME KeyInv,
           NEW status \in [Kid \cup {NoKid} -> {"accepted", "refused", "failed"}],
           request' = [r \in Request |->
                          IF request[r].status = "waiting"
                          THEN [request[r] EXCEPT !.status = status[request[r].kid]]
                          ELSE request[r]]
    PROVE  /\ request' \in [Request -> RequestState]
           /\ \A r \in Request :
                /\ request'[r].kid = request[r].kid
                /\ request'[r].asked = request[r].asked
                /\ request'[r].joined = request[r].joined
                /\ request'[r].status =
                     IF request[r].status = "waiting" THEN status[request[r].kid] ELSE request[r].status
                /\ request'[r].status # "waiting"
<1>1. ASSUME NEW r \in Request
      PROVE  /\ request'[r] \in RequestState
             /\ request'[r].kid = request[r].kid
             /\ request'[r].asked = request[r].asked
             /\ request'[r].joined = request[r].joined
             /\ request'[r].status =
                  IF request[r].status = "waiting" THEN status[request[r].kid] ELSE request[r].status
             /\ request'[r].status # "waiting"
  <2>1. request[r] \in RequestState
    BY DEF KeyInv, KeyTypeOK
  <2>2. request[r].kid \in Kid \cup {NoKid}
    BY <2>1 DEF RequestState
  <2>3. PICK answer \in {"accepted", "refused", "failed"} : answer = status[request[r].kid]
    BY <2>2
  <2>. DEFINE answered == [request[r] EXCEPT !.status = answer]
  <2>4. /\ answered \in RequestState /\ answered.kid = request[r].kid /\ answered.asked = request[r].asked
        /\ answered.joined = request[r].joined /\ answered.status = answer
    BY <2>1 DEF RequestState
  <2>5. request'[r] = IF request[r].status = "waiting" THEN answered ELSE request[r]
    BY <2>3
  <2>. HIDE DEF answered
  <2>. QED
    BY <2>1, <2>3, <2>4, <2>5
<1>2. request' \in [Request -> RequestState]
  BY <1>1
<1>. QED
  BY <1>1, <1>2

LEMMA KeyTimes ==
    ASSUME KeyInv
    PROVE  /\ now \in Nat
           /\ \A k \in DOMAIN rotatedAt : rotatedAt[k] \in Nat
           /\ \A r \in Request : request[r].asked \in Nat /\ request[r].joined \in Nat
           /\ cached # None => cached.loadedAt \in Nat
           /\ inFlight # None => inFlight.started \in Nat
BY DEF KeyInv, KeyTypeOK, RequestState, CachedSet, Load

(* What a step does to the request that asks, and to no other. *)
LEMMA AskStep == ASSUME KeyInv, NEW r \in Request, Ask(r) PROVE KeyInv'
<1>1. PICK kid \in Kid \cup {NoKid} :
          LET answer(joined, status) ==
                  request' = [request EXCEPT ![r] = [kid |-> kid, asked |-> now, joined |-> joined, status |-> status]]
          IN  \/ ~NeedsLoad(kid) /\ answer(now, Verify(kid, cached.ids)) /\ UNCHANGED inFlight
              \/ /\ NeedsLoad(kid) /\ inFlight # None
                 /\ answer(inFlight.started, "waiting")
                 /\ UNCHANGED inFlight
              \/ /\ NeedsLoad(kid) /\ inFlight = None
                 /\ answer(now, "waiting")
                 /\ inFlight' = [started |-> now, read |-> FALSE, ids |-> {}]
  BY DEF Ask
<1>2. UNCHANGED <<now, rotatedAt, cached>>
  BY DEF Ask
<1>. DEFINE newLoad == [started |-> now, read |-> FALSE, ids |-> {}]
<1>3. newLoad \in Load /\ newLoad.started = now /\ ~newLoad.read /\ newLoad # None
  <2>1. newLoad \in Load /\ newLoad.started = now /\ ~newLoad.read
    BY KeyTimes DEF Load
  <2>. HIDE DEF newLoad
  <2>. QED
    BY <2>1, KeySetAssumption DEF Load
<1>4. PICK joined \in Nat, status \in {"waiting", "accepted", "refused"} :
          /\ request' = [request EXCEPT ![r] = [kid |-> kid, asked |-> now, joined |-> joined, status |-> status]]
          /\ status = "refused" => ~NeedsLoad(kid) /\ Verify(kid, cached.ids) = "refused"
          /\ \/ status # "waiting" /\ inFlight' = inFlight
             \/ status = "waiting" /\ inFlight # None /\ inFlight' = inFlight /\ joined = inFlight.started
             \/ status = "waiting" /\ inFlight = None /\ inFlight' = newLoad /\ joined = now
  <2>1. CASE ~NeedsLoad(kid) /\ inFlight' = inFlight /\
             request' = [request EXCEPT ![r] = [kid |-> kid, asked |-> now, joined |-> now, status |-> Verify(kid, cached.ids)]]
    <3>1. PICK status \in {"accepted", "refused"} : status = Verify(kid, cached.ids)
      BY DEF Verify
    <3>. QED
      BY <2>1, <3>1, KeyTimes
  <2>2. CASE inFlight # None /\ inFlight' = inFlight /\
             request' = [request EXCEPT ![r] = [kid |-> kid, asked |-> now, joined |-> inFlight.started, status |-> "waiting"]]
    <3>1. PICK joined \in Nat : joined = inFlight.started
      BY <2>2, KeyTimes
    <3>. QED
      BY <2>2, <3>1
  <2>3. CASE inFlight = None /\ inFlight' = newLoad /\
             request' = [request EXCEPT ![r] = [kid |-> kid, asked |-> now, joined |-> now, status |-> "waiting"]]
    BY <2>3, KeyTimes
  <2>. HIDE DEF newLoad
  <2>. QED
    <3>1. \/ ~NeedsLoad(kid) /\ inFlight' = inFlight /\
             request' = [request EXCEPT ![r] = [kid |-> kid, asked |-> now, joined |-> now, status |-> Verify(kid, cached.ids)]]
          \/ inFlight # None /\ inFlight' = inFlight /\
             request' = [request EXCEPT ![r] = [kid |-> kid, asked |-> now, joined |-> inFlight.started, status |-> "waiting"]]
          \/ inFlight = None /\ inFlight' = newLoad /\
             request' = [request EXCEPT ![r] = [kid |-> kid, asked |-> now, joined |-> now, status |-> "waiting"]]
      BY <1>1 DEF newLoad
    <3>. QED
      BY <2>1, <2>2, <2>3, <3>1
<1>. HIDE DEF newLoad
<1>5. /\ \A q \in Request \ {r} : request'[q] = request[q]
      /\ request'[r].kid = kid /\ request'[r].asked = now
      /\ request'[r].joined = joined /\ request'[r].status = status
  BY <1>4 DEF KeyInv, KeyTypeOK
<1>6. inFlight' \in {inFlight, newLoad}
  BY <1>4
<1>7. KeyTypeOK'
  <2>1. [kid |-> kid, asked |-> now, joined |-> joined, status |-> status] \in RequestState
    BY <1>1, <1>4, KeyTimes DEF RequestState
  <2>2. request' \in [Request -> RequestState]
    BY <1>4, <2>1 DEF KeyInv, KeyTypeOK
  <2>. QED
    BY <1>2, <1>3, <1>6, <2>2 DEF KeyInv, KeyTypeOK
<1>8. KeysKnown' /\ CacheAge'
  BY <1>2, <1>5, KeyTimes DEF KeyInv, KeysKnown, CacheAge, MissesOnlyNewer
<1>9. WaitsForTheLoad'
  <2>1. ASSUME NEW q \in Request, request'[q].status = "waiting"
        PROVE  inFlight' # None /\ request'[q].joined = inFlight'.started
    <3>1. CASE q = r
      BY <1>3, <1>4, <1>5, <2>1, <3>1
    <3>2. CASE q # r
      <4>1. request'[q] = request[q] /\ inFlight # None /\ request[q].joined = inFlight.started
        BY <1>5, <2>1, <3>2 DEF KeyInv, WaitsForTheLoad
      <4>. QED
        BY <1>4, <4>1
    <3>. QED
      BY <3>1, <3>2
  <2>. QED
    BY <2>1 DEF WaitsForTheLoad
<1>10. LoadAge'
  <2>1. CASE inFlight' = inFlight
    BY <1>2, <2>1 DEF KeyInv, LoadAge, MissesOnlyNewer
  <2>2. CASE inFlight' = newLoad
    BY <1>2, <1>3, <2>2, KeyTimes DEF LoadAge
  <2>. QED
    BY <1>6, <2>1, <2>2
<1>11. RotationIsSeen'
  <2>1. ASSUME status = "refused", kid \in DOMAIN rotatedAt PROVE now - rotatedAt[kid] < RELOAD_INTERVAL
    <3>1. kid \in Kid /\ kid # NoKid
      BY <2>1, KeySetAssumption DEF KeyInv, KeyTypeOK
    <3>2. cached # None /\ kid \notin cached.ids
      BY <1>4, <2>1, <3>1, RefusedLacksKey DEF NeedsLoad
    <3>3. now - cached.loadedAt < RELOAD_INTERVAL
      BY <1>4, <2>1, <3>1, <3>2, KeyTimes, KeySetAssumption DEF NeedsLoad
    <3>4. rotatedAt[kid] >= cached.loadedAt
      BY <2>1, <3>2 DEF KeyInv, CacheAge, MissesOnlyNewer
    <3>. QED
      BY <2>1, <3>2, <3>3, <3>4, KeyTimes, KeySetAssumption
  <2>. QED
    BY <1>2, <1>5, <2>1 DEF KeyInv, RotationIsSeen
<1>. QED
  BY <1>7, <1>8, <1>9, <1>10, <1>11 DEF KeyInv

LEMMA SettleStep == ASSUME KeyInv, Settle PROVE KeyInv'
<1>1. inFlight # None /\ inFlight.read /\ inFlight' = None /\ UNCHANGED <<now, rotatedAt>>
  BY DEF Settle
<1>2. inFlight \in Load /\ inFlight.started \in Nat /\ inFlight.ids \in SUBSET Kid
  BY <1>1 DEF Load, KeyInv, KeyTypeOK
<1>3. cached' \in CachedSet /\ cached'.ids = inFlight.ids /\ cached'.loadedAt = inFlight.started
  BY <1>2 DEF Settle, CachedSet
<1>. DEFINE answer == [kid \in Kid \cup {NoKid} |-> Verify(kid, inFlight.ids)]
<1>4. request' = [r \in Request |->
                     IF request[r].status = "waiting"
                     THEN [request[r] EXCEPT !.status = answer[request[r].kid]]
                     ELSE request[r]]
  <2>1. \A r \in Request : request[r].kid \in Kid \cup {NoKid}
    BY DEF KeyInv, KeyTypeOK, RequestState
  <2>. QED
    BY <2>1 DEF Settle, AnswerAll
<1>5. /\ answer \in [Kid \cup {NoKid} -> {"accepted", "refused", "failed"}]
      /\ \A r \in Request : answer[request[r].kid] = Verify(request[r].kid, inFlight.ids)
  BY DEF Verify, KeyInv, KeyTypeOK, RequestState
<1>. HIDE DEF answer
<1>6. /\ request' \in [Request -> RequestState]
      /\ \A r \in Request :
            /\ request'[r].kid = request[r].kid
            /\ request'[r].asked = request[r].asked
            /\ request'[r].joined = request[r].joined
            /\ request'[r].status =
                 IF request[r].status = "waiting" THEN Verify(request[r].kid, inFlight.ids) ELSE request[r].status
            /\ request'[r].status # "waiting"
  <2>1. /\ request' \in [Request -> RequestState]
        /\ \A r \in Request :
              /\ request'[r].kid = request[r].kid
              /\ request'[r].asked = request[r].asked
              /\ request'[r].joined = request[r].joined
              /\ request'[r].status =
                   IF request[r].status = "waiting" THEN answer[request[r].kid] ELSE request[r].status
              /\ request'[r].status # "waiting"
    BY <1>4, <1>5, AllAreAnswered
  <2>. QED
    BY <1>5, <2>1
<1>7. KeyTypeOK'
  BY <1>1, <1>3, <1>6 DEF KeyInv, KeyTypeOK
<1>8. KeysKnown'
  BY <1>1, <1>6 DEF KeyInv, KeysKnown
<1>9. WaitsForTheLoad' /\ LoadAge'
  BY <1>1, <1>6 DEF WaitsForTheLoad, LoadAge
<1>10. CacheAge'
  BY <1>1, <1>3 DEF KeyInv, CacheAge, LoadAge, MissesOnlyNewer
<1>11. RotationIsSeen'
  <2>1. ASSUME NEW r \in Request, request'[r].status = "refused", request[r].kid \in DOMAIN rotatedAt
        PROVE  \/ request[r].asked - rotatedAt[request[r].kid] < RELOAD_INTERVAL
               \/ /\ request[r].asked - request[r].joined >= RELOAD_INTERVAL
                  /\ rotatedAt[request[r].kid] >= request[r].joined
    <3>1. CASE request[r].status = "waiting"
      <4>1. PICK kid \in DOMAIN rotatedAt : kid = request[r].kid
        BY <2>1
      <4>2. kid \notin inFlight.ids
        <5>1. kid # NoKid /\ Verify(kid, inFlight.ids) = "refused"
          BY <1>6, <2>1, <3>1, <4>1, KeySetAssumption DEF KeyInv, KeyTypeOK
        <5>. QED
          BY <5>1, RefusedLacksKey
      <4>3. rotatedAt[kid] >= inFlight.started
        BY <1>1, <4>2 DEF KeyInv, LoadAge, MissesOnlyNewer
      <4>4. request[r].joined = inFlight.started
        BY <3>1 DEF KeyInv, WaitsForTheLoad
      <4>. QED
        BY <1>2, <4>1, <4>3, <4>4, KeyTimes, KeySetAssumption
    <3>2. CASE request[r].status # "waiting"
      BY <1>6, <2>1, <3>2 DEF KeyInv, RotationIsSeen
    <3>. QED
      BY <3>1, <3>2
  <2>. QED
    BY <1>1, <1>6, <2>1 DEF RotationIsSeen
<1>. QED
  BY <1>7, <1>8, <1>9, <1>10, <1>11 DEF KeyInv

LEMMA FailLoadStep == ASSUME KeyInv, FailLoad PROVE KeyInv'
<1>1. inFlight' = None /\ UNCHANGED <<now, rotatedAt, cached>>
  BY DEF FailLoad
<1>. DEFINE answer == [kid \in Kid \cup {NoKid} |-> "failed"]
<1>2. request' = [r \in Request |->
                     IF request[r].status = "waiting"
                     THEN [request[r] EXCEPT !.status = answer[request[r].kid]]
                     ELSE request[r]]
  <2>1. \A r \in Request : request[r].kid \in Kid \cup {NoKid}
    BY DEF KeyInv, KeyTypeOK, RequestState
  <2>. QED
    BY <2>1 DEF FailLoad, AnswerAll
<1>3. /\ answer \in [Kid \cup {NoKid} -> {"accepted", "refused", "failed"}]
      /\ \A r \in Request : answer[request[r].kid] = "failed"
  BY DEF KeyInv, KeyTypeOK, RequestState
<1>. HIDE DEF answer
<1>4. /\ request' \in [Request -> RequestState]
      /\ \A r \in Request :
            /\ request'[r].kid = request[r].kid
            /\ request'[r].asked = request[r].asked
            /\ request'[r].joined = request[r].joined
            /\ request'[r].status = IF request[r].status = "waiting" THEN "failed" ELSE request[r].status
            /\ request'[r].status # "waiting"
  <2>1. /\ request' \in [Request -> RequestState]
        /\ \A r \in Request :
              /\ request'[r].kid = request[r].kid
              /\ request'[r].asked = request[r].asked
              /\ request'[r].joined = request[r].joined
              /\ request'[r].status =
                   IF request[r].status = "waiting" THEN answer[request[r].kid] ELSE request[r].status
              /\ request'[r].status # "waiting"
    BY <1>2, <1>3, AllAreAnswered
  <2>. QED
    BY <1>3, <2>1
<1>5. KeyTypeOK'
  BY <1>1, <1>4 DEF KeyInv, KeyTypeOK
<1>6. KeysKnown' /\ CacheAge'
  BY <1>1, <1>4 DEF KeyInv, KeysKnown, CacheAge, MissesOnlyNewer
<1>7. WaitsForTheLoad' /\ LoadAge'
  BY <1>1, <1>4 DEF WaitsForTheLoad, LoadAge
<1>8. RotationIsSeen'
  <2>1. \A r \in Request : request'[r].status = "refused" => request[r].status = "refused"
    BY <1>4
  <2>. QED
    BY <1>1, <1>4, <2>1 DEF KeyInv, RotationIsSeen
<1>. QED
  BY <1>5, <1>6, <1>7, <1>8 DEF KeyInv

LEMMA RotateStep == ASSUME KeyInv, Rotate PROVE KeyInv'
<1>1. PICK k \in Kid \ DOMAIN rotatedAt :
          rotatedAt' = [id \in DOMAIN rotatedAt \cup {k} |-> IF id = k THEN now ELSE rotatedAt[id]]
  BY DEF Rotate
<1>2. UNCHANGED <<now, cached, inFlight, request>>
  BY DEF Rotate
<1>3. /\ DOMAIN rotatedAt' = DOMAIN rotatedAt \cup {k}
      /\ rotatedAt'[k] = now
      /\ \A id \in DOMAIN rotatedAt : rotatedAt'[id] = rotatedAt[id]
  BY <1>1
<1>4. KeyTypeOK'
  BY <1>1, <1>2 DEF KeyInv, KeyTypeOK
<1>5. KeysKnown'
  BY <1>2, <1>3, KeyTimes DEF KeyInv, KeysKnown
<1>6. CacheAge' /\ LoadAge'
  BY <1>2, <1>3, KeyTimes DEF KeyInv, CacheAge, LoadAge, MissesOnlyNewer
<1>7. WaitsForTheLoad'
  BY <1>2 DEF KeyInv, WaitsForTheLoad
<1>8. RotationIsSeen'
  <2>1. ASSUME NEW r \in Request, request[r].kid = k PROVE request[r].asked - now < RELOAD_INTERVAL
    BY KeyTimes, KeySetAssumption DEF KeyInv, KeysKnown
  <2>. QED
    BY <1>2, <1>3, <2>1 DEF KeyInv, RotationIsSeen
<1>. QED
  BY <1>4, <1>5, <1>6, <1>7, <1>8 DEF KeyInv

LEMMA TickStep == ASSUME KeyInv, Tick PROVE KeyInv'
<1>1. now \in Nat /\ now' = now + 1 /\ UNCHANGED <<rotatedAt, cached, inFlight, request>>
  BY KeyTimes DEF Tick
<1>2. KeyTypeOK'
  BY <1>1 DEF KeyInv, KeyTypeOK
<1>3. KeysKnown'
  BY <1>1, KeyTimes DEF KeyInv, KeysKnown
<1>4. CacheAge' /\ LoadAge'
  BY <1>1, KeyTimes DEF KeyInv, CacheAge, LoadAge, MissesOnlyNewer
<1>5. WaitsForTheLoad' /\ RotationIsSeen'
  BY <1>1 DEF KeyInv, WaitsForTheLoad, RotationIsSeen
<1>. QED
  BY <1>2, <1>3, <1>4, <1>5 DEF KeyInv

LEMMA KeyInvStep == ASSUME KeyInv, [KeyNext]_keyVars PROVE KeyInv'
<1>1. ASSUME ReadKeys PROVE KeyInv'
  <2>1. inFlight \in Load /\ inFlight' = [inFlight EXCEPT !.read = TRUE, !.ids = DOMAIN rotatedAt]
    BY <1>1 DEF ReadKeys, KeyInv, KeyTypeOK
  <2>2. inFlight' \in Load /\ inFlight'.started = inFlight.started /\ inFlight'.ids = DOMAIN rotatedAt
    BY <2>1 DEF Load, KeyInv, KeyTypeOK
  <2>3. UNCHANGED <<now, rotatedAt, cached, request>> /\ inFlight # None /\ inFlight' # None
    BY <1>1, <2>2, KeySetAssumption DEF ReadKeys, Load
  <2>4. KeyTypeOK' /\ KeysKnown' /\ CacheAge'
    BY <2>2, <2>3 DEF KeyInv, KeyTypeOK, KeysKnown, CacheAge, MissesOnlyNewer
  <2>5. WaitsForTheLoad'
    BY <2>2, <2>3 DEF KeyInv, WaitsForTheLoad
  <2>6. LoadAge'
    BY <2>2, <2>3 DEF KeyInv, LoadAge, MissesOnlyNewer
  <2>7. RotationIsSeen'
    BY <2>3 DEF KeyInv, RotationIsSeen
  <2>. QED
    BY <2>4, <2>5, <2>6, <2>7 DEF KeyInv
<1>2. CASE UNCHANGED keyVars
  BY <1>2 DEF keyVars, KeyInv, KeyTypeOK, KeysKnown, WaitsForTheLoad, CacheAge, LoadAge, MissesOnlyNewer, RotationIsSeen
<1>. QED
  BY <1>1, <1>2, AskStep, SettleStep, FailLoadStep, RotateStep, TickStep DEF KeyNext

(* A key published RELOAD_INTERVAL before a request is never the reason to *)
(* refuse it, whatever keys other tokens name, for any requests that share *)
(* loads and loads of any length, unless the request joined a load that    *)
(* was RELOAD_INTERVAL old (jwks.ts 28).                                   *)
THEOREM RotationPropagates == KeySpec => []RotationIsSeen
<1>1. KeyInv => RotationIsSeen
  BY DEF KeyInv
<1>. QED
  BY <1>1, KeyInvInit, KeyInvStep, PTL DEF KeySpec

-----------------------------------------------------------------------------
(* SignIn: a promise is kept until the flow has what it waited for.        *)

Own(f) == [state : {f}, answer : Answer]

Phase ==
    {"idle", "describing", "opening", "waiting", "exchanging", "asking", "signedIn", "failed"}

FlowState ==
    [phase : Phase, wait : {"none", "pending", "resolved", "rejected"},
     took : [state : Flow, answer : Answer] \cup {None}, cancelled : BOOLEAN,
     failure : {"no server", "server", "browser", "gave up", "refused", None}]

SignInTypeOK ==
    /\ flow \in [Flow -> FlowState]
    /\ pending \in SUBSET Flow
    /\ redirects \in SUBSET [state : Flow, answer : Answer]

TookItsOwn(f) ==
    /\ flow[f].phase \in {"idle", "describing"} => flow[f].wait = "none"
    /\ flow[f].took \in Own(f) \cup {None}
    /\ flow[f].wait = "resolved" => flow[f].took \in Own(f)
    /\ flow[f].phase \in {"exchanging", "asking", "signedIn"} =>
          flow[f].wait = "resolved" /\ flow[f].took = [state |-> f, answer |-> "code"]
    /\ flow[f].failure = "refused" =>
          /\ flow[f].phase = "failed"
          /\ flow[f].wait = "resolved" /\ flow[f].took # [state |-> f, answer |-> "code"]

PromisesWait == \A f \in Flow : f \in pending <=> flow[f].wait = "pending"

SignInInv == SignInTypeOK /\ PromisesWait /\ \A f \in Flow : TookItsOwn(f)

LEMMA SignInInvInit == SignInInit => SignInInv
BY SignInAssumption DEF SignInInit, SignInInv, SignInTypeOK, PromisesWait, TookItsOwn, FlowState, Phase

(* A step of one flow, which leaves the redirects or adds to them.         *)
LEMMA FlowStep ==
    ASSUME SignInInv, NEW f \in Flow, NEW r \in FlowState, flow' = [flow EXCEPT ![f] = r],
           TookItsOwn(f)',
           pending' \in SUBSET Flow,
           \A g \in Flow \ {f} : g \in pending' <=> g \in pending,
           f \in pending' <=> r.wait = "pending",
           redirects' \in SUBSET [state : Flow, answer : Answer]
    PROVE  SignInInv'
<1>1. flow'[f] = r /\ \A g \in Flow \ {f} : flow'[g] = flow[g]
  BY DEF SignInInv, SignInTypeOK
<1>2. SignInTypeOK'
  BY DEF SignInInv, SignInTypeOK
<1>3. PromisesWait'
  BY <1>1 DEF SignInInv, PromisesWait
<1>4. \A g \in Flow \ {f} : TookItsOwn(g)'
  BY <1>1 DEF SignInInv, TookItsOwn
<1>. QED
  BY <1>2, <1>3, <1>4 DEF SignInInv

(* A step to another phase, or to the failure of the flow.                 *)
LEMMA PhaseStep ==
    ASSUME SignInInv, NEW f \in Flow, UNCHANGED <<pending, redirects>>, flow[f].failure # "refused",
           \/ \E phase \in {"describing", "opening", "waiting", "exchanging", "asking", "signedIn"} :
                 /\ Becomes(f, phase)
                 /\ phase = "describing" => flow[f].wait = "none"
                 /\ phase \in {"exchanging", "asking", "signedIn"} =>
                       flow[f].wait = "resolved" /\ flow[f].took = [state |-> f, answer |-> "code"]
           \/ \E failure \in {"no server", "server", "browser", "gave up", "refused"} :
                 /\ Fails(f, failure)
                 /\ failure = "refused" =>
                       flow[f].wait = "resolved" /\ flow[f].took # [state |-> f, answer |-> "code"]
    PROVE  SignInInv'
<1>1. flow[f] \in FlowState /\ TookItsOwn(f) /\ flow[f].failure # "refused"
  BY DEF SignInInv, SignInTypeOK
<1>2. ASSUME NEW phase \in {"describing", "opening", "waiting", "exchanging", "asking", "signedIn"},
             Becomes(f, phase),
             phase = "describing" => flow[f].wait = "none",
             phase \in {"exchanging", "asking", "signedIn"} =>
                flow[f].wait = "resolved" /\ flow[f].took = [state |-> f, answer |-> "code"]
      PROVE  SignInInv'
  <2>. DEFINE r == [flow[f] EXCEPT !.phase = phase]
  <2>1. /\ r \in FlowState /\ r.phase = phase /\ r.wait = flow[f].wait
        /\ r.took = flow[f].took /\ r.failure = flow[f].failure
    BY <1>1 DEF FlowState, Phase
  <2>2. flow' = [flow EXCEPT ![f] = r]
    BY <1>2 DEF Becomes
  <2>. HIDE DEF r
  <2>3. flow'[f] = r
    BY <2>2 DEF SignInInv, SignInTypeOK
  <2>4. TookItsOwn(f)'
    BY <1>1, <1>2, <2>1, <2>3 DEF TookItsOwn
  <2>. QED
    BY <2>1, <2>2, <2>4, FlowStep DEF SignInInv, SignInTypeOK, PromisesWait
<1>3. ASSUME NEW failure \in {"no server", "server", "browser", "gave up", "refused"},
             Fails(f, failure),
             failure = "refused" =>
                flow[f].wait = "resolved" /\ flow[f].took # [state |-> f, answer |-> "code"]
      PROVE  SignInInv'
  <2>. DEFINE r == [flow[f] EXCEPT !.phase = "failed", !.failure = failure]
  <2>1. /\ r \in FlowState /\ r.phase = "failed" /\ r.wait = flow[f].wait
        /\ r.took = flow[f].took /\ r.failure = failure
    BY <1>1 DEF FlowState, Phase
  <2>2. flow' = [flow EXCEPT ![f] = r]
    BY <1>3 DEF Fails
  <2>. HIDE DEF r
  <2>3. flow'[f] = r
    BY <2>2 DEF SignInInv, SignInTypeOK
  <2>4. TookItsOwn(f)'
    BY <1>1, <1>3, <2>1, <2>3 DEF TookItsOwn
  <2>. QED
    BY <2>1, <2>2, <2>4, FlowStep DEF SignInInv, SignInTypeOK, PromisesWait
<1>. QED
  BY <1>2, <1>3

LEMMA SignInInvStep == ASSUME SignInInv, [SignInNext]_signInVars PROVE SignInInv'
<1>1. ASSUME NEW f \in Flow, flow[f].phase # "failed" PROVE flow[f].failure # "refused"
  BY <1>1 DEF SignInInv, TookItsOwn
<1>2. ASSUME NEW f \in Flow, StartFlow(f) PROVE SignInInv'
  BY <1>1, <1>2, PhaseStep DEF StartFlow, SignInInv, TookItsOwn
<1>3. ASSUME NEW f \in Flow, Describe(f) PROVE SignInInv'
  <2>1. CASE Fails(f, "server") /\ UNCHANGED pending
    BY <1>1, <1>3, <2>1, PhaseStep DEF Describe
  <2>2. CASE /\ flow' = [flow EXCEPT ![f].phase = "opening", ![f].wait = "pending"]
             /\ pending' = pending \cup {f}
    <3>1. flow[f] \in FlowState /\ TookItsOwn(f) /\ flow[f].failure # "refused"
      BY <1>1, <1>3 DEF SignInInv, SignInTypeOK, Describe
    <3>. DEFINE r == [flow[f] EXCEPT !.phase = "opening", !.wait = "pending"]
    <3>2. r \in FlowState /\ r.phase = "opening" /\ r.wait = "pending" /\ r.took = flow[f].took /\ r.failure = flow[f].failure
      BY <3>1 DEF FlowState, Phase
    <3>3. flow' = [flow EXCEPT ![f] = r]
      BY <2>2
    <3>. HIDE DEF r
    <3>4. flow'[f] = r
      BY <3>3 DEF SignInInv, SignInTypeOK
    <3>5. TookItsOwn(f)'
      BY <3>1, <3>2, <3>4 DEF TookItsOwn
    <3>. QED
      BY <1>3, <2>2, <3>2, <3>3, <3>5, FlowStep DEF Describe, SignInInv, SignInTypeOK
  <2>. QED
    BY <1>3, <2>1, <2>2 DEF Describe
<1>4. ASSUME NEW f \in Flow, Open(f) PROVE SignInInv'
  BY <1>1, <1>4, PhaseStep DEF Open
<1>5. ASSUME NEW f \in Flow, Redirect(f) PROVE SignInInv'
  BY <1>5 DEF Redirect, SignInInv, SignInTypeOK, PromisesWait, TookItsOwn
<1>6. ASSUME HandleUri PROVE SignInInv'
  <2>1. PICK a \in redirects :
            /\ a.state \in pending /\ pending' = pending \ {a.state}
            /\ flow' = [flow EXCEPT ![a.state].wait = "resolved", ![a.state].took = a]
    BY <1>6 DEF HandleUri
  <2>2. PICK f \in Flow : f = a.state
    BY <2>1 DEF SignInInv, SignInTypeOK
  <2>3. a \in [state : Flow, answer : Answer] /\ a \in Own(f)
    BY <2>2 DEF SignInInv, SignInTypeOK, Own
  <2>4. flow[f] \in FlowState /\ TookItsOwn(f) /\ flow[f].wait = "pending"
    BY <2>1, <2>2 DEF SignInInv, SignInTypeOK, PromisesWait
  <2>. DEFINE r == [flow[f] EXCEPT !.wait = "resolved", !.took = a]
  <2>5. /\ r \in FlowState /\ r.wait = "resolved" /\ r.took = a
        /\ r.phase = flow[f].phase /\ r.failure = flow[f].failure
    BY <2>3, <2>4 DEF FlowState
  <2>6. flow' = [flow EXCEPT ![f] = r]
    BY <2>1, <2>2
  <2>. HIDE DEF r
  <2>7. flow'[f] = r
    BY <2>6 DEF SignInInv, SignInTypeOK
  <2>8. TookItsOwn(f)'
    BY <2>3, <2>4, <2>5, <2>7 DEF TookItsOwn
  <2>. QED
    BY <1>6, <2>1, <2>2, <2>5, <2>6, <2>8, FlowStep DEF HandleUri, SignInInv, SignInTypeOK
<1>7. ASSUME NEW f \in Flow, Reject(f) PROVE SignInInv'
  <2>1. flow[f] \in FlowState /\ TookItsOwn(f) /\ flow[f].wait = "pending"
    BY <1>7 DEF Reject, SignInInv, SignInTypeOK, PromisesWait
  <2>. DEFINE r == [flow[f] EXCEPT !.wait = "rejected"]
  <2>2. /\ r \in FlowState /\ r.wait = "rejected" /\ r.took = flow[f].took
        /\ r.phase = flow[f].phase /\ r.failure = flow[f].failure
    BY <2>1 DEF FlowState
  <2>3. flow' = [flow EXCEPT ![f] = r]
    BY <1>7 DEF Reject
  <2>. HIDE DEF r
  <2>4. flow'[f] = r
    BY <2>3 DEF SignInInv, SignInTypeOK
  <2>5. TookItsOwn(f)'
    BY <2>1, <2>2, <2>4 DEF TookItsOwn
  <2>. QED
    BY <1>7, <2>2, <2>3, <2>5, FlowStep DEF Reject, SignInInv, SignInTypeOK
<1>8. ASSUME NEW f \in Flow, Cancel(f) PROVE SignInInv'
  <2>1. flow[f] \in FlowState /\ TookItsOwn(f) /\ (f \in pending <=> flow[f].wait = "pending")
    BY DEF SignInInv, SignInTypeOK, PromisesWait
  <2>. DEFINE r == [flow[f] EXCEPT !.cancelled = TRUE, !.wait = IF @ = "pending" THEN "rejected" ELSE @]
  <2>2. /\ r \in FlowState /\ r.took = flow[f].took
        /\ r.wait = IF flow[f].wait = "pending" THEN "rejected" ELSE flow[f].wait
        /\ r.phase = flow[f].phase /\ r.failure = flow[f].failure
    BY <2>1 DEF FlowState
  <2>3. flow' = [flow EXCEPT ![f] = r]
    BY <1>8 DEF Cancel
  <2>. HIDE DEF r
  <2>4. flow'[f] = r
    BY <2>3 DEF SignInInv, SignInTypeOK
  <2>5. TookItsOwn(f)'
    BY <2>1, <2>2, <2>4 DEF TookItsOwn
  <2>. QED
    BY <1>8, <2>2, <2>3, <2>5, FlowStep DEF Cancel, SignInInv, SignInTypeOK
<1>9. ASSUME NEW f \in Flow, Resume(f) PROVE SignInInv'
  BY <1>1, <1>9, PhaseStep DEF Resume
<1>10. ASSUME NEW f \in Flow, Exchange(f) \/ Me(f) PROVE SignInInv'
  BY <1>1, <1>10, PhaseStep DEF Exchange, Me, SignInInv, TookItsOwn
<1>11. CASE UNCHANGED signInVars
  BY <1>11 DEF signInVars, SignInInv, SignInTypeOK, PromisesWait, TookItsOwn
<1>. QED
  BY <1>2, <1>3, <1>4, <1>5, <1>6, <1>7, <1>8, <1>9, <1>10, <1>11 DEF SignInNext, TimeOut, CancelledBefore

(* However many sign-ins overlap, each takes its own redirect or none, and *)
(* signs in only with its own code (callbackRouter.ts 22-59).              *)
THEOREM RedirectsReachTheirFlow == SignInSpec => []CallbacksReachTheirFlow
<1>1. SignInInv => CallbacksReachTheirFlow
  <2>. SUFFICES ASSUME SignInInv PROVE CallbacksReachTheirFlow
    OBVIOUS
  <2>1. pending = {f \in Flow : flow[f].wait = "pending"}
    BY DEF SignInInv, SignInTypeOK, PromisesWait
  <2>2. ASSUME NEW f \in Flow, flow[f].took # None PROVE flow[f].took.state = f
    BY <2>2 DEF SignInInv, TookItsOwn, Own
  <2>3. ASSUME NEW f \in Flow, flow[f].failure = "refused" PROVE flow[f].took.answer # "code"
    BY <2>3 DEF SignInInv, TookItsOwn, Own
  <2>4. ASSUME NEW f \in Flow, flow[f].phase = "signedIn" PROVE flow[f].took = [state |-> f, answer |-> "code"]
    BY <2>4 DEF SignInInv, TookItsOwn
  <2>. QED
    BY <2>1, <2>2, <2>3, <2>4 DEF CallbacksReachTheirFlow
<1>. QED
  BY <1>1, SignInInvInit, SignInInvStep, PTL DEF SignInSpec

-----------------------------------------------------------------------------
(* Remote: what is mounted was picked on the server it is mounted of, and  *)
(* the refresh that began last is about the server that is configured.     *)

RemoteState == [server : Server \cup {None}, signedIn : BOOLEAN, vaults : SUBSET VaultId]
CallState ==
    [op : {"refresh", "selectVaults"}, step : {"session", "vaults", "picking"},
     server : Server, offered : SUBSET VaultId] \cup {NoCall}

RemoteTypeOK ==
    /\ configured \in Server \cup {None}
    /\ shown \in RemoteState
    /\ remoteCall \in [RemoteCall -> CallState]
    /\ picked \in [Server -> SUBSET VaultId]
    /\ newest \in RemoteCall \cup {None}

MountedArePicked == \A key \in mountedKeys : key[1] \in Server => key[2] \in picked[key[1]]

(* What has changed since a refresh began would have begun another.        *)
NewestIsCurrent ==
    newest # None =>
        /\ remoteCall[newest].step \in {"session", "vaults"}
        /\ remoteCall[newest].server = configured
        /\ remoteCall[newest].step = "vaults" => configured \in sessions

RemoteInv == RemoteTypeOK /\ MountedArePicked /\ NewestIsCurrent /\ ShowsTheSession

LEMMA RemoteInvInit == RemoteInit => RemoteInv
BY DEF RemoteInit, RemoteInv, RemoteTypeOK, MountedArePicked, NewestIsCurrent, ShowsTheSession, RemoteState,
       CallState, NoCall, Nothing

LEMMA NothingShown == \A url \in Server \cup {None} : Nothing(url) \in RemoteState
BY DEF Nothing, RemoteState

(* The end of a refresh shows the state of a server. *)
LEMMA StateSet ==
    ASSUME RemoteInv, NEW c \in RemoteCall, NEW state \in RemoteState, SetState(c, state),
           remoteCall[c] # NoCall, state.server \in Server,
           state.server = remoteCall[c].server,
           state.signedIn => remoteCall[c].step = "vaults"
    PROVE  RemoteInv'
<1>1. remoteCall[c] \in CallState \ {NoCall}
  BY DEF RemoteInv, RemoteTypeOK
<1>2. remoteCall[c].op \in {"refresh", "selectVaults"}
  BY <1>1 DEF CallState
<1>3. After(remoteCall[c].op, state) \in CallState
  BY <1>2 DEF After, CallState, RemoteState
<1>4. /\ shown' = state /\ UNCHANGED <<configured, sessions, mountedKeys, picked>>
      /\ remoteCall' = [remoteCall EXCEPT ![c] = After(remoteCall[c].op, state)]
      /\ newest' = (IF c = newest THEN None ELSE newest) /\ current' = (c = newest)
  BY DEF SetState
<1>5. RemoteTypeOK' /\ MountedArePicked'
  BY <1>3, <1>4 DEF RemoteInv, RemoteTypeOK, MountedArePicked
<1>6. NewestIsCurrent'
  <2>1. ASSUME newest' # None PROVE newest' = newest /\ newest # c /\ remoteCall'[newest] = remoteCall[newest]
    BY <1>4, <2>1 DEF RemoteInv, RemoteTypeOK
  <2>. QED
    BY <1>4, <2>1 DEF RemoteInv, NewestIsCurrent
<1>7. ShowsTheSession'
  <2>1. ASSUME c = newest PROVE state.server = configured /\ (state.signedIn => configured \in sessions)
    BY <2>1, RemoteAssumption DEF RemoteInv, NewestIsCurrent
  <2>. QED
    BY <1>4, <2>1 DEF ShowsTheSession
<1>. QED
  BY <1>5, <1>6, <1>7 DEF RemoteInv

(* What starts a refresh changes nothing that is mounted.                  *)
LEMMA RefreshStarts ==
    ASSUME RemoteInv, NEW c \in RemoteCall, NEW op \in {"refresh", "selectVaults"}, NEW url \in Server \cup {None},
           Refreshing(c, op, url), configured' = url, UNCHANGED <<mountedKeys, picked>>
    PROVE  RemoteInv'
<1>1. CASE url = None
  BY <1>1, NothingShown DEF Refreshing, RemoteInv, RemoteTypeOK, MountedArePicked, NewestIsCurrent, ShowsTheSession,
                            Nothing
<1>2. CASE url # None
  <2>1. [op |-> op, step |-> "session", server |-> url, offered |-> {}] \in CallState
    BY <1>2 DEF CallState
  <2>. QED
    BY <1>2, <2>1 DEF Refreshing, RemoteInv, RemoteTypeOK, MountedArePicked, NewestIsCurrent, ShowsTheSession
<1>. QED
  BY <1>1, <1>2

LEMMA RemoteInvStep == ASSUME RemoteInv, [RemoteNext]_remoteVars PROVE RemoteInv'
<1>1. ASSUME NEW c \in RemoteCall, remoteCall[c].step \in {"session", "vaults", "picking"}
      PROVE  /\ remoteCall[c] \in CallState /\ remoteCall[c] # NoCall
             /\ remoteCall[c].server \in Server /\ remoteCall[c].offered \in SUBSET VaultId
  BY <1>1 DEF RemoteInv, RemoteTypeOK, CallState, NoCall
<1>2. ASSUME NEW c \in RemoteCall, NEW op \in {"refresh", "selectVaults"}, StartRefresh(c, op) PROVE RemoteInv'
  BY <1>2, RefreshStarts DEF StartRefresh, RemoteInv, RemoteTypeOK
<1>3. ASSUME NEW c \in RemoteCall, ChangeSessions(c) PROVE RemoteInv'
  BY <1>3, RefreshStarts DEF ChangeSessions, RemoteInv, RemoteTypeOK
<1>4. ASSUME NEW c \in RemoteCall, ChangeSetting(c) PROVE RemoteInv'
  BY <1>4, RefreshStarts DEF ChangeSetting
<1>5. ASSUME NEW c \in RemoteCall, SessionAnswer(c) PROVE RemoteInv'
  <2>1. remoteCall[c].step = "session"
    BY <1>5 DEF SessionAnswer
  <2>2. CASE SetState(c, Nothing(remoteCall[c].server))
    BY <1>1, <2>1, <2>2, NothingShown, StateSet DEF Nothing
  <2>3. CASE /\ remoteCall' = [remoteCall EXCEPT ![c].step = "vaults"]
             /\ remoteCall[c].server \in sessions
             /\ UNCHANGED <<configured, sessions, shown, mountedKeys, picked, newest, current>>
    <3>. DEFINE going == [remoteCall[c] EXCEPT !.step = "vaults"]
    <3>1. going \in CallState /\ going.step = "vaults" /\ going.server = remoteCall[c].server
      BY <1>1, <2>1 DEF CallState, NoCall
    <3>2. remoteCall' = [remoteCall EXCEPT ![c] = going]
      BY <2>3
    <3>. HIDE DEF going
    <3>3. NewestIsCurrent'
      BY <2>3, <3>1, <3>2 DEF RemoteInv, RemoteTypeOK, NewestIsCurrent
    <3>. QED
      BY <2>3, <3>1, <3>2, <3>3 DEF RemoteInv, RemoteTypeOK, MountedArePicked, ShowsTheSession
  <2>. QED
    BY <1>5, <2>2, <2>3 DEF SessionAnswer, latest
<1>6. ASSUME NEW c \in RemoteCall, VaultsAnswer(c) PROVE RemoteInv'
  <2>1. remoteCall[c].step = "vaults"
    BY <1>6 DEF VaultsAnswer
  <2>2. PICK vaults \in SUBSET VaultId :
            SetState(c, [server |-> remoteCall[c].server, signedIn |-> TRUE, vaults |-> vaults])
    BY <1>6 DEF VaultsAnswer
  <2>. DEFINE state == [server |-> remoteCall[c].server, signedIn |-> TRUE, vaults |-> vaults]
  <2>3. state \in RemoteState /\ state.server \in Server /\ state.server = remoteCall[c].server
    BY <1>1, <2>1 DEF RemoteState
  <2>. HIDE DEF state
  <2>. QED
    BY <1>1, <2>1, <2>2, <2>3, StateSet DEF state
<1>7. ASSUME NEW c \in RemoteCall, PickVaults(c) PROVE RemoteInv'
  <2>1. remoteCall[c].step = "picking"
    BY <1>7 DEF PickVaults
  <2>2. PICK vaults \in SUBSET remoteCall[c].offered :
            /\ mountedKeys' = {<<remoteCall[c].server, v>> : v \in vaults}
            /\ picked' = [picked EXCEPT ![remoteCall[c].server] = vaults]
    BY <1>7 DEF PickVaults
  <2>3. vaults \in SUBSET VaultId /\ remoteCall[c].server \in Server
    BY <1>1, <2>1, <2>2
  <2>4. /\ remoteCall' = [remoteCall EXCEPT ![c] = NoCall]
        /\ UNCHANGED <<configured, sessions, shown, newest, current>>
    BY <1>7 DEF PickVaults, latest
  <2>5. MountedArePicked'
    BY <2>2, <2>3 DEF MountedArePicked, RemoteInv, RemoteTypeOK
  <2>6. RemoteTypeOK'
    BY <2>2, <2>3, <2>4 DEF RemoteInv, RemoteTypeOK, CallState
  <2>7. NewestIsCurrent' /\ ShowsTheSession'
    BY <2>1, <2>4 DEF RemoteInv, RemoteTypeOK, NewestIsCurrent, ShowsTheSession
  <2>. QED
    BY <2>5, <2>6, <2>7 DEF RemoteInv
<1>8. ASSUME NEW c \in RemoteCall, DismissVaults(c) PROVE RemoteInv'
  BY <1>8 DEF DismissVaults, latest, RemoteInv, RemoteTypeOK, MountedArePicked, NewestIsCurrent, ShowsTheSession, CallState
<1>9. CASE UNCHANGED remoteVars
  BY <1>9 DEF remoteVars, latest, RemoteInv, RemoteTypeOK, MountedArePicked, NewestIsCurrent, ShowsTheSession
<1>. QED
  BY <1>2, <1>3, <1>4, <1>5, <1>6, <1>7, <1>8, <1>9 DEF RemoteNext

(* The tree shows only vaults picked for the server it shows, however      *)
(* refreshes overlap with the question (remoteService.ts 149-181).         *)
THEOREM ShownVaultsArePicked == RemoteSpec => []TreeShowsPickedVaults
<1>1. RemoteInv => TreeShowsPickedVaults
  BY DEF RemoteInv, RemoteTypeOK, RemoteState, MountedArePicked, TreeShowsPickedVaults, Mounted
<1>. QED
  BY <1>1, RemoteInvInit, RemoteInvStep, PTL DEF RemoteSpec

(* What the refresh that began last shows is so until the next one: the    *)
(* server that is configured, and an account only with a session there     *)
(* (remoteService.ts 91-102).                                              *)
THEOREM ShownAccountsAreSignedIn == RemoteSpec => []ShowsTheSession
<1>1. RemoteInv => ShowsTheSession
  BY DEF RemoteInv
<1>. QED
  BY <1>1, RemoteInvInit, RemoteInvStep, PTL DEF RemoteSpec

-----------------------------------------------------------------------------
(* Folders: what is not yet watched or known, a call under way will be.    *)

Scan == [op : {"refresh", "rescan"}, folders : SUBSET Folder, left : SUBSET Folder, got : [Folder -> Nat \cup {None}]]

FoldersTypeOK ==
    /\ open \in SUBSET Folder /\ watched \in SUBSET Folder
    /\ disk \in [Folder -> Nat]
    /\ cache \in [Folder -> Nat \cup {None}]
    /\ scan \in [ScanCall -> Scan \cup {Idle}]

WillWatch(c, f) == scan[c] # Idle /\ scan[c].op = "refresh" /\ f \in scan[c].folders
WillRead(c, f) == scan[c] # Idle /\ f \in scan[c].left

WatchedInTheEnd == enabled => \A f \in open : f \in watched \/ \E c \in ScanCall : WillWatch(c, f)
ReadInTheEnd == enabled => \A f \in open : cache[f] # None \/ \E c \in ScanCall : WillRead(c, f)

FoldersInv == FoldersTypeOK /\ WatchedInTheEnd /\ ReadInTheEnd

LEMMA FoldersInvInit == FoldersInit => FoldersInv
BY DEF FoldersInit, FoldersInv, FoldersTypeOK, WatchedInTheEnd, ReadInTheEnd, Unread

(* A refresh of all the folders that are open.                             *)
LEMMA RefreshesAll ==
    ASSUME FoldersInv, NEW c \in ScanCall, open' \in SUBSET Folder, UNCHANGED disk,
           Refresh(c, IF enabled' THEN open' ELSE {})
    PROVE  FoldersInv'
<1>. DEFINE folders == IF enabled' THEN open' ELSE {}
            newScan == [op |-> "refresh", folders |-> folders, left |-> folders, got |-> Unread]
<1>1. newScan \in Scan /\ newScan # Idle /\ newScan.op = "refresh" /\ newScan.folders = folders /\ newScan.left = folders
  BY DEF Scan, Unread, Idle
<1>2. watched' = {} /\ cache' = Unread
  BY DEF Refresh
<1>3. scan' = scan \/ scan' = [scan EXCEPT ![c] = newScan]
  BY DEF Refresh
<1>4. enabled' /\ open' # {} => scan' = [scan EXCEPT ![c] = newScan]
  BY DEF Refresh
<1>. HIDE DEF newScan
<1>5. FoldersTypeOK'
  BY <1>1, <1>2, <1>3 DEF FoldersInv, FoldersTypeOK, Unread
<1>6. ASSUME NEW f, enabled', f \in open' PROVE WillWatch(c, f)' /\ WillRead(c, f)'
  <2>1. scan'[c] = newScan
    BY <1>4, <1>6 DEF FoldersInv, FoldersTypeOK
  <2>. QED
    BY <1>1, <1>6, <2>1 DEF WillWatch, WillRead
<1>. QED
  BY <1>5, <1>6 DEF FoldersInv, WatchedInTheEnd, ReadInTheEnd

(* A step of one call, or none, that neither watches nor knows less.       *)
LEMMA ScanStep ==
    ASSUME FoldersInv, FoldersTypeOK', NEW c \in ScanCall, UNCHANGED <<open, enabled>>,
           \A d \in ScanCall \ {c} : scan'[d] = scan[d],
           watched \subseteq watched',
           \A f \in Folder : WillWatch(c, f) => f \in watched' \/ WillWatch(c, f)',
           \A f \in Folder : cache[f] # None => cache'[f] # None,
           \A f \in Folder : WillRead(c, f) => cache'[f] # None \/ WillRead(c, f)'
    PROVE  FoldersInv'
<1>1. \A d \in ScanCall \ {c}, f \in Folder :
          (WillWatch(d, f) => WillWatch(d, f)') /\ (WillRead(d, f) => WillRead(d, f)')
  BY DEF WillWatch, WillRead
<1>2. open \subseteq Folder
  BY DEF FoldersInv, FoldersTypeOK
<1>3. WatchedInTheEnd'
  BY <1>1, <1>2 DEF FoldersInv, WatchedInTheEnd
<1>4. ReadInTheEnd'
  BY <1>1, <1>2 DEF FoldersInv, ReadInTheEnd
<1>. QED
  BY <1>3, <1>4 DEF FoldersInv

LEMMA FoldersInvStep == ASSUME FoldersInv, [FoldersNext]_folderVars PROVE FoldersInv'
<1>1. ASSUME NEW c \in ScanCall, ChangeFolders(c) PROVE FoldersInv'
  BY <1>1, RefreshesAll DEF ChangeFolders, FoldersInv, FoldersTypeOK
<1>2. ASSUME NEW c \in ScanCall, ToggleDiscovery(c) PROVE FoldersInv'
  BY <1>2, RefreshesAll DEF ToggleDiscovery, FoldersInv, FoldersTypeOK
<1>3. ASSUME NEW c \in ScanCall, ReadFolder(c) PROVE FoldersInv'
  <2>1. PICK f \in scan[c].left : scan' = [scan EXCEPT ![c].got[f] = disk[f]]
    BY <1>3 DEF ReadFolder
  <2>2. scan[c] \in Scan
    BY <1>3 DEF ReadFolder, FoldersInv, FoldersTypeOK
  <2>. DEFINE r == [scan[c] EXCEPT !.got[f] = disk[f]]
  <2>3. r \in Scan /\ r.op = scan[c].op /\ r.folders = scan[c].folders /\ r.left = scan[c].left
    BY <2>2 DEF Scan, FoldersInv, FoldersTypeOK
  <2>4. r # Idle
    BY <2>3, <2>2 DEF Scan, Idle
  <2>5. scan' = [scan EXCEPT ![c] = r]
    BY <2>1
  <2>. HIDE DEF r
  <2>6. scan'[c] = r /\ \A d \in ScanCall \ {c} : scan'[d] = scan[d]
    BY <2>5 DEF FoldersInv, FoldersTypeOK
  <2>7. FoldersTypeOK' /\ UNCHANGED <<open, enabled, watched, cache>>
    BY <1>3, <2>3, <2>5 DEF ReadFolder, FoldersInv, FoldersTypeOK
  <2>8. \A g \in Folder : (WillWatch(c, g) => WillWatch(c, g)') /\ (WillRead(c, g) => WillRead(c, g)')
    BY <2>3, <2>4, <2>6 DEF WillWatch, WillRead
  <2>. QED
    BY <2>6, <2>7, <2>8, ScanStep
<1>4. ASSUME NEW c \in ScanCall, FillCache(c) PROVE FoldersInv'
  <2>1. PICK f \in scan[c].left :
            /\ scan[c].got[f] # None
            /\ cache' = [cache EXCEPT ![f] = scan[c].got[f]]
            /\ scan' = [scan EXCEPT ![c] = IF scan[c].left = {f} THEN Idle ELSE [scan[c] EXCEPT !.left = scan[c].left \ {f}]]
            /\ IF scan[c].left = {f} /\ scan[c].op = "refresh" THEN Watch(c) ELSE UNCHANGED watched
    BY <1>4 DEF FillCache
  <2>2. scan[c] # Idle /\ UNCHANGED <<open, disk, enabled>>
    BY <1>4 DEF FillCache
  <2>3. scan[c] \in Scan
    BY <2>2 DEF FoldersInv, FoldersTypeOK
  <2>4. /\ scan[c].folders \subseteq Folder /\ f \in Folder /\ scan[c].got[f] \in Nat \cup {None}
    BY <2>3 DEF Scan
  <2>. DEFINE r == [scan[c] EXCEPT !.left = scan[c].left \ {f}]
  <2>5. r \in Scan /\ r.op = scan[c].op /\ r.folders = scan[c].folders /\ r.left = scan[c].left \ {f}
    BY <2>3 DEF Scan
  <2>6. r # Idle
    BY <2>3, <2>5 DEF Scan, Idle
  <2>7. scan' = [scan EXCEPT ![c] = IF scan[c].left = {f} THEN Idle ELSE r]
    BY <2>1
  <2>. HIDE DEF r
  <2>8. scan'[c] = (IF scan[c].left = {f} THEN Idle ELSE r) /\ \A d \in ScanCall \ {c} : scan'[d] = scan[d]
    BY <2>7 DEF FoldersInv, FoldersTypeOK
  <2>9. watched \subseteq watched' /\ watched' \subseteq Folder
    BY <2>1, <2>4 DEF Watch, FoldersInv, FoldersTypeOK
  <2>10. /\ cache' \in [Folder -> Nat \cup {None}]
         /\ cache'[f] # None /\ \A g \in Folder \ {f} : cache'[g] = cache[g]
    BY <2>1, <2>4 DEF FoldersInv, FoldersTypeOK
  <2>11. FoldersTypeOK'
    BY <2>2, <2>5, <2>7, <2>9, <2>10 DEF FoldersInv, FoldersTypeOK
  <2>12. ASSUME NEW g \in Folder, WillWatch(c, g) PROVE g \in watched' \/ WillWatch(c, g)'
    BY <2>1, <2>5, <2>6, <2>8, <2>12 DEF WillWatch, Watch
  <2>13. ASSUME NEW g \in Folder, WillRead(c, g) PROVE cache'[g] # None \/ WillRead(c, g)'
    BY <2>5, <2>6, <2>8, <2>10, <2>13 DEF WillRead
  <2>. QED
    BY <2>2, <2>8, <2>9, <2>10, <2>11, <2>12, <2>13, ScanStep
<1>5. ASSUME NEW c \in ScanCall, ChangeFile(c) PROVE FoldersInv'
  <2>1. UNCHANGED <<open, enabled, watched, cache>>
    BY <1>5 DEF ChangeFile
  <2>2. PICK f \in Folder :
            /\ disk' = [disk EXCEPT ![f] = @ + 1]
            /\ \/ UNCHANGED scan
               \/ /\ scan[c] = Idle
                  /\ scan' = [scan EXCEPT ![c] = [op |-> "rescan", folders |-> {f}, left |-> {f}, got |-> Unread]]
    BY <1>5 DEF ChangeFile
  <2>3. [op |-> "rescan", folders |-> {f}, left |-> {f}, got |-> Unread] \in Scan
    BY DEF Scan, Unread
  <2>4. disk' \in [Folder -> Nat] /\ scan' \in [ScanCall -> Scan \cup {Idle}]
    BY <2>2, <2>3 DEF FoldersInv, FoldersTypeOK
  <2>5. FoldersTypeOK'
    BY <2>1, <2>4 DEF FoldersInv, FoldersTypeOK
  <2>6. \A d \in ScanCall \ {c} : scan'[d] = scan[d]
    BY <2>2 DEF FoldersInv, FoldersTypeOK
  <2>7. \A g \in Folder : (WillWatch(c, g) => WillWatch(c, g)') /\ (WillRead(c, g) => WillRead(c, g)')
    BY <2>2 DEF WillWatch, WillRead
  <2>. QED
    BY <2>1, <2>5, <2>6, <2>7, ScanStep
<1>6. CASE ActivateEditor \/ UNCHANGED folderVars
  BY <1>6 DEF ActivateEditor, folderVars, FoldersInv, FoldersTypeOK, WatchedInTheEnd, ReadInTheEnd,
              WillWatch, WillRead
<1>. QED
  BY <1>1, <1>2, <1>3, <1>4, <1>5, <1>6 DEF FoldersNext

(* When all refreshes and scans are over, every open folder is watched and *)
(* has been read, in whatever order they ended (discoveryService.ts 57-75, *)
(* contextService.ts 75-93).                                               *)
THEOREM NoFolderIsForgotten == FoldersSpec => []OpenFoldersAreWatched
<1>1. FoldersInv => OpenFoldersAreWatched
  BY DEF FoldersInv, WatchedInTheEnd, ReadInTheEnd, WillWatch, WillRead, OpenFoldersAreWatched, AtRest
<1>. QED
  BY <1>1, FoldersInvInit, FoldersInvStep, PTL DEF FoldersSpec

-----------------------------------------------------------------------------
(* Runs: what a run has asked for so far is what its item asks for.        *)

Task ==
    [body : {"task"}, asks : {FALSE}, secret : {FALSE}, confirm : {FALSE}, dangerous : BOOLEAN, fileDir : {FALSE}]
Text ==
    [body : {v.body : v \in Version} \cup {"task"}, file : EditorFile \cup {None},
     value : Value \cup {None}, secret : Value \cup {None}]
RunState ==
    [step : {"prompt", "secret", "confirm", "confirming"}, item : Version \cup Task,
     confirmed : Text \cup {None}, text : Text]

RunsTypeOK ==
    /\ item \in Version \cup {None}
    /\ editor \in EditorFile \cup {None}
    /\ secret \in Value \cup {None}
    /\ run \in [RunCall -> RunState \cup {NotRunning}]

HasValue(r) == run[r].item.asks = (run[r].text.value # None)
HasSecret(r) == run[r].item.secret = (run[r].text.secret # None)

AskedSoFar(r) ==
    run[r] # NotRunning =>
        /\ run[r].text.body = run[r].item.body
        /\ run[r].step = "prompt" => run[r].item.asks /\ run[r].text.secret = None
        /\ run[r].step = "secret" => run[r].item.secret /\ HasValue(r)
        /\ run[r].step \in {"confirm", "confirming"} => HasValue(r) /\ HasSecret(r)
        /\ run[r].step = "confirming" => run[r].confirmed = run[r].text

RunsInv == RunsTypeOK /\ (\A r \in RunCall : AskedSoFar(r)) /\ RunsWhatWasConfirmed

LEMMA RunsInvInit == RunsInit => RunsInv
BY DEF RunsInit, RunsInv, RunsTypeOK, AskedSoFar, RunsWhatWasConfirmed

(* An item says whether it asks for a value and for a secret.              *)
LEMMA ItemsAsk ==
    \A i \in Version \cup Task :
        /\ i.asks \in BOOLEAN /\ i.secret \in BOOLEAN
        /\ i.body \in {v.body : v \in Version} \cup {"task"}
BY RunsAssumption DEF Task

(* A step of one run, to the record n.                                     *)
LEMMA RunStep ==
    ASSUME RunsInv, NEW r \in RunCall, NEW n \in RunState, run' = [run EXCEPT ![r] = n],
           item' = item, editor' = editor, secret' \in Value \cup {None}, sent' = sent,
           n.text.body = n.item.body,
           n.step = "prompt" => n.item.asks /\ n.text.secret = None,
           n.step # "prompt" => n.item.asks = (n.text.value # None),
           n.step = "secret" => n.item.secret,
           n.step \in {"confirm", "confirming"} => n.item.secret = (n.text.secret # None),
           n.step = "confirming" => n.confirmed = n.text
    PROVE  RunsInv'
<1>1. run'[r] = n /\ \A q \in RunCall \ {r} : run'[q] = run[q]
  BY DEF RunsInv, RunsTypeOK
<1>2. RunsTypeOK'
  BY DEF RunsInv, RunsTypeOK
<1>3. AskedSoFar(r)'
  BY <1>1 DEF AskedSoFar, HasValue, HasSecret
<1>4. \A q \in RunCall \ {r} : AskedSoFar(q)'
  BY <1>1 DEF RunsInv, AskedSoFar, HasValue, HasSecret
<1>5. RunsWhatWasConfirmed'
  BY DEF RunsInv, RunsWhatWasConfirmed
<1>. QED
  BY <1>2, <1>3, <1>4, <1>5 DEF RunsInv

(* A run that ends.                                                        *)
LEMMA RunEnds ==
    ASSUME RunsInv, NEW r \in RunCall, run' = [run EXCEPT ![r] = NotRunning],
           UNCHANGED <<item, editor, secret>>, RunsWhatWasConfirmed'
    PROVE  RunsInv'
BY DEF RunsInv, RunsTypeOK, AskedSoFar, HasValue, HasSecret

(* What is sent is the text of the run, confirmed if need be.              *)
LEMMA SentText ==
    ASSUME RunsInv, NEW r \in RunCall, Send(r), run[r].step \in {"confirm", "confirming"},
           NeedsConfirm(r) => run[r].step = "confirming"
    PROVE  RunsInv'
<1>. DEFINE what == [item |-> run[r].item, text |-> run[r].text, confirmed |-> run[r].confirmed,
                     flags |-> settings.confirmDangerous, directory |-> TerminalTarget(run[r].item)]
<1>1. /\ what.item = run[r].item /\ what.text = run[r].text /\ what.confirmed = run[r].confirmed
      /\ what.flags = settings.confirmDangerous
  OBVIOUS
<1>2. sent' = what /\ run' = [run EXCEPT ![r] = NotRunning] /\ UNCHANGED <<item, editor, secret>>
  BY DEF Send
<1>. HIDE DEF what
<1>3. run[r] # NotRunning
  BY DEF NotRunning
<1>4. what.text.body = what.item.body
  BY <1>1, <1>3 DEF RunsInv, AskedSoFar
<1>5. what.item.asks = (what.text.value # None) /\ what.item.secret = (what.text.secret # None)
  BY <1>1, <1>3 DEF RunsInv, AskedSoFar, HasValue, HasSecret
<1>6. what.item.confirm \/ (what.flags /\ Dangerous(what)) => what.confirmed = what.text
  BY <1>1, <1>3 DEF RunsInv, AskedSoFar, NeedsConfirm, Dangerous
<1>7. RunsWhatWasConfirmed'
  BY <1>2, <1>4, <1>5, <1>6 DEF RunsWhatWasConfirmed, Dangerous
<1>. QED
  BY <1>2, <1>7, RunEnds

LEMMA RunsInvStep == ASSUME RunsInv, [RunsNext]_runVars PROVE RunsInv'
<1>1. ASSUME NEW r \in RunCall, run[r].step \in {"prompt", "secret", "confirm", "confirming"}
      PROVE  /\ run[r] \in RunState /\ run[r] # NotRunning
             /\ run[r].item \in Version \cup Task /\ run[r].text \in Text /\ AskedSoFar(r)
  <2>1. run[r] # NotRunning
    BY <1>1 DEF NotRunning
  <2>. QED
    BY <2>1 DEF RunsInv, RunsTypeOK, RunState
<1>2. ASSUME NEW r \in RunCall, Start(r) PROVE RunsInv'
  <2>1. PICK i \in Version : i = item
    BY <1>2 DEF Start, RunsInv, RunsTypeOK
  <2>. DEFINE text == [body |-> i.body, file |-> editor, value |-> None, secret |-> None]
              n == [step |-> NextStep(i, "start"), item |-> i, confirmed |-> None, text |-> text]
  <2>2. i.asks \in BOOLEAN /\ i.secret \in BOOLEAN
    BY ItemsAsk
  <2>3. text \in Text /\ text.body = i.body /\ text.value = None /\ text.secret = None
    BY ItemsAsk DEF Text, RunsInv, RunsTypeOK
  <2>4. NextStep(i, "start") = IF i.asks THEN "prompt" ELSE IF i.secret THEN "secret" ELSE "confirm"
    BY <2>2 DEF NextStep
  <2>. HIDE DEF text
  <2>5. /\ n \in RunState /\ n.item = i /\ n.text = text /\ n.confirmed = None
        /\ n.step = NextStep(i, "start")
    BY <2>3, <2>4 DEF RunState
  <2>6. run' = [run EXCEPT ![r] = n] /\ UNCHANGED <<item, editor, secret, sent>>
    BY <1>2, <2>1 DEF Start, text
  <2>. HIDE DEF n
  <2>. QED
    BY <2>2, <2>3, <2>4, <2>5, <2>6, RunStep DEF RunsInv, RunsTypeOK
<1>3. ASSUME NEW r \in RunCall, StartAdHoc(r) PROVE RunsInv'
  <2>1. PICK d \in BOOLEAN :
          run' = [run EXCEPT ![r] =
             [step |-> "confirm", confirmed |-> None,
              item |-> [body |-> "task", asks |-> FALSE, secret |-> FALSE, confirm |-> FALSE,
                        dangerous |-> d, fileDir |-> FALSE],
              text |-> [body |-> "task", file |-> editor, value |-> None, secret |-> None]]]
    BY <1>3 DEF StartAdHoc
  <2>. DEFINE i == [body |-> "task", asks |-> FALSE, secret |-> FALSE, confirm |-> FALSE,
                    dangerous |-> d, fileDir |-> FALSE]
              text == [body |-> "task", file |-> editor, value |-> None, secret |-> None]
              n == [step |-> "confirm", confirmed |-> None, item |-> i, text |-> text]
  <2>2. i \in Task /\ ~i.asks /\ ~i.secret /\ i.body = "task"
    BY DEF Task
  <2>3. text \in Text /\ text.body = "task" /\ text.value = None /\ text.secret = None
    BY DEF Text, RunsInv, RunsTypeOK
  <2>. HIDE DEF i, text
  <2>4. n \in RunState /\ n.item = i /\ n.text = text /\ n.step = "confirm"
    BY <2>2, <2>3 DEF RunState
  <2>5. run' = [run EXCEPT ![r] = n] /\ UNCHANGED <<item, editor, secret, sent>>
    BY <1>3, <2>1 DEF StartAdHoc, i, text
  <2>6. i.asks = FALSE /\ i.secret = FALSE
    BY DEF i
  <2>. HIDE DEF n
  <2>. QED
    BY <2>2, <2>3, <2>4, <2>5, <2>6, RunStep DEF RunsInv, RunsTypeOK
<1>4. ASSUME NEW r \in RunCall, Dismiss(r) PROVE RunsInv'
  BY <1>4, RunEnds DEF Dismiss, RunsInv, RunsWhatWasConfirmed
<1>5. ASSUME NEW r \in RunCall, EnterValue(r) PROVE RunsInv'
  <2>1. PICK v \in Value :
            run' = [run EXCEPT ![r].text.value = v, ![r].step = NextStep(run[r].item, "prompt")]
    BY <1>5 DEF EnterValue
  <2>2. run[r].step = "prompt" /\ UNCHANGED <<item, editor, secret, sent>>
    BY <1>5 DEF EnterValue
  <2>3. /\ run[r] \in RunState /\ run[r].item \in Version \cup Task /\ run[r].text \in Text
        /\ run[r] # NotRunning /\ AskedSoFar(r)
    BY <1>1, <2>2
  <2>. DEFINE text == [run[r].text EXCEPT !.value = v]
              n == [run[r] EXCEPT !.text = text, !.step = NextStep(run[r].item, "prompt")]
  <2>4. run[r].item.asks /\ run[r].text.secret = None /\ run[r].text.body = run[r].item.body
    BY <2>2, <2>3 DEF AskedSoFar
  <2>5. text \in Text /\ text.body = run[r].text.body /\ text.value = v /\ text.secret = None
    BY <2>3, <2>4 DEF Text
  <2>6. NextStep(run[r].item, "prompt") = IF run[r].item.secret THEN "secret" ELSE "confirm"
    BY <2>3, ItemsAsk DEF NextStep
  <2>7. run' = [run EXCEPT ![r] = n]
    BY <2>1
  <2>. HIDE DEF text
  <2>8. n \in RunState /\ n.item = run[r].item /\ n.text = text /\ n.step = NextStep(run[r].item, "prompt")
    BY <2>3, <2>5, <2>6 DEF RunState
  <2>. HIDE DEF n
  <2>9. /\ n.step = "secret" => n.item.secret
        /\ n.step = "confirm" => ~n.item.secret
        /\ n.step \in {"secret", "confirm"}
    BY <2>6, <2>8
  <2>10. run[r].item.asks \in BOOLEAN /\ run[r].item.secret \in BOOLEAN /\ v # None
    BY <2>3, ItemsAsk, RunsAssumption
  <2>11. n.item.asks = (n.text.value # None) /\ (n.step = "confirm" => n.item.secret = (n.text.secret # None))
    BY <2>4, <2>5, <2>8, <2>9, <2>10
  <2>. QED
    BY <2>2, <2>4, <2>5, <2>7, <2>8, <2>9, <2>11, RunStep DEF RunsInv, RunsTypeOK
<1>6. ASSUME NEW r \in RunCall, FindSecret(r) PROVE RunsInv'
  <2>1. PICK v \in IF secret = None THEN Value ELSE {secret}, keep \in BOOLEAN :
            /\ secret' = IF keep THEN v ELSE secret
            /\ run' = [run EXCEPT ![r].text.secret = v, ![r].step = "confirm"]
    BY <1>6 DEF FindSecret
  <2>2. v \in Value /\ v # None /\ secret' \in Value \cup {None}
    BY <2>1, RunsAssumption DEF RunsInv, RunsTypeOK
  <2>3. run[r].step = "secret" /\ UNCHANGED <<item, editor, sent>>
    BY <1>6 DEF FindSecret
  <2>4. /\ run[r] \in RunState /\ run[r].item \in Version \cup Task /\ run[r].text \in Text
        /\ run[r] # NotRunning /\ AskedSoFar(r)
    BY <1>1, <2>3
  <2>5. run[r].item.secret /\ HasValue(r) /\ run[r].text.body = run[r].item.body
    BY <2>3, <2>4 DEF AskedSoFar
  <2>. DEFINE text == [run[r].text EXCEPT !.secret = v]
              n == [run[r] EXCEPT !.text = text, !.step = "confirm"]
  <2>6. text \in Text /\ text.body = run[r].text.body /\ text.value = run[r].text.value /\ text.secret = v
    BY <2>2, <2>4 DEF Text
  <2>7. run' = [run EXCEPT ![r] = n]
    BY <2>1
  <2>. HIDE DEF text
  <2>8. n \in RunState /\ n.item = run[r].item /\ n.text = text /\ n.step = "confirm"
    BY <2>4, <2>6 DEF RunState
  <2>. HIDE DEF n
  <2>9. n.item.asks = (n.text.value # None)
    BY <2>5, <2>6, <2>8 DEF HasValue
  <2>10. run[r].item.secret \in BOOLEAN
    BY <2>4, ItemsAsk
  <2>11. n.item.secret = (n.text.secret # None)
    BY <2>2, <2>5, <2>6, <2>8, <2>10
  <2>. QED
    BY <2>2, <2>3, <2>5, <2>6, <2>7, <2>8, <2>9, <2>11, RunStep
<1>7. ASSUME NEW r \in RunCall, Run(r) PROVE RunsInv'
  BY <1>7, SentText DEF Run
<1>8. ASSUME NEW r \in RunCall, AskConfirm(r) PROVE RunsInv'
  <2>1. run[r].step = "confirm" /\ UNCHANGED <<item, editor, secret, sent>>
    BY <1>8 DEF AskConfirm
  <2>2. run[r] \in RunState /\ run[r].text \in Text /\ run[r] # NotRunning /\ AskedSoFar(r)
    BY <1>1, <2>1
  <2>. DEFINE n == [run[r] EXCEPT !.step = "confirming", !.confirmed = run[r].text]
  <2>3. /\ n \in RunState /\ n.item = run[r].item /\ n.text = run[r].text
        /\ n.step = "confirming" /\ n.confirmed = run[r].text
    BY <2>2 DEF RunState
  <2>4. run' = [run EXCEPT ![r] = n]
    BY <1>8 DEF AskConfirm
  <2>. HIDE DEF n
  <2>5. run[r].text.body = run[r].item.body /\ HasValue(r) /\ HasSecret(r)
    BY <2>1, <2>2 DEF AskedSoFar
  <2>6. n.item.asks = (n.text.value # None) /\ n.item.secret = (n.text.secret # None)
    BY <2>3, <2>5 DEF HasValue, HasSecret
  <2>. QED
    BY <2>1, <2>3, <2>4, <2>5, <2>6, RunStep DEF RunsInv, RunsTypeOK
<1>9. ASSUME NEW r \in RunCall, Confirm(r) PROVE RunsInv'
  BY <1>9, SentText DEF Confirm
<1>10. CASE EditItem \/ SwitchEditor \/ ChangeSettings \/ UNCHANGED runVars
  BY <1>10 DEF EditItem, SwitchEditor, ChangeSettings, runVars, RunsInv, RunsTypeOK, AskedSoFar,
               HasValue, HasSecret, RunsWhatWasConfirmed
<1>. QED
  BY <1>2, <1>3, <1>4, <1>5, <1>6, <1>7, <1>8, <1>9, <1>10 DEF RunsNext

(* Whatever is edited during the questions, what runs is the text of one   *)
(* version of the item, confirmed if that version or the text call for it  *)
(* (runner.ts 99-135).                                                     *)
THEOREM ConfirmedTextRuns == RunsSpec => []RunsWhatWasConfirmed
<1>1. RunsInv => RunsWhatWasConfirmed
  BY DEF RunsInv
<1>. QED
  BY <1>1, RunsInvInit, RunsInvStep, PTL DEF RunsSpec

-----------------------------------------------------------------------------
(* Moves: an item that is moved is never without a copy in a file.         *)
(* Between two steps, some scope has the item in its file, in memory and   *)
(* in every save to come; and from the save of a move's copy on, the same  *)
(* holds of its target, which takes over when that save is done and the    *)
(* source goes.                                                            *)

Save == [scope : ItemScope, nr : Nat, has : BOOLEAN, by : Mover \cup {None}]
MoveState == [step : {"target", "source"}, from : ItemScope, to : ItemScope]

MovesTypeOK ==
    /\ memory \in SUBSET ItemScope /\ file \in SUBSET ItemScope
    /\ saves \in SUBSET Save
    /\ begun \in Nat /\ landed \in [ItemScope -> Nat]
    /\ reads \in SUBSET [scope : ItemScope, has : BOOLEAN]
    /\ move \in [Mover -> MoveState \cup {NoMove}]
    /\ deleted \in BOOLEAN /\ raced \in BOOLEAN

AtTarget(m) == move[m].step = "target"

Numbered == \A x \in saves : x.nr <= begun

(* A save of a move is in the scope the move waits for, and is the only one. *)
Placed ==
    \A x \in saves : x.by # None =>
        /\ move[x.by] # NoMove
        /\ x.scope = IF AtTarget(x.by) THEN move[x.by].to ELSE move[x.by].from

Alone == \A x, y \in saves : x.by = y.by /\ x.by # None => x = y

Apart == \A m \in Mover : move[m] # NoMove => move[m].from # move[m].to

OneSource ==
    ~raced => \A m, n \in Mover : AtTarget(m) /\ AtTarget(n) => move[m].from = move[n].from

(* A save that no newer one of its scope has overtaken. *)
Current(x) == x.nr >= landed[x.scope]

(* The copy of a move is in its target from its save on. *)
Arrives(x) ==
    x.by # None /\ AtTarget(x.by) /\ Current(x) =>
        /\ x.scope \in memory
        /\ \A y \in saves : y.scope = x.scope /\ y.nr >= x.nr => y.has

(* The item is in a scope, and no save to come takes it away.              *)
Stays(s) ==
    /\ s \in file /\ s \in memory
    /\ \A y \in saves : y.scope = s /\ Current(y) => y.has

ItemIsSafe == ~deleted /\ ~raced => (\A x \in saves : Arrives(x)) /\ \E s \in ItemScope : Stays(s)

MovesInv ==
    MovesTypeOK /\ Numbered /\ Placed /\ Alone /\ Apart /\ OneSource /\ ItemIsSafe

LEMMA SaveTypes ==
    ASSUME MovesTypeOK, NEW x \in saves
    PROVE  /\ x \in Save /\ x.scope \in ItemScope /\ x.nr \in Nat
           /\ x.has \in BOOLEAN /\ x.by \in Mover \cup {None}
BY DEF MovesTypeOK, Save

LEMMA MoveTypes ==
    ASSUME MovesTypeOK, NEW m \in Mover, move[m] # NoMove
    PROVE  move[m] \in MoveState /\ move[m].from \in ItemScope /\ move[m].to \in ItemScope
BY DEF MovesTypeOK, MoveState

LEMMA MovesInvInit == MovesInit => MovesInv
<1>. SUFFICES ASSUME MovesInit PROVE MovesInv
  OBVIOUS
<1>1. PICK home \in ItemScope : memory = {home} /\ file = {home}
  BY DEF MovesInit
<1>2. MovesTypeOK
  BY <1>1 DEF MovesInit, MovesTypeOK
<1>3. saves = {} /\ Stays(home)
  BY <1>1 DEF MovesInit, Stays
<1>4. \A m \in Mover : move[m] = NoMove /\ ~AtTarget(m)
  BY DEF MovesInit, AtTarget, NoMove
<1>. QED
  BY <1>1, <1>2, <1>3, <1>4 DEF MovesInv, Numbered, Placed, Alone, Apart, OneSource, ItemIsSafe

(* A change that takes the item away only when the user deletes it.        *)
LEMMA ChangeStep ==
    ASSUME MovesInv, NEW s \in ItemScope, NEW has \in BOOLEAN, NEW by \in Mover \cup {None},
           Change(s, has, by, saves), UNCHANGED <<file, landed, reads>>,
           deleted' \in BOOLEAN, raced' \in BOOLEAN,
           deleted' \/ (~deleted /\ (s \in memory => has)), raced => raced',
           move' \in [Mover -> MoveState \cup {NoMove}], Apart', OneSource',
           \A m \in Mover : move'[m] = move[m] \/ (m = by /\ move[m] = NoMove),
           by # None => move[by] = NoMove /\ move'[by] # NoMove /\ AtTarget(by)' /\ move'[by].to = s /\ has
    PROVE  MovesInv'
<1>1. PICK e \in Save :
          /\ e.scope = s /\ e.has = has /\ e.by = by /\ e.nr = begun + 1
          /\ saves' = saves \cup {e} /\ begun' = begun + 1 /\ memory' = With(memory, s, has)
          /\ memory' \in SUBSET ItemScope /\ saves' \in SUBSET Save /\ begun' \in Nat
  <2>. DEFINE new == [scope |-> s, nr |-> begun + 1, has |-> has, by |-> by]
  <2>1. new \in Save /\ new.scope = s /\ new.has = has /\ new.by = by /\ new.nr = begun + 1
    BY DEF Save, MovesInv, MovesTypeOK
  <2>2. saves' = saves \cup {new} /\ begun' = begun + 1 /\ memory' = With(memory, s, has)
    BY DEF Change
  <2>. HIDE DEF new
  <2>3. memory' \in SUBSET ItemScope /\ saves' \in SUBSET Save /\ begun' \in Nat
    BY <2>1, <2>2 DEF With, MovesInv, MovesTypeOK
  <2>. QED
    BY <2>1, <2>2, <2>3
<1>2. MovesTypeOK'
  BY <1>1 DEF MovesInv, MovesTypeOK
<1>3. \A x \in saves : /\ x.by \in Mover \cup {None} /\ x.nr \in Nat /\ x.nr <= begun /\ begun \in Nat
                       /\ x.by # None => move[x.by] # NoMove /\ move'[x.by] = move[x.by] /\ x.by # by
  BY SaveTypes DEF MovesInv, MovesTypeOK, Numbered, Placed
<1>4. Numbered'
  BY <1>1, <1>3 DEF Numbered, MovesInv, MovesTypeOK
<1>5. Placed'
  BY <1>1, <1>3 DEF Placed, AtTarget, MovesInv
<1>6. Alone'
  BY <1>1, <1>3 DEF Alone, MovesInv
<1>7. ASSUME ~deleted', ~raced' PROVE (\A x \in saves' : Arrives(x)') /\ \E t \in ItemScope : Stays(t)'
  <2>1. (s \in memory => has) /\ (\A x \in saves : Arrives(x)) /\ \E t \in ItemScope : Stays(t)
    BY <1>7 DEF MovesInv, ItemIsSafe
  <2>2. \A t \in memory : t \in memory'
    BY <1>1, <2>1 DEF With
  <2>3. ASSUME NEW x \in saves PROVE Arrives(x)'
    BY <1>1, <1>3, <2>1, <2>2, <2>3 DEF Arrives, AtTarget, Current
  <2>4. Arrives(e)'
    <3>1. e.by # None => s \in memory'
      BY <1>1 DEF With
    <3>2. \A y \in saves : ~(y.nr >= e.nr)
      BY <1>1, <1>3
    <3>. QED
      BY <1>1, <3>1, <3>2 DEF Arrives
  <2>5. \A t \in ItemScope : Stays(t) => Stays(t)'
    BY <1>1, <2>1, <2>2 DEF Stays, Current
  <2>. QED
    BY <1>1, <2>1, <2>3, <2>4, <2>5
<1>. QED
  BY <1>2, <1>4, <1>5, <1>6, <1>7 DEF MovesInv, ItemIsSafe

LEMMA MoveBegins ==
    ASSUME MovesInv, NEW m \in Mover, NEW from \in ItemScope, NEW to \in ItemScope, MoveItem(m, from, to)
    PROVE  MovesInv'
<1>. DEFINE new == [step |-> "target", from |-> from, to |-> to]
<1>1. new \in MoveState /\ new.step = "target" /\ new.from = from /\ new.to = to /\ new # NoMove
  BY DEF MoveState, NoMove
<1>2. move' = [move EXCEPT ![m] = new] /\ move[m] = NoMove /\ from # to
  BY DEF MoveItem
<1>. HIDE DEF new
<1>3. /\ move'[m] = new /\ \A n \in Mover \ {m} : move'[n] = move[n]
      /\ move' \in [Mover -> MoveState \cup {NoMove}]
  BY <1>1, <1>2 DEF MovesInv, MovesTypeOK
<1>4. UNCHANGED <<file, landed, reads, deleted>> /\ raced' = (raced \/ Crosses(from)) /\ Change(to, TRUE, m, saves)
  BY DEF MoveItem
<1>5. Apart'
  BY <1>1, <1>2, <1>3 DEF MovesInv, Apart
<1>6. OneSource'
  <2>1. \A n \in Mover : AtTarget(n) => move[n] # NoMove
    BY DEF AtTarget, NoMove
  <2>2. ~raced' => ~raced /\ \A n \in Mover : AtTarget(n) => move[n].from = from
    BY <1>4, <2>1 DEF Crosses, AtTarget
  <2>. QED
    BY <1>1, <1>3, <2>2 DEF MovesInv, OneSource, AtTarget
<1>7. move'[m] # NoMove /\ AtTarget(m)' /\ move'[m].to = to
  BY <1>1, <1>3 DEF AtTarget
<1>8. raced' \in BOOLEAN /\ deleted' \in BOOLEAN /\ (deleted' \/ ~deleted)
  BY <1>4 DEF Crosses, MovesInv, MovesTypeOK
<1>. QED
  BY <1>2, <1>3, <1>4, <1>5, <1>6, <1>7, <1>8, ChangeStep

(* A save is over, or fails, and nothing else follows but the end of its move. *)
LEMMA EndStep ==
    ASSUME MovesInv, NEW x \in saves, saves' = saves \ {x},
           UNCHANGED <<memory, begun, reads, deleted>>,
           \A m \in Mover : move'[m] = IF m = x.by THEN move'[m] ELSE move[m],
           \A m \in Mover : move'[m] = move[m] \/ move'[m] = NoMove,
           move' \in [Mover -> MoveState \cup {NoMove}],
           \/ UNCHANGED <<file, landed, raced>>
           \/ /\ file' = With(file, x.scope, x.has) /\ landed' = [landed EXCEPT ![x.scope] = x.nr]
              /\ raced' = (raced \/ x.nr < landed[x.scope])
    PROVE  MovesInv'
<1>1. x.scope \in ItemScope /\ x.nr \in Nat /\ x.has \in BOOLEAN
  BY SaveTypes DEF MovesInv
<1>2. MovesTypeOK'
  BY <1>1 DEF MovesInv, MovesTypeOK, With
<1>3. \A y \in saves' : y \in saves /\ (y.by # None => move'[y.by] = move[y.by] /\ y.by \in Mover)
  BY SaveTypes DEF MovesInv, Alone
<1>4. Numbered' /\ Placed' /\ Alone' /\ Apart'
  BY <1>3 DEF MovesInv, Numbered, Placed, Alone, Apart, AtTarget
<1>5. OneSource'
  <2>1. \A m \in Mover : AtTarget(m)' => AtTarget(m) /\ move'[m] = move[m]
    BY DEF AtTarget, NoMove
  <2>2. raced => raced'
    OBVIOUS
  <2>. QED
    BY <2>1, <2>2 DEF MovesInv, OneSource
<1>6. ASSUME ~deleted', ~raced' PROVE (\A y \in saves' : Arrives(y)') /\ \E s \in ItemScope : Stays(s)'
  <2>1. (\A y \in saves : Arrives(y)) /\ \E s \in ItemScope : Stays(s)
    BY <1>6 DEF MovesInv, ItemIsSafe
  <2>2. \A s \in ItemScope : landed[s] \in Nat /\ landed'[s] \in Nat /\ landed'[s] >= landed[s]
    BY <1>1, <1>6, <1>2 DEF MovesInv, MovesTypeOK
  <2>3. \A y \in saves' : Current(y)' => Current(y)
    BY <1>3, <2>2, SaveTypes DEF MovesInv, Current
  <2>4. \A y \in saves' : Arrives(y)'
    BY <1>3, <2>1, <2>3 DEF Arrives, AtTarget
  <2>5. ASSUME NEW s \in ItemScope, Stays(s) PROVE s \in file'
    <3>1. CASE x.scope = s /\ raced' = (raced \/ x.nr < landed[x.scope])
      <4>1. x.has
        <5>1. ~(x.nr < landed[x.scope])
          BY <1>6, <3>1
        <5>2. Current(x)
          BY <1>1, <2>2, <5>1 DEF Current
        <5>. QED
          BY <1>1, <2>5, <3>1, <5>2 DEF Stays
      <4>. QED
        BY <2>5, <4>1 DEF Stays, With
    <3>2. CASE x.scope # s
      BY <2>5, <3>2 DEF Stays, With
    <3>. QED
      BY <2>5, <3>1, <3>2 DEF Stays
  <2>6. \A s \in ItemScope : Stays(s) => Stays(s)'
    BY <1>3, <2>3, <2>5 DEF Stays
  <2>. QED
    BY <2>1, <2>4, <2>6
<1>. QED
  BY <1>2, <1>4, <1>5, <1>6 DEF MovesInv, ItemIsSafe

(* The target of a move has its copy: the source is emptied.               *)
LEMMA SourceGoes ==
    ASSUME MovesInv, NEW x \in saves, NEW m \in Mover, m = x.by, m # None, AtTarget(m), Saved(x)
    PROVE  MovesInv'
<1>1. /\ move[m] \in MoveState /\ x.scope \in ItemScope /\ x.nr \in Nat /\ x.has \in BOOLEAN
      /\ move[m] # NoMove /\ move[m].to = x.scope
  BY SaveTypes, MoveTypes DEF MovesInv, Placed
<1>2. PICK from \in ItemScope : from = move[m].from /\ from # x.scope
  BY <1>1, MoveTypes DEF MovesInv, Apart
<1>3. /\ file' = With(file, x.scope, x.has) /\ landed' = [landed EXCEPT ![x.scope] = x.nr]
      /\ raced' = (raced \/ x.nr < landed[x.scope])
      /\ Change(from, FALSE, m, saves \ {x}) /\ move' = [move EXCEPT ![m].step = "source"]
      /\ UNCHANGED <<reads, deleted>>
  BY <1>2 DEF Saved, AtTarget
<1>4. PICK e \in Save :
          /\ e.scope = from /\ e.has = FALSE /\ e.by = m /\ e.nr = begun + 1
          /\ saves' = (saves \ {x}) \cup {e} /\ begun' = begun + 1 /\ memory' = With(memory, from, FALSE)
          /\ memory' \in SUBSET ItemScope /\ saves' \in SUBSET Save /\ begun' \in Nat
  <2>. DEFINE new == [scope |-> from, nr |-> begun + 1, has |-> FALSE, by |-> m]
  <2>1. new \in Save /\ new.scope = from /\ new.has = FALSE /\ new.by = m /\ new.nr = begun + 1
    BY DEF Save, MovesInv, MovesTypeOK
  <2>2. saves' = (saves \ {x}) \cup {new} /\ begun' = begun + 1 /\ memory' = With(memory, from, FALSE)
    BY <1>3 DEF Change
  <2>. HIDE DEF new
  <2>3. memory' \in SUBSET ItemScope /\ saves' \in SUBSET Save /\ begun' \in Nat
    BY <2>1, <2>2 DEF With, MovesInv, MovesTypeOK
  <2>. QED
    BY <2>1, <2>2, <2>3
<1>5. /\ move'[m].step = "source" /\ move'[m].from = from /\ move'[m].to = x.scope
      /\ move'[m] \in MoveState /\ move'[m] # NoMove /\ \A n \in Mover \ {m} : move'[n] = move[n]
      /\ move' \in [Mover -> MoveState \cup {NoMove}]
  <2>. DEFINE new == [move[m] EXCEPT !.step = "source"]
  <2>1. new.step = "source" /\ new.from = from /\ new.to = x.scope /\ new \in MoveState /\ new # NoMove
    BY <1>1, <1>2 DEF MoveState, NoMove
  <2>2. move' = [move EXCEPT ![m] = new]
    BY <1>3
  <2>. HIDE DEF new
  <2>. QED
    BY <2>1, <2>2 DEF MovesInv, MovesTypeOK
<1>6. MovesTypeOK'
  <2>1. file' \in SUBSET ItemScope /\ landed' \in [ItemScope -> Nat] /\ raced' \in BOOLEAN
    BY <1>1, <1>3 DEF MovesInv, MovesTypeOK, With
  <2>. QED
    BY <1>3, <1>4, <1>5, <2>1 DEF MovesInv, MovesTypeOK
<1>7. \A y \in saves \ {x} :
          /\ y.by \in Mover \cup {None} /\ y.nr \in Nat /\ y.nr <= begun /\ y.by # m
          /\ y.by # None => move'[y.by] = move[y.by]
  BY <1>5, SaveTypes DEF MovesInv, Alone, Numbered
<1>8. Numbered'
  <2>1. begun \in Nat
    BY DEF MovesInv, MovesTypeOK
  <2>. QED
    BY <1>4, <1>7, <2>1 DEF Numbered
<1>9. Placed'
  <2>1. \A y \in saves \ {x} : y.by # None =>
            /\ move'[y.by] # NoMove
            /\ y.scope = IF move'[y.by].step = "target" THEN move'[y.by].to ELSE move'[y.by].from
    BY <1>7 DEF MovesInv, Placed, AtTarget
  <2>2. e.by # None =>
            /\ move'[e.by] # NoMove
            /\ e.scope = IF move'[e.by].step = "target" THEN move'[e.by].to ELSE move'[e.by].from
    BY <1>4, <1>5
  <2>. QED
    BY <1>4, <2>1, <2>2 DEF Placed, AtTarget
<1>10. Alone'
  BY <1>4, <1>7 DEF MovesInv, Alone
<1>11. Apart'
  BY <1>2, <1>5 DEF MovesInv, Apart
<1>12. OneSource'
  <2>1. \A n \in Mover : AtTarget(n)' => n # m /\ AtTarget(n) /\ move'[n] = move[n]
    BY <1>5 DEF AtTarget
  <2>2. raced => raced'
    BY <1>3
  <2>. QED
    BY <2>1, <2>2 DEF MovesInv, OneSource
<1>13. ASSUME ~deleted', ~raced' PROVE (\A y \in saves' : Arrives(y)') /\ \E s \in ItemScope : Stays(s)'
  <2>1. ~raced /\ ~(x.nr < landed[x.scope]) /\ \A y \in saves : Arrives(y)
    BY <1>3, <1>13 DEF MovesInv, ItemIsSafe
  <2>2. landed[x.scope] \in Nat
    BY <1>1 DEF MovesInv, MovesTypeOK
  <2>3. Current(x)
    BY <1>1, <2>1, <2>2 DEF Current
  <2>4. x.scope \in memory /\ x.has /\ \A y \in saves : y.scope = x.scope /\ y.nr >= x.nr => y.has
    <3>1. x.scope \in memory /\ \A y \in saves : y.scope = x.scope /\ y.nr >= x.nr => y.has
      BY <2>1, <2>3 DEF Arrives
    <3>. QED
      BY <1>1, <3>1
  <2>5. x.scope \in file' /\ x.scope \in memory' /\ landed'[x.scope] = x.nr
    BY <1>1, <1>2, <1>3, <1>4, <2>4 DEF With, MovesInv, MovesTypeOK
  <2>6. Stays(x.scope)'
    <3>. SUFFICES ASSUME NEW s, s = x.scope PROVE Stays(s)'
      OBVIOUS
    <3>1. \A y \in saves' : y.scope = s /\ y.nr >= landed'[y.scope] => y.has
      BY <1>2, <1>4, <2>4, <2>5
    <3>. QED
      BY <2>5, <3>1 DEF Stays, Current
  <2>7. ASSUME NEW y \in saves \ {x} PROVE Arrives(y)'
    <3>. SUFFICES ASSUME y.by # None, AtTarget(y.by)', Current(y)'
                  PROVE  y.scope \in memory' /\ \A z \in saves' : z.scope = y.scope /\ z.nr >= y.nr => z.has
      BY DEF Arrives
    <3>1. AtTarget(y.by) /\ move[y.by].to = y.scope /\ y.by \in Mover /\ move[y.by] # NoMove
      BY <1>7 DEF AtTarget, MovesInv, Placed
    <3>2. move[y.by].from = from
      BY <1>2, <2>1, <3>1 DEF MovesInv, OneSource
    <3>3. y.scope # from
      BY <3>1, <3>2 DEF MovesInv, Apart
    <3>4. Current(y)
      <4>1. y.nr >= landed'[y.scope] /\ y.nr \in Nat /\ y.scope \in ItemScope
        BY <1>7, SaveTypes DEF Current, MovesInv
      <4>2. landed'[y.scope] >= landed[y.scope] /\ landed'[y.scope] \in Nat /\ landed[y.scope] \in Nat
        BY <1>1, <1>3, <2>1, <4>1 DEF MovesInv, MovesTypeOK
      <4>. QED
        BY <4>1, <4>2 DEF Current
    <3>5. y.scope \in memory /\ \A z \in saves : z.scope = y.scope /\ z.nr >= y.nr => z.has
      BY <2>1, <3>1, <3>4 DEF Arrives
    <3>. QED
      BY <1>4, <3>3, <3>5 DEF With
  <2>8. Arrives(e)'
    BY <1>4, <1>5 DEF Arrives, AtTarget
  <2>. QED
    BY <1>1, <1>4, <2>6, <2>7, <2>8
<1>. QED
  BY <1>6, <1>8, <1>9, <1>10, <1>11, <1>12, <1>13 DEF MovesInv, ItemIsSafe

LEMMA SaveEnds == ASSUME MovesInv, NEW x \in saves, Saved(x) \/ SaveFails(x) PROVE MovesInv'
<1>1. x.by \in Mover \cup {None}
  BY SaveTypes DEF MovesInv
<1>2. CASE Saved(x) /\ x.by # None /\ AtTarget(x.by)
  BY <1>1, <1>2, SourceGoes
<1>3. CASE Saved(x) /\ ~(x.by # None /\ AtTarget(x.by))
  <2>1. /\ file' = With(file, x.scope, x.has) /\ landed' = [landed EXCEPT ![x.scope] = x.nr]
        /\ raced' = (raced \/ x.nr < landed[x.scope]) /\ UNCHANGED <<memory, begun, reads, deleted>>
        /\ saves' = saves \ {x}
        /\ UNCHANGED move \/ (x.by # None /\ move' = [move EXCEPT ![x.by] = NoMove])
    BY <1>3 DEF Saved, AtTarget
  <2>2. /\ move' \in [Mover -> MoveState \cup {NoMove}]
        /\ \A m \in Mover : move'[m] = move[m] \/ (move'[m] = NoMove /\ m = x.by)
    BY <1>1, <2>1 DEF MovesInv, MovesTypeOK
  <2>. QED
    BY <2>1, <2>2, EndStep
<1>4. CASE SaveFails(x)
  <2>1. /\ UNCHANGED <<memory, file, begun, landed, reads, deleted, raced>> /\ saves' = saves \ {x}
        /\ move' = [m \in Mover |-> IF m = x.by THEN NoMove ELSE move[m]]
    BY <1>4 DEF SaveFails
  <2>2. /\ move' \in [Mover -> MoveState \cup {NoMove}]
        /\ \A m \in Mover : move'[m] = move[m] \/ (move'[m] = NoMove /\ m = x.by)
    BY <2>1 DEF MovesInv, MovesTypeOK
  <2>. QED
    BY <2>1, <2>2, EndStep
<1>. QED
  BY <1>2, <1>3, <1>4

(* Memory alone changes, by a load. *)
LEMMA LoadStep == ASSUME MovesInv, NEW read \in reads, Install(read) PROVE MovesInv'
<1>1. /\ UNCHANGED <<file, saves, begun, landed, move, deleted>> /\ reads' \subseteq reads
      /\ \/ UNCHANGED <<memory, raced>>
         \/ /\ memory' = With(memory, read.scope, read.has)
            /\ raced' = (raced \/ read.has # (read.scope \in file) \/ \E save \in saves : save.scope = read.scope)
  BY DEF Install
<1>2. read.scope \in ItemScope /\ read.has \in BOOLEAN
  BY DEF MovesInv, MovesTypeOK
<1>3. MovesTypeOK'
  BY <1>1, <1>2 DEF MovesInv, MovesTypeOK, With
<1>4. Numbered' /\ Placed' /\ Alone' /\ Apart'
  BY <1>1 DEF MovesInv, Numbered, Placed, Alone, Apart, AtTarget
<1>5. OneSource'
  BY <1>1, <1>3 DEF MovesInv, MovesTypeOK, OneSource, AtTarget
<1>6. ASSUME ~deleted', ~raced' PROVE (\A x \in saves' : Arrives(x)') /\ \E s \in ItemScope : Stays(s)'
  <2>1. ~raced /\ (\A x \in saves : Arrives(x)) /\ \E s \in ItemScope : Stays(s)
    BY <1>1, <1>6, <1>3 DEF MovesInv, MovesTypeOK, ItemIsSafe
  <2>2. CASE UNCHANGED memory
    BY <1>1, <2>1, <2>2 DEF Arrives, Stays, Current, AtTarget
  <2>3. CASE /\ memory' = With(memory, read.scope, read.has)
             /\ read.has = (read.scope \in file) /\ \A x \in saves : x.scope # read.scope
    <3>1. \A s \in ItemScope : s # read.scope => (s \in memory' <=> s \in memory)
      BY <2>3 DEF With
    <3>2. read.scope \in file => read.scope \in memory'
      BY <2>3 DEF With
    <3>3. \A x \in saves : Arrives(x)'
      BY <1>1, <2>1, <2>3, <3>1, SaveTypes DEF Arrives, Current, AtTarget, MovesInv
    <3>4. \A s \in ItemScope : Stays(s) => Stays(s)'
      BY <1>1, <3>1, <3>2 DEF Stays, Current
    <3>. QED
      BY <1>1, <2>1, <3>3, <3>4
  <2>. QED
    BY <1>1, <1>2, <1>6, <2>2, <2>3
<1>. QED
  BY <1>3, <1>4, <1>5, <1>6 DEF MovesInv, ItemIsSafe

LEMMA WindowReloads == ASSUME MovesInv, Restart PROVE MovesInv'
<1>1. /\ memory' = file /\ saves' = {} /\ reads' = {} /\ move' = [m \in Mover |-> NoMove]
      /\ UNCHANGED <<file, begun, landed, deleted, raced>>
  BY DEF Restart
<1>2. MovesTypeOK'
  BY <1>1 DEF MovesInv, MovesTypeOK
<1>3. \A m \in Mover : move'[m] = NoMove /\ ~AtTarget(m)'
  BY <1>1 DEF AtTarget, NoMove
<1>4. \A s \in ItemScope : Stays(s) => Stays(s)'
  BY <1>1 DEF Stays
<1>. QED
  BY <1>1, <1>2, <1>3, <1>4 DEF MovesInv, Numbered, Placed, Alone, Apart, OneSource, ItemIsSafe

LEMMA MovesInvStep == ASSUME MovesInv, [MovesNext]_moveVars PROVE MovesInv'
<1>1. ASSUME UNCHANGED move, raced' = raced PROVE Apart' /\ OneSource'
  BY <1>1 DEF MovesInv, Apart, OneSource, AtTarget
<1>2. ASSUME NEW s \in ItemScope, Mutate(s) \/ DeleteItem(s) PROVE MovesInv'
  <2>1. PICK has \in BOOLEAN : Change(s, has, None, saves) /\ (deleted' \/ (~deleted /\ (s \in memory => has)))
    <3>1. CASE Mutate(s)
      <4>1. Change(s, s \in memory, None, saves) /\ deleted' = deleted /\ deleted \in BOOLEAN
        BY <3>1 DEF Mutate, MovesInv, MovesTypeOK
      <4>2. (s \in memory) \in BOOLEAN
        OBVIOUS
      <4>3. deleted' \/ (~deleted /\ (s \in memory => s \in memory))
        BY <4>1
      <4>. QED
        BY <4>1, <4>2, <4>3, Zenon
    <3>2. CASE DeleteItem(s)
      BY <3>2 DEF DeleteItem
    <3>. QED
      BY <1>2, <3>1, <3>2
  <2>2. UNCHANGED <<file, landed, reads, move, raced>> /\ deleted' \in BOOLEAN
    BY <1>2 DEF Mutate, DeleteItem, MovesInv, MovesTypeOK
  <2>3. raced' \in BOOLEAN /\ move' \in [Mover -> MoveState \cup {NoMove}]
    BY <2>2 DEF MovesInv, MovesTypeOK
  <2>. QED
    BY <1>1, <2>1, <2>2, <2>3, ChangeStep
<1>3. ASSUME UNCHANGED <<memory, file, saves, begun, landed, move, deleted, raced>>,
             reads' \in SUBSET [scope : ItemScope, has : BOOLEAN]
      PROVE  MovesInv'
  <2>1. MovesTypeOK' /\ Numbered' /\ Placed' /\ Alone' /\ Apart' /\ OneSource'
    BY <1>3 DEF MovesInv, MovesTypeOK, Numbered, Placed, Alone, Apart, OneSource, AtTarget
  <2>2. ItemIsSafe'
    BY <1>3 DEF MovesInv, ItemIsSafe, Arrives, Stays, Current, AtTarget
  <2>. QED
    BY <2>1, <2>2 DEF MovesInv
<1>4. ASSUME NEW s \in ItemScope, ReadFile(s) PROVE MovesInv'
  <2>1. [scope |-> s, has |-> s \in file] \in [scope : ItemScope, has : BOOLEAN]
    OBVIOUS
  <2>. QED
    BY <1>3, <1>4, <2>1 DEF ReadFile, MovesInv, MovesTypeOK
<1>5. CASE UNCHANGED moveVars
  BY <1>3, <1>5 DEF moveVars, MovesInv, MovesTypeOK
<1>. QED
  BY <1>2, <1>4, <1>5, SaveEnds, LoadStep, MoveBegins, WindowReloads DEF MovesNext

(* However many moves of one item overlap, whatever else is saved, which-  *)
(* ever save fails and whenever the window goes, the item is in the file   *)
(* of some scope until the user deletes it, as long as none of the three   *)
(* races that MoveKeepsTheItem names has happened (store.ts 353-369).      *)
THEOREM MovedItemsStay == MovesSpec => []MoveKeepsTheItem
<1>1. MovesInv => MoveKeepsTheItem
  BY DEF MovesInv, ItemIsSafe, Stays, MoveKeepsTheItem
<1>. QED
  BY <1>1, MovesInvInit, MovesInvStep, PTL DEF MovesSpec
=============================================================================
