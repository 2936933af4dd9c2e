-------------------------------- MODULE KeySet --------------------------------
(***************************************************************************)
(* The keys the server verifies access tokens with: createKeySetReader of  *)
(* packages/auth-verify/src/jwks.ts, as the guard of middleware.ts calls   *)
(* it, once per request.                                                   *)
(*                                                                         *)
(* Time is counted in ticks.  A promise that settles runs everything that  *)
(* awaits it before the next event, so that all requests waiting for one   *)
(* load are answered in one step.  The authorization server publishes a    *)
(* key from some time on.  A request names any key, published or not, or   *)
(* none: the id is read from the token before its signature is checked.    *)
(* A load takes as long as the source does (no timeout bounds it).         *)
(***************************************************************************)
EXTENDS NoValue, Naturals, FiniteSets

CONSTANTS
    Kid,                \* the ids of keys
    NoKid,              \* a token that names no key
    Request,            \* requests that can be under way at once
    RELOAD_INTERVAL,    \* RELOAD_INTERVAL_MS, in ticks
    MaxNow              \* bound on the time

ASSUME KeySetAssumption ==
    /\ RELOAD_INTERVAL \in Nat \ {0}
    /\ NoKid \notin Kid
    /\ None \notin [ids : SUBSET Kid, loadedAt : Nat]
    /\ None \notin [started : Nat, read : BOOLEAN, ids : SUBSET Kid]
    /\ None \notin Nat

VARIABLES
    now,
    rotatedAt,          \* each published key, since when
    cached,             \* None, or [ids, loadedAt]
    inFlight,           \* None, or [started, read, ids]
    request             \* each request: [kid, asked, joined, status]; joined is
                        \* when the load it waits for began, if it waits for one

keyVars == <<now, rotatedAt, cached, inFlight, request>>

KeyInit ==
    /\ now = 0
    /\ \E k \in Kid : rotatedAt = [id \in {k} |-> 0]
    /\ cached = None
    /\ inFlight = None
    /\ request = [r \in Request |-> [kid |-> NoKid, asked |-> 0, joined |-> 0, status |-> "idle"]]

(* jwtVerify looks for the key in the set; one that is not named must be   *)
(* the only one there.                                                     *)
Verify(kid, ids) ==
    IF kid \in ids \/ (kid = NoKid /\ Cardinality(ids) = 1) THEN "accepted" ELSE "refused"

NeedsLoad(kid) ==
    cached # None =>
        /\ kid \notin cached.ids \cup {NoKid}
        /\ now - cached.loadedAt >= RELOAD_INTERVAL

(* keySet, up to its first await: an unseen key joins the load under way,  *)
(* or starts one.                                                          *)
Ask(r) ==
    /\ request[r].status # "waiting"
    /\ \E kid \in Kid \cup {NoKid} :
          LET answer(joined, status) ==
                  request' = [request EXCEPT ![r] = [kid |-> kid, asked |-> now, joined |-> joined, status |-> status]]
          IN  \/ ~NeedsLoad(kid) /\ answer(now, Verify(kid, cached.ids)) /\ UNCHANGED inFlight
              \/ /\ NeedsLoad(kid) /\ inFlight # None
                 /\ answer(inFlight.started, "waiting")
                 /\ UNCHANGED inFlight
              \/ /\ NeedsLoad(kid) /\ inFlight = None
                 /\ answer(now, "waiting")
                 /\ inFlight' = [started |-> now, read |-> FALSE, ids |-> {}]
    /\ UNCHANGED <<now, rotatedAt, cached>>

(* The query of the source reads the keys published at that moment. *)
ReadKeys ==
    /\ inFlight # None /\ ~inFlight.read
    /\ inFlight' = [inFlight EXCEPT !.read = TRUE, !.ids = DOMAIN rotatedAt]
    /\ UNCHANGED <<now, rotatedAt, cached, request>>

AnswerAll(status) ==
    request' = [r \in Request |->
                   IF request[r].status = "waiting"
                   THEN [request[r] EXCEPT !.status = status[request[r].kid]]
                   ELSE request[r]]

(* Mutant: the keys are taken to be as new as the end of their load. *)
SettleLate ==
    /\ inFlight # None /\ inFlight.read
    /\ cached' = [ids |-> inFlight.ids, loadedAt |-> now]
    /\ inFlight' = None
    /\ AnswerAll([kid \in Kid \cup {NoKid} |-> Verify(kid, inFlight.ids)])
    /\ UNCHANGED <<now, rotatedAt>>

(* The load is over: the keys count from its start. *)
Settle ==
    /\ inFlight # None /\ inFlight.read
    /\ cached' = [ids |-> inFlight.ids, loadedAt |-> inFlight.started]
    /\ inFlight' = None
    /\ AnswerAll([kid \in Kid \cup {NoKid} |-> Verify(kid, inFlight.ids)])
    /\ UNCHANGED <<now, rotatedAt>>

(* A load that fails frees the slot; who waited is refused with its error. *)
FailLoad ==
    /\ inFlight # None
    /\ inFlight' = None
    /\ AnswerAll([kid \in Kid \cup {NoKid} |-> "failed"])
    /\ UNCHANGED <<now, rotatedAt, cached>>

Rotate ==
    /\ \E k \in Kid \ DOMAIN rotatedAt :
          rotatedAt' = [id \in DOMAIN rotatedAt \cup {k} |-> IF id = k THEN now ELSE rotatedAt[id]]
    /\ UNCHANGED <<now, cached, inFlight, request>>

Tick ==
    /\ now < MaxNow
    /\ now' = now + 1
    /\ UNCHANGED <<rotatedAt, cached, inFlight, request>>

KeyNext ==
    \/ \E r \in Request : Ask(r)
    \/ ReadKeys
    \/ Settle
    \/ FailLoad
    \/ Rotate
    \/ Tick

KeySpec == KeyInit /\ [][KeyNext]_keyVars

-----------------------------------------------------------------------------
(* "Rotation still propagates within this window" (jwks.ts 28): a token of *)
(* a key published RELOAD_INTERVAL ago is never refused for its key,       *)
(* whichever load, started by whatever request, it is answered from, and   *)
(* however many tokens of unknown keys have moved the time of the last     *)
(* reload.  The one exception is the request that joins a load under way   *)
(* for as long as that: the load may have read the keys before.            *)
RotationIsSeen ==
    \A r \in Request :
        LET kid == request[r].kid
            asked == request[r].asked
            joined == request[r].joined
        IN  request[r].status = "refused" /\ kid \in DOMAIN rotatedAt =>
                \/ asked - rotatedAt[kid] < RELOAD_INTERVAL
                \/ asked - joined >= RELOAD_INTERVAL /\ rotatedAt[kid] >= joined
=============================================================================
