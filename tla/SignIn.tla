-------------------------------- MODULE SignIn --------------------------------
(***************************************************************************)
(* Signing in through the browser: createSession and runFlow of            *)
(* apps/extension/src/auth/authProvider.ts, AuthCallbackRouter, and        *)
(* describeServer, parseCallback and exchangeCode of packages/api-client.  *)
(*                                                                         *)
(* Several flows may be under way.  Each has a state of its own, for which *)
(* the flow's name stands here, and the router keeps a promise for each    *)
(* state it waits for.  Redirects come late, twice or never, as the        *)
(* browser and the user please; one delivered to another window is lost.   *)
(* The timer, the cancel button and the redirect race for the promise.     *)
(* What is stored at the end, and when, is the subject of AuthSessions.    *)
(***************************************************************************)
EXTENDS NoValue

CONSTANTS
    Flow        \* the sign-ins

ASSUME SignInAssumption == None # "refused"

VARIABLES
    flow,       \* each: [phase, wait, took, cancelled, failure]
    pending,    \* the states in the router's map
    redirects   \* what the browser may deliver: [state, answer]

signInVars == <<flow, pending, redirects>>

(* What a redirect says: an error, a code, neither, or a code from another *)
(* issuer than the one asked.                                              *)
Answer == {"error", "code", "noCode", "otherIssuer"}

SignInInit ==
    /\ flow = [f \in Flow |-> [phase |-> "idle", wait |-> "none", took |-> None,
                               cancelled |-> FALSE, failure |-> None]]
    /\ pending = {}
    /\ redirects = {}

Becomes(f, phase) == flow' = [flow EXCEPT ![f].phase = phase]
Fails(f, failure) == flow' = [flow EXCEPT ![f].phase = "failed", ![f].failure = failure]

(* The server is configured, or entered in a box that may be dismissed. *)
StartFlow(f) ==
    /\ flow[f].phase = "idle"
    /\ Becomes(f, "describing") \/ Fails(f, "no server")
    /\ UNCHANGED <<pending, redirects>>

(* The metadata has been read; the router waits, the browser is called.    *)
Describe(f) ==
    /\ flow[f].phase = "describing"
    /\ \/ /\ flow' = [flow EXCEPT ![f].phase = "opening", ![f].wait = "pending"]
          /\ pending' = pending \cup {f}
       \/ Fails(f, "server") /\ UNCHANGED pending
    /\ UNCHANGED redirects

(* Without a browser the flow ends, and its promise is left to the timer.  *)
Open(f) ==
    /\ flow[f].phase = "opening"
    /\ Becomes(f, "waiting") \/ Fails(f, "browser")
    /\ UNCHANGED <<pending, redirects>>

(* The browser can be there before openExternal has answered. *)
Redirect(f) ==
    /\ flow[f].wait # "none" /\ flow[f].failure # "browser"
    /\ \A r \in redirects : r.state # f
    /\ \E a \in Answer : redirects' = redirects \cup {[state |-> f, answer |-> a]}
    /\ UNCHANGED <<flow, pending>>

(* Mutant: one promise is as good as another. *)
HandleUriToAny ==
    \E r \in redirects, f \in pending :
        /\ pending' = pending \ {f}
        /\ flow' = [flow EXCEPT ![f].wait = "resolved", ![f].took = r]
        /\ UNCHANGED redirects

(* Mutant: an error stops the timer and resolves nothing. *)
HandleUriQuietly ==
    \E r \in redirects :
        /\ r.state \in pending
        /\ pending' = pending \ {r.state}
        /\ flow' = IF r.answer = "error" THEN [flow EXCEPT ![r.state].wait = "none"]
                   ELSE [flow EXCEPT ![r.state].wait = "resolved", ![r.state].took = r]
        /\ UNCHANGED redirects

(* A redirect stays, to be delivered again.  One nobody waits for is ignored. *)
HandleUri ==
    \E r \in redirects :
        /\ r.state \in pending
        /\ pending' = pending \ {r.state}
        /\ flow' = [flow EXCEPT ![r.state].wait = "resolved", ![r.state].took = r]
        /\ UNCHANGED redirects

Reject(f) ==
    /\ f \in pending
    /\ pending' = pending \ {f}
    /\ flow' = [flow EXCEPT ![f].wait = "rejected"]
    /\ UNCHANGED redirects

TimeOut(f) == Reject(f)

(* The button is there until the flow ends; it does something while the    *)
(* router waits.                                                           *)
Cancel(f) ==
    /\ flow[f].phase \in {"describing", "opening", "waiting", "exchanging", "asking"}
    /\ ~flow[f].cancelled
    /\ flow' = [flow EXCEPT ![f].cancelled = TRUE,
                            ![f].wait = IF @ = "pending" THEN "rejected" ELSE @]
    /\ pending' = pending \ {f}
    /\ UNCHANGED redirects

(* Cancelled before the router waited: the token says so on the next turn. *)
CancelledBefore(f) == flow[f].cancelled /\ Reject(f)

(* parseCallback. *)
Resume(f) ==
    /\ flow[f].phase = "waiting"
    /\ \/ flow[f].wait = "rejected" /\ Fails(f, "gave up")
       \/ /\ flow[f].wait = "resolved"
          /\ IF flow[f].took = [state |-> f, answer |-> "code"]
             THEN Becomes(f, "exchanging")
             ELSE Fails(f, "refused")
    /\ UNCHANGED <<pending, redirects>>

(* The code for tokens, and the tokens for the account. *)
Exchange(f) ==
    /\ flow[f].phase = "exchanging"
    /\ Becomes(f, "asking") \/ Fails(f, "server")
    /\ UNCHANGED <<pending, redirects>>

Me(f) ==
    /\ flow[f].phase = "asking"
    /\ Becomes(f, "signedIn") \/ Fails(f, "server")
    /\ UNCHANGED <<pending, redirects>>

SignInNext ==
    \/ HandleUri
    \/ \E f \in Flow :
          \/ StartFlow(f) \/ Describe(f) \/ Open(f) \/ Redirect(f) \/ TimeOut(f) \/ Cancel(f)
          \/ CancelledBefore(f) \/ Resume(f) \/ Exchange(f) \/ Me(f)

(* Requests are answered or fail, the question whether to open the browser *)
(* is answered, timers go off.  Redirects and the user owe nothing.        *)
SignInFairness ==
    \A f \in Flow :
        /\ WF_signInVars(Describe(f)) /\ WF_signInVars(Open(f)) /\ WF_signInVars(TimeOut(f))
        /\ WF_signInVars(Resume(f)) /\ WF_signInVars(Exchange(f)) /\ WF_signInVars(Me(f))

SignInSpec == SignInInit /\ [][SignInNext]_signInVars /\ SignInFairness

-----------------------------------------------------------------------------
(* A redirect goes to the flow that asked for it, whatever other flows do, *)
(* and to no flow that has given up: the map has exactly the promises that *)
(* wait, a flow is refused only by an answer that is none, and it signs in *)
(* only with its own code (callbackRouter.ts 22-59, authorize.ts 57-89).   *)
CallbacksReachTheirFlow ==
    /\ pending = {f \in Flow : flow[f].wait = "pending"}
    /\ \A f \in Flow :
          /\ flow[f].took # None => flow[f].took.state = f
          /\ flow[f].failure = "refused" => flow[f].took.answer # "code"
          /\ flow[f].phase = "signedIn" => flow[f].took = [state |-> f, answer |-> "code"]

(* Every sign-in ends, signed in or with an error, and leaves no promise   *)
(* behind (callbackRouter.ts 46-52, authProvider.ts 170-177).              *)
FlowsEnd ==
    \A f \in Flow :
        flow[f].phase = "describing" ~> flow[f].phase \in {"signedIn", "failed"} /\ f \notin pending
=============================================================================
