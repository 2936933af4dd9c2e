-------------------------------- MODULE Remote --------------------------------
(***************************************************************************)
(* The vaults of the tree: RemoteService of                                *)
(* apps/extension/src/remote/remoteService.ts.                             *)
(*                                                                         *)
(* A refresh asks for the session of the server that is configured, then   *)
(* for its vaults, and sets all the tree shows in one assignment; a change *)
(* of the setting or of the sessions starts another, and the last to end   *)
(* wins.  Which vaults are mounted is one value, a set of server and vault *)
(* (vaultKey): two servers may know a vault by the same id.                *)
(***************************************************************************)
EXTENDS NoValue, FiniteSets

CONSTANTS
    Server, VaultId,
    RemoteCall          \* the calls under way at once

ASSUME RemoteAssumption == None \notin RemoteCall

VARIABLES
    configured,         \* the setting snipPick.remote.url
    sessions,           \* the servers there is a session for
    shown,              \* the service's state: [server, signedIn, vaults]
    mountedKeys,        \* the value of snipPick.mountedVaults
    remoteCall,         \* each: [op, step, server, offered]
    picked,             \* of each server, what the user has last picked there (history)
    newest,             \* the call whose refresh began last, until it ends (history)
    current             \* what is shown is that refresh's answer (history)

latest == <<newest, current>>
remoteVars == <<configured, sessions, shown, mountedKeys, remoteCall, picked, latest>>

NoCall == [op |-> "none", step |-> "idle", server |-> None, offered |-> {}]
Nothing(server) == [server |-> server, signedIn |-> FALSE, vaults |-> {}]

RemoteInit ==
    /\ configured \in Server
    /\ sessions = {}
    /\ shown = Nothing(None)
    /\ mountedKeys = {}
    /\ remoteCall = [c \in RemoteCall |-> NoCall]
    /\ picked = [s \in Server |-> {}]
    /\ newest = None
    /\ current = FALSE

Mounted(state) == {v \in state.vaults : <<state.server, v>> \in mountedKeys}

(* What follows the refresh of a call: selectVaults reads the state once,  *)
(* and asks, if there is something to choose from.                         *)
After(op, state) ==
    IF op = "selectVaults" /\ state.signedIn /\ state.vaults # {}
    THEN [op |-> op, step |-> "picking", server |-> state.server, offered |-> state.vaults]
    ELSE NoCall

SetState(c, state) ==
    /\ shown' = state
    /\ remoteCall' = [remoteCall EXCEPT ![c] = After(@.op, state)]
    /\ current' = (c = newest)
    /\ newest' = IF c = newest THEN None ELSE newest
    /\ UNCHANGED <<configured, sessions, mountedKeys, picked>>

(* refresh up to its first await, for whoever asks for it. *)
Refreshing(c, op, url) ==
    /\ remoteCall[c] = NoCall
    /\ IF url = None
       THEN shown' = Nothing(None) /\ newest' = None /\ current' = TRUE /\ UNCHANGED remoteCall
       ELSE /\ remoteCall' = [remoteCall EXCEPT ![c] = [op |-> op, step |-> "session", server |-> url, offered |-> {}]]
            /\ newest' = c /\ current' = FALSE
            /\ UNCHANGED shown

StartRefresh(c, op) ==
    /\ Refreshing(c, op, configured)
    /\ UNCHANGED <<configured, sessions, mountedKeys, picked>>

(* Mutant: the sessions change and no refresh follows. *)
ChangeSessionsQuietly(c) ==
    /\ \E s \in Server : sessions' = IF s \in sessions THEN sessions \ {s} ELSE sessions \cup {s}
    /\ UNCHANGED <<configured, shown, mountedKeys, remoteCall, picked, latest>>

(* Signing in or out, here or in another window, and the settings. *)
ChangeSessions(c) ==
    /\ \E s \in Server : sessions' = IF s \in sessions THEN sessions \ {s} ELSE sessions \cup {s}
    /\ Refreshing(c, "refresh", configured)
    /\ UNCHANGED <<configured, mountedKeys, picked>>

ChangeSetting(c) ==
    /\ \E url \in Server \cup {None} :
          /\ url # configured
          /\ configured' = url
          /\ Refreshing(c, "refresh", url)
    /\ UNCHANGED <<sessions, mountedKeys, picked>>

(* sessionFor; a session whose tokens cannot be refreshed is none. *)
SessionAnswer(c) ==
    LET call == remoteCall[c]
    IN  /\ call.step = "session"
        /\ \/ SetState(c, Nothing(call.server))
           \/ /\ call.server \in sessions
              /\ remoteCall' = [remoteCall EXCEPT ![c].step = "vaults"]
              /\ UNCHANGED <<configured, sessions, shown, mountedKeys, picked, latest>>

(* The list of the vaults; an error leaves none, and the account. *)
VaultsAnswer(c) ==
    /\ remoteCall[c].step = "vaults"
    /\ \E vaults \in SUBSET VaultId :
          SetState(c, [server |-> remoteCall[c].server, signedIn |-> TRUE, vaults |-> vaults])

(* Mutant: the vaults are mounted for the server that is shown by now. *)
PickVaultsLate(c) ==
    LET call == remoteCall[c]
    IN  /\ call.step = "picking"
        /\ \E vaults \in SUBSET call.offered :
              /\ mountedKeys' = {<<shown.server, v>> : v \in vaults}
              /\ picked' = [picked EXCEPT ![call.server] = vaults]
        /\ remoteCall' = [remoteCall EXCEPT ![c] = NoCall]
        /\ UNCHANGED <<configured, sessions, shown, latest>>

(* The server and its vaults are those the question was about; what was    *)
(* mounted of other servers is forgotten.                                  *)
PickVaults(c) ==
    LET call == remoteCall[c]
    IN  /\ call.step = "picking"
        /\ \E vaults \in SUBSET call.offered :
              /\ mountedKeys' = {<<call.server, v>> : v \in vaults}
              /\ picked' = [picked EXCEPT ![call.server] = vaults]
        /\ remoteCall' = [remoteCall EXCEPT ![c] = NoCall]
        /\ UNCHANGED <<configured, sessions, shown, latest>>

DismissVaults(c) ==
    /\ remoteCall[c].step = "picking"
    /\ remoteCall' = [remoteCall EXCEPT ![c] = NoCall]
    /\ UNCHANGED <<configured, sessions, shown, mountedKeys, picked, latest>>

RemoteNext ==
    \E c \in RemoteCall :
        \/ StartRefresh(c, "refresh") \/ StartRefresh(c, "selectVaults")
        \/ ChangeSessions(c) \/ ChangeSetting(c)
        \/ SessionAnswer(c) \/ VaultsAnswer(c) \/ PickVaults(c) \/ DismissVaults(c)

RemoteSpec == RemoteInit /\ [][RemoteNext]_remoteVars

-----------------------------------------------------------------------------
(* The tree shows of a server only vaults the user has picked for that     *)
(* server, the last time they were latest there, however refreshes,         *)
(* sign-ins and changes of the server overlap with the question            *)
(* (remoteService.ts 72-77 and 149-181).                                   *)
TreeShowsPickedVaults == shown.server # None => Mounted(shown) \subseteq picked[shown.server]

(* "Keeps the signed-in session and the vault list the tree renders"       *)
(* (remoteService.ts 22): from the answer of the refresh that began last   *)
(* to the next refresh, the server shown is the one configured, and an     *)
(* account is shown only while there is a session there, however many      *)
(* changes of the setting and of the sessions its two questions            *)
(* overlapped with.  The answer of an older refresh may be set after it,   *)
(* for nothing numbers them: what it shows is not spoken of.               *)
ShowsTheSession ==
    current => shown.server = configured /\ (shown.signedIn => shown.server \in sessions)
=============================================================================
