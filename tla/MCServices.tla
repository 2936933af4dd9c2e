------------------------------ MODULE MCServices ------------------------------
(***************************************************************************)
(* The services around the library, for TLC, each on its own: the keys of  *)
(* the server, the sign-in, the vaults, the caches of the workspace's      *)
(* folders, moves between scopes and runs of items.                        *)
(***************************************************************************)
EXTENDS KeySet, SignIn, Remote, Folders, Moves, Runs

VARIABLE part       \* the service the behaviour is about

(* One item as it might be edited: a flagged one, one that asks, and one   *)
(* that asks, needs a secret and wants a confirmation.                     *)
MCVersion ==
    {[body |-> "clean", asks |-> FALSE, secret |-> FALSE, confirm |-> FALSE, dangerous |-> TRUE, fileDir |-> TRUE],
     [body |-> "ask", asks |-> TRUE, secret |-> FALSE, confirm |-> FALSE, dangerous |-> FALSE, fileDir |-> FALSE],
     [body |-> "login", asks |-> TRUE, secret |-> TRUE, confirm |-> TRUE, dangerous |-> FALSE, fileDir |-> FALSE]}

vars == <<part, keyVars, signInVars, remoteVars, folderVars, moveVars, runVars>>

Some(S) == CHOOSE x \in S : TRUE

(* The services a behaviour is not about stay in one of their initial states. *)
Init ==
    /\ part \in {"keys", "signIn", "remote", "folders", "moves", "runs"}
    /\ KeyInit /\ (part # "keys" => DOMAIN rotatedAt = {Some(Kid)})
    /\ SignInInit
    /\ RemoteInit /\ (part # "remote" => configured = Some(Server))
    /\ FoldersInit /\ (part # "folders" => service = "discovery")
    /\ MovesInit /\ (part # "moves" => memory = {Some(ItemScope)})
    /\ RunsInit
    /\ part # "runs" => item = Some(Version) /\ editor = None /\ ~settings.trusted /\ settings.confirmDangerous

Next ==
    \/ part = "keys" /\ KeyNext
          /\ UNCHANGED <<signInVars, remoteVars, folderVars, moveVars, runVars, part>>
    \/ part = "signIn" /\ SignInNext
          /\ UNCHANGED <<keyVars, remoteVars, folderVars, moveVars, runVars, part>>
    \/ part = "remote" /\ RemoteNext
          /\ UNCHANGED <<keyVars, signInVars, folderVars, moveVars, runVars, part>>
    \/ part = "folders" /\ FoldersNext
          /\ UNCHANGED <<keyVars, signInVars, remoteVars, moveVars, runVars, part>>
    \/ part = "moves" /\ MovesNext
          /\ UNCHANGED <<keyVars, signInVars, remoteVars, folderVars, runVars, part>>
    \/ part = "runs" /\ RunsNext
          /\ UNCHANGED <<keyVars, signInVars, remoteVars, folderVars, moveVars, part>>

Spec == Init /\ [][Next]_vars /\ SignInFairness
=============================================================================
