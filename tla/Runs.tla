--------------------------------- MODULE Runs ---------------------------------
(***************************************************************************)
(* Running an item: ItemRunner of apps/extension/src/runner/runner.ts with *)
(* TemplateResolver, the terminals, the secrets and the variable history.  *)
(*                                                                         *)
(* A run asks for the values of its placeholders, for a secret that is not *)
(* stored and for a confirmation, one question after the other; the user   *)
(* may edit the item, switch editors and change settings before answering. *)
(* A text that is run is made of a version of the template, the file       *)
(* ${file} stood for, the value entered and the secret; Danger says in     *)
(* detail what detectDangerous flags.                                      *)
(***************************************************************************)
EXTENDS NoValue, Naturals

CONSTANTS
    Version,        \* the items the user may turn the item into
    EditorFile,     \* files, each in a directory of its own
    RunCall         \* runs under way at once

VARIABLES
    item,           \* the item in the store, or None
    editor,         \* the file of the active editor
    settings,       \* [trusted, confirmDangerous]
    secret,         \* the value in SecretStorage
    history,        \* the value last entered for the item's placeholder
    run,            \* each run: what it has read so far
    sent            \* what the last run has done, as the user saw it

runVars == <<item, editor, settings, secret, history, run, sent>>

Value == {"plain", "rm -rf"}

ASSUME RunsAssumption ==
    /\ \A v \in Version : {v.asks, v.secret} \subseteq BOOLEAN
    /\ None \notin Value

NotRunning == [step |-> "none"]

RunsInit ==
    /\ item \in Version
    /\ editor \in EditorFile \cup {None}
    /\ settings \in [trusted : BOOLEAN, confirmDangerous : BOOLEAN]
    /\ secret = None
    /\ history = None
    /\ run = [r \in RunCall |-> NotRunning]
    /\ sent = None

(* A version: [body, asks, secret, confirm, dangerous, fileDir]. *)
Dangerous(r) == r.item.dangerous \/ "rm -rf" \in {r.text.value, r.text.secret}

(* The next question after `step`. *)
NextStep(i, step) ==
    CASE step = "start" /\ i.asks -> "prompt"
      [] step \in {"start", "prompt"} /\ (step = "start" => ~i.asks) /\ i.secret -> "secret"
      [] OTHER -> "confirm"

(* run up to its first await: the item and the built-ins are read here.    *)
Start(r) ==
    /\ run[r] = NotRunning
    /\ item # None /\ settings.trusted
    /\ run' = [run EXCEPT ![r] =
          [step |-> NextStep(item, "start"), item |-> item, confirmed |-> None,
           text |-> [body |-> item.body, file |-> editor, value |-> None, secret |-> None]]]
    /\ UNCHANGED <<item, editor, settings, secret, history, sent>>

(* runAdHoc: a discovered task has nothing to ask for. *)
StartAdHoc(r) ==
    /\ run[r] = NotRunning
    /\ settings.trusted
    /\ \E d \in BOOLEAN :
          run' = [run EXCEPT ![r] =
             [step |-> "confirm", confirmed |-> None,
              item |-> [body |-> "task", asks |-> FALSE, secret |-> FALSE, confirm |-> FALSE,
                        dangerous |-> d, fileDir |-> FALSE],
              text |-> [body |-> "task", file |-> editor, value |-> None, secret |-> None]]]
    /\ UNCHANGED <<item, editor, settings, secret, history, sent>>

(* A question dismissed ends the run. *)
Dismiss(r) ==
    /\ run[r] # NotRunning
    /\ run' = [run EXCEPT ![r] = NotRunning]
    /\ UNCHANGED <<item, editor, settings, secret, history, sent>>

EnterValue(r) ==
    /\ run[r].step = "prompt"
    /\ \E v \in Value :
          /\ history' = v
          /\ run' = [run EXCEPT ![r].text.value = v, ![r].step = NextStep(run[r].item, "prompt")]
    /\ UNCHANGED <<item, editor, settings, secret, sent>>

(* A secret that is not stored is asked for, and may be kept. *)
FindSecret(r) ==
    /\ run[r].step = "secret"
    /\ \E v \in IF secret = None THEN Value ELSE {secret}, keep \in BOOLEAN :
          /\ secret' = IF keep THEN v ELSE secret
          /\ run' = [run EXCEPT ![r].text.secret = v, ![r].step = "confirm"]
    /\ UNCHANGED <<item, editor, settings, history, sent>>

(* terminalTarget, for the editor that is active by now. *)
TerminalTarget(i) == IF i.fileDir /\ editor # None THEN editor ELSE "workspace"

(* The text goes to the terminal of a directory, a new one if there is none *)
(* or its shell has exited.                                                *)
Send(r) ==
    /\ sent' = [item |-> run[r].item, text |-> run[r].text, confirmed |-> run[r].confirmed,
                flags |-> settings.confirmDangerous, directory |-> TerminalTarget(run[r].item)]
    /\ run' = [run EXCEPT ![r] = NotRunning]
    /\ UNCHANGED <<item, editor, settings, secret, history>>

(* Mutant: the item's flag is looked up when the question is due. *)
NeedsConfirmLate(r) == (item # None /\ item.confirm) \/ (settings.confirmDangerous /\ Dangerous(run[r]))

(* confirmIfNeeded: the item is the one the run began with. *)
NeedsConfirm(r) == run[r].item.confirm \/ (settings.confirmDangerous /\ Dangerous(run[r]))

Run(r) ==
    /\ run[r].step = "confirm" /\ ~NeedsConfirm(r)
    /\ Send(r)

(* The question shows the text. *)
AskConfirm(r) ==
    /\ run[r].step = "confirm" /\ NeedsConfirm(r)
    /\ run' = [run EXCEPT ![r].step = "confirming", ![r].confirmed = run[r].text]
    /\ UNCHANGED <<item, editor, settings, secret, history, sent>>

Confirm(r) ==
    /\ run[r].step = "confirming"
    /\ Send(r)

(* The user and the rest of the window. *)
EditItem ==
    /\ item' \in Version \cup {None}
    /\ UNCHANGED <<editor, settings, secret, history, run, sent>>

SwitchEditor ==
    /\ editor' \in EditorFile \cup {None}
    /\ UNCHANGED <<item, settings, secret, history, run, sent>>

ChangeSettings ==
    /\ settings' = [settings EXCEPT !.confirmDangerous = ~@] \/ settings' = [settings EXCEPT !.trusted = TRUE]
    /\ UNCHANGED <<item, editor, secret, history, run, sent>>

RunsNext ==
    \/ EditItem \/ SwitchEditor \/ ChangeSettings
    \/ \E r \in RunCall :
          \/ Start(r) \/ StartAdHoc(r) \/ Dismiss(r) \/ EnterValue(r) \/ FindSecret(r)
          \/ Run(r) \/ AskConfirm(r) \/ Confirm(r)

RunsSpec == RunsInit /\ [][RunsNext]_runVars

-----------------------------------------------------------------------------
(* What reaches a terminal is what the user agreed to: the text of one     *)
(* version of the item, whatever is edited during the questions; and if    *)
(* that version asks for it, or the text is flagged, exactly that text was *)
(* shown and confirmed (runner.ts 99-112 and 118-135).                     *)
RunsWhatWasConfirmed ==
    sent # None =>
        /\ sent.text.body = sent.item.body
        /\ sent.item.asks = (sent.text.value # None)
        /\ sent.item.secret = (sent.text.secret # None)
        /\ sent.item.confirm \/ (sent.flags /\ Dangerous(sent)) => sent.confirmed = sent.text
=============================================================================
