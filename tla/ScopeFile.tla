------------------------------ MODULE ScopeFile ------------------------------
(***************************************************************************)
(* One snippick.json and the windows that serve it: the loading, saving    *)
(* and watching of apps/extension/src/store/store.ts.                      *)
(*                                                                         *)
(* Each VS Code window runs its own Store with its own copy of the library *)
(* in memory.  JavaScript runs without interruption from one await to the  *)
(* next, so an action is the code between two awaits: a save is a          *)
(* createDirectory, a writeFile of a temporary file, a rename and a last   *)
(* bit of code, a load is a readFile and a last bit of code, and anything  *)
(* may happen in between.                                                  *)
(*                                                                         *)
(* What the library says is a set of edits: mutation e adds e (module      *)
(* Library has the mutations themselves), and a text says which edits it   *)
(* holds.  serializeFile gives the "saved" text of a library.  A text      *)
(* written by hand or by git is another text, even for the same library,   *)
(* and may be broken, that is, refused by parseFile.                       *)
(*                                                                         *)
(* The constants in capitals below the sets switch parts of the            *)
(* environment on; a run says which it takes.                              *)
(***************************************************************************)
EXTENDS Naturals, FiniteSets

CONSTANTS
    Window,         \* the VS Code windows open on this scope
    Writer,         \* those of them whose users change the library
    Edit,           \* what users do through the extension, one mutation each
    HandEdit,       \* what is written to the file from outside
    TempName,       \* names of temporary files
    Load,           \* names of loads: a bound on those a window has in progress
    MaxExternal,    \* bound on the writes from outside
    MaxCrash,       \* bound on the crashes
    MaxRefresh,     \* bound on reloadAll and refreshScopes
    WATCHED,        \* a workspace scope; the user scope has no watcher
    OVERLAP,        \* users act while earlier actions of theirs are in progress
    WRITE_ERRORS,   \* file operations of a save may fail
    READ_ERRORS     \* readFile may fail on a file that is there

Ensure == "ensureFile"   \* the operation that is no mutation

ASSUME ScopeFileAssumption ==
    /\ Writer \subseteq Window
    /\ Ensure \notin Edit \cup TempName
    /\ Edit \cap HandEdit = {}
    /\ {MaxExternal, MaxCrash, MaxRefresh} \subseteq Nat
    /\ {WATCHED, OVERLAP, WRITE_ERRORS, READ_ERRORS} \subseteq BOOLEAN

-----------------------------------------------------------------------------
(* Texts.                                                                  *)

Content == SUBSET (Edit \cup HandEdit)

Saved(edits) == [form |-> "saved", edits |-> edits]
ByHand(edits) == [form |-> "hand", edits |-> edits]
Broken == [form |-> "broken", edits |-> {}]
Torn == [form |-> "torn", edits |-> {}]      \* a write of it is in progress
Absent == [form |-> "absent", edits |-> {}]  \* no file, and no text

Text == [form : {"saved", "hand", "broken", "torn", "absent"}, edits : Content]

(* parseFile accepts the text.  Half a JSON document is no JSON document.  *)
Valid(text) == text.form \in {"saved", "hand"}

(* What may be put in the file from outside. *)
ExternalTexts == {ByHand(edits) : edits \in SUBSET HandEdit} \cup {Broken, Absent}

-----------------------------------------------------------------------------
VARIABLES
    disk,           \* the text of snippick.json
    temps,          \* the text of each temporary file
    up,             \* the window runs
    file,           \* state.file
    error,          \* state.error is set
    lastWritten,    \* state.lastWritten
    exists,         \* state.exists
    writes,         \* the window's calls of persist that are in progress
    reads,          \* the window's calls of load that are in progress
    watching,       \* the window has a watcher on the file
    signal,         \* a watcher event is on its way to the window
    timer,          \* the window's reload timer is set
    started,        \* the mutations made so far
    acked,          \* the mutations whose promise has been fulfilled
    externals,      \* how often the file was written from outside
    crashes,        \* how many windows have crashed
    refreshes,      \* how many refreshes there were
    orphans         \* the temporary files a failed delete or a crash has left

storeVars == <<file, error, lastWritten, exists>>
watchVars == <<watching, signal, timer>>
historyVars == <<started, acked, externals, crashes, refreshes, orphans>>
vars == <<disk, temps, up, storeVars, writes, reads, watchVars, historyVars>>

Write == [op : Edit \cup {Ensure},
          step : {"directory", "write", "rename", "record", "cleanup"},
          text : Text,
          temp : TempName \cup {Ensure}]    \* Ensure: not chosen yet

Sources == {"refreshScopes", "timer", "reloadAll"}
Read == [load : Load, source : Sources, step : {"read", "apply"}, text : Text]

TypeOK ==
    /\ disk \in Text
    /\ temps \in [TempName -> Text]
    /\ {up, error, exists, watching, signal, timer} \subseteq [Window -> BOOLEAN]
    /\ file \in [Window -> Content]
    /\ lastWritten \in [Window -> Text]
    /\ writes \in [Window -> SUBSET Write]
    /\ reads \in [Window -> SUBSET Read]
    /\ started \in SUBSET Edit /\ acked \in SUBSET Edit
    /\ externals \in Nat /\ crashes \in Nat /\ refreshes \in Nat
    /\ orphans \in SUBSET TempName

Init ==
    /\ disk = Absent
    /\ temps = [n \in TempName |-> Absent]
    /\ up = [w \in Window |-> FALSE]
    /\ file = [w \in Window |-> {}]
    /\ error = [w \in Window |-> FALSE]
    /\ lastWritten = [w \in Window |-> Absent]
    /\ exists = [w \in Window |-> FALSE]
    /\ writes = [w \in Window |-> {}]
    /\ reads = [w \in Window |-> {}]
    /\ watching = [w \in Window |-> FALSE]
    /\ signal = [w \in Window |-> FALSE]
    /\ timer = [w \in Window |-> FALSE]
    /\ started = {} /\ acked = {}
    /\ externals = 0 /\ crashes = 0 /\ refreshes = 0
    /\ orphans = {}

-----------------------------------------------------------------------------
(* Users act when they please, or (OVERLAP = FALSE) only in a window that  *)
(* has finished what they asked of it before.                              *)
MayAct(w) == up[w] /\ (OVERLAP \/ (writes[w] = {} /\ reads[w] = {}))

(* A change of the file reaches every window that watches it as an event.  *)
Notify == signal' = [w \in Window |-> signal[w] \/ watching[w]]

-----------------------------------------------------------------------------
(* Loading.                                                                *)

(* load, up to its readFile, whatever other loads are in progress. *)
StartRead(w, source) ==
    \E l \in Load :
        /\ \A r \in reads[w] : r.load # l
        /\ reads' = [reads EXCEPT ![w] =
                         @ \cup {[load |-> l, source |-> source, step |-> "read", text |-> Absent]}]

(* The file system answers readFile with what is there. *)
ReadFile(w) ==
    \E r \in reads[w] :
        /\ r.step = "read"
        /\ \E text \in {disk} \cup (IF READ_ERRORS THEN {Absent} ELSE {}) :
              reads' = [reads EXCEPT ![w] =
                           (@ \ {r}) \cup {[r EXCEPT !.step = "apply", !.text = text]}]
        /\ UNCHANGED <<disk, temps, up, storeVars, writes, watchVars, historyVars>>

(***************************************************************************)
(* load, after its readFile.  Any failure to read counts as "no file yet". *)
(* A text equal to lastWritten returns early, before error is looked at.   *)
(***************************************************************************)
Install(w, text) ==
    IF text = Absent THEN
        /\ file' = [file EXCEPT ![w] = {}]
        /\ error' = [error EXCEPT ![w] = FALSE]
        /\ exists' = [exists EXCEPT ![w] = FALSE]
        /\ lastWritten' = [lastWritten EXCEPT ![w] = Absent]
    ELSE
        /\ exists' = [exists EXCEPT ![w] = TRUE]
        /\ IF text = lastWritten[w] THEN UNCHANGED <<file, error, lastWritten>>
           ELSE IF ~Valid(text) THEN
                /\ error' = [error EXCEPT ![w] = TRUE]
                /\ UNCHANGED <<file, lastWritten>>
           ELSE /\ error' = [error EXCEPT ![w] = FALSE]
                /\ lastWritten' = [lastWritten EXCEPT ![w] = text]
                /\ file' = [file EXCEPT ![w] = text.edits]

(* refreshScopes goes on, after its load, to watch the workspace files. *)
ApplyRead(w) ==
    \E r \in reads[w] :
        /\ r.step = "apply"
        /\ Install(w, r.text)
        /\ reads' = [reads EXCEPT ![w] = @ \ {r}]
        /\ watching' = [watching EXCEPT ![w] = @ \/ (WATCHED /\ r.source = "refreshScopes")]
        /\ UNCHANGED <<disk, temps, up, writes, signal, timer, historyVars>>

-----------------------------------------------------------------------------
(* What makes a window load.                                               *)

(* Mutant: the Store is never initialized. *)
ActivateWithoutLoad(w) ==
    /\ ~up[w]
    /\ up' = [up EXCEPT ![w] = TRUE]
    /\ UNCHANGED <<disk, temps, storeVars, writes, reads, watchVars, historyVars>>

(* The extension is activated: a new Store, and its first refreshScopes. *)
Activate(w) ==
    /\ ~up[w]
    /\ up' = [up EXCEPT ![w] = TRUE]
    /\ StartRead(w, "refreshScopes")
    /\ UNCHANGED <<disk, temps, storeVars, writes, watchVars, historyVars>>

(* refreshScopes, when folders or trust change: the watchers go first, and *)
(* with them the events they have not delivered.                           *)
RefreshScopes(w) ==
    /\ MayAct(w)
    /\ refreshes < MaxRefresh /\ refreshes' = refreshes + 1
    /\ StartRead(w, "refreshScopes")
    /\ watching' = [watching EXCEPT ![w] = FALSE]
    /\ signal' = [signal EXCEPT ![w] = FALSE]
    /\ UNCHANGED <<disk, temps, up, storeVars, writes, timer, started, acked, externals, crashes, orphans>>

(* reloadAll, the Refresh button. *)
ReloadAll(w) ==
    /\ MayAct(w)
    /\ refreshes < MaxRefresh /\ refreshes' = refreshes + 1
    /\ lastWritten' = [lastWritten EXCEPT ![w] = Absent]
    /\ StartRead(w, "reloadAll")
    /\ UNCHANGED <<disk, temps, up, file, error, exists, writes, watchVars,
                   started, acked, externals, crashes, orphans>>

(* Mutant: an event is dropped while a load is in progress. *)
ScheduleWhenIdle(w) ==
    /\ signal[w]
    /\ signal' = [signal EXCEPT ![w] = FALSE]
    /\ timer' = [timer EXCEPT ![w] = @ \/ reads[w] = {}]
    /\ UNCHANGED <<disk, temps, up, storeVars, writes, reads, watching, historyVars>>

(* scheduleReload: an event sets the timer, or sets it anew. *)
ScheduleReload(w) ==
    /\ signal[w]
    /\ signal' = [signal EXCEPT ![w] = FALSE]
    /\ timer' = [timer EXCEPT ![w] = TRUE]
    /\ UNCHANGED <<disk, temps, up, storeVars, writes, reads, watching, historyVars>>

TimerFires(w) ==
    /\ timer[w]
    /\ timer' = [timer EXCEPT ![w] = FALSE]
    /\ StartRead(w, "timer")
    /\ UNCHANGED <<disk, temps, up, storeVars, writes, watching, signal, historyVars>>

-----------------------------------------------------------------------------
(* Saving.                                                                 *)

(* Mutant: the text is taken before the mutation is installed. *)
StartWriteStale(w, op, content) ==
    writes' = [writes EXCEPT ![w] = @ \cup
                  {[op |-> op, step |-> "directory", text |-> Saved(file[w]), temp |-> Ensure]}]

(* persist, up to its first await: it takes its text from memory now. *)
StartWrite(w, op, content) ==
    writes' = [writes EXCEPT ![w] = @ \cup
                  {[op |-> op, step |-> "directory", text |-> Saved(content), temp |-> Ensure]}]

(* mutate: memory changes whether or not persist then refuses. *)
Mutate(w, e) ==
    /\ w \in Writer /\ MayAct(w)
    /\ e \notin started
    /\ started' = started \cup {e}
    /\ file' = [file EXCEPT ![w] = @ \cup {e}]
    /\ IF error[w] THEN UNCHANGED writes ELSE StartWrite(w, e, file[w] \cup {e})
    /\ UNCHANGED <<disk, temps, up, error, lastWritten, exists, reads, watchVars,
                   acked, externals, crashes, refreshes, orphans>>

(* ensureFile, for "Edit as JSON". *)
EnsureFile(w) ==
    /\ w \in Writer /\ MayAct(w)
    /\ ~exists[w] /\ ~error[w]
    /\ \A x \in writes[w] : x.op # Ensure
    /\ StartWrite(w, Ensure, file[w])
    /\ UNCHANGED <<disk, temps, up, storeVars, reads, watchVars, historyVars>>

Advance(w, x, step) ==
    writes' = [writes EXCEPT ![w] = (@ \ {x}) \cup {[x EXCEPT !.step = step]}]

Drop(w, x) == writes' = [writes EXCEPT ![w] = @ \ {x}]

(* Mutant: the name holds the time only, so two windows may share a file.  *)
NameWithoutPid(w, n) ==
    \/ \A v \in Window : \A y \in writes[v] : y.temp # n
    \/ \E v \in Window \ {w} : \E y \in writes[v] : y.temp = n

(* A temporary file's name holds the process and Date.now().  That no two  *)
(* saves of a window see the same millisecond is an assumption.            *)
NameFor(w, n) ==
    /\ temps[n] = Absent
    /\ \A v \in Window : \A y \in writes[v] : y.temp # n

(* The directory is there; writeFile creates the file and starts to fill it. *)
StartTemp(w) ==
    \E x \in writes[w], n \in TempName :
        /\ x.step = "directory"
        /\ NameFor(w, n)
        /\ temps' = [temps EXCEPT ![n] = Torn]
        /\ writes' = [writes EXCEPT ![w] =
                         (@ \ {x}) \cup {[x EXCEPT !.step = "write", !.temp = n]}]
        /\ UNCHANGED <<disk, up, storeVars, reads, watchVars, historyVars>>

(* writeFile is done.  Bytes written to a file that was renamed meanwhile  *)
(* are written to the file under its new name.                             *)
FillTemp(w) ==
    \E x \in writes[w] :
        /\ x.step = "write"
        /\ Advance(w, x, "rename")
        /\ IF temps[x.temp] # Absent
           THEN temps' = [temps EXCEPT ![x.temp] = x.text] /\ UNCHANGED disk
           ELSE disk' = (IF disk = Torn THEN x.text ELSE disk) /\ UNCHANGED temps
        /\ UNCHANGED <<up, storeVars, reads, watchVars, historyVars>>

(* Mutant: writeFile is not awaited. *)
RenameUnawaited(w) ==
    \E x \in writes[w] :
        /\ x.step \in {"write", "rename"}
        /\ temps[x.temp] # Absent
        /\ disk' = temps[x.temp]
        /\ temps' = [temps EXCEPT ![x.temp] = Absent]
        /\ Advance(w, x, "record")
        /\ Notify
        /\ UNCHANGED <<up, storeVars, reads, watching, timer, historyVars>>

(* The rename over the target, which the file system does in one step. *)
Rename(w) ==
    \E x \in writes[w] :
        /\ x.step = "rename"
        /\ temps[x.temp] # Absent
        /\ disk' = temps[x.temp]
        /\ temps' = [temps EXCEPT ![x.temp] = Absent]
        /\ Advance(w, x, "record")
        /\ Notify
        /\ UNCHANGED <<up, storeVars, reads, watching, timer, historyVars>>

(* persist, after its rename, and the end of the mutation. *)
Record(w) ==
    \E x \in writes[w] :
        /\ x.step = "record"
        /\ lastWritten' = [lastWritten EXCEPT ![w] = x.text]
        /\ exists' = [exists EXCEPT ![w] = TRUE]
        /\ acked' = acked \cup ({x.op} \cap Edit)
        /\ Drop(w, x)
        /\ UNCHANGED <<disk, temps, up, file, error, reads, watchVars,
                       started, externals, crashes, refreshes, orphans>>

(* createDirectory fails outside the try block; writeFile and rename fail  *)
(* inside it, and rename also when its temporary file is gone.             *)
FailWrite(w) ==
    \E x \in writes[w] :
        /\ \/ WRITE_ERRORS /\ x.step \in {"directory", "write", "rename"}
           \/ x.step = "rename" /\ temps[x.temp] = Absent
        /\ IF x.step = "directory" THEN Drop(w, x) ELSE Advance(w, x, "cleanup")
        /\ UNCHANGED <<disk, temps, up, storeVars, reads, watchVars, historyVars>>

(* Mutant: the catch block only rethrows. *)
CleanupNothing(w) ==
    \E x \in writes[w] :
        /\ x.step = "cleanup"
        /\ Drop(w, x)
        /\ UNCHANGED <<disk, temps, up, storeVars, reads, watchVars, historyVars>>

(* The catch block deletes the temporary file, and the mutation fails.  A  *)
(* delete that fails in turn is ignored and leaves the file behind.        *)
Cleanup(w) ==
    \E x \in writes[w] :
        /\ x.step = "cleanup"
        /\ \/ temps' = [temps EXCEPT ![x.temp] = Absent] /\ UNCHANGED orphans
           \/ WRITE_ERRORS /\ orphans' = orphans \cup {x.temp} /\ UNCHANGED temps
        /\ Drop(w, x)
        /\ UNCHANGED <<disk, up, storeVars, reads, watchVars,
                       started, acked, externals, crashes, refreshes>>

-----------------------------------------------------------------------------
(* The rest of the world.                                                  *)

(* An editor, git or another tool replaces the file. *)
WriteExternally(text) ==
    /\ externals < MaxExternal /\ externals' = externals + 1
    /\ disk' = text
    /\ Notify
    /\ UNCHANGED <<temps, up, storeVars, writes, reads, watching, timer,
                   started, acked, crashes, refreshes, orphans>>

(* The window goes at any point; what it had begun on disk stays there,    *)
(* its temporary files too, which nobody ever deletes.                     *)
Crash(w) ==
    /\ up[w]
    /\ crashes < MaxCrash /\ crashes' = crashes + 1
    /\ up' = [up EXCEPT ![w] = FALSE]
    /\ file' = [file EXCEPT ![w] = {}]
    /\ error' = [error EXCEPT ![w] = FALSE]
    /\ lastWritten' = [lastWritten EXCEPT ![w] = Absent]
    /\ exists' = [exists EXCEPT ![w] = FALSE]
    /\ writes' = [writes EXCEPT ![w] = {}]
    /\ reads' = [reads EXCEPT ![w] = {}]
    /\ watching' = [watching EXCEPT ![w] = FALSE]
    /\ signal' = [signal EXCEPT ![w] = FALSE]
    /\ timer' = [timer EXCEPT ![w] = FALSE]
    /\ orphans' = orphans \cup
                    {n \in TempName : temps[n] # Absent /\ \E x \in writes[w] : x.temp = n}
    /\ UNCHANGED <<disk, temps, started, acked, externals, refreshes>>

(* The steps the event loop, the timers and the file system will take. *)
Internal(w) ==
    \/ ReadFile(w) \/ ApplyRead(w) \/ ScheduleReload(w) \/ TimerFires(w)
    \/ StartTemp(w) \/ FillTemp(w) \/ Rename(w) \/ Record(w) \/ FailWrite(w) \/ Cleanup(w)

Next ==
    \/ \E w \in Window :
          \/ Activate(w) \/ RefreshScopes(w) \/ ReloadAll(w) \/ EnsureFile(w) \/ Crash(w)
          \/ \E e \in Edit : Mutate(w, e)
          \/ Internal(w)
    \/ \E text \in ExternalTexts : WriteExternally(text)

Spec == Init /\ [][Next]_vars

(***************************************************************************)
(* VS Code answers every file system call, delivers every watcher event    *)
(* and runs every timer; nobody has to act, and nothing has to fail.       *)
(***************************************************************************)
Fairness ==
    \A w \in Window :
        /\ WF_vars(ReadFile(w)) /\ WF_vars(ApplyRead(w))
        /\ WF_vars(ScheduleReload(w)) /\ WF_vars(TimerFires(w))
        /\ WF_vars(StartTemp(w)) /\ WF_vars(FillTemp(w)) /\ WF_vars(Rename(w))
        /\ WF_vars(Record(w)) /\ WF_vars(Cleanup(w))

FairSpec == Spec /\ Fairness

-----------------------------------------------------------------------------
(* Properties of the code as it is                                         *)

(* The saves of a window that is the only one to save and does not overlap *)
(* (see OVERLAP), with its failures, crashes, restarts and refreshes, keep *)
(* a journal: nothing that was ever saved leaves the file, nothing enters  *)
(* it that was not asked for, and an acknowledgement comes last.           *)
Log == INSTANCE Journal WITH asked <- started, saved <- disk.edits

KeepsAJournal == Log!Spec

(* What a window that saves serves covers what is in the file whenever its *)
(* user may act, or the next mutation would save less than the file holds. *)
MemoryCoversDisk ==
    \A w \in Writer : MayAct(w) => disk.edits \subseteq file[w]

(* Nobody ever sees half a file, wherever a window crashes, as long as two *)
(* saves never share a temporary file (store.ts 247).                      *)
NeverTorn == disk # Torn

(* A rename puts in place the text its own save serialized, however saves  *)
(* of this and of other windows interleave.                                *)
SavesItsOwnText ==
    [][\A w \in Window : \A x \in writes[w], y \in writes'[w] :
          x.op = y.op /\ x.step = "rename" /\ y.step = "record" => disk' = x.text]_vars

(* Temporary files do not pile up (store.ts 259-268): each one there is    *)
(* belongs to a save in progress, unless its window crashed or the delete  *)
(* after its failure failed too.                                           *)
TempsAreInUse ==
    \A n \in TempName \ orphans :
        temps[n] # Absent => \E w \in Window : \E x \in writes[w] : x.temp = n

ValidTexts == {ByHand(edits) : edits \in SUBSET HandEdit} \cup {Saved(edits) : edits \in SUBSET Edit}

(* A valid text, written by hand or by another window, that a watching     *)
(* window is told of is in the end what the window serves, and goes on     *)
(* serving, if the file does not change again: through events, loads and   *)
(* refreshes that overlap, as long as a load that has read an older text   *)
(* does not wait for its turn beside one that has read this text.  A       *)
(* window that saves meanwhile may miss it: a load that ends between its   *)
(* rename and its Record leaves lastWritten wrong.                         *)
ToldOf(w, text) == watching[w] /\ (signal[w] \/ timer[w]) /\ disk = text

Overtaken(w, text) ==
    \E old, new \in reads[w] :
        old.step = "apply" /\ old.text # text /\ new.step = "apply" /\ new.text = text

Settles(w, text) == [](disk = text /\ up[w])

ChangesAreServed ==
    \A w \in Window \ Writer, text \in ValidTexts :
        ToldOf(w, text) /\ Settles(w, text) /\ []~Overtaken(w, text) ~> [](file[w] = text.edits)

-----------------------------------------------------------------------------
(* What is said of the code, and does not hold                             *)

(* "External changes are picked up automatically" (apps/extension          *)
(* README.md 83-84): once picked up, a valid text is also writable again.  *)
ChangesArePickedUp ==
    \A w \in Window \ Writer, text \in ValidTexts :
        ToldOf(w, text) ~> ((file[w] = text.edits /\ ~error[w]) \/ disk # text \/ ~watching[w])

(* "... so our own writes do not trigger a reload" (store.ts 61).  When    *)
(* nobody else writes, a load that takes an edit out of memory can only    *)
(* have read an earlier write of this window.                              *)
OwnWritesDoNotReload ==
    [][\A w \in Window : up[w] /\ up'[w] => file[w] \subseteq file'[w]]_vars
=============================================================================
