--------------------------- MODULE ScopeFileProofs ---------------------------
(***************************************************************************)
(* Theorems about ScopeFile, for any windows, mutations and bounds.        *)
(*                                                                         *)
(* The first part holds for windows that overlap in every way the code     *)
(* lets them, with errors, crashes and writes from outside: a save owns    *)
(* its temporary file, and the file holds what the save is about to put in *)
(* place.  The second part is about one window whose user waits for what   *)
(* was asked, in a file nobody else writes: memory covers the file, and    *)
(* every text under way covers what was acknowledged, which makes the file *)
(* a Journal.                                                              *)
(***************************************************************************)
EXTENDS ScopeFile, TLAPS

(* The steps at which a save has a temporary file of its own, or had one.  *)
Named(x) == x.step # "directory"

(* A mutation is saved at most once, and so is ensureFile at one time. *)
OwnOps == \A w \in Window : \A x, y \in writes[w] : x.op = y.op => x = y

OpsStarted == \A w \in Window : \A x \in writes[w] : x.op # Ensure => x.op \in started

(* No two saves, of whatever windows, have one temporary file. *)
OwnTemps ==
    \A v, w \in Window : \A x \in writes[v], y \in writes[w] :
        x.temp = y.temp /\ x.temp # Ensure => v = w /\ x = y

(* What a save's temporary file holds, step by step. *)
TempOf(x) ==
    /\ x.text.form = "saved"
    /\ x.step = "directory" <=> x.temp = Ensure
    /\ x.step = "write" => temps[x.temp] = Torn
    /\ x.step = "rename" => temps[x.temp] = x.text
    /\ x.step = "record" => temps[x.temp] = Absent

TempsMatch == \A w \in Window : \A x \in writes[w] : TempOf(x)

SaveInv == OwnOps /\ OpsStarted /\ OwnTemps /\ TempsMatch
IInv == TypeOK /\ SaveInv /\ NeverTorn /\ TempsAreInUse

-----------------------------------------------------------------------------
(* Types.                                                                  *)

LEMMA Texts ==
    /\ {Torn, Absent, Broken} \subseteq Text
    /\ \A edits \in SUBSET Edit : Saved(edits) \in Text
    /\ ExternalTexts \subseteq Text
    /\ Torn # Absent /\ \A edits \in Content : Saved(edits) \notin {Torn, Absent}
BY DEF Text, Content, Torn, Absent, Broken, Saved, ByHand, ExternalTexts

(* A save goes on, or is over. *)
LEMMA WriteTypes ==
    ASSUME TypeOK, NEW w \in Window, NEW x \in writes[w],
           NEW step \in {"directory", "write", "rename", "record", "cleanup"}
    PROVE  /\ x \in Write
           /\ Advance(w, x, step) => writes' \in [Window -> SUBSET Write]
           /\ Drop(w, x) => writes' \in [Window -> SUBSET Write]
BY DEF TypeOK, Write, Advance, Drop

LEMMA TypesInit == Init => TypeOK
BY Texts DEF Init, TypeOK, Content

LEMMA StartReadTypes ==
    ASSUME TypeOK, NEW w \in Window, NEW source \in Sources, StartRead(w, source)
    PROVE  reads' \in [Window -> SUBSET Read]
<1>1. PICK l \in Load :
         reads' = [reads EXCEPT ![w] =
                      @ \cup {[load |-> l, source |-> source, step |-> "read", text |-> Absent]}]
  BY DEF StartRead
<1>. QED
  BY <1>1, Texts DEF TypeOK, Read

LEMMA StartWriteTypes ==
    ASSUME TypeOK, NEW w \in Window, NEW op \in Edit \cup {Ensure},
           NEW content \in Content, StartWrite(w, op, content)
    PROVE  writes' \in [Window -> SUBSET Write]
BY DEF TypeOK, StartWrite, Write, Text, Saved

LEMMA InstallTypes ==
    ASSUME TypeOK, NEW w \in Window, NEW text \in Text, Install(w, text)
    PROVE  /\ file' \in [Window -> Content]
           /\ {error', exists'} \subseteq [Window -> BOOLEAN]
           /\ lastWritten' \in [Window -> Text]
<1>1. text.edits \in Content /\ {} \in Content
  BY DEF Text, Content
<1>2. file' \in [Window -> Content]
  BY <1>1 DEF TypeOK, Install
<1>3. lastWritten' \in [Window -> Text]
  BY Texts DEF TypeOK, Install
<1>4. error' \in [Window -> BOOLEAN]
  BY DEF TypeOK, Install
<1>5. exists' \in [Window -> BOOLEAN]
  BY DEF TypeOK, Install
<1>. QED
  BY <1>2, <1>3, <1>4, <1>5

LEMMA TypesStep == ASSUME TypeOK, TempsMatch, [Next]_vars PROVE TypeOK'
<1>1. ASSUME NEW w \in Window, Activate(w) PROVE TypeOK'
  BY <1>1, StartReadTypes DEF Activate, TypeOK, storeVars, watchVars, historyVars, Sources
<1>2. ASSUME NEW w \in Window, RefreshScopes(w) PROVE TypeOK'
  BY <1>2, StartReadTypes, ScopeFileAssumption DEF RefreshScopes, TypeOK, storeVars, watchVars, Sources
<1>3. ASSUME NEW w \in Window, ReloadAll(w) PROVE TypeOK'
  BY <1>3, StartReadTypes, Texts DEF ReloadAll, TypeOK, watchVars, Sources
<1>4. ASSUME NEW w \in Window, EnsureFile(w) PROVE TypeOK'
  BY <1>4, StartWriteTypes DEF EnsureFile, TypeOK, storeVars, watchVars, historyVars
<1>5. ASSUME NEW w \in Window, Crash(w) PROVE TypeOK'
  BY <1>5, Texts DEF Crash, TypeOK, Content
<1>6. ASSUME NEW w \in Window, NEW e \in Edit, Mutate(w, e) PROVE TypeOK'
  <2>1. file[w] \cup {e} \in Content
    BY DEF TypeOK, Content
  <2>2. writes' \in [Window -> SUBSET Write]
    BY <1>6, <2>1, StartWriteTypes DEF Mutate, TypeOK
  <2>. QED
    BY <1>6, <2>1, <2>2 DEF Mutate, TypeOK, watchVars
<1>7. ASSUME NEW w \in Window, ReadFile(w) PROVE TypeOK'
  <2>1. PICK r \in reads[w], text \in Text :
            reads' = [reads EXCEPT ![w] =
                         (@ \ {r}) \cup {[r EXCEPT !.step = "apply", !.text = text]}]
    BY <1>7, Texts DEF ReadFile, TypeOK
  <2>2. r \in Read
    BY DEF TypeOK
  <2>3. [r EXCEPT !.step = "apply", !.text = text] \in Read
    BY <2>2 DEF Read
  <2>4. reads' \in [Window -> SUBSET Read]
    BY <2>1, <2>2, <2>3 DEF TypeOK
  <2>. QED
    BY <1>7, <2>4 DEF ReadFile, TypeOK, storeVars, watchVars, historyVars
<1>8. ASSUME NEW w \in Window, ApplyRead(w) PROVE TypeOK'
  <2>1. PICK r \in reads[w] : Install(w, r.text) /\ reads' = [reads EXCEPT ![w] = @ \ {r}]
    BY <1>8 DEF ApplyRead
  <2>2. r.text \in Text
    BY DEF TypeOK, Read
  <2>. QED
    BY <1>8, <2>1, <2>2, InstallTypes DEF ApplyRead, TypeOK, historyVars
<1>9. ASSUME NEW w \in Window, ScheduleReload(w) PROVE TypeOK'
  BY <1>9 DEF ScheduleReload, TypeOK, storeVars, historyVars
<1>10. ASSUME NEW w \in Window, TimerFires(w) PROVE TypeOK'
  BY <1>10, StartReadTypes DEF TimerFires, TypeOK, storeVars, historyVars, Sources
<1>11. ASSUME NEW w \in Window, StartTemp(w) PROVE TypeOK'
  <2>1. PICK x \in writes[w], n \in TempName :
            /\ temps' = [temps EXCEPT ![n] = Torn]
            /\ writes' = [writes EXCEPT ![w] =
                             (@ \ {x}) \cup {[x EXCEPT !.step = "write", !.temp = n]}]
    BY <1>11 DEF StartTemp
  <2>2. x \in Write
    BY DEF TypeOK
  <2>3. [x EXCEPT !.step = "write", !.temp = n] \in Write
    BY <2>2 DEF Write
  <2>4. writes' \in [Window -> SUBSET Write] /\ temps' \in [TempName -> Text]
    BY <2>1, <2>2, <2>3, Texts DEF TypeOK
  <2>. QED
    BY <1>11, <2>4 DEF StartTemp, TypeOK, storeVars, watchVars, historyVars
<1>12. ASSUME NEW w \in Window, FillTemp(w) PROVE TypeOK'
  <2>1. PICK x \in writes[w] :
            /\ Advance(w, x, "rename")
            /\ \/ temps' = [temps EXCEPT ![x.temp] = x.text] /\ UNCHANGED disk
               \/ disk' \in {disk, x.text} /\ UNCHANGED temps
    BY <1>12 DEF FillTemp
  <2>2. x.text \in Text /\ writes' \in [Window -> SUBSET Write]
    BY <2>1, WriteTypes DEF Write
  <2>3. disk' \in Text /\ temps' \in [TempName -> Text]
    BY <2>1, <2>2 DEF TypeOK
  <2>. QED
    BY <1>12, <2>2, <2>3 DEF FillTemp, TypeOK, storeVars, watchVars, historyVars
<1>13. ASSUME NEW w \in Window, Rename(w) PROVE TypeOK'
  <2>1. PICK x \in writes[w] :
            /\ x.step = "rename"
            /\ disk' = temps[x.temp]
            /\ temps' = [temps EXCEPT ![x.temp] = Absent]
            /\ Advance(w, x, "record")
    BY <1>13 DEF Rename
  <2>2. writes' \in [Window -> SUBSET Write] /\ x \in Write
    BY <2>1, WriteTypes
  <2>3. temps' \in [TempName -> Text]
    BY <2>1, Texts DEF TypeOK
  <2>4. x.temp \in TempName
    BY <2>1, <2>2 DEF TempsMatch, TempOf, Write
  <2>5. signal' \in [Window -> BOOLEAN]
    BY <1>13 DEF Rename, Notify, TypeOK
  <2>. QED
    BY <1>13, <2>1, <2>2, <2>3, <2>5, <2>4 DEF Rename, TypeOK, storeVars, historyVars
<1>14. ASSUME NEW w \in Window, Record(w) PROVE TypeOK'
  BY <1>14, WriteTypes DEF Record, TypeOK, Write, watchVars
<1>15. ASSUME NEW w \in Window, FailWrite(w) PROVE TypeOK'
  BY <1>15, WriteTypes DEF FailWrite, TypeOK, storeVars, watchVars, historyVars
<1>16. ASSUME NEW w \in Window, Cleanup(w) PROVE TypeOK'
  <2>1. PICK x \in writes[w] :
            /\ x.step = "cleanup" /\ Drop(w, x)
            /\ \/ temps' = [temps EXCEPT ![x.temp] = Absent] /\ UNCHANGED orphans
               \/ orphans' = orphans \cup {x.temp} /\ UNCHANGED temps
    BY <1>16 DEF Cleanup
  <2>2. x.temp \in TempName
    BY <2>1, WriteTypes DEF TempsMatch, TempOf, Write
  <2>3. temps' \in [TempName -> Text] /\ orphans' \in SUBSET TempName
    BY <2>1, <2>2, Texts DEF TypeOK
  <2>4. writes' \in [Window -> SUBSET Write]
    BY <2>1, WriteTypes
  <2>. QED
    BY <1>16, <2>3, <2>4 DEF Cleanup, TypeOK, storeVars, watchVars
<1>17. ASSUME NEW text \in ExternalTexts, WriteExternally(text) PROVE TypeOK'
  BY <1>17, Texts DEF WriteExternally, Notify, TypeOK, storeVars
<1>18. CASE UNCHANGED vars
  BY <1>18 DEF TypeOK, vars, storeVars, watchVars, historyVars
<1>. QED
  BY <1>1, <1>2, <1>3, <1>4, <1>5, <1>6, <1>7, <1>8, <1>9, <1>10, <1>11, <1>12, <1>13,
     <1>14, <1>15, <1>16, <1>17, <1>18 DEF Next, Internal

-----------------------------------------------------------------------------
(* A save owns its temporary file.                                         *)

SafeInv == SaveInv /\ NeverTorn /\ TempsAreInUse

LEMMA SafeInit == Init => SafeInv
BY Texts DEF Init, SafeInv, SaveInv, OwnOps, OpsStarted, OwnTemps, TempsMatch, NeverTorn, TempsAreInUse, Torn, Absent

(* A step that leaves the saves and the files alone. *)
LEMMA SafeQuiet ==
    ASSUME SafeInv, UNCHANGED <<disk, temps, writes, started, orphans>>
    PROVE  SafeInv'
BY DEF SafeInv, SaveInv, OwnOps, OpsStarted, OwnTemps, TempsMatch, TempOf, NeverTorn, TempsAreInUse

(* A save begins. *)
LEMMA SafeStartWrite ==
    ASSUME TypeOK, SafeInv, NEW w \in Window, NEW op \in Edit \cup {Ensure}, NEW content \in Content,
           StartWrite(w, op, content),
           \A x \in writes[w] : x.op # op,
           op # Ensure => op \in started', started \subseteq started',
           UNCHANGED <<disk, temps, orphans>>
    PROVE  SafeInv'
<1>. DEFINE z == [op |-> op, step |-> "directory", text |-> Saved(content), temp |-> Ensure]
<1>1. writes' = [writes EXCEPT ![w] = @ \cup {z}]
  BY DEF StartWrite
<1>2. z.op = op /\ z.text.form = "saved" /\ z.step = "directory" /\ z.temp = Ensure
  BY DEF Saved
<1>. HIDE DEF z
<1>3. /\ \A v \in Window : \A y \in writes'[v] : y \in writes[v] \/ (v = w /\ y = z)
      /\ \A v \in Window : writes[v] \subseteq writes'[v]
  BY <1>1 DEF TypeOK
<1>4. OwnOps'
  BY <1>3, <1>2 DEF OwnOps, SafeInv, SaveInv
<1>5. OpsStarted'
  BY <1>3, <1>2 DEF OpsStarted, SafeInv, SaveInv
<1>6. OwnTemps'
  BY <1>3, <1>2 DEF OwnTemps, SafeInv, SaveInv
<1>7. TempsMatch'
  BY <1>3, <1>2 DEF TempsMatch, TempOf, SafeInv, SaveInv
<1>8. NeverTorn' /\ TempsAreInUse'
  BY <1>3 DEF NeverTorn, TempsAreInUse, SafeInv
<1>. QED
  BY <1>4, <1>5, <1>6, <1>7, <1>8 DEF SafeInv, SaveInv

(* A save goes on with its text and its temporary file. *)
LEMMA SafeAdvance ==
    ASSUME TypeOK, SaveInv, NEW w \in Window, NEW x \in writes[w],
           NEW step \in {"write", "rename", "record", "cleanup"}, Named(x),
           Advance(w, x, step), UNCHANGED started,
           \A v \in Window : \A y \in writes[v] : Named(y) /\ y.temp # x.temp => temps'[y.temp] = temps[y.temp],
           step = "write" => temps'[x.temp] = Torn,
           step = "rename" => temps'[x.temp] = x.text,
           step = "record" => temps'[x.temp] = Absent
    PROVE  SaveInv'
<1>. DEFINE z == [x EXCEPT !.step = step]
<1>1. writes' = [writes EXCEPT ![w] = (@ \ {x}) \cup {z}]
  BY DEF Advance
<1>2. z.op = x.op /\ z.text = x.text /\ z.temp = x.temp /\ z.step = step
  BY WriteTypes DEF Write
<1>. HIDE DEF z
<1>3. \A v \in Window : \A y \in writes'[v] : (y \in writes[v] /\ (v = w => y # x)) \/ (v = w /\ y = z)
  BY <1>1 DEF TypeOK
<1>4. OwnOps'
  BY <1>3, <1>2 DEF OwnOps, SaveInv
<1>5. OpsStarted'
  BY <1>3, <1>2 DEF OpsStarted, SaveInv
<1>6. OwnTemps'
  BY <1>3, <1>2 DEF OwnTemps, SaveInv
<1>7. TempOf(x) /\ x.temp # Ensure
  BY DEF TempsMatch, TempOf, SaveInv, Named
<1>8. \A v \in Window : \A y \in writes'[v] : y # z => y.temp # x.temp \/ y.temp = Ensure
  BY <1>3, <1>2, <1>7 DEF OwnTemps, SaveInv
<1>9. TempsMatch'
  BY <1>3, <1>2, <1>7, <1>8 DEF TempsMatch, TempOf, SaveInv, Named
<1>. QED
  BY <1>4, <1>5, <1>6, <1>9 DEF SaveInv

(* A save is over. *)
LEMMA SafeDrop ==
    ASSUME TypeOK, SaveInv, NEW w \in Window, NEW x \in writes[w],
           Drop(w, x), UNCHANGED started,
           \A v \in Window : \A y \in writes[v] : Named(y) /\ y.temp # x.temp => temps'[y.temp] = temps[y.temp]
    PROVE  SaveInv'
<1>1. \A v \in Window : \A y \in writes'[v] : y \in writes[v] /\ (v = w => y # x)
  BY DEF Drop, TypeOK
<1>2. OwnOps' /\ OpsStarted'
  BY <1>1 DEF OwnOps, OpsStarted, SaveInv
<1>3. OwnTemps'
  BY <1>1 DEF OwnTemps, SaveInv
<1>4. \A v \in Window : \A y \in writes'[v] : Named(y) => y.temp # x.temp
  BY <1>1 DEF OwnTemps, SaveInv, TempsMatch, TempOf, Named
<1>5. TempsMatch'
  BY <1>1, <1>4 DEF TempsMatch, TempOf, SaveInv, Named
<1>. QED
  BY <1>2, <1>3, <1>5 DEF SaveInv

LEMMA InUseAdvance ==
    ASSUME TypeOK, TempsAreInUse, NEW w \in Window, NEW x \in writes[w],
           NEW step \in {"write", "rename", "record", "cleanup"},
           Advance(w, x, step), UNCHANGED orphans,
           \A n \in TempName : temps'[n] # Absent => temps[n] # Absent
    PROVE  TempsAreInUse'
<1>. DEFINE z == [x EXCEPT !.step = step]
<1>1. z.temp = x.temp
  BY WriteTypes DEF Write
<1>. HIDE DEF z
<1>2. \A v \in Window : \A y \in writes[v] : y \in writes'[v] \/ (v = w /\ y = x /\ z \in writes'[v])
  BY DEF Advance, TypeOK, z
<1>. QED
  BY <1>1, <1>2 DEF TempsAreInUse

LEMMA InUseDrop ==
    ASSUME TypeOK, TempsAreInUse, NEW w \in Window, NEW x \in writes[w],
           Drop(w, x), orphans \subseteq orphans',
           \A n \in TempName \ orphans' : temps'[n] # Absent => temps[n] # Absent /\ n # x.temp
    PROVE  TempsAreInUse'
<1>1. \A v \in Window : \A y \in writes[v] : y \in writes'[v] \/ (v = w /\ y = x)
  BY DEF Drop, TypeOK
<1>. QED
  BY <1>1 DEF TempsAreInUse

LEMMA SafeStep == ASSUME TypeOK, SafeInv, [Next]_vars PROVE SafeInv'
<1>1. ASSUME NEW w \in Window,
             \/ Activate(w) \/ RefreshScopes(w) \/ ReloadAll(w) \/ ReadFile(w) \/ ApplyRead(w)
             \/ ScheduleReload(w) \/ TimerFires(w)
      PROVE  SafeInv'
  BY <1>1, SafeQuiet DEF Activate, RefreshScopes, ReloadAll, ReadFile, ApplyRead, ScheduleReload,
     TimerFires, historyVars
<1>2. ASSUME NEW w \in Window, EnsureFile(w) PROVE SafeInv'
  BY <1>2, SafeStartWrite DEF EnsureFile, historyVars, TypeOK
<1>3. ASSUME NEW w \in Window, NEW e \in Edit, Mutate(w, e) PROVE SafeInv'
  <2>1. CASE error[w]
    BY <1>3, <2>1 DEF Mutate, SafeInv, SaveInv, OwnOps, OpsStarted, OwnTemps, TempsMatch, TempOf,
       NeverTorn, TempsAreInUse
  <2>2. CASE ~error[w]
    <3>1. file[w] \cup {e} \in Content
      BY DEF TypeOK, Content
    <3>2. \A x \in writes[w] : x.op # e
      BY <1>3, ScopeFileAssumption DEF Mutate, SafeInv, SaveInv, OpsStarted
    <3>. QED
      BY <1>3, <2>2, <3>1, <3>2, SafeStartWrite DEF Mutate
  <2>. QED
    BY <2>1, <2>2
<1>4. ASSUME NEW w \in Window, StartTemp(w) PROVE SafeInv'
  <2>1. PICK x \in writes[w], n \in TempName :
            /\ x.step = "directory" /\ NameFor(w, n)
            /\ temps' = [temps EXCEPT ![n] = Torn]
            /\ writes' = [writes EXCEPT ![w] =
                             (@ \ {x}) \cup {[x EXCEPT !.step = "write", !.temp = n]}]
    BY <1>4 DEF StartTemp
  <2>. DEFINE z == [x EXCEPT !.step = "write", !.temp = n]
  <2>2. x \in Write /\ n # Ensure
    BY ScopeFileAssumption DEF TypeOK
  <2>3. z.op = x.op /\ z.text = x.text /\ z.temp = n /\ z.step = "write"
    BY <2>2 DEF Write
  <2>. HIDE DEF z
  <2>4. \A v \in Window : \A y \in writes'[v] :
            (y \in writes[v] /\ (v = w => y # x)) \/ (v = w /\ y = z)
    BY <2>1 DEF TypeOK, z
  <2>5. \A v \in Window : \A y \in writes[v] : y.temp # n
    BY <2>1 DEF NameFor
  <2>6. OwnOps' /\ OpsStarted'
    BY <1>4, <2>3, <2>4 DEF StartTemp, historyVars, SafeInv, SaveInv, OwnOps, OpsStarted
  <2>7. OwnTemps'
    BY <2>3, <2>4, <2>5 DEF SafeInv, SaveInv, OwnTemps
  <2>8. temps'[n] = Torn /\ \A k \in TempName \ {n} : temps'[k] = temps[k]
    BY <2>1 DEF TypeOK
  <2>9. \A v \in Window : \A y \in writes[v] : y.step # "directory" => y.temp \in TempName
    BY DEF TypeOK, Write, SafeInv, SaveInv, TempsMatch, TempOf
  <2>10. TempsMatch'
    BY <2>2, <2>3, <2>4, <2>5, <2>8, <2>9 DEF SafeInv, SaveInv, TempsMatch, TempOf
  <2>11. NeverTorn'
    BY <1>4 DEF StartTemp, SafeInv, NeverTorn
  <2>12. TempsAreInUse'
    <3>1. \A v \in Window : \A y \in writes[v] : y # x => y \in writes'[v]
      BY <2>1 DEF TypeOK
    <3>2. z \in writes'[w] /\ UNCHANGED orphans /\ x.temp = Ensure
      BY <1>4, <2>1 DEF TypeOK, StartTemp, historyVars, z, SafeInv, SaveInv, TempsMatch, TempOf
    <3>. QED
      BY <2>3, <2>8, <3>1, <3>2, ScopeFileAssumption DEF SafeInv, TempsAreInUse
  <2>. QED
    BY <2>6, <2>7, <2>10, <2>11, <2>12 DEF SafeInv, SaveInv
<1>5. ASSUME NEW w \in Window, FillTemp(w) PROVE SafeInv'
  <2>1. PICK x \in writes[w] :
            /\ x.step = "write" /\ Advance(w, x, "rename")
            /\ IF temps[x.temp] # Absent
               THEN temps' = [temps EXCEPT ![x.temp] = x.text] /\ UNCHANGED disk
               ELSE disk' = (IF disk = Torn THEN x.text ELSE disk) /\ UNCHANGED temps
    BY <1>5 DEF FillTemp
  <2>2. x \in Write /\ TempOf(x) /\ x.temp \in TempName /\ Named(x)
    BY <2>1 DEF TypeOK, Write, SafeInv, SaveInv, TempsMatch, TempOf, Named
  <2>3. temps' = [temps EXCEPT ![x.temp] = x.text] /\ UNCHANGED disk
    BY <2>1, <2>2, Texts DEF TempOf
  <2>4. /\ temps'[x.temp] = x.text
        /\ \A v \in Window : \A y \in writes[v] :
               Named(y) /\ y.temp # x.temp => temps'[y.temp] = temps[y.temp]
    BY <2>2, <2>3 DEF TypeOK, Write, SafeInv, SaveInv, TempsMatch, TempOf, Named
  <2>5. SaveInv'
    BY <1>5, <2>1, <2>2, <2>4, SafeAdvance DEF FillTemp, historyVars, SafeInv
  <2>6. \A n \in TempName : temps'[n] # Absent => temps[n] # Absent
    BY <2>1, <2>2, <2>3, Texts DEF TypeOK, TempOf
  <2>7. TempsAreInUse'
    BY <1>5, <2>1, <2>6, InUseAdvance DEF FillTemp, historyVars, SafeInv
  <2>. QED
    BY <2>3, <2>5, <2>7 DEF SafeInv, NeverTorn
<1>6. ASSUME NEW w \in Window, Rename(w) PROVE SafeInv'
  <2>1. PICK x \in writes[w] :
            /\ x.step = "rename" /\ Advance(w, x, "record")
            /\ disk' = temps[x.temp]
            /\ temps' = [temps EXCEPT ![x.temp] = Absent]
    BY <1>6 DEF Rename
  <2>2. x \in Write /\ TempOf(x) /\ x.temp \in TempName /\ Named(x)
    BY <2>1 DEF TypeOK, Write, SafeInv, SaveInv, TempsMatch, TempOf, Named
  <2>3. /\ temps'[x.temp] = Absent
        /\ \A v \in Window : \A y \in writes[v] :
               Named(y) /\ y.temp # x.temp => temps'[y.temp] = temps[y.temp]
    BY <2>1, <2>2 DEF TypeOK, Write, SafeInv, SaveInv, TempsMatch, TempOf, Named
  <2>4. SaveInv'
    BY <1>6, <2>1, <2>2, <2>3, SafeAdvance DEF Rename, historyVars, SafeInv
  <2>5. \A n \in TempName : temps'[n] # Absent => temps[n] # Absent
    BY <2>1, <2>2 DEF TypeOK
  <2>6. TempsAreInUse'
    BY <1>6, <2>1, <2>5, InUseAdvance DEF Rename, historyVars, SafeInv
  <2>7. NeverTorn'
    BY <2>1, <2>2 DEF TempOf, NeverTorn, Torn
  <2>. QED
    BY <2>4, <2>6, <2>7 DEF SafeInv
<1>7. ASSUME NEW w \in Window, FailWrite(w) PROVE SafeInv'
  <2>1. PICK x \in writes[w] : IF x.step = "directory" THEN Drop(w, x) ELSE Advance(w, x, "cleanup")
    BY <1>7 DEF FailWrite
  <2>2. UNCHANGED <<disk, temps, started, orphans>>
    BY <1>7 DEF FailWrite, historyVars
  <2>3. CASE x.step = "directory"
    <3>1. x.temp \notin TempName
      BY <2>3, ScopeFileAssumption DEF SafeInv, SaveInv, TempsMatch, TempOf
    <3>. QED
      BY <2>1, <2>2, <2>3, <3>1, SafeDrop, InUseDrop DEF SafeInv, NeverTorn
  <2>4. CASE x.step # "directory"
    BY <2>1, <2>2, <2>4, SafeAdvance, InUseAdvance DEF SafeInv, NeverTorn, Named
  <2>. QED
    BY <2>3, <2>4
<1>8. ASSUME NEW w \in Window, Cleanup(w) PROVE SafeInv'
  <2>1. PICK x \in writes[w] :
            /\ x.step = "cleanup" /\ Drop(w, x)
            /\ \/ temps' = [temps EXCEPT ![x.temp] = Absent] /\ UNCHANGED orphans
               \/ orphans' = orphans \cup {x.temp} /\ UNCHANGED temps
    BY <1>8 DEF Cleanup
  <2>2. UNCHANGED <<disk, started>>
    BY <1>8 DEF Cleanup
  <2>3. x \in Write /\ x.temp \in TempName
    BY <2>1 DEF TypeOK, Write, SafeInv, SaveInv, TempsMatch, TempOf
  <2>4. \A v \in Window : \A y \in writes[v] :
            Named(y) /\ y.temp # x.temp => temps'[y.temp] = temps[y.temp]
    BY <2>1, <2>3 DEF TypeOK, Write, SafeInv, SaveInv, TempsMatch, TempOf, Named
  <2>5. orphans \subseteq orphans'
    BY <2>1
  <2>6. \A n \in TempName \ orphans' : temps'[n] # Absent => temps[n] # Absent /\ n # x.temp
    BY <2>1, <2>3 DEF TypeOK
  <2>. QED
    BY <2>1, <2>2, <2>4, <2>5, <2>6, SafeDrop, InUseDrop DEF SafeInv, NeverTorn
<1>9. ASSUME NEW w \in Window, Record(w) PROVE SafeInv'
  <2>1. PICK x \in writes[w] : x.step = "record" /\ Drop(w, x)
    BY <1>9 DEF Record
  <2>2. UNCHANGED <<disk, temps, started, orphans>>
    BY <1>9 DEF Record
  <2>3. x.temp \in TempName => temps[x.temp] = Absent
    BY <2>1 DEF SafeInv, SaveInv, TempsMatch, TempOf
  <2>. QED
    BY <2>1, <2>2, <2>3, SafeDrop, InUseDrop DEF SafeInv, NeverTorn
<1>10. ASSUME NEW w \in Window, Crash(w) PROVE SafeInv'
  <2>1. \A v \in Window : writes'[v] \subseteq writes[v]
    BY <1>10 DEF Crash, TypeOK
  <2>2. \A v \in Window : v # w => writes'[v] = writes[v]
    BY <1>10 DEF Crash, TypeOK
  <2>3. TempsAreInUse'
    BY <1>10, <2>2 DEF Crash, SafeInv, TempsAreInUse
  <2>. QED
    BY <1>10, <2>1, <2>3 DEF Crash, SafeInv, SaveInv, OwnOps, OpsStarted, OwnTemps, TempsMatch, TempOf,
       NeverTorn
<1>11. ASSUME NEW text \in ExternalTexts, WriteExternally(text) PROVE SafeInv'
  <2>1. text # Torn
    BY DEF ExternalTexts, Torn, ByHand, Broken, Absent
  <2>. QED
    BY <1>11, <2>1 DEF WriteExternally, SafeInv, SaveInv, OwnOps, OpsStarted, OwnTemps, TempsMatch,
       TempOf, NeverTorn, TempsAreInUse
<1>12. CASE UNCHANGED vars
  BY <1>12, SafeQuiet DEF vars, historyVars
<1>. QED
  BY <1>1, <1>2, <1>3, <1>4, <1>5, <1>10, <1>11, <1>12,
     <1>6, <1>7, <1>8, <1>9 DEF Next, Internal

LEMMA IInvHolds == Spec => []IInv
<1>1. Init => IInv
  BY TypesInit, SafeInit DEF IInv, SafeInv
<1>2. IInv /\ [Next]_vars => IInv'
  BY TypesStep, SafeStep DEF IInv, SafeInv, SaveInv
<1>. QED
  BY <1>1, <1>2, PTL DEF Spec

(* Every variable of ScopeFile keeps its type, which needs that a save has *)
(* a temporary file from the moment its directory is there.                *)
THEOREM TypeCorrect == Spec => []TypeOK
BY IInvHolds, PTL DEF IInv

(* The file is one complete text in every state, however many windows save *)
(* at once, whatever fails and wherever they crash.                        *)
THEOREM FileIsNeverTorn == Spec => []NeverTorn
BY IInvHolds, PTL DEF IInv

(* Every temporary file there is belongs to a save in progress, other than *)
(* those a crash, or a delete that failed too, has left behind.            *)
THEOREM TempsBelongToSaves == Spec => []TempsAreInUse
BY IInvHolds, PTL DEF IInv

LEMMA RenameIsOwn ==
    ASSUME IInv, [Next]_vars
    PROVE  [\A w \in Window : \A x \in writes[w], y \in writes'[w] :
              x.op = y.op /\ x.step = "rename" /\ y.step = "record" => disk' = x.text]_vars
<1>. SUFFICES ASSUME NEW w \in Window, NEW x \in writes[w], NEW y \in writes'[w],
                     x.op = y.op, x.step = "rename", y.step = "record"
              PROVE  disk' = x.text
  OBVIOUS
<1>1. y \notin writes[w]
  BY DEF IInv, SaveInv, OwnOps
<1>2. Rename(w)
  <2>1. \A v \in Window : Rename(v) => v = w
    BY <1>1 DEF Rename, Advance, IInv, TypeOK
  <2>2. writes'[w] # writes[w]
    BY <1>1
  <2>3. \A v \in Window :
            ~Activate(v) /\ ~RefreshScopes(v) /\ ~ReloadAll(v) /\ ~ReadFile(v) /\ ~ApplyRead(v)
               /\ ~ScheduleReload(v) /\ ~TimerFires(v)
    BY <2>2 DEF Activate, RefreshScopes, ReloadAll, ReadFile, ApplyRead, ScheduleReload, TimerFires
  <2>4. \A v \in Window : ~EnsureFile(v) /\ \A e \in Edit : ~Mutate(v, e)
    BY <1>1 DEF EnsureFile, Mutate, StartWrite, IInv, TypeOK
  <2>5. \A z \in Write, n \in TempName : [z EXCEPT !.step = "write", !.temp = n].step = "write"
    BY DEF Write
  <2>6. \A z \in Write, step \in {"rename", "cleanup"} : [z EXCEPT !.step = step].step = step
    BY DEF Write
  <2>7. writes \in [Window -> SUBSET Write]
    BY DEF IInv, TypeOK
  <2>8. ASSUME NEW v \in Window, NEW z, NEW n, n.step # "record",
               writes' = [writes EXCEPT ![v] = (@ \ {z}) \cup {n}]
        PROVE  FALSE
    BY <1>1, <2>7, <2>8
  <2>9. ASSUME NEW v \in Window, StartTemp(v) PROVE FALSE
    <3>1. PICK z \in writes[v], n \in TempName :
              writes' = [writes EXCEPT ![v] = (@ \ {z}) \cup {[z EXCEPT !.step = "write", !.temp = n]}]
      BY <2>9 DEF StartTemp
    <3>. QED
      BY <2>5, <2>7, <2>8, <3>1
  <2>10. ASSUME NEW v \in Window, FillTemp(v) \/ FailWrite(v) PROVE FALSE
    <3>1. PICK z \in writes[v] : Drop(v, z) \/ \E step \in {"rename", "cleanup"} : Advance(v, z, step)
      BY <2>10 DEF FillTemp, FailWrite
    <3>2. ~Drop(v, z)
      BY <1>1, <2>7 DEF Drop
    <3>3. PICK step \in {"rename", "cleanup"} : Advance(v, z, step)
      BY <3>1, <3>2
    <3>. QED
      BY <2>6, <2>7, <2>8, <3>3 DEF Advance
  <2>11. \A v \in Window : ~Record(v) /\ ~Cleanup(v)
    BY <1>1 DEF Record, Cleanup, Drop, IInv, TypeOK
  <2>12. \A v \in Window : ~Crash(v)
    BY <1>1 DEF Crash, IInv, TypeOK
  <2>13. (\A text \in ExternalTexts : ~WriteExternally(text)) /\ ~UNCHANGED vars
    BY <2>2 DEF WriteExternally, vars
  <2>. QED
    BY <2>1, <2>3, <2>4, <2>9, <2>10, <2>11, <2>12, <2>13 DEF Next, Internal
<1>3. PICK z \in writes[w] :
          /\ z.step = "rename" /\ Advance(w, z, "record")
          /\ disk' = temps[z.temp]
  BY <1>2 DEF Rename
<1>4. y = [z EXCEPT !.step = "record"]
  BY <1>1, <1>3 DEF Advance, IInv, TypeOK
<1>5. z \in Write /\ y.op = z.op
  BY <1>4 DEF IInv, TypeOK, Write
<1>6. z = x
  BY <1>5 DEF IInv, SaveInv, OwnOps
<1>. QED
  BY <1>3, <1>6 DEF IInv, SaveInv, TempsMatch, TempOf

(* A rename puts the text of its own save in place.                        *)
THEOREM RenamesOwnText == Spec => SavesItsOwnText
BY IInvHolds, RenameIsOwn, PTL DEF Spec, SavesItsOwnText

-----------------------------------------------------------------------------
(* One window whose user waits, in a file that only it writes and that it  *)
(* does not watch.                                                         *)
Serial ==
    /\ \A v, w \in Writer : v = w
    /\ OVERLAP = FALSE /\ READ_ERRORS = FALSE /\ WATCHED = FALSE
    /\ MaxExternal = 0

(* Nobody else saves, and no event or timer makes a window load. *)
Alone ==
    /\ \A v \in Window \ Writer : writes[v] = {}
    /\ \A v \in Window : ~watching[v] /\ ~signal[v] /\ ~timer[v]

(* One thing at a time. *)
OneAtATime ==
    \A w \in Writer :
        /\ writes[w] = {} \/ reads[w] = {}
        /\ \A x, y \in writes[w] : x = y
        /\ \A q, r \in reads[w] : q = r
        /\ ~up[w] => writes[w] = {} /\ reads[w] = {}

(* What was acknowledged, and what is being saved, is in every text there  *)
(* is: in the file, in the save under way and in memory.                   *)
Covered(w) ==
    /\ up[w] /\ reads[w] = {} => disk.edits \subseteq file[w]
    /\ lastWritten[w].edits \subseteq file[w]
    /\ \A r \in reads[w] : r.step = "apply" => r.text = disk
    /\ \A x \in writes[w] :
          /\ x.text.edits \subseteq file[w]
          /\ acked \cup ({x.op} \cap Edit) \cup disk.edits \subseteq x.text.edits
          /\ x.step = "record" => x.text = disk

(* An acknowledged mutation is in the file. *)
AckedIsSaved == acked \subseteq disk.edits

SerialInv ==
    /\ Alone /\ OneAtATime /\ AckedIsSaved
    /\ disk.form \in {"saved", "absent"}
    /\ disk.form = "absent" => disk = Absent
    /\ \A w \in Writer : Covered(w)

(* A step of a window that only reads, or that leaves the writer alone. *)
LEMMA WriterUntouched ==
    ASSUME SerialInv, UNCHANGED <<disk, acked>>, Alone',
           \A w \in Writer : /\ file'[w] = file[w] /\ up'[w] = up[w] /\ reads'[w] = reads[w]
                             /\ writes'[w] = writes[w] /\ lastWritten'[w] = lastWritten[w]
    PROVE  SerialInv'
BY DEF SerialInv, OneAtATime, AckedIsSaved, Covered

LEMMA SerialInit == ASSUME Serial, Init PROVE SerialInv
BY ScopeFileAssumption DEF Init, SerialInv, Alone, OneAtATime, AckedIsSaved, Covered, Absent

(* A step of the writer: what is left to show is what it says of itself. *)
LEMMA WriterMoves ==
    ASSUME Serial, SerialInv, NEW w \in Writer, Alone',
           AckedIsSaved', disk'.form \in {"saved", "absent"}, disk'.form = "absent" => disk' = Absent,
           writes'[w] = {} \/ reads'[w] = {},
           \A x, y \in writes'[w] : x = y,
           \A q, r \in reads'[w] : q = r,
           ~up'[w] => writes'[w] = {} /\ reads'[w] = {},
           Covered(w)'
    PROVE  SerialInv'
BY DEF Serial, SerialInv, OneAtATime, Covered

(* Loading keeps the writer's windows apart and sets no watcher.           *)
LEMMA AloneLoads ==
    ASSUME Serial, IInv, SerialInv, NEW v \in Window,
           Activate(v) \/ RefreshScopes(v) \/ ReloadAll(v) \/ ReadFile(v) \/ ApplyRead(v)
    PROVE  Alone' /\ UNCHANGED <<disk, acked, writes>>
<1>1. UNCHANGED <<disk, acked, writes, timer>>
  BY DEF Activate, RefreshScopes, ReloadAll, ReadFile, ApplyRead, watchVars, historyVars
<1>2. \A w \in Window : ~watching'[w] /\ ~signal'[w]
  <2>1. CASE UNCHANGED <<watching, signal>>
    BY <2>1 DEF SerialInv, Alone
  <2>2. CASE RefreshScopes(v)
    BY <2>2 DEF RefreshScopes, SerialInv, Alone, IInv, TypeOK
  <2>3. CASE ApplyRead(v)
    BY <2>3 DEF ApplyRead, SerialInv, Alone, IInv, TypeOK, Serial
  <2>. QED
    BY <2>1, <2>2, <2>3 DEF Activate, ReloadAll, ReadFile, watchVars
<1>. QED
  BY <1>1, <1>2 DEF SerialInv, Alone

(* ReadFile and ApplyRead of one load, taken apart. *)
LEMMA LoadOfWriter ==
    ASSUME Serial, IInv, SerialInv, NEW w \in Writer, NEW r \in reads[w]
    PROVE  reads[w] = {r} /\ writes[w] = {} /\ up[w] /\ r \in Read
BY ScopeFileAssumption DEF SerialInv, OneAtATime, IInv, TypeOK

LEMMA LoadBegins ==
    ASSUME TypeOK, NEW v \in Window, NEW source, StartRead(v, source), reads[v] = {}
    PROVE  \E r : reads'[v] = {r} /\ r.step = "read"
<1>. PICK l \in Load :
        reads' = [reads EXCEPT ![v] =
                     @ \cup {[load |-> l, source |-> source, step |-> "read", text |-> Absent]}]
  BY DEF StartRead
<1>. DEFINE z == [load |-> l, source |-> source, step |-> "read", text |-> Absent]
<1>1. reads' = [reads EXCEPT ![v] = @ \cup {z}]
  OBVIOUS
<1>2. z.step = "read"
  OBVIOUS
<1>. HIDE DEF z
<1>3. reads'[v] = {z}
  BY <1>1 DEF TypeOK
<1>. QED
  BY <1>2, <1>3

LEMMA SerialLoads ==
    ASSUME Serial, IInv, SerialInv, NEW v \in Window,
           Activate(v) \/ RefreshScopes(v) \/ ReloadAll(v) \/ ReadFile(v) \/ ApplyRead(v)
    PROVE  SerialInv'
<1>1. Alone' /\ UNCHANGED <<disk, acked, writes>>
  BY AloneLoads
<1>2. CASE v \notin Writer
  <2>. SUFFICES ASSUME NEW w \in Writer
                PROVE  /\ file'[w] = file[w] /\ up'[w] = up[w] /\ reads'[w] = reads[w]
                       /\ lastWritten'[w] = lastWritten[w]
    BY <1>1, WriterUntouched
  <2>1. w \in Window /\ w # v
    BY <1>2, ScopeFileAssumption
  <2>2. CASE Activate(v) \/ RefreshScopes(v) \/ ReloadAll(v)
    BY <2>1, <2>2 DEF Activate, RefreshScopes, ReloadAll, StartRead, storeVars, IInv, TypeOK
  <2>3. CASE ReadFile(v)
    BY <2>1, <2>3 DEF ReadFile, storeVars, IInv, TypeOK
  <2>4. CASE ApplyRead(v)
    BY <2>1, <2>4 DEF ApplyRead, Install, IInv, TypeOK
  <2>. QED
    BY <2>2, <2>3, <2>4
<1>3. CASE v \in Writer
  <2>1. Covered(v) /\ (writes[v] = {} \/ reads[v] = {})
    BY <1>3 DEF SerialInv, OneAtATime
  <2>2. /\ AckedIsSaved' /\ disk'.form \in {"saved", "absent"} /\ (disk'.form = "absent" => disk' = Absent)
        /\ \A x, y \in writes'[v] : x = y
        /\ ~up[v] => writes'[v] = {}
    BY <1>1, <1>3 DEF SerialInv, AckedIsSaved, OneAtATime
  <2>3. CASE Activate(v)
    <3>1. reads[v] = {} /\ writes[v] = {} /\ up'[v] /\ UNCHANGED <<file, lastWritten>>
      BY <1>3, <2>3 DEF Activate, SerialInv, OneAtATime, IInv, TypeOK, storeVars
    <3>2. PICK r : reads'[v] = {r} /\ r.step = "read"
      BY <2>3, <3>1, LoadBegins DEF Activate, IInv
    <3>3. Covered(v)'
      BY <1>1, <2>1, <3>1, <3>2 DEF Covered
    <3>. QED
      BY <1>1, <1>3, <2>2, <3>1, <3>2, <3>3, WriterMoves
  <2>4. CASE RefreshScopes(v) \/ ReloadAll(v)
    <3>1. reads[v] = {} /\ writes[v] = {} /\ up[v] /\ UNCHANGED <<file, up>>
      BY <2>4 DEF RefreshScopes, ReloadAll, storeVars, MayAct, Serial
    <3>2. PICK r : reads'[v] = {r} /\ r.step = "read"
      BY <2>4, <3>1, LoadBegins DEF RefreshScopes, ReloadAll, IInv
    <3>3. lastWritten'[v] \in {Absent, lastWritten[v]}
      BY <2>4 DEF RefreshScopes, ReloadAll, storeVars, IInv, TypeOK
    <3>4. Covered(v)'
      BY <1>1, <2>1, <3>1, <3>2, <3>3 DEF Covered, Absent
    <3>. QED
      BY <1>1, <1>3, <2>2, <3>1, <3>2, <3>4, WriterMoves
  <2>5. CASE ReadFile(v)
    <3>1. PICK r \in reads[v] :
              reads' = [reads EXCEPT ![v] = (@ \ {r}) \cup {[r EXCEPT !.step = "apply", !.text = disk]}]
      BY <2>5 DEF ReadFile, Serial
    <3>. DEFINE q == [r EXCEPT !.step = "apply", !.text = disk]
    <3>2. reads[v] = {r} /\ writes[v] = {} /\ up[v] /\ r \in Read
      BY <1>3, LoadOfWriter
    <3>3. q.text = disk
      BY <3>2 DEF Read
    <3>. HIDE DEF q
    <3>4. reads'[v] = {q} /\ UNCHANGED <<file, lastWritten, up>>
      BY <2>5, <3>1, <3>2 DEF IInv, TypeOK, ReadFile, storeVars, q
    <3>5. Covered(v)'
      BY <1>1, <2>1, <3>2, <3>3, <3>4 DEF Covered
    <3>. QED
      BY <1>1, <1>3, <2>2, <3>2, <3>4, <3>5, WriterMoves
  <2>6. CASE ApplyRead(v)
    <3>1. PICK r \in reads[v] :
              r.step = "apply" /\ Install(v, r.text) /\ reads' = [reads EXCEPT ![v] = @ \ {r}]
      BY <2>6 DEF ApplyRead
    <3>2. reads[v] = {r} /\ writes[v] = {} /\ r.text = disk
      BY <1>3, <2>1, <3>1, LoadOfWriter DEF Covered
    <3>3. reads'[v] = {} /\ UNCHANGED up
      BY <2>6, <3>1, <3>2 DEF IInv, TypeOK, ApplyRead
    <3>4. disk.edits \subseteq file'[v] /\ lastWritten'[v].edits \subseteq file'[v]
      <4>1. CASE disk = Absent
        BY <3>1, <3>2, <4>1 DEF Install, Absent, IInv, TypeOK
      <4>2. CASE disk = lastWritten[v] /\ disk # Absent
        BY <2>1, <3>1, <3>2, <4>2 DEF Install, Covered
      <4>3. CASE disk # lastWritten[v] /\ disk # Absent
        <5>1. Valid(disk)
          BY <4>3 DEF SerialInv, Valid
        <5>. QED
          BY <3>1, <3>2, <4>3, <5>1 DEF Install, IInv, TypeOK
      <4>. QED
        BY <4>1, <4>2, <4>3
    <3>5. Covered(v)'
      BY <1>1, <3>2, <3>3, <3>4 DEF Covered
    <3>. QED
      BY <1>1, <1>3, <2>2, <3>2, <3>3, <3>5, WriterMoves
  <2>. QED
    BY <2>3, <2>4, <2>5, <2>6
<1>. QED
  BY <1>2, <1>3

(* A window that saves is the writer, with one save under way. *)
LEMMA SaveOfWriter ==
    ASSUME Serial, IInv, SerialInv, NEW v \in Window, NEW x \in writes[v]
    PROVE  /\ v \in Writer /\ writes[v] = {x} /\ reads[v] = {} /\ up[v]
           /\ x \in Write /\ x.text.form = "saved" /\ Covered(v)
BY DEF SerialInv, Alone, OneAtATime, IInv, TypeOK, SaveInv, TempsMatch, TempOf

(* What the steps of a save change, and no more. *)
LEMMA AloneSaves ==
    ASSUME Serial, IInv, SerialInv, NEW v \in Window, v \in Writer,
           \E S : writes' = [writes EXCEPT ![v] = S],
           UNCHANGED <<watching, timer>>, signal' = signal \/ Notify
    PROVE  Alone'
BY DEF SerialInv, Alone, IInv, TypeOK, Notify

(* The save under way goes on, with its text and its operation.            *)
LEMMA SaveGoesOn ==
    ASSUME Serial, IInv, SerialInv, NEW v \in Window, NEW x \in writes[v], NEW z,
           z.op = x.op, z.text = x.text,
           z.step = "record" => disk' = x.text,
           writes' = [writes EXCEPT ![v] = (@ \ {x}) \cup {z}],
           disk' \in {disk, x.text}, disk' = disk \/ z.step = "record",
           UNCHANGED <<up, file, lastWritten, reads, acked, watching, timer>>, signal' = signal \/ Notify
    PROVE  SerialInv'
<1>1. /\ v \in Writer /\ writes[v] = {x} /\ reads[v] = {} /\ up[v]
      /\ x.text.form = "saved" /\ Covered(v)
  BY SaveOfWriter
<1>2. Alone'
  BY <1>1, AloneSaves
<1>3. writes'[v] = {z}
  BY <1>1 DEF IInv, TypeOK
<1>4. AckedIsSaved' /\ disk'.form \in {"saved", "absent"} /\ (disk'.form = "absent" => disk' = Absent)
  BY <1>1 DEF SerialInv, AckedIsSaved, Covered
<1>5. Covered(v)'
  BY <1>1, <1>3 DEF Covered
<1>. QED
  BY <1>1, <1>2, <1>3, <1>4, <1>5, WriterMoves

(* The save under way is over. *)
LEMMA SaveEnds ==
    ASSUME Serial, IInv, SerialInv, NEW v \in Window, NEW x \in writes[v],
           Drop(v, x), UNCHANGED <<disk, up, file, reads, watchVars>>,
           \/ UNCHANGED <<lastWritten, acked>>
           \/ /\ x.step = "record"
              /\ lastWritten' = [lastWritten EXCEPT ![v] = x.text]
              /\ acked' = acked \cup ({x.op} \cap Edit)
    PROVE  SerialInv'
<1>1. v \in Writer /\ writes[v] = {x} /\ reads[v] = {} /\ up[v] /\ Covered(v)
  BY SaveOfWriter
<1>2. Alone'
  BY <1>1, AloneSaves DEF Drop, watchVars
<1>3. writes'[v] = {}
  BY <1>1 DEF Drop, IInv, TypeOK
<1>4. AckedIsSaved' /\ disk'.form \in {"saved", "absent"} /\ (disk'.form = "absent" => disk' = Absent)
  BY <1>1 DEF SerialInv, AckedIsSaved, Covered
<1>5. lastWritten'[v] \in {lastWritten[v], x.text}
  BY DEF IInv, TypeOK
<1>6. Covered(v)'
  BY <1>1, <1>3, <1>5 DEF Covered
<1>. QED
  BY <1>1, <1>2, <1>3, <1>4, <1>6, WriterMoves

(* A save begins, of a text that is all of memory. *)
LEMMA SaveBegins ==
    ASSUME Serial, IInv, SerialInv, NEW v \in Writer, up[v], writes[v] = {}, reads[v] = {},
           NEW op \in Edit \cup {Ensure}, NEW content \in Content,
           StartWrite(v, op, content), file'[v] = content, file[v] \cup ({op} \cap Edit) \subseteq content,
           UNCHANGED <<disk, up, lastWritten, reads, acked, watchVars>>
    PROVE  SerialInv'
<1>. DEFINE z == [op |-> op, step |-> "directory", text |-> Saved(content), temp |-> Ensure]
<1>1. writes' = [writes EXCEPT ![v] = @ \cup {z}]
  BY DEF StartWrite
<1>2. z.op = op /\ z.step = "directory" /\ z.text.edits = content
  BY DEF Saved
<1>. HIDE DEF z
<1>3. v \in Window
  BY ScopeFileAssumption
<1>4. writes'[v] = {z}
  BY <1>1, <1>3 DEF IInv, TypeOK
<1>5. Alone'
  BY <1>1, <1>3, AloneSaves DEF watchVars
<1>6. AckedIsSaved' /\ disk'.form \in {"saved", "absent"} /\ (disk'.form = "absent" => disk' = Absent)
  BY DEF SerialInv, AckedIsSaved
<1>7. disk.edits \subseteq file[v] /\ lastWritten[v].edits \subseteq file[v] /\ acked \subseteq disk.edits
  BY DEF SerialInv, Covered, AckedIsSaved
<1>8. Covered(v)'
  BY <1>2, <1>4, <1>7 DEF Covered
<1>. QED
  BY <1>4, <1>5, <1>6, <1>8, WriterMoves

LEMMA SaveAdvances ==
    ASSUME Serial, IInv, SerialInv, NEW v \in Window, NEW x \in writes[v],
           NEW step \in {"rename", "record", "cleanup"}, Advance(v, x, step),
           IF step = "record" THEN disk' = x.text ELSE disk' = disk,
           UNCHANGED <<up, file, lastWritten, reads, acked, watching, timer>>, signal' = signal \/ Notify
    PROVE  SerialInv'
<1>. DEFINE z == [x EXCEPT !.step = step]
<1>1. z.op = x.op /\ z.text = x.text /\ z.step = step
  BY WriteTypes DEF Write, IInv
<1>2. writes' = [writes EXCEPT ![v] = (@ \ {x}) \cup {z}]
  BY DEF Advance
<1>. HIDE DEF z
<1>. QED
  BY <1>1, <1>2, SaveGoesOn

LEMMA SerialSaves ==
    ASSUME Serial, IInv, SerialInv, NEW v \in Window,
           StartTemp(v) \/ FillTemp(v) \/ Rename(v) \/ Record(v) \/ FailWrite(v) \/ Cleanup(v)
    PROVE  SerialInv'
<1>1. CASE StartTemp(v)
  <2>1. PICK x \in writes[v], n \in TempName :
            writes' = [writes EXCEPT ![v] = (@ \ {x}) \cup {[x EXCEPT !.step = "write", !.temp = n]}]
    BY <1>1 DEF StartTemp
  <2>. DEFINE z == [x EXCEPT !.step = "write", !.temp = n]
  <2>2. z.op = x.op /\ z.text = x.text /\ z.step = "write"
    BY WriteTypes DEF Write, IInv
  <2>3. UNCHANGED <<disk, up, file, lastWritten, reads, acked, watching, timer, signal>>
    BY <1>1 DEF StartTemp, storeVars, watchVars, historyVars
  <2>. HIDE DEF z
  <2>4. writes' = [writes EXCEPT ![v] = (@ \ {x}) \cup {z}]
    BY <2>1 DEF z
  <2>. QED
    BY <2>2, <2>3, <2>4, SaveGoesOn
<1>2. CASE FillTemp(v)
  <2>1. PICK x \in writes[v] : x.step = "write" /\ Advance(v, x, "rename")
                                /\ (temps[x.temp] # Absent => UNCHANGED disk)
    BY <1>2 DEF FillTemp
  <2>2. UNCHANGED disk
    BY <2>1, Texts DEF IInv, SaveInv, TempsMatch, TempOf
  <2>. QED
    BY <1>2, <2>1, <2>2, SaveAdvances DEF FillTemp, storeVars, watchVars, historyVars
<1>3. CASE Rename(v)
  <2>1. PICK x \in writes[v] : x.step = "rename" /\ Advance(v, x, "record") /\ disk' = temps[x.temp]
    BY <1>3 DEF Rename
  <2>2. disk' = x.text
    BY <2>1 DEF IInv, SaveInv, TempsMatch, TempOf
  <2>. QED
    BY <1>3, <2>1, <2>2, SaveAdvances DEF Rename, storeVars, historyVars
<1>4. CASE FailWrite(v)
  <2>1. PICK x \in writes[v] : IF x.step = "directory" THEN Drop(v, x) ELSE Advance(v, x, "cleanup")
    BY <1>4 DEF FailWrite
  <2>2. UNCHANGED <<disk, up, file, lastWritten, reads, acked, watchVars>>
    BY <1>4 DEF FailWrite, storeVars, historyVars
  <2>. QED
    BY <2>1, <2>2, SaveAdvances, SaveEnds DEF watchVars
<1>5. CASE Cleanup(v)
  BY <1>5, SaveEnds DEF Cleanup, storeVars, historyVars
<1>6. CASE Record(v)
  BY <1>6, SaveEnds DEF Record
<1>. QED
  BY <1>1, <1>2, <1>3, <1>4, <1>5, <1>6

LEMMA SerialStep == ASSUME Serial, IInv, SerialInv, [Next]_vars PROVE SerialInv'
<1>1. ASSUME NEW v \in Window, EnsureFile(v) PROVE SerialInv'
  <2>1. v \in Writer /\ up[v] /\ writes[v] = {} /\ reads[v] = {} /\ file[v] \in Content
    BY <1>1 DEF EnsureFile, MayAct, Serial, IInv, TypeOK
  <2>2. {Ensure} \cap Edit = {}
    BY ScopeFileAssumption
  <2>. QED
    BY <1>1, <2>1, <2>2, SaveBegins DEF EnsureFile, storeVars, historyVars
<1>2. ASSUME NEW v \in Window, NEW e \in Edit, Mutate(v, e) PROVE SerialInv'
  <2>1. v \in Writer /\ up[v] /\ writes[v] = {} /\ reads[v] = {}
    BY <1>2 DEF Mutate, MayAct, Serial
  <2>2. file[v] \cup {e} \in Content /\ file'[v] = file[v] \cup {e}
    BY <1>2 DEF Mutate, IInv, TypeOK, Content
  <2>3. UNCHANGED <<disk, up, lastWritten, reads, acked, watchVars>>
    BY <1>2 DEF Mutate
  <2>4. CASE ~error[v]
    BY <1>2, <2>1, <2>2, <2>3, <2>4, SaveBegins DEF Mutate
  <2>5. CASE error[v]
    <3>1. writes' = writes
      BY <1>2, <2>5 DEF Mutate
    <3>2. Covered(v)'
      BY <2>1, <2>2, <2>3, <3>1 DEF SerialInv, Covered
    <3>. QED
      BY <2>1, <2>3, <3>1, <3>2, WriterMoves DEF SerialInv, Alone, AckedIsSaved, watchVars
  <2>. QED
    BY <2>4, <2>5
<1>3. ASSUME NEW v \in Window, Crash(v) PROVE SerialInv'
  <2>1. Alone' /\ UNCHANGED <<disk, acked>>
    BY <1>3 DEF Crash, SerialInv, Alone, IInv, TypeOK
  <2>2. CASE v \in Writer
    <3>1. writes'[v] = {} /\ reads'[v] = {} /\ ~up'[v] /\ lastWritten'[v] = Absent
      BY <1>3, <2>2 DEF Crash, IInv, TypeOK
    <3>. QED
      BY <2>1, <2>2, <3>1, WriterMoves DEF Covered, Absent, SerialInv, AckedIsSaved
  <2>3. CASE v \notin Writer
    BY <1>3, <2>1, <2>3, WriterUntouched, ScopeFileAssumption DEF Crash, IInv, TypeOK
  <2>. QED
    BY <2>2, <2>3
<1>4. ASSUME NEW v \in Window PROVE ~ScheduleReload(v) /\ ~TimerFires(v)
  BY DEF ScheduleReload, TimerFires, SerialInv, Alone
<1>5. ASSUME NEW text \in ExternalTexts PROVE ~WriteExternally(text)
  BY DEF WriteExternally, Serial, IInv, TypeOK
<1>6. CASE UNCHANGED vars
  BY <1>6, WriterUntouched DEF vars, storeVars, watchVars, historyVars, SerialInv, Alone
<1>. QED
  BY <1>1, <1>2, <1>3, <1>4, <1>5, <1>6, SerialLoads, SerialSaves DEF Next, Internal

LEMMA SerialHolds == ASSUME Serial PROVE Spec => [](IInv /\ SerialInv)
<1>1. Init => SerialInv
  BY SerialInit
<1>2. IInv /\ SerialInv /\ [Next]_vars => SerialInv'
  BY SerialStep
<1>. QED
  BY <1>1, <1>2, IInvHolds, PTL DEF Spec

(* No acknowledged mutation ever leaves the file, through failed saves,    *)
(* refreshes, crashes and restarts, as long as one window saves, its user  *)
(* does one thing at a time and nobody else writes the file.               *)
THEOREM AckedStaysSaved == ASSUME Serial PROVE Spec => []AckedIsSaved
BY SerialHolds, PTL DEF SerialInv

(* Under the same conditions, what that window serves covers the file      *)
(* whenever its user may act.                                              *)
THEOREM MemoryStaysAhead == ASSUME Serial PROVE Spec => []MemoryCoversDisk
<1>1. SerialInv => MemoryCoversDisk
  BY DEF Serial, SerialInv, Covered, MemoryCoversDisk, MayAct
<1>. QED
  BY <1>1, SerialHolds, PTL

-----------------------------------------------------------------------------
(* The journal.                                                            *)

(* The file and the memory of the window that saves hold what was asked.   *)
OnlyAsked == disk.edits \subseteq started /\ \A w \in Writer : file[w] \subseteq started

(* A save puts a text in the file that has all of the file, all of it      *)
(* asked for.                                                              *)
LEMMA SavedIsAsked ==
    ASSUME Serial, IInv, SerialInv, OnlyAsked, NEW v \in Window, NEW x \in writes[v]
    PROVE  disk.edits \subseteq x.text.edits /\ x.text.edits \subseteq started
BY SaveOfWriter DEF Covered, OnlyAsked

(* Only a rename changes the file.                                         *)
LEMMA DiskChanges ==
    ASSUME Serial, IInv, SerialInv, Next
    PROVE  \/ UNCHANGED disk
           \/ /\ UNCHANGED <<file, started, acked>>
              /\ \E v \in Window : \E x \in writes[v] : disk' = x.text
<1>1. ASSUME NEW v \in Window, Rename(v)
      PROVE  UNCHANGED <<file, started, acked>> /\ \E x \in writes[v] : disk' = x.text
  BY <1>1 DEF Rename, storeVars, historyVars, IInv, SaveInv, TempsMatch, TempOf
<1>2. ASSUME NEW v \in Window, FillTemp(v)
      PROVE  UNCHANGED disk
  BY <1>2, Texts DEF FillTemp, IInv, SaveInv, TempsMatch, TempOf
<1>3. ASSUME NEW text \in ExternalTexts PROVE ~WriteExternally(text)
  BY DEF WriteExternally, Serial, IInv, TypeOK
<1>4. ASSUME NEW v \in Window,
             \/ Activate(v) \/ RefreshScopes(v) \/ ReloadAll(v) \/ EnsureFile(v) \/ Crash(v)
             \/ \E e \in Edit : Mutate(v, e)
             \/ ReadFile(v) \/ ApplyRead(v) \/ ScheduleReload(v) \/ TimerFires(v)
             \/ StartTemp(v) \/ Record(v) \/ FailWrite(v) \/ Cleanup(v)
      PROVE  UNCHANGED disk
  BY <1>4 DEF Activate, RefreshScopes, ReloadAll, EnsureFile, Crash, Mutate, ReadFile, ApplyRead,
              ScheduleReload, TimerFires, StartTemp, Record, FailWrite, Cleanup
<1>. QED
  BY <1>1, <1>2, <1>3, <1>4 DEF Next, Internal

(* What was asked is only added to.                                        *)
LEMMA AskedGrows == Next => started \subseteq started'
BY DEF Next, Internal, Activate, RefreshScopes, ReloadAll, EnsureFile, Crash, Mutate, ReadFile,
       ApplyRead, ScheduleReload, TimerFires, StartTemp, FillTemp, Rename, Record, FailWrite,
       Cleanup, WriteExternally, historyVars

(* A window's memory is made of what it was, what it asked and the file.   *)
LEMMA MemoryChanges ==
    ASSUME Serial, IInv, SerialInv, Next, NEW w \in Writer
    PROVE  file'[w] \subseteq file[w] \cup disk.edits \cup started'
<1>0. w \in Window
  BY ScopeFileAssumption
<1>1. ASSUME NEW v \in Window, NEW e \in Edit, Mutate(v, e)
      PROVE  file'[w] \subseteq file[w] \cup started'
  BY <1>0, <1>1 DEF Mutate, IInv, TypeOK
<1>2. ASSUME NEW v \in Window, Crash(v)
      PROVE  file'[w] \subseteq file[w]
  BY <1>0, <1>2 DEF Crash, IInv, TypeOK
<1>3. ASSUME NEW v \in Window, ApplyRead(v)
      PROVE  file'[w] \subseteq file[w] \cup disk.edits
  <2>1. PICK r \in reads[v] : r.step = "apply" /\ Install(v, r.text)
    BY <1>3 DEF ApplyRead
  <2>2. v = w => r.text = disk
    BY <2>1 DEF SerialInv, Covered
  <2>3. file'[w] = file[w] \/ (v = w /\ file'[w] \in {{}, r.text.edits})
    BY <1>0, <2>1 DEF Install, IInv, TypeOK
  <2>. QED
    BY <2>2, <2>3
<1>4. ASSUME NEW v \in Window,
             \/ Activate(v) \/ RefreshScopes(v) \/ ReloadAll(v) \/ EnsureFile(v)
             \/ ReadFile(v) \/ ScheduleReload(v) \/ TimerFires(v)
             \/ StartTemp(v) \/ FillTemp(v) \/ Rename(v) \/ Record(v) \/ FailWrite(v) \/ Cleanup(v)
      PROVE  UNCHANGED file
  BY <1>4 DEF Activate, RefreshScopes, ReloadAll, EnsureFile, ReadFile, ScheduleReload, TimerFires,
              StartTemp, FillTemp, Rename, Record, FailWrite, Cleanup, storeVars
<1>5. ASSUME NEW text \in ExternalTexts, WriteExternally(text)
      PROVE  UNCHANGED file
  BY <1>5 DEF WriteExternally, storeVars
<1>. QED
  BY <1>1, <1>2, <1>3, <1>4, <1>5 DEF Next, Internal

LEMMA AskedStep == ASSUME Serial, IInv, SerialInv, OnlyAsked, [Next]_vars PROVE OnlyAsked'
<1>1. CASE Next
  <2>1. disk'.edits \subseteq started
    BY <1>1, DiskChanges, SavedIsAsked DEF OnlyAsked
  <2>2. started \subseteq started'
    BY <1>1, AskedGrows
  <2>3. \A w \in Writer : file'[w] \subseteq started'
    BY <1>1, <2>2, MemoryChanges DEF OnlyAsked
  <2>. QED
    BY <2>1, <2>2, <2>3 DEF OnlyAsked
<1>2. CASE UNCHANGED vars
  BY <1>2 DEF vars, storeVars, historyVars, OnlyAsked
<1>. QED
  BY <1>1, <1>2

(* Mutations ask, renames save, the ends of saves acknowledge, and nothing *)
(* else shows.                                                             *)
LEMMA StepKeepsJournal ==
    ASSUME Serial, IInv, SerialInv, OnlyAsked, [Next]_vars
    PROVE  [Log!Next]_<<started, disk.edits, acked>>
<1>. SUFFICES ASSUME Next PROVE [Log!Next]_<<started, disk.edits, acked>>
  BY DEF vars, historyVars
<1>1. ASSUME NEW v \in Window, NEW e \in Edit, Mutate(v, e)
      PROVE  Log!Next
  <2>1. Log!Ask(e)
    BY <1>1 DEF Mutate, Log!Ask
  <2>. QED
    BY <2>1 DEF Log!Next
<1>2. ASSUME NEW v \in Window, Record(v)
      PROVE  [Log!Next]_<<started, disk.edits, acked>>
  <2>1. PICK x \in writes[v] : x.step = "record" /\ acked' = acked \cup ({x.op} \cap Edit)
    BY <1>2 DEF Record
  <2>2. UNCHANGED <<started, disk>> /\ x.text = disk /\ {x.op} \cap Edit \subseteq x.text.edits
    BY <1>2, <2>1, SaveOfWriter DEF Record, Covered
  <2>3. CASE x.op \in Edit
    <3>1. Log!Acknowledge(x.op)
      BY <2>1, <2>2, <2>3 DEF Log!Acknowledge
    <3>. QED
      BY <2>3, <3>1 DEF Log!Next
  <2>4. CASE x.op \notin Edit
    BY <2>1, <2>2, <2>4
  <2>. QED
    BY <2>3, <2>4
<1>3. ASSUME UNCHANGED <<started, acked>>, NEW v \in Window, NEW x \in writes[v], disk' = x.text
      PROVE  Log!Next
  <2>1. Log!Save(x.text.edits)
    BY <1>3, SavedIsAsked DEF Log!Save
  <2>2. x.text.edits \in SUBSET Edit
    BY <1>3, SavedIsAsked DEF IInv, TypeOK
  <2>. QED
    BY <2>1, <2>2 DEF Log!Next
<1>4. ASSUME NEW v \in Window,
             \/ Activate(v) \/ RefreshScopes(v) \/ ReloadAll(v) \/ EnsureFile(v) \/ Crash(v)
             \/ ReadFile(v) \/ ApplyRead(v) \/ ScheduleReload(v) \/ TimerFires(v)
             \/ StartTemp(v) \/ FillTemp(v) \/ Rename(v) \/ FailWrite(v) \/ Cleanup(v)
      PROVE  UNCHANGED <<started, acked>>
  BY <1>4 DEF Activate, RefreshScopes, ReloadAll, EnsureFile, Crash, ReadFile, ApplyRead,
              ScheduleReload, TimerFires, StartTemp, FillTemp, Rename, FailWrite, Cleanup, historyVars
<1>5. ASSUME NEW text \in ExternalTexts, WriteExternally(text)
      PROVE  UNCHANGED <<started, acked>>
  BY <1>5 DEF WriteExternally
<1>6. ASSUME UNCHANGED <<started, acked>>
      PROVE  [Log!Next]_<<started, disk.edits, acked>>
  <2>1. CASE UNCHANGED disk
    BY <1>6, <2>1
  <2>2. CASE \E v \in Window : \E x \in writes[v] : disk' = x.text
    BY <1>3, <1>6, <2>2
  <2>. QED
    BY <2>1, <2>2, DiskChanges
<1>. QED
  BY <1>1, <1>2, <1>4, <1>5, <1>6 DEF Next, Internal

(* A window that saves alone keeps a journal: what is in the file stays    *)
(* there, was asked for, and is acknowledged afterwards.                   *)
THEOREM ImplementsJournal == ASSUME Serial PROVE Spec => KeepsAJournal
<1>1. Init => OnlyAsked /\ Log!Init
  BY ScopeFileAssumption DEF Init, OnlyAsked, Absent, Log!Init
<1>2. IInv /\ SerialInv /\ OnlyAsked /\ [Next]_vars => OnlyAsked'
  BY AskedStep
<1>3. IInv /\ SerialInv /\ OnlyAsked /\ [Next]_vars => [Log!Next]_<<started, disk.edits, acked>>
  BY StepKeepsJournal
<1>. QED
  BY <1>1, <1>2, <1>3, SerialHolds, PTL DEF Spec, KeepsAJournal, Log!Spec
=============================================================================
