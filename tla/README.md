# Snip Pick: specifications

TLA+ models of the parts of Snip Pick where order, concurrency and failure
matter, TLC configurations that check them, and TLAPS proofs about them.
Paths are relative to the repository; `store.ts` is
`apps/extension/src/store/store.ts`.

## 1. The system

Snip Pick keeps a library of snippets and commands. The VS Code extension
serves it from one `snippick.json` per *scope* (one for the user, one per
workspace folder). An optional server offers *vaults* to signed-in users.

| Component | State | Operations | What is hard | What makes it correct |
|---|---|---|---|---|
| Library model (`packages/core/src/model/normalize.ts`, `store/merge.ts`, mutations of `store.ts`) | groups with parents, items with groups and `updatedAt` | add, update, move, delete, reparent, delete group (two modes), import (two modes), repair | files edited by hand hold cycles, unknown parents and repeated ids | the hierarchy is a forest, so that the tree reaches all of it; operations change exactly what they say |
| Scope file (`store.ts`, I/O half) | memory copy, `error`, `lastWritten`, `exists`; the file, temporary files; watchers and timers | load, persist, mutate, ensureFile, refreshScopes, reloadAll, scheduleReload | every step between two awaits interleaves; several windows; crashes; failing writes; late watcher events | no acknowledged mutation is lost; the file is never half written; changes are picked up |
| Moves between scopes (`moveItem`) | two libraries and their files | a save of the target, then one of the source | either may fail, other saves may overtake them, the window may go in between, the item may be edited meanwhile | the item is always in a file |
| File format (`packages/contracts/src/schema.ts`) | none | parseFile, validateFile, migrate, serializeFile | one item the reader refuses locks its scope | what is saved loads again, and says the same |
| Importers and comments (`codeSnippets.ts`, `jsonc.ts`) | none | import and export of `.code-snippets`, stripJsonComments | titles that collide, strings that look like comments | nothing is lost or changed on the way |
| Vault service (`apps/api/src/vaults/service.ts`, `packages/db/src/schema.ts`) | tables vault, member, team, ... | listVaultsForUser, ensurePersonalVault, ensureProjectVault | queries of many requests interleave, no transaction; tenants and teams go meanwhile | one vault per member or team; complete listings |
| Sessions (`apps/extension/src/auth/authProvider.ts`, `sessionStore.ts`, `packages/api-client/src/tokens.ts`) | one secret with all sessions, shared by all windows | getSessions, sessionFor, createSession, removeSession | overlapping refreshes, rotated tokens, lost answers, crashes | a session goes only when refused or signed out of, and then stays out |
| Sign-in (`authProvider.ts` runFlow, `callbackRouter.ts`, `packages/api-client`) | pending sign-ins by `state` | describe, open, wait, handleUri, parseCallback, exchange | timer, cancel button and late or repeated redirects race | each flow ends once, with its own answer |
| Remote service (`remoteService.ts`) | the vault list shown, the mounted vaults | refresh, signIn, signOut, selectVaults | overlapping refreshes, the server changes during a question | what is shown is what was picked on that server |
| Key set reader (`packages/auth-verify/src/jwks.ts`) | cached keys, load in flight | keySet, reset | single flight, reload floor, failing loads | rotated keys are found |
| Discovery and context (`discoveryService.ts`, `contextService.ts`) | caches and watchers by folder | refresh, scan, rescan | overlapping refreshes dispose each other's watchers | open folders are read and watched |
| Runner (`runner/*.ts`, `packages/core/src/runner`) | runs under way; templates and danger rules | run, runAdHoc, insert, copy; parse, render, detect | the item, the editor and the settings change during the questions | what was confirmed is what runs |
| Usage, secrets, history (`usageStore.ts`, `secrets.ts`, `history.ts`) | mementos and secrets | record, set, delete, remember | two writes per change, several windows | no orphans |
| Ranking (`packages/core/src/context`, `quickPick.ts`) | none | score, frecency, rank, sections | ties, clocks that go back | the Quick Pick's order is the rank |
| Tree and editor form (`ui/`) | what is on screen | children, parents, drag and drop, show and save a form | orders with gaps and ties, fields shown otherwise than saved | everything is shown; saving unchanged changes nothing |
| Discovery parsers (`packages/core/src/discovery`) | none | names of tasks from package.json, Makefile, justfile | | |
| Server frame (`apps/api/src/http`, `packages/auth`, `packages/config`) | configuration, seeded client | boot, routing | concurrent boots | |

Interaction: commands and the tree call the store, which mutates the library
in memory (`mutate`) and then saves it (`persist`); watchers load it back.
The remote service asks the session provider for a token and the vault
service for vaults. Sessions are shared by all windows through
SecretStorage, scope files through the file system, and vaults through the
database.

`PROJECT.json` lists the components with their state of modelling, and the
hazards with the properties that would catch them.

## 2. The modules

| Module | Models | Checked by | Proved in |
|---|---|---|---|
| `Normalize` | what the repair pass and the walks compute | through the two below | |
| `GroupWalks` | the loops of `hasCycle`, `wouldCreateCycle`, `descendantGroupIds`, one turn a step | `Functions` | `FunctionsProofs` |
| `Formats` | how an item is made, validated, written, edited in the form, exported | `Functions` | `FunctionsProofs`, `ListsProofs` |
| `Templates` | the template language | `Functions` | `TextsProofs` |
| `Danger` | the rules that flag a command | `Functions` | `FunctionsProofs` |
| `Jsonc` | removal of comments and trailing commas | `Functions` | `TextsProofs` |
| `Lists` | `filter` on arrays | through `Ranking` and `TreeView` | `ListsProofs` |
| `Ranking` | scores, order and sections of the Quick Pick | `Functions` | `ListsProofs` |
| `TreeView` | the tree's nodes; the order of groups and dropping them | `Functions` | `FunctionsProofs`, `ListsProofs` |
| `Library` | all mutations of one scope, imports, repair | `Library` (through `MCLibrary`) | `LibraryProofs` |
| `ScopeFile` | loading, saving and watching one file from several windows | `ScopeFile*` (`ScopeFileWindows` through `MCScopeFile`, for symmetry) | `ScopeFileProofs` |
| `Journal` | what a scope's file promises to a user who works alone | as property `KeepsAJournal` | |
| `VaultRegistry` | the promise of the vault service: get or create in one step | as property `GetOrCreate` | |
| `Vaults` | the queries of `listVaultsForUser` | `Vaults` (through `MCVaults`) | `VaultsProofs` |
| `AuthSessions` | sessions, refreshes and the session store | `AuthSessions` (through `MCAuthSessions`), `AuthOverlap` | `AuthSessionsProofs` |
| `SignIn` | the browser flow and the callback router | `Services` | `ServicesProofs` |
| `KeySet` | the reader of the server's keys | `Services` | `ServicesProofs` |
| `Remote` | the vaults of the tree | `Services` | `ServicesProofs` |
| `Folders` | the caches of discovery and context | `Services`, `FolderMarkers` | `ServicesProofs` |
| `Moves` | moving an item between scopes | `Services` | `ServicesProofs` |
| `Runs` | running an item, question by question | `Services` | `ServicesProofs` |

`MCFunctions` puts the pure modules together: each input is an initial state,
and the loops of `GroupWalks` step from theirs. `MCServices` puts the
six services together: it extends all six, `part` says which one a behaviour is
about, and the others stay in an initial state; the code keeps no state of one
service in another. `NoValue` declares the `None` they share. Each service has a specification of its own (`KeySpec`,
`SignInSpec`, ...), which is what the proofs are about.

Each module holds, next to a definition it mutates, the mutant (`(* Mutant:
... *)`) that `PROJECT.json` pairs with a property: with the mutant in place
of the definition TLC finds the property violated.

### Normalize and GroupWalks

Groups with unique ids are a function from ids to parents. `Normalize`
states the repair declaratively: `HasCycle(parent, g)` is "some set of
groups closed under parent holds g". `GroupWalks` has the three `while`
loops with their `visited`/`seen` sets, started on *every* hierarchy
(unknown parents and cycles included, since that is what a file may hold),
and shows that they end and return what `Normalize` says. `Library` may then
use the declarative operators. On a cycle the group is one of its own
descendants, in the code and in `DescendantGroupIds`; the comment above the
function says otherwise (finding 5).

### Library

`mutate` copies the file, runs a callback, repairs the result and installs
it before its first await, so a mutation is one step: `Mutate(draftParent,
draftItems)` is the repair, and every action ends in it, as in the code. The
stale group ids that a form or a menu can hand over are inputs (`g \in Ref`).
`ReceiveItem` is the target's half of a move between scopes, which never
looks whether the id is there; hence items are a set of copies. `ReplaceFile`
is an import with `replace`, and also what a load installs, so a file edited
by hand enters the state through it. `updatedAt` stands for the text of an
item. Left out: names, sibling order, counts in the import's result.

### ScopeFile

An action is the code between two awaits. `writes[w]` holds the calls of
`persist` in progress: `directory` -> `write` (the temporary file is there
and torn) -> `rename` -> `record`, or `cleanup` after an error. `reads[w]`
holds the calls of `load`: `read` (before readFile answers) and `apply`
(after). `Install` is the part of `load` after its await, with its three
early returns. A watcher event is `signal`, the debounce `timer`. Any number of loads of one window may be in progress (`Load`, a set
of names, bounds them in a run): nothing in `scheduleReload`, `reloadAll` and
`refreshScopes` waits for another one. `orphans` is history: the temporary files
left by a crash, or by a delete that failed after a failure (line 266 ignores
it). A text is saved by a window, written by hand, broken, torn or absent; the
library is the set of edits it contains. External writers are actions of their own
(`WriteExternally`), and so are crashes.

Switches: `OVERLAP` (users act while earlier actions are under way),
`WATCHED` (workspace scope), `WRITE_ERRORS`, `READ_ERRORS`.

`Journal` is the promise to a user who works alone: `asked`, `saved` and
`acked`. `ScopeFile` implements it under the conditions of `ScopeFileSerial`,
with `saved` read off the file.

### VaultRegistry and Vaults

`Vaults` has one step per query. The unique indexes of `schema.ts` are in
`Insert`, its foreign keys in `Insert` (an error) and in the deletions
(cascades). Tenants, teams and memberships belong to better-auth and change
at any time (external). `VaultRegistry` is the promise; `Vaults` implements
it with `vaultOf` read off the table.

### AuthSessions

Every call of the provider is a small process: it reads the whole secret,
goes through the sessions one by one, asks the server for a refresh where
the token is expiring, and upserts or removes, each of which reads the whole
secret and writes the whole secret back. Calls of every kind overlap as they
please. The server is external: for the sessions in `Rotating` it replaces the
refresh token with every answer, and replays its answer for a while, as the
rotation columns of `packages/db/src/auth-schema.ts` (294-296) provide for;
that while may end at any time (`EndReplays`), within a call too.

Two variables are history. `status` says what the user did last with a
session: signed in, signed out with nothing under way that holds it (`out`), or
signed out while a refresh of it, or a write that has read it, was under way
(`raced`). `risked` collects the sessions that one of four events has hit: an
answer lost after a rotation, a window gone with tokens it had still to store, a
write over one that came after its read, a refusal of tokens that are no longer
the stored ones. A session leaves the set when it is stored with tokens the
server accepts.

### SignIn

One flow is one call of `createSession`; `phase` is the await it is at, and
`wait` is the promise the router holds for its `state`. `HandleUri`,
`TimeOut`, `Cancel` and `CancelledBefore` are the four things that settle it.
A redirect, once made, stays deliverable, which covers repetition. `took` is
what the promise was resolved with, `Resume` is `parseCallback`. The session
is stored by the caller; that and its races are `AuthSessions`. Consequences
of the code the model keeps: a flow whose browser does not open leaves its
promise to the timer, and the cancel button does nothing once the redirect
has come.

### KeySet

`Ask` is `keySet` up to its await, for any key a token may name, published or
not, or none; `ReadKeys` the query, `Settle` the end of the load with everyone
who waits for it. A load takes as long as it takes: no timeout bounds it. The
cache counts from the *start* of its load, which is what makes `RotationIsSeen`
true: a load that read the keys just before a rotation must not be taken for a
fresh one. A failing load does not move the floor, and answers 401
`invalid_token` like a bad token. `joined`, the start of the load a request waits
for, is history.

### Remote

A call is `refresh`, alone or as the first part of `selectVaults`; signing in
or out and a changed setting start one each. The answer that comes last is
shown, for whatever server it is. The picker belongs to the server it was
opened for. History: `picked` is what the user last chose for each server,
`newest` the call whose refresh began last, until it ends, and `current` says
that what is shown is that refresh's answer. An older one set after it makes
`current` false.

### Folders

Discovery and context keep their caches by the same scheme, so one module
covers both; `service` says which. `Refresh` drops watchers and cache at once,
`ReadFolder` is a scan that reads a folder, `FillCache` its end, and the last
one of a refresh makes the watchers. `disk` counts the changes of a folder.

### Moves

The module follows one item in one window. `Change` is `mutate`: a change in
memory, and a save of what memory then has. `MoveItem` is the mutation of the
target; `Saved` ends a save, in any order, and lets the move it belongs to go
on to the source; `SaveFails` ends the move where it is. `Mutate` is any other
change of a scope, of this item or of others, whose save carries or lacks the
item as memory does. `ReadFile` and `Install` are a load, and `Restart` loads the
files in another window. `landed` and `raced` are history: `raced` becomes true
when a move begins while one from another scope has still to save its target
(`Crosses`), when a save is renamed after a later one of its scope, and when a
load installs what its file no longer says, or does while a save of the scope is
under way. Each of the three can cost the item. Nobody else writes the files
here; `ScopeFile` is about those who do.

### Runs

One step per question. `Start` reads the item and the built-ins, as
`resolve.ts` does; the terminal's directory is read at the end
(`TerminalTarget`). `sent` is the last text that reached a terminal, with the
text that was confirmed. `Danger` says which texts are flagged; here a version
of the item is flagged or not, and so is an entered value. `insertSnippet` and
`copy` hand the body to VS Code and are left out.

### The pure modules

`Formats` gives every field one of the values that the code tells apart
(absent, empty, blank, padded, text, lists, other types), so that validation, the
rewriting of a file, the form and the export are functions on records. A list is
one of eight kinds, by what joining it and splitting it again does: kept as it
is, cut at a comma or a line break, trimmed, or emptied (`SplitList` and
`SplitLines` for the form, `ParseScope` for the export).
`Templates`, `Danger` and `Jsonc` work on sequences of tokens or characters,
and `Jsonc` is checked against the meaning of lexemes. `Ranking` counts ages in
whole half-lives, which makes the scores integers. `TreeView` draws the tree
from a view (groups, items, broken files, tasks, vaults) and computes what
dropping groups does to `order`. Labels, icons and markup are left out.

## 3. The runs

| Run | Bounds | What it shows |
|---|---|---|
| `Functions` | walks: 4 groups, every hierarchy (unknown parents, cycles); items changed in one field or in two lists of the context, each list of the eight kinds; exports of up to 4 snippets; up to 4 tokens or whole placeholders; chains of 2 steps of up to 3 tokens; 4 lexemes; 2 ranked items; 3 groups with orders 0, 1, 3; views of up to 3 groups in any forest, an item in any of them or in none, next to two without a group | the loops compute `Normalize`'s operators, and end; the pure parts do what they promise on every input |
| `Library` | 3 groups, 1 item id with up to 2 copies, clock 0..1, all files with 2 entries | well-formed libraries; exact moves, deletions and ungrouping; merges replace a copy only by a newer one |
| `ScopeFileSerial` | 2 windows of which one saves, 3 mutations, 2 crashes, 2 refreshes, failing writes, no overlap, nobody else writes | what is saved is a journal: nothing leaves the file, nothing enters it unasked, acknowledgements come last; memory covers the file |
| `ScopeFileWindows` | 2 windows overlapping, 1 mutation and `ensureFile`, 3 temporary files, 1 crash, read and write errors | never a torn file, each save renames its own text, a temporary file outlives its save only through a crash or a failing delete |
| `ScopeFileWatch` | 1 window that reads, 2 loads at a time, 3 external writes, 2 refreshes | what a reading window is told of it serves in the end, and keeps |
| `ScopeFileErrorStays` | 1 window, 3 external writes | *violation*, see findings |
| `ScopeFileEcho` | 1 window, 2 mutations | *violation*, see findings |
| `Vaults` | 2 users, 2 tenants, 1 team, 2 listings, 1 change | one vault per key, complete listings, failure only on change, and the refinement |
| `AuthSessions` | 2 sessions, one of them rotating, 2 calls, 2 tokens per session, 1 failure | who signs out with nothing under way stays out; accepted sessions stay stored unless one of the four events hits them |
| `AuthOverlap` | the same, no failure | *violation*, see findings |
| `Services` | keys: 2 keys, 2 requests, interval 2, time 0..4; sign-in: 2 flows; vaults: 2 servers, 1 vault id, 2 calls; folders: 2 folders, 2 scans, 1 change each; moves: 2 scopes, 2 moves, 4 saves; runs: 1 run, 3 versions of an item, 1 file | rotated keys are found; sign-ins end with their own answer; the tree shows picked vaults, and the account of the refresh that began last has a session; open folders are read and watched; a moved item stays in a file; what runs is what was confirmed |
| `FolderMarkers` | 2 folders, 2 scans, 1 change each | *violation*, see findings |

Why the bounds are enough. Three groups give a chain with a middle, a cycle
of two with a third leading into it, and siblings; a fourth lets the loops
of `GroupWalks` run into a cycle that does not hold their start. Two copies
are what a cross-scope move or a hand edit produces, and all entries of an
import are compared pairwise by id. Two windows and two saves are what a
race takes; more only repeat it. One change in `Vaults` may fall between any
two queries of both listings. For the properties in the table of section 4
the proofs remove the bounds.

In `Functions`, the code treats the fields of an item one by one, so that
changing one field of a full item reaches each of its cases; the lists of the
context decide together whether there is a context, so two vary together. Four
tokens hold the smallest placeholder and every way to break it off; the longer
texts made of whole placeholders add neighbours, defaults, secrets and
repetition. Three tokens after another
call of the same command reach every rule of `danger.ts`. In `Services`, two
of everything make a race; of two keys, one is published from the start
and one is unknown until it is, while any request may name it, and the time lets a
load run for longer than the interval and the floor be reached twice; one vault id on two servers is the case the key
`server#id` is for; a move takes two saves, and two more are another move, or
saves that overtake it, with loads between any two steps.
`AuthSessions` has one session of each kind of server, and one call more than
the one it speaks of; two tokens are a refresh, and the failure is any of a lost
answer, a request without an answer, a revocation or a crash. `ScopeFileWatch`
has two loads at a time, as overtaking takes, and three writes: the text, another
one and the text again; to a window that reads, a rename by another window is one
such write.

`CHECK_DEADLOCK FALSE` is in every cfg: bounded clocks, changes, failures
and mutations run out, a loop that returned has nothing left to do, and a
user need not do anything.

**Fairness.** `Functions` assumes weak fairness of a loop's step: JavaScript
goes on with a loop. `ScopeFile`'s `FairSpec` assumes that VS Code answers a
file system call, delivers a watcher event and runs a timer (weak fairness
of each of these steps). `SignInFairness` assumes that requests are answered or
fail, that the question whether to open the browser is answered (while it is
open the code waits, whatever the timer does), and that timers go off;
redirects, the cancel button and the start of a sign-in owe nothing, so
`FlowsEnd` rests on the router's timer. No user, external writer, crash or
error is required to happen. Everything else is safety.

### Findings

With a run that shows it:

1. `ScopeFileErrorStays` (store.ts 210): a file that breaks and is put back
   to the text last known takes the early return of `load` before the error
   is cleared; the scope stays broken and unwritable until Refresh, although
   README says changes are picked up automatically.
2. `ScopeFileEcho` (store.ts 210, 269): `lastWritten` is one text, set after
   the rename. A watcher's load that read an earlier write and ends after a
   later mutation puts the earlier library back in memory.
3. `AuthOverlap` (sessionStore.ts 47): two overlapping read-modify-writes of
   the sessions lose one of them.
4. `FolderMarkers` (contextService.ts 107): the watcher of one folder gives
   its markers to the context of a file in another.

Met while modelling, without a run of their own. Where a variable or an operator
is named, the model takes the step, and a property excepts it by that name:

5. normalize.ts 85: on a cycle of parents `descendantGroupIds` returns the group
   itself, which its comment excludes (`DescendantGroupIds` returns it too).
6. store.ts 194: of two loads of one window the one that read the older text may
   end last, and installs it for good (`Overtaken` in `ScopeFile`).
7. store.ts 251: "never overwrites it" holds only for a file the last load
   found broken (`Rename` in `ScopeFile` has no guard on what it replaces).
8. store.ts 264: an older save of the target is renamed after the move's, and the
   item is in no file once the source is saved (`raced` in `Moves`).
9. store.ts 365: two moves of one item in opposite directions delete it from
   both scopes (`Crosses` in `Moves`).
10. authProvider.ts 116: a refresh that is refused for a used token removes the
    newer token another refresh has stored (`risked` in `AuthSessions`).
11. sessionStore.ts 52: a sign-in to another account, or a refresh, that overlaps
    with a sign-out writes the signed-out session back (status `raced`).
12. jwks.ts 84: loads that fail do not count for the floor between reloads
    (`FailLoad` in `KeySet`).
13. remoteService.ts 102: an answer that comes late is shown, with an account that
    is signed out or of a server that is not configured (`current` in `Remote`).
14. codeSnippets.ts 97: a definition under the empty key becomes an item that
    saves and does not load.
15. editorPanel.ts 25: the form splits lists at commas and line breaks, and a
    glob such as `*.{ts,tsx}` with them, and drops blank entries (`Resplit`).
16. resolve.ts 47: built-ins are read before the questions, the terminal's
    directory after them.
17. usage.ts 13: nothing calls the pruning of statistics.

### Limits of the properties that hold

- `KeepsAJournal` and `MemoryCoversDisk` are claims about a window whose user
  does one thing at a time in a file nobody else writes; other windows read. `ScopeFile` assumes
  that two saves of one window never fall into one millisecond (store.ts 261).
- `ChangesAreServed` is a claim about windows that only read, and excepts a text
  for which a load of an older one waits beside a load that has read it
  (`Overtaken`, finding 6). `TempsAreInUse` excepts `orphans`.
- `SignedOutStaysOut` is a claim about a sign-out with no refresh of the session
  and no write that has read it under way (finding 11).
  `KeepsAcceptedSessions` excepts the sessions in `risked`: each of its four
  events does lose a session, as `AuthOverlap` and finding 10 show of two.
  `AuthSessions` has no failing SecretStorage.
- `MoveKeepsTheItem` excepts the three races of `raced` (findings 8 and 9 are two of them), and speaks of the item,
  not of its newest version: an update of the source while the target is being
  saved is deleted with it.
- `TreeShowsPickedVaults` speaks of vaults, whatever answer was set last;
  `ShowsTheSession` also of the account, while `current` (finding 13).
- `OpenFoldersAreWatched` does not say that a cache is current: a file that
  changes between a refresh's read and its watchers is not seen until the next
  change or refresh (discoveryService.ts 66-72).
- `RotationIsSeen` excepts the request that joins a load already under way for a
  reload interval: such a load may have read the keys before the rotation.
- `FormKeepsTheItem` excludes the lists that a split does not give back
  (`Resplit`), `SavedFilesLoad` imports under an empty key; both are findings.
  Line breaks of a body are taken through unchanged: how a page's text area
  writes them is not modelled.
- `ExportKeepsEverySnippet` says of languages that they come back if they are
  trimmed and have no comma: a scope is a list joined with commas.
- `TreeShowsEverything` excepts the node above the tasks, which names no
  parent in `getParent`. `DropMovesOneGroup` says of several groups dropped on
  a sibling that they end up together after it; the code reverses their order.
- Usage is keyed by the item's id alone, so an item in two scopes shares its
  statistics (usageStore.ts 26-31); no property speaks of it.

## 4. What is proved

TLAPS checks these for every value of the constants. "Hypothesis" is what a
theorem assumes of them beyond the modules' assumptions, listed below.

| Module | Theorem | Property | Hypothesis |
|---|---|---|---|
| `FunctionsProofs` | `HasCycleIsCorrect`, `WouldCreateCycleIsCorrect`, `DescendantsAreCorrect` | partial correctness of the three loops on every hierarchy, of any size | |
| `LibraryProofs` | `TypeCorrect`, `AlwaysWellFormed`, `MergingKeepsFreshItems` | `TypeOK`, `WellFormed`, `MergeKeepsFreshItems` | |
| `LibraryProofs` | `ReparentingIsExact`, `DeletionTakesTheSubtree`, `UngroupingKeepsThePlace` | the action properties `ReparentIsExact`, `DeleteTakesTheSubtree`, `UngroupKeepsThePlace` | |
| `VaultsProofs` | `TypeCorrect`, `AllAgree`, `AnswersStay`, `ListingsAreComplete`, `ListingsFailOnlyOnChange` | `TypeOK`, `CallersAgree`, `AnswersLast`, `ListsEverything`, `FailsOnlyOnChange` | |
| `VaultsProofs` | `ImplementsRegistry` | the refinement `GetOrCreate` | |
| `ScopeFileProofs` | `TypeCorrect`, `FileIsNeverTorn`, `TempsBelongToSaves`, `RenamesOwnText` | `TypeOK`, `NeverTorn`, `TempsAreInUse`, the action property `SavesItsOwnText` | |
| `ScopeFileProofs` | `MemoryStaysAhead` | `MemoryCoversDisk` | `Serial` |
| `ScopeFileProofs` | `ImplementsJournal`, `AckedStaysSaved` | the refinement `KeepsAJournal`; that an acknowledged mutation is in the file | `Serial` |
| `AuthSessionsProofs` | `TypeCorrect`, `SigningOutLasts`, `AcceptedSessionsStay` | `TypeOK`, `SignedOutStaysOut`, `KeepsAcceptedSessions` | |
| `ServicesProofs` | `RotationPropagates`, `RedirectsReachTheirFlow`, `ShownVaultsArePicked`, `ShownAccountsAreSignedIn`, `NoFolderIsForgotten`, `ConfirmedTextRuns` | `RotationIsSeen`, `CallbacksReachTheirFlow`, `TreeShowsPickedVaults`, `ShowsTheSession`, `OpenFoldersAreWatched`, `RunsWhatWasConfirmed` | |
| `ServicesProofs` | `MovedItemsStay` | `MoveKeepsTheItem` | |
| `FunctionsProofs` | `SavedFilesLoadAgain` | `SavedFilesLoad` | |
| `FunctionsProofs` | `SoundItemsLoadAgain`, `FilesAreRewritten`, `MadeItemsAreSound`, `PatchedItemsAreSound` | that any sound item and any accepted document is saved to text that loads again, and that every way to make or patch an item gives a sound one | |
| `FunctionsProofs` | `SavingTheFormChangesNothing`, `SavingTheFormKeepsItems` | `FormKeepsTheItem`; the same of any sound item | |
| `FunctionsProofs` | `ChainsAreFlagged`, `ChainsHideNoStep` | `ChainsKeepDanger`; the same of any number of steps of any length | |
| `FunctionsProofs` | `EveryViewIsShown`, `TreesAreComplete` | `TreeShowsEverything`; the same of any view of well-formed scopes | |
| `TextsProofs` | `TemplatesAreFaithful`, `EscapedTextRenders`, `TemplatesLoseNothing` | `TemplateIsFaithful`; its two parts for any text | |
| `TextsProofs` | `StringsAreKept`, `TextsAreStripped` | `StringsSurvive`; the same of any number of lexemes of any length | |
| `ListsProofs` | `QuickPicksAreRanked`, `SectionsAreInOrder` | `QuickPickKeepsTheRank`; the same of any list of items with any uses and contexts | |
| `ListsProofs` | `ExportsAreKept`, `ExportsAreImported` | `ExportKeepsEverySnippet`; the same of any list of items with any titles | |
| `ListsProofs` | `DropsAreInPlace`, `DroppedGroupsGoThere`, `EditedGroupsStay`, `DroppedGroupsStayTogether` | `DropMovesOneGroup`; its parts for any forest of groups with any orders, and for any number of groups dropped together | |

`Serial` (at most one window saves, its user waits, reads do not fail, the file
is not watched and nobody else writes it) is the setting of `ScopeFileSerial`,
for any number of windows, mutations and crashes: without it the properties are
false, as `ScopeFileEcho` shows for a watched file and overlapping mutations,
and the hazards of `PROJECT.json` say for two windows and for failing reads.

The assumptions of the modules: `NoGroup`, `NoTokens`, `NoKid` and `None` are
none of the values they stand in for (`NoGroupAssumption`, `AuthAssumption`,
`KeySetAssumption`, `SignInAssumption`, `RemoteAssumption`, `MovesAssumption`, `RunsAssumption`); bounds are natural
numbers and switches Boolean; incoming files are files (`LibraryAssumption`);
a team has an organisation (`VaultsAssumption`); groups are finitely many, and
three of them make a tree, and statistics may be two half-lives old
(`FunctionsAssumption`); the reload interval is not zero; an edit by hand is no mutation, and a call of `ensureFile` is neither a
mutation nor a name (`ScopeFileAssumption`). TLC evaluates each of them.

### The arguments

*GroupWalks.* Each loop has an invariant that relates `visited` and
`current` to the answer: a walk up has visited groups at or above its start
only, and the rest of the chain decides; a walk down has visited descendants
only, and everything below what it visited is visited or queued. At the end
these are the declarative definitions.

*Library.* `WellFormed` is preserved because every mutation ends in the
repair: `RepairMakesForest` shows that the repair yields a forest whatever it
is given. The action properties need the converse
(`RepairKeepsForest`, `RepairKeepsItems`: what is well-formed is left alone),
and that their drafts are well-formed: `MoveKeepsForest` for a move that
`wouldCreateCycle` accepts, `SubtreeIsTaken` for what is left of a deleted
subtree, `UngroupLeavesForest` for the lifted children of one group. Who is
above whom after that is `UngroupKeepsAbove`: a set closed under the old
parents is closed under the new ones, and the reverse once the deleted group
joins it. `MergeKeepsFreshItems` needs only the types, by which stamps can be
compared: the one copy the merge looks at (`itemIndex`) gives way only to the
newest of those in the file that are newer than it.

*Vaults.* `CallersAgree` is not inductive: an answer outlives the query that
gave it. The invariant `IInv` adds the unique index (`OneRowPerKey`), the
foreign keys (`RowsLive`), and that an answer is still the row of its key
while its tenant and team live (`AnswersLast`); deleted tenants and teams
never return, so a dead key gets no second vault. The refinement reads
`vaultOf` off the rows, one per key. For complete listings,
`ListingInv` says what a listing has read and answered at each of its
queries, as long as nothing changed since it began.

*ScopeFile.* `NeverTorn` is not inductive: a rename puts in place whatever the
temporary file holds. `SaveInv` says that no two saves share a temporary file
(`OwnTemps`, from distinct operations, `OwnOps` and `OpsStarted`), and what it
holds at each step of its save (`TempsMatch`); even `TypeOK` needs the latter,
since a rename copies the temporary file into the file. `SavesItsOwnText` is
`TempsMatch` at the rename. Under `Serial`, `Covered` says that memory covers
the file, what was last written and the save under way, that the save covers
the file and what was acknowledged, and that what a load has read is still the
file; a crash empties the calls, and the window that comes next loads before
its user acts. With `OnlyAsked` (file and memory hold what was asked) each
step then maps to one of `Journal`: a mutation asks, a rename saves, the end
of a save acknowledges, and nothing else shows.

*AuthSessions.* `IInv` adds to the types what each step of a call carries
(`Shapes`); that tokens stored, read or on their way were issued
(`TokensIssued`), so that what the server issues next is none of them; and that
a call about to remove a session was refused for the tokens it holds, which
the server never accepts again (`RefusedStayRefused`): a call that finds those
tokens still stored removes nothing that is accepted. `OutIsOut` says that of a
session that is `out` nothing is stored and no call holds it, so that no write
brings it back. `KeepsAcceptedSessions` is then inductive: a write replaces
what it has read, and a session that changed since is in `risked`.

*Services.* `KeyInv`: a key missing from the cache, or from a load in flight
that has read the keys, was published when that load started or later
(`MissesOnlyNewer`), and who waits for a load has joined the one in flight
(`WaitsForTheLoad`). `SignInInv`: the map holds the promises that wait, and a flow has taken
only the redirect of its own state. `RemoteInv`: whatever is mounted of a
server is picked there, and the refresh that began last, until it ends, asks the
server that is configured, with a session there once it has one
(`NewestIsCurrent`): each change begins a newer one.
`FoldersInv`: an open folder is read or a scan will read it, and is watched or
a refresh will watch it (`ReadInTheEnd`, `WatchedInTheEnd`). `RunsInv`: at each
question, what the run has collected is what its version of the item asks for,
and what is being confirmed is the whole text.

*Moves.* The item must survive the save that is about to empty a scope. Some
scope has it in its file, in memory and in every save that can still land on a
newer one (`Stays`); and from the save of a move's copy on, every later save of
the target has it (`Arrives`), so that the target stays when that save is done
and the source goes. Each save of a move is where the move waits for it, and the
only one (`Placed`, `Alone`), and moves under way take the item from one scope
(`OneSource`, up to `raced`). A save that a later one of its scope has
overtaken is not `Current`, and lands only in a race. A load that installs
what the file says, with no save of the scope under way, leaves the item where
it stays.

`TypeOK` of the modules with proofs is part of these invariants and proved, so
no run checks it again.

*Functions.* The general theorems speak of any input of a type that says what
the program's values are, and the invariants follow because the inputs of the
run are of these types. Items: `Held` says what each field of an item in
memory may have; the validator puts items into it, every way to make or patch
one stays in it, and of each field what the serializer leaves out is what the
validator puts back (`WrittenIsRead`). Chains: the text of a chain is the
steps one after the other with `&&` between them (`FlattenPlaces`), so that
each rule finds in the text, at the step's place, what it finds in the step.
Tree: of its levels, unrolled by `LevelsAre`, each finds more groups than the
one before until all are found, so that there are enough levels; what is never found
would be a set closed under parent, which a forest has not.

Recursive functions and folds over sequences are unrolled by induction up to a
number, or down from one (`UpTo`, `DownToOne`, from `LeastExists` and the
library's `WFMin`): the set of the lengths for which a function with the
recursive equations exists holds all lengths, and the function is then the
one `CHOOSE` denotes (`FlattenIs`, `ParseIs`).

*Templates.* `TurnIs` lists what one turn of the parser may do and
`TurnAdvances` that it goes on. For escaped text, the turn at each token's
place makes one text node of it and goes to the place of the next
(`EscapedTurn`). For any text, the node a turn makes renders as what the turn
has read, when its value is spelt as its placeholder is (`TurnSpells`); then
the text from each place on is rendered as it was, from the end backwards.

*JSON with comments.* Both passes of `Jsonc` are loops with a mode (`LoopIs`).
At the place of a lexeme, outside of any string, the first writes what the
lexeme strips to and goes on at the place of the next, outside again
(`LexemeGoesOn`); in a string it is in the mode "escaped" exactly after an odd
number of backslashes (`StringModes`). The second does the same on what the
first wrote, where a comma looks ahead to the next piece that
is not blank (`PieceGoesOn`). `LoopFlattens` puts the results together.

*Lists.* The elements a filter keeps are in the order they had (`SelectedHas`),
and a list that has all of one kind before all of the next is its kinds, one
after the other (`KindsInOrder`); sorting gives such a list (`InsertedInOrder`),
since pinned items are before relevant ones and those before the others. For
exports, a loop that has used fewer keys than it has candidates finds a free
one (`FreeKeyIsFree`, by the pigeonhole principle), so each snippet is written
under a key of its own (`Written`) and read back from it.

*Dropping groups.* Siblings have one order, by `order` and name, and the list
the tree shows is the only one that follows it (`GroupsAreSorted`, by how many
come before each; `EnumerationIsUnique`). A drop leaves a forest
(`MovedGroupsAreAForest`), so that saving repairs nothing
(`RepairChangesNothing`), and leaves which of two other groups comes first
(`Still`), so that the lists without the dropped group are the same
(`SameOrderSameList`). Renumbering a list with the group put after its target
(`ReorderedIs`) makes it the target's next (`Follows`); one more than the
highest order makes it the last (`PutLastIs`). Of several groups dropped
together, those dropped so far come after the target and before all that
follow it (`Gathered`), whatever comes between; at the end nothing else does
(`TheseFollow`, which counts them).

*Only model-checked:* termination of the loops, `ChangesAreServed` and
`FlowsEnd` (liveness, beyond the provers as ENABLED is). Every other property
of a passing run is stated by a theorem.

## 5. Plan

What is left: saves of one window that rename out of order (store.ts 264) are
explored in `Moves`, not yet in `ScopeFile`, where a weaker journal
could say what they keep; writes by others during a move.

### Not modelled

- Discovery parsers: regular expressions over text, without state; unit tests
  cover them.
- The server frame (Hono routes, configuration, seeding of the client):
  better-auth and Drizzle hold its state, and they are modelled only from how
  the vault service and the sessions use them. Concurrent seeding is listed
  as a hazard.
- Labels, icons, tooltips, HTML and the page of the form; completions, which
  list what the store has; the table of terminals, whose reuse only matters to
  what VS Code shows.
- The list of secret names and the counts of usage: bookkeeping whose next
  write repairs it.
- Folders that come and go while a scope file is saved, and read-only scopes.
- CI, packaging, generated and vendored files.
