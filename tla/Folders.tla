-------------------------------- MODULE Folders --------------------------------
(***************************************************************************)
(* What the extension knows of the workspace's folders: the tasks of       *)
(* DiscoveryService (apps/extension/src/discovery/discoveryService.ts) and *)
(* the marker files of ContextService (context/contextService.ts).         *)
(*                                                                         *)
(* Both keep a cache by folder and refresh it alike: drop the watchers and *)
(* the cache, read every folder that is open, then watch them, and read    *)
(* one again when its watcher fires.  Refreshes overlap.  A behaviour is   *)
(* about one of the two, `service`; what is in a folder is the number of   *)
(* its changes.                                                            *)
(***************************************************************************)
EXTENDS NoValue, Naturals, FiniteSets

CONSTANTS
    Folder,
    ScanCall,       \* refreshes and rescans under way at once
    MaxChanges      \* bound on the changes of a folder

VARIABLES
    service,        \* "discovery" or "context"
    open,           \* the folders of the workspace
    disk,           \* what is in each folder
    enabled,        \* snipPick.discovery.enabled
    cache,          \* what the service knows of each folder
    watched,        \* the folders it watches
    scan,           \* each call: [op, folders, left, got]
    active,         \* the folder of the active file, ContextService.folder
    markers         \* the markers of the context in use

folderVars == <<service, open, disk, enabled, cache, watched, scan, active, markers>>

Idle == [op |-> "none"]
Unread == [f \in Folder |-> None]

FoldersInit ==
    /\ service \in {"discovery", "context"}
    /\ open = {}
    /\ disk = [f \in Folder |-> 0]
    /\ enabled = TRUE
    /\ cache = Unread
    /\ watched = {}
    /\ scan = [c \in ScanCall |-> Idle]
    /\ active = None
    /\ markers = None

(* reapplyMarkers, of a folder or else of the active one; only the context has markers. *)
ReapplyMarkers(folder, known) ==
    LET target == IF folder # None THEN folder ELSE active
    IN  markers' = IF service = "context" /\ target # None THEN known[target] ELSE markers

(* refresh and refreshMarkers, up to their first await. *)
Refresh(c, folders) ==
    /\ scan[c] = Idle
    /\ watched' = {}
    /\ cache' = Unread
    /\ IF folders = {}
       THEN UNCHANGED scan /\ ReapplyMarkers(None, Unread)
       ELSE /\ scan' = [scan EXCEPT ![c] = [op |-> "refresh", folders |-> folders, left |-> folders, got |-> Unread]]
            /\ UNCHANGED markers

ChangeFolders(c) ==
    /\ \E f \in Folder :
          /\ open' = IF f \in open THEN open \ {f} ELSE open \cup {f}
          /\ Refresh(c, IF enabled THEN open' ELSE {})
    /\ UNCHANGED <<service, disk, enabled, active>>

ToggleDiscovery(c) ==
    /\ service = "discovery"
    /\ enabled' = ~enabled
    /\ Refresh(c, IF enabled' THEN open ELSE {})
    /\ UNCHANGED <<service, open, disk, active>>

(* The files of a folder, or its directory, are read. *)
ReadFolder(c) ==
    /\ scan[c] # Idle
    /\ \E f \in scan[c].left :
          /\ scan[c].got[f] = None
          /\ scan' = [scan EXCEPT ![c].got[f] = disk[f]]
    /\ UNCHANGED <<service, open, disk, enabled, cache, watched, active, markers>>

(* Mutant: the old watchers go when the new ones are made. *)
WatchInstead(c) == watched' = scan[c].folders

(* When all folders are read, they are watched, besides those that are by now. *)
Watch(c) == watched' = watched \cup scan[c].folders

(* The end of scan and of readMarkers, and of what waits for it. *)
FillCache(c) ==
    /\ scan[c] # Idle
    /\ \E f \in scan[c].left :
          LET known == [cache EXCEPT ![f] = scan[c].got[f]]
              last == scan[c].left = {f}
          IN  /\ scan[c].got[f] # None
              /\ cache' = known
              /\ scan' = [scan EXCEPT ![c] = IF last THEN Idle ELSE [scan[c] EXCEPT !.left = @ \ {f}]]
              /\ IF last /\ scan[c].op = "refresh" THEN Watch(c) ELSE UNCHANGED watched
              /\ IF last THEN ReapplyMarkers(IF scan[c].op = "rescan" THEN f ELSE None, known) ELSE UNCHANGED markers
    /\ UNCHANGED <<service, open, disk, enabled, active>>

(* A file of a folder comes, goes or changes; a watcher reads it again. *)
ChangeFile(c) ==
    /\ \E f \in Folder :
          /\ disk[f] < MaxChanges
          /\ disk' = [disk EXCEPT ![f] = @ + 1]
          /\ IF f \in watched
             THEN /\ scan[c] = Idle
                  /\ scan' = [scan EXCEPT ![c] = [op |-> "rescan", folders |-> {f}, left |-> {f}, got |-> Unread]]
             ELSE UNCHANGED scan
    /\ UNCHANGED <<service, open, enabled, cache, watched, active, markers>>

(* update: an editor with a file of a folder, or of none. *)
ActivateEditor ==
    /\ service = "context"
    /\ \E f \in open \cup {None} :
          /\ active' = f
          /\ markers' = IF f = None THEN None ELSE cache[f]
    /\ UNCHANGED <<service, open, disk, enabled, cache, watched, scan>>

FoldersNext ==
    \/ ActivateEditor
    \/ \E c \in ScanCall :
          ChangeFolders(c) \/ ToggleDiscovery(c) \/ ReadFolder(c) \/ FillCache(c) \/ ChangeFile(c)

FoldersSpec == FoldersInit /\ [][FoldersNext]_folderVars

-----------------------------------------------------------------------------
AtRest == \A c \in ScanCall : scan[c] = Idle

(* Once all refreshes and scans are over, every open folder has been read  *)
(* and is watched, in whatever order the refreshes ended: otherwise its    *)
(* tasks and markers would stay as they are until the folders change       *)
(* (discoveryService.ts 57-75, contextService.ts 75-93).                   *)
OpenFoldersAreWatched ==
    AtRest /\ enabled => \A f \in open : f \in watched /\ cache[f] # None

(* "the marker files at the root of its workspace folder"                  *)
(* (contextService.ts 6): the context in use has the markers of the folder *)
(* of the active file.                                                     *)
MarkersAreTheActiveFolders ==
    AtRest /\ service = "context" /\ active \in open => markers = cache[active]
=============================================================================
