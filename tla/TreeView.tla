------------------------------- MODULE TreeView -------------------------------
(***************************************************************************)
(* The view snipPick.library: what LibraryTreeProvider of                  *)
(* apps/extension/src/ui/tree/treeProvider.ts shows, and what dropping a   *)
(* group does to the order of groups (reorderGroups, reparentGroup and     *)
(* addGroup of apps/extension/src/store/store.ts).                         *)
(*                                                                         *)
(* The groups of a scope give each id its parent, its order and its name,  *)
(* a number that sorts as the name does.  Groups read from a file may      *)
(* share an order.                                                         *)
(***************************************************************************)
EXTENDS Normalize, Lists, SequencesExt, FiniteSetsExt

CONSTANTS User, Folder, NoServer    \* the user scope, the scopes of workspace folders, no server

Scope == Folder \cup {User}

ParentsOf(groups) == [g \in DOMAIN groups |-> groups[g].parent]
ChildrenOf(groups, p) == {g \in DOMAIN groups : groups[g].parent = p}

(* By order, then by name. *)
Precedes(groups, a, b) ==
    \/ groups[a].order < groups[b].order
    \/ groups[a].order = groups[b].order /\ groups[a].name < groups[b].name

(* A group's place says how many come before it. *)
SortGroups(groups, ids) ==
    [k \in 1..Cardinality(ids) |->
        CHOOSE g \in ids : Cardinality({h \in ids : Precedes(groups, h, g)}) = k - 1]
SortedChildren(groups, p) == SortGroups(groups, ChildrenOf(groups, p))

-----------------------------------------------------------------------------
(* The order of groups.                                                    *)

(* Mutate repairs what the change leaves. *)
Repaired(groups) ==
    LET parent == NormalizeGroups(ParentsOf(groups))
    IN  [g \in DOMAIN groups |-> [groups[g] EXCEPT !.parent = parent[g]]]

(* Mutant: the number of the siblings, which orders with gaps go beyond. *)
CountOrder(groups, siblings) == Cardinality(siblings)

(* One more than the highest order of the siblings. *)
NextOrder(groups, siblings) == Max({groups[s].order : s \in siblings} \cup {-1}) + 1

AddGroup(groups, g, name, parent) ==
    LET added == [parent |-> parent, order |-> NextOrder(groups, ChildrenOf(groups, parent)), name |-> name]
    IN  Repaired([h \in DOMAIN groups \cup {g} |-> IF h = g THEN added ELSE groups[h]])

RenameGroup(groups, g, name) ==
    IF g \in DOMAIN groups THEN Repaired([groups EXCEPT ![g].name = name]) ELSE groups

ReparentGroup(groups, g, parent) ==
    IF WouldCreateCycle(ParentsOf(groups), g, parent)
    THEN [refused |-> TRUE, groups |-> groups]
    ELSE [refused |-> FALSE,
          groups |-> Repaired([groups EXCEPT
                         ![g].parent = parent,
                         ![g].order = NextOrder(groups, ChildrenOf(groups, parent) \ {g})])]

ReorderGroups(groups, ids) ==
    Repaired([g \in DOMAIN groups |->
                 IF g \in ToSet(ids) THEN [groups[g] EXCEPT !.order = SelectInSeq(ids, LAMBDA id : id = g) - 1]
                 ELSE groups[g]])

Without(list, moved) == Selected(list, ToSet(list) \ moved)

ReorderAfter(groups, moved, after) ==
    LET order == Without(SortedChildren(groups, groups[moved].parent), {moved})
        index == SelectInSeq(order, LAMBDA id : id = after)
    IN  ReorderGroups(groups, SubSeq(order, 1, index) \o <<moved>> \o SubSeq(order, index + 1, Len(order)))

(* A target is a group, or the group of an item or of the scope, which     *)
(* nothing is a sibling of.  Onto a sibling is next to it.                 *)
IsSibling(groups, g, target) ==
    /\ target.kind = "group" /\ target.group # g
    /\ groups[target.group].parent = groups[g].parent

DropGroup(groups, g, target) ==
    IF IsSibling(groups, g, target)
    THEN [refused |-> FALSE, groups |-> ReorderAfter(groups, g, target.group)]
    ELSE ReparentGroup(groups, g, target.group)

(* The groups selected are dropped one after the other, until one is refused. *)
HandleDrop(groups, selected, target) ==
    LET result[k \in 0..Len(selected)] ==
            IF k = 0 THEN [refused |-> FALSE, groups |-> groups]
            ELSE IF result[k - 1].refused THEN result[k - 1]
            ELSE DropGroup(result[k - 1].groups, selected[k], target)
    IN  result[Len(selected)]

-----------------------------------------------------------------------------
(* The nodes.  A view is what the tree is drawn from: of each scope its    *)
(* groups, the group of each of its items, whether its file is broken;     *)
(* what is hidden as not relevant; the tasks found, by folder and source;  *)
(* the server, whether it is signed in to, and the vaults mounted.         *)

Vaults(view) ==
    CASE view.server = NoServer -> {}
      [] view.server # NoServer /\ ~view.signedIn -> {[kind |-> "signIn"]}
      [] OTHER -> {[kind |-> "remoteVault", vault |-> v] : v \in view.mounted}

Sources(view, folder) == {s \in DOMAIN view.discovered[folder] : view.discovered[folder][s] # {}}

(* Mutant: a broken file counts for nothing. *)
IsLibraryEmptyBroken(view) ==
    /\ \A s \in Scope : DOMAIN view.items[s] = {} /\ DOMAIN view.groups[s] = {}
    /\ view.discovery => \A f \in Folder : Sources(view, f) = {}

IsLibraryEmpty(view) ==
    /\ \A s \in Scope : DOMAIN view.items[s] = {} /\ DOMAIN view.groups[s] = {}
    /\ view.broken = {}
    /\ view.discovery => \A f \in Folder : Sources(view, f) = {}

RootNodes(view) ==
    IF IsLibraryEmpty(view) /\ Vaults(view) = {} THEN {}
    ELSE {[kind |-> "scope", scope |-> s] : s \in Scope} \cup Vaults(view)

GroupNodes(view, s, p) == {[kind |-> "group", scope |-> s, group |-> g] : g \in ChildrenOf(view.groups[s], p)}
ItemNodes(view, s, p) ==
    {[kind |-> "item", scope |-> s, item |-> i] :
        i \in {i \in DOMAIN view.items[s] : view.items[s][i] = p /\ i \notin view.hidden}}

ScopeChildren(view, s) ==
    {[kind |-> "error", scope |-> s] : x \in {s} \cap view.broken}
    \cup GroupNodes(view, s, NoGroup) \cup ItemNodes(view, s, NoGroup)
    \cup {[kind |-> "discoveryRoot", folder |-> f] :
             f \in {f \in Folder \cap {s} : view.discovery /\ Sources(view, f) # {}}}

GetChildren(view, n) ==
    CASE n.kind = "scope" -> ScopeChildren(view, n.scope)
      [] n.kind = "group" -> GroupNodes(view, n.scope, n.group) \cup ItemNodes(view, n.scope, n.group)
      [] n.kind = "discoveryRoot" ->
            {[kind |-> "discoveryGroup", folder |-> n.folder, source |-> s] : s \in Sources(view, n.folder)}
      [] n.kind = "discoveryGroup" ->
            {[kind |-> "discoveryItem", folder |-> n.folder, source |-> n.source, task |-> t] :
                t \in view.discovered[n.folder][n.source]}
      [] n.kind = "remoteVault" -> {[kind |-> "remoteNotice", vault |-> n.vault]}
      [] OTHER -> {}

InTree(s, g) ==
    IF g = NoGroup THEN [kind |-> "scope", scope |-> s] ELSE [kind |-> "group", scope |-> s, group |-> g]

GetParent(view, n) ==
    CASE n.kind = "item" -> InTree(n.scope, view.items[n.scope][n.item])
      [] n.kind = "group" -> InTree(n.scope, view.groups[n.scope][n.group].parent)
      [] n.kind = "error" -> InTree(n.scope, NoGroup)
      [] n.kind = "discoveryGroup" -> [kind |-> "discoveryRoot", folder |-> n.folder]
      [] n.kind = "discoveryItem" -> [kind |-> "discoveryGroup", folder |-> n.folder, source |-> n.source]
      [] n.kind = "remoteNotice" -> [kind |-> "remoteVault", vault |-> n.vault]
      [] OTHER -> [kind |-> "none"]

AllNodes(view) ==
    LET level[depth \in 0..Cardinality(GroupId) + 3] ==
            IF depth = 0 THEN RootNodes(view)
            ELSE UNION {GetChildren(view, n) : n \in level[depth - 1]}
    IN  UNION {level[d] : d \in 0..Cardinality(GroupId) + 3}

-----------------------------------------------------------------------------
(* Properties                                                              *)

OthersStay(before, after, moved) ==
    \A p \in DOMAIN before \cup {NoGroup} :
        Without(SortedChildren(after, p), moved) = Without(SortedChildren(before, p), moved)

(* A group dropped on a sibling comes right after it; dropped elsewhere it *)
(* becomes the last child there, unless it would be below itself.  No      *)
(* other group moves, whatever orders the file had (treeProvider.ts        *)
(* 451-488, store.ts 389-418).                                             *)
DropsInPlace(groups, g, target) ==
    LET result == DropGroup(groups, g, target)
        list == SortedChildren(result.groups, result.groups[g].parent)
    IN  IF result.refused
        THEN result.groups = groups /\ target.group \in {g} \cup DescendantGroupIds(ParentsOf(groups), g)
        ELSE /\ OthersStay(groups, result.groups, {g})
             /\ IF IsSibling(groups, g, target)
                THEN <<target.group, g>> \in {SubSeq(list, k, k + 1) : k \in 1..Len(list) - 1}
                ELSE result.groups[g].parent = target.group /\ Last(list) = g

(* A new group comes after its siblings, and a new name moves one group.   *)
EditsInPlace(groups, g, new, name) ==
    LET added == AddGroup(groups, new, name, g)
        renamed == RenameGroup(groups, g, name)
    IN  /\ OthersStay(groups, added, {new}) /\ Last(SortedChildren(added, g)) = new
        /\ OthersStay(groups, renamed, {g}) /\ ParentsOf(renamed) = ParentsOf(groups)

(* Siblings dropped together on another come right after it, all of them.  *)
DropsTogether(groups, selected, target) ==
    LET after == HandleDrop(groups, selected, target).groups
        list == SortedChildren(after, groups[target.group].parent)
        place == SelectInSeq(list, LAMBDA id : id = target.group)
    IN  (\A g \in ToSet(selected) : IsSibling(groups, g, target)) =>
            /\ OthersStay(groups, after, ToSet(selected))
            /\ ToSet(SubSeq(list, place + 1, place + Len(selected))) = ToSet(selected)

(* What there is to see is in the tree: every group, every item that is    *)
(* not hidden, every broken file, every task and every mounted vault; and  *)
(* the parent of a node is the node it was found under, which revealing a  *)
(* new item relies on.  (The node above the tasks says it has none.)       *)
TreeIsComplete(view) ==
    LET nodes == AllNodes(view)
    IN  /\ \A s \in Scope :
              /\ \A g \in DOMAIN view.groups[s] : [kind |-> "group", scope |-> s, group |-> g] \in nodes
              /\ \A i \in DOMAIN view.items[s] \ view.hidden : [kind |-> "item", scope |-> s, item |-> i] \in nodes
              /\ s \in view.broken => [kind |-> "error", scope |-> s] \in nodes
        /\ \A f \in Folder : view.discovery =>
              \A s \in DOMAIN view.discovered[f] : \A t \in view.discovered[f][s] :
                  [kind |-> "discoveryItem", folder |-> f, source |-> s, task |-> t] \in nodes
        /\ view.server # NoServer /\ view.signedIn =>
              \A v \in view.mounted : [kind |-> "remoteVault", vault |-> v] \in nodes
        /\ \A n \in nodes : \A c \in GetChildren(view, n) :
              c.kind # "discoveryRoot" => GetParent(view, c) = n
=============================================================================
