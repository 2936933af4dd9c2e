----------------------------- MODULE MCFunctions -----------------------------
(***************************************************************************)
(* The functions without state, for TLC: the walks of GroupWalks turn by   *)
(* turn, and every other function on the inputs below, each an initial     *)
(* state of its own.                                                       *)
(***************************************************************************)
EXTENDS GroupWalks, Integers, FiniteSets, TLC

CONSTANTS Word, MaxAge, Nowhere, User, Folder, NoServer

(* The inputs have three groups, and the tree is as deep as there are groups; *)
(* the uses are up to two half-lives old.                                     *)
ASSUME FunctionsAssumption ==
    /\ IsFiniteSet(GroupId) /\ \E S \in SUBSET GroupId : Cardinality(S) = 3
    /\ MaxAge \in Nat /\ MaxAge >= 2

VARIABLE input      \* what a function is given, or [about |-> "walk"]

Sequence == INSTANCE SequencesExt
Format == INSTANCE Formats
Template == INSTANCE Templates
Command == INSTANCE Danger
Json == INSTANCE Jsonc
Rank == INSTANCE Ranking
Tree == INSTANCE TreeView

SeqUpTo(S, n) == UNION {[1..k -> S] : k \in 0..n}

-----------------------------------------------------------------------------
(* Items: one of each type with all its fields, changed in one field, or   *)
(* in its context.  The empty key of a .code-snippets file is left out:    *)
(* the item it gives does not load again.                                  *)
FullItem(type) ==
    [Format!Item(type, "text", "text") EXCEPT
        !.description = "text", !.groupId = "text", !.tags = "list", !.context = "object",
        !.languages = "list", !.globs = "list", !.prefix = "text", !.cwd = "fileDir",
        !.confirm = "true", !.pinned = "true", !.steps = "list"]
Base == {FullItem("snippet"), FullItem("command")}
Varied(base, fields, values) == {[base EXCEPT ![f] = v] : f \in fields, v \in values}
WithoutContext(i, c) == [i EXCEPT !.context = c, !.languages = "undefined", !.globs = "undefined"]
ContextList == Format!Lists \cup {"undefined", "other"}
WithLists(i, l, g) == [i EXCEPT !.languages = l, !.globs = g]
RawItems ==
    (UNION {Varied(i, Format!Field \ {"context"}, Format!Value) : i \in Base})
    \cup {WithoutContext(i, c) : i \in Base, c \in {"undefined", "other"}}
    \cup {WithLists(i, l, g) : i \in Base, l \in ContextList, g \in ContextList}
LoadedItems == {Format!ValidItem(i) : i \in {i \in RawItems : Format!ItemErrors(i) = {}}}

Payloads(i) ==
    Varied(Format!Shown(i), {"title", "body", "description", "prefix"}, Format!Strings)
    \cup Varied(Format!Shown(i), {"tags", "steps", "languages", "globs"}, Format!Lists)
    \cup Varied(Format!Shown(i), {"confirm"}, {"true", "false"})
Snippets ==
    [name : Format!NonEmpty, body : Format!Strings, prefix : Format!Strings \cup {"undefined"},
     description : Format!Strings \cup {"undefined"}, languages : {"undefined", "list", "lines"}]
Made ==
    {Format!CreateSnippet(b, g, e) : b \in Format!Strings, g \in {"undefined", "text"}, e \in BOOLEAN}
    \cup {Format!CreateCommandItem(g) : g \in {"undefined", "text"}}
    \cup {Format!CopyDiscovered(t, g) : t \in [name : {"text"}, command : {"text"}, detail : {"undefined", "empty", "text"}],
                                        g \in {"undefined", "text"}}
    \cup {Format!SnippetToItem(s, g) : s \in Snippets, g \in {"undefined", "text"}}
    \cup (UNION {{Format!UpdateItem(i, Format!ToPatch(p)) : p \in Payloads(j)} : i, j \in Base})
    \cup LoadedItems

RawGroups == [id : {"text", "empty"}, name : {"text", "other"}, parentId : {"undefined", "text", "empty"},
              order : {"undefined", "number", "other"}]
OnlyItem(i) ==
    [syntax |-> "object", schemaVersion |-> "1", groupsAre |-> "undefined", groups |-> {},
     itemsAre |-> "list", items |-> {i}]
Documents ==
    [syntax : {"object"}, schemaVersion : {"undefined", "0", "1", "2", "other"},
     groupsAre : {"list"}, groups : {{g} : g \in RawGroups}, itemsAre : {"undefined", "other"}, items : {{}}]
    \cup [syntax : {"blank", "invalid", "notAnObject"}, groups : {{}}, items : {{}}]
    \cup {OnlyItem(i) : i \in RawItems}

ExportedItems ==
    UNION {[1..n -> [type : {"snippet"}, title : {<<"t">>, <<"t", 2>>, <<"u">>},
                     languages : {"undefined", "commas", "lines"},
                     prefix : {"undefined"}, body : {"text"}, description : {"blank"}]] : n \in 0..4}
Numbered(items) == [k \in DOMAIN items |-> [items[k] EXCEPT !.body = <<"b1", "b2", "b3", "b4">>[k]]]

-----------------------------------------------------------------------------
(* Any few tokens, and whole placeholders between them. *)
Pieces ==
    {<<"{{", "x", "}", "}">>, <<"{{", "x", ":", "y", "}", "}">>, <<"{{", "secret", ":", "x", "}", "}">>,
     <<"${", "file", "}">>, <<"\\">>, <<"{{">>, <<"}">>, <<"x">>}
Texts == SeqUpTo(Template!Token, 4) \cup {Sequence!FlattenSeq(pieces) : pieces \in SeqUpTo(Pieces, 4)}

Steps == SeqUpTo({"rm", "/bin/rm", "-r", "-f", "--force", "git", "push", "sudo", ";"}, 3)
OddSteps == SeqUpTo({"chmod", "777", "-R", "drop", "table", "dd", "if=x", ">", "/dev/sda", "mkfs", ":(){",
                     "--force=x", "--recursive", "/usr/bin/sudo"}, 2)
Chains == {<<s, t>> : s \in {<<"rm", "x">>, <<"git">>, <<"chmod", "-x">>, << >>}, t \in Steps \cup OddSteps}
          \cup {<<t, s>> : s \in {<<"rm", "x">>, <<"git">>}, t \in Steps \cup OddSteps}

(* Comments and strings that look like each other, and other characters. *)
Lexeme ==
    {<<"/", "/", ",", Json!QUOTE, "\n">>, <<"/", "*", "*", "}", "*", "/">>,
     <<Json!QUOTE, Json!QUOTE>>, <<Json!QUOTE, "/", "/", Json!QUOTE>>,
     <<Json!QUOTE, "\\", Json!QUOTE, ",", "}", Json!QUOTE>>, <<Json!QUOTE, "/", "*", "\\", "\\", Json!QUOTE>>,
     <<",">>, <<"}">>, <<" ">>, <<"\n">>, <<"a">>}
Lexemes == SeqUpTo(Lexeme, 4)

RankedItem == [pinned : BOOLEAN, usage : {[uses |-> 0, age |-> 0], [uses |-> 3, age |-> 2], [uses |-> 1, age |-> -1]},
               context : [languages : {{}, {"ts"}, {"go"}}, globs : {{}, {"a.ts"}}, markers : {{}, {"m"}}]]
Active == {[languageId |-> "ts", relativePath |-> "a.ts", markers |-> {"m"}],
           [languageId |-> Nowhere, relativePath |-> Nowhere, markers |-> {}]}
ItemList(list) ==
    [k \in DOMAIN list |-> [id |-> k, title |-> Len(list) - k, pinned |-> list[k].pinned,
                            usage |-> list[k].usage, context |-> list[k].context]]

-----------------------------------------------------------------------------
(* Groups of a tidy hierarchy, with orders that may repeat or have gaps.   *)
TreeGroup == CHOOSE S \in SUBSET GroupId : Cardinality(S) = 3
NameOf == CHOOSE f \in [GroupId -> 1..Cardinality(GroupId)] : \A g, h \in GroupId : g # h => f[g] # f[h]
Forests(S) == {up \in [S -> S \cup {NoGroup}] : NormalizeGroups(up) = up}
GroupsOf(S, orders) ==
    {[g \in S |-> [parent |-> up[g], order |-> order[g], name |-> NameOf[g]]] :
        up \in Forests(S), order \in [S -> orders]}
Targets == {[kind |-> k, group |-> g] : k \in {"group", "item"}, g \in TreeGroup}
           \cup {[kind |-> "scope", group |-> NoGroup]}

(* A library of groups u, with an item in one of them or in none, next to  *)
(* the other scopes; what is broken, hidden, found and mounted.            *)
Placed(S) == [{"i1"} -> S \cup {NoGroup}] \cup {<< >>}
Unplaced == {<< >>, [i \in {"i1", "i2"} |-> NoGroup]}
ViewsOf(u) ==
    [groups : {[s \in Tree!Scope |-> IF s = User THEN u ELSE << >>]},
     items : {[s \in Tree!Scope |-> IF s = User THEN f ELSE rest] : f \in Placed(DOMAIN u), rest \in Unplaced},
     broken : SUBSET Tree!Scope, hidden : SUBSET {"i1"}, discovery : BOOLEAN,
     discovered : [Folder -> [{"npm"} -> SUBSET {"build"}]],
     server : {NoServer, "server"}, signedIn : BOOLEAN, mounted : SUBSET {"v"}]
Views == UNION {ViewsOf(u) : u \in UNION {GroupsOf(S, {0}) : S \in SUBSET TreeGroup}}

Given(about, with) == input = [about |-> about, given |-> with]
SomeInput ==
    \/ \E i \in Made : Given("made", [item |-> i])
    \/ \E d \in Documents : Given("document", [doc |-> d])
    \/ \E i \in LoadedItems : Given("form", [item |-> i])
    \/ \E items \in ExportedItems : Given("export", [items |-> Numbered(items)])
    \/ \E text \in Texts : Given("template", [text |-> text])
    \/ \E steps \in Chains : Given("chain", [steps |-> steps])
    \/ \E lexemes \in Lexemes : Given("json", [lexemes |-> lexemes])
    \/ \E list \in [1..2 -> RankedItem], active \in Active, relevantOnly \in BOOLEAN :
          Given("rank", [items |-> ItemList(list), active |-> active, relevantOnly |-> relevantOnly])
    \/ \E groups \in GroupsOf(TreeGroup, {0, 1, 3}), g \in TreeGroup, target \in Targets :
          Given("drop", [groups |-> groups, group |-> g, target |-> target])
    \/ \E view \in Views : Given("view", [view |-> view])

NoCall ==
    /\ call = [fn |-> "wouldCreateCycle", parent |-> << >>, group |-> CHOOSE g \in GroupId : TRUE, target |-> NoGroup]
    /\ visited = {} /\ queue = {} /\ current = NoGroup
    /\ running = FALSE /\ answer = FALSE

FunctionsInit == \/ Init /\ input = [about |-> "walk"]
                 \/ NoCall /\ SomeInput

FunctionsNext == Next /\ UNCHANGED input

FunctionsSpec == FunctionsInit /\ [][FunctionsNext]_<<vars, input>> /\ WF_<<vars, input>>(FunctionsNext)

-----------------------------------------------------------------------------
(* Every item the program makes is saved as a file that loads again, with  *)
(* that item in it, and every file that loads is rewritten without loss.   *)
SavedFilesLoad ==
    /\ input.about = "made" => Format!LoadsAgain(input.given.item)
    /\ input.about = "document" => Format!Rewritten(input.given.doc)

(* Saving the editor form as it was opened leaves the item as it is, but   *)
(* for white space, and for the lists that the form splits otherwise.      *)
FormKeepsTheItem == input.about = "form" => Format!KeptByTheForm(input.given.item)

(* Exporting snippets and importing them again keeps every one of them,    *)
(* and the languages that have no comma in them.                           *)
ExportKeepsEverySnippet == input.about = "export" => Format!Exported(input.given.items)

(* An escaped text renders as itself; a template loses nothing.            *)
TemplateIsFaithful ==
    input.about = "template" => Template!EscapesRender(input.given.text) /\ Template!SpelledBack(input.given.text)

(* What a step is flagged for, a chain with it is flagged for.             *)
ChainsKeepDanger ==
    input.about = "chain" => Command!KeepsDanger([steps |-> input.given.steps, body |-> << >>])

(* Comments and trailing commas go, and nothing inside a string does.      *)
StringsSurvive == input.about = "json" => Json!StripsToTheMeaning(input.given.lexemes)

(* The sections of the Quick Pick, one after the other, are the ranking.   *)
QuickPickKeepsTheRank ==
    input.about = "rank" => Rank!SectionsKeepTheRank(input.given.items, input.given.active, input.given.relevantOnly)

(* A dropped group goes where it was dropped, and no other group moves.    *)
DropMovesOneGroup ==
    input.about = "drop" =>
        /\ Tree!DropsInPlace(input.given.groups, input.given.group, input.given.target)
        /\ \A new \in GroupId \ TreeGroup : Tree!EditsInPlace(input.given.groups, input.given.group, new, 0)
        /\ \A g \in TreeGroup : input.given.target.kind = "group" /\ g # input.given.group =>
              Tree!DropsTogether(input.given.groups, <<input.given.group, g>>, input.given.target)

(* Everything there is to see is in the tree, under the parent it names.   *)
TreeShowsEverything == input.about = "view" => Tree!TreeIsComplete(input.given.view)
=============================================================================
