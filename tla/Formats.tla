------------------------------- MODULE Formats -------------------------------
(***************************************************************************)
(* What an item goes through on its way to the file and back: the code     *)
(* that makes items (the create and copy commands, the editor form, the    *)
(* import of .code-snippets), serializeFile and validateFile of            *)
(* packages/contracts/src/schema.ts, and the export of .code-snippets.     *)
(*                                                                         *)
(* A value is what this code can tell apart: "undefined" (the key is not   *)
(* there), a string, a list, a boolean, a number, or "other", a value of   *)
(* another JSON type.  An item, in memory or as JSON, gives each field a   *)
(* value; the three lists of its context are fields of their own.          *)
(***************************************************************************)
EXTENDS Naturals, Sequences, FiniteSets

Context == {"languages", "globs", "markers"}
Times == {"createdAt", "updatedAt"}
Flags == {"confirm", "pinned"}
Field == {"id", "type", "title", "body", "description", "prefix", "groupId", "tags", "context",
          "cwd", "steps"} \cup Context \cup Flags \cup Times

(* A "blank" string is white space; a "padded" one has some around its     *)
(* text, or line breaks, which a field of one line drops.                  *)
NonEmpty == {"blank", "padded", "text"}
Strings == NonEmpty \cup {"empty"}

(* The lists that are not empty, by what joining and splitting one does:   *)
(*   list, pieces   trimmed entries, without a comma or a line break       *)
(*   commas         trimmed entries, one with a comma: *.{ts,tsx}          *)
(*   lines          trimmed entries, one with a line break, no comma       *)
(*   spaced         an entry that is blank or not trimmed, among others    *)
(*   blanks         nothing but blank entries                              *)
(*   separators     nothing but commas in its entries                      *)
(*   loose          nothing but commas, blanks and line breaks in them     *)
(* "pieces" is what splitting a list leaves when it leaves another one.    *)
Filled == {"list", "pieces", "commas", "lines", "spaced", "blanks", "separators", "loose"}
Lists == Filled \cup {"empty"}
Value == Strings \cup Lists \cup {"undefined", "snippet", "command", "workspace", "fileDir",
                                  "true", "false", "number", "other"}

-----------------------------------------------------------------------------
(* schema.ts: reading.                                                     *)

(* The values a field may have.  A time of another type is replaced.       *)
Accepted(f) ==
    CASE f \in {"id", "title"} -> NonEmpty
      [] f = "body" -> Strings
      [] f = "type" -> {"snippet", "command"}
      [] f \in {"description", "prefix"} -> Strings \cup {"undefined"}
      [] f = "groupId" -> NonEmpty \cup {"undefined"}
      [] f \in {"tags", "steps"} \cup Context -> Lists \cup {"undefined"}
      [] f = "context" -> {"undefined", "object"}
      [] f = "cwd" -> {"undefined", "workspace", "fileDir"}
      [] f \in Flags -> {"undefined", "true", "false"}
      [] f \in Times -> Value

(* A context that is not an object is not looked into. *)
ItemErrors(raw) ==
    {f \in Field : raw[f] \notin Accepted(f) /\ (f \in Context => raw.context = "object")}

ValidItem(raw) ==
    [f \in Field |->
        CASE f = "tags" /\ raw.tags = "undefined" -> "empty"
          [] f \in Context /\ raw.context = "undefined" -> "undefined"
          [] f \in Times -> "number"
          [] OTHER -> raw[f]]

(* A group without an order gets 0. *)
GroupErrors(raw) ==
    {f \in {"id", "name"} : raw[f] \notin NonEmpty}
    \cup {f \in {"parentId"} : raw[f] \notin NonEmpty \cup {"undefined"}}
    \cup {f \in {"order"} : raw[f] \notin {"undefined", "number"}}
ValidGroup(raw) == [raw EXCEPT !.order = "number"]

(* A version that is not a number counts as 0, and is migrated. *)
Migrated(version) == IF version \in {"undefined", "other", "0"} THEN "1" ELSE version

Refused == [ok |-> FALSE]

(* The two lists of a document are missing, lists, or something else. *)
ValidateFile(doc) ==
    IF \/ Migrated(doc.schemaVersion) # "1"
       \/ "other" \in {doc.groupsAre, doc.itemsAre}
       \/ \E g \in doc.groups : GroupErrors(g) # {}
       \/ \E i \in doc.items : ItemErrors(i) # {}
    THEN Refused
    ELSE [ok |-> TRUE, groups |-> {ValidGroup(g) : g \in doc.groups},
          items |-> {ValidItem(i) : i \in doc.items}]

(* A text is blank, not JSON, JSON but not an object, or a document. *)
ParseFile(text) ==
    CASE text.syntax = "blank" -> [ok |-> TRUE, groups |-> {}, items |-> {}]
      [] text.syntax \in {"invalid", "notAnObject"} -> Refused
      [] OTHER -> ValidateFile(text)

-----------------------------------------------------------------------------
(* schema.ts: writing.                                                     *)

(* Mutant: confirm is taken for one of the flags a command has by default. *)
OrderedItemUnconfirmed(item) ==
    [f \in Field |->
        CASE f = "context" -> IF \E l \in Context : item[l] \in Filled THEN "object" ELSE "undefined"
          [] f = "confirm" -> "undefined"
          [] item[f] \in {"empty", "false"} /\ f \notin {"body", "tags"} -> "undefined"
          [] OTHER -> item[f]]

(* What says nothing is left out; an item without a context has no lists. *)
OrderedItem(item) ==
    [f \in Field |->
        CASE f = "context" -> IF \E l \in Context : item[l] \in Filled THEN "object" ELSE "undefined"
          [] item[f] \in {"empty", "false"} /\ f \notin {"id", "title", "body", "tags", "groupId"} -> "undefined"
          [] OTHER -> item[f]]

SerializeFile(file) ==
    [syntax |-> "object", schemaVersion |-> "1",
     groupsAre |-> "list", groups |-> file.groups,
     itemsAre |-> "list", items |-> {OrderedItem(i) : i \in file.items}]

-----------------------------------------------------------------------------
(* The code that makes items.                                              *)

Item(type, title, body) ==
    [f \in Field |->
        CASE f = "id" -> "text"
          [] f = "type" -> type
          [] f = "title" -> title
          [] f = "body" -> body
          [] f = "tags" -> "empty"
          [] f \in Times -> "number"
          [] OTHER -> "undefined"]

InGroup(item, group) == [item EXCEPT !.groupId = group]
ForLanguages(item, languages) ==
    IF languages = "undefined" THEN item
    ELSE [item EXCEPT !.context = "object", !.languages = languages]

(* The two commands ask for a title until it is not blank, and trim it. *)
CreateSnippet(body, group, editor) ==
    ForLanguages(InGroup(Item("snippet", "text", body), group),
                 IF editor /\ body # "empty" THEN "list" ELSE "undefined")
CreateCommandItem(group) == [InGroup(Item("command", "text", "text"), group) EXCEPT !.cwd = "workspace"]

(* A task found in the workspace, whose name is not empty. *)
CopyDiscovered(task, group) ==
    [CreateCommandItem(group) EXCEPT
        !.title = task.name, !.body = task.command, !.tags = "list",
        !.description = IF task.detail = "empty" THEN "undefined" ELSE task.detail]

(* snippetsToItems: the key of a definition, which may be empty, is the title. *)
SnippetToItem(snippet, group) ==
    LET item == ForLanguages(InGroup(Item("snippet", snippet.name, snippet.body), group),
                             snippet.languages)
        said(value) == IF value = "empty" THEN "undefined" ELSE value
    IN  [item EXCEPT !.description = said(snippet.description), !.prefix = said(snippet.prefix)]

-----------------------------------------------------------------------------
(* The editor form.                                                        *)

(* Trimmed, and undefined if nothing is left. *)
Trimmed(value) ==
    CASE value \in {"empty", "blank"} -> "undefined"
      [] value = "padded" -> "text"
      [] OTHER -> value
OrElse(value, default) == IF value = "undefined" THEN default ELSE value

(* What the form shows of an item, and posts if nothing is changed. *)
Shown(item) ==
    [f \in Field \ ({"id", "context", "pinned"} \cup Times) |->
        CASE f = "cwd" -> OrElse(item.cwd, "workspace")
          [] f = "confirm" -> OrElse(item.confirm, "false")
          [] OTHER -> OrElse(item[f], "empty")]

(* A list that was joined is split, its entries are trimmed and the blank   *)
(* ones dropped: some lists are kept as they were, of some nothing is left. *)
SplitAgain(list, kept, dropped) ==
    CASE list \in kept -> list
      [] list \in dropped -> "empty"
      [] OTHER -> "pieces"

(* Tags and contexts are split at commas and line breaks, steps at line breaks. *)
SplitList(list) == SplitAgain(list, {"list", "pieces", "empty"}, {"blanks", "separators", "loose"})
SplitLines(list) == SplitAgain(list, {"list", "pieces", "commas", "separators", "empty"}, {"blanks"})

(* Mutant: the fields of a command are dropped from a command. *)
ToPatchSwapped(payload) ==
    [f \in Field \ ({"id", "pinned"} \cup Times) |->
        CASE f = "title" -> OrElse(Trimmed(payload.title), "text")
          [] f = "context" -> IF \E l \in Context : SplitList(payload[l]) \in Filled THEN "object" ELSE "undefined"
          [] f \in {"type", "body"} -> payload[f]
          [] f = "groupId" -> IF payload.groupId = "empty" THEN "undefined" ELSE payload.groupId
          [] f = "tags" -> SplitList(payload.tags)
          [] f = "prefix" -> IF payload.type = "snippet" THEN Trimmed(payload.prefix) ELSE "undefined"
          [] f \in {"cwd", "confirm", "steps"} /\ payload.type = "command" -> "undefined"
          [] f = "steps" -> Trimmed(SplitLines(payload.steps))
          [] f \in Context -> Trimmed(SplitList(payload[f]))
          [] f = "confirm" /\ payload.confirm = "false" -> "undefined"
          [] OTHER -> Trimmed(payload[f])]

(* A snippet has no cwd, confirm and steps, a command no prefix. *)
ToPatch(payload) ==
    [f \in Field \ ({"id", "pinned"} \cup Times) |->
        CASE f = "title" -> OrElse(Trimmed(payload.title), "text")
          [] f = "context" -> IF \E l \in Context : SplitList(payload[l]) \in Filled THEN "object" ELSE "undefined"
          [] f \in {"type", "body"} -> payload[f]
          [] f = "groupId" -> IF payload.groupId = "empty" THEN "undefined" ELSE payload.groupId
          [] f = "tags" -> SplitList(payload.tags)
          [] f = "prefix" -> IF payload.type = "snippet" THEN Trimmed(payload.prefix) ELSE "undefined"
          [] f \in {"cwd", "confirm", "steps"} /\ payload.type = "snippet" -> "undefined"
          [] f = "steps" -> Trimmed(SplitLines(payload.steps))
          [] f \in Context -> Trimmed(SplitList(payload[f]))
          [] f = "confirm" /\ payload.confirm = "false" -> "undefined"
          [] OTHER -> Trimmed(payload[f])]

UpdateItem(item, patch) == [f \in Field |-> IF f \in DOMAIN patch THEN patch[f] ELSE item[f]]

-----------------------------------------------------------------------------
(* .code-snippets.  A title is a base and the suffixes " (n)" after it.    *)

(* Mutant: the keys given out are not remembered. *)
FreeKeyForgetful(used, title) == title

(* The title, or the title with the first suffix that makes it new. *)
FreeKey(used, title) ==
    IF title \notin used THEN title
    ELSE Append(title, CHOOSE n \in 2..Cardinality(used) + 2 :
                           /\ Append(title, n) \notin used
                           /\ \A k \in 2..n - 1 : Append(title, k) \in used)

(* A snippet's languages, joined with commas, are its scope, and without a *)
(* prefix its title is one.  A description that says nothing is left out.  *)
Definition(item) ==
    [scope |-> IF item.languages = "empty" THEN "undefined" ELSE item.languages,
     prefix |-> OrElse(item.prefix, item.title), body |-> item.body,
     description |-> IF item.description = "empty" THEN "undefined" ELSE item.description]

(* The languages a scope names: it is split at commas, not at line breaks. *)
ParseScope(scope) ==
    IF scope = "undefined" THEN scope
    ELSE Trimmed(SplitAgain(scope, {"list", "pieces", "lines"}, {"blanks", "separators", "loose"}))

With(out, key, definition) ==
    [k \in DOMAIN out \cup {key} |-> IF k = key THEN definition ELSE out[k]]

ItemsToCodeSnippets(items) ==
    LET out[k \in 0..Len(items)] ==
            IF k = 0 THEN << >>
            ELSE IF items[k].type # "snippet" THEN out[k - 1]
            ELSE With(out[k - 1], FreeKey(DOMAIN out[k - 1], items[k].title), Definition(items[k]))
    IN  out[Len(items)]

(* A definition without a usable body is skipped and reported. *)
ParseCodeSnippets(defs) ==
    {[name |-> key, prefix |-> defs[key].prefix, body |-> defs[key].body,
      description |-> defs[key].description, languages |-> ParseScope(defs[key].scope)] :
        key \in {k \in DOMAIN defs : defs[k].body # "other"}}

-----------------------------------------------------------------------------
(* Properties                                                              *)

(* Two items that say the same: an optional field that says nothing may be *)
(* there or not.                                                           *)
Says(item, f) == IF item[f] \in {"empty", "false", "undefined"} THEN "nothing" ELSE item[f]
SayTheSame(one, other, fields) == \A f \in fields \ {"context"} : Says(one, f) = Says(other, f)

FileWith(item) == [groups |-> {}, items |-> {item}]

(* An item the program makes is saved as a file the program loads again,   *)
(* with the same item in it: otherwise one item would lock its scope, as   *)
(* persist refuses a scope whose file is not valid (schema.ts 92-259).     *)
LoadsAgain(item) ==
    LET loaded == ParseFile(SerializeFile(FileWith(item)))
    IN  loaded.ok /\ \A i \in loaded.items : SayTheSame(i, item, Field)

(* A file that loads is rewritten by the next save with all that it said:  *)
(* every group, every item and every field of theirs (schema.ts 171-272).  *)
Rewritten(doc) ==
    LET file == ParseFile(doc)
        saved == SerializeFile(file)
    IN  file.ok =>
          /\ ParseFile(saved) = [ok |-> TRUE, groups |-> saved.groups, items |-> saved.items]
          /\ \A g \in doc.groups : \E h \in saved.groups : \A f \in {"id", "name", "parentId"} : g[f] = h[f]
          /\ \A i \in doc.items : \E j \in saved.items : SayTheSame(i, j, Field \ Times)

(* Opening the form and saving it changes nothing but this: texts are      *)
(* trimmed, the working directory is said, and a list with an entry that   *)
(* is not given back by the split is split (editorPanel.ts 23-69).         *)
FieldsOf(item) == IF item.type = "snippet" THEN Field \ {"cwd", "confirm", "steps"} ELSE Field \ {"prefix"}
Resplit(item) ==
    {f \in Context \cup {"tags"} : item[f] \in Filled \ {"list", "pieces"}}
    \cup {f \in {"steps"} : item[f] \in Filled \ {"list", "pieces", "commas", "separators"}}
KeptByTheForm(item) ==
    LET saved == UpdateItem(item, ToPatch(Shown(item)))
        meant == [item EXCEPT !.cwd = OrElse(@, "workspace"),
                              !.title = OrElse(Trimmed(@), "text"),
                              !.description = Trimmed(@),
                              !.prefix = Trimmed(@)]
    IN  SayTheSame(saved, meant, FieldsOf(item) \ Resplit(item))

(* Exporting a group and importing it again gives a snippet for each, with *)
(* its body and its description, titles that repeat included, and with its *)
(* languages if they are trimmed and have no comma (codeSnippets.ts        *)
(* 37-133).                                                                *)
Exported(items) ==
    LET back == ParseCodeSnippets(ItemsToCodeSnippets(items))
        snippets == {k \in DOMAIN items : items[k].type = "snippet"}
        kept(k) == {"description"}
                   \cup {f \in {"languages"} : items[k][f] \in {"undefined", "empty", "list", "pieces", "lines"}}
    IN  /\ Cardinality(back) = Cardinality(snippets)
        /\ \A k \in snippets :
              \E s \in back : s.body = items[k].body /\ SayTheSame(s, items[k], kept(k))
=============================================================================
