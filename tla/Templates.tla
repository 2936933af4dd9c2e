------------------------------ MODULE Templates ------------------------------
(***************************************************************************)
(* The template syntax of commands: parseTemplate, collectPlaceholders and *)
(* renderTemplate of packages/core/src/runner/variables.ts.                *)
(*                                                                         *)
(* A template is a sequence of tokens: the characters the parser looks     *)
(* for, "\\", "{{", "${", "}" and ":", the words "secret" and "file" (a    *)
(* built-in), and Word, any other text.  White space, a lone "{" and a "$" *)
(* in front of "{{" are left out.                                          *)
(*                                                                         *)
(* Adjacent texts, which pushText merges, stay apart.                      *)
(***************************************************************************)
EXTENDS Naturals, Sequences, SequencesExt, FiniteSetsExt

CONSTANT Word

BUILTINS == {"file"}
Token == {"\\", "{{", "${", "}", ":", "secret", "file"} \cup Word

Text(value) == [kind |-> "text", value |-> value]
Prompt(name) == [kind |-> "prompt", name |-> name]
PromptOr(name, default) == [kind |-> "prompt", name |-> name, defaultValue |-> default]
NoNode == [kind |-> "none"]

(* The first place from i on where `found` is TRUE, or -1 as indexOf. *)
FirstFrom(input, i, found(_)) ==
    LET places == {k \in i..Len(input) : found(k)} IN IF places = {} THEN -1 ELSE Min(places)

ParsePlaceholder(raw) ==
    LET separator == FirstFrom(raw, 1, LAMBDA k : raw[k] = ":")
        head == SubSeq(raw, 1, separator - 1)
        tail == SubSeq(raw, separator + 1, Len(raw))
    IN  CASE separator = -1 -> IF raw = << >> THEN NoNode ELSE Prompt(raw)
          [] separator # -1 /\ head = <<"secret">> ->
                IF tail = << >> THEN NoNode ELSE [kind |-> "secret", name |-> tail]
          [] separator # -1 /\ head = << >> -> NoNode
          [] OTHER -> PromptOr(head, tail)

Opens(input, k) == k <= Len(input) /\ input[k] \in {"{{", "${"}

(* Mutant: what was escaped is looked at again. *)
UnescapeAgain(input, i) == [node |-> Text(<<input[i + 1]>>), next |-> i + 1]

(* The braces after a backslash are text, and done with. *)
Unescape(input, i) == [node |-> Text(<<input[i + 1]>>), next |-> i + 2]

(* One turn of the loop at i: a node, and the place to go on from.         *)
Turn(input, i) ==
    LET end == FirstFrom(input, i + 1, LAMBDA k : /\ k < Len(input)
                                                  /\ input[k] = "}" /\ input[k + 1] = "}")
        brace == FirstFrom(input, i + 1, LAMBDA k : input[k] = "}")
        placeholder == ParsePlaceholder(SubSeq(input, i + 1, end - 1))
        builtin == SubSeq(input, i + 1, brace - 1)
    IN  CASE input[i] = "\\" /\ Opens(input, i + 1) -> Unescape(input, i)
          [] input[i] = "{{" /\ end = -1 ->
                [node |-> Text(SubSeq(input, i, Len(input))), next |-> Len(input) + 1]
          [] input[i] = "{{" /\ end # -1 ->
                [node |-> IF placeholder = NoNode THEN Text(SubSeq(input, i, end + 1)) ELSE placeholder,
                 next |-> end + 2]
          [] input[i] = "${" /\ brace # -1 /\ builtin \in {<<b>> : b \in BUILTINS} ->
                [node |-> [kind |-> "builtin", name |-> builtin], next |-> brace + 1]
          [] OTHER -> [node |-> Text(<<input[i]>>), next |-> i + 1]

ParseTemplate(input) ==
    LET from[i \in 1..Len(input) + 1] ==
            IF i > Len(input) THEN << >>
            ELSE <<Turn(input, i).node>> \o from[Turn(input, i).next]
    IN  from[1]

Names(nodes, kind) == {node.name : node \in {n \in ToSet(nodes) : n.kind = kind}}

(* Each name once; its default is the first one given for it anywhere.     *)
CollectPlaceholders(nodes) ==
    LET defaults(name) == {k \in DOMAIN nodes : nodes[k].kind = "prompt" /\ nodes[k].name = name
                                                /\ "defaultValue" \in DOMAIN nodes[k]}
    IN  [prompts |-> {IF defaults(name) = {} THEN Prompt(name)
                      ELSE PromptOr(name, nodes[Min(defaults(name))].defaultValue) : name \in Names(nodes, "prompt")},
         secrets |-> Names(nodes, "secret"),
         builtins |-> Names(nodes, "builtin")]

ValueIn(values, name, otherwise) == IF name \in DOMAIN values THEN values[name] ELSE otherwise

RenderNode(node, values) ==
    CASE node.kind = "text" -> node.value
      [] node.kind = "prompt" ->
            ValueIn(values.prompts, node.name, IF "defaultValue" \in DOMAIN node THEN node.defaultValue ELSE << >>)
      [] node.kind = "secret" -> ValueIn(values.secrets, node.name, << >>)
      [] node.kind = "builtin" -> ValueIn(values.builtins, node.name, << >>)

RenderTemplate(nodes, values) == FlattenSeq([k \in DOMAIN nodes |-> RenderNode(nodes[k], values)])

NoValues == [prompts |-> << >>, secrets |-> << >>, builtins |-> << >>]

-----------------------------------------------------------------------------
(* Properties                                                              *)

(* A backslash in front of each opening brace of a text. *)
Escaped(text) ==
    FlattenSeq([k \in DOMAIN text |-> IF Opens(text, k) THEN <<"\\", text[k]>> ELSE <<text[k]>>])

(* Any text can be had from a template: escaped, it asks for nothing and   *)
(* renders as itself (variables.ts 8 and 68-72).                           *)
EscapesRender(text) ==
    LET nodes == ParseTemplate(Escaped(text))
    IN  /\ \A node \in ToSet(nodes) : node.kind = "text"
        /\ RenderTemplate(nodes, NoValues) = text

(* Nothing of a template is lost, and each placeholder gets one value in   *)
(* every place: with each value spelt as its placeholder is, the rendered  *)
(* text is the template, less its escapes and the defaults.                *)
Spelling(text) ==
    LET nodes == ParseTemplate(text)
        placeholders == CollectPlaceholders(nodes)
        values == [prompts |-> [n \in {p.name : p \in placeholders.prompts} |-> <<"{{">> \o n \o <<"}", "}">>],
                   secrets |-> [n \in placeholders.secrets |-> <<"{{", "secret", ":">> \o n \o <<"}", "}">>],
                   builtins |-> [n \in placeholders.builtins |-> <<"${">> \o n \o <<"}">>]]
    IN  RenderTemplate(nodes, values)
SpelledBack(text) ==
    "\\" \notin ToSet(text) /\ (\A n \in ToSet(ParseTemplate(text)) : n.kind # "prompt" \/ "defaultValue" \notin DOMAIN n)
        => Spelling(text) = text
=============================================================================
