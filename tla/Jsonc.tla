-------------------------------- MODULE Jsonc --------------------------------
(***************************************************************************)
(* JSON with comments: stripJsonComments and removeTrailingCommas of       *)
(* packages/core/src/model/jsonc.ts, which .code-snippets, tasks.json and  *)
(* package.json are read with.  A text is a sequence of characters, of     *)
(* which only these are told apart:  "  \  /  *  ,  }  newline and space;  *)
(* what is said of } is true of ] as well.                                 *)
(***************************************************************************)
EXTENDS Integers, Sequences, SequencesExt, FiniteSetsExt

QUOTE == "\""
Space == {" ", "\n"}

(* inString and escaped, the two variables of either loop. *)
Mode == {"outside", "inString", "escaped"}

(* Mutant: a quote ends the string, escaped or not. *)
AfterIgnoringEscapes(mode, char) ==
    CASE char = QUOTE -> IF mode = "outside" THEN "inString" ELSE "outside"
      [] OTHER -> IF mode = "outside" THEN "outside" ELSE "inString"

(* Where the scan is after a character. *)
After(mode, char) ==
    CASE mode = "outside" -> IF char = QUOTE THEN "inString" ELSE "outside"
      [] mode = "inString" /\ char = "\\" -> "escaped"
      [] mode = "inString" /\ char = QUOTE -> "outside"
      [] OTHER -> "inString"

(* A loop over n characters: a turn writes some, and goes on from another place. *)
Loop(n, turn) ==
    LET from[i \in 1..n + 1] ==
            [mode \in Mode |->
                IF i > n THEN << >>
                ELSE turn[i][mode].write \o from[turn[i][mode].next][turn[i][mode].mode]]
    IN  from[1]["outside"]

Copied(text, i, mode) == [write |-> <<text[i]>>, next |-> i + 1, mode |-> After(mode, text[i])]
Skipped(next) == [write |-> << >>, next |-> next, mode |-> "outside"]

(* A line comment ends before its newline, a block comment after its end.  *)
(* Either may not end at all.                                              *)
LineEnd(text, i) == Min({k \in i..Len(text) : text[k] = "\n"} \cup {Len(text) + 1})
BlockEnd(text, i) ==
    Min({k \in i + 4..Len(text) + 1 : text[k - 2] = "*" /\ text[k - 1] = "/"} \cup {Len(text) + 1})

Opens(text, i, second) == i < Len(text) /\ text[i] = "/" /\ text[i + 1] = second

StripTurn(text, i, mode) ==
    CASE mode = "outside" /\ Opens(text, i, "/") -> Skipped(LineEnd(text, i))
      [] mode = "outside" /\ Opens(text, i, "*") -> Skipped(BlockEnd(text, i))
      [] OTHER -> Copied(text, i, mode)

StripComments(text) ==
    Loop(Len(text), [i \in DOMAIN text |-> [mode \in Mode |-> StripTurn(text, i, mode)]])

(* The next character that is not white space closes. *)
ClosesNext(text, i) ==
    \E k \in i + 1..Len(text) : text[k] = "}" /\ \A j \in i + 1..k - 1 : text[j] \in Space

CommaTurn(text, i, mode) ==
    IF mode = "outside" /\ text[i] = "," /\ ClosesNext(text, i) THEN Skipped(i + 1) ELSE Copied(text, i, mode)

RemoveTrailingCommas(text) ==
    Loop(Len(text), [i \in DOMAIN text |-> [mode \in Mode |-> CommaTurn(text, i, mode)]])

StripJsonComments(text) == RemoveTrailingCommas(StripComments(text))

-----------------------------------------------------------------------------
(* What a text means is said by its lexemes, comments, strings and the     *)
(* characters outside of them, each by its own shape.                      *)

LineComment(l) ==
    /\ Len(l) > 2 /\ l[1] = "/" /\ l[2] = "/"
    /\ \A k \in DOMAIN l : l[k] = "\n" <=> k = Len(l)
BlockComment(l) ==
    /\ Len(l) > 3 /\ l[1] = "/" /\ l[2] = "*"
    /\ \A k \in 3..Len(l) - 1 : l[k] = "*" /\ l[k + 1] = "/" <=> k = Len(l) - 1
Comment(l) == LineComment(l) \/ BlockComment(l)

(* An odd number of backslashes right before a character escapes it. *)
IsEscaped(l, k) ==
    \E j \in 1..k - 1 : l[j] # "\\" /\ (k - j) % 2 = 0 /\ \A b \in j + 1..k - 1 : l[b] = "\\"
String(l) ==
    /\ Len(l) > 1 /\ l[1] = QUOTE
    /\ \A k \in 2..Len(l) : l[k] = QUOTE /\ ~IsEscaped(l, k) <=> k = Len(l)

Plain(l) == Len(l) = 1 /\ l[1] \notin {QUOTE, "/"}
Lexeme(l) == Comment(l) \/ String(l) \/ Plain(l)

(* Comments disappear, a line comment up to its newline; a comma does if   *)
(* nothing but space and comments is between it and a brace; the strings   *)
(* stay as they are, whatever is in them (jsonc.ts 5-71).                  *)
Blank(l) == Comment(l) \/ (Plain(l) /\ l[1] \in Space)
Trailing(lexemes, k) ==
    /\ lexemes[k] = <<",">>
    /\ \E j \in k + 1..Len(lexemes) :
          lexemes[j] = <<"}">> /\ \A b \in k + 1..j - 1 : Blank(lexemes[b])
Meaning(lexemes) ==
    FlattenSeq([k \in DOMAIN lexemes |->
        CASE LineComment(lexemes[k]) -> <<"\n">>
          [] BlockComment(lexemes[k]) \/ Trailing(lexemes, k) -> << >>
          [] OTHER -> lexemes[k]])

StripsToTheMeaning(lexemes) == StripJsonComments(FlattenSeq(lexemes)) = Meaning(lexemes)
=============================================================================
