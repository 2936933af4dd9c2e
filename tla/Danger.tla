-------------------------------- MODULE Danger --------------------------------
(***************************************************************************)
(* The heuristics that flag a command before it is run, detectDangerous of *)
(* packages/core/src/runner/danger.ts, and the text of a chain of steps,   *)
(* commandText of packages/contracts/src/types.ts.                         *)
(*                                                                         *)
(* A command is the sequence of its tokens, split at white space.  What    *)
(* the rules look for in a token is in the sets below; each has a member   *)
(* or two, which TLC's instances put together.                             *)
(***************************************************************************)
EXTENDS Naturals, Sequences, SequencesExt, FiniteSetsExt

Separators == {"&&", "||", ";", "|"}

(* Short options and the letters in them, long options without their "=". *)
ShortFlags(token) ==
    CASE token = "-r" -> {"r"}
      [] token = "-R" -> {"R"}
      [] token = "-f" -> {"f"}
      [] token = "-rf" -> {"r", "f"}
      [] OTHER -> {}
LongFlag(token) == IF token = "--force=x" THEN "--force" ELSE token
LongFlags == {"--recursive", "--force", "--force=x", "--force-with-lease"}

(* The last segment of a path. *)
BaseName(token) ==
    CASE token = "/bin/rm" -> "rm"
      [] token = "/usr/bin/sudo" -> "sudo"
      [] OTHER -> token

(* Mutant: only the first call of the command counts. *)
FlagsAfterFirst(tokens, commandName) ==
    LET calls == {i \in DOMAIN tokens : BaseName(tokens[i]) = commandName}
        args == {j \in DOMAIN tokens : /\ calls # {} /\ j > Min(calls)
                                       /\ \A k \in Min(calls) + 1..j : tokens[k] \notin Separators}
    IN  [short |-> UNION {ShortFlags(tokens[j]) : j \in args},
         long |-> {LongFlag(tokens[j]) : j \in args} \cap LongFlags]

(* The options after any call of the command, up to the next separator. *)
FlagsAfter(tokens, commandName) ==
    LET args == {j \in DOMAIN tokens :
                    \E i \in 1..j - 1 : /\ BaseName(tokens[i]) = commandName
                                        /\ \A k \in i + 1..j : tokens[k] \notin Separators}
    IN  [short |-> UNION {ShortFlags(tokens[j]) : j \in args},
         long |-> {LongFlag(tokens[j]) : j \in args} \cap LongFlags]

Recursive(flags) == flags.short \cap {"r", "R"} # {} \/ "--recursive" \in flags.long
Forced(flags) == "f" \in flags.short \/ "--force" \in flags.long

Calls(tokens, commandName) == \E i \in DOMAIN tokens : BaseName(tokens[i]) = commandName
Has(tokens, token) == token \in ToSet(tokens)

(* Two tokens one after the other, as "drop table" or "> /dev/sda". *)
Adjacent(tokens, one, other) ==
    \E i \in 1..Len(tokens) - 1 : tokens[i] \in one /\ tokens[i + 1] \in other

(* git push: a force flag anywhere after the first git. *)
ForcePush(tokens) ==
    LET gits == {i \in DOMAIN tokens : BaseName(tokens[i]) = "git"}
        rest == SubSeq(tokens, Min(gits) + 1, Len(tokens))
    IN  /\ gits # {}
        /\ Has(rest, "push")
        /\ \E token \in ToSet(rest) :
              "f" \in ShortFlags(token) \/ token \in {"--force", "--force-with-lease"}

Rules == {"rm-recursive-force", "force-flag", "git-push-force", "drop-database", "mkfs", "dd",
          "fork-bomb", "chmod-777", "device-write", "sudo"}

(* dd and its if= may have other tokens in between; the expressions of the *)
(* other rules match within a token or across two.                         *)
Matches(rule, tokens) ==
    CASE rule = "rm-recursive-force" ->
            Recursive(FlagsAfter(tokens, "rm")) /\ Forced(FlagsAfter(tokens, "rm"))
      [] rule = "force-flag" ->
            ToSet(tokens) \cap {"--force", "--force=x", "--force-with-lease"} # {}
      [] rule = "git-push-force" -> ForcePush(tokens)
      [] rule = "drop-database" -> Adjacent(tokens, {"drop"}, {"database", "table"})
      [] rule = "mkfs" -> Has(tokens, "mkfs")
      [] rule = "dd" -> \E i, j \in DOMAIN tokens : i < j /\ tokens[i] = "dd" /\ tokens[j] = "if=x"
      [] rule = "fork-bomb" -> Has(tokens, ":(){")
      [] rule = "chmod-777" ->
            Calls(tokens, "chmod") /\ Recursive(FlagsAfter(tokens, "chmod")) /\ Has(tokens, "777")
      [] rule = "device-write" -> Adjacent(tokens, {">"}, {"/dev/sda"})
      [] rule = "sudo" -> Calls(tokens, "sudo")

DetectDangerous(tokens) == {rule \in Rules : Matches(rule, tokens)}

(* The steps of a chain, or the body if there are none. *)
CommandText(item) ==
    IF item.steps = << >> THEN item.body
    ELSE FlattenSeq([k \in DOMAIN item.steps |->
                        IF k = 1 THEN item.steps[k] ELSE <<"&&">> \o item.steps[k]])

-----------------------------------------------------------------------------
(* Putting a step in a chain never hides it: what is flagged on its own is *)
(* flagged, for the same reason, wherever in the chain it stands ("False   *)
(* positives are cheap, false negatives are not", danger.ts 3).            *)
KeepsDanger(item) ==
    \A k \in DOMAIN item.steps :
        DetectDangerous(item.steps[k]) \subseteq DetectDangerous(CommandText(item))
=============================================================================
