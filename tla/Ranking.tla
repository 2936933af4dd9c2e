------------------------------- MODULE Ranking -------------------------------
(***************************************************************************)
(* The order of items: scoreRelevance, frecency and rankItems of           *)
(* packages/core/src/context, and the three sections openQuickPick makes   *)
(* of what is ranked (apps/extension/src/ui/quickPick.ts).                 *)
(*                                                                         *)
(* Ages are whole half-lives up to MaxAge, so that a decayed count times   *)
(* 2^MaxAge is a number TLC has; titles are numbers in their order.  A     *)
(* glob is the one path it matches.                                        *)
(***************************************************************************)
EXTENDS Lists, SequencesExt, FiniteSetsExt

CONSTANTS
    MaxAge,         \* bound on the age of a use, in half-lives
    Nowhere         \* no active editor: no language, no path

SCORE_LANGUAGE == 3
SCORE_GLOB == 4
SCORE_MARKER == 2

NEUTRAL == [score |-> 0, relevant |-> TRUE]

(* Bonuses add up; an item with rules of which none matches is not relevant. *)
ScoreRelevance(context, active) ==
    LET score == (IF active.languageId \in context.languages THEN SCORE_LANGUAGE ELSE 0)
                 + (IF active.relativePath \in context.globs THEN SCORE_GLOB ELSE 0)
                 + (IF active.markers \cap context.markers # {} THEN SCORE_MARKER ELSE 0)
    IN  IF context.languages \cup context.globs \cup context.markers = {}
        THEN NEUTRAL
        ELSE [score |-> score, relevant |-> score > 0]

(* Times 2^MaxAge.  A use in the future, after a change of the clock, is new. *)
Frecency(usage) ==
    IF usage.uses <= 0 THEN 0
    ELSE usage.uses * 2 ^ (MaxAge - IF usage.age < 0 THEN 0 ELSE usage.age)

Ranked(item, active) ==
    [item |-> item, relevance |-> ScoreRelevance(item.context, active), frecency |-> Frecency(item.usage)]

Pinned(entry) == IF entry.item.pinned THEN 1 ELSE 0
Relevant(entry) == IF entry.relevance.relevant THEN 1 ELSE 0

(* By score, by frecency, by title. *)
Outscores(a, b) ==
    \/ a.relevance.score > b.relevance.score
    \/ /\ a.relevance.score = b.relevance.score
       /\ \/ a.frecency > b.frecency
          \/ a.frecency = b.frecency /\ a.item.title < b.item.title

(* Mutant: what is relevant comes before what is pinned. *)
BeforeByRelevance(a, b) ==
    \/ Relevant(a) > Relevant(b)
    \/ Relevant(a) = Relevant(b) /\ Pinned(a) > Pinned(b)
    \/ Relevant(a) = Relevant(b) /\ Pinned(a) = Pinned(b) /\ Outscores(a, b)

(* The code's compare is negative. *)
Before(a, b) ==
    \/ Pinned(a) > Pinned(b)
    \/ Pinned(a) = Pinned(b) /\ Relevant(a) > Relevant(b)
    \/ Pinned(a) = Pinned(b) /\ Relevant(a) = Relevant(b) /\ Outscores(a, b)

(* Array.sort is stable: an entry goes behind those it is not before. *)
Inserted(sorted, entry) ==
    InsertAt(sorted, Min({k \in DOMAIN sorted : Before(entry, sorted[k])} \cup {Len(sorted) + 1}), entry)

Sorted(list) ==
    LET sorted[k \in 0..Len(list)] == IF k = 0 THEN << >> ELSE Inserted(sorted[k - 1], list[k])
    IN  sorted[Len(list)]

RankItems(items, active, relevantOnly) ==
    LET ranked == [k \in DOMAIN items |-> Ranked(items[k], active)]
    IN  Sorted(Selected(ranked, {entry \in ToSet(ranked) : ~relevantOnly \/ entry.relevance.relevant}))

(* The pinned items, the relevant ones and the others, each in rank order. *)
Sections(ranked) ==
    LET pinned == {entry \in ToSet(ranked) : entry.item.pinned}
        relevant == {entry \in ToSet(ranked) : ~entry.item.pinned /\ entry.relevance.score > 0}
        other == {entry \in ToSet(ranked) : ~entry.item.pinned /\ entry.relevance.score <= 0}
    IN  <<Selected(ranked, pinned), Selected(ranked, relevant), Selected(ranked, other)>>

-----------------------------------------------------------------------------
(* The Quick Pick shows what is ranked in the order of its rank: cutting   *)
(* the list into sections moves nothing, so the first entry is the best    *)
(* one, an item that is not relevant is never above one that is, and only  *)
(* "relevant only" hides anything (ordering.ts 20-53, quickPick.ts 74-99). *)
SectionsKeepTheRank(items, active, relevantOnly) ==
    LET ranked == RankItems(items, active, relevantOnly)
        shown == FlattenSeq(Sections(ranked))
    IN  /\ shown = ranked
        /\ \A k \in 1..Len(shown) - 1 :
              ~shown[k].item.pinned /\ shown[k + 1].relevance.relevant => shown[k].relevance.relevant
        /\ {shown[k].item.id : k \in DOMAIN shown} =
              {items[k].id : k \in {k \in DOMAIN items :
                                       relevantOnly => ScoreRelevance(items[k].context, active).relevant}}
=============================================================================
