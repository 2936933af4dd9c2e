---------------------------- MODULE TextsProofs -----------------------------
(***************************************************************************)
(* Theorems about texts.  Templates: what is escaped renders as it was,    *)
(* and a template with every value spelt as its placeholder is gives the   *)
(* text that was written.  The parser's loop is unrolled by ParseIs; what  *)
(* one turn reads is given back by the node it makes (TurnSpells), so that *)
(* the text from each place on is, by induction from the end.              *)
(* JSON with comments: stripping and removing commas turn any lexemes into *)
(* their meaning.  Both are loops with a mode (LoopIs), which go from the  *)
(* place of one lexeme to the place of the next (LexemeGoesOn,             *)
(* PieceGoesOn), so that the result is put together from the end as well   *)
(* (LoopFlattens).                                                         *)
(***************************************************************************)

EXTENDS FunctionsProofs

-----------------------------------------------------------------------------
(* Sequences.                                                              *)

LEMMA Associative ==
    ASSUME NEW T, NEW a \in Seq(T), NEW b \in Seq(T), NEW c \in Seq(T)
    PROVE  (a \o b) \o c = a \o (b \o c)
OBVIOUS

LEMMA FunctionsAreSequences ==
    ASSUME NEW S, NEW n \in Nat, NEW s \in [1..n -> S]
    PROVE  s \in Seq(S) /\ Len(s) = n
OBVIOUS

LEMMA LongerSequences ==
    ASSUME NEW T, NEW a \in T, NEW b \in T, NEW c \in T, NEW d \in T, NEW e \in T, NEW f \in T
    PROVE  <<a, b, c>> \in Seq(T) /\ <<a, b, c, d>> \in Seq(T) /\ <<a, b, c, d, e, f>> \in Seq(T)
OBVIOUS

LEMMA HeadAndTail ==
    ASSUME NEW T, NEW text \in Seq(T), NEW i \in 1..Len(text), NEW m \in i..Len(text)
    PROVE  <<text[i]>> \o SubSeq(text, i + 1, m) = SubSeq(text, i, m)
OBVIOUS

LEMMA TwoParts ==
    ASSUME NEW T, NEW text \in Seq(T), NEW a \in 1..Len(text), NEW m \in a..Len(text), NEW c \in m..Len(text)
    PROVE  SubSeq(text, a, m) \o SubSeq(text, m + 1, c) = SubSeq(text, a, c)
OBVIOUS

LEMMA SameSequence ==
    ASSUME NEW T, NEW s \in Seq(T), NEW t \in Seq(T), Len(s) = Len(t), \A k \in 1..Len(s) : s[k] = t[k]
    PROVE  s = t
OBVIOUS

LEMMA OneOf ==
    ASSUME NEW T, NEW text \in Seq(T), NEW a \in 1..Len(text)
    PROVE  SubSeq(text, a, a) = <<text[a]>>
<1> DEFINE s == SubSeq(text, a, a)
           t == <<text[a]>>
<1>1. s \in Seq(T) /\ Len(s) = 1 /\ s[1] = text[a]
  OBVIOUS
<1>2. t \in Seq(T) /\ Len(t) = 1 /\ t[1] = text[a]
  OBVIOUS
<1> HIDE DEF s, t
<1>3. \A k \in 1..1 : s[k] = t[k]
  BY <1>1, <1>2
<1>4. s = t
  BY <1>1, <1>2, <1>3, SameSequence
<1> QED
  BY <1>4 DEF s, t

LEMMA TwoLast ==
    ASSUME NEW T, NEW text \in Seq(T), NEW a \in 1..Len(text), a + 1 <= Len(text)
    PROVE  SubSeq(text, a, a + 1) = <<text[a], text[a + 1]>>
<1> DEFINE s == SubSeq(text, a, a + 1)
           t == <<text[a], text[a + 1]>>
<1>1. s \in Seq(T) /\ Len(s) = 2 /\ s[1] = text[a] /\ s[2] = text[a + 1]
  OBVIOUS
<1>2. t \in Seq(T) /\ Len(t) = 2 /\ t[1] = text[a] /\ t[2] = text[a + 1]
  OBVIOUS
<1> HIDE DEF s, t
<1>3. \A k \in 1..2 : s[k] = t[k]
  BY <1>1, <1>2
<1>4. s = t
  BY <1>1, <1>2, <1>3, SameSequence
<1> QED
  BY <1>4 DEF s, t

(* Places between two others. *)
LEMMA Between ==
    ASSUME NEW n \in Nat, NEW i \in 1..n, NEW end \in i + 1..n
    PROVE  /\ end - 1 \in i..n /\ end \in 1..n /\ end \in end - 1..n /\ (end - 1) + 1 = end /\ end \in Int
           /\ end < n => end + 1 \in 1..n /\ end + 1 <= n /\ end + 1 \in end - 1..n
OBVIOUS

LEMMA UpToTheLast ==
    ASSUME NEW n \in Nat, NEW i \in 1..n, NEW end \in i + 1..n - 1
    PROVE  end \in i + 1..n /\ end < n /\ end + 1 <= n
OBVIOUS

LEMMA BackOne == \A k \in Int : (k + 1) - 1 = k /\ (k + 2) - 1 = k + 1
OBVIOUS

LEMMA TailIs ==
    ASSUME NEW T, NEW text \in Seq(T), NEW k \in 1..Len(text)
    PROVE  SubSeq(text, k + 1, Len(text)) \in Seq(T)
OBVIOUS

LEMMA MoreTokens ==
    ASSUME NEW T, NEW U, T \subseteq U, NEW s \in Seq(T)
    PROVE  s \in Seq(U)
OBVIOUS

LEMMA ThreeAre ==
    ASSUME NEW x, NEW y, NEW z
    PROVE  <<x>> \o <<y, z>> = <<x, y, z>>
<1> DEFINE T == {x, y, z}
           s == <<x>> \o <<y, z>>
           t == <<x, y, z>>
<1>1. s \in Seq(T) /\ Len(s) = 3 /\ s[1] = x /\ s[2] = y /\ s[3] = z
  OBVIOUS
<1>2. t \in Seq(T) /\ Len(t) = 3 /\ t[1] = x /\ t[2] = y /\ t[3] = z
  OBVIOUS
<1> HIDE DEF s, t
<1>3. \A k \in 1..3 : s[k] = t[k]
  BY <1>1, <1>2
<1>4. s = t
  BY <1>1, <1>2, <1>3, SameSequence
<1> QED
  BY <1>4 DEF s, t

(* Small facts that hold of any numbers and sequences are stated apart:    *)
(* the texts they are used of are full of strings.                         *)
LEMMA LengthIs ==
    ASSUME NEW T, NEW text \in Seq(T)
    PROVE  Len(text) \in Nat
OBVIOUS

LEMMA PartIs ==
    ASSUME NEW T, NEW text \in Seq(T), NEW i \in 1..Len(text), NEW end \in i + 1..Len(text)
    PROVE  SubSeq(text, i + 1, end - 1) \in Seq(T)
OBVIOUS

LEMMA FrontIs ==
    ASSUME NEW T, NEW text \in Seq(T), NEW k \in 1..Len(text)
    PROVE  LET head == SubSeq(text, 1, k - 1) IN Len(head) = k - 1 /\ (k > 1 => head[1] = text[1])
OBVIOUS

LEMMA SingleIs ==
    ASSUME NEW x, NEW s, s = <<x>>
    PROVE  Len(s) = 1 /\ s[1] = x
OBVIOUS

LEMMA SecretJoined ==
    ASSUME NEW T, NEW name \in Seq(T)
    PROVE  <<"{{", "secret", ":">> \o name = <<"{{">> \o (<<"secret", ":">> \o name)
<1> DEFINE U == T \cup {"{{", "secret", ":"}
           a == <<"{{">>
           b == <<"secret", ":">>
<1>1. a \in Seq(U) /\ b \in Seq(U) /\ name \in Seq(U)
  <2>1. "{{" \in U /\ "secret" \in U /\ ":" \in U /\ T \subseteq U
    OBVIOUS
  <2> HIDE DEF U
  <2>2. a \in Seq(U) /\ b \in Seq(U)
    BY <2>1, ShortSequences, Zenon
  <2> QED
    BY <2>1, <2>2, MoreTokens, Zenon
<1>2. a \o b = <<"{{", "secret", ":">>
  BY ThreeAre DEF a, b
<1> HIDE DEF U, a, b
<1>3. (a \o b) \o name = a \o (b \o name)
  BY <1>1, Associative
<1> QED
  BY <1>2, <1>3 DEF a, b

-----------------------------------------------------------------------------
(* Templates.                                                              *)

LEMMA FlattensAgree == \A seqs : Template!FlattenSeq(seqs) = Command!FlattenSeq(seqs)
BY DEF Template!FlattenSeq, Command!FlattenSeq

LEMMA FlattenOfNone == Command!FlattenSeq(<< >>) = << >>
BY DEF Command!FlattenSeq

(* The first of the sequences comes first. *)
LEMMA FlattenCons ==
    ASSUME NEW T, NEW first \in Seq(T), NEW rest \in Seq(Seq(T))
    PROVE  Command!FlattenSeq(<<first>> \o rest) = first \o Command!FlattenSeq(rest)
<1> DEFINE all == <<first>> \o rest
           n == Len(rest)
<1>1. /\ n \in Nat /\ all \in Seq(Seq(T)) /\ Len(all) = n + 1 /\ all[1] = first
      /\ \A i \in 1..n : all[i + 1] = rest[i] /\ rest[i] \in Seq(T)
  OBVIOUS
<1> HIDE DEF all
<1>2. PICK f \in [1..(n + 1) -> Seq(T)] :
          /\ f[1] = first
          /\ \A i \in 1..n : f[i + 1] = f[i] \o all[i + 1]
          /\ Command!FlattenSeq(all) = f[n + 1]
  <2> HIDE DEF n
  <2>1. Len(all) > 0 /\ Len(all) - 1 = n
    BY <1>1
  <2>2. PICK f \in [1..Len(all) -> Seq(T)] :
            /\ f[1] = all[1]
            /\ \A i \in 1..Len(all) - 1 : f[i + 1] = f[i] \o all[i + 1]
            /\ Command!FlattenSeq(all) = f[Len(all)]
    BY <1>1, <2>1, FlattenIs
  <2>3. /\ f \in [1..(n + 1) -> Seq(T)] /\ f[1] = first /\ Command!FlattenSeq(all) = f[n + 1]
        /\ \A i \in 1..n : f[i + 1] = f[i] \o all[i + 1]
    BY <1>1, <2>1, <2>2
  <2> QED
    BY <2>3
<1>3. CASE n = 0
  <2>1. rest = << >>
    BY <1>3
  <2>2. Command!FlattenSeq(all) = first
    BY <1>1, <1>2, <1>3
  <2>3. first \o << >> = first
    OBVIOUS
  <2> QED
    BY <2>1, <2>2, <2>3, FlattenOfNone DEF all
<1>4. CASE n > 0
  <2>1. PICK h \in [1..n -> Seq(T)] :
            /\ h[1] = rest[1]
            /\ \A i \in 1..n - 1 : h[i + 1] = h[i] \o rest[i + 1]
            /\ Command!FlattenSeq(rest) = h[n]
    BY <1>4, FlattenIs
  <2> DEFINE S == {i \in 1..n : f[i + 1] = first \o h[i]}
  <2> HIDE DEF n
  <2>2. 1 \in S
    <3>1. 1 \in 1..n /\ 1 + 1 = 2
      BY <1>1, <1>4
    <3>2. f[1 + 1] = f[1] \o all[1 + 1] /\ all[1 + 1] = rest[1]
      BY <1>1, <1>2, <3>1
    <3> QED
      BY <1>2, <2>1, <3>1, <3>2
  <2>3. ASSUME NEW i \in 1..n, i < n, i \in S
        PROVE  i + 1 \in S
    <3>1. i + 1 \in 1..n /\ i \in 1..n - 1
      BY <1>1, <2>3
    <3>2. f[(i + 1) + 1] = f[i + 1] \o all[(i + 1) + 1] /\ all[(i + 1) + 1] = rest[i + 1]
      BY <1>1, <1>2, <3>1
    <3>3. f[i + 1] = first \o h[i] /\ h[i + 1] = h[i] \o rest[i + 1]
      BY <2>1, <2>3, <3>1
    <3>4. h[i] \in Seq(T) /\ rest[i + 1] \in Seq(T)
      BY <1>1, <2>1, <3>1
    <3>5. (first \o h[i]) \o rest[i + 1] = first \o (h[i] \o rest[i + 1])
      <4> DEFINE b == h[i]
                 c == rest[i + 1]
      <4>1. first \in Seq(T) /\ b \in Seq(T) /\ c \in Seq(T)
        BY <3>4
      <4> HIDE DEF b, c
      <4>2. (first \o b) \o c = first \o (b \o c)
        BY <4>1, Associative
      <4> QED
        BY <4>2 DEF b, c
    <3>6. f[(i + 1) + 1] = first \o h[i + 1]
      BY <3>2, <3>3, <3>5, Zenon
    <3> QED
      BY <3>1, <3>6
  <2> HIDE DEF S
  <2>4. \A i \in 1..n : i < n /\ i \in S => i + 1 \in S
    BY <2>3
  <2>5. n \in S
    <3>1. 1..n \subseteq S
      BY <1>1, <2>2, <2>4, UpTo
    <3> QED
      BY <1>1, <1>4, <3>1
  <2> QED
    BY <1>2, <2>1, <2>5 DEF S, all
<1>5. n = 0 \/ n > 0
  OBVIOUS
<1> HIDE DEF n
<1> QED
  BY <1>3, <1>4, <1>5

(* The nodes of N are rendered to texts. *)
RenderTexts(N, values, T) == \A m \in N : Template!RenderNode(m, values) \in Seq(T)

(* A node more is rendered in front of the others. *)
LEMMA RenderCons ==
    ASSUME NEW T, NEW values, NEW N, RenderTexts(N, values, T), NEW node \in N, NEW nodes \in Seq(N)
    PROVE  Template!RenderTemplate(Template!Cons(node, nodes), values)
              = Template!RenderNode(node, values) \o Template!RenderTemplate(nodes, values)
<1> DEFINE all == <<node>> \o nodes
           rendered == [k \in DOMAIN nodes |-> Template!RenderNode(nodes[k], values)]
           first == Template!RenderNode(node, values)
<1>1. rendered \in Seq(Seq(T)) /\ first \in Seq(T)
  <2>5. \A m \in N : Template!RenderNode(m, values) \in Seq(T)
    BY DEF RenderTexts
  <2>1. /\ DOMAIN nodes = 1..Len(nodes) /\ Len(nodes) \in Nat
        /\ \A k \in 1..Len(nodes) : Template!RenderNode(nodes[k], values) \in Seq(T)
    BY <2>5
  <2>2. rendered \in [1..Len(nodes) -> Seq(T)]
    BY <2>1
  <2> HIDE DEF rendered, first
  <2>3. rendered \in Seq(Seq(T))
    BY <2>1, <2>2, FunctionsAreSequences, Zenon
  <2>4. first \in Seq(T)
    BY <2>5 DEF first
  <2> QED
    BY <2>3, <2>4
<1>2. [k \in DOMAIN all |-> Template!RenderNode(all[k], values)] = <<first>> \o rendered
  <2>1. /\ Len(all) = 1 + Len(nodes) /\ Len(nodes) \in Nat /\ all[1] = node /\ all \in Seq(N)
        /\ \A i \in 1..Len(nodes) : all[1 + i] = nodes[i]
    OBVIOUS
  <2>2. Len(rendered) = Len(nodes) /\ \A i \in 1..Len(nodes) : rendered[i] = Template!RenderNode(nodes[i], values)
    OBVIOUS
  <2> HIDE DEF all, rendered, first
  <2>3. /\ Len(<<first>> \o rendered) = 1 + Len(nodes) /\ (<<first>> \o rendered)[1] = first
        /\ \A i \in 1..Len(nodes) : (<<first>> \o rendered)[1 + i] = rendered[i]
        /\ DOMAIN (<<first>> \o rendered) = 1..1 + Len(nodes)
    BY <1>1, <2>2
  <2>4. \A k \in 1..1 + Len(nodes) : k = 1 \/ (k - 1 \in 1..Len(nodes) /\ 1 + (k - 1) = k)
    BY <2>1
  <2>5. ASSUME NEW k \in 1..1 + Len(nodes)
        PROVE  Template!RenderNode(all[k], values) = (<<first>> \o rendered)[k]
    <3>1. CASE k = 1
      BY <2>1, <2>3, <3>1 DEF first
    <3>2. CASE k # 1
      <4>1. k - 1 \in 1..Len(nodes) /\ 1 + (k - 1) = k
        BY <2>4, <3>2
      <4>2. all[1 + (k - 1)] = nodes[k - 1] /\ (<<first>> \o rendered)[1 + (k - 1)] = rendered[k - 1]
        BY <2>1, <2>3, <4>1
      <4> QED
        BY <2>2, <4>1, <4>2
    <3> QED BY <3>1, <3>2
  <2>6. DOMAIN all = 1..1 + Len(nodes)
    BY <2>1
  <2>7. \A s \in Seq(Seq(T)) : s = [k \in DOMAIN s |-> s[k]]
    OBVIOUS
  <2>8. <<first>> \o rendered \in Seq(Seq(T))
    BY <1>1
  <2> DEFINE more == <<first>> \o rendered
  <2>9. more = [k \in 1..1 + Len(nodes) |-> more[k]]
    BY <2>3, <2>7, <2>8
  <2>10. \A k \in 1..1 + Len(nodes) : Template!RenderNode(all[k], values) = more[k]
    BY <2>5
  <2> HIDE DEF more
  <2>11. [k \in 1..1 + Len(nodes) |-> Template!RenderNode(all[k], values)] = more
    BY <2>9, <2>10, Zenon
  <2> QED
    BY <2>6, <2>11 DEF more
<1> HIDE DEF rendered, first, all
<1>3. Template!RenderTemplate(all, values) = Command!FlattenSeq(<<first>> \o rendered)
  BY <1>2, FlattensAgree DEF Template!RenderTemplate
<1>4. Template!RenderTemplate(nodes, values) = Command!FlattenSeq(rendered)
  BY FlattensAgree DEF Template!RenderTemplate, rendered
<1> QED
  BY <1>1, <1>3, <1>4, FlattenCons DEF all, first, Template!Cons

(* The least place of some. *)
LEMMA LeastOf ==
    ASSUME NEW S \in SUBSET Nat, S # {}
    PROVE  Template!Min(S) \in S /\ \A m \in S : Template!Min(S) <= m
<1>1. \E n \in S : \A m \in S : n <= m
  BY LeastExists
<1> QED
  BY <1>1 DEF Template!Min

(* A placeholder of a template, from its braces at i to those at end. *)
Placeholder(text, i, end) ==
    LET p == Template!ParsePlaceholder(SubSeq(text, i + 1, end - 1))
    IN  [node |-> IF p = Template!NoNode THEN Template!Text(SubSeq(text, i, end + 1)) ELSE p, next |-> end + 2]

(* What a turn may be. *)
LEMMA TurnIs ==
    ASSUME NEW T, NEW text \in Seq(T), NEW i \in 1..Len(text)
    PROVE  LET turn == Template!Turn(text, i) IN
           \/ /\ text[i] = "\\" /\ Template!Opens(text, i + 1) /\ i + 1 \in 1..Len(text)
              /\ turn = [node |-> Template!Text(<<text[i + 1]>>), next |-> i + 2]
           \/ /\ text[i] = "{{"
              /\ turn = [node |-> Template!Text(SubSeq(text, i, Len(text))), next |-> Len(text) + 1]
           \/ /\ text[i] = "{{"
              /\ \E end \in i + 1..Len(text) - 1 :
                    /\ text[end] = "}" /\ text[end + 1] = "}"
                    /\ turn = Placeholder(text, i, end)
           \/ /\ text[i] = "${"
              /\ \E brace \in i + 1..Len(text) :
                    /\ text[brace] = "}"
                    /\ turn = [node |-> [kind |-> "builtin", name |-> SubSeq(text, i + 1, brace - 1)],
                               next |-> brace + 1]
           \/ /\ ~(text[i] = "\\" /\ Template!Opens(text, i + 1))
              /\ turn = [node |-> Template!Text(<<text[i]>>), next |-> i + 1]
<1> DEFINE n == Len(text)
           turn == Template!Turn(text, i)
           ends == {k \in i + 1..n : k < n /\ text[k] = "}" /\ text[k + 1] = "}"}
           braces == {k \in i + 1..n : text[k] = "}"}
           end == IF ends = {} THEN -1 ELSE Template!Min(ends)
           brace == IF braces = {} THEN -1 ELSE Template!Min(braces)
<1>1. n \in Nat /\ i \in Nat /\ i >= 1 /\ i <= n
  OBVIOUS
<1>2. /\ i + 1..n \subseteq Nat /\ i + 1..n \subseteq 1..n
      /\ \A k \in i + 1..n : k < n => k \in i + 1..n - 1
      /\ i + 1 <= n => i + 1 \in 1..n
  <2> HIDE DEF n
  <2> QED
    BY <1>1
<1>3. end # -1 => end \in i + 1..n - 1 /\ text[end] = "}" /\ text[end + 1] = "}"
  <2>1. CASE ends # {}
    <3>1. ends \in SUBSET Nat
      BY <1>2, Zenon
    <3>2. Template!Min(ends) \in ends
      <4> HIDE DEF ends
      <4> QED
        BY <2>1, <3>1, LeastOf
    <3> QED
      BY <1>2, <2>1, <3>2
  <2> QED BY <2>1
<1>4. brace # -1 => brace \in i + 1..n /\ text[brace] = "}"
  <2>1. CASE braces # {}
    <3>1. braces \in SUBSET Nat
      BY <1>2, Zenon
    <3>2. Template!Min(braces) \in braces
      <4> HIDE DEF braces
      <4> QED
        BY <2>1, <3>1, LeastOf
    <3> QED
      BY <2>1, <3>2
  <2> QED BY <2>1
<1> HIDE DEF end, brace
<1> DEFINE builtin == SubSeq(text, i + 1, brace - 1)
<1>5. turn =
        CASE text[i] = "\\" /\ Template!Opens(text, i + 1) -> Template!Unescape(text, i)
          [] text[i] = "{{" /\ end = -1 -> [node |-> Template!Text(SubSeq(text, i, n)), next |-> n + 1]
          [] text[i] = "{{" /\ end # -1 -> Placeholder(text, i, end)
          [] text[i] = "${" /\ brace # -1 /\ builtin \in {<<b>> : b \in Template!BUILTINS} ->
                [node |-> [kind |-> "builtin", name |-> builtin], next |-> brace + 1]
          [] OTHER -> [node |-> Template!Text(<<text[i]>>), next |-> i + 1]
  BY DEF Template!Turn, Template!FirstFrom, Placeholder, end, brace
<1> HIDE DEF turn
<1>6. CASE text[i] = "\\" /\ Template!Opens(text, i + 1)
  <2>1. turn = Template!Unescape(text, i)
    BY <1>5, <1>6
  <2>2. i + 1 \in 1..n
    BY <1>2, <1>6 DEF Template!Opens
  <2> QED
    BY <1>6, <2>1, <2>2 DEF Template!Unescape, turn
<1>7. CASE text[i] = "{{" /\ end = -1
  BY <1>5, <1>7 DEF turn
<1>8. CASE text[i] = "{{" /\ end # -1
  <2>1. turn = Placeholder(text, i, end)
    BY <1>5, <1>8
  <2> QED
    BY <1>3, <1>8, <2>1 DEF turn
<1>9. CASE text[i] = "${" /\ brace # -1 /\ builtin \in {<<b>> : b \in Template!BUILTINS}
  <2>1. turn = [node |-> [kind |-> "builtin", name |-> builtin], next |-> brace + 1]
    BY <1>5, <1>9
  <2> QED
    BY <1>4, <1>9, <2>1 DEF turn
<1>10. CASE /\ ~(text[i] = "\\" /\ Template!Opens(text, i + 1))
            /\ ~(text[i] = "{{" /\ end = -1) /\ ~(text[i] = "{{" /\ end # -1)
            /\ ~(text[i] = "${" /\ brace # -1 /\ builtin \in {<<b>> : b \in Template!BUILTINS})
  <2>1. turn = [node |-> Template!Text(<<text[i]>>), next |-> i + 1]
    BY <1>5, <1>10
  <2> QED
    BY <1>10, <2>1 DEF turn
<1> QED
  BY <1>6, <1>7, <1>8, <1>9, <1>10

(* Every turn of the loop goes on, and not beyond the end. *)
LEMMA TurnAdvances ==
    ASSUME NEW T, NEW text \in Seq(T), NEW i \in 1..Len(text)
    PROVE  Template!Turn(text, i).next \in i + 1..Len(text) + 1
<1> DEFINE n == Len(text)
           next == Template!Turn(text, i).next
<1>1. n \in Nat /\ i \in 1..n
  OBVIOUS
<1>2. \/ next = i + 1 \/ next = n + 1
      \/ i + 1 \in 1..n /\ next = i + 2
      \/ \E end \in i + 1..n - 1 : next = end + 2
      \/ \E brace \in i + 1..n : next = brace + 1
  <2> DEFINE turn == Template!Turn(text, i)
  <2>1. \/ i + 1 \in 1..n /\ turn.next = i + 2
        \/ turn.next = n + 1
        \/ \E end \in i + 1..n - 1 : turn = Placeholder(text, i, end)
        \/ \E brace \in i + 1..n : turn.next = brace + 1
        \/ turn.next = i + 1
    <3>1. \/ i + 1 \in 1..n /\ \E node : turn = [node |-> node, next |-> i + 2]
          \/ \E node : turn = [node |-> node, next |-> n + 1]
          \/ \E end \in i + 1..n - 1 : turn = Placeholder(text, i, end)
          \/ \E brace \in i + 1..n : \E node : turn = [node |-> node, next |-> brace + 1]
          \/ \E node : turn = [node |-> node, next |-> i + 1]
      BY TurnIs, Zenon
    <3> HIDE DEF turn, n
    <3> QED
      BY <3>1
  <2>2. \A end : Placeholder(text, i, end).next = end + 2
    BY DEF Placeholder
  <2> HIDE DEF turn, n
  <2>3. \/ turn.next = i + 1 \/ turn.next = n + 1
        \/ i + 1 \in 1..n /\ turn.next = i + 2
        \/ \E end \in i + 1..n - 1 : turn.next = end + 2
        \/ \E brace \in i + 1..n : turn.next = brace + 1
    BY <2>1, <2>2
  <2> QED
    BY <2>3 DEF turn
<1> HIDE DEF n, next
<1>3. next \in i + 1..n + 1
  BY <1>1, <1>2
<1> QED
  BY <1>3 DEF n, next

(* The loop, from each place on. *)
LEMMA ParseIs ==
    ASSUME NEW T, NEW text \in Seq(T)
    PROVE  \E from :
              /\ from[Len(text) + 1] = << >>
              /\ \A i \in 1..Len(text) :
                    from[i] = <<Template!Turn(text, i).node>> \o from[Template!Turn(text, i).next]
              /\ Template!ParseTemplate(text) = from[1]
<1> DEFINE n == Len(text)
           Node(i) == Template!Turn(text, i).node
           To(i) == Template!Turn(text, i).next
           Step(g, i) == IF i > n THEN << >> ELSE <<Node(i)>> \o g[To(i)]
           Part(m, g) == /\ g = [i \in n + 2 - m..n + 1 |-> g[i]]
                         /\ \A i \in n + 2 - m..n + 1 : g[i] = Step(g, i)
           S == {m \in 1..n + 1 : \E g : Part(m, g)}
           from == CHOOSE h : h = [i \in 1..n + 1 |-> Step(h, i)]
<1>1. n \in Nat /\ \A i \in 1..n : To(i) \in i + 1..n + 1
  BY TurnAdvances
<1> HIDE DEF n, Node, To
<1>2. 1 \in S
  <2> DEFINE g == [i \in {n + 1} |-> << >>]
  <2>1. n + 2 - 1..n + 1 = {n + 1} /\ 1 \in 1..n + 1 /\ n + 1 > n
    BY <1>1
  <2>2. g = [i \in {n + 1} |-> g[i]] /\ \A i \in {n + 1} : g[i] = Step(g, i)
    BY <2>1
  <2> HIDE DEF g, Step
  <2> QED
    BY <2>1, <2>2
<1>3. ASSUME NEW m \in 1..n + 1, m < n + 1, m \in S
      PROVE  m + 1 \in S
  <2>1. PICK g : Part(m, g)
    BY <1>3
  <2> DEFINE k == n + 1 - m
             h == [i \in k..n + 1 |-> IF i = k THEN <<Node(k)>> \o g[To(k)] ELSE g[i]]
  <2>2. /\ k \in 1..n /\ n + 2 - (m + 1) = k /\ n + 2 - m = k + 1 /\ m + 1 \in 1..n + 1
        /\ To(k) \in k + 1..n + 1 /\ ~(k > n)
        /\ \A i \in k..n + 1 : i = k \/ i \in k + 1..n + 1
        /\ \A i \in k + 1..n + 1 : i # k /\ i \in k..n + 1
        /\ k \in k..n + 1
    BY <1>1, <1>3
  <2> HIDE DEF k
  <2>3. h[k] = <<Node(k)>> \o g[To(k)] /\ \A i \in k + 1..n + 1 : h[i] = g[i]
    BY <2>2
  <2>4. h = [i \in k..n + 1 |-> h[i]]
    OBVIOUS
  <2> HIDE DEF h
  <2>5. \A i \in k + 1..n + 1 : i > n \/ (i \in 1..n /\ To(i) \in k + 1..n + 1)
    BY <1>1, <2>2
  <2>6. \A i \in k + 1..n + 1 : h[i] = Step(h, i)
    <3> TAKE i \in k + 1..n + 1
    <3>1. h[i] = g[i] /\ g[i] = Step(g, i)
      BY <2>1, <2>2, <2>3
    <3>2. CASE i > n
      BY <3>1, <3>2
    <3>3. CASE ~(i > n)
      <4>1. h[To(i)] = g[To(i)]
        BY <2>3, <2>5, <3>3
      <4> QED
        BY <3>1, <4>1
    <3> QED BY <3>2, <3>3
  <2>7. h[k] = Step(h, k)
    BY <2>2, <2>3
  <2> HIDE DEF Step
  <2>8. \A i \in k..n + 1 : h[i] = Step(h, i)
    BY <2>2, <2>6, <2>7
  <2>9. Part(m + 1, h)
    BY <2>2, <2>4, <2>8
  <2> HIDE DEF Part
  <2> QED
    BY <2>2, <2>9
<1>4. PICK g : Part(n + 1, g)
  <2> HIDE DEF S
  <2>1. n + 1 \in Nat /\ n + 1 \in 1..n + 1 /\ \A m \in 1..n + 1 : m < n + 1 /\ m \in S => m + 1 \in S
    BY <1>1, <1>3
  <2>2. 1..n + 1 \subseteq S
    BY <1>2, <2>1, UpTo
  <2> QED
    BY <2>1, <2>2 DEF S
<1>5. g = [i \in 1..n + 1 |-> Step(g, i)]
  <2>1. n + 2 - (n + 1) = 1
    BY <1>1
  <2> HIDE DEF Step
  <2> QED
    BY <1>4, <2>1
<1>6. from = [i \in 1..n + 1 |-> Step(from, i)]
  <2> HIDE DEF Step
  <2> QED
    BY <1>5
<1>7. Template!ParseTemplate(text) = from[1]
  BY DEF Template!ParseTemplate, n, Node, To
<1> HIDE DEF from
<1>8. /\ n + 1 \in 1..n + 1 /\ n + 1 > n
      /\ \A i \in 1..n : i \in 1..n + 1 /\ ~(i > n)
  BY <1>1
<1>9. from[n + 1] = << >> /\ \A i \in 1..n : from[i] = <<Node(i)>> \o from[To(i)]
  BY <1>6, <1>8
<1> QED
  BY <1>7, <1>9 DEF n, Node, To

(* Sequences that follow each other make a sequence. *)
LEMMA FlattenedIs ==
    ASSUME NEW T, NEW seqs \in Seq(Seq(T))
    PROVE  Command!FlattenSeq(seqs) \in Seq(T)
<1>1. CASE Len(seqs) > 0
  BY <1>1, FlattenPlaces
<1>2. CASE ~(Len(seqs) > 0)
  <2>1. seqs = << >>
    BY <1>2
  <2>2. << >> \in Seq(T)
    OBVIOUS
  <2> QED
    BY <2>1, <2>2, FlattenOfNone
<1> QED
  BY <1>1, <1>2

LEMMA TextNodes ==
    ASSUME NEW v, NEW values
    PROVE  Template!Text(v).kind = "text" /\ Template!RenderNode(Template!Text(v), values) = v
BY DEF Template!Text, Template!RenderNode

(* The turn at an escaped token: the token is text, and done with. *)
LEMMA EscapedTurn ==
    ASSUME NEW T, NEW text \in Seq(T), NEW escaped \in Seq(T), NEW k \in 1..Len(text), NEW at \in [1..Len(text) + 1 -> Nat],
           at[Len(text) + 1] = Len(escaped),
           \A j \in 1..Len(text) :
              LET piece == IF Template!Opens(text, j) THEN <<"\\", text[j]>> ELSE <<text[j]>> IN
              at[j + 1] = at[j] + Len(piece) /\ Segment(escaped, piece, at[j])
    PROVE  /\ at[k] + 1 \in 1..Len(escaped)
           /\ Template!Turn(escaped, at[k] + 1) = [node |-> Template!Text(<<text[k]>>), next |-> at[k + 1] + 1]
<1> DEFINE n == Len(text)
           i == at[k] + 1
<1>1. n \in Nat /\ k \in 1..n /\ Len(escaped) \in Nat
  OBVIOUS
<1>7. \A j \in 1..n : at[j] \in Nat /\ at[j + 1] \in Nat
  <2>1. at \in [1..n + 1 -> Nat]
    OBVIOUS
  <2> HIDE DEF n
  <2>2. \A j \in 1..n : j \in 1..n + 1 /\ j + 1 \in 1..n + 1
    BY <1>1
  <2> QED
    BY <2>1, <2>2
<1>2. ASSUME NEW j \in 1..n, Template!Opens(text, j)
      PROVE  /\ at[j + 1] = at[j] + 2 /\ at[j] + 2 <= Len(escaped)
             /\ escaped[at[j] + 1] = "\\" /\ escaped[at[j] + 2] = text[j]
  <2> DEFINE piece == <<"\\", text[j]>>
  <2>1. Len(piece) = 2 /\ piece[1] = "\\" /\ piece[2] = text[j] /\ 1 \in 1..2 /\ 2 \in 1..2
    OBVIOUS
  <2>2. at[j + 1] = at[j] + Len(piece) /\ Segment(escaped, piece, at[j])
    BY <1>2
  <2>3. at[j] \in Nat
    BY <1>7
  <2> HIDE DEF piece
  <2>4. at[j] + 2 <= Len(escaped) /\ \A m \in 1..2 : escaped[at[j] + m] = piece[m]
    BY <2>1, <2>2 DEF Segment
  <2> QED
    BY <2>1, <2>2, <2>4
<1>3. ASSUME NEW j \in 1..n, ~Template!Opens(text, j)
      PROVE  /\ at[j + 1] = at[j] + 1 /\ at[j] + 1 <= Len(escaped)
             /\ escaped[at[j] + 1] = text[j] /\ text[j] \notin {"{{", "${"}
  <2> DEFINE piece == <<text[j]>>
  <2>1. Len(piece) = 1 /\ piece[1] = text[j] /\ 1 \in 1..1
    OBVIOUS
  <2>2. at[j + 1] = at[j] + Len(piece) /\ Segment(escaped, piece, at[j])
    BY <1>3
  <2>3. text[j] \notin {"{{", "${"}
    <3>1. j <= Len(text)
      OBVIOUS
    <3> QED
      BY <1>3, <3>1 DEF Template!Opens
  <2> HIDE DEF piece
  <2>4. at[j] + 1 <= Len(escaped) /\ \A m \in 1..1 : escaped[at[j] + m] = piece[m]
    BY <2>1, <2>2 DEF Segment
  <2> QED
    BY <2>1, <2>2, <2>3, <2>4
<1>4. at[k] \in Nat /\ at[k + 1] \in Nat
  BY <1>1, <1>7
<1>5. CASE Template!Opens(text, k)
  <2>1. at[k + 1] = at[k] + 2 /\ at[k] + 2 <= Len(escaped) /\ escaped[i] = "\\" /\ escaped[at[k] + 2] = text[k]
    BY <1>2, <1>5
  <2>2. /\ i \in 1..Len(escaped) /\ i + 1 = at[k] + 2 /\ i + 2 = at[k + 1] + 1
    <3> DEFINE a == at[k]
               b == at[k + 1]
    <3>1. a \in Nat /\ b = a + 2 /\ a + 2 <= Len(escaped)
      BY <1>4, <2>1
    <3> HIDE DEF a, b
    <3>2. a + 1 \in 1..Len(escaped) /\ (a + 1) + 1 = a + 2 /\ (a + 1) + 2 = b + 1
      BY <1>1, <3>1
    <3> QED
      BY <3>2 DEF a, b
  <2>3. Template!Opens(escaped, i + 1)
    BY <1>5, <2>1, <2>2 DEF Template!Opens
  <2> HIDE DEF i
  <2>4. Template!Turn(escaped, i) = [node |-> Template!Text(<<escaped[i + 1]>>), next |-> i + 2]
    BY <2>1, <2>2, <2>3, TurnIs
  <2> QED
    BY <2>1, <2>2, <2>4 DEF i
<1>6. CASE ~Template!Opens(text, k)
  <2>1. /\ at[k + 1] = at[k] + 1 /\ at[k] + 1 <= Len(escaped) /\ escaped[i] = text[k]
        /\ escaped[i] \notin {"{{", "${"}
    BY <1>3, <1>6
  <2>2. i \in 1..Len(escaped) /\ i + 1 = at[k + 1] + 1
    <3> DEFINE a == at[k]
               b == at[k + 1]
    <3>1. a \in Nat /\ b = a + 1 /\ a + 1 <= Len(escaped)
      BY <1>4, <2>1
    <3> HIDE DEF a, b
    <3>2. a + 1 \in 1..Len(escaped) /\ (a + 1) + 1 = b + 1
      BY <1>1, <3>1
    <3> QED
      BY <3>2 DEF a, b
  <2>3. ~Template!Opens(escaped, i + 1)
    <3>1. CASE k = n
      <4>1. i + 1 = Len(escaped) + 1
        BY <2>2, <3>1
      <4>2. ~(i + 1 <= Len(escaped))
        BY <1>1, <4>1
      <4> QED
        BY <4>2 DEF Template!Opens
    <3>2. CASE k # n
      <4>1. k + 1 \in 1..n
        BY <1>1, <3>2
      <4>2. escaped[at[k + 1] + 1] = "\\" \/ escaped[at[k + 1] + 1] \notin {"{{", "${"}
        BY <1>2, <1>3, <4>1
      <4> QED
        BY <2>2, <4>2 DEF Template!Opens
    <3> QED BY <3>1, <3>2
  <2> HIDE DEF i
  <2>4. Template!Turn(escaped, i) = [node |-> Template!Text(<<escaped[i]>>), next |-> i + 1]
    BY <2>1, <2>2, <2>3, TurnIs
  <2> QED
    BY <2>1, <2>2, <2>4 DEF i
<1> QED
  BY <1>5, <1>6

(* Any text can be had from a template: escaped, it asks for nothing and   *)
(* renders as itself.                                                      *)
THEOREM EscapedTextRenders ==
    ASSUME NEW T, NEW text \in Seq(T)
    PROVE  Template!EscapesRender(text)
<1> DEFINE U == T \cup {"\\"}
           n == Len(text)
           pieces == [k \in DOMAIN text |-> IF Template!Opens(text, k) THEN <<"\\", text[k]>> ELSE <<text[k]>>]
           escaped == Template!Escaped(text)
           N == {Template!Text(<<t>>) : t \in U}
           Renders(nodes, k) == /\ nodes \in Seq(N)
                                /\ Template!RenderTemplate(nodes, Template!NoValues) = SubSeq(text, k, n)
<1>1. n \in Nat /\ DOMAIN text = 1..n /\ text \in Seq(U) /\ \A k \in 1..n : text[k] \in U
  OBVIOUS
<1>2. pieces \in Seq(Seq(U)) /\ Len(pieces) = n
  <2>1. \A k \in 1..n : <<"\\", text[k]>> \in Seq(U) /\ <<text[k]>> \in Seq(U)
    <3>1. "\\" \in U
      OBVIOUS
    <3> HIDE DEF U
    <3> QED
      BY <1>1, <3>1, ShortSequences
  <2>2. pieces \in [1..n -> Seq(U)]
    BY <1>1, <2>1
  <2> HIDE DEF pieces, U, n
  <2> QED
    BY <1>1, <2>2, FunctionsAreSequences
<1>3. escaped = Command!FlattenSeq(pieces)
  BY FlattensAgree DEF Template!Escaped
<1>4. \A v \in N : Template!RenderNode(v, Template!NoValues) \in Seq(U)
  <2>1. \A t \in U : <<t>> \in Seq(U)
    OBVIOUS
  <2> HIDE DEF U
  <2> SUFFICES ASSUME NEW t \in U
               PROVE  Template!RenderNode(Template!Text(<<t>>), Template!NoValues) \in Seq(U)
    OBVIOUS
  <2>2. Template!RenderNode(Template!Text(<<t>>), Template!NoValues) = <<t>>
    BY TextNodes
  <2> QED
    BY <2>1, <2>2
<1>5. SubSeq(text, n + 1, n) = << >>
  OBVIOUS
<1>6. Renders(<< >>, n + 1)
  <2>1. Template!RenderTemplate(<< >>, Template!NoValues) = << >>
    BY FlattensAgree, FlattenOfNone DEF Template!RenderTemplate
  <2>2. << >> \in Seq(N)
    <3> HIDE DEF N
    <3> QED
      OBVIOUS
  <2> QED
    BY <1>5, <2>1, <2>2
<1>7. Renders(Template!ParseTemplate(escaped), 1)
  <2>1. CASE n = 0
    <3>1. pieces = << >>
      BY <1>1, <2>1
    <3>2. escaped = << >>
      BY <1>3, <3>1, FlattenOfNone
    <3> HIDE DEF escaped, U
    <3>4. escaped \in Seq(U) /\ Len(escaped) + 1 = 1
      BY <3>2
    <3>3. Template!ParseTemplate(escaped) = << >>
      BY <3>2, <3>4, ParseIs
    <3>5. n + 1 = 1
      BY <2>1
    <3> HIDE DEF Renders, n
    <3> QED
      BY <1>6, <3>3, <3>5, Zenon
  <2>2. CASE n > 0
    <3> HIDE DEF U, n, escaped, pieces
    <3>1. /\ escaped \in Seq(U)
          /\ \E at \in [1..n + 1 -> Nat] :
                /\ at[1] = 0 /\ at[n + 1] = Len(escaped)
                /\ \A k \in 1..n : at[k + 1] = at[k] + Len(pieces[k]) /\ Segment(escaped, pieces[k], at[k])
      BY <1>2, <1>3, <2>2, FlattenPlaces
    <3>2. PICK at \in [1..n + 1 -> Nat] :
             /\ at[1] = 0 /\ at[n + 1] = Len(escaped)
             /\ \A k \in 1..n : at[k + 1] = at[k] + Len(pieces[k]) /\ Segment(escaped, pieces[k], at[k])
      BY <3>1
    <3>3. PICK from : /\ from[Len(escaped) + 1] = << >>
                      /\ \A i \in 1..Len(escaped) :
                            from[i] = <<Template!Turn(escaped, i).node>> \o from[Template!Turn(escaped, i).next]
                      /\ Template!ParseTemplate(escaped) = from[1]
      BY <3>1, ParseIs
    <3>4. ASSUME NEW k \in 1..n
          PROVE  from[at[k] + 1] = <<Template!Text(<<text[k]>>)>> \o from[at[k + 1] + 1]
      <4>1. \A j \in 1..n : pieces[j] = IF Template!Opens(text, j) THEN <<"\\", text[j]>> ELSE <<text[j]>>
        BY <1>1 DEF pieces
      <4>2. \A j \in 1..n :
               LET piece == IF Template!Opens(text, j) THEN <<"\\", text[j]>> ELSE <<text[j]>> IN
               at[j + 1] = at[j] + Len(piece) /\ Segment(escaped, piece, at[j])
        BY <3>2, <4>1
      <4>3. /\ at[k] + 1 \in 1..Len(escaped)
            /\ Template!Turn(escaped, at[k] + 1) = [node |-> Template!Text(<<text[k]>>), next |-> at[k + 1] + 1]
        <5>1. k \in 1..Len(text) /\ at \in [1..Len(text) + 1 -> Nat] /\ at[Len(text) + 1] = Len(escaped)
          BY <3>2 DEF n
        <5>2. \A j \in 1..Len(text) :
                 LET piece == IF Template!Opens(text, j) THEN <<"\\", text[j]>> ELSE <<text[j]>> IN
                 at[j + 1] = at[j] + Len(piece) /\ Segment(escaped, piece, at[j])
          BY <4>2 DEF n
        <5>3. text \in Seq(U) /\ escaped \in Seq(U)
          BY <1>1, <3>1
        <5> QED
          BY <5>1, <5>2, <5>3, EscapedTurn
      <4> DEFINE i == at[k] + 1
                 j == at[k + 1] + 1
                 node == Template!Text(<<text[k]>>)
      <4>4. i \in 1..Len(escaped) /\ Template!Turn(escaped, i) = [node |-> node, next |-> j]
        BY <4>3
      <4> HIDE DEF i, j, node
      <4>5. Template!Turn(escaped, i).node = node /\ Template!Turn(escaped, i).next = j
        BY <4>4
      <4>6. from[i] = <<node>> \o from[j]
        BY <3>3, <4>4, <4>5
      <4> QED
        BY <4>6 DEF i, j, node
    <3> DEFINE S == {m \in 1..n + 1 : Renders(from[at[n + 2 - m] + 1], n + 2 - m)}
    <3>5. 1 \in S
      <4>1. 1 \in 1..n + 1 /\ n + 2 - 1 = n + 1
        BY <1>1
      <4>2. Renders(from[at[n + 1] + 1], n + 1)
        BY <1>6, <3>2, <3>3
      <4> HIDE DEF Renders
      <4> QED
        BY <4>1, <4>2
    <3>6. ASSUME NEW m \in 1..n + 1, m < n + 1, m \in S
          PROVE  m + 1 \in S
      <4> DEFINE k == n + 1 - m
                 rest == from[at[k + 1] + 1]
                 node == Template!Text(<<text[k]>>)
      <4>1. k \in 1..n /\ n \in k..n /\ n + 2 - m = k + 1 /\ n + 2 - (m + 1) = k /\ m + 1 \in 1..n + 1
        BY <1>1, <3>6
      <4> HIDE DEF k
      <4>2. Renders(rest, k + 1)
        <5> HIDE DEF Renders
        <5> QED
          BY <3>6, <4>1
      <4>3. node \in N /\ Template!RenderNode(node, Template!NoValues) = <<text[k]>>
        BY <1>1, <4>1, TextNodes
      <4>4. from[at[k] + 1] = <<node>> \o rest
        BY <3>4, <4>1
      <4> HIDE DEF rest, node, N
      <4>9. rest \in Seq(N) /\ Template!RenderTemplate(rest, Template!NoValues) = SubSeq(text, k + 1, n)
        BY <4>2
      <4>5. <<node>> \o rest \in Seq(N)
        BY <4>3, <4>9
      <4>6. Template!RenderTemplate(<<node>> \o rest, Template!NoValues) = <<text[k]>> \o SubSeq(text, k + 1, n)
        <5>1. \A v \in N : Template!RenderNode(v, Template!NoValues) \in Seq(U)
          BY <1>4 DEF N
        <5> DEFINE none == Template!NoValues
        <5>2. RenderTexts(N, none, U) /\ rest \in Seq(N) /\ node \in N
          BY <4>3, <4>9, <5>1 DEF RenderTexts
        <5> HIDE DEF none
        <5>3. Template!RenderTemplate(Template!Cons(node, rest), none)
                 = Template!RenderNode(node, none) \o Template!RenderTemplate(rest, none)
          BY <5>2, RenderCons
        <5> QED
          BY <4>3, <4>9, <5>3 DEF none, Template!Cons
      <4>7. <<text[k]>> \o SubSeq(text, k + 1, n) = SubSeq(text, k, n)
        BY <1>1, <4>1, HeadAndTail DEF n
      <4>8. Renders(from[at[k] + 1], k)
        BY <4>4, <4>5, <4>6, <4>7
      <4> HIDE DEF Renders
      <4> QED
        BY <4>1, <4>8
    <3> HIDE DEF S
    <3>7. n + 1 \in S
      <4>1. n + 1 \in Nat /\ n + 1 \in 1..n + 1 /\ \A m \in 1..n + 1 : m < n + 1 /\ m \in S => m + 1 \in S
        BY <1>1, <3>6
      <4>2. 1..n + 1 \subseteq S
        BY <3>5, <4>1, UpTo
      <4> QED
        BY <4>1, <4>2
    <3>8. Renders(from[at[1] + 1], 1)
      <4>1. n + 2 - (n + 1) = 1
        BY <1>1
      <4> HIDE DEF Renders
      <4> QED
        BY <3>7, <4>1 DEF S
    <3>9. at[1] + 1 = 1
      BY <3>2
    <3> HIDE DEF Renders
    <3> QED
      BY <3>3, <3>8, <3>9
  <2>3. n = 0 \/ n > 0
    BY <1>1
  <2> HIDE DEF n
  <2> QED
    BY <2>1, <2>2, <2>3
<1>8. SubSeq(text, 1, n) = text
  OBVIOUS
<1> DEFINE nodes == Template!ParseTemplate(escaped)
<1>9. \A node \in Template!ToSet(nodes) : node.kind = "text"
  <2>1. nodes \in Seq(N)
    BY <1>7
  <2> HIDE DEF nodes
  <2>2. \A node \in Template!ToSet(nodes) : node \in N
    <3> HIDE DEF N
    <3> QED
      BY <2>1 DEF Template!ToSet
  <2> QED
    BY <2>2, TextNodes
<1> QED
  BY <1>7, <1>8, <1>9 DEF Template!EscapesRender

(* What is between the braces, and the braces. *)
LEMMA BracesAround ==
    ASSUME NEW T, NEW text \in Seq(T), NEW i \in 1..Len(text), NEW end \in i + 1..Len(text) - 1,
           text[i] = "{{", text[end] = "}", text[end + 1] = "}"
    PROVE  (<<"{{">> \o SubSeq(text, i + 1, end - 1)) \o <<"}", "}">> = SubSeq(text, i, end + 1)
<1>1. /\ end - 1 \in i..Len(text) /\ end + 1 \in 1..Len(text) /\ end \in 1..Len(text) /\ end + 1 <= Len(text)
      /\ end + 1 \in end - 1..Len(text) /\ (end - 1) + 1 = end
  <2>1. Len(text) \in Nat
    BY LengthIs, Zenon
  <2>2. end \in i + 1..Len(text) /\ end < Len(text)
    BY <2>1, UpToTheLast, Zenon
  <2> QED
    BY <2>1, <2>2, Between, Zenon
<1>2. <<text[i]>> \o SubSeq(text, i + 1, end - 1) = SubSeq(text, i, end - 1)
  BY <1>1, HeadAndTail
<1>3. SubSeq(text, end, end + 1) = <<text[end], text[end + 1]>>
  BY <1>1, TwoLast
<1>4. SubSeq(text, i, end - 1) \o SubSeq(text, end, end + 1) = SubSeq(text, i, end + 1)
  <2>1. SubSeq(text, i, end - 1) \o SubSeq(text, (end - 1) + 1, end + 1) = SubSeq(text, i, end + 1)
    BY <1>1, TwoParts
  <2> QED
    BY <1>1, <2>1
<1> QED
  BY <1>2, <1>3, <1>4

LEMMA BraceAround ==
    ASSUME NEW T, NEW text \in Seq(T), NEW i \in 1..Len(text), NEW brace \in i + 1..Len(text),
           text[i] = "${", text[brace] = "}"
    PROVE  (<<"${">> \o SubSeq(text, i + 1, brace - 1)) \o <<"}">> = SubSeq(text, i, brace)
<1>1. /\ brace - 1 \in i..Len(text) /\ brace \in 1..Len(text)
      /\ brace \in brace - 1..Len(text) /\ (brace - 1) + 1 = brace
  <2>1. Len(text) \in Nat
    BY LengthIs, Zenon
  <2> QED
    BY <2>1, Between, Zenon
<1>2. <<text[i]>> \o SubSeq(text, i + 1, brace - 1) = SubSeq(text, i, brace - 1)
  BY <1>1, HeadAndTail
<1>3. SubSeq(text, brace, brace) = <<text[brace]>>
  BY <1>1, OneOf
<1>4. SubSeq(text, i, brace - 1) \o SubSeq(text, brace, brace) = SubSeq(text, i, brace)
  <2>1. SubSeq(text, i, brace - 1) \o SubSeq(text, (brace - 1) + 1, brace) = SubSeq(text, i, brace)
    BY <1>1, TwoParts
  <2> QED
    BY <1>1, <2>1
<1> QED
  BY <1>2, <1>3, <1>4

(* A name that begins with secret: is a secret. *)
LEMMA SecretIs ==
    ASSUME NEW T, NEW raw \in Seq(T), NEW k \in 1..Len(raw), raw[k] = ":", SubSeq(raw, 1, k - 1) = <<"secret">>
    PROVE  <<"secret", ":">> \o SubSeq(raw, k + 1, Len(raw)) = raw
<1> DEFINE head == SubSeq(raw, 1, k - 1)
           n == Len(raw)
<1>1. n \in Nat /\ k \in 1..n
  BY LengthIs, Zenon
<1>2. Len(head) = k - 1 /\ (k > 1 => head[1] = raw[1])
  BY FrontIs, Zenon
<1>3. Len(head) = 1 /\ head[1] = "secret"
  BY SingleIs, Zenon
<1> HIDE DEF head
<1>4. k = 2
  <2>1. \A j \in 1..n : j - 1 = 1 => j = 2
    <3> HIDE DEF n
    <3> QED
      BY <1>1
  <2> QED
    BY <1>1, <1>2, <1>3, <2>1, Zenon
<1>5. raw[1] = "secret" /\ raw[2] = ":" /\ 1 \in 1..n /\ 1 + 1 <= n /\ 2 \in 1..n /\ n \in 2..n
  BY <1>1, <1>2, <1>3, <1>4
<1>6. SubSeq(raw, 1, 2) = <<"secret", ":">>
  <2>1. SubSeq(raw, 1, 1 + 1) = <<raw[1], raw[1 + 1]>>
    BY <1>5, TwoLast
  <2> QED
    BY <1>5, <2>1
<1>7. SubSeq(raw, 1, 2) \o SubSeq(raw, 2 + 1, n) = SubSeq(raw, 1, n)
  BY <1>5, TwoParts
<1>8. SubSeq(raw, 1, n) = raw
  OBVIOUS
<1> QED
  BY <1>4, <1>6, <1>7, <1>8

(* What the text between double braces may stand for. *)
LEMMA ParsePlaceholderIs ==
    ASSUME NEW T, NEW raw \in Seq(T)
    PROVE  LET p == Template!ParsePlaceholder(raw) IN
           \/ p = Template!NoNode
           \/ p = Template!Prompt(raw)
           \/ \E name \in Seq(T) : p = [kind |-> "secret", name |-> name] /\ <<"secret", ":">> \o name = raw
           \/ p.kind = "prompt" /\ "defaultValue" \in DOMAIN p
<1> DEFINE p == Template!ParsePlaceholder(raw)
           colons == {k \in 1..Len(raw) : raw[k] = ":"}
           separator == IF colons = {} THEN -1 ELSE Template!Min(colons)
           head == SubSeq(raw, 1, separator - 1)
           tail == SubSeq(raw, separator + 1, Len(raw))
<1>1. p = CASE separator = -1 -> IF raw = << >> THEN Template!NoNode ELSE Template!Prompt(raw)
            [] separator # -1 /\ head = <<"secret">> ->
                  IF tail = << >> THEN Template!NoNode ELSE [kind |-> "secret", name |-> tail]
            [] separator # -1 /\ head = << >> -> Template!NoNode
            [] OTHER -> Template!PromptOr(head, tail)
  BY DEF Template!ParsePlaceholder, Template!FirstFrom
<1>2. separator # -1 => separator \in 1..Len(raw) /\ raw[separator] = ":"
  <2>1. CASE colons # {}
    <3>1. colons \in SUBSET Nat
      OBVIOUS
    <3>2. Template!Min(colons) \in colons
      <4> HIDE DEF colons
      <4> QED
        BY <2>1, <3>1, LeastOf
    <3> QED
      BY <2>1, <3>2
  <2> QED BY <2>1
<1> HIDE DEF p, separator
<1>3. CASE separator = -1
  BY <1>1, <1>3 DEF p
<1>4. CASE separator # -1 /\ head = <<"secret">>
  <2>1. <<"secret", ":">> \o tail = raw
    BY <1>2, <1>4, SecretIs
  <2>2. p = Template!NoNode \/ p = [kind |-> "secret", name |-> tail]
    BY <1>1, <1>4
  <2>3. tail \in Seq(T)
    <3>1. separator \in 1..Len(raw)
      BY <1>2, <1>4, Zenon
    <3> QED
      BY <3>1, TailIs
  <2> HIDE DEF tail
  <2> QED
    BY <2>1, <2>2, <2>3 DEF p
<1>5. CASE separator # -1 /\ head # <<"secret">>
  <2>1. p = Template!NoNode \/ p = Template!PromptOr(head, tail)
    BY <1>1, <1>5
  <2> HIDE DEF head, tail
  <2>2. Template!PromptOr(head, tail).kind = "prompt" /\ "defaultValue" \in DOMAIN Template!PromptOr(head, tail)
    BY DEF Template!PromptOr
  <2> QED
    BY <2>1, <2>2 DEF p
<1> QED
  BY <1>3, <1>4, <1>5

(* The value given for a node is spelt as the node is. *)
IsSpelt(node, values) ==
    /\ node.kind = "prompt" =>
          /\ "defaultValue" \notin DOMAIN node
          /\ node.name \in DOMAIN values.prompts
          /\ values.prompts[node.name] = <<"{{">> \o node.name \o <<"}", "}">>
    /\ node.kind = "secret" =>
          /\ node.name \in DOMAIN values.secrets
          /\ values.secrets[node.name] = <<"{{", "secret", ":">> \o node.name \o <<"}", "}">>
    /\ node.kind = "builtin" =>
          /\ node.name \in DOMAIN values.builtins
          /\ values.builtins[node.name] = <<"${">> \o node.name \o <<"}">>

LEMMA PlaceholderSpells ==
    ASSUME NEW T, NEW text \in Seq(T), NEW i \in 1..Len(text), NEW end \in i + 1..Len(text) - 1,
           text[i] = "{{", text[end] = "}", text[end + 1] = "}",
           NEW values, IsSpelt(Placeholder(text, i, end).node, values)
    PROVE  Template!RenderNode(Placeholder(text, i, end).node, values) = SubSeq(text, i, end + 1)
<1> DEFINE raw == SubSeq(text, i + 1, end - 1)
           p == Template!ParsePlaceholder(raw)
           node == Placeholder(text, i, end).node
           whole == SubSeq(text, i, end + 1)
<1>1. node = IF p = Template!NoNode THEN Template!Text(whole) ELSE p
  BY DEF Placeholder
<1>2. (<<"{{">> \o raw) \o <<"}", "}">> = whole
  BY BracesAround
<1>3. raw \in Seq(T)
  <2>1. Len(text) \in Nat
    BY LengthIs, Zenon
  <2>2. end \in i + 1..Len(text)
    BY <2>1, UpToTheLast, Zenon
  <2> QED
    BY <2>2, PartIs, Zenon
<1>4. \/ p = Template!NoNode
      \/ p = Template!Prompt(raw)
      \/ \E name \in Seq(T) : p = [kind |-> "secret", name |-> name] /\ <<"secret", ":">> \o name = raw
      \/ p.kind = "prompt" /\ "defaultValue" \in DOMAIN p
  <2> HIDE DEF raw
  <2> QED
    BY <1>3, ParsePlaceholderIs
<1> HIDE DEF raw, p, node, whole
<1>5. IsSpelt(node, values)
  BY DEF node
<1>6. CASE p = Template!NoNode
  <2>1. node = Template!Text(whole)
    BY <1>1, <1>6
  <2> QED
    BY <2>1, TextNodes DEF node, whole
<1>7. CASE p # Template!NoNode /\ p = Template!Prompt(raw)
  <2>1. node = [kind |-> "prompt", name |-> raw]
    BY <1>1, <1>7 DEF Template!Prompt
  <2>2. raw \in DOMAIN values.prompts /\ values.prompts[raw] = whole
    BY <1>2, <1>5, <2>1 DEF IsSpelt
  <2>3. Template!RenderNode(node, values) = whole
    BY <2>1, <2>2 DEF Template!RenderNode, Template!ValueIn
  <2> QED
    BY <2>3 DEF node, whole
<1>8. ASSUME p # Template!NoNode, NEW name \in Seq(T), p = [kind |-> "secret", name |-> name], <<"secret", ":">> \o name = raw
      PROVE  Template!RenderNode(node, values) = whole
  <2>1. node = [kind |-> "secret", name |-> name]
    BY <1>1, <1>8
  <2>2. name \in DOMAIN values.secrets /\ values.secrets[name] = <<"{{", "secret", ":">> \o name \o <<"}", "}">>
    BY <1>5, <2>1 DEF IsSpelt
  <2>3. <<"{{", "secret", ":">> \o name = <<"{{">> \o raw
    BY <1>8, SecretJoined
  <2>4. values.secrets[name] = whole
    BY <1>2, <2>2, <2>3
  <2> QED
    BY <2>1, <2>2, <2>4 DEF Template!RenderNode, Template!ValueIn
<1>9. CASE p # Template!NoNode /\ p.kind = "prompt" /\ "defaultValue" \in DOMAIN p
  <2>1. node = p
    BY <1>1, <1>9
  <2> QED
    BY <1>5, <1>9, <2>1 DEF IsSpelt
<1> QED
  BY <1>4, <1>6, <1>7, <1>8, <1>9 DEF node, whole

LEMMA BuiltinIsSpelt ==
    ASSUME NEW name, NEW node, NEW values, IsSpelt(node, values), node = [kind |-> "builtin", name |-> name]
    PROVE  name \in DOMAIN values.builtins /\ values.builtins[name] = <<"${">> \o name \o <<"}">>
<1>1. node.kind = "builtin" /\ node.name = name
  OBVIOUS
<1> QED
  BY <1>1 DEF IsSpelt

(* What a turn reads, it gives back. *)
LEMMA TurnSpells ==
    ASSUME NEW T, NEW text \in Seq(T), NEW i \in 1..Len(text), text[i] # "\\",
           NEW values, IsSpelt(Template!Turn(text, i).node, values)
    PROVE  Template!RenderNode(Template!Turn(text, i).node, values) = SubSeq(text, i, Template!Turn(text, i).next - 1)
<1> DEFINE turn == Template!Turn(text, i)
           n == Len(text)
<1>1. n \in Nat /\ i \in 1..n
  OBVIOUS
<1>2. \/ turn = [node |-> Template!Text(SubSeq(text, i, n)), next |-> n + 1]
      \/ /\ text[i] = "{{"
         /\ \E end \in i + 1..n - 1 : text[end] = "}" /\ text[end + 1] = "}" /\ turn = Placeholder(text, i, end)
      \/ /\ text[i] = "${"
         /\ \E brace \in i + 1..n :
               /\ text[brace] = "}"
               /\ turn = [node |-> [kind |-> "builtin", name |-> SubSeq(text, i + 1, brace - 1)], next |-> brace + 1]
      \/ turn = [node |-> Template!Text(<<text[i]>>), next |-> i + 1]
  BY TurnIs, Zenon
<1>3. IsSpelt(turn.node, values)
  OBVIOUS
<1> HIDE DEF turn
<1>4. CASE turn = [node |-> Template!Text(SubSeq(text, i, n)), next |-> n + 1]
  <2> DEFINE rest == SubSeq(text, i, n)
  <2>1. turn.node = Template!Text(rest) /\ turn.next - 1 = n
    <3> HIDE DEF n
    <3> QED
      BY <1>1, <1>4
  <2>2. Template!RenderNode(turn.node, values) = rest
    <3> HIDE DEF rest
    <3> QED
      BY <2>1, TextNodes
  <2> QED
    BY <2>1, <2>2 DEF turn
<1>5. ASSUME text[i] = "{{", NEW end \in i + 1..n - 1, text[end] = "}", text[end + 1] = "}",
             turn = Placeholder(text, i, end)
      PROVE  Template!RenderNode(turn.node, values) = SubSeq(text, i, turn.next - 1)
  <2>1. turn.next = end + 2 /\ (end + 2) - 1 = end + 1
    <3>1. turn.next = end + 2
      BY <1>5 DEF Placeholder
    <3>2. end \in Int
      <4>1. i \in Int /\ n - 1 \in Int
        BY <1>1
      <4> QED
        BY <4>1
    <3> QED
      BY <3>1, <3>2
  <2>2. Template!RenderNode(turn.node, values) = SubSeq(text, i, end + 1)
    BY <1>3, <1>5, PlaceholderSpells
  <2> QED
    BY <2>1, <2>2
<1>6. ASSUME text[i] = "${", NEW brace \in i + 1..n, text[brace] = "}",
             turn = [node |-> [kind |-> "builtin", name |-> SubSeq(text, i + 1, brace - 1)], next |-> brace + 1]
      PROVE  Template!RenderNode(turn.node, values) = SubSeq(text, i, turn.next - 1)
  <2> DEFINE name == SubSeq(text, i + 1, brace - 1)
             whole == SubSeq(text, i, brace)
  <2>1. (<<"${">> \o name) \o <<"}">> = whole
    BY <1>6, BraceAround
  <2>2. turn = [node |-> [kind |-> "builtin", name |-> name], next |-> brace + 1] /\ brace \in Int
    BY <1>1, <1>6, Between, Zenon
  <2> HIDE DEF name, whole
  <2>3. turn.node = [kind |-> "builtin", name |-> name] /\ turn.next - 1 = brace
    <3>1. turn.node = [kind |-> "builtin", name |-> name] /\ turn.next = brace + 1
      BY <2>2
    <3>2. (brace + 1) - 1 = brace
      BY <2>2, BackOne, Zenon
    <3> QED
      BY <3>1, <3>2
  <2>4. name \in DOMAIN values.builtins /\ values.builtins[name] = whole
    BY <1>3, <2>1, <2>3, BuiltinIsSpelt, Zenon
  <2>5. Template!RenderNode(turn.node, values) = whole
    BY <2>3, <2>4 DEF Template!RenderNode, Template!ValueIn
  <2> QED
    BY <2>3, <2>5 DEF whole
<1>7. CASE turn = [node |-> Template!Text(<<text[i]>>), next |-> i + 1]
  <2>1. turn.node = Template!Text(<<text[i]>>) /\ turn.next - 1 = i
    <3> HIDE DEF n
    <3> QED
      BY <1>1, <1>7
  <2>2. Template!RenderNode(turn.node, values) = <<text[i]>>
    BY <2>1, TextNodes
  <2>3. SubSeq(text, i, i) = <<text[i]>>
    BY OneOf
  <2> QED
    BY <2>1, <2>2, <2>3 DEF turn
<1> QED
  BY <1>2, <1>4, <1>5, <1>6, <1>7 DEF turn

(* A sequence of nodes is one of each of its parts. *)
LEMMA PartsOf ==
    ASSUME NEW M, NEW N, NEW node \in M, NEW rest \in Seq(M), <<node>> \o rest \in Seq(N)
    PROVE  node \in N /\ rest \in Seq(N) /\ rest \in Seq(N \cap M)
<1> DEFINE all == <<node>> \o rest
           n == Len(rest)
<1>1. n \in Nat /\ Len(all) = 1 + n /\ all[1] = node /\ \A i \in 1..n : all[1 + i] = rest[i] /\ rest[i] \in M
  OBVIOUS
<1>2. all \in Seq(N) /\ rest \in [1..n -> M]
  OBVIOUS
<1> HIDE DEF all, n
<1>3. \A i \in 1..1 + n : all[i] \in N
  BY <1>1, <1>2
<1>4. node \in N /\ \A i \in 1..n : rest[i] \in N /\ rest[i] \in N \cap M
  <2>1. 1 \in 1..1 + n /\ \A i \in 1..n : 1 + i \in 1..1 + n
    BY <1>1
  <2> QED
    BY <1>1, <1>3, <2>1
<1>5. rest \in [1..n -> N] /\ rest \in [1..n -> N \cap M]
  BY <1>2, <1>4
<1> QED
  BY <1>1, <1>4, <1>5, FunctionsAreSequences

LEMMA OfItsSet ==
    ASSUME NEW M, NEW s \in Seq(M)
    PROVE  s \in Seq(Template!ToSet(s))
<1> DEFINE N == Template!ToSet(s)
           n == Len(s)
<1>1. n \in Nat /\ s \in [1..n -> M] /\ \A i \in 1..n : s[i] \in N
  BY DEF Template!ToSet
<1> HIDE DEF N, n
<1>2. s \in [1..n -> N]
  BY <1>1
<1> QED
  BY <1>1, <1>2, FunctionsAreSequences DEF N

(* Nothing of a template is lost: with each value spelt as its placeholder *)
(* is, the template is rendered as it was written.                         *)
THEOREM TemplatesLoseNothing ==
    ASSUME NEW T, NEW text \in Seq(T)
    PROVE  Template!SpelledBack(text)
<1> SUFFICES ASSUME "\\" \notin Template!ToSet(text),
                    \A node \in Template!ToSet(Template!ParseTemplate(text)) :
                       node.kind # "prompt" \/ "defaultValue" \notin DOMAIN node
             PROVE  Template!Spelling(text) = text
  BY DEF Template!SpelledBack
<1> DEFINE n == Len(text)
           nodes == Template!ParseTemplate(text)
           Node(i) == Template!Turn(text, i).node
           To(i) == Template!Turn(text, i).next
           M == {Node(i) : i \in 1..n}
           N == Template!ToSet(nodes)
           placeholders == Template!CollectPlaceholders(nodes)
           values == [prompts |-> [name \in {p.name : p \in placeholders.prompts} |-> <<"{{">> \o name \o <<"}", "}">>],
                      secrets |-> [name \in placeholders.secrets |-> <<"{{", "secret", ":">> \o name \o <<"}", "}">>],
                      builtins |-> [name \in placeholders.builtins |-> <<"${">> \o name \o <<"}">>]]
           Render(s) == Template!RenderTemplate(s, values)
<1>1. ASSUME NEW node \in N
      PROVE  IsSpelt(node, values)
  <2> DEFINE defaults(name) == {k \in DOMAIN nodes : nodes[k].kind = "prompt" /\ nodes[k].name = name
                                                     /\ "defaultValue" \in DOMAIN nodes[k]}
             Collected(name) == IF defaults(name) = {} THEN Template!Prompt(name)
                                ELSE Template!PromptOr(name, nodes[Template!Min(defaults(name))].defaultValue)
  <2>1. /\ placeholders.prompts = {Collected(name) : name \in Template!Names(nodes, "prompt")}
        /\ placeholders.secrets = Template!Names(nodes, "secret")
        /\ placeholders.builtins = Template!Names(nodes, "builtin")
    BY DEF Template!CollectPlaceholders
  <2>2. node.kind # "prompt" \/ "defaultValue" \notin DOMAIN node
    BY <1>1
  <2>3. \A kind : node.kind = kind => node.name \in Template!Names(nodes, kind)
    BY <1>1 DEF Template!Names
  <2> HIDE DEF nodes, N
  <2>4. \A name \in Template!Names(nodes, "prompt") : name \in {p.name : p \in placeholders.prompts}
    <3> TAKE name \in Template!Names(nodes, "prompt")
    <3>1. Collected(name).name = name
      BY DEF Template!Prompt, Template!PromptOr
    <3> HIDE DEF placeholders, Collected
    <3> QED
      BY <2>1, <3>1
  <2> HIDE DEF placeholders
  <2> QED
    BY <2>1, <2>2, <2>3, <2>4 DEF IsSpelt
<1>2. Template!Spelling(text) = Render(nodes)
  BY DEF Template!Spelling
<1>3. \A i \in 1..n : text[i] # "\\"
  BY DEF Template!ToSet
<1> HIDE DEF values
<1>4. n \in Nat /\ \A i \in 1..n : To(i) \in i + 1..n + 1
  BY TurnAdvances
<1>5. PICK from : /\ from[n + 1] = << >>
                  /\ \A i \in 1..n : from[i] = <<Node(i)>> \o from[To(i)]
                  /\ nodes = from[1]
  BY ParseIs
<1> HIDE DEF nodes, N
<1>6. ASSUME NEW i \in 1..n, Node(i) \in N
      PROVE  /\ Template!RenderNode(Node(i), values) = SubSeq(text, i, To(i) - 1)
             /\ SubSeq(text, i, To(i) - 1) \in Seq(T)
  <2>1. IsSpelt(Node(i), values) /\ text[i] # "\\"
    BY <1>1, <1>3, <1>6
  <2>2. Template!RenderNode(Node(i), values) = SubSeq(text, i, To(i) - 1)
    BY <2>1, TurnSpells, Zenon
  <2>3. To(i) - 1 \in i..n
    <3> HIDE DEF To, n
    <3> QED
      BY <1>4
  <2>4. \A m \in i..n : SubSeq(text, i, m) \in Seq(T)
    OBVIOUS
  <2> QED
    BY <2>2, <2>3, <2>4
<1>7. RenderTexts(N \cap M, values, T)
  <2> SUFFICES ASSUME NEW i \in 1..n, Node(i) \in N
               PROVE  Template!RenderNode(Node(i), values) \in Seq(T)
    <3> HIDE DEF Node
    <3> QED
      BY DEF RenderTexts
  <2> QED
    BY <1>6
<1> DEFINE P(i) == from[i] \in Seq(M) /\ (from[i] \in Seq(N) => Render(from[i]) = SubSeq(text, i, n))
           S == {i \in 1..n + 1 : P(i)}
<1>8. n + 1 \in S
  <2>1. << >> \in Seq(M)
    <3> HIDE DEF M
    <3> QED OBVIOUS
  <2>2. Render(<< >>) = << >>
    BY FlattensAgree, FlattenOfNone DEF Template!RenderTemplate
  <2>3. SubSeq(text, n + 1, n) = << >>
    OBVIOUS
  <2>4. n + 1 \in 1..n + 1
    BY <1>4
  <2> HIDE DEF M, n
  <2> QED
    BY <1>5, <2>1, <2>2, <2>3, <2>4
<1>9. ASSUME NEW i \in 1..n, \A j \in i + 1..n + 1 : j \in S
      PROVE  i \in S
  <2> DEFINE node == Node(i)
             next == To(i)
             rest == from[next]
  <2>1. next \in i + 1..n + 1 /\ node \in M /\ from[i] = <<node>> \o rest
    BY <1>4, <1>5
  <2>2. rest \in Seq(M) /\ (rest \in Seq(N) => Render(rest) = SubSeq(text, next, n))
    BY <1>9, <2>1
  <2>3. i \in 1..n + 1 /\ next - 1 \in i..n /\ (next - 1) + 1 = next /\ (n \in next - 1..n)
    <3> HIDE DEF next, n
    <3> QED
      BY <1>4, <2>1
  <2>4. from[i] \in Seq(M)
    <3> HIDE DEF M, node, rest
    <3> QED
      BY <2>1, <2>2
  <2>5. ASSUME from[i] \in Seq(N)
        PROVE  Render(from[i]) = SubSeq(text, i, n)
    <3>1. node \in N /\ rest \in Seq(N) /\ rest \in Seq(N \cap M)
      <4> HIDE DEF M, node, rest
      <4> QED
        BY <2>1, <2>2, <2>5, PartsOf
    <3>2. Template!RenderTemplate(Template!Cons(node, rest), values)
             = Template!RenderNode(node, values) \o Template!RenderTemplate(rest, values)
      <4> DEFINE both == N \cap M
      <4>1. node \in both /\ rest \in Seq(both) /\ RenderTexts(both, values, T)
        BY <1>7, <2>1, <3>1
      <4> HIDE DEF both, node, rest
      <4> QED
        BY <4>1, RenderCons
    <3>3. Render(from[i]) = Template!RenderNode(node, values) \o Render(rest)
      BY <2>1, <3>2 DEF Template!Cons
    <3>4. Template!RenderNode(node, values) = SubSeq(text, i, next - 1)
      BY <1>6, <3>1
    <3>5. Render(rest) = SubSeq(text, next, n)
      BY <2>2, <3>1
    <3>6. SubSeq(text, i, next - 1) \o SubSeq(text, (next - 1) + 1, n) = SubSeq(text, i, n)
      <4> HIDE DEF next
      <4> QED
        BY <2>3, TwoParts
    <3> HIDE DEF node, next, rest, Render
    <3> QED
      BY <2>3, <3>3, <3>4, <3>5, <3>6
  <2> HIDE DEF M, n
  <2> QED
    BY <2>3, <2>4, <2>5
<1> HIDE DEF P, S
<1>10. \A i \in 1..n + 1 : i \in S
  <2> HIDE DEF n
  <2> QED
    BY <1>4, <1>8, <1>9, DownToOne
<1>11. P(1)
  <2>1. 1 \in 1..n + 1
    BY <1>4
  <2> QED
    BY <1>10, <2>1 DEF S
<1>12. nodes \in Seq(N)
  <2>1. nodes \in Seq(M)
    BY <1>5, <1>11 DEF P
  <2> HIDE DEF M
  <2> QED
    BY <2>1, OfItsSet DEF N
<1>13. SubSeq(text, 1, n) = text
  OBVIOUS
<1> HIDE DEF Render
<1> QED
  BY <1>2, <1>5, <1>11, <1>12, <1>13 DEF P

-----------------------------------------------------------------------------
(* The templates of the run.                                               *)

(* The tokens of the templates that are given. *)
TemplateToken == Template!Token \cup {"{{", "x", "}", ":", "y", "secret", "${", "file", "\\"}

(* The templates that are given are texts of these tokens. *)
LEMMA TextsAreTexts ==
    ASSUME NEW text \in Texts
    PROVE  text \in Seq(TemplateToken)
<1>1. SeqUpTo(Template!Token, 4) \subseteq Seq(TemplateToken)
  <2>1. Template!Token \in SUBSET TemplateToken /\ 4 \in Nat
    BY DEF TemplateToken
  <2> QED
    BY <2>1, SeqUpToIs, Zenon
<1>2. Pieces \in SUBSET Seq(TemplateToken)
  <2>1. {"{{", "x", "}", ":", "y", "secret", "${", "file", "\\"} \subseteq TemplateToken
    BY DEF TemplateToken
  <2> HIDE DEF TemplateToken
  <2>2. /\ "{{" \in TemplateToken /\ "x" \in TemplateToken /\ "}" \in TemplateToken /\ ":" \in TemplateToken
        /\ "y" \in TemplateToken /\ "secret" \in TemplateToken /\ "${" \in TemplateToken
        /\ "file" \in TemplateToken /\ "\\" \in TemplateToken
    BY <2>1
  <2>3. /\ <<"{{", "x", "}", "}">> \in Seq(TemplateToken)
        /\ <<"{{", "x", ":", "y", "}", "}">> \in Seq(TemplateToken)
        /\ <<"{{", "secret", ":", "x", "}", "}">> \in Seq(TemplateToken)
        /\ <<"${", "file", "}">> \in Seq(TemplateToken)
    BY <2>2, LongerSequences
  <2>4. /\ <<"\\">> \in Seq(TemplateToken) /\ <<"{{">> \in Seq(TemplateToken)
        /\ <<"}">> \in Seq(TemplateToken) /\ <<"x">> \in Seq(TemplateToken)
    BY <2>2, ShortSequences
  <2> QED
    BY <2>3, <2>4 DEF Pieces
<1>3. ASSUME NEW pieces \in SeqUpTo(Pieces, 4)
      PROVE  Sequence!FlattenSeq(pieces) \in Seq(TemplateToken)
  <2>1. pieces \in Seq(Seq(TemplateToken))
    <3> DEFINE S == Seq(TemplateToken)
    <3>1. Pieces \in SUBSET S /\ 4 \in Nat
      BY <1>2
    <3> HIDE DEF S
    <3>2. SeqUpTo(Pieces, 4) \subseteq Seq(S)
      BY <3>1, SeqUpToIs
    <3> QED
      BY <1>3, <3>2 DEF S
  <2>2. Sequence!FlattenSeq(pieces) = Command!FlattenSeq(pieces)
    BY DEF Sequence!FlattenSeq, Command!FlattenSeq
  <2> QED
    BY <2>1, <2>2, FlattenedIs
<1> QED
  BY <1>1, <1>3 DEF Texts

(* An escaped text renders as itself and a template loses nothing.         *)
THEOREM TemplatesAreFaithful == FunctionsSpec => []TemplateIsFaithful
<1>1. FunctionsInit => TemplateIsFaithful
  <2> SUFFICES ASSUME FunctionsInit, input.about = "template"
               PROVE  Template!EscapesRender(input.given.text) /\ Template!SpelledBack(input.given.text)
    BY DEF TemplateIsFaithful
  <2>1. input.given.text \in Seq(TemplateToken)
    BY InitialInputs, TextsAreTexts
  <2> QED
    BY <2>1, EscapedTextRenders, TemplatesLoseNothing, Zenon
<1>2. TemplateIsFaithful /\ [FunctionsNext]_<<vars, input>> => TemplateIsFaithful'
  <2> SUFFICES ASSUME TemplateIsFaithful, [FunctionsNext]_<<vars, input>>
               PROVE  TemplateIsFaithful'
    OBVIOUS
  <2>1. input' = input
    BY DEF FunctionsNext
  <2> QED
    BY <2>1 DEF TemplateIsFaithful
<1> QED
  BY <1>1, <1>2, PTL DEF FunctionsSpec

-----------------------------------------------------------------------------
(* JSON with comments: Jsonc.  Which quotes of a string are escaped.       *)

LEMMA Parity == \A x \in Nat : ((x + 1) % 2 = 0 <=> ~(x % 2 = 0)) /\ ~(1 % 2 = 0)
OBVIOUS

(* The last of some places before k. *)
LEMMA LastBefore ==
    ASSUME NEW k \in Nat, NEW N, \E j \in 1..k - 1 : j \in N
    PROVE  \E j \in 1..k - 1 : j \in N /\ \A b \in j + 1..k - 1 : b \notin N
<1> DEFINE S == {m \in 1..k - 1 : k - m \in N}
<1>1. S \in SUBSET Nat
  OBVIOUS
<1>2. S # {}
  <2>1. PICK j \in 1..k - 1 : j \in N
    OBVIOUS
  <2>2. k - j \in 1..k - 1 /\ k - (k - j) = j
    OBVIOUS
  <2> QED
    BY <2>1, <2>2
<1>3. PICK m \in S : \A x \in S : m <= x
  BY <1>1, <1>2, LeastExists
<1>4. m \in 1..k - 1 /\ k - m \in 1..k - 1 /\ k - m \in N
  BY <1>3
<1>5. \A b \in (k - m) + 1..k - 1 : k - b \in 1..k - 1 /\ k - (k - b) = b /\ ~(m <= k - b)
  BY <1>4
<1>6. \A b \in (k - m) + 1..k - 1 : b \notin N
  BY <1>3, <1>5
<1> QED
  BY <1>4, <1>6

(* After an even number of backslashes. *)
LEMMA EscapesAlternate ==
    ASSUME NEW k \in Nat, NEW N, k > 1, 1 \in N
    PROVE  LET Even(m) == \E j \in 1..m - 1 : j \in N /\ (m - j) % 2 = 0 /\ \A b \in j + 1..m - 1 : b \notin N
           IN  Even(k + 1) <=> k \notin N /\ ~Even(k)
<1> DEFINE Even(m) == \E j \in 1..m - 1 : j \in N /\ (m - j) % 2 = 0 /\ \A b \in j + 1..m - 1 : b \notin N
<1>1. ASSUME Even(k + 1)
      PROVE  k \notin N /\ ~Even(k)
  <2>1. PICK j \in 1..k : j \in N /\ ((k + 1) - j) % 2 = 0 /\ \A b \in j + 1..k : b \notin N
    BY <1>1
  <2>2. j # k
    <3>1. (k + 1) - k = 1
      OBVIOUS
    <3> QED
      BY <2>1, <3>1, Parity
  <2>3. k \notin N /\ k - j \in Nat /\ (k + 1) - j = (k - j) + 1
    BY <2>1, <2>2
  <2>4. ~((k - j) % 2 = 0)
    BY <2>1, <2>3, Parity
  <2>5. ASSUME NEW i \in 1..k - 1, i \in N, \A b \in i + 1..k - 1 : b \notin N
        PROVE  i = j
    <3>1. i \notin j + 1..k /\ j \notin i + 1..k - 1
      BY <2>1, <2>5
    <3> QED
      BY <2>1, <2>2, <3>1
  <2> QED
    BY <2>3, <2>4, <2>5
<1>2. ASSUME k \notin N, ~Even(k)
      PROVE  Even(k + 1)
  <2>1. 1 \in 1..k - 1
    OBVIOUS
  <2>2. PICK j \in 1..k - 1 : j \in N /\ \A b \in j + 1..k - 1 : b \notin N
    BY <2>1, LastBefore
  <2>3. ~((k - j) % 2 = 0)
    BY <1>2, <2>2
  <2>4. k - j \in Nat /\ (k + 1) - j = (k - j) + 1 /\ j \in 1..(k + 1) - 1
        /\ \A b \in j + 1..(k + 1) - 1 : b = k \/ b \in j + 1..k - 1
    OBVIOUS
  <2>5. ((k + 1) - j) % 2 = 0
    BY <2>3, <2>4, Parity
  <2> QED
    BY <1>2, <2>2, <2>4, <2>5
<1> QED
  BY <1>1, <1>2

(* The modes in which the characters of a string are scanned. *)
ModesOf(l) ==
    [j \in 1..Len(l) + 1 |-> IF j = 1 \/ j = Len(l) + 1 THEN "outside"
                             ELSE IF Json!IsEscaped(l, j) THEN "escaped" ELSE "inString"]

LEMMA AfterIs ==
    /\ \A mode, char : Json!After(mode, char) \in Json!Mode
    /\ \A char : char # Json!QUOTE => Json!After("outside", char) = "outside"
    /\ Json!After("outside", Json!QUOTE) = "inString"
    /\ Json!After("inString", "\\") = "escaped"
    /\ Json!After("inString", Json!QUOTE) = "outside"
    /\ \A char : char \notin {"\\", Json!QUOTE} => Json!After("inString", char) = "inString"
    /\ \A char : Json!After("escaped", char) = "inString"
BY DEF Json!After, Json!Mode, Json!QUOTE

LEMMA StringModes ==
    ASSUME NEW T, NEW l \in Seq(T), Json!String(l)
    PROVE  /\ \A j \in 1..Len(l) + 1 : ModesOf(l)[j] \in Json!Mode
           /\ \A j \in 2..Len(l) : ModesOf(l)[j] # "outside"
           /\ ModesOf(l)[1] = "outside" /\ ModesOf(l)[Len(l) + 1] = "outside"
           /\ \A j \in 1..Len(l) : ModesOf(l)[j + 1] = Json!After(ModesOf(l)[j], l[j])
<1> DEFINE n == Len(l)
           N == {j \in 1..n : l[j] # "\\"}
           modes == ModesOf(l)
<1>1. /\ n \in Nat /\ n > 1 /\ l[1] = Json!QUOTE /\ Json!QUOTE # "\\"
      /\ \A k \in 2..n : l[k] = Json!QUOTE /\ ~Json!IsEscaped(l, k) <=> k = n
  <2>1. n \in Nat
    OBVIOUS
  <2>2. n > 1 /\ l[1] = Json!QUOTE /\ \A k \in 2..n : l[k] = Json!QUOTE /\ ~Json!IsEscaped(l, k) <=> k = n
    BY Zenon DEF Json!String
  <2>3. Json!QUOTE # "\\"
    BY DEF Json!QUOTE
  <2> QED
    BY <2>1, <2>2, <2>3, Zenon
<1> HIDE DEF n
<1>2. /\ modes[1] = "outside" /\ modes[n + 1] = "outside"
      /\ \A j \in 2..n : modes[j] = IF Json!IsEscaped(l, j) THEN "escaped" ELSE "inString"
  <2>1. /\ 1 \in 1..n + 1 /\ n + 1 \in 1..n + 1
        /\ \A j \in 2..n : j \in 1..n + 1 /\ j # 1 /\ j # n + 1
    BY <1>1
  <2> QED
    BY <2>1 DEF ModesOf, n
<1> HIDE DEF modes
<1>3. \A k \in 2..n - 1 : Json!IsEscaped(l, k + 1) <=> l[k] = "\\" /\ ~Json!IsEscaped(l, k)
  <2> TAKE k \in 2..n - 1
  <2>1. 1 \in N /\ k \in Nat /\ k > 1 /\ k \in 1..n
    BY <1>1
  <2> DEFINE Even(m) == \E j \in 1..m - 1 : j \in N /\ (m - j) % 2 = 0 /\ \A b \in j + 1..m - 1 : b \notin N
  <2>2. Even(k + 1) <=> k \notin N /\ ~Even(k)
    <3> HIDE DEF N
    <3> QED
      BY <2>1, EscapesAlternate
  <2>3. \A m \in 1..n : Json!IsEscaped(l, m) <=> Even(m)
    <3> TAKE m \in 1..n
    <3>1. \A j \in 1..m - 1 : j \in 1..n /\ \A b \in j + 1..m - 1 : b \in 1..n
      BY <1>1
    <3> QED
      BY <3>1 DEF Json!IsEscaped
  <2>4. k + 1 \in 1..n
    BY <1>1
  <2> HIDE DEF Even
  <2> QED
    BY <2>1, <2>2, <2>3, <2>4
<1>4. ~Json!IsEscaped(l, 2)
  <2>1. \A j \in 1..2 - 1 : 2 - j = 1
    OBVIOUS
  <2> QED
    BY <2>1, Parity DEF Json!IsEscaped
<1>5. \A j \in 1..n : j = 1 \/ j = n \/ j \in 2..n - 1
  BY <1>1
<1>6. 2 \in 2..n /\ 1 + 1 = 2 /\ n \in 2..n /\ \A j \in 2..n - 1 : j \in 2..n /\ j + 1 \in 2..n /\ j # n
  BY <1>1
<1>7. modes[1 + 1] = Json!After(modes[1], l[1])
  BY <1>1, <1>2, <1>4, <1>6, AfterIs
<1>8. modes[n + 1] = Json!After(modes[n], l[n])
  <2>1. l[n] = Json!QUOTE /\ ~Json!IsEscaped(l, n)
    BY <1>1, <1>6
  <2> QED
    BY <1>2, <1>6, <2>1, AfterIs
<1>9. ASSUME NEW j \in 2..n - 1
      PROVE  modes[j + 1] = Json!After(modes[j], l[j])
  <2>1. modes[j] = (IF Json!IsEscaped(l, j) THEN "escaped" ELSE "inString")
    BY <1>2, <1>6
  <2>2. modes[j + 1] = IF Json!IsEscaped(l, j + 1) THEN "escaped" ELSE "inString"
    BY <1>2, <1>6
  <2>3. ~(l[j] = Json!QUOTE /\ ~Json!IsEscaped(l, j))
    BY <1>1, <1>6
  <2>4. Json!IsEscaped(l, j + 1) <=> l[j] = "\\" /\ ~Json!IsEscaped(l, j)
    BY <1>3
  <2>5. CASE Json!IsEscaped(l, j)
    BY <2>1, <2>2, <2>4, <2>5, AfterIs, Zenon
  <2>6. CASE ~Json!IsEscaped(l, j) /\ l[j] = "\\"
    BY <2>1, <2>2, <2>4, <2>6, AfterIs, Zenon
  <2>7. CASE ~Json!IsEscaped(l, j) /\ l[j] # "\\"
    BY <2>1, <2>2, <2>3, <2>4, <2>7, AfterIs
  <2> QED BY <2>5, <2>6, <2>7
<1>10. \A j \in 1..n : modes[j + 1] = Json!After(modes[j], l[j])
  BY <1>5, <1>7, <1>8, <1>9, Zenon
<1>11. \A j \in 1..n + 1 : j = 1 \/ j = n + 1 \/ j \in 2..n
  BY <1>1
<1>12. \A j \in 1..n + 1 : modes[j] \in Json!Mode
  BY <1>2, <1>11 DEF Json!Mode
<1>13. \A j \in 2..n : modes[j] # "outside"
  BY <1>2
<1> QED
  BY <1>2, <1>10, <1>12, <1>13 DEF n, modes

(* A concatenation, from its end. *)
LEMMA FlattenFromTheEnd ==
    ASSUME NEW T, NEW outs \in Seq(Seq(T)), NEW x, x[Len(outs) + 1] = << >>,
           \A k \in 1..Len(outs) : x[k + 1] \in Seq(T) => x[k] = outs[k] \o x[k + 1]
    PROVE  x[1] = Command!FlattenSeq(outs) /\ x[1] \in Seq(T)
<1> DEFINE n == Len(outs)
           rest(k) == SubSeq(outs, k, n)
           S == {k \in 1..n + 1 : x[k] = Command!FlattenSeq(rest(k))}
<1>1. n \in Nat /\ n + 1 \in 1..n + 1 /\ 1 \in 1..n + 1
      /\ \A k \in 1..n : outs[k] \in Seq(T) /\ k \in 1..n + 1 /\ k + 1 \in k + 1..n + 1 /\ k + 1 \in 1..n + 1
  OBVIOUS
<1>2. /\ \A k \in 1..n + 1 : rest(k) \in Seq(Seq(T))
      /\ rest(n + 1) = << >> /\ rest(1) = outs
  OBVIOUS
<1>3. \A k \in 1..n : rest(k) = <<outs[k]>> \o rest(k + 1)
  <2>1. ASSUME NEW k \in 1..n PROVE rest(k) = <<outs[k]>> \o rest(k + 1)
    <3>1. n \in k..Len(outs)
      OBVIOUS
    <3> QED
      BY <3>1, HeadAndTail
  <2> QED BY <2>1
<1>4. n + 1 \in S
  <2> HIDE DEF n, rest
  <2> QED
    BY <1>1, <1>2, FlattenOfNone DEF n
<1>5. ASSUME NEW k \in 1..n, \A j \in k + 1..n + 1 : j \in S
      PROVE  k \in S
  <2> HIDE DEF rest
  <2>1. x[k + 1] = Command!FlattenSeq(rest(k + 1))
    BY <1>1, <1>5
  <2>2. x[k + 1] \in Seq(T)
    BY <1>1, <1>2, <2>1, FlattenedIs
  <2>3. x[k] = outs[k] \o x[k + 1]
    BY <2>2
  <2>4. Command!FlattenSeq(<<outs[k]>> \o rest(k + 1)) = outs[k] \o Command!FlattenSeq(rest(k + 1))
    BY <1>1, <1>2, FlattenCons
  <2> HIDE DEF n
  <2> QED
    BY <1>1, <1>3, <2>1, <2>3, <2>4
<1> HIDE DEF S, n
<1>6. 1 \in S
  <2>1. \A k \in 1..n : (\A j \in k + 1..n + 1 : j \in S) => k \in S
    BY <1>5
  <2>2. \A k \in 1..n + 1 : k \in S
    BY <1>1, <1>4, <2>1, DownToOne
  <2> QED
    BY <1>1, <2>2
<1>7. x[1] = Command!FlattenSeq(outs)
  BY <1>2, <1>6 DEF S
<1> QED
  BY <1>7, FlattenedIs

LEMMA HeadBeforeMore ==
    ASSUME NEW T, NEW part \in Seq(T), NEW j \in 1..Len(part), NEW more \in Seq(T)
    PROVE  <<part[j]>> \o (SubSeq(part, j + 1, Len(part)) \o more) = SubSeq(part, j, Len(part)) \o more
<1> DEFINE a == <<part[j]>>
           b == SubSeq(part, j + 1, Len(part))
<1>1. a \in Seq(T) /\ b \in Seq(T) /\ Len(part) \in j..Len(part)
  OBVIOUS
<1>2. a \o b = SubSeq(part, j, Len(part))
  BY <1>1, HeadAndTail
<1> HIDE DEF a, b
<1>3. (a \o b) \o more = a \o (b \o more)
  BY <1>1
<1> QED
  BY <1>2, <1>3 DEF a, b

(* What is written character by character. *)
LEMMA WrittenInTurn ==
    ASSUME NEW T, NEW part \in Seq(T), NEW x, x[Len(part) + 1] \in Seq(T),
           \A j \in 1..Len(part) : x[j] = <<part[j]>> \o x[j + 1]
    PROVE  x[1] = part \o x[Len(part) + 1]
<1> DEFINE n == Len(part)
           rest(j) == SubSeq(part, j, n)
           more == x[n + 1]
           S == {j \in 1..n + 1 : x[j] = rest(j) \o more}
<1>1. /\ n \in Nat /\ n + 1 \in 1..n + 1 /\ 1 \in 1..n + 1
      /\ \A j \in 1..n : j \in 1..n + 1 /\ j + 1 \in j + 1..n + 1 /\ j + 1 \in 1..n + 1 /\ n \in j..n
  OBVIOUS
<1>2. /\ \A j \in 1..n + 1 : rest(j) \in Seq(T)
      /\ \A j \in 1..n : part[j] \in T /\ <<part[j]>> \in Seq(T)
      /\ rest(n + 1) = << >> /\ rest(1) = part
  OBVIOUS
<1>3. more \in Seq(T)
  OBVIOUS
<1> HIDE DEF more
<1>4. rest(n + 1) \o more = more
  <2> HIDE DEF n, rest
  <2> QED
    BY <1>2, <1>3
<1>5. n + 1 \in S
  <2> HIDE DEF rest
  <2> QED
    BY <1>1, <1>4 DEF more
<1>6. ASSUME NEW j \in 1..n, \A i \in j + 1..n + 1 : i \in S
      PROVE  j \in S
  <2>1. x[j + 1] = rest(j + 1) \o more
    BY <1>1, <1>6
  <2>2. x[j] = <<part[j]>> \o (rest(j + 1) \o more)
    BY <1>1, <2>1
  <2>3. <<part[j]>> \o (rest(j + 1) \o more) = rest(j) \o more
    BY <1>3, HeadBeforeMore, Zenon
  <2> HIDE DEF rest, n
  <2> QED
    BY <1>1, <2>2, <2>3
<1> HIDE DEF S, n
<1>7. 1 \in S
  <2>1. \A k \in 1..n : (\A j \in k + 1..n + 1 : j \in S) => k \in S
    BY <1>6
  <2>2. \A k \in 1..n + 1 : k \in S
    BY <1>1, <1>5, <2>1, DownToOne
  <2> QED
    BY <1>1, <2>2
<1> QED
  BY <1>1, <1>2, <1>7 DEF S, more, n

(* What a loop writes from each place on. *)
Unrolled(from, n, turn) ==
    /\ \A m \in Json!Mode : from[n + 1][m] = << >>
    /\ \A i \in 1..n : \A m \in Json!Mode :
          from[i][m] = turn[i][m].write \o from[turn[i][m].next][turn[i][m].mode]

(* The turns that copy a part of a text, in the modes that follow each other. *)
Copies(turn, part, at, modes) ==
    /\ \A j \in 1..Len(part) + 1 : modes[j] \in Json!Mode
    /\ \A j \in 1..Len(part) :
          turn[at + j][modes[j]] = [write |-> <<part[j]>>, next |-> (at + j) + 1, mode |-> modes[j + 1]]

LEMMA PartIsCopied ==
    ASSUME NEW T, NEW text \in Seq(T), NEW part \in Seq(T), NEW at \in Nat, Segment(text, part, at),
           NEW turn, NEW from, Unrolled(from, Len(text), turn),
           NEW modes, Copies(turn, part, at, modes),
           from[(at + Len(part)) + 1][modes[Len(part) + 1]] \in Seq(T)
    PROVE  from[at + 1][modes[1]] = part \o from[(at + Len(part)) + 1][modes[Len(part) + 1]]
<1> DEFINE n == Len(part)
           x == [j \in 1..n + 1 |-> from[at + j][modes[j]]]
<1>1. /\ n \in Nat /\ n + 1 \in 1..n + 1 /\ at + (n + 1) = (at + n) + 1 /\ 1 \in 1..n + 1
      /\ \A j \in 1..n : j \in 1..n + 1 /\ j + 1 \in 1..n + 1 /\ (at + j) + 1 = at + (j + 1)
  OBVIOUS
<1>2. \A j \in 1..n : at + j \in 1..Len(text)
  BY SegmentPlaces
<1>3. ASSUME NEW j \in 1..n
      PROVE  x[j] = <<part[j]>> \o x[j + 1]
  <2> DEFINE t == turn[at + j][modes[j]]
  <2>1. from[at + j][modes[j]] = t.write \o from[t.next][t.mode]
    BY <1>1, <1>2 DEF Unrolled, Copies
  <2>2. t = [write |-> <<part[j]>>, next |-> (at + j) + 1, mode |-> modes[j + 1]]
    BY DEF Copies
  <2> HIDE DEF t
  <2>3. t.write = <<part[j]>> /\ t.next = (at + j) + 1 /\ t.mode = modes[j + 1]
    BY <2>2
  <2>4. x[j] = from[at + j][modes[j]] /\ x[j + 1] = from[at + (j + 1)][modes[j + 1]]
    BY <1>1
  <2> HIDE DEF x
  <2> QED
    BY <1>1, <2>1, <2>3, <2>4
<1>4. x[1] = from[at + 1][modes[1]] /\ x[n + 1] = from[(at + n) + 1][modes[n + 1]]
  BY <1>1
<1> HIDE DEF x
<1>5. x[Len(part) + 1] \in Seq(T) /\ \A j \in 1..Len(part) : x[j] = <<part[j]>> \o x[j + 1]
  BY <1>3, <1>4
<1>6. x[1] = part \o x[Len(part) + 1]
  BY <1>5, WrittenInTurn, Zenon
<1> QED
  BY <1>4, <1>6

LEMMA LoopIs ==
    ASSUME NEW n \in Nat, NEW turn, \A i \in 1..n : \A m \in Json!Mode : turn[i][m].next \in i + 1..n + 1,
           \A i \in 1..n : \A m \in Json!Mode : turn[i][m].mode \in Json!Mode
    PROVE  \E from : Unrolled(from, n, turn) /\ Json!Loop(n, turn) = from[1]["outside"]
<1> DEFINE To(i, mode) == turn[i][mode].next
           In(i, mode) == turn[i][mode].mode
           Write(i, mode) == turn[i][mode].write
           Step(g, i) == [mode \in Json!Mode |->
                             IF i > n THEN << >> ELSE Write(i, mode) \o g[To(i, mode)][In(i, mode)]]
           Part(m, g) == /\ g = [i \in n + 2 - m..n + 1 |-> g[i]]
                         /\ \A i \in n + 2 - m..n + 1 : g[i] = Step(g, i)
           S == {m \in 1..n + 1 : \E g : Part(m, g)}
           from == CHOOSE h : h = [i \in 1..n + 1 |-> Step(h, i)]
<1>1. n \in Nat /\ \A i \in 1..n : \A mode \in Json!Mode : To(i, mode) \in i + 1..n + 1
  OBVIOUS
<1>10. Json!Loop(n, turn) = from[1]["outside"]
  BY DEF Json!Loop
<1>11. ASSUME Unrolled(from, n, turn)
       PROVE  \E g : Unrolled(g, n, turn) /\ Json!Loop(n, turn) = g[1]["outside"]
  BY <1>10, <1>11
<1>12. ASSUME NEW g, \A mode \in Json!Mode : g[n + 1][mode] = << >>,
              \A i \in 1..n : \A mode \in Json!Mode : g[i][mode] = Write(i, mode) \o g[To(i, mode)][In(i, mode)]
       PROVE  Unrolled(g, n, turn)
  BY <1>12 DEF Unrolled
<1> HIDE DEF To, In, Write
<1>2. 1 \in S
  <2> DEFINE g == [i \in {n + 1} |-> [mode \in Json!Mode |-> << >>]]
  <2>1. n + 2 - 1..n + 1 = {n + 1} /\ 1 \in 1..n + 1 /\ n + 1 > n
    BY <1>1
  <2>2. g = [i \in {n + 1} |-> g[i]] /\ \A i \in {n + 1} : g[i] = Step(g, i)
    BY <2>1
  <2> HIDE DEF g, Step
  <2> QED
    BY <2>1, <2>2
<1>3. ASSUME NEW m \in 1..n + 1, m < n + 1, m \in S
      PROVE  m + 1 \in S
  <2>1. PICK g : Part(m, g)
    BY <1>3
  <2> DEFINE k == n + 1 - m
             first == [mode \in Json!Mode |-> Write(k, mode) \o g[To(k, mode)][In(k, mode)]]
             h == [i \in k..n + 1 |-> IF i = k THEN first ELSE g[i]]
  <2>2. /\ k \in 1..n /\ n + 2 - (m + 1) = k /\ n + 2 - m = k + 1 /\ m + 1 \in 1..n + 1
        /\ \A mode \in Json!Mode : To(k, mode) \in k + 1..n + 1
        /\ ~(k > n)
        /\ \A i \in k..n + 1 : i = k \/ i \in k + 1..n + 1
        /\ \A i \in k + 1..n + 1 : i # k /\ i \in k..n + 1
        /\ k \in k..n + 1
    BY <1>1, <1>3
  <2> HIDE DEF k
  <2>3. h[k] = first /\ \A i \in k + 1..n + 1 : h[i] = g[i]
    <3> HIDE DEF first
    <3> QED
      BY <2>2
  <2>4. h = [i \in k..n + 1 |-> h[i]]
    OBVIOUS
  <2> HIDE DEF h
  <2>5. \A i \in k + 1..n + 1 : i > n \/ (i \in 1..n /\ \A mode \in Json!Mode : To(i, mode) \in k + 1..n + 1)
    BY <1>1, <2>2
  <2>6. \A i \in k + 1..n + 1 : h[i] = Step(h, i)
    <3> TAKE i \in k + 1..n + 1
    <3>1. h[i] = g[i] /\ g[i] = Step(g, i)
      BY <2>1, <2>2, <2>3
    <3>2. CASE i > n
      BY <3>1, <3>2
    <3>3. CASE ~(i > n)
      <4>1. \A mode \in Json!Mode : h[To(i, mode)] = g[To(i, mode)]
        BY <2>3, <2>5, <3>3
      <4> QED
        BY <3>1, <4>1
    <3> QED BY <3>2, <3>3
  <2>7. h[k] = Step(h, k)
    <3>1. \A mode \in Json!Mode : h[To(k, mode)] = g[To(k, mode)]
      BY <2>2, <2>3
    <3> QED
      BY <2>2, <2>3, <3>1
  <2> HIDE DEF Step
  <2>8. \A i \in k..n + 1 : h[i] = Step(h, i)
    BY <2>2, <2>6, <2>7
  <2>9. Part(m + 1, h)
    BY <2>2, <2>4, <2>8
  <2> HIDE DEF Part
  <2> QED
    BY <2>2, <2>9
<1>4. PICK g : Part(n + 1, g)
  <2> HIDE DEF S
  <2>1. n + 1 \in Nat /\ n + 1 \in 1..n + 1 /\ \A m \in 1..n + 1 : m < n + 1 /\ m \in S => m + 1 \in S
    BY <1>1, <1>3
  <2>2. 1..n + 1 \subseteq S
    BY <1>2, <2>1, UpTo
  <2> QED
    BY <2>1, <2>2 DEF S
<1>5. g = [i \in 1..n + 1 |-> Step(g, i)]
  <2>1. n + 2 - (n + 1) = 1
    BY <1>1
  <2> HIDE DEF Step
  <2> QED
    BY <1>4, <2>1
<1>6. from = [i \in 1..n + 1 |-> Step(from, i)]
  <2> HIDE DEF Step
  <2> QED
    BY <1>5
<1> HIDE DEF from
<1>8. /\ n + 1 \in 1..n + 1 /\ n + 1 > n
      /\ \A i \in 1..n : i \in 1..n + 1 /\ ~(i > n)
  BY <1>1
<1>9. /\ \A mode \in Json!Mode : from[n + 1][mode] = << >>
      /\ \A i \in 1..n : \A mode \in Json!Mode : from[i][mode] = Write(i, mode) \o from[To(i, mode)][In(i, mode)]
  <2>1. \A i \in 1..n + 1 : from[i] = Step(from, i)
    <3> HIDE DEF Step
    <3> QED
      BY <1>6
  <2>2. \A i \in 1..n + 1 : \A mode \in Json!Mode :
           from[i][mode] = IF i > n THEN << >> ELSE Write(i, mode) \o from[To(i, mode)][In(i, mode)]
    BY <2>1
  <2> QED
    BY <1>8, <2>2
<1> QED
  BY <1>9, <1>11, <1>12

(* What copies the characters of strings. *)
Quoting(text, turn) ==
    \A i \in 1..Len(text) : \A mode \in Json!Mode :
        mode # "outside" \/ text[i] = Json!QUOTE => turn[i][mode] = Json!Copied(text, i, mode)

LEMMA StringGoesOn ==
    ASSUME NEW T, NEW text \in Seq(T), NEW l \in Seq(T), NEW at \in Nat, Segment(text, l, at), Json!String(l),
           NEW turn, NEW from, Unrolled(from, Len(text), turn), Quoting(text, turn),
           from[(at + Len(l)) + 1]["outside"] \in Seq(T)
    PROVE  from[at + 1]["outside"] = l \o from[(at + Len(l)) + 1]["outside"]
<1> DEFINE modes == ModesOf(l)
           n == Len(l)
<1>1. /\ \A j \in 1..n + 1 : modes[j] \in Json!Mode
      /\ \A j \in 2..n : modes[j] # "outside"
      /\ modes[1] = "outside" /\ modes[n + 1] = "outside"
      /\ \A j \in 1..n : modes[j + 1] = Json!After(modes[j], l[j])
  BY StringModes
<1>2. \A j \in 1..n : at + j \in 1..Len(text) /\ text[at + j] = l[j]
  BY SegmentPlaces
<1>3. \A j \in 1..n : j \in 1..n + 1 /\ (j = 1 \/ j \in 2..n)
  <2>1. n \in Nat
    OBVIOUS
  <2> HIDE DEF n
  <2> QED
    BY <2>1
<1>4. l[1] = Json!QUOTE
  BY DEF Json!String
<1> HIDE DEF modes, n
<1>5. ASSUME NEW j \in 1..n
      PROVE  turn[at + j][modes[j]] = [write |-> <<l[j]>>, next |-> (at + j) + 1, mode |-> modes[j + 1]]
  <2>1. modes[j] \in Json!Mode /\ at + j \in 1..Len(text) /\ text[at + j] = l[j]
        /\ modes[j + 1] = Json!After(modes[j], l[j])
    BY <1>1, <1>2, <1>3
  <2>2. modes[j] # "outside" \/ text[at + j] = Json!QUOTE
    BY <1>1, <1>3, <1>4, <2>1, Zenon
  <2>3. turn[at + j][modes[j]] = Json!Copied(text, at + j, modes[j])
    BY <2>1, <2>2, Zenon DEF Quoting
  <2>4. Json!Copied(text, at + j, modes[j]) = [write |-> <<l[j]>>, next |-> (at + j) + 1, mode |-> modes[j + 1]]
    BY <2>1, Zenon DEF Json!Copied
  <2> QED
    BY <2>3, <2>4, Zenon
<1>6. Copies(turn, l, at, modes)
  BY <1>1, <1>5 DEF Copies, n
<1>7. from[(at + Len(l)) + 1][modes[Len(l) + 1]] \in Seq(T)
  BY <1>1, Zenon DEF n
<1>8. from[at + 1][modes[1]] = l \o from[(at + Len(l)) + 1][modes[Len(l) + 1]]
  BY <1>6, <1>7, PartIsCopied
<1> QED
  BY <1>1, <1>8, Zenon DEF n

LEMMA OneIsCopied ==
    ASSUME NEW T, NEW text \in Seq(T), NEW i \in 1..Len(text), text[i] # Json!QUOTE,
           NEW turn, NEW from, Unrolled(from, Len(text), turn),
           turn[i]["outside"] = Json!Copied(text, i, "outside")
    PROVE  from[i]["outside"] = <<text[i]>> \o from[i + 1]["outside"]
<1>1. Json!Copied(text, i, "outside") = [write |-> <<text[i]>>, next |-> i + 1, mode |-> "outside"]
  BY AfterIs, Zenon DEF Json!Copied
<1>2. "outside" \in Json!Mode
  BY DEF Json!Mode
<1> DEFINE t == turn[i]["outside"]
<1>3. from[i]["outside"] = t.write \o from[t.next][t.mode]
  BY <1>2 DEF Unrolled
<1>4. t = [write |-> <<text[i]>>, next |-> i + 1, mode |-> "outside"]
  BY <1>1, Zenon
<1> HIDE DEF t
<1>5. t.write = <<text[i]>> /\ t.next = i + 1 /\ t.mode = "outside"
  BY <1>4
<1> QED
  BY <1>3, <1>5

LEMMA OneIsSkipped ==
    ASSUME NEW T, NEW text \in Seq(T), NEW i \in 1..Len(text), NEW next,
           NEW turn, NEW from, Unrolled(from, Len(text), turn),
           turn[i]["outside"] = Json!Skipped(next), from[next]["outside"] \in Seq(T)
    PROVE  from[i]["outside"] = from[next]["outside"]
<1>1. "outside" \in Json!Mode
  BY DEF Json!Mode
<1> DEFINE t == turn[i]["outside"]
           more == from[next]["outside"]
<1>2. from[i]["outside"] = t.write \o from[t.next][t.mode]
  BY <1>1 DEF Unrolled
<1>3. t = [write |-> << >>, next |-> next, mode |-> "outside"]
  BY Zenon DEF Json!Skipped
<1> HIDE DEF t
<1>4. t.write = << >> /\ t.next = next /\ t.mode = "outside"
  BY <1>3
<1>5. more \in Seq(T)
  OBVIOUS
<1>6. from[i]["outside"] = << >> \o more
  BY <1>2, <1>4
<1> HIDE DEF more
<1>7. << >> \o more = more
  BY <1>5
<1> QED
  BY <1>6, <1>7 DEF more

LEMMA LeastIs ==
    ASSUME NEW S \in SUBSET Nat, NEW m \in S, \A k \in S : m <= k
    PROVE  Json!Min(S) = m
<1>1. \A k \in S : (\A j \in S : k <= j) => k = m
  OBVIOUS
<1> QED
  BY <1>1 DEF Json!Min

-----------------------------------------------------------------------------
(* The loop of stripJsonComments.                                          *)

StripTurns(text) == [i \in DOMAIN text |-> [mode \in Json!Mode |-> Json!StripTurn(text, i, mode)]]

LEMMA StripTurnIs ==
    ASSUME NEW text, NEW i
    PROVE  /\ Json!Opens(text, i, "/") => Json!StripTurn(text, i, "outside") = Json!Skipped(Json!LineEnd(text, i))
           /\ Json!Opens(text, i, "*") => Json!StripTurn(text, i, "outside") = Json!Skipped(Json!BlockEnd(text, i))
           /\ \A mode : mode # "outside" \/ (~Json!Opens(text, i, "/") /\ ~Json!Opens(text, i, "*"))
                 => Json!StripTurn(text, i, mode) = Json!Copied(text, i, mode)
<1>1. ~(Json!Opens(text, i, "/") /\ Json!Opens(text, i, "*"))
  BY DEF Json!Opens
<1> QED
  BY <1>1, Zenon DEF Json!StripTurn

LEMMA LeastOfSome ==
    ASSUME NEW S \in SUBSET Nat, S # {}
    PROVE  Json!Min(S) \in S
<1>1. \E n \in S : \A m \in S : n <= m
  BY LeastExists
<1> QED
  BY <1>1 DEF Json!Min

LEMMA EndIsAhead ==
    ASSUME NEW n \in Nat, NEW i \in 1..n, NEW S, S \subseteq i..n + 1, i \notin S, S # {}
    PROVE  Json!Min(S) \in i + 1..n + 1
<1>1. S \in SUBSET Nat
  OBVIOUS
<1> DEFINE m == Json!Min(S)
<1>2. m \in S
  BY <1>1, LeastOfSome
<1> HIDE DEF m
<1>3. m \in i..n + 1 /\ m # i
  BY <1>2
<1>4. m \in i + 1..n + 1
  BY <1>3
<1> QED
  BY <1>4 DEF m

LEMMA StripAdvances ==
    ASSUME NEW T, NEW text \in Seq(T), NEW i \in 1..Len(text), NEW mode \in Json!Mode
    PROVE  /\ Json!StripTurn(text, i, mode).next \in i + 1..Len(text) + 1
           /\ Json!StripTurn(text, i, mode).mode \in Json!Mode
<1> DEFINE n == Len(text)
           t == Json!StripTurn(text, i, mode)
           lines == {k \in i..n : text[k] = "\n"} \cup {n + 1}
           blocks == {k \in i + 4..n + 1 : text[k - 2] = "*" /\ text[k - 1] = "/"} \cup {n + 1}
<1>1. n \in Nat /\ i \in 1..n /\ i + 1 \in i + 1..n + 1 /\ "outside" \in Json!Mode
  BY DEF Json!Mode
<1>2. ASSUME NEW next, t = Json!Skipped(next)
      PROVE  t.next = next /\ t.mode = "outside"
  BY <1>2 DEF Json!Skipped
<1>3. ASSUME t = Json!Copied(text, i, mode)
      PROVE  t.next = i + 1 /\ t.mode \in Json!Mode
  <2>1. t = [write |-> <<text[i]>>, next |-> i + 1, mode |-> Json!After(mode, text[i])]
    BY <1>3, Zenon DEF Json!Copied
  <2> HIDE DEF t
  <2> QED
    BY <2>1, AfterIs
<1> HIDE DEF n, t
<1>4. CASE mode = "outside" /\ Json!Opens(text, i, "/")
  <2>1. t = Json!Skipped(Json!LineEnd(text, i))
    BY <1>4, StripTurnIs DEF t
  <2>2. i \notin lines
    <3>1. text[i] # "\n"
      BY <1>4 DEF Json!Opens
    <3>2. i # n + 1
      BY <1>1
    <3> QED
      BY <3>1, <3>2
  <2>3. lines \subseteq i..n + 1 /\ n + 1 \in lines
    <3>1. \A k \in i..n : k \in i..n + 1
      BY <1>1
    <3>2. n + 1 \in i..n + 1
      BY <1>1
    <3> QED
      BY <3>1, <3>2, Zenon
  <2> HIDE DEF lines
  <2>4. Json!Min(lines) \in i + 1..n + 1
    BY <1>1, <2>2, <2>3, EndIsAhead
  <2>5. Json!LineEnd(text, i) = Json!Min(lines)
    BY DEF Json!LineEnd, lines, n
  <2> QED
    BY <1>1, <1>2, <2>1, <2>4, <2>5, Zenon DEF t, n
<1>5. CASE mode = "outside" /\ Json!Opens(text, i, "*")
  <2>1. t = Json!Skipped(Json!BlockEnd(text, i))
    BY <1>5, StripTurnIs DEF t
  <2>2. i \notin blocks /\ blocks \subseteq i..n + 1 /\ n + 1 \in blocks
    <3>1. \A k \in i + 4..n + 1 : k \in i..n + 1 /\ k # i
      BY <1>1
    <3>2. i # n + 1 /\ n + 1 \in i..n + 1
      BY <1>1
    <3> QED
      BY <3>1, <3>2, Zenon
  <2> HIDE DEF blocks
  <2>4. Json!Min(blocks) \in i + 1..n + 1
    BY <1>1, <2>2, EndIsAhead
  <2>5. Json!BlockEnd(text, i) = Json!Min(blocks)
    BY DEF Json!BlockEnd, blocks, n
  <2> QED
    BY <1>1, <1>2, <2>1, <2>4, <2>5, Zenon DEF t, n
<1>6. CASE mode # "outside" \/ (~Json!Opens(text, i, "/") /\ ~Json!Opens(text, i, "*"))
  <2>1. t = Json!Copied(text, i, mode)
    BY <1>6, StripTurnIs, Zenon DEF t
  <2> QED
    BY <1>1, <1>3, <2>1, Zenon DEF t, n
<1> QED
  BY <1>4, <1>5, <1>6

(* What the loop writes for each lexeme. *)
LEMMA LineCommentGoesOn ==
    ASSUME NEW T, NEW text \in Seq(T), NEW l \in Seq(T), NEW at \in Nat, Segment(text, l, at), Json!LineComment(l),
           NEW from, Unrolled(from, Len(text), StripTurns(text)),
           from[(at + Len(l)) + 1]["outside"] \in Seq(T)
    PROVE  from[at + 1]["outside"] = <<"\n">> \o from[(at + Len(l)) + 1]["outside"]
<1> DEFINE n == Len(text)
           len == Len(l)
           i == at + 1
           S == {k \in i..n : text[k] = "\n"} \cup {n + 1}
           more == from[(at + len) + 1]["outside"]
<1>1. /\ n \in Nat /\ len \in Nat /\ at + len <= n
      /\ \A j \in 1..len : at + j \in 1..n /\ text[at + j] = l[j]
  BY SegmentPlaces
<1>2. len > 2 /\ l[1] = "/" /\ l[2] = "/"
  BY DEF Json!LineComment
<1>3. \A k \in 1..len : l[k] = "\n" <=> k = len
  <2>1. DOMAIN l = 1..len
    BY SegmentPlaces
  <2> QED
    BY <2>1, Zenon DEF Json!LineComment
<1>4. StripTurns(text)[i]["outside"] = Json!StripTurn(text, i, "outside")
      /\ StripTurns(text)[at + len]["outside"] = Json!StripTurn(text, at + len, "outside")
  <2>1. 1 \in 1..len /\ len \in 1..len /\ DOMAIN text = 1..n /\ "outside" \in Json!Mode
    BY <1>1, <1>2 DEF Json!Mode
  <2> QED
    BY <1>1, <2>1, Zenon DEF StripTurns
<1> HIDE DEF n, len
<1>5. /\ i \in 1..n /\ i < n /\ i + 1 = at + 2 /\ 1 \in 1..len /\ 2 \in 1..len /\ len \in 1..len
      /\ at + len \in 1..n /\ at + len \in i..n
  BY <1>1, <1>2
<1>6. Json!StripTurn(text, i, "outside") = Json!Skipped(Json!LineEnd(text, i))
  <2>1. text[i] = "/" /\ text[i + 1] = "/"
    BY <1>1, <1>2, <1>5
  <2>2. Json!Opens(text, i, "/")
    BY <1>5, <2>1, Zenon DEF Json!Opens, n
  <2> QED
    BY <2>2, StripTurnIs
<1> DEFINE e == at + len
<1>7. e \in 1..n /\ e \in i..n /\ len \in 1..len /\ \A j \in i..n : j < e => j - at \in 1..len /\ j - at # len /\ at + (j - at) = j
  BY <1>1, <1>5
<1>8. text[e] = "\n" /\ "\n" \in T
  <2>1. text[e] = "\n" /\ l[len] = "\n"
    BY <1>1, <1>3, <1>5, Zenon
  <2>2. l[len] \in T
    BY <1>5 DEF len
  <2> QED
    BY <2>1, <2>2, Zenon
<1>9. \A j \in i..n : j < e => text[j] # "\n"
  <2> TAKE j \in i..n
  <2> HAVE j < e
  <2> DEFINE k == j - at
  <2>1. k \in 1..len /\ k # len /\ at + k = j
    BY <1>7
  <2> HIDE DEF k
  <2> QED
    BY <1>1, <1>3, <2>1, Zenon
<1> HIDE DEF e
<1>10. Json!LineEnd(text, i) = e
  <2>1. S \in SUBSET Nat
    <3>1. i..n \subseteq Nat /\ n + 1 \in Nat
      BY <1>1, <1>5
    <3> QED
      BY <3>1, Zenon
  <2>2. e \in S
    BY <1>7, <1>8, Zenon
  <2>3. \A k \in S : e <= k
    <3> TAKE k \in S
    <3>1. CASE k = n + 1
      BY <1>1, <1>7, <3>1
    <3>2. CASE k \in i..n /\ ~(k < e)
      BY <1>7, <3>2
    <3> QED
      BY <1>9, <3>1, <3>2, Zenon
  <2> HIDE DEF S
  <2>4. Json!Min(S) = e
    BY <2>1, <2>2, <2>3, LeastIs
  <2> QED
    BY <2>4 DEF Json!LineEnd, S, n
<1>11. StripTurns(text)[e]["outside"] = Json!Copied(text, e, "outside")
  <2>1. "\n" # "/"
    OBVIOUS
  <2>2. ~Json!Opens(text, e, "/") /\ ~Json!Opens(text, e, "*")
    BY <1>8, <2>1, Zenon DEF Json!Opens
  <2> QED
    BY <1>4, <2>2, StripTurnIs, Zenon DEF e
<1>12. from[e]["outside"] = <<"\n">> \o more
  <2>1. text[e] # Json!QUOTE
    BY <1>8 DEF Json!QUOTE
  <2>2. e \in 1..Len(text)
    BY <1>7 DEF n
  <2>3. from[e]["outside"] = <<text[e]>> \o from[e + 1]["outside"]
    BY <1>11, <2>1, <2>2, OneIsCopied
  <2> QED
    BY <1>8, <2>3 DEF e
<1>13. from[e]["outside"] \in Seq(T)
  <2>1. <<"\n">> \in Seq(T)
    BY <1>8
  <2>2. more \in Seq(T)
    BY DEF len
  <2> HIDE DEF more
  <2> QED
    BY <1>12, <2>1, <2>2
<1>14. StripTurns(text)[i]["outside"] = Json!Skipped(e)
  BY <1>4, <1>6, <1>10
<1>15. i \in 1..Len(text)
  BY <1>5 DEF n
<1> HIDE DEF i
<1>16. from[i]["outside"] = from[e]["outside"]
  <2> DEFINE turn == StripTurns(text)
  <2>1. Unrolled(from, Len(text), turn) /\ turn[i]["outside"] = Json!Skipped(e)
    BY <1>14
  <2> HIDE DEF turn
  <2> QED
    <3>1. ASSUME NEW next, turn[i]["outside"] = Json!Skipped(next), from[next]["outside"] \in Seq(T)
          PROVE  from[i]["outside"] = from[next]["outside"]
      <4> HIDE DEF more
      <4> QED
        BY <1>15, <2>1, <3>1, OneIsSkipped
    <3> QED
      BY <1>13, <2>1, <3>1, Zenon
<1> QED
  BY <1>12, <1>16 DEF len, i

LEMMA BlockCommentGoesOn ==
    ASSUME NEW T, NEW text \in Seq(T), NEW l \in Seq(T), NEW at \in Nat, Segment(text, l, at), Json!BlockComment(l),
           NEW from, Unrolled(from, Len(text), StripTurns(text)),
           from[(at + Len(l)) + 1]["outside"] \in Seq(T)
    PROVE  from[at + 1]["outside"] = from[(at + Len(l)) + 1]["outside"]
<1> DEFINE n == Len(text)
           len == Len(l)
           i == at + 1
           next == (at + len) + 1
           S == {k \in i + 4..n + 1 : text[k - 2] = "*" /\ text[k - 1] = "/"} \cup {n + 1}
<1>1. /\ n \in Nat /\ len \in Nat /\ at + len <= n
      /\ \A j \in 1..len : at + j \in 1..n /\ text[at + j] = l[j]
  BY SegmentPlaces
<1>2. len > 3 /\ l[1] = "/" /\ l[2] = "*"
  BY DEF Json!BlockComment
<1>3. \A k \in 3..len - 1 : l[k] = "*" /\ l[k + 1] = "/" <=> k = len - 1
  BY Zenon DEF Json!BlockComment
<1>4. StripTurns(text)[i]["outside"] = Json!StripTurn(text, i, "outside")
  <2>1. 1 \in 1..len /\ DOMAIN text = 1..n /\ "outside" \in Json!Mode
    BY <1>1, <1>2 DEF Json!Mode
  <2> QED
    BY <1>1, <2>1, Zenon DEF StripTurns
<1> HIDE DEF n, len
<1>5. i \in 1..n /\ i < n /\ i + 1 = at + 2 /\ 1 \in 1..len /\ 2 \in 1..len
  BY <1>1, <1>2
<1>6. Json!StripTurn(text, i, "outside") = Json!Skipped(Json!BlockEnd(text, i))
  <2>1. text[i] = "/" /\ text[i + 1] = "*"
    BY <1>1, <1>2, <1>5
  <2>2. Json!Opens(text, i, "*")
    BY <1>5, <2>1, Zenon DEF Json!Opens, n
  <2> QED
    BY <2>2, StripTurnIs
<1>7. Json!BlockEnd(text, i) = next
  <2>1. S \in SUBSET Nat
    <3>1. i + 4..n + 1 \subseteq Nat /\ n + 1 \in Nat
      BY <1>1
    <3> QED
      BY <3>1, Zenon
  <2>2. /\ next \in i + 4..n + 1 /\ next - 2 = at + (len - 1) /\ next - 1 = at + len
        /\ len - 1 \in 3..len - 1 /\ (len - 1) + 1 = len /\ len - 1 \in 1..len /\ len \in 1..len
    BY <1>1, <1>2
  <2>3. text[next - 2] = "*" /\ text[next - 1] = "/"
    BY <1>1, <1>3, <2>2, Zenon
  <2>4. next \in S
    BY <2>2, <2>3, Zenon
  <2>5. ASSUME NEW k \in S PROVE next <= k
    <3>1. CASE k = n + 1
      BY <1>1, <3>1
    <3>2. CASE k \in i + 4..n + 1 /\ text[k - 2] = "*" /\ text[k - 1] = "/" /\ k < next
      <4> DEFINE j == (k - 2) - at
      <4>1. /\ j \in 3..len - 1 /\ j # len - 1 /\ k - 2 = at + j /\ k - 1 = at + (j + 1)
            /\ j \in 1..len /\ j + 1 \in 1..len
        BY <1>1, <3>2
      <4>2. l[j] = "*" /\ l[j + 1] = "/"
        BY <1>1, <3>2, <4>1, Zenon
      <4> QED
        BY <1>3, <4>1, <4>2, Zenon
    <3> QED
      <4>1. k \in Nat /\ next \in Nat
        BY <1>1, <2>1
      <4>2. k < next \/ next <= k
        BY <4>1
      <4> QED
        BY <3>1, <3>2, <4>2, Zenon
  <2> HIDE DEF S, next
  <2>6. Json!Min(S) = next
    BY <2>1, <2>4, <2>5, LeastIs
  <2> QED
    BY <2>6 DEF Json!BlockEnd, S, n
<1>8. StripTurns(text)[i]["outside"] = Json!Skipped(next)
  BY <1>4, <1>6, <1>7
<1>9. i \in 1..Len(text) /\ from[next]["outside"] \in Seq(T)
  BY <1>5 DEF n, len
<1> HIDE DEF i, next
<1>10. from[i]["outside"] = from[next]["outside"]
  BY <1>8, <1>9, OneIsSkipped
<1> QED
  BY <1>10 DEF i, next, len

(* Where the pieces of a text are. *)
PiecesAt(text, pieces, at) ==
    /\ at \in [1..Len(pieces) + 1 -> Nat]
    /\ at[1] = 0 /\ at[Len(pieces) + 1] = Len(text)
    /\ \A k \in 1..Len(pieces) : at[k + 1] = at[k] + Len(pieces[k]) /\ Segment(text, pieces[k], at[k])

LEMMA PiecesHavePlaces ==
    ASSUME NEW T, NEW pieces \in Seq(Seq(T))
    PROVE  /\ Command!FlattenSeq(pieces) \in Seq(T)
           /\ \E at : PiecesAt(Command!FlattenSeq(pieces), pieces, at)
<1> DEFINE text == Command!FlattenSeq(pieces)
<1>1. CASE Len(pieces) > 0
  BY <1>1, FlattenPlaces DEF PiecesAt
<1>2. CASE ~(Len(pieces) > 0)
  <2>1. pieces = << >> /\ Len(pieces) = 0
    BY <1>2
  <2>2. text = << >>
    BY <2>1, FlattenOfNone
  <2> DEFINE at == [k \in 1..1 |-> 0]
  <2> HIDE DEF text
  <2>3. at \in [1..1 -> Nat] /\ at[1] = 0 /\ Len(text) = 0
    BY <2>2
  <2> HIDE DEF at
  <2>4. PiecesAt(text, pieces, at)
    <3>1. Len(pieces) + 1 = 1 /\ \A k \in 1..Len(pieces) : FALSE
      BY <2>1
    <3> QED
      BY <2>3, <3>1, Zenon DEF PiecesAt
  <2> QED
    BY <2>4, FlattenedIs DEF text
<1> QED BY <1>1, <1>2

LEMMA PlacesGrow ==
    ASSUME NEW T, NEW pieces \in Seq(Seq(T)), NEW text, NEW at, PiecesAt(text, pieces, at),
           NEW a \in 1..Len(pieces) + 1, NEW b \in a..Len(pieces) + 1
    PROVE  at[a] <= at[b]
<1> DEFINE n == Len(pieces)
           S == {k \in 1..n + 1 : \A m \in k..n + 1 : at[k] <= at[m]}
<1>1. n \in Nat /\ at \in [1..n + 1 -> Nat] /\ \A k \in 1..n : Len(pieces[k]) \in Nat /\ at[k + 1] = at[k] + Len(pieces[k])
  <2>1. \A k \in 1..n : Len(pieces[k]) \in Nat
    <3>1. \A k \in 1..n : pieces[k] \in Seq(T)
      OBVIOUS
    <3> QED
      BY <3>1
  <2> QED
    BY <2>1 DEF PiecesAt
<1> HIDE DEF n
<1>2. n + 1 \in S
  <2>1. \A m \in n + 1..n + 1 : m = n + 1
    BY <1>1
  <2>2. n + 1 \in 1..n + 1 /\ at[n + 1] \in Nat
    BY <1>1
  <2> QED
    BY <2>1, <2>2
<1>3. ASSUME NEW k \in 1..n, \A j \in k + 1..n + 1 : j \in S
      PROVE  k \in S
  <2>1. k + 1 \in k + 1..n + 1 /\ k \in 1..n + 1 /\ k + 1 \in 1..n + 1
    BY <1>1
  <2>2. k + 1 \in S
    BY <1>3, <2>1
  <2>3. at[k] \in Nat /\ at[k + 1] \in Nat /\ at[k] <= at[k + 1]
    <3>1. at[k] \in Nat /\ at[k + 1] \in Nat
      BY <1>1, <2>1
    <3>2. Len(pieces[k]) \in Nat /\ at[k + 1] = at[k] + Len(pieces[k])
      BY <1>1
    <3> QED
      BY <3>1, <3>2
  <2>4. ASSUME NEW m \in k..n + 1 PROVE at[k] <= at[m]
    <3>1. at[m] \in Nat
      BY <1>1
    <3>2. CASE m = k
      BY <2>3, <3>2
    <3>3. CASE m # k
      <4>1. m \in k + 1..n + 1
        BY <1>1, <3>3
      <4>2. at[k + 1] <= at[m]
        BY <2>2, <4>1
      <4> QED
        BY <2>3, <3>1, <4>2
    <3> QED BY <3>2, <3>3
  <2> QED
    BY <2>1, <2>4
<1> HIDE DEF S
<1>4. \A k \in 1..n + 1 : k \in S
  <2>1. \A k \in 1..n : (\A j \in k + 1..n + 1 : j \in S) => k \in S
    BY <1>3
  <2> QED
    BY <1>1, <1>2, <2>1, DownToOne
<1> QED
  BY <1>4 DEF S, n

InAPiece(pieces, at, text, p) ==
    \E k \in 1..Len(pieces) : \E j \in 1..Len(pieces[k]) : p = at[k] + j /\ text[p] = pieces[k][j]

LEMMA PlaceIsInAPiece ==
    ASSUME NEW T, NEW pieces \in Seq(Seq(T)), NEW text, Len(text) \in Nat, NEW at, PiecesAt(text, pieces, at),
           NEW p \in 1..Len(text)
    PROVE  InAPiece(pieces, at, text, p)
<1> DEFINE n == Len(pieces)
           S == {k \in 1..n + 1 : p <= at[k]}
<1>1. n \in Nat /\ at \in [1..n + 1 -> Nat] /\ at[1] = 0 /\ at[n + 1] = Len(text)
  BY DEF PiecesAt
<1>2. \A k \in 1..n : Len(pieces[k]) \in Nat
  <2>1. \A k \in 1..n : pieces[k] \in Seq(T)
    OBVIOUS
  <2> QED
    BY <2>1
<1>3. \A k \in 1..n : at[k + 1] = at[k] + Len(pieces[k]) /\ \A j \in 1..Len(pieces[k]) : text[at[k] + j] = pieces[k][j]
  BY DEF PiecesAt, Segment
<1> HIDE DEF n
<1>4. S \in SUBSET Nat /\ n + 1 \in S /\ 1 \notin S
  BY <1>1
<1>5. PICK m \in S : \A x \in S : m <= x
  BY <1>4, LeastExists
<1> DEFINE k == m - 1
<1>6. m \in 1..n + 1 /\ p <= at[m] /\ m # 1
  BY <1>4, <1>5
<1>7. k \in 1..n /\ k + 1 = m /\ k \in 1..n + 1 /\ k < m
  BY <1>1, <1>6
<1> HIDE DEF k
<1>8. at[k] \in Nat /\ at[k] < p
  <2>1. k \notin S
    BY <1>5, <1>6, <1>7
  <2> QED
    BY <1>1, <1>7, <2>1
<1> DEFINE len == Len(pieces[k])
           j == p - at[k]
<1>9. len \in Nat /\ at[m] = at[k] + len
  BY <1>2, <1>3, <1>7
<1>10. \A i \in 1..len : text[at[k] + i] = pieces[k][i]
  BY <1>3, <1>7
<1> HIDE DEF len
<1>11. j \in 1..len /\ at[k] + j = p
  BY <1>6, <1>8, <1>9
<1> HIDE DEF j
<1> QED
  BY <1>7, <1>10, <1>11 DEF n, len, InAPiece

(* What a loop writes, piece by piece. *)
InPieces(from, outs, at, T) ==
    \A k \in 1..Len(outs) :
       from[at[k + 1] + 1]["outside"] \in Seq(T)
       => from[at[k] + 1]["outside"] = outs[k] \o from[at[k + 1] + 1]["outside"]

LEMMA LoopFlattens ==
    ASSUME NEW T, NEW text, NEW pieces, NEW outs \in Seq(Seq(T)), Len(outs) = Len(pieces),
           Len(text) \in Nat, NEW at, PiecesAt(text, pieces, at), NEW from,
           "outside" \in Json!Mode, from[Len(text) + 1]["outside"] = << >>,
           InPieces(from, outs, at, T)
    PROVE  from[1]["outside"] = Command!FlattenSeq(outs) /\ from[1]["outside"] \in Seq(T)
<1> DEFINE n == Len(outs)
           x == [k \in 1..n + 1 |-> from[at[k] + 1]["outside"]]
<1>1. n \in Nat /\ 1 \in 1..n + 1 /\ n + 1 \in 1..n + 1 /\ \A k \in 1..n : k \in 1..n + 1 /\ k + 1 \in 1..n + 1
  OBVIOUS
<1>2. x[1] = from[1]["outside"] /\ x[n + 1] = << >>
  <2>1. at[1] = 0 /\ at[n + 1] = Len(text)
    BY DEF PiecesAt
  <2>2. at[1] + 1 = 1
    BY <2>1
  <2>3. x[1] = from[at[1] + 1]["outside"] /\ x[n + 1] = from[at[n + 1] + 1]["outside"]
    BY <1>1
  <2> HIDE DEF x, n
  <2> QED
    BY <2>1, <2>2, <2>3
<1>3. \A k \in 1..n : x[k] = from[at[k] + 1]["outside"] /\ x[k + 1] = from[at[k + 1] + 1]["outside"]
  BY <1>1
<1> HIDE DEF x
<1>4. \A k \in 1..n : x[k + 1] \in Seq(T) => x[k] = outs[k] \o x[k + 1]
  BY <1>3 DEF InPieces
<1>5. x[1] = Command!FlattenSeq(outs) /\ x[1] \in Seq(T)
  BY <1>2, <1>4, FlattenFromTheEnd
<1> QED
  BY <1>2, <1>5

LEMMA AloneIs ==
    ASSUME NEW T, NEW l \in Seq(T), Len(l) = 1
    PROVE  l = <<l[1]>> /\ l[1] \in T
OBVIOUS

LEMMA StripTurnsAre ==
    ASSUME NEW T, NEW text \in Seq(T), NEW i \in 1..Len(text), NEW mode \in Json!Mode
    PROVE  StripTurns(text)[i][mode] = Json!StripTurn(text, i, mode)
<1>1. i \in DOMAIN text
  OBVIOUS
<1> QED
  BY <1>1, Zenon DEF StripTurns

LEMMA StripsQuote ==
    ASSUME NEW T, NEW text \in Seq(T)
    PROVE  Quoting(text, StripTurns(text))
<1> SUFFICES ASSUME NEW i \in 1..Len(text), NEW mode \in Json!Mode, mode # "outside" \/ text[i] = Json!QUOTE
             PROVE  StripTurns(text)[i][mode] = Json!Copied(text, i, mode)
  BY DEF Quoting
<1>1. StripTurns(text)[i][mode] = Json!StripTurn(text, i, mode)
  BY StripTurnsAre
<1>2. Json!QUOTE # "/"
  BY DEF Json!QUOTE
<1>3. mode # "outside" \/ (~Json!Opens(text, i, "/") /\ ~Json!Opens(text, i, "*"))
  BY <1>2, Zenon DEF Json!Opens
<1>4. Json!StripTurn(text, i, mode) = Json!Copied(text, i, mode)
  BY <1>3, StripTurnIs
<1> QED
  BY <1>1, <1>4

LEMMA StripsInTurn ==
    ASSUME NEW T, NEW text \in Seq(T)
    PROVE  \E from : Unrolled(from, Len(text), StripTurns(text)) /\ Json!StripComments(text) = from[1]["outside"]
<1> DEFINE n == Len(text)
           turn == StripTurns(text)
<1>1. n \in Nat /\ Json!StripComments(text) = Json!Loop(n, turn)
  BY DEF Json!StripComments, StripTurns
<1>2. ASSUME NEW i \in 1..n, NEW mode \in Json!Mode
      PROVE  turn[i][mode].next \in i + 1..n + 1 /\ turn[i][mode].mode \in Json!Mode
  BY StripTurnsAre, StripAdvances
<1> HIDE DEF n, turn
<1>3. \E from : Unrolled(from, n, turn) /\ Json!Loop(n, turn) = from[1]["outside"]
  BY <1>1, <1>2, LoopIs
<1> QED
  BY <1>1, <1>3 DEF n, turn

LEMMA PlainGoesOn ==
    ASSUME NEW T, NEW text \in Seq(T), NEW l \in Seq(T), NEW at \in Nat, Segment(text, l, at), Json!Plain(l),
           NEW turn, NEW from, Unrolled(from, Len(text), turn),
           turn[at + 1]["outside"] = Json!Copied(text, at + 1, "outside")
    PROVE  from[at + 1]["outside"] = l \o from[(at + Len(l)) + 1]["outside"]
<1> DEFINE i == at + 1
<1>1. Len(l) = 1 /\ l[1] # Json!QUOTE
  BY DEF Json!Plain
<1>2. i \in 1..Len(text) /\ text[i] = l[1] /\ (at + Len(l)) + 1 = i + 1
  <2>1. 1 \in 1..Len(l)
    BY <1>1
  <2>2. at + 1 \in 1..Len(text) /\ text[at + 1] = l[1]
    BY <2>1, SegmentPlaces
  <2> QED
    BY <1>1, <2>2
<1>3. turn[i]["outside"] = Json!Copied(text, i, "outside")
  OBVIOUS
<1> HIDE DEF i
<1>4. l = <<text[i]>> /\ text[i] # Json!QUOTE
  BY <1>1, <1>2, AloneIs
<1>5. from[i]["outside"] = <<text[i]>> \o from[i + 1]["outside"]
  BY <1>2, <1>3, <1>4, OneIsCopied
<1> QED
  BY <1>2, <1>4, <1>5 DEF i

LEMMA PlainIsCopied ==
    ASSUME NEW T, NEW text \in Seq(T), NEW l \in Seq(T), NEW at \in Nat, Segment(text, l, at), Json!Plain(l)
    PROVE  StripTurns(text)[at + 1]["outside"] = Json!Copied(text, at + 1, "outside")
<1> DEFINE i == at + 1
<1>1. Len(l) = 1 /\ l[1] # "/"
  BY DEF Json!Plain
<1>2. i \in 1..Len(text) /\ text[i] = l[1] /\ "outside" \in Json!Mode
  <2>1. 1 \in 1..Len(l)
    BY <1>1
  <2> QED
    BY <2>1, SegmentPlaces DEF Json!Mode
<1> HIDE DEF i
<1>4. ~Json!Opens(text, i, "/") /\ ~Json!Opens(text, i, "*")
  BY <1>1, <1>2, Zenon DEF Json!Opens
<1>5. StripTurns(text)[i]["outside"] = Json!StripTurn(text, i, "outside")
  BY <1>2, StripTurnsAre
<1>6. Json!StripTurn(text, i, "outside") = Json!Copied(text, i, "outside")
  BY <1>4, StripTurnIs
<1> QED
  BY <1>5, <1>6 DEF i

(* What is left of the lexemes without comments. *)
Stripped(l) == CASE Json!LineComment(l) -> <<"\n">>
                 [] Json!BlockComment(l) -> << >>
                 [] OTHER -> l

LEMMA StrippedIs ==
    ASSUME NEW T, "\n" \in T, NEW l \in Seq(T), Json!Lexeme(l)
    PROVE  /\ Stripped(l) \in Seq(T)
           /\ \/ Json!LineComment(l) /\ Stripped(l) = <<"\n">>
              \/ Json!BlockComment(l) /\ Stripped(l) = << >>
              \/ Json!String(l) /\ Stripped(l) = l
              \/ Json!Plain(l) /\ Stripped(l) = l
<1>1. ~(Json!LineComment(l) /\ Json!BlockComment(l))
  <2>1. Json!LineComment(l) => l[2] = "/"
    BY Zenon DEF Json!LineComment
  <2>2. Json!BlockComment(l) => l[2] = "*"
    BY Zenon DEF Json!BlockComment
  <2> QED
    BY <2>1, <2>2
<1>2. <<"\n">> \in Seq(T) /\ << >> \in Seq(T)
  OBVIOUS
<1>3. Json!LineComment(l) \/ Json!BlockComment(l) \/ Json!String(l) \/ Json!Plain(l)
  BY DEF Json!Lexeme, Json!Comment
<1>4. CASE Json!LineComment(l)
  BY <1>1, <1>2, <1>4, Zenon DEF Stripped
<1>5. CASE Json!BlockComment(l)
  BY <1>1, <1>2, <1>5, Zenon DEF Stripped
<1>6. CASE ~Json!LineComment(l) /\ ~Json!BlockComment(l)
  BY <1>3, <1>6, Zenon DEF Stripped
<1> QED
  BY <1>4, <1>5, <1>6

LEMMA LexemeGoesOn ==
    ASSUME NEW T, "\n" \in T, NEW text \in Seq(T), NEW l \in Seq(T), NEW at \in Nat, Segment(text, l, at), Json!Lexeme(l),
           NEW from, Unrolled(from, Len(text), StripTurns(text)),
           from[(at + Len(l)) + 1]["outside"] \in Seq(T)
    PROVE  from[at + 1]["outside"] = Stripped(l) \o from[(at + Len(l)) + 1]["outside"]
<1>1. CASE Json!LineComment(l) /\ Stripped(l) = <<"\n">>
  BY <1>1, LineCommentGoesOn
<1>2. CASE Json!BlockComment(l) /\ Stripped(l) = << >>
  <2> DEFINE more == from[(at + Len(l)) + 1]["outside"]
  <2>1. from[at + 1]["outside"] = more
    BY <1>2, BlockCommentGoesOn
  <2>2. more \in Seq(T)
    OBVIOUS
  <2> HIDE DEF more
  <2>3. << >> \o more = more
    BY <2>2
  <2> QED
    BY <1>2, <2>1, <2>3 DEF more
<1>3. CASE Json!String(l) /\ Stripped(l) = l
  <2>1. Quoting(text, StripTurns(text))
    BY StripsQuote
  <2> QED
    BY <1>3, <2>1, StringGoesOn
<1>4. CASE Json!Plain(l) /\ Stripped(l) = l
  <2> DEFINE turn == StripTurns(text)
  <2>1. turn[at + 1]["outside"] = Json!Copied(text, at + 1, "outside")
    BY <1>4, PlainIsCopied
  <2>2. Unrolled(from, Len(text), turn)
    OBVIOUS
  <2> HIDE DEF turn
  <2> QED
    BY <1>4, <2>1, <2>2, PlainGoesOn
<1> QED
  BY <1>1, <1>2, <1>3, <1>4, StrippedIs

LEMMA CommentsAreStripped ==
    ASSUME NEW T, "\n" \in T, NEW lexemes \in Seq(Seq(T)), \A k \in 1..Len(lexemes) : Json!Lexeme(lexemes[k])
    PROVE  LET d == [k \in 1..Len(lexemes) |-> Stripped(lexemes[k])] IN
           /\ d \in Seq(Seq(T)) /\ Len(d) = Len(lexemes)
           /\ Json!StripComments(Command!FlattenSeq(lexemes)) = Command!FlattenSeq(d)
<1> DEFINE n == Len(lexemes)
           d == [k \in 1..n |-> Stripped(lexemes[k])]
           text == Command!FlattenSeq(lexemes)
<1>1. n \in Nat /\ \A k \in 1..n : lexemes[k] \in Seq(T)
  OBVIOUS
<1>2. d \in Seq(Seq(T)) /\ Len(d) = n /\ \A k \in 1..n : d[k] = Stripped(lexemes[k])
  <2>1. \A k \in 1..n : Stripped(lexemes[k]) \in Seq(T)
    BY <1>1, StrippedIs
  <2>2. d \in [1..n -> Seq(T)]
    BY <2>1
  <2>3. \A k \in 1..n : d[k] = Stripped(lexemes[k])
    OBVIOUS
  <2> HIDE DEF d, n
  <2> QED
    BY <1>1, <2>2, <2>3, FunctionsAreSequences
<1> HIDE DEF d
<1>3. text \in Seq(T) /\ \E at : PiecesAt(text, lexemes, at)
  BY PiecesHavePlaces
<1> HIDE DEF text
<1>4. PICK at : PiecesAt(text, lexemes, at)
  BY <1>3
<1>5. PICK from : Unrolled(from, Len(text), StripTurns(text)) /\ Json!StripComments(text) = from[1]["outside"]
  BY <1>3, StripsInTurn
<1>6. Len(text) \in Nat /\ "outside" \in Json!Mode
  BY <1>3 DEF Json!Mode
<1>7. from[Len(text) + 1]["outside"] = << >>
  BY <1>5, <1>6 DEF Unrolled
<1>8. ASSUME NEW k \in 1..n, from[at[k + 1] + 1]["outside"] \in Seq(T)
      PROVE  from[at[k] + 1]["outside"] = d[k] \o from[at[k + 1] + 1]["outside"]
  <2> DEFINE l == lexemes[k]
             a == at[k]
  <2>1. l \in Seq(T) /\ Json!Lexeme(l) /\ d[k] = Stripped(l)
    BY <1>1, <1>2
  <2>2. a \in Nat /\ at[k + 1] = a + Len(l) /\ Segment(text, l, a)
    <3>1. k \in 1..n + 1
      BY <1>1
    <3> QED
      BY <1>4, <3>1 DEF PiecesAt
  <2>3. from[(a + Len(l)) + 1]["outside"] \in Seq(T)
    BY <1>8, <2>2
  <2> HIDE DEF l, a
  <2>4. from[a + 1]["outside"] = Stripped(l) \o from[(a + Len(l)) + 1]["outside"]
    BY <1>3, <1>5, <2>1, <2>2, <2>3, LexemeGoesOn
  <2> QED
    BY <2>1, <2>2, <2>4 DEF a
<1> HIDE DEF n
<1>9. from[1]["outside"] = Command!FlattenSeq(d)
  <2>1. Len(d) = Len(lexemes)
    BY <1>2 DEF n
  <2>2. InPieces(from, d, at, T)
    BY <1>2, <1>8 DEF InPieces
  <2> QED
    BY <1>2, <1>4, <1>6, <1>7, <2>1, <2>2, LoopFlattens
<1> QED
  BY <1>2, <1>5, <1>9 DEF d, text, n

-----------------------------------------------------------------------------
(* The loop of removeTrailingCommas.                                       *)

CommaTurns(text) == [i \in DOMAIN text |-> [mode \in Json!Mode |-> Json!CommaTurn(text, i, mode)]]

LEMMA CommaTurnsAre ==
    ASSUME NEW T, NEW text \in Seq(T), NEW i \in 1..Len(text), NEW mode \in Json!Mode
    PROVE  CommaTurns(text)[i][mode] = Json!CommaTurn(text, i, mode)
<1>1. i \in DOMAIN text
  OBVIOUS
<1> QED
  BY <1>1, Zenon DEF CommaTurns

LEMMA CommaTurnIs ==
    ASSUME NEW text, NEW i, NEW mode
    PROVE  /\ mode = "outside" /\ text[i] = "," /\ Json!ClosesNext(text, i)
                 => Json!CommaTurn(text, i, mode) = Json!Skipped(i + 1)
           /\ mode # "outside" \/ text[i] # "," \/ ~Json!ClosesNext(text, i)
                 => Json!CommaTurn(text, i, mode) = Json!Copied(text, i, mode)
BY Zenon DEF Json!CommaTurn

LEMMA CommasInTurn ==
    ASSUME NEW T, NEW text \in Seq(T)
    PROVE  \E from : Unrolled(from, Len(text), CommaTurns(text)) /\ Json!RemoveTrailingCommas(text) = from[1]["outside"]
<1> DEFINE n == Len(text)
           turn == CommaTurns(text)
<1>1. n \in Nat /\ Json!RemoveTrailingCommas(text) = Json!Loop(n, turn)
  BY DEF Json!RemoveTrailingCommas, CommaTurns
<1>2. ASSUME NEW i \in 1..n, NEW mode \in Json!Mode
      PROVE  turn[i][mode].next \in i + 1..n + 1 /\ turn[i][mode].mode \in Json!Mode
  <2> DEFINE t == turn[i][mode]
  <2>1. t = Json!Skipped(i + 1) \/ t = Json!Copied(text, i, mode)
    <3>1. t = Json!CommaTurn(text, i, mode)
      BY CommaTurnsAre
    <3> HIDE DEF t
    <3>2. (mode = "outside" /\ text[i] = "," /\ Json!ClosesNext(text, i))
          \/ mode # "outside" \/ text[i] # "," \/ ~Json!ClosesNext(text, i)
      BY Zenon
    <3> QED
      BY <3>1, <3>2, CommaTurnIs, Zenon
  <2>2. i + 1 \in i + 1..n + 1 /\ "outside" \in Json!Mode
    BY <1>1 DEF Json!Mode
  <2> HIDE DEF t, n
  <2>3. CASE t = Json!Skipped(i + 1)
    <3>1. t.next = i + 1 /\ t.mode = "outside"
      BY <2>3 DEF Json!Skipped
    <3> QED
      BY <2>2, <3>1 DEF t
  <2>4. CASE t = Json!Copied(text, i, mode)
    <3>1. t = [write |-> <<text[i]>>, next |-> i + 1, mode |-> Json!After(mode, text[i])]
      BY <2>4, Zenon DEF Json!Copied
    <3>2. t.next = i + 1 /\ t.mode \in Json!Mode
      BY <3>1, AfterIs
    <3> QED
      BY <2>2, <3>2 DEF t
  <2> QED
    BY <2>1, <2>3, <2>4
<1> HIDE DEF n, turn
<1>3. \E from : Unrolled(from, n, turn) /\ Json!Loop(n, turn) = from[1]["outside"]
  BY <1>1, <1>2, LoopIs
<1> QED
  BY <1>1, <1>3 DEF n, turn

LEMMA CommasQuote ==
    ASSUME NEW T, NEW text \in Seq(T)
    PROVE  Quoting(text, CommaTurns(text))
<1> SUFFICES ASSUME NEW i \in 1..Len(text), NEW mode \in Json!Mode, mode # "outside" \/ text[i] = Json!QUOTE
             PROVE  CommaTurns(text)[i][mode] = Json!Copied(text, i, mode)
  BY DEF Quoting
<1>1. CommaTurns(text)[i][mode] = Json!CommaTurn(text, i, mode)
  BY CommaTurnsAre
<1>2. mode # "outside" \/ text[i] # ","
  BY DEF Json!QUOTE
<1>3. Json!CommaTurn(text, i, mode) = Json!Copied(text, i, mode)
  BY <1>2, CommaTurnIs
<1> QED
  BY <1>1, <1>3

(* What stripped lexemes begin with. *)
LEMMA OfStripped ==
    ASSUME NEW T, "\n" \in T, NEW l \in Seq(T), Json!Lexeme(l)
    PROVE  /\ Json!Blank(l) => \A j \in 1..Len(Stripped(l)) : Stripped(l)[j] \in Json!Space
           /\ ~Json!Blank(l) => 1 \in 1..Len(Stripped(l)) /\ Stripped(l)[1] \notin Json!Space
           /\ \A j \in 1..Len(Stripped(l)) :
                 Stripped(l)[j] = "}" /\ (\A i \in 1..j - 1 : Stripped(l)[i] \in Json!Space) => l = <<"}">>
<1> DEFINE s == Stripped(l)
<1>1. "\n" \in Json!Space /\ "}" \notin Json!Space /\ Json!QUOTE \notin Json!Space /\ Json!QUOTE # "}" /\ "\n" # "}"
  BY DEF Json!Space, Json!QUOTE
<1>2. CASE Json!LineComment(l) /\ s = <<"\n">>
  <2>1. Json!Blank(l)
    BY <1>2 DEF Json!Blank, Json!Comment
  <2>2. s = <<"\n">>
    BY <1>2
  <2> HIDE DEF s
  <2>3. Len(s) = 1 /\ s[1] = "\n"
    BY <2>2
  <2>4. \A j \in 1..Len(s) : s[j] = "\n"
    BY <2>3
  <2> QED
    BY <1>1, <2>1, <2>4 DEF s
<1>3. CASE Json!BlockComment(l) /\ s = << >>
  <2>1. Json!Blank(l)
    BY <1>3 DEF Json!Blank, Json!Comment
  <2>2. s = << >>
    BY <1>3
  <2> HIDE DEF s
  <2>3. \A j \in 1..Len(s) : FALSE
    BY <2>2
  <2> QED
    BY <2>1, <2>3 DEF s
<1>4. CASE Json!String(l) /\ s = l
  <2>1. Len(l) > 1 /\ l[1] = Json!QUOTE
    BY <1>4 DEF Json!String
  <2>2. Len(l) \in Nat /\ 1 \in 1..Len(l)
    BY <2>1
  <2>3. ~Json!Blank(l)
    <3>1. ~Json!Comment(l)
      <4>1. Json!QUOTE # "/"
        BY DEF Json!QUOTE
      <4> QED
        BY <2>1, <4>1, Zenon DEF Json!Comment, Json!LineComment, Json!BlockComment
    <3>2. ~Json!Plain(l)
      BY <2>1, <2>2 DEF Json!Plain
    <3> QED
      BY <3>1, <3>2 DEF Json!Blank
  <2>4. ASSUME NEW j \in 1..Len(l), l[j] = "}", \A i \in 1..j - 1 : l[i] \in Json!Space
        PROVE  FALSE
    <3>1. j = 1 \/ 1 \in 1..j - 1
      BY <2>2
    <3> QED
      BY <1>1, <2>1, <2>4, <3>1, Zenon
  <2>5. s = l
    BY <1>4
  <2> HIDE DEF s
  <2> QED
    BY <1>1, <2>1, <2>2, <2>3, <2>4, <2>5, Zenon DEF s
<1>5. CASE Json!Plain(l) /\ s = l
  <2>1. Len(l) = 1 /\ l = <<l[1]>>
    BY <1>5, AloneIs DEF Json!Plain
  <2>2. \A j \in 1..Len(l) : j = 1
    BY <2>1
  <2>3. 1 \in 1..Len(l)
    BY <2>1
  <2>4. Json!Blank(l) <=> l[1] \in Json!Space
    <3>1. ~Json!Comment(l)
      BY <1>5, Zenon DEF Json!Plain, Json!Comment, Json!LineComment, Json!BlockComment
    <3> QED
      BY <1>5, <3>1 DEF Json!Blank
  <2>5. s = l
    BY <1>5
  <2> HIDE DEF s
  <2>6. l[1] = "}" => l = <<"}">>
    BY <2>1
  <2> QED
    BY <2>2, <2>3, <2>4, <2>5, <2>6, Zenon DEF s
<1> QED
  BY <1>2, <1>3, <1>4, <1>5, StrippedIs

(* A comma is removed if what closes is next.                              *)
PiecesOf(lexemes, d, T) ==
    /\ "\n" \in T
    /\ lexemes \in Seq(Seq(T)) /\ d \in Seq(Seq(T)) /\ Len(d) = Len(lexemes)
    /\ \A k \in 1..Len(lexemes) : Json!Lexeme(lexemes[k]) /\ d[k] = Stripped(lexemes[k])

(* Nothing but space and comments is before what closes. *)
Closing(lexemes, k) ==
    \E j \in k + 1..Len(lexemes) : lexemes[j] = <<"}">> /\ \A b \in k + 1..j - 1 : Json!Blank(lexemes[b])

LEMMA ClosesNextIs ==
    ASSUME NEW T, NEW lexemes, NEW d, PiecesOf(lexemes, d, T),
           NEW text \in Seq(T), NEW at, PiecesAt(text, d, at),
           NEW k \in 1..Len(lexemes), Len(d[k]) = 1
    PROVE  Json!ClosesNext(text, at[k] + 1) <=> Closing(lexemes, k)
<1> DEFINE n == Len(lexemes)
           i == at[k] + 1
           Space == Json!Space
<1>0. lexemes \in Seq(Seq(T)) /\ d \in Seq(Seq(T)) /\ Len(d) = n
  BY DEF PiecesOf
<1>1. n \in Nat /\ Len(text) \in Nat /\ k \in 1..n /\ \A b \in 1..n : lexemes[b] \in Seq(T) /\ d[b] \in Seq(T) /\ Len(d[b]) \in Nat
  <2>1. \A b \in 1..n : lexemes[b] \in Seq(T) /\ d[b] \in Seq(T)
    BY <1>0
  <2>2. \A b \in 1..n : Len(d[b]) \in Nat
    BY <2>1
  <2> QED
    BY <1>0, <2>1, <2>2
<1>2. "\n" \in T /\ \A b \in 1..n : d[b] = Stripped(lexemes[b]) /\ Json!Lexeme(lexemes[b])
  BY Zenon DEF PiecesOf
<1>3. /\ at \in [1..n + 1 -> Nat] /\ at[n + 1] = Len(text)
      /\ \A b \in 1..n : /\ at[b + 1] = at[b] + Len(d[b])
                         /\ \A j \in 1..Len(d[b]) : text[at[b] + j] = d[b][j]
  BY <1>0 DEF PiecesAt, Segment
<1>4. ASSUME NEW a \in 1..n + 1, NEW b \in a..n + 1
      PROVE  at[a] <= at[b]
  BY <1>0, <1>4, PlacesGrow
<1>5. ASSUME NEW p \in 1..Len(text)
      PROVE  \E b \in 1..n : \E j \in 1..Len(d[b]) : p = at[b] + j /\ text[p] = d[b][j]
  <2>1. InAPiece(d, at, text, p)
    BY <1>0, <1>1, PlaceIsInAPiece
  <2> QED
    BY <1>0, <2>1, Zenon DEF InAPiece
<1>6. ASSUME NEW b \in 1..n
      PROVE  /\ Json!Blank(lexemes[b]) => \A j \in 1..Len(d[b]) : d[b][j] \in Space
             /\ ~Json!Blank(lexemes[b]) => 1 \in 1..Len(d[b]) /\ d[b][1] \notin Space
             /\ \A j \in 1..Len(d[b]) :
                   d[b][j] = "}" /\ (\A c \in 1..j - 1 : d[b][c] \in Space) => lexemes[b] = <<"}">>
  BY <1>1, <1>2, OfStripped
<1>7. at[k] \in Nat /\ at[k + 1] = i /\ k + 1 \in 1..n + 1
  <2>1. k \in 1..n + 1 /\ k + 1 \in 1..n + 1
    BY <1>1
  <2>2. at[k] \in Nat /\ at[k + 1] = at[k] + 1
    BY <1>1, <1>3, <2>1
  <2> QED
    BY <2>1, <2>2
<1>8. Json!ClosesNext(text, i)
      <=> \E c \in i + 1..Len(text) : text[c] = "}" /\ \A j \in i + 1..c - 1 : text[j] \in Space
  BY Zenon DEF Json!ClosesNext
<1> HIDE DEF n, i, Space
<1>12. i \in Nat
  BY <1>7 DEF i
(* What is behind the comma is in the pieces behind it. *)
<1>10. ASSUME NEW b \in 1..n, NEW j \in 1..Len(d[b]), i < at[b] + j
       PROVE  b \in k + 1..n
  <2>1. CASE b <= k
    <3>1. k + 1 \in b + 1..n + 1 /\ b + 1 \in 1..n + 1
      BY <1>1, <2>1
    <3>2. at[b + 1] <= at[k + 1]
      BY <1>4, <3>1
    <3>3. at[b] \in Nat /\ Len(d[b]) \in Nat /\ at[b + 1] = at[b] + Len(d[b])
      <4>1. b \in 1..n + 1
        BY <1>1
      <4>2. at[b] \in Nat
        BY <1>3, <4>1
      <4>3. Len(d[b]) \in Nat
        BY <1>1
      <4>4. at[b + 1] = at[b] + Len(d[b])
        BY <1>3
      <4> QED
        BY <4>2, <4>3, <4>4
    <3>4. i < at[b] + j /\ at[k + 1] = i
      BY <1>7, <1>10
    <3> DEFINE len == Len(d[b])
               a == at[b]
    <3>5. j \in 1..len /\ a \in Nat /\ len \in Nat /\ a + len <= i /\ i < a + j
      BY <3>2, <3>3, <3>4
    <3> HIDE DEF len, a
    <3>6. FALSE
      BY <1>12, <3>5
    <3> QED
      BY <3>6
  <2> QED
    BY <1>1, <2>1
<1>11. \A b \in k + 1..n : /\ b \in 1..n /\ b \in 1..n + 1 /\ at[b] \in Nat /\ i <= at[b]
                           /\ Len(d[b]) \in Nat /\ at[b + 1] = at[b] + Len(d[b])
                           /\ at[b] + Len(d[b]) <= Len(text)
  <2> TAKE b \in k + 1..n
  <2>1. b \in 1..n /\ b \in 1..n + 1 /\ b \in k + 1..n + 1 /\ b + 1 \in 1..n + 1 /\ n + 1 \in b + 1..n + 1
    BY <1>1
  <2>2. i <= at[b] /\ at[b + 1] <= Len(text)
    BY <1>3, <1>4, <1>7, <2>1
  <2>3. at[b] \in Nat /\ Len(d[b]) \in Nat /\ at[b + 1] = at[b] + Len(d[b])
    BY <1>1, <1>3, <2>1
  <2> QED
    BY <2>1, <2>2, <2>3
<1>13. ASSUME NEW c \in i + 1..Len(text), text[c] = "}", \A j \in i + 1..c - 1 : text[j] \in Space
       PROVE  Closing(lexemes, k)
  <2>1. c \in 1..Len(text) /\ i < c
    BY <1>1, <1>12
  <2>0. PICK b \in 1..n : \E j \in 1..Len(d[b]) : c = at[b] + j /\ text[c] = d[b][j]
    BY <1>5, <2>1
  <2>2. PICK j \in 1..Len(d[b]) : c = at[b] + j /\ text[c] = d[b][j]
    BY <2>0
  <2>3. b \in k + 1..n
    BY <1>10, <2>1, <2>2
  <2>4. lexemes[b] = <<"}">>
    <3>1. ASSUME NEW m \in 1..j - 1 PROVE d[b][m] \in Space
      <4>1. at[b] \in Nat /\ i <= at[b] /\ Len(d[b]) \in Nat
        BY <1>11, <2>3
      <4>0. c = at[b] + j
        BY <2>2
      <4>2. m \in 1..Len(d[b]) /\ at[b] + m \in i + 1..c - 1
        <5> DEFINE len == Len(d[b])
                   a == at[b]
        <5>1. a \in Nat /\ i <= a /\ len \in Nat /\ c = a + j /\ j \in 1..len /\ m \in 1..j - 1
          BY <4>0, <4>1
        <5> HIDE DEF len, a
        <5>2. m \in 1..len /\ a + m \in i + 1..c - 1
          BY <1>12, <5>1
        <5> QED
          BY <5>2 DEF len, a
      <4>3. text[at[b] + m] = d[b][m]
        BY <1>3, <4>2
      <4>4. text[at[b] + m] \in Space
        BY <1>13, <4>2
      <4> QED
        BY <4>3, <4>4
    <3>2. d[b][j] = "}"
      BY <1>13, <2>2
    <3> QED
      BY <1>6, <3>1, <3>2
  <2>5. ASSUME NEW m \in k + 1..b - 1 PROVE Json!Blank(lexemes[m])
    <3>1. m \in k + 1..n /\ b \in m + 1..n + 1 /\ m + 1 \in 1..n + 1
      BY <1>1, <2>3
    <3>2. /\ m \in 1..n /\ at[m] \in Nat /\ i <= at[m] /\ Len(d[m]) \in Nat /\ at[m + 1] = at[m] + Len(d[m])
          /\ at[b] \in Nat /\ at[m + 1] <= at[b]
      BY <1>4, <1>11, <2>3, <3>1
    <3>3. SUFFICES ASSUME ~Json!Blank(lexemes[m]) PROVE FALSE
      OBVIOUS
    <3>4. 1 \in 1..Len(d[m]) /\ d[m][1] \notin Space
      BY <1>6, <3>2, <3>3
    <3>5. text[at[m] + 1] = d[m][1]
      BY <1>3, <3>2, <3>4
    <3>6. at[m] + 1 \in i + 1..c - 1
      <4>1. c = at[b] + j /\ Len(d[b]) \in Nat
        BY <1>11, <2>2, <2>3
      <4>2. 1 <= Len(d[m])
        BY <3>2, <3>4
      <4>3. at[m] + 1 <= at[b]
        BY <3>2, <4>2
      <4>4. at[b] <= c - 1
        BY <3>2, <4>1
      <4>5. i + 1 <= at[m] + 1 /\ at[m] + 1 <= c - 1
        BY <1>12, <3>2, <4>3, <4>4
      <4> QED
        BY <1>12, <3>2, <4>5
    <3> QED
      BY <1>13, <3>4, <3>5, <3>6
  <2> QED
    BY <2>3, <2>4, <2>5 DEF Closing, n
<1>14. ASSUME NEW j \in k + 1..n, lexemes[j] = <<"}">>, \A b \in k + 1..j - 1 : Json!Blank(lexemes[b])
       PROVE  Json!ClosesNext(text, i)
  <2> DEFINE c == at[j] + 1
  <2>1. /\ j \in 1..n /\ j \in 1..n + 1 /\ at[j] \in Nat /\ i <= at[j]
        /\ Len(d[j]) \in Nat /\ at[j + 1] = at[j] + Len(d[j]) /\ at[j] + Len(d[j]) <= Len(text)
    BY <1>11
  <2>2. d[j] = <<"}">>
    <3>1. Len(lexemes[j]) = 1
      BY <1>14
    <3>2. ~Json!LineComment(lexemes[j]) /\ ~Json!BlockComment(lexemes[j])
      BY <3>1 DEF Json!LineComment, Json!BlockComment
    <3> QED
      BY <1>2, <1>14, <2>1, <3>2, Zenon DEF Stripped
  <2>3. Len(d[j]) = 1 /\ d[j][1] = "}" /\ 1 \in 1..Len(d[j])
    <3>1. Len(<<"}">>) = 1 /\ <<"}">>[1] = "}"
      OBVIOUS
    <3>2. 1 \in 1..1
      OBVIOUS
    <3> QED
      BY <2>2, <3>1, <3>2, Zenon
  <2>4. c \in i + 1..Len(text)
    <3>1. Len(d[j]) = 1
      BY <2>3
    <3> QED
      BY <1>1, <1>12, <2>1, <3>1
  <2>5. text[c] = "}"
    BY <1>3, <2>1, <2>3
  <2>6. ASSUME NEW p \in i + 1..c - 1 PROVE text[p] \in Space
    <3>1. p \in 1..Len(text) /\ i < p /\ p <= at[j]
      BY <1>1, <1>12, <2>1, <2>4
    <3>0. PICK b \in 1..n : \E q \in 1..Len(d[b]) : p = at[b] + q /\ text[p] = d[b][q]
      BY <1>5, <3>1
    <3>2. PICK q \in 1..Len(d[b]) : p = at[b] + q /\ text[p] = d[b][q]
      BY <3>0
    <3>3. b \in k + 1..n
      BY <1>10, <3>1, <3>2
    <3>4. b < j
      <4>1. CASE ~(b < j)
        <5>1. b \in j..n + 1
          BY <1>1, <3>3, <4>1
        <5>2. at[j] <= at[b] /\ at[b] \in Nat
          BY <1>4, <1>11, <2>1, <3>3, <5>1
        <5> QED
          BY <2>1, <3>1, <3>2, <5>2
      <4> QED BY <4>1
    <3>5. b \in k + 1..j - 1
      BY <3>3, <3>4
    <3> QED
      BY <1>6, <1>14, <3>2, <3>5
  <2> HIDE DEF c
  <2> QED
    BY <1>8, <2>4, <2>5, <2>6
<1> QED
  BY <1>8, <1>13, <1>14 DEF i, n, Closing

LEMMA CommaTurned ==
    ASSUME NEW T, NEW text \in Seq(T), NEW i \in 1..Len(text)
    PROVE  /\ text[i] = "," /\ Json!ClosesNext(text, i) => CommaTurns(text)[i]["outside"] = Json!Skipped(i + 1)
           /\ ~(text[i] = "," /\ Json!ClosesNext(text, i))
                 => CommaTurns(text)[i]["outside"] = Json!Copied(text, i, "outside")
<1>1. "outside" \in Json!Mode
  BY DEF Json!Mode
<1>2. CommaTurns(text)[i]["outside"] = Json!CommaTurn(text, i, "outside")
  BY <1>1, CommaTurnsAre
<1> QED
  BY <1>2, CommaTurnIs, Zenon

LEMMA PlainLineEnd == Json!Plain(<<"\n">>) /\ Len(<<",">>) = 1 /\ <<",">>[1] = ","
BY DEF Json!Plain, Json!QUOTE

LEMMA OneSegment ==
    ASSUME NEW T, NEW text \in Seq(T), NEW part \in Seq(T), NEW at \in Nat, Segment(text, part, at), Len(part) = 1
    PROVE  at + 1 \in 1..Len(text) /\ text[at + 1] = part[1]
<1>1. 1 \in 1..Len(part) /\ Len(text) \in Nat
  OBVIOUS
<1>2. at + Len(part) <= Len(text) /\ \A i \in 1..Len(part) : text[at + i] = part[i]
  BY DEF Segment
<1> QED
  BY <1>1, <1>2

LEMMA NextIsSkippedTo ==
    ASSUME NEW T, NEW text \in Seq(T), NEW turn, NEW from, Unrolled(from, Len(text), turn),
           NEW i \in 1..Len(text), turn[i]["outside"] = Json!Skipped(i + 1), from[i + 1]["outside"] \in Seq(T)
    PROVE  from[i]["outside"] = from[i + 1]["outside"]
<1>1. "outside" \in Json!Mode
  BY DEF Json!Mode
<1> DEFINE t == turn[i]["outside"]
           next == i + 1
           more == from[next]["outside"]
<1>2. from[i]["outside"] = t.write \o from[t.next][t.mode]
  BY <1>1 DEF Unrolled
<1>3. t = [write |-> << >>, next |-> next, mode |-> "outside"]
  BY Zenon DEF Json!Skipped
<1>4. more \in Seq(T)
  OBVIOUS
<1> HIDE DEF t, next, more
<1>5. t.write = << >> /\ t.next = next /\ t.mode = "outside"
  BY <1>3
<1>6. from[i]["outside"] = << >> \o more
  BY <1>2, <1>5 DEF more
<1>7. << >> \o more = more
  BY <1>4
<1> QED
  BY <1>6, <1>7 DEF more, next

Kept(lexemes, k) == IF Json!Trailing(lexemes, k) THEN << >> ELSE Stripped(lexemes[k])

LEMMA PieceGoesOn ==
    ASSUME NEW T, NEW lexemes, NEW d, PiecesOf(lexemes, d, T),
           NEW text \in Seq(T), NEW at, PiecesAt(text, d, at),
           NEW from, Unrolled(from, Len(text), CommaTurns(text)),
           NEW k \in 1..Len(lexemes), from[at[k + 1] + 1]["outside"] \in Seq(T)
    PROVE  from[at[k] + 1]["outside"] = Kept(lexemes, k) \o from[at[k + 1] + 1]["outside"]
<1> DEFINE a == at[k]
           l == d[k]
           i == a + 1
           more == from[at[k + 1] + 1]["outside"]
           turn == CommaTurns(text)
<1>1. l \in Seq(T) /\ lexemes[k] \in Seq(T) /\ Len(d) = Len(lexemes)
  BY DEF PiecesOf
<1>2. l = Stripped(lexemes[k]) /\ Json!Lexeme(lexemes[k]) /\ "\n" \in T
  BY Zenon DEF PiecesOf
<1>3. a \in Nat /\ at[k + 1] = a + Len(l) /\ Segment(text, l, a)
  <2>1. k \in 1..Len(d) /\ k \in 1..Len(d) + 1
    BY <1>1
  <2> QED
    BY <2>1 DEF PiecesAt
<1>4. more \in Seq(T) /\ more = from[(a + Len(l)) + 1]["outside"]
  BY <1>3
<1>5. Unrolled(from, Len(text), turn)
  OBVIOUS
<1>6. << >> \o more = more
  <2>1. more \in Seq(T)
    BY <1>4
  <2> HIDE DEF more
  <2> QED
    BY <2>1
<1>7. \/ Json!LineComment(lexemes[k]) /\ l = <<"\n">>
      \/ Json!BlockComment(lexemes[k]) /\ l = << >>
      \/ Json!String(lexemes[k]) /\ l = lexemes[k]
      \/ Json!Plain(lexemes[k]) /\ l = lexemes[k]
  BY <1>1, <1>2, StrippedIs
<1>8. Len(l) = 1 => i \in 1..Len(text) /\ text[i] = l[1] /\ at[k + 1] + 1 = i + 1
  <2> SUFFICES ASSUME Len(l) = 1 PROVE i \in 1..Len(text) /\ text[i] = l[1] /\ at[k + 1] + 1 = i + 1
    OBVIOUS
  <2>1. 1 \in 1..Len(l)
    OBVIOUS
  <2>2. i \in 1..Len(text) /\ text[i] = l[1]
    <3> HIDE DEF a, l
    <3>1. a + 1 \in 1..Len(text) /\ text[a + 1] = l[1]
      BY <1>1, <1>3, OneSegment
    <3> QED
      BY <3>1
  <2>3. at[k + 1] = a + 1
    BY <1>3
  <2> QED
    BY <2>2, <2>3
<1>9. Len(l) = 1 /\ lexemes[k] = <<",">> => (Json!ClosesNext(text, i) <=> Json!Trailing(lexemes, k))
  <2>1. Len(l) = 1 => (Json!ClosesNext(text, i) <=> Closing(lexemes, k))
    BY ClosesNextIs
  <2> HIDE DEF l, i
  <2> QED
    BY <2>1, Zenon DEF Json!Trailing, Closing
<1>10. i = a + 1 /\ Kept(lexemes, k) = IF Json!Trailing(lexemes, k) THEN << >> ELSE l
  BY <1>2 DEF Kept
<1> HIDE DEF a, l, i, more, turn
<1>11. CASE Json!Trailing(lexemes, k)
  <2>1. lexemes[k] = <<",">>
    BY <1>11, Zenon DEF Json!Trailing
  <2>2. Len(lexemes[k]) = 1 /\ lexemes[k][1] = ","
    BY <2>1, PlainLineEnd, Zenon
  <2>3. ~Json!LineComment(lexemes[k]) /\ ~Json!BlockComment(lexemes[k])
    BY <2>2 DEF Json!LineComment, Json!BlockComment
  <2>4. l = lexemes[k]
    BY <1>7, <2>3
  <2>5. i \in 1..Len(text) /\ text[i] = "," /\ Json!ClosesNext(text, i) /\ at[k + 1] + 1 = i + 1
    BY <1>8, <1>9, <1>11, <2>1, <2>2, <2>4, Zenon
  <2>7. from[i + 1]["outside"] \in Seq(T) /\ from[i + 1]["outside"] = more
    BY <1>4, <2>5 DEF more
  <2>8. from[i]["outside"] = from[i + 1]["outside"]
    <3>1. turn[i]["outside"] = Json!Skipped(i + 1)
      BY <2>5, CommaTurned DEF turn
    <3>2. i \in 1..Len(text)
      BY <2>5
    <3> QED
      BY <1>5, <2>7, <3>1, <3>2, NextIsSkippedTo
  <2> QED
    BY <1>6, <1>10, <1>11, <2>7, <2>8, Zenon DEF more, i, a
<1>12. CASE ~Json!Trailing(lexemes, k)
  <2>1. SUFFICES from[i]["outside"] = l \o more
    BY <1>10, <1>12, Zenon DEF i, a, more
  <2>2. CASE l = << >>
    <3>1. at[k + 1] = a
      <4>1. Len(l) = 0
        BY <2>2
      <4> QED
        BY <1>3, <4>1
    <3>2. from[i]["outside"] = more
      BY <3>1 DEF i, more
    <3> QED
      BY <1>6, <2>2, <3>2, Zenon
  <2>3. CASE Json!String(lexemes[k]) /\ l = lexemes[k]
    <3>1. Quoting(text, turn)
      BY CommasQuote DEF turn
    <3>2. Json!String(l)
      BY <2>3
    <3>3. from[(a + Len(l)) + 1]["outside"] \in Seq(T)
      BY <1>4
    <3>4. from[a + 1]["outside"] = l \o from[(a + Len(l)) + 1]["outside"]
      BY <1>1, <1>3, <1>5, <3>1, <3>2, <3>3, StringGoesOn
    <3> QED
      BY <1>4, <1>10, <3>4
  <2>4. CASE Json!Plain(l) /\ (l = <<"\n">> \/ l = lexemes[k])
    <3>1. Len(l) = 1
      BY <2>4 DEF Json!Plain
    <3>2. ~(text[i] = "," /\ Json!ClosesNext(text, i))
      <4> SUFFICES ASSUME text[i] = "," PROVE ~Json!ClosesNext(text, i)
        OBVIOUS
      <4>1. l[1] = "," /\ l = <<l[1]>>
        BY <1>1, <1>8, <3>1, AloneIs
      <4>2. l # <<"\n">>
        <5>1. <<"\n">>[1] = "\n"
          OBVIOUS
        <5> QED
          BY <4>1, <5>1
      <4>3. lexemes[k] = <<",">>
        BY <2>4, <4>1, <4>2, Zenon
      <4> QED
        BY <1>9, <1>12, <3>1, <4>3
    <3>3. turn[a + 1]["outside"] = Json!Copied(text, a + 1, "outside")
      BY <1>8, <1>10, <3>1, <3>2, CommaTurned DEF turn
    <3>4. from[a + 1]["outside"] = l \o from[(a + Len(l)) + 1]["outside"]
      BY <1>1, <1>3, <1>5, <2>4, <3>3, PlainGoesOn
    <3> QED
      BY <1>4, <1>10, <3>4
  <2> QED
    BY <1>7, <2>2, <2>3, <2>4, PlainLineEnd, Zenon
<1> QED
  BY <1>11, <1>12

LEMMA MeaningIs ==
    ASSUME NEW lexemes, NEW k \in DOMAIN lexemes, ~(Json!LineComment(lexemes[k]) /\ Json!Trailing(lexemes, k))
    PROVE  (CASE Json!LineComment(lexemes[k]) -> <<"\n">>
              [] Json!BlockComment(lexemes[k]) \/ Json!Trailing(lexemes, k) -> << >>
              [] OTHER -> lexemes[k])
           = Kept(lexemes, k)
<1>1. ~(Json!LineComment(lexemes[k]) /\ Json!BlockComment(lexemes[k]))
  <2>1. Json!LineComment(lexemes[k]) => lexemes[k][2] = "/"
    BY Zenon DEF Json!LineComment
  <2>2. Json!BlockComment(lexemes[k]) => lexemes[k][2] = "*"
    BY Zenon DEF Json!BlockComment
  <2> QED
    BY <2>1, <2>2
<1>2. CASE Json!Trailing(lexemes, k)
  BY <1>2, Zenon DEF Stripped, Kept
<1>3. CASE ~Json!Trailing(lexemes, k)
  BY <1>1, <1>3, Zenon DEF Stripped, Kept
<1> QED
  BY <1>2, <1>3

(* Any text of strings, comments and other characters is stripped to what  *)
(* it means: comments and trailing commas go, and nothing inside a string  *)
(* does (jsonc.ts 5-71).                                                   *)
THEOREM TextsAreStripped ==
    ASSUME NEW T, NEW lexemes \in Seq(Seq(T)), \A k \in DOMAIN lexemes : Json!Lexeme(lexemes[k])
    PROVE  Json!StripsToTheMeaning(lexemes)
<1> DEFINE U == T \cup {"\n"}
           n == Len(lexemes)
           d == [k \in 1..n |-> Stripped(lexemes[k])]
           outs == [k \in 1..n |-> Kept(lexemes, k)]
           text == Command!FlattenSeq(d)
<1>1. n \in Nat /\ DOMAIN lexemes = 1..n /\ lexemes \in Seq(Seq(U)) /\ "\n" \in U
  <2>1. Seq(T) \subseteq Seq(U)
    OBVIOUS
  <2>2. lexemes \in [1..n -> Seq(T)] /\ n \in Nat /\ DOMAIN lexemes = 1..n
    OBVIOUS
  <2> HIDE DEF U, n
  <2>3. lexemes \in [1..n -> Seq(U)]
    BY <2>1, <2>2
  <2>4. lexemes \in Seq(Seq(U))
    BY <2>2, <2>3, FunctionsAreSequences
  <2>5. "\n" \in U
    BY DEF U
  <2> QED
    BY <2>2, <2>4, <2>5
<1>2. \A k \in 1..n : Json!Lexeme(lexemes[k])
  BY <1>1
<1> HIDE DEF U
<1>3. d \in Seq(Seq(U)) /\ Len(d) = n /\ Json!StripComments(Command!FlattenSeq(lexemes)) = text
  BY <1>1, <1>2, CommentsAreStripped
<1>4. \A k \in 1..n : d[k] = Stripped(lexemes[k])
  OBVIOUS
<1> HIDE DEF d
<1>5. text \in Seq(U) /\ \E at : PiecesAt(text, d, at)
  BY <1>3, PiecesHavePlaces
<1> HIDE DEF text
<1>6. PICK at : PiecesAt(text, d, at)
  BY <1>5
<1>7. PICK from : Unrolled(from, Len(text), CommaTurns(text)) /\ Json!RemoveTrailingCommas(text) = from[1]["outside"]
  BY <1>5, CommasInTurn
<1>8. PiecesOf(lexemes, d, U)
  BY <1>1, <1>2, <1>3, <1>4 DEF PiecesOf
<1>9. outs \in Seq(Seq(U)) /\ Len(outs) = n /\ \A k \in 1..n : outs[k] = Kept(lexemes, k)
  <2>1. \A k \in 1..n : Kept(lexemes, k) \in Seq(U)
    <3> TAKE k \in 1..n
    <3>1. d[k] \in Seq(U) /\ << >> \in Seq(U)
      BY <1>3
    <3> QED
      BY <1>4, <3>1, Zenon DEF Kept
  <2>2. outs \in [1..n -> Seq(U)]
    BY <2>1
  <2>3. \A k \in 1..n : outs[k] = Kept(lexemes, k)
    OBVIOUS
  <2> HIDE DEF outs, n
  <2> QED
    BY <1>1, <2>2, <2>3, FunctionsAreSequences
<1> HIDE DEF outs
<1>10. InPieces(from, outs, at, U)
  <2> SUFFICES ASSUME NEW k \in 1..n, from[at[k + 1] + 1]["outside"] \in Seq(U)
               PROVE  from[at[k] + 1]["outside"] = outs[k] \o from[at[k + 1] + 1]["outside"]
    BY <1>9 DEF InPieces
  <2>1. from[at[k] + 1]["outside"]
        = Kept(lexemes, k) \o from[at[k + 1] + 1]["outside"]
    BY <1>5, <1>6, <1>7, <1>8, PieceGoesOn
  <2> QED
    BY <1>9, <2>1
<1>11. from[1]["outside"] = Command!FlattenSeq(outs)
  <2>1. Len(text) \in Nat /\ "outside" \in Json!Mode /\ Len(outs) = Len(d)
    BY <1>3, <1>5, <1>9 DEF Json!Mode
  <2>2. from[Len(text) + 1]["outside"] = << >>
    BY <1>7, <2>1 DEF Unrolled
  <2> HIDE DEF n
  <2> QED
    BY <1>6, <1>9, <1>10, <2>1, <2>2, LoopFlattens
<1>12. Json!StripJsonComments(Json!FlattenSeq(lexemes)) = Command!FlattenSeq(outs)
  <2>1. Json!FlattenSeq(lexemes) = Command!FlattenSeq(lexemes)
    BY DEF Json!FlattenSeq, Command!FlattenSeq
  <2> QED
    BY <1>3, <1>7, <1>11, <2>1 DEF Json!StripJsonComments
<1>13. Json!Meaning(lexemes) = Command!FlattenSeq(outs)
  <2>1. ASSUME NEW k \in 1..n
        PROVE  (CASE Json!LineComment(lexemes[k]) -> <<"\n">>
                  [] Json!BlockComment(lexemes[k]) \/ Json!Trailing(lexemes, k) -> << >>
                  [] OTHER -> lexemes[k])
               = Kept(lexemes, k)
    <3>1. ~(Json!LineComment(lexemes[k]) /\ Json!Trailing(lexemes, k))
      <4>1. Json!Trailing(lexemes, k) => Len(lexemes[k]) = 1
        BY PlainLineEnd, Zenon DEF Json!Trailing
      <4> QED
        BY <4>1 DEF Json!LineComment
    <3> QED
      BY <1>1, <1>4, <3>1, MeaningIs
  <2>2. outs = [k \in DOMAIN lexemes |->
                   CASE Json!LineComment(lexemes[k]) -> <<"\n">>
                     [] Json!BlockComment(lexemes[k]) \/ Json!Trailing(lexemes, k) -> << >>
                     [] OTHER -> lexemes[k]]
    <3> HIDE DEF n
    <3> QED
      BY <1>1, <2>1, Zenon DEF outs
  <2>3. Json!FlattenSeq(outs) = Command!FlattenSeq(outs)
    BY DEF Json!FlattenSeq, Command!FlattenSeq
  <2> QED
    BY <2>2, <2>3, Zenon DEF Json!Meaning
<1> QED
  BY <1>12, <1>13 DEF Json!StripsToTheMeaning

-----------------------------------------------------------------------------
(* What is given as JSON are texts of such lexemes.                        *)

LEMMA NotEscaped ==
    ASSUME NEW l, NEW k \in Nat, k > 1, l[k - 1] # "\\"
    PROVE  ~Json!IsEscaped(l, k)
<1> SUFFICES ASSUME NEW j \in 1..k - 1, (k - j) % 2 = 0, \A b \in j + 1..k - 1 : l[b] = "\\"
             PROVE  FALSE
  BY Zenon DEF Json!IsEscaped
<1>1. j = k - 1 \/ k - 1 \in j + 1..k - 1
  OBVIOUS
<1>2. j # k - 1
  <2>1. j = k - 1 => k - j = 1
    OBVIOUS
  <2> QED
    BY <2>1, Parity
<1> QED
  BY <1>1, <1>2

LEMMA NotEscapedByTwo ==
    ASSUME NEW l, NEW k \in Nat, k > 3, l[k - 1] = "\\", l[k - 2] = "\\", l[k - 3] # "\\"
    PROVE  ~Json!IsEscaped(l, k)
<1> SUFFICES ASSUME NEW j \in 1..k - 1, l[j] # "\\", (k - j) % 2 = 0, \A b \in j + 1..k - 1 : l[b] = "\\"
             PROVE  FALSE
  BY Zenon DEF Json!IsEscaped
<1>1. j = k - 1 \/ j = k - 2 \/ j = k - 3 \/ k - 3 \in j + 1..k - 1
  OBVIOUS
<1>2. j # k - 3
  <2>1. j = k - 3 => k - j = 2 + 1
    OBVIOUS
  <2>2. 2 \in Nat /\ 2 = 1 + 1 /\ 1 \in Nat
    OBVIOUS
  <2> QED
    BY <2>1, <2>2, Parity
<1> QED
  BY <1>1, <1>2

LEMMA FiveAre ==
    ASSUME NEW T, NEW a \in T, NEW b \in T, NEW c \in T, NEW d \in T, NEW e \in T
    PROVE  /\ <<a, b, c, d, e>> \in Seq(T) /\ Len(<<a, b, c, d, e>>) = 5
           /\ DOMAIN <<a, b, c, d, e>> = 1..5
OBVIOUS

LEMMA StringIs ==
    ASSUME NEW l, NEW n \in Nat, n > 1, Len(l) = n, l[1] = Json!QUOTE, l[n] = Json!QUOTE, ~Json!IsEscaped(l, n),
           \A k \in 2..n - 1 : l[k] # Json!QUOTE \/ Json!IsEscaped(l, k)
    PROVE  Json!String(l)
<1>1. \A k \in 2..n : k = n \/ k \in 2..n - 1
  OBVIOUS
<1>2. \A k \in 2..n - 1 : k # n
  OBVIOUS
<1>3. \A k \in 2..n : l[k] = Json!QUOTE /\ ~Json!IsEscaped(l, k) <=> k = n
  BY <1>1, <1>2, Zenon
<1> QED
  BY <1>3, Zenon DEF Json!String

LEMMA CommentsAreComments ==
    /\ Json!LineComment(<<"/", "/", ",", Json!QUOTE, "\n">>)
    /\ Json!BlockComment(<<"/", "*", "*", "}", "*", "/">>)
<1>1. ASSUME NEW l, l = <<"/", "/", ",", Json!QUOTE, "\n">>
      PROVE  Json!LineComment(l)
  <2>1. Len(l) = 5 /\ DOMAIN l = 1..5
    <3> DEFINE T == {"/", ",", Json!QUOTE, "\n"}
    <3>1. "/" \in T /\ "," \in T /\ Json!QUOTE \in T /\ "\n" \in T
      OBVIOUS
    <3> HIDE DEF T
    <3> QED
      BY <1>1, <3>1, FiveAre, Zenon
  <2>2. l[1] = "/" /\ l[2] = "/" /\ l[3] = "," /\ l[4] = Json!QUOTE /\ l[5] = "\n"
    BY <1>1
  <2>3. \A k \in 1..5 : k = 1 \/ k = 2 \/ k = 3 \/ k = 4 \/ k = 5
    OBVIOUS
  <2>4. Json!QUOTE # "\n"
    BY DEF Json!QUOTE
  <2>5. 5 > 2 /\ 1 # 5 /\ 2 # 5 /\ 3 # 5 /\ 4 # 5 /\ "/" # "\n" /\ "," # "\n"
    OBVIOUS
  <2>6. \A k \in 1..5 : l[k] = "\n" <=> k = 5
    BY <2>2, <2>3, <2>4, <2>5, Zenon
  <2> QED
    BY <2>1, <2>2, <2>5, <2>6, Zenon DEF Json!LineComment
<1>2. ASSUME NEW l, l = <<"/", "*", "*", "}", "*", "/">>
      PROVE  Json!BlockComment(l)
  <2>1. Len(l) = 6
    BY <1>2
  <2>2. l[1] = "/" /\ l[2] = "*" /\ l[3] = "*" /\ l[4] = "}" /\ l[5] = "*" /\ l[6] = "/"
    BY <1>2
  <2>3. \A k \in 3..5 : k = 3 \/ k = 4 \/ k = 5
    OBVIOUS
  <2>4. 6 > 3 /\ 6 - 1 = 5 /\ 3 # 5 /\ 4 # 5 /\ 3 + 1 = 4 /\ 5 + 1 = 6 /\ "}" # "*" /\ "}" # "/"
    OBVIOUS
  <2>5. l[3 + 1] = "}" /\ l[5 + 1] = "/"
    BY <2>2, <2>4
  <2>6. \A k \in 3..5 : l[k] = "*" /\ l[k + 1] = "/" <=> k = 5
    BY <2>2, <2>3, <2>4, <2>5, Zenon
  <2> QED
    BY <2>1, <2>2, <2>4, <2>6, Zenon DEF Json!BlockComment
<1> QED
  BY <1>1, <1>2

LEMMA StringsAreStrings ==
    /\ Json!String(<<Json!QUOTE, Json!QUOTE>>)
    /\ Json!String(<<Json!QUOTE, "/", "/", Json!QUOTE>>)
    /\ Json!String(<<Json!QUOTE, "\\", Json!QUOTE, ",", "}", Json!QUOTE>>)
    /\ Json!String(<<Json!QUOTE, "/", "*", "\\", "\\", Json!QUOTE>>)
<1>0. Json!QUOTE \notin {"/", "*", "\\", ",", "}"}
  BY DEF Json!QUOTE
<1> DEFINE Q == Json!QUOTE
<1>1. ASSUME NEW l, l = <<Q, Q>>
      PROVE  Json!String(l)
  <2>1. Len(l) = 2 /\ l[1] = Q /\ l[2] = Q
    BY <1>1
  <2>2. ~Json!IsEscaped(l, 2)
    <3>1. 2 \in Nat /\ 2 > 1 /\ 2 - 1 = 1
      OBVIOUS
    <3>2. l[2 - 1] # "\\"
      BY <1>0, <2>1, <3>1
    <3> QED
      BY <3>1, <3>2, NotEscaped, Zenon
  <2>3. 2 \in Nat /\ 2 > 1 /\ \A k \in 2..2 - 1 : FALSE
    OBVIOUS
  <2> QED
    BY <2>1, <2>2, <2>3, StringIs, Zenon
<1>2. ASSUME NEW l, l = <<Q, "/", "/", Q>>
      PROVE  Json!String(l)
  <2>1. Len(l) = 4 /\ l[1] = Q /\ l[2] = "/" /\ l[3] = "/" /\ l[4] = Q
    BY <1>2
  <2>2. ~Json!IsEscaped(l, 4)
    <3>1. 4 \in Nat /\ 4 > 1 /\ 4 - 1 = 3
      OBVIOUS
    <3>2. l[4 - 1] # "\\"
      BY <1>0, <2>1, <3>1
    <3> QED
      BY <3>1, <3>2, NotEscaped, Zenon
  <2>3. 4 \in Nat /\ 4 > 1 /\ \A k \in 2..4 - 1 : k = 2 \/ k = 3
    OBVIOUS
  <2>4. \A k \in 2..4 - 1 : l[k] # Q
    BY <1>0, <2>1, <2>3
  <2> QED
    BY <2>1, <2>2, <2>3, <2>4, StringIs, Zenon
<1>3. ASSUME NEW l, l = <<Q, "\\", Q, ",", "}", Q>>
      PROVE  Json!String(l)
  <2>1. Len(l) = 6 /\ l[1] = Q /\ l[2] = "\\" /\ l[3] = Q /\ l[4] = "," /\ l[5] = "}" /\ l[6] = Q
    BY <1>3
  <2>2. ~Json!IsEscaped(l, 6)
    <3>1. 6 \in Nat /\ 6 > 1 /\ 6 - 1 = 5
      OBVIOUS
    <3>2. l[6 - 1] # "\\"
      BY <2>1, <3>1
    <3> QED
      BY <3>1, <3>2, NotEscaped, Zenon
  <2>3. Json!IsEscaped(l, 3)
    <3>1. 1 \in 1..3 - 1 /\ (3 - 1) % 2 = 0 /\ \A b \in 1 + 1..3 - 1 : b = 2
      OBVIOUS
    <3>2. l[1] # "\\"
      BY <1>0, <2>1
    <3> QED
      BY <2>1, <3>1, <3>2 DEF Json!IsEscaped
  <2>4. 6 \in Nat /\ 6 > 1 /\ \A k \in 2..6 - 1 : k = 2 \/ k = 3 \/ k = 4 \/ k = 5
    OBVIOUS
  <2>5. \A k \in 2..6 - 1 : l[k] # Q \/ k = 3
    BY <1>0, <2>1, <2>4
  <2>6. \A k \in 2..6 - 1 : l[k] # Q \/ Json!IsEscaped(l, k)
    BY <2>3, <2>5, Zenon
  <2> QED
    BY <2>1, <2>2, <2>4, <2>6, StringIs, Zenon
<1>4. ASSUME NEW l, l = <<Q, "/", "*", "\\", "\\", Q>>
      PROVE  Json!String(l)
  <2>1. Len(l) = 6 /\ l[1] = Q /\ l[2] = "/" /\ l[3] = "*" /\ l[4] = "\\" /\ l[5] = "\\" /\ l[6] = Q
    BY <1>4
  <2>2. ~Json!IsEscaped(l, 6)
    <3>1. 6 \in Nat /\ 6 > 3 /\ 6 - 1 = 5 /\ 6 - 2 = 4 /\ 6 - 3 = 3
      OBVIOUS
    <3>2. l[6 - 1] = "\\" /\ l[6 - 2] = "\\" /\ l[6 - 3] # "\\"
      BY <2>1, <3>1
    <3> QED
      BY <3>1, <3>2, NotEscapedByTwo, Zenon
  <2>3. 6 \in Nat /\ 6 > 1 /\ \A k \in 2..6 - 1 : k = 2 \/ k = 3 \/ k = 4 \/ k = 5
    OBVIOUS
  <2>4. \A k \in 2..6 - 1 : l[k] # Q
    BY <1>0, <2>1, <2>3
  <2> QED
    BY <2>1, <2>2, <2>3, <2>4, StringIs, Zenon
<1> QED
  BY <1>1, <1>2, <1>3, <1>4

LEMMA OthersArePlain == \A c \in {",", "}", " ", "\n", "a"} : Json!Plain(<<c>>)
<1> TAKE c \in {",", "}", " ", "\n", "a"}
<1>1. c \notin {Json!QUOTE, "/"}
  BY DEF Json!QUOTE
<1>2. Len(<<c>>) = 1 /\ <<c>>[1] = c
  OBVIOUS
<1> QED
  BY <1>1, <1>2 DEF Json!Plain

LEMMA LexemesAreLexemes ==
    /\ \A l \in Lexeme : Json!Lexeme(l)
    /\ \A lexemes \in Lexemes : \E T : lexemes \in Seq(Seq(T)) /\ \A k \in DOMAIN lexemes : Json!Lexeme(lexemes[k])
<1>1. ASSUME NEW l \in Lexeme PROVE Json!Lexeme(l)
  BY CommentsAreComments, StringsAreStrings, OthersArePlain, Zenon DEF Lexeme, Json!Lexeme, Json!Comment
<1> DEFINE T == {Json!QUOTE, "/", "*", "\\", ",", "}", " ", "\n", "a"}
<1>2. Lexeme \in SUBSET Seq(T)
  <2>1. /\ Json!QUOTE \in T /\ "/" \in T /\ "*" \in T /\ "\\" \in T /\ "," \in T
        /\ "}" \in T /\ " " \in T /\ "\n" \in T /\ "a" \in T
    OBVIOUS
  <2> HIDE DEF T
  <2>2. /\ \A a, b, c, d, e, f \in T : /\ <<a>> \in Seq(T) /\ <<a, b>> \in Seq(T) /\ <<a, b, c, d>> \in Seq(T)
                                      /\ <<a, b, c, d, e>> \in Seq(T) /\ <<a, b, c, d, e, f>> \in Seq(T)
    BY ShortSequences, LongerSequences, FiveAre, Zenon
  <2>3. <<"/", "/", ",", Json!QUOTE, "\n">> \in Seq(T) /\ <<Json!QUOTE, Json!QUOTE>> \in Seq(T)
    BY <2>1, <2>2, Zenon
  <2>4. <<"/", "*", "*", "}", "*", "/">> \in Seq(T) /\ <<Json!QUOTE, "/", "/", Json!QUOTE>> \in Seq(T)
    BY <2>1, <2>2, Zenon
  <2>5. <<Json!QUOTE, "\\", Json!QUOTE, ",", "}", Json!QUOTE>> \in Seq(T)
    BY <2>1, <2>2, Zenon
  <2>6. <<Json!QUOTE, "/", "*", "\\", "\\", Json!QUOTE>> \in Seq(T)
    BY <2>1, <2>2, Zenon
  <2>7. <<",">> \in Seq(T) /\ <<"}">> \in Seq(T) /\ <<" ">> \in Seq(T) /\ <<"\n">> \in Seq(T) /\ <<"a">> \in Seq(T)
    BY <2>1, <2>2, Zenon
  <2> QED
    BY <2>3, <2>4, <2>5, <2>6, <2>7, Zenon DEF Lexeme
<1>3. ASSUME NEW lexemes \in Lexemes
      PROVE  lexemes \in Seq(Seq(T)) /\ lexemes \in Seq(Lexeme)
  <2> HIDE DEF T
  <2>1. 4 \in Nat
    OBVIOUS
  <2> QED
    BY <1>2, <2>1, SeqUpToIs DEF Lexemes
<1>4. ASSUME NEW lexemes \in Seq(Lexeme), NEW k \in DOMAIN lexemes PROVE lexemes[k] \in Lexeme
  OBVIOUS
<1> QED
  BY <1>1, <1>3, <1>4, Zenon

LEMMA GivenLexemes ==
  ASSUME FunctionsInit
  PROVE  input.about = "json" => input.given.lexemes \in Lexemes
<1>1. CASE input = [about |-> "walk"]
  BY <1>1
<1>2. CASE SomeInput
  BY <1>2 DEF SomeInput, Given
<1> QED
  BY <1>1, <1>2 DEF FunctionsInit

(* What the run checks of JSON holds for any of its texts.                 *)
THEOREM StringsAreKept == FunctionsSpec => []StringsSurvive
<1>1. FunctionsInit => StringsSurvive
  <2> SUFFICES ASSUME FunctionsInit, input.about = "json"
               PROVE  Json!StripsToTheMeaning(input.given.lexemes)
    BY DEF StringsSurvive
  <2>1. input.given.lexemes \in Lexemes
    BY GivenLexemes
  <2> QED
    BY <2>1, LexemesAreLexemes, TextsAreStripped, Zenon
<1>2. StringsSurvive /\ [FunctionsNext]_<<vars, input>> => StringsSurvive'
  <2> SUFFICES ASSUME StringsSurvive, [FunctionsNext]_<<vars, input>>
               PROVE  StringsSurvive'
    OBVIOUS
  <2>1. input' = input
    BY DEF FunctionsNext
  <2> QED
    BY <2>1 DEF StringsSurvive
<1> QED
  BY <1>1, <1>2, PTL DEF FunctionsSpec
=============================================================================
