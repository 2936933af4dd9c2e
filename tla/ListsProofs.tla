---------------------------- MODULE ListsProofs -----------------------------
(***************************************************************************)
(* Theorems about lists: whatever is ranked, the Quick Pick shows it in    *)
(* the order of its rank; whatever is exported is there when it is         *)
(* imported again; and a group that is dropped goes where it was dropped,  *)
(* while the others keep their order.  A function computed one element     *)
(* after the other is unrolled by StepByStep; SelectedHas and KindsInOrder *)
(* say what filtering keeps, InsertedInOrder what sorting does.  Of a set  *)
(* in a strict order there is one list (EnumerationIsUnique), so that      *)
(* proofs about lists of groups become proofs about which comes first.     *)
(***************************************************************************)
EXTENDS FunctionsProofs

-----------------------------------------------------------------------------
(* Filtering.                                                              *)

Stepwise(g, n, S, first, step) ==
    g \in [0..n -> S] /\ g[0] = first /\ \A k \in 1..n : g[k] = step[k][g[k - 1]]

(* A function that is computed one step after the other exists. *)
LEMMA StepByStep ==
    ASSUME NEW n \in Nat, NEW S, NEW first \in S, NEW step \in [1..n -> [S -> S]]
    PROVE  \E g : Stepwise(g, n, S, first, step)
<1> DEFINE Upto(m) == \E g \in [0..m -> S] : g[0] = first /\ \A k \in 1..m : g[k] = step[k][g[k - 1]]
           D == {m \in 0..n : Upto(m)}
<1>1. 0 \in D
  <2>1. [k \in 0..0 |-> first] \in [0..0 -> S] /\ [k \in 0..0 |-> first][0] = first /\ \A k \in 1..0 : FALSE
    OBVIOUS
  <2>2. Upto(0)
    BY <2>1
  <2> QED
    BY <2>2
<1>2. ASSUME NEW m \in 0..n, m < n, m \in D
      PROVE  m + 1 \in D
  <2>1. PICK g \in [0..m -> S] : g[0] = first /\ \A k \in 1..m : g[k] = step[k][g[k - 1]]
    BY <1>2
  <2> DEFINE h == [k \in 0..m + 1 |-> IF k = m + 1 THEN step[m + 1][g[m]] ELSE g[k]]
  <2>a. /\ m \in Nat /\ m + 1 \in 1..n /\ m + 1 \in 0..n /\ m \in 0..m /\ (m + 1) - 1 = m
        /\ m + 1 # 0 /\ 0 \in 0..m + 1 /\ m # m + 1 /\ m \in 0..m + 1 /\ m + 1 \in 0..m + 1
    BY <1>2
  <2>2. g[m] \in S
    BY <2>a
  <2>3. \A k \in 0..m + 1 : k = m + 1 \/ k \in 0..m
    OBVIOUS
  <2>4. step[m + 1][g[m]] \in S
    BY <2>2, <2>a
  <2>5. h \in [0..m + 1 -> S]
    BY <2>3, <2>4
  <2>6. h[0] = first /\ h[m + 1] = step[m + 1][g[m]] /\ h[m] = g[m]
    BY <2>1, <2>2, <2>a
  <2>7. \A k \in 1..m : h[k] = g[k] /\ h[k - 1] = g[k - 1]
    OBVIOUS
  <2> HIDE DEF h
  <2>8. \A k \in 1..m + 1 : h[k] = step[k][h[k - 1]]
    <3> SUFFICES ASSUME NEW k \in 1..m + 1 PROVE h[k] = step[k][h[k - 1]]
      OBVIOUS
    <3>1. CASE k = m + 1
      BY <2>a, <2>6, <3>1
    <3>2. CASE k # m + 1
      <4>1. k \in 1..m
        BY <3>2
      <4> QED
        BY <2>1, <2>7, <4>1
    <3> QED
      BY <3>1, <3>2
  <2>9. Upto(m + 1)
    BY <2>5, <2>6, <2>8
  <2> QED
    BY <2>a, <2>9
<1> HIDE DEF D
<1>3. n \in D
  <2>1. CASE n = 0
    BY <1>1, <2>1
  <2>2. CASE n # 0
    <3>1. 1 \in D /\ n \in 1..n /\ \A i \in 1..n : i < n /\ i \in D => i + 1 \in D
      <4>1. 0 \in 0..n /\ 0 < n /\ 0 + 1 = 1
        BY <2>2
      <4> QED
        BY <1>1, <1>2, <2>2, <4>1
    <3>2. 1..n \subseteq D
      BY <3>1, UpTo
    <3> QED
      BY <3>1, <3>2
  <2> QED
    BY <2>1, <2>2
<1> QED
  BY <1>3 DEF D, Stepwise

(* What Selected computes, from the first element to the last. *)
Selecting(g, T, list, these) ==
    /\ g \in [0..Len(list) -> Seq(T)]
    /\ g[0] = << >>
    /\ \A k \in 1..Len(list) :
          g[k] = IF list[k] \in these THEN Append(g[k - 1], list[k]) ELSE g[k - 1]
    /\ Rank!Selected(list, these) = g[Len(list)]

LEMMA SelectedIs ==
    ASSUME NEW T, NEW list \in Seq(T), NEW these
    PROVE  \E g : Selecting(g, T, list, these)
<1> DEFINE n == Len(list)
           Turn(f, k) == IF list[k] \in these THEN Append(f, list[k]) ELSE f
           step == [k \in 1..n |-> [f \in Seq(T) |-> Turn(f, k)]]
           Is(f) == f = [k \in 0..n |-> IF k = 0 THEN << >>
                                        ELSE IF list[k] \in these THEN Append(f[k - 1], list[k])
                                        ELSE f[k - 1]]
           some == CHOOSE f : Is(f)
<1>1. n \in Nat /\ << >> \in Seq(T) /\ \A k \in 1..n : list[k] \in T
  OBVIOUS
<1>2. step \in [1..n -> [Seq(T) -> Seq(T)]]
  BY <1>1
<1>a. \A k \in 1..n : \A f \in Seq(T) : step[k][f] = Turn(f, k)
  OBVIOUS
<1> HIDE DEF step
<1>3. PICK g \in [0..n -> Seq(T)] : g[0] = << >> /\ \A k \in 1..n : g[k] = step[k][g[k - 1]]
  <2> DEFINE S == Seq(T)
             none == << >>
  <2>1. n \in Nat /\ none \in S /\ step \in [1..n -> [S -> S]]
    BY <1>1, <1>2
  <2> HIDE DEF n, S, none
  <2>2. \E g : Stepwise(g, n, S, none, step)
    BY <2>1, StepByStep, Zenon
  <2> QED
    BY <2>2 DEF S, none, Stepwise
<1>4. \A k \in 1..n : k - 1 \in 0..n /\ g[k] = Turn(g[k - 1], k)
  <2> TAKE k \in 1..n
  <2>1. k - 1 \in 0..n
    BY <1>1
  <2>2. g[k - 1] \in Seq(T)
    BY <2>1
  <2> QED
    BY <1>3, <1>a, <2>1, <2>2
<1>5. Is(g)
  <2>1. \A k \in 0..n : k = 0 \/ k \in 1..n
    OBVIOUS
  <2> QED
    BY <1>3, <1>4, <2>1
<1>6. Is(some)
  BY <1>5, Zenon
<1>7. some[0] = << >> /\ \A k \in 1..n : some[k] = Turn(some[k - 1], k)
  <2>1. 0 \in 0..n /\ \A k \in 1..n : k \in 0..n /\ k # 0
    BY <1>1
  <2> HIDE DEF some
  <2> QED
    BY <1>6, <2>1
<1>8. Rank!Selected(list, these) = some[n]
  BY DEF Rank!Selected
<1>9. \A k \in 0..n : some[k] = g[k]
  <2> HIDE DEF some
  <2> DEFINE D == {k \in 1..n : some[k] = g[k]}
  <2>1. n >= 1 => 1 \in D
    <3>1. 1 - 1 = 0
      OBVIOUS
    <3> QED
      BY <1>1, <1>3, <1>4, <1>7, <3>1
  <2>2. \A k \in 1..n : k < n /\ k \in D => k + 1 \in D
    <3> SUFFICES ASSUME NEW k \in 1..n, k < n, k \in D PROVE k + 1 \in D
      OBVIOUS
    <3>1. k + 1 \in 1..n /\ (k + 1) - 1 = k
      BY <1>1
    <3> QED
      BY <1>4, <1>7, <3>1
  <2> HIDE DEF D
  <2>3. 1..n \subseteq D
    BY <1>1, <2>1, <2>2, UpTo
  <2>4. \A k \in 0..n : k = 0 \/ k \in 1..n
    OBVIOUS
  <2> QED
    BY <1>3, <1>7, <2>3, <2>4 DEF D
<1>10. n \in 0..n
  BY <1>1
<1> HIDE DEF some
<1> QED
  BY <1>3, <1>4, <1>8, <1>9, <1>10 DEF Selecting

(* The elements of a list up to a place. *)
OfPrefix(list, k) == {list[j] : j \in 1..k}

HoldsThese(g, list, these) ==
    \A k \in 0..Len(list) : OfPrefix(g[k], Len(g[k])) = OfPrefix(list, k) \cap these

(* Of a list, the elements that are among these; none, if none is. *)
LEMMA SelectedHas ==
    ASSUME NEW T, NEW list \in Seq(T), NEW these
    PROVE  \E g : Selecting(g, T, list, these) /\ HoldsThese(g, list, these)
<1> DEFINE n == Len(list)
<1>0. PICK g : Selecting(g, T, list, these)
  BY SelectedIs
<1>1. /\ g \in [0..n -> Seq(T)]
      /\ g[0] = << >>
      /\ \A k \in 1..n : g[k] = IF list[k] \in these THEN Append(g[k - 1], list[k]) ELSE g[k - 1]
  BY <1>0 DEF Selecting
<1> DEFINE Has(k) == OfPrefix(g[k], Len(g[k])) = OfPrefix(list, k) \cap these
           D == {k \in 0..n : Has(k)}
<1>2. 0 \in D
  <2>1. OfPrefix(list, 0) = {} /\ OfPrefix(g[0], Len(g[0])) = {}
    BY <1>1 DEF OfPrefix
  <2> QED
    BY <2>1
<1>3. ASSUME NEW k \in 0..n, k < n, k \in D
      PROVE  k + 1 \in D
  <2> DEFINE i == k + 1
  <2>1. i \in 1..n /\ i \in 0..n /\ i - 1 = k /\ \A j \in 1..i : j = i \/ j \in 1..k
    BY <1>3
  <2>2. g[i] = (IF list[i] \in these THEN Append(g[k], list[i]) ELSE g[k]) /\ g[k] \in Seq(T) /\ list[i] \in T
    BY <1>1, <2>1
  <2>3. OfPrefix(list, i) = OfPrefix(list, k) \cup {list[i]}
    BY <2>1 DEF OfPrefix
  <2>4. OfPrefix(Append(g[k], list[i]), Len(Append(g[k], list[i]))) = OfPrefix(g[k], Len(g[k])) \cup {list[i]}
    <3> DEFINE s == g[k]
               e == list[i]
               m == Len(s)
    <3>1. m \in Nat /\ Len(Append(s, e)) = m + 1 /\ Append(s, e)[m + 1] = e
          /\ \A j \in 1..m : Append(s, e)[j] = s[j]
      BY <2>2
    <3>2. m + 1 \in 1..m + 1 /\ \A j \in 1..m + 1 : j = m + 1 \/ j \in 1..m
      BY <3>1
    <3> HIDE DEF s, e, m
    <3>3. OfPrefix(Append(s, e), m + 1) = OfPrefix(s, m) \cup {e}
      BY <3>1, <3>2 DEF OfPrefix
    <3> QED
      BY <3>1, <3>3 DEF s, e, m
  <2> HIDE DEF i
  <2>5. Has(i)
    BY <1>3, <2>2, <2>3, <2>4
  <2> QED
    BY <2>1, <2>5 DEF i
<1> HIDE DEF D
<1>4. \A k \in 0..n : k \in D
  <2>1. n \in Nat
    OBVIOUS
  <2>2. n >= 1 => 1 \in D
    <3>1. 0 \in 0..n /\ (n >= 1 => 0 < n) /\ 0 + 1 = 1
      BY <2>1
    <3> QED
      BY <1>2, <1>3, <3>1
  <2>3. \A k \in 1..n : k < n /\ k \in D => k + 1 \in D
    BY <1>3
  <2>4. 1..n \subseteq D
    BY <2>1, <2>2, <2>3, UpTo
  <2>5. \A k \in 0..n : k = 0 \/ k \in 1..n
    OBVIOUS
  <2> QED
    BY <1>2, <2>4, <2>5
<1> QED
  BY <1>0, <1>4 DEF D, HoldsThese

LEMMA NothingSelected ==
    ASSUME NEW T, NEW s \in Seq(T), OfPrefix(s, Len(s)) = {}
    PROVE  s = << >>
<1>1. Len(s) \in Nat
  OBVIOUS
<1>2. Len(s) = 0
  <2> SUFFICES ASSUME Len(s) # 0 PROVE FALSE
    OBVIOUS
  <2>1. 1 \in 1..Len(s)
    BY <1>1
  <2> QED
    BY <2>1 DEF OfPrefix
<1> QED
  BY <1>2

(* A list whose elements come in three kinds, one after the other, is made *)
(* of its elements of each kind.                                           *)
LEMMA KindsInOrder ==
    ASSUME NEW T, NEW list \in Seq(T), NEW a, NEW b, NEW c,
           \A x \in T : /\ x \in a \/ x \in b \/ x \in c
                        /\ ~(x \in a /\ x \in b) /\ ~(x \in a /\ x \in c) /\ ~(x \in b /\ x \in c),
           \A i, j \in 1..Len(list) :
              i < j => (list[i] \in b => list[j] \notin a) /\ (list[i] \in c => list[j] \notin a \cup b)
    PROVE  (Rank!Selected(list, a) \o Rank!Selected(list, b)) \o Rank!Selected(list, c) = list
<1> DEFINE n == Len(list)
           First(k) == [j \in 1..k |-> list[j]]
           Turn(x, s, k) == IF list[k] \in x THEN Append(s, list[k]) ELSE s
           Goes(g, x) == /\ g \in [0..n -> Seq(T)]
                         /\ g[0] = << >>
                         /\ \A k \in 1..n : g[k] = Turn(x, g[k - 1], k)
                         /\ Rank!Selected(list, x) = g[n]
                         /\ \A k \in 0..n : OfPrefix(g[k], Len(g[k])) = OfPrefix(list, k) \cap x
<1>0. n \in Nat /\ \A k \in 1..n : list[k] \in T
  OBVIOUS
<1>1. PICK f : Goes(f, a)
  <2>1. PICK r : Selecting(r, T, list, a) /\ HoldsThese(r, list, a)
    BY SelectedHas
  <2> QED
    BY <2>1 DEF Selecting, HoldsThese
<1>2. PICK g : Goes(g, b)
  <2>1. PICK r : Selecting(r, T, list, b) /\ HoldsThese(r, list, b)
    BY SelectedHas
  <2> QED
    BY <2>1 DEF Selecting, HoldsThese
<1>3. PICK h : Goes(h, c)
  <2>1. PICK r : Selecting(r, T, list, c) /\ HoldsThese(r, list, c)
    BY SelectedHas
  <2> QED
    BY <2>1 DEF Selecting, HoldsThese
<1> HIDE DEF n
<1> DEFINE D == {k \in 0..n : (f[k] \o g[k]) \o h[k] = First(k)}
<1>4. \A k \in 0..n : f[k] \in Seq(T) /\ g[k] \in Seq(T) /\ h[k] \in Seq(T)
  BY <1>1, <1>2, <1>3
<1>5. 0 \in D
  <2>1. First(0) = << >> /\ 0 \in 0..n /\ (<< >> \o << >>) \o << >> = << >>
    BY <1>0
  <2> QED
    BY <1>1, <1>2, <1>3, <2>1
<1>6. ASSUME NEW k \in 0..n, k < n, k \in D
      PROVE  k + 1 \in D
  <2> DEFINE i == k + 1
             e == list[i]
  <2>1. i \in 1..n /\ i \in 0..n /\ i - 1 = k /\ k \in Nat /\ \A j \in 1..k : j \in 1..n /\ j < i
    BY <1>0, <1>6
  <2>2. e \in T
    BY <1>0, <2>1
  <2>3. First(i) = Append(First(k), e) /\ First(k) \in Seq(T)
    <3>1. \A j \in 1..k : list[j] \in T
      BY <1>0, <2>1
    <3>2. First(k) \in Seq(T) /\ Len(First(k)) = k
      BY <2>1, <3>1
    <3>3. Len(Append(First(k), e)) = i /\ Append(First(k), e)[i] = e
          /\ \A j \in 1..k : Append(First(k), e)[j] = list[j]
      BY <2>1, <3>2
    <3>4. \A j \in 1..i : j = i \/ j \in 1..k
      BY <2>1
    <3>5. Append(First(k), e) = [j \in 1..i |-> Append(First(k), e)[j]]
      BY <3>2, <3>3
    <3> QED
      BY <3>2, <3>3, <3>4, <3>5
  <2>4. f[i] = Turn(a, f[k], i) /\ g[i] = Turn(b, g[k], i) /\ h[i] = Turn(c, h[k], i)
    BY <1>1, <1>2, <1>3, <2>1
  <2>5. \A x \in OfPrefix(list, k) : \E j \in 1..n : j < i /\ x = list[j]
    BY <2>1 DEF OfPrefix
  <2>6. e \in a => OfPrefix(list, k) \cap b = {} /\ OfPrefix(list, k) \cap c = {}
    BY <2>1, <2>5 DEF n
  <2>7. e \in b => OfPrefix(list, k) \cap c = {}
    BY <2>1, <2>5 DEF n
  <2>8. (OfPrefix(list, k) \cap b = {} => g[k] = << >>) /\ (OfPrefix(list, k) \cap c = {} => h[k] = << >>)
    BY <1>2, <1>3, <1>4, NothingSelected
  <2>9. (f[k] \o g[k]) \o h[k] = First(k) /\ f[k] \in Seq(T) /\ g[k] \in Seq(T) /\ h[k] \in Seq(T)
    BY <1>4, <1>6
  <2> HIDE DEF i, e, First, D, Goes
  <2>10. (f[i] \o g[i]) \o h[i] = Append(First(k), e)
    <3> DEFINE F == f[k]
               G == g[k]
               H == h[k]
    <3>1. F \in Seq(T) /\ G \in Seq(T) /\ H \in Seq(T) /\ (F \o G) \o H = First(k)
      BY <2>9
    <3>2. /\ e \in a => f[i] = Append(F, e) /\ g[i] = G /\ h[i] = H /\ G = << >> /\ H = << >>
          /\ e \in b => f[i] = F /\ g[i] = Append(G, e) /\ h[i] = H /\ H = << >>
          /\ e \in c => f[i] = F /\ g[i] = G /\ h[i] = Append(H, e)
      BY <2>2, <2>4, <2>6, <2>7, <2>8 DEF e
    <3>3. e \in a \/ e \in b \/ e \in c
      BY <2>2
    <3> HIDE DEF F, G, H
    <3>4. (Append(F, e) \o << >>) \o << >> = Append((F \o << >>) \o << >>, e)
      BY <2>2, <3>1
    <3>5. (F \o Append(G, e)) \o << >> = Append((F \o G) \o << >>, e)
      BY <2>2, <3>1
    <3>6. (F \o G) \o Append(H, e) = Append((F \o G) \o H, e)
      BY <2>2, <3>1
    <3>7. CASE e \in a
      BY <3>1, <3>2, <3>4, <3>7
    <3>8. CASE e \in b
      BY <3>1, <3>2, <3>5, <3>8
    <3>9. CASE e \in c
      BY <3>1, <3>2, <3>6, <3>9
    <3> QED
      BY <3>3, <3>7, <3>8, <3>9
  <2>11. (f[i] \o g[i]) \o h[i] = First(i) /\ i \in 0..n
    BY <2>1, <2>3, <2>10
  <2> QED
    BY <2>11 DEF D, i
<1> HIDE DEF D
<1>7. n \in D
  <2>1. n >= 1 => 1 \in D
    <3>1. 0 \in 0..n /\ (n >= 1 => 0 < n) /\ 0 + 1 = 1
      BY <1>0
    <3> QED
      BY <1>5, <1>6, <3>1
  <2>2. \A k \in 1..n : k < n /\ k \in D => k + 1 \in D
    BY <1>6
  <2>3. 1..n \subseteq D
    BY <1>0, <2>1, <2>2, UpTo
  <2>4. n = 0 \/ n \in 1..n
    BY <1>0
  <2> QED
    BY <1>5, <2>3, <2>4
<1>8. First(n) = list
  BY DEF n
<1> QED
  BY <1>1, <1>2, <1>3, <1>7, <1>8 DEF D

-----------------------------------------------------------------------------
(* Sorting.                                                                *)

LEMMA RankMinIsLeast ==
    ASSUME NEW S \in SUBSET Nat, S # {}
    PROVE  Rank!Min(S) \in S /\ \A m \in S : Rank!Min(S) <= m
<1>1. \E n \in S : \A m \in S : n <= m
  BY LeastExists
<1> QED
  BY <1>1 DEF Rank!Min

(* What is inserted at a place: the others stay in their order. *)
LEMMA InsertAtIs ==
    ASSUME NEW T, NEW s \in Seq(T), NEW e \in T, NEW p \in 1..Len(s) + 1
    PROVE  /\ Rank!InsertAt(s, p, e) \in Seq(T)
           /\ Len(Rank!InsertAt(s, p, e)) = Len(s) + 1
           /\ Rank!InsertAt(s, p, e)[p] = e
           /\ \A j \in 1..p - 1 : Rank!InsertAt(s, p, e)[j] = s[j]
           /\ \A j \in p + 1..Len(s) + 1 : Rank!InsertAt(s, p, e)[j] = s[j - 1]
<1> DEFINE n == Len(s)
           a == SubSeq(s, 1, p - 1)
           b == SubSeq(s, p, n)
           r == (a \o <<e>>) \o b
<1>1. n \in Nat /\ p \in Nat /\ p - 1 \in Nat /\ p - 1 <= n /\ n - p + 1 \in Nat
  OBVIOUS
<1>2. a \in Seq(T) /\ Len(a) = p - 1 /\ \A j \in 1..p - 1 : a[j] = s[j]
  BY <1>1
<1>3. b \in Seq(T) /\ Len(b) = n - p + 1 /\ \A j \in 1..n - p + 1 : b[j] = s[p + j - 1]
  BY <1>1
<1>4. <<e>> \in Seq(T) /\ Len(<<e>>) = 1 /\ <<e>>[1] = e
  OBVIOUS
<1> HIDE DEF a, b
<1>5. a \o <<e>> \in Seq(T) /\ Len(a \o <<e>>) = p /\ (a \o <<e>>)[p] = e
      /\ \A j \in 1..p - 1 : (a \o <<e>>)[j] = a[j]
  BY <1>1, <1>2, <1>4
<1> DEFINE c == a \o <<e>>
<1> HIDE DEF c
<1>6. r = c \o b
  BY DEF c
<1>7. /\ c \o b \in Seq(T) /\ Len(c \o b) = n + 1
      /\ \A j \in 1..p : (c \o b)[j] = c[j]
      /\ \A j \in p + 1..n + 1 : (c \o b)[j] = b[j - p]
  <2>1. c \in Seq(T) /\ b \in Seq(T) /\ Len(c) = p /\ Len(b) = n - p + 1 /\ p + (n - p + 1) = n + 1
    BY <1>1, <1>3, <1>5 DEF c
  <2>2. \A j \in 1..p : (c \o b)[j] = c[j]
    BY <2>1
  <2>3. c \o b \in Seq(T) /\ Len(c \o b) = n + 1
    BY <2>1
  <2>4. ASSUME NEW j \in p + 1..n + 1
        PROVE  (c \o b)[j] = b[j - p]
    <3>1. j \in p + 1..p + Len(b)
      BY <1>1, <2>1
    <3> QED
      BY <2>1, <3>1
  <2> QED
    BY <2>2, <2>3, <2>4
<1>8. \A j \in p + 1..n + 1 : j - p \in 1..n - p + 1 /\ p + (j - p) - 1 = j - 1
  BY <1>1
<1>9. p \in 1..p /\ \A j \in 1..p - 1 : j \in 1..p
  BY <1>1
<1>10. Rank!InsertAt(s, p, e) = r
  BY DEF Rank!InsertAt, a, b
<1> HIDE DEF r
<1>11. r[p] = e
  BY <1>5, <1>6, <1>7, <1>9 DEF c
<1>12. \A j \in 1..p - 1 : r[j] = s[j]
  BY <1>2, <1>5, <1>6, <1>7, <1>9 DEF c
<1>13. \A j \in p + 1..n + 1 : r[j] = s[j - 1]
  BY <1>3, <1>6, <1>7, <1>8
<1> QED
  BY <1>6, <1>7, <1>10, <1>11, <1>12, <1>13

(* Before is a strict order of T. *)
Orders(T) ==
    /\ \A x, y \in T : Rank!Before(x, y) => ~Rank!Before(y, x)
    /\ \A x, y, z \in T : Rank!Before(x, y) /\ Rank!Before(y, z) => Rank!Before(x, z)

InOrder(s) == \A i, j \in 1..Len(s) : i < j => ~Rank!Before(s[j], s[i])

(* An entry is inserted where the list stays in order. *)
LEMMA InsertedInOrder ==
    ASSUME NEW T, Orders(T), NEW s \in Seq(T), NEW e \in T, InOrder(s)
    PROVE  /\ Rank!Inserted(s, e) \in Seq(T) /\ InOrder(Rank!Inserted(s, e))
           /\ OfPrefix(Rank!Inserted(s, e), Len(Rank!Inserted(s, e))) = OfPrefix(s, Len(s)) \cup {e}
<1> DEFINE n == Len(s)
           Later == {k \in DOMAIN s : Rank!Before(e, s[k])}
           p == Rank!Min(Later \cup {n + 1})
           r == Rank!InsertAt(s, p, e)
<1>1. n \in Nat /\ DOMAIN s = 1..n /\ \A k \in 1..n : s[k] \in T
  OBVIOUS
<1>2. p \in Later \cup {n + 1} /\ \A m \in Later \cup {n + 1} : p <= m
  <2>1. Later \cup {n + 1} \in SUBSET Nat /\ Later \cup {n + 1} # {}
    BY <1>1
  <2> QED
    BY <2>1, RankMinIsLeast
<1>3. Rank!Inserted(s, e) = r
  BY DEF Rank!Inserted
<1> HIDE DEF p
<1>4. p \in 1..n + 1 /\ (p = n + 1 \/ Rank!Before(e, s[p]))
  BY <1>1, <1>2
<1>5. \A k \in 1..p - 1 : k \in 1..n /\ ~Rank!Before(e, s[k])
  <2> TAKE k \in 1..p - 1
  <2>1. k \in 1..n /\ ~(p <= k)
    BY <1>1, <1>4
  <2> QED
    BY <1>1, <1>2, <2>1
<1>6. /\ r \in Seq(T) /\ Len(r) = n + 1 /\ r[p] = e
      /\ \A j \in 1..p - 1 : r[j] = s[j]
      /\ \A j \in p + 1..n + 1 : r[j] = s[j - 1]
  BY <1>4, InsertAtIs
<1> HIDE DEF r, n, Later
<1>7. \A j \in 1..n + 1 : j = p \/ j \in 1..p - 1 \/ j \in p + 1..n + 1
  BY <1>1, <1>4
<1>8. \A j \in p..n : ~Rank!Before(s[j], e)
  <2> SUFFICES ASSUME NEW j \in p..n PROVE ~Rank!Before(s[j], e)
    OBVIOUS
  <2>1. p \in 1..n /\ j \in 1..n /\ p # n + 1 /\ (j = p \/ p < j)
    BY <1>1, <1>4
  <2>2. Rank!Before(e, s[p]) /\ s[p] \in T /\ s[j] \in T
    BY <1>1, <1>4, <2>1
  <2>3. j # p => ~Rank!Before(s[j], s[p])
    BY <2>1 DEF InOrder, n
  <2>4. j = p => ~Rank!Before(s[j], e)
    BY <2>2 DEF Orders
  <2>5. Rank!Before(s[j], e) => Rank!Before(s[j], s[p])
    BY <2>2 DEF Orders
  <2> QED
    BY <2>3, <2>4, <2>5
<1>9. InOrder(r)
  <2> SUFFICES ASSUME NEW i \in 1..n + 1, NEW j \in 1..n + 1, i < j PROVE ~Rank!Before(r[j], r[i])
    BY <1>6 DEF InOrder
  <2>1. \A k, l \in 1..n : k < l => ~Rank!Before(s[l], s[k])
    BY DEF InOrder, n
  <2>2. CASE i \in 1..p - 1 /\ j \in 1..p - 1
    BY <1>5, <1>6, <2>1, <2>2
  <2>3. CASE i \in 1..p - 1 /\ j = p
    BY <1>5, <1>6, <2>3
  <2>4. CASE i \in 1..p - 1 /\ j \in p + 1..n + 1
    <3>1. j - 1 \in 1..n /\ i \in 1..n /\ i < j - 1
      BY <1>1, <1>4, <2>4
    <3> QED
      BY <1>6, <2>1, <2>4, <3>1
  <2>5. CASE i = p /\ j \in p + 1..n + 1
    <3>1. j - 1 \in p..n
      BY <1>1, <1>4, <2>5
    <3> QED
      BY <1>6, <1>8, <2>5, <3>1
  <2>6. CASE i \in p + 1..n + 1 /\ j \in p + 1..n + 1
    <3>1. j - 1 \in 1..n /\ i - 1 \in 1..n /\ i - 1 < j - 1
      BY <1>1, <1>4, <2>6
    <3> QED
      BY <1>6, <2>1, <2>6, <3>1
  <2>7. \/ i \in 1..p - 1 /\ j \in 1..p - 1
        \/ i \in 1..p - 1 /\ j = p
        \/ i \in 1..p - 1 /\ j \in p + 1..n + 1
        \/ i = p /\ j \in p + 1..n + 1
        \/ i \in p + 1..n + 1 /\ j \in p + 1..n + 1
    BY <1>1, <1>4
  <2> QED
    BY <2>2, <2>3, <2>4, <2>5, <2>6, <2>7
<1>10. OfPrefix(r, n + 1) = OfPrefix(s, n) \cup {e}
  <2>1. ASSUME NEW j \in 1..n + 1
        PROVE  r[j] = e \/ \E k \in 1..n : r[j] = s[k]
    <3>1. j \in p + 1..n + 1 => j - 1 \in 1..n
      BY <1>1, <1>4
    <3> QED
      BY <1>5, <1>6, <1>7, <3>1
  <2>2. ASSUME NEW k \in 1..n
        PROVE  \E j \in 1..n + 1 : s[k] = r[j]
    <3>1. CASE k \in 1..p - 1
      <4>1. k \in 1..n + 1
        BY <1>1
      <4> QED
        BY <1>6, <3>1, <4>1
    <3>2. CASE k \notin 1..p - 1
      <4>1. k + 1 \in p + 1..n + 1 /\ k + 1 \in 1..n + 1 /\ (k + 1) - 1 = k
        BY <1>1, <1>4, <3>2
      <4>2. r[k + 1] = s[(k + 1) - 1]
        BY <1>6, <4>1
      <4> QED
        BY <4>1, <4>2
    <3> QED
      BY <3>1, <3>2
  <2>3. \E j \in 1..n + 1 : e = r[j]
    BY <1>4, <1>6
  <2> QED
    BY <2>1, <2>2, <2>3 DEF OfPrefix
<1> QED
  BY <1>3, <1>6, <1>9, <1>10 DEF n

(* What is sorted is in order, and has the elements it had. *)
LEMMA SortedIs ==
    ASSUME NEW T, Orders(T), NEW list \in Seq(T)
    PROVE  /\ Rank!Sorted(list) \in Seq(T) /\ InOrder(Rank!Sorted(list))
           /\ OfPrefix(Rank!Sorted(list), Len(Rank!Sorted(list))) = OfPrefix(list, Len(list))
<1> DEFINE n == Len(list)
           S == {s \in Seq(T) : InOrder(s)}
           step == [k \in 1..n |-> [s \in S |-> Rank!Inserted(s, list[k])]]
           none == << >>
           Is(f) == f = [k \in 0..n |-> IF k = 0 THEN << >> ELSE Rank!Inserted(f[k - 1], list[k])]
           sorted == CHOOSE f : Is(f)
<1>1. n \in Nat /\ \A k \in 1..n : list[k] \in T
  OBVIOUS
<1>2. none \in S
  BY DEF InOrder
<1>3. \A k \in 1..n : \A s \in S : Rank!Inserted(s, list[k]) \in S
  BY <1>1, InsertedInOrder
<1>4. step \in [1..n -> [S -> S]] /\ \A k \in 1..n : \A s \in S : step[k][s] = Rank!Inserted(s, list[k])
  BY <1>3
<1>5. PICK g : Stepwise(g, n, S, none, step)
  <2> HIDE DEF n, S, none, step
  <2> QED
    BY <1>1, <1>2, <1>4, StepByStep, Zenon
<1> HIDE DEF S, step
<1>6. g \in [0..n -> S] /\ g[0] = none /\ \A k \in 1..n : g[k] = Rank!Inserted(g[k - 1], list[k])
  <2>1. g \in [0..n -> S] /\ g[0] = none /\ \A k \in 1..n : g[k] = step[k][g[k - 1]]
    BY <1>5 DEF Stepwise
  <2>2. \A k \in 1..n : g[k - 1] \in S
    BY <1>1, <2>1
  <2> QED
    BY <1>4, <2>1, <2>2
<1>7. Is(g)
  <2>1. \A k \in 0..n : k = 0 \/ k \in 1..n
    OBVIOUS
  <2> QED
    BY <1>6, <2>1
<1>8. Is(sorted)
  BY <1>7, Zenon
<1>9. Rank!Sorted(list) = sorted[n]
  BY DEF Rank!Sorted
<1> HIDE DEF sorted
<1>10. sorted[0] = none /\ \A k \in 1..n : sorted[k] = Rank!Inserted(sorted[k - 1], list[k])
  <2>1. 0 \in 0..n /\ \A k \in 1..n : k \in 0..n /\ k # 0
    BY <1>1
  <2> QED
    BY <1>8, <2>1
<1> HIDE DEF none
<1> DEFINE Same(k) == sorted[k] = g[k]
           Holds(k) == OfPrefix(g[k], Len(g[k])) = OfPrefix(list, k)
           D == {k \in 0..n : Same(k) /\ Holds(k)}
<1>11. 0 \in D
  <2>1. OfPrefix(list, 0) = {} /\ OfPrefix(none, Len(none)) = {}
    BY DEF OfPrefix, none
  <2>2. g[0] = none /\ sorted[0] = none /\ 0 \in 0..n
    BY <1>1, <1>6, <1>10
  <2>3. Same(0) /\ Holds(0)
    BY <2>1, <2>2, Zenon
  <2> QED
    BY <2>2, <2>3
<1>12. ASSUME NEW k \in 0..n, k < n, k \in D
       PROVE  k + 1 \in D
  <2> DEFINE i == k + 1
  <2>1. i \in 1..n /\ i \in 0..n /\ i - 1 = k /\ \A j \in 1..i : j = i \/ j \in 1..k
    BY <1>1, <1>12
  <2>2. g[i] = Rank!Inserted(g[k], list[i]) /\ g[k] \in S /\ list[i] \in T
    BY <1>1, <1>6, <2>1
  <2>3. sorted[i] = Rank!Inserted(sorted[k], list[i])
    BY <1>10, <2>1
  <2>4. OfPrefix(list, i) = OfPrefix(list, k) \cup {list[i]}
    BY <2>1 DEF OfPrefix
  <2>5. OfPrefix(g[i], Len(g[i])) = OfPrefix(g[k], Len(g[k])) \cup {list[i]}
    <3> DEFINE s == g[k]
               e == list[i]
    <3>1. s \in Seq(T) /\ InOrder(s) /\ e \in T /\ g[i] = Rank!Inserted(s, e)
      BY <2>2 DEF S
    <3> HIDE DEF s, e
    <3>2. OfPrefix(Rank!Inserted(s, e), Len(Rank!Inserted(s, e))) = OfPrefix(s, Len(s)) \cup {e}
      BY <3>1, InsertedInOrder
    <3> QED
      BY <3>1, <3>2 DEF s, e
  <2> HIDE DEF i
  <2>6. i \in D
    BY <1>12, <2>1, <2>2, <2>3, <2>4, <2>5
  <2> QED
    BY <2>6 DEF i
<1> HIDE DEF D
<1>13. n \in D
  <2>1. n >= 1 => 1 \in D
    <3>1. 0 \in 0..n /\ (n >= 1 => 0 < n) /\ 0 + 1 = 1
      BY <1>1
    <3> QED
      BY <1>11, <1>12, <3>1
  <2>2. \A k \in 1..n : k < n /\ k \in D => k + 1 \in D
    BY <1>12
  <2>3. 1..n \subseteq D
    BY <1>1, <2>1, <2>2, UpTo
  <2>4. n = 0 \/ n \in 1..n
    BY <1>1
  <2> QED
    BY <1>11, <2>3, <2>4
<1>14. g[n] \in S /\ n \in 0..n
  BY <1>1, <1>6
<1> QED
  BY <1>9, <1>13, <1>14 DEF D, S

-----------------------------------------------------------------------------
(* Ranking: Ranking.                                                       *)

(* An entry of the ranking. *)
IsEntry(x) ==
    /\ x.item.pinned \in BOOLEAN /\ x.item.title \in Int
    /\ x.relevance.relevant \in BOOLEAN /\ x.relevance.score \in Nat /\ x.frecency \in Int
    /\ x.relevance.score > 0 => x.relevance.relevant

(* Numbers that are compared one after the other are in a strict order. *)
Sooner(x, y) ==
    \/ x[1] > y[1]
    \/ x[1] = y[1] /\ x[2] > y[2]
    \/ /\ x[1] = y[1] /\ x[2] = y[2]
       /\ \/ x[3] > y[3]
          \/ x[3] = y[3] /\ (x[4] > y[4] \/ (x[4] = y[4] /\ x[5] < y[5]))

LEMMA SoonerIsStrict ==
    \A x, y, z \in Int \X Int \X Int \X Int \X Int :
        (Sooner(x, y) => ~Sooner(y, x)) /\ (Sooner(x, y) /\ Sooner(y, z) => Sooner(x, z))
<1> TAKE x, y, z \in Int \X Int \X Int \X Int \X Int
<1>1. /\ x[1] \in Int /\ x[2] \in Int /\ x[3] \in Int /\ x[4] \in Int /\ x[5] \in Int
      /\ y[1] \in Int /\ y[2] \in Int /\ y[3] \in Int /\ y[4] \in Int /\ y[5] \in Int
      /\ z[1] \in Int /\ z[2] \in Int /\ z[3] \in Int /\ z[4] \in Int /\ z[5] \in Int
  OBVIOUS
<1> QED
  BY <1>1 DEF Sooner

Keys(x) == <<Rank!Pinned(x), Rank!Relevant(x), x.relevance.score, x.frecency, x.item.title>>

LEMMA BeforeIsStrict ==
    ASSUME NEW T, \A x \in T : IsEntry(x)
    PROVE  Orders(T)
<1>1. \A x \in T : Keys(x) \in Int \X Int \X Int \X Int \X Int
  <2> SUFFICES ASSUME NEW x \in T PROVE Keys(x) \in Int \X Int \X Int \X Int \X Int
    OBVIOUS
  <2>1. Rank!Pinned(x) \in Int /\ Rank!Relevant(x) \in Int
    BY DEF Rank!Pinned, Rank!Relevant
  <2>2. x.relevance.score \in Int /\ x.frecency \in Int /\ x.item.title \in Int
    BY DEF IsEntry
  <2> QED
    BY <2>1, <2>2 DEF Keys
<1>2. \A x, y \in T : Rank!Before(x, y) <=> Sooner(Keys(x), Keys(y))
  <2> SUFFICES ASSUME NEW x \in T, NEW y \in T PROVE Rank!Before(x, y) <=> Sooner(Keys(x), Keys(y))
    OBVIOUS
  <2> DEFINE a == Keys(x)
             b == Keys(y)
  <2>1. /\ a[1] = Rank!Pinned(x) /\ a[2] = Rank!Relevant(x) /\ a[3] = x.relevance.score
        /\ a[4] = x.frecency /\ a[5] = x.item.title
    BY DEF Keys
  <2>2. /\ b[1] = Rank!Pinned(y) /\ b[2] = Rank!Relevant(y) /\ b[3] = y.relevance.score
        /\ b[4] = y.frecency /\ b[5] = y.item.title
    BY DEF Keys
  <2> HIDE DEF a, b
  <2>3. /\ a[1] \in Int /\ a[2] \in Int /\ a[3] \in Int /\ a[4] \in Int /\ a[5] \in Int
        /\ b[1] \in Int /\ b[2] \in Int /\ b[3] \in Int /\ b[4] \in Int /\ b[5] \in Int
    BY <1>1 DEF a, b
  <2>4. Sooner(a, b) <=> Rank!Before(x, y)
    BY <2>1, <2>2, <2>3 DEF Sooner, Rank!Before, Rank!Outscores
  <2> QED
    BY <2>4 DEF a, b
<1> QED
  BY <1>1, <1>2, SoonerIsStrict, Zenon DEF Orders

(* An item that can be ranked. *)
CanBeRanked(item) ==
    /\ item.pinned \in BOOLEAN /\ item.title \in Int
    /\ item.usage.uses \in Int /\ item.usage.age \in Int /\ item.usage.age <= MaxAge

LEMMA PowersAreNumbers == \A k \in Nat : 2 ^ k \in Int
OBVIOUS

LEMMA FrecencyIsNumber ==
    ASSUME NEW usage, usage.uses \in Int, usage.age \in Int, usage.age <= MaxAge
    PROVE  Rank!Frecency(usage) \in Int
<1> DEFINE age == IF usage.age < 0 THEN 0 ELSE usage.age
<1>1. MaxAge - age \in Nat
  BY FunctionsAssumption
<1>2. 2 ^ (MaxAge - age) \in Int
  BY <1>1, PowersAreNumbers
<1> DEFINE p == 2 ^ (MaxAge - age)
<1> HIDE DEF p
<1>3. usage.uses * p \in Int
  BY <1>2 DEF p
<1>4. Rank!Frecency(usage) = IF usage.uses <= 0 THEN 0 ELSE usage.uses * p
  BY DEF Rank!Frecency, p
<1> QED
  BY <1>3, <1>4

LEMMA RelevanceIs ==
    ASSUME NEW context, NEW active
    PROVE  /\ Rank!ScoreRelevance(context, active).score \in Nat
           /\ Rank!ScoreRelevance(context, active).relevant \in BOOLEAN
           /\ Rank!ScoreRelevance(context, active).score > 0 => Rank!ScoreRelevance(context, active).relevant
<1> DEFINE l == IF active.languageId \in context.languages THEN 3 ELSE 0
           g == IF active.relativePath \in context.globs THEN 4 ELSE 0
           m == IF active.markers \cap context.markers # {} THEN 2 ELSE 0
           score == l + g + m
           r == Rank!ScoreRelevance(context, active)
<1>1. l \in Nat /\ g \in Nat /\ m \in Nat
  OBVIOUS
<1> HIDE DEF l, g, m
<1>2. score \in Nat
  BY <1>1
<1> HIDE DEF score
<1>3. r = [score |-> 0, relevant |-> TRUE] \/ r = [score |-> score, relevant |-> score > 0]
  BY DEF Rank!ScoreRelevance, Rank!NEUTRAL, Rank!SCORE_LANGUAGE, Rank!SCORE_GLOB, Rank!SCORE_MARKER,
         score, l, g, m
<1> HIDE DEF r
<1>4. CASE r = [score |-> 0, relevant |-> TRUE]
  BY <1>4 DEF r
<1>5. CASE r = [score |-> score, relevant |-> score > 0]
  <2>1. r.score = score /\ r.relevant = (score > 0)
    BY <1>5
  <2>2. (score > 0) \in BOOLEAN
    BY <1>2
  <2> QED
    BY <1>2, <2>1, <2>2 DEF r
<1> QED
  BY <1>3, <1>4, <1>5

LEMMA RankedIsEntry ==
    ASSUME NEW item, NEW active, CanBeRanked(item)
    PROVE  /\ IsEntry(Rank!Ranked(item, active)) /\ Rank!Ranked(item, active).item = item
           /\ Rank!Ranked(item, active).relevance = Rank!ScoreRelevance(item.context, active)
<1> DEFINE e == Rank!Ranked(item, active)
<1>1. e.item = item /\ e.relevance = Rank!ScoreRelevance(item.context, active)
      /\ e.frecency = Rank!Frecency(item.usage)
  BY DEF Rank!Ranked
<1>2. e.frecency \in Int
  BY <1>1, FrecencyIsNumber DEF CanBeRanked
<1> HIDE DEF e
<1> QED
  BY <1>1, <1>2, RelevanceIs DEF e, CanBeRanked, IsEntry

LEMMA FlattenThree ==
    ASSUME NEW T, NEW seqs \in Seq(Seq(T)), Len(seqs) = 3
    PROVE  Rank!FlattenSeq(seqs) = (seqs[1] \o seqs[2]) \o seqs[3]
<1>1. Rank!FlattenSeq(seqs) = Command!FlattenSeq(seqs)
  BY DEF Rank!FlattenSeq, Command!FlattenSeq
<1>2. Len(seqs) > 0
  OBVIOUS
<1>3. PICK f \in [1..Len(seqs) -> Seq(T)] :
              /\ f[1] = seqs[1]
              /\ \A i \in 1..Len(seqs) - 1 : f[i + 1] = f[i] \o seqs[i + 1]
              /\ Command!FlattenSeq(seqs) = f[Len(seqs)]
  BY <1>2, FlattenIs
<1>4. 1 \in 1..Len(seqs) - 1 /\ 2 \in 1..Len(seqs) - 1 /\ 1 + 1 = 2 /\ 2 + 1 = 3
  BY <1>2
<1>5. f[2] = f[1] \o seqs[2] /\ f[3] = f[2] \o seqs[3]
  BY <1>3, <1>4
<1> QED
  BY <1>1, <1>3, <1>5

(* What follows an entry of a list in order is not of an earlier kind. *)
LEMMA KindsFollow ==
    ASSUME NEW x, NEW y, IsEntry(x), IsEntry(y), ~Rank!Before(y, x)
    PROVE  /\ ~x.item.pinned => ~y.item.pinned /\ (x.relevance.score <= 0 => ~(y.relevance.score > 0))
           /\ ~x.item.pinned /\ y.relevance.relevant => x.relevance.relevant
<1> DEFINE px == x.item.pinned
           py == y.item.pinned
           rx == x.relevance.relevant
           ry == y.relevance.relevant
           sx == x.relevance.score
           sy == y.relevance.score
<1>1. Rank!Pinned(x) = (IF px THEN 1 ELSE 0) /\ Rank!Pinned(y) = (IF py THEN 1 ELSE 0)
      /\ Rank!Relevant(x) = (IF rx THEN 1 ELSE 0) /\ Rank!Relevant(y) = (IF ry THEN 1 ELSE 0)
  BY DEF Rank!Pinned, Rank!Relevant
<1>2. sx \in Nat /\ sy \in Nat /\ (sy > 0 => ry)
  BY DEF IsEntry
<1>3. ~(Rank!Pinned(y) > Rank!Pinned(x))
      /\ ~(Rank!Pinned(y) = Rank!Pinned(x) /\ Rank!Relevant(y) > Rank!Relevant(x))
      /\ ~(Rank!Pinned(y) = Rank!Pinned(x) /\ Rank!Relevant(y) = Rank!Relevant(x) /\ sy > sx)
  BY DEF Rank!Before, Rank!Outscores
<1> HIDE DEF px, py, rx, ry, sx, sy
<1>4. ~px => ~py
  BY <1>1, <1>3
<1>5. ~px /\ ry => rx
  BY <1>1, <1>3, <1>4
<1>6. ~px /\ sx <= 0 => ~(sy > 0)
  BY <1>1, <1>2, <1>3, <1>4, <1>5
<1> QED
  BY <1>4, <1>5, <1>6 DEF px, py, rx, ry, sx, sy

(* The place of an element. *)
LEMMA InPrefix == \A list, k, x : x \in OfPrefix(list, k) <=> \E j \in 1..k : list[j] = x
BY DEF OfPrefix

(* Whatever the items, their use and the editor, the Quick Pick shows them *)
(* in the order of their rank, and leaves out only what "relevant only"    *)
(* leaves out (ordering.ts 20-53, quickPick.ts 74-99).                     *)
THEOREM SectionsAreInOrder ==
    ASSUME NEW T, NEW items \in Seq(T), \A item \in T : CanBeRanked(item),
           NEW active, NEW relevantOnly \in BOOLEAN
    PROVE  Rank!SectionsKeepTheRank(items, active, relevantOnly)
<1> DEFINE E == {Rank!Ranked(item, active) : item \in T}
           n == Len(items)
           all == [k \in DOMAIN items |-> Rank!Ranked(items[k], active)]
           Wanted == {entry \in Rank!ToSet(all) : ~relevantOnly \/ entry.relevance.relevant}
           some == Rank!Selected(all, Wanted)
           ranked == Rank!RankItems(items, active, relevantOnly)
           m == Len(ranked)
           a == {entry \in Rank!ToSet(ranked) : entry.item.pinned}
           b == {entry \in Rank!ToSet(ranked) : ~entry.item.pinned /\ entry.relevance.score > 0}
           c == {entry \in Rank!ToSet(ranked) : ~entry.item.pinned /\ entry.relevance.score <= 0}
           shown == Rank!FlattenSeq(Rank!Sections(ranked))
<1>1. \A x \in E : IsEntry(x)
  BY RankedIsEntry
<1>2. Orders(E)
  BY <1>1, BeforeIsStrict
<1>3. n \in Nat /\ DOMAIN items = 1..n /\ \A k \in 1..n : items[k] \in T
  OBVIOUS
<1>4. all \in Seq(E) /\ Len(all) = n /\ \A k \in 1..n : all[k] = Rank!Ranked(items[k], active)
  BY <1>3
<1> HIDE DEF E, all, n
<1>5. some \in Seq(E) /\ OfPrefix(some, Len(some)) = OfPrefix(all, n) \cap Wanted
  <2>1. PICK g : Selecting(g, E, all, Wanted) /\ HoldsThese(g, all, Wanted)
    BY <1>4, SelectedHas
  <2>2. n \in 0..n
    BY <1>3
  <2> QED
    BY <1>4, <2>1, <2>2 DEF Selecting, HoldsThese
<1>6. ranked = Rank!Sorted(some)
  BY DEF Rank!RankItems, all
<1> HIDE DEF some, ranked
<1>7. ranked \in Seq(E) /\ InOrder(ranked) /\ OfPrefix(ranked, m) = OfPrefix(all, n) \cap Wanted
  BY <1>2, <1>5, <1>6, SortedIs
<1>8. m \in Nat /\ DOMAIN ranked = 1..m /\ \A k \in 1..m : ranked[k] \in E /\ IsEntry(ranked[k])
  BY <1>1, <1>7
<1>9. \A k \in 1..m : ranked[k] \in Rank!ToSet(ranked)
  BY <1>8 DEF Rank!ToSet
<1>10. \A i, j \in 1..m : i < j => ~Rank!Before(ranked[j], ranked[i])
  BY <1>7 DEF InOrder
<1> HIDE DEF m
<1>11. shown = ranked
  <2> DEFINE R == Rank!ToSet(ranked)
  <2>1. ranked \in Seq(R) /\ \A x \in R : IsEntry(x)
    <3>1. ranked = [k \in 1..m |-> ranked[k]]
      BY <1>7 DEF m
    <3>2. \A x \in R : \E k \in 1..m : x = ranked[k]
      BY <1>8 DEF Rank!ToSet
    <3> HIDE DEF R
    <3> QED
      BY <1>8, <1>9, <3>1, <3>2 DEF R
  <2>2. \A x \in R : (x \in a <=> x.item.pinned) /\ (x \in b <=> ~x.item.pinned /\ x.relevance.score > 0)
                    /\ (x \in c <=> ~x.item.pinned /\ x.relevance.score <= 0)
    OBVIOUS
  <2>3. Rank!Sections(ranked) = <<Rank!Selected(ranked, a), Rank!Selected(ranked, b), Rank!Selected(ranked, c)>>
    BY DEF Rank!Sections
  <2> HIDE DEF a, b, c, R
  <2>4. \A x \in R : /\ x \in a \/ x \in b \/ x \in c
                     /\ ~(x \in a /\ x \in b) /\ ~(x \in a /\ x \in c) /\ ~(x \in b /\ x \in c)
    <3> TAKE x \in R
    <3>1. x.relevance.score \in Nat
      BY <2>1 DEF IsEntry
    <3>2. x.relevance.score > 0 \/ x.relevance.score <= 0
      BY <3>1
    <3>3. ~(x.relevance.score > 0 /\ x.relevance.score <= 0)
      BY <3>1
    <3> QED
      BY <2>2, <3>2, <3>3, Zenon
  <2>5. \A i, j \in 1..Len(ranked) :
           i < j => (ranked[i] \in b => ranked[j] \notin a) /\ (ranked[i] \in c => ranked[j] \notin a \cup b)
    <3> SUFFICES ASSUME NEW i \in 1..m, NEW j \in 1..m, i < j
                 PROVE  /\ ranked[i] \in b => ranked[j] \notin a
                        /\ ranked[i] \in c => ranked[j] \notin a /\ ranked[j] \notin b
      BY DEF m
    <3> DEFINE x == ranked[i]
               y == ranked[j]
    <3>1. x \in R /\ y \in R /\ IsEntry(x) /\ IsEntry(y) /\ ~Rank!Before(y, x)
      BY <1>8, <1>9, <1>10 DEF R
    <3> HIDE DEF x, y
    <3>2. ~x.item.pinned => ~y.item.pinned /\ (x.relevance.score <= 0 => ~(y.relevance.score > 0))
      BY <3>1, KindsFollow
    <3>3. (x \in b => y \notin a) /\ (x \in c => y \notin a /\ y \notin b)
      BY <2>2, <3>1, <3>2, Zenon
    <3> QED
      BY <3>3 DEF x, y
  <2>6. (Rank!Selected(ranked, a) \o Rank!Selected(ranked, b)) \o Rank!Selected(ranked, c) = ranked
    BY <2>1, <2>4, <2>5, KindsInOrder
  <2>7. Rank!Selected(ranked, a) \in Seq(R) /\ Rank!Selected(ranked, b) \in Seq(R)
        /\ Rank!Selected(ranked, c) \in Seq(R)
    <3> SUFFICES ASSUME NEW these PROVE Rank!Selected(ranked, these) \in Seq(R)
      OBVIOUS
    <3>1. PICK g : Selecting(g, R, ranked, these)
      BY <2>1, SelectedIs
    <3>2. Len(ranked) \in 0..Len(ranked)
      BY <1>8 DEF m
    <3> QED
      BY <3>1, <3>2 DEF Selecting
  <2> DEFINE A == Rank!Selected(ranked, a)
             B == Rank!Selected(ranked, b)
             C == Rank!Selected(ranked, c)
  <2>8. A \in Seq(R) /\ B \in Seq(R) /\ C \in Seq(R)
    BY <2>7
  <2> HIDE DEF A, B, C
  <2> DEFINE seqs == <<A, B, C>>
  <2>9. seqs \in Seq(Seq(R)) /\ Len(seqs) = 3 /\ seqs[1] = A /\ seqs[2] = B /\ seqs[3] = C
    BY <2>8
  <2> HIDE DEF seqs
  <2>10. Rank!FlattenSeq(seqs) = (A \o B) \o C
    BY <2>9, FlattenThree
  <2> QED
    BY <2>3, <2>6, <2>10 DEF A, B, C, seqs
<1>12. \A k \in 1..m - 1 : ~ranked[k].item.pinned /\ ranked[k + 1].relevance.relevant
                               => ranked[k].relevance.relevant
  <2> SUFFICES ASSUME NEW k \in 1..m - 1
               PROVE  ~ranked[k].item.pinned /\ ranked[k + 1].relevance.relevant => ranked[k].relevance.relevant
    OBVIOUS
  <2>1. k \in 1..m /\ k + 1 \in 1..m /\ k < k + 1
    BY <1>8
  <2> DEFINE x == ranked[k]
             y == ranked[k + 1]
  <2>2. IsEntry(x) /\ IsEntry(y) /\ ~Rank!Before(y, x)
    BY <1>8, <1>10, <2>1
  <2> HIDE DEF x, y
  <2>3. ~x.item.pinned /\ y.relevance.relevant => x.relevance.relevant
    BY <2>2, KindsFollow
  <2> QED
    BY <2>3 DEF x, y
<1>13. {ranked[k].item.id : k \in 1..m} =
          {items[k].id : k \in {k \in 1..n : relevantOnly => Rank!ScoreRelevance(items[k].context, active).relevant}}
  <2>1. \A k \in 1..n : /\ all[k].item = items[k]
                        /\ all[k].relevance = Rank!ScoreRelevance(items[k].context, active)
    BY <1>3, <1>4, RankedIsEntry
  <2>2. \A k \in 1..n : all[k] \in Wanted <=> (relevantOnly => all[k].relevance.relevant)
    <3>1. \A k \in 1..n : all[k] \in Rank!ToSet(all)
      BY <1>3, <1>4 DEF Rank!ToSet
    <3> QED
      BY <3>1
  <2> HIDE DEF Wanted
  <2>3. \A x : (\E k \in 1..m : ranked[k] = x) <=> (\E k \in 1..n : all[k] = x) /\ x \in Wanted
    BY <1>7, InPrefix DEF m
  <2>4. ASSUME NEW k \in 1..m
        PROVE  \E j \in 1..n : ranked[k].item.id = items[j].id
                               /\ (relevantOnly => Rank!ScoreRelevance(items[j].context, active).relevant)
    <3>1. PICK j \in 1..n : all[j] = ranked[k] /\ all[j] \in Wanted
      BY <2>3
    <3> QED
      BY <2>1, <2>2, <3>1
  <2>5. ASSUME NEW j \in 1..n, relevantOnly => Rank!ScoreRelevance(items[j].context, active).relevant
        PROVE  \E k \in 1..m : items[j].id = ranked[k].item.id
    <3>1. all[j] \in Wanted
      BY <2>1, <2>2, <2>5
    <3>2. PICK k \in 1..m : ranked[k] = all[j]
      BY <2>3, <3>1
    <3> QED
      BY <2>1, <3>2
  <2> QED
    BY <2>4, <2>5
<1>14. /\ \A k \in 1..Len(shown) - 1 :
            ~shown[k].item.pinned /\ shown[k + 1].relevance.relevant => shown[k].relevance.relevant
       /\ {shown[k].item.id : k \in DOMAIN shown} =
            {items[k].id : k \in {k \in DOMAIN items :
                                    relevantOnly => Rank!ScoreRelevance(items[k].context, active).relevant}}
  <2> HIDE DEF shown
  <2> QED
    BY <1>3, <1>8, <1>11, <1>12, <1>13 DEF m
<1> HIDE DEF shown
<1> QED
  BY <1>11, <1>14, Zenon DEF Rank!SectionsKeepTheRank, shown, ranked

LEMMA GivenRankings ==
  ASSUME FunctionsInit, input.about = "rank"
  PROVE  \E list \in [1..2 -> RankedItem], active \in Active, relevantOnly \in BOOLEAN :
            input.given = [items |-> ItemList(list), active |-> active, relevantOnly |-> relevantOnly]
<1>1. CASE input = [about |-> "walk"]
  BY <1>1
<1>2. CASE SomeInput
  BY <1>2 DEF SomeInput, Given
<1> QED
  BY <1>1, <1>2 DEF FunctionsInit

LEMMA ItemsCanBeRanked ==
    ASSUME NEW list \in [1..2 -> RankedItem]
    PROVE  \E T : ItemList(list) \in Seq(T) /\ \A item \in T : CanBeRanked(item)
<1> DEFINE items == ItemList(list)
           T == {items[k] : k \in 1..2}
<1>1. Len(list) = 2 /\ DOMAIN list = 1..2
  OBVIOUS
<1>2. DOMAIN items = 1..2 /\ items = [k \in 1..2 |-> items[k]]
  BY <1>1 DEF ItemList
<1>3. items \in Seq(T)
  <2> HIDE DEF items
  <2> QED
    BY <1>2
<1>4. ASSUME NEW k \in 1..2 PROVE CanBeRanked(items[k])
  <2>1. list[k] \in RankedItem
    OBVIOUS
  <2>2. list[k].pinned \in BOOLEAN
        /\ list[k].usage \in {[uses |-> 0, age |-> 0], [uses |-> 3, age |-> 2], [uses |-> 1, age |-> -1]}
    BY <2>1 DEF RankedItem
  <2>3. list[k].usage.uses \in Int /\ list[k].usage.age \in Int /\ list[k].usage.age <= 2
    BY <2>2
  <2>4. items[k].pinned = list[k].pinned /\ items[k].usage = list[k].usage /\ items[k].title = 2 - k
    BY <1>1 DEF ItemList
  <2>5. 2 <= MaxAge /\ MaxAge \in Nat
    BY FunctionsAssumption
  <2>6. 2 - k \in Int /\ list[k].usage.age <= MaxAge
    BY <2>3, <2>5
  <2> HIDE DEF items
  <2> QED
    BY <2>2, <2>3, <2>4, <2>6 DEF CanBeRanked
<1> HIDE DEF items
<1>5. \A item \in T : CanBeRanked(item)
  BY <1>4
<1> QED
  BY <1>3, <1>5 DEF items

(* What the run checks of the Quick Pick holds for any of its lists.       *)
THEOREM QuickPicksAreRanked == FunctionsSpec => []QuickPickKeepsTheRank
<1>1. FunctionsInit => QuickPickKeepsTheRank
  <2> SUFFICES ASSUME FunctionsInit, input.about = "rank"
               PROVE  Rank!SectionsKeepTheRank(input.given.items, input.given.active, input.given.relevantOnly)
    BY DEF QuickPickKeepsTheRank
  <2>1. PICK list \in [1..2 -> RankedItem], active \in Active, relevantOnly \in BOOLEAN :
                input.given = [items |-> ItemList(list), active |-> active, relevantOnly |-> relevantOnly]
    BY GivenRankings
  <2>2. input.given.items = ItemList(list) /\ input.given.active = active /\ input.given.relevantOnly = relevantOnly
    BY <2>1
  <2>3. PICK T : ItemList(list) \in Seq(T) /\ \A item \in T : CanBeRanked(item)
    BY ItemsCanBeRanked
  <2>4. Rank!SectionsKeepTheRank(ItemList(list), active, relevantOnly)
    BY <2>3, SectionsAreInOrder
  <2> QED
    BY <2>2, <2>4
<1>2. QuickPickKeepsTheRank /\ [FunctionsNext]_<<vars, input>> => QuickPickKeepsTheRank'
  <2> SUFFICES ASSUME QuickPickKeepsTheRank, [FunctionsNext]_<<vars, input>>
               PROVE  QuickPickKeepsTheRank'
    OBVIOUS
  <2>1. input' = input
    BY DEF FunctionsNext
  <2> QED
    BY <2>1 DEF QuickPickKeepsTheRank
<1> QED
  BY <1>1, <1>2, PTL DEF FunctionsSpec

-----------------------------------------------------------------------------
(* Exports: Formats.                                                       *)

LEMMA FormatSizesAre == \A S : Format!Cardinality(S) = Cardinality(S)
BY DEF Format!Cardinality, Cardinality

(* Titles are texts, numbered or not. *)
LEMMA FreeKeyIsFree ==
    ASSUME NEW U, Nat \subseteq U, NEW used \in SUBSET Seq(U), IsFiniteSet(used), NEW title \in Seq(U)
    PROVE  Format!FreeKey(used, title) \in Seq(U) /\ Format!FreeKey(used, title) \notin used
<1> DEFINE c == Format!Cardinality(used)
           Free == {n \in 2..c + 2 : Append(title, n) \notin used}
           IsFirst(n) == /\ Append(title, n) \notin used
                         /\ \A k \in 2..n - 1 : Append(title, k) \in used
           first == CHOOSE n \in 2..c + 2 : IsFirst(n)
<1>1. c \in Nat /\ c = Cardinality(used)
  BY FS_CardinalityType, FormatSizesAre
<1> HIDE DEF c
<1>2. \A n \in Nat : Append(title, n) \in Seq(U)
  OBVIOUS
<1>3. \A m, n \in Nat : Append(title, m) = Append(title, n) => m = n
  <2> SUFFICES ASSUME NEW m \in Nat, NEW n \in Nat, Append(title, m) = Append(title, n) PROVE m = n
    OBVIOUS
  <2>1. Append(title, m)[Len(title) + 1] = m /\ Append(title, n)[Len(title) + 1] = n
    OBVIOUS
  <2> QED
    BY <2>1
<1>4. Free # {}
  <2> SUFFICES ASSUME Free = {} PROVE FALSE
    OBVIOUS
  <2> DEFINE f == [n \in 2..c + 2 |-> Append(title, n)]
  <2>1. f \in [2..c + 2 -> used]
    OBVIOUS
  <2>2. IsFiniteSet(2..c + 2) /\ Cardinality(2..c + 2) = c + 1
    <3>1. 2 \in Int /\ c + 2 \in Int /\ ~(2 > c + 2) /\ (c + 2) - 2 + 1 = c + 1
      BY <1>1
    <3> QED
      BY <3>1, FS_Interval
  <2>3. c < c + 1
    BY <1>1
  <2>4. PICK x, y \in 2..c + 2 : x # y /\ f[x] = f[y]
    <3> DEFINE S == 2..c + 2
    <3> HIDE DEF f, S
    <3>1. IsFiniteSet(S) /\ Cardinality(used) < Cardinality(S) /\ f \in [S -> used]
      BY <1>1, <2>1, <2>2, <2>3 DEF S
    <3>2. \E x, y \in S : x # y /\ f[x] = f[y]
      BY <3>1, FS_PigeonHole
    <3> QED
      BY <3>2 DEF S
  <2> QED
    BY <1>3, <2>4
<1>5. Free \in SUBSET Nat
  BY <1>1
<1>6. PICK n \in Free : \A m \in Free : n <= m
  BY <1>4, <1>5, LeastExists
<1>7. n \in 2..c + 2 /\ IsFirst(n)
  <2>1. n \in 2..c + 2 /\ Append(title, n) \notin used
    BY <1>6
  <2>2. \A k \in 2..n - 1 : k \in 2..c + 2 /\ ~(n <= k)
    BY <1>1, <2>1
  <2>3. \A k \in 2..n - 1 : Append(title, k) \in used
    BY <1>6, <2>2
  <2> QED
    BY <2>1, <2>3
<1> HIDE DEF IsFirst
<1>8. first \in 2..c + 2 /\ IsFirst(first)
  BY <1>7, Zenon
<1> HIDE DEF first
<1>9. first \in Nat /\ Append(title, first) \notin used
  BY <1>1, <1>8 DEF IsFirst
<1>10. Format!FreeKey(used, title) = IF title \notin used THEN title ELSE Append(title, first)
  BY Zenon DEF Format!FreeKey, first, IsFirst, c
<1> QED
  BY <1>2, <1>9, <1>10

(* The snippets of a list, up to a place. *)
SnippetsUpTo(items, k) == {j \in 1..k : items[j].type = "snippet"}

(* What has been written of them. *)
Written(f, items, k) ==
    /\ Cardinality(DOMAIN f) = Cardinality(SnippetsUpTo(items, k))
    /\ \A j \in SnippetsUpTo(items, k) : \E key \in DOMAIN f : f[key] = Format!Definition(items[j])

(* A table of definitions, by a few of the keys. *)
Tables(K, R) == UNION {[D -> R] : D \in {D \in SUBSET K : IsFiniteSet(D)}}

LEMMA TablesAre ==
    ASSUME NEW K, NEW R, NEW f
    PROVE  f \in Tables(K, R) <=> /\ DOMAIN f \in SUBSET K /\ IsFiniteSet(DOMAIN f)
                                  /\ f \in [DOMAIN f -> R]
BY DEF Tables

LEMMA SnippetsAreFew ==
    ASSUME NEW items, NEW k \in Nat
    PROVE  IsFiniteSet(SnippetsUpTo(items, k))
<1>1. IsFiniteSet(1..k)
  BY FS_Interval
<1> QED
  BY <1>1, FS_Subset DEF SnippetsUpTo

(* One more definition, under a key of its own. *)
LEMMA DefinitionIsAdded ==
    ASSUME NEW U, Nat \subseteq U, NEW R, NEW f \in Tables(Seq(U), R), NEW title \in Seq(U), NEW r \in R
    PROVE  LET g == Format!With(f, Format!FreeKey(DOMAIN f, title), r) IN
           /\ g \in Tables(Seq(U), R)
           /\ Cardinality(DOMAIN g) = Cardinality(DOMAIN f) + 1
           /\ \E key \in DOMAIN g : g[key] = r
           /\ \A key \in DOMAIN f : key \in DOMAIN g /\ g[key] = f[key]
<1> DEFINE K == Seq(U)
           D == DOMAIN f
           key == Format!FreeKey(D, title)
           g == Format!With(f, key, r)
<1>1. D \in SUBSET K /\ IsFiniteSet(D) /\ f \in [D -> R]
  BY TablesAre
<1>2. key \in K /\ key \notin D
  BY <1>1, FreeKeyIsFree
<1> HIDE DEF K, D, key
<1>3. g \in [D \cup {key} -> R] /\ g[key] = r /\ \A x \in D : g[x] = f[x]
  BY <1>1, <1>2 DEF Format!With
<1> HIDE DEF g
<1>4. DOMAIN g = D \cup {key}
  BY <1>3
<1>5. IsFiniteSet(D \cup {key}) /\ Cardinality(D \cup {key}) = Cardinality(D) + 1
  BY <1>1, <1>2, FS_AddElement
<1>6. g \in Tables(K, R)
  BY <1>1, <1>2, <1>3, <1>4, <1>5, TablesAre
<1> QED
  BY <1>3, <1>4, <1>5, <1>6 DEF K, D, g, key

(* The table of what is exported: a definition for each snippet. *)
LEMMA SnippetsAreWritten ==
    ASSUME NEW U, Nat \subseteq U, NEW T, NEW items \in Seq(T), \A item \in T : item.title \in Seq(U)
    PROVE  LET R == {Format!Definition(items[k]) : k \in SnippetsUpTo(items, Len(items))} IN
           /\ Format!ItemsToCodeSnippets(items) \in Tables(Seq(U), R)
           /\ Written(Format!ItemsToCodeSnippets(items), items, Len(items))
<1> DEFINE n == Len(items)
           R == {Format!Definition(items[k]) : k \in SnippetsUpTo(items, n)}
           S == Tables(Seq(U), R)
           Turn(f, k) == IF items[k].type # "snippet" THEN f
                         ELSE Format!With(f, Format!FreeKey(DOMAIN f, items[k].title), Format!Definition(items[k]))
           step == [k \in 1..n |-> [f \in S |-> Turn(f, k)]]
           none == << >>
           Is(h) == h = [k \in 0..n |-> IF k = 0 THEN << >>
                                        ELSE IF items[k].type # "snippet" THEN h[k - 1]
                                        ELSE Format!With(h[k - 1], Format!FreeKey(DOMAIN h[k - 1], items[k].title),
                                                         Format!Definition(items[k]))]
           out == CHOOSE h : Is(h)
<1>1. n \in Nat /\ \A k \in 1..n : items[k].title \in Seq(U)
  OBVIOUS
<1>2. none \in S /\ DOMAIN none = {}
  <2>1. DOMAIN none = {} /\ IsFiniteSet({}) /\ none \in [{} -> R]
    BY FS_EmptySet
  <2> HIDE DEF none, R
  <2>2. DOMAIN none \in SUBSET Seq(U) /\ IsFiniteSet(DOMAIN none) /\ none \in [DOMAIN none -> R]
    BY <2>1
  <2> QED
    BY <2>1, <2>2, TablesAre
<1> HIDE DEF none
<1>3. \A k \in 1..n : items[k].type = "snippet" => Format!Definition(items[k]) \in R
  BY DEF SnippetsUpTo
<1> HIDE DEF R
<1>4. ASSUME NEW k \in 1..n, items[k].type = "snippet", NEW f \in S
      PROVE  /\ Turn(f, k) \in S /\ Cardinality(DOMAIN Turn(f, k)) = Cardinality(DOMAIN f) + 1
             /\ \E key \in DOMAIN Turn(f, k) : Turn(f, k)[key] = Format!Definition(items[k])
             /\ \A key \in DOMAIN f : key \in DOMAIN Turn(f, k) /\ Turn(f, k)[key] = f[key]
  <2> DEFINE title == items[k].title
             r == Format!Definition(items[k])
  <2>1. title \in Seq(U) /\ r \in R
    BY <1>1, <1>3, <1>4
  <2>2. Turn(f, k) = Format!With(f, Format!FreeKey(DOMAIN f, title), r)
    BY <1>4
  <2> HIDE DEF title, r, Turn
  <2> QED
    BY <2>1, <2>2, DefinitionIsAdded DEF r
<1>5. ASSUME NEW k \in 1..n, items[k].type # "snippet", NEW f
      PROVE  Turn(f, k) = f
  BY <1>5
<1> HIDE DEF S
<1>6. step \in [1..n -> [S -> S]] /\ \A k \in 1..n : \A f \in S : step[k][f] = Turn(f, k)
  <2>1. \A k \in 1..n : \A f \in S : Turn(f, k) \in S
    BY <1>4, <1>5
  <2> HIDE DEF Turn
  <2> QED
    BY <2>1
<1> HIDE DEF step
<1>7. PICK g : Stepwise(g, n, S, none, step)
  <2> HIDE DEF n
  <2> QED
    BY <1>1, <1>2, <1>6, StepByStep, Zenon
<1>8. g \in [0..n -> S] /\ g[0] = none /\ \A k \in 1..n : g[k] = Turn(g[k - 1], k)
  <2>1. g \in [0..n -> S] /\ g[0] = none /\ \A k \in 1..n : g[k] = step[k][g[k - 1]]
    BY <1>7 DEF Stepwise
  <2>2. \A k \in 1..n : g[k - 1] \in S
    BY <1>1, <2>1
  <2> HIDE DEF Turn
  <2> QED
    BY <1>6, <2>1, <2>2
<1>9. Is(g)
  <2>1. \A k \in 0..n : k = 0 \/ k \in 1..n
    OBVIOUS
  <2> QED
    BY <1>8, <2>1 DEF none
<1>10. Is(out)
  BY <1>9, Zenon
<1>11. Format!ItemsToCodeSnippets(items) = out[n]
  BY DEF Format!ItemsToCodeSnippets
<1> HIDE DEF out
<1>12. out[0] = none /\ \A k \in 1..n : out[k] = Turn(out[k - 1], k)
  <2>1. 0 \in 0..n /\ \A k \in 1..n : k \in 0..n /\ k # 0
    BY <1>1
  <2> QED
    BY <1>10, <2>1 DEF none
<1> HIDE DEF Turn, Is
<1> DEFINE D == {k \in 0..n : out[k] = g[k] /\ Written(g[k], items, k)}
<1>13. 0 \in D
  <2>1. SnippetsUpTo(items, 0) = {}
    BY DEF SnippetsUpTo
  <2>2. Written(none, items, 0)
    BY <1>2, <2>1 DEF Written
  <2>3. 0 \in 0..n
    BY <1>1
  <2> QED
    BY <1>8, <1>12, <2>2, <2>3
<1>14. ASSUME NEW k \in 0..n, k < n, k \in D
       PROVE  k + 1 \in D
  <2> DEFINE i == k + 1
             f == g[k]
             h == g[i]
  <2>1. /\ i \in 1..n /\ i \in 0..n /\ i - 1 = k /\ k \in Nat /\ i \notin 1..k
        /\ \A j \in 1..i : j = i \/ j \in 1..k
        /\ \A j \in 1..k : j \in 1..i
    BY <1>1, <1>14
  <2>2. h = Turn(f, i) /\ f \in S /\ out[i] = h /\ Written(f, items, k)
    BY <1>8, <1>12, <1>14, <2>1
  <2> HIDE DEF i, f, h, D
  <2>3. IsFiniteSet(SnippetsUpTo(items, k))
    BY <2>1, SnippetsAreFew
  <2>4. CASE items[i].type = "snippet"
    <3>1. SnippetsUpTo(items, i) = SnippetsUpTo(items, k) \cup {i} /\ i \notin SnippetsUpTo(items, k)
      BY <2>1, <2>4 DEF SnippetsUpTo
    <3>2. Cardinality(SnippetsUpTo(items, i)) = Cardinality(SnippetsUpTo(items, k)) + 1
      BY <2>3, <3>1, FS_AddElement
    <3>3. /\ Cardinality(DOMAIN h) = Cardinality(DOMAIN f) + 1
          /\ \E key \in DOMAIN h : h[key] = Format!Definition(items[i])
          /\ \A key \in DOMAIN f : key \in DOMAIN h /\ h[key] = f[key]
      BY <1>4, <2>1, <2>2, <2>4
    <3>4. Cardinality(DOMAIN h) = Cardinality(SnippetsUpTo(items, i))
      BY <2>2, <3>2, <3>3 DEF Written
    <3>5. ASSUME NEW j \in SnippetsUpTo(items, i)
          PROVE  \E key \in DOMAIN h : h[key] = Format!Definition(items[j])
      <4>1. CASE j = i
        BY <3>3, <4>1
      <4>2. CASE j \in SnippetsUpTo(items, k)
        <5>1. PICK key \in DOMAIN f : f[key] = Format!Definition(items[j])
          BY <2>2, <4>2 DEF Written
        <5> QED
          BY <3>3, <5>1
      <4> QED
        BY <3>1, <4>1, <4>2
    <3> QED
      BY <2>1, <2>2, <3>4, <3>5 DEF Written, D, i, h
  <2>5. CASE items[i].type # "snippet"
    <3>1. SnippetsUpTo(items, i) = SnippetsUpTo(items, k)
      BY <2>1, <2>5 DEF SnippetsUpTo
    <3>2. h = f
      BY <1>5, <2>1, <2>2, <2>5
    <3>3. Written(h, items, i)
      BY <2>2, <3>1, <3>2 DEF Written
    <3> QED
      BY <2>1, <2>2, <3>3 DEF D, i, h
  <2> QED
    BY <2>4, <2>5
<1> HIDE DEF D
<1>15. n \in D
  <2>1. n >= 1 => 1 \in D
    <3>1. 0 \in 0..n /\ (n >= 1 => 0 < n) /\ 0 + 1 = 1
      BY <1>1
    <3> QED
      BY <1>13, <1>14, <3>1
  <2>2. \A k \in 1..n : k < n /\ k \in D => k + 1 \in D
    BY <1>14
  <2>3. 1..n \subseteq D
    BY <1>1, <2>1, <2>2, UpTo
  <2>4. n = 0 \/ n \in 1..n
    BY <1>1
  <2> QED
    BY <1>13, <2>3, <2>4
<1>16. g[n] \in S
  BY <1>1, <1>8
<1> QED
  BY <1>11, <1>15, <1>16 DEF D, S, R, n

(* Whatever their titles, the snippets that are exported are all there     *)
(* when they are imported again, each with its body and description, and   *)
(* with its languages if they are trimmed and have no comma                *)
(* (codeSnippets.ts 33-78 and 107-133).                                    *)
THEOREM ExportsAreImported ==
    ASSUME NEW U, Nat \subseteq U, NEW T, NEW items \in Seq(T),
           \A item \in T : item.title \in Seq(U) /\ (item.type = "snippet" => item.body # "other")
    PROVE  Format!Exported(items)
<1> DEFINE defs == Format!ItemsToCodeSnippets(items)
           n == Len(items)
           R == {Format!Definition(items[k]) : k \in SnippetsUpTo(items, n)}
           Read(key) == [name |-> key, prefix |-> defs[key].prefix, body |-> defs[key].body,
                         description |-> defs[key].description, languages |-> Format!ParseScope(defs[key].scope)]
           back == Format!ParseCodeSnippets(defs)
           snippets == {k \in DOMAIN items : items[k].type = "snippet"}
           Kept(k) == {"description"}
                      \cup {f \in {"languages"} :
                               items[k][f] \in {"undefined", "empty", "list", "pieces", "lines"}}
<1>1. defs \in Tables(Seq(U), R) /\ Written(defs, items, n)
  BY SnippetsAreWritten
<1> HIDE DEF defs
<1>2. IsFiniteSet(DOMAIN defs) /\ defs \in [DOMAIN defs -> R]
  <2> HIDE DEF R
  <2> QED
    BY <1>1, TablesAre
<1>3. \A r \in R : r.body # "other"
  <2> SUFFICES ASSUME NEW k \in SnippetsUpTo(items, n) PROVE Format!Definition(items[k]).body # "other"
    OBVIOUS
  <2>1. k \in 1..n /\ items[k].type = "snippet" /\ items[k] \in T
    BY DEF SnippetsUpTo
  <2>2. Format!Definition(items[k]).body = items[k].body
    BY DEF Format!Definition
  <2> QED
    BY <2>1, <2>2
<1>4. back = {Read(key) : key \in DOMAIN defs}
  <2>1. {key \in DOMAIN defs : defs[key].body # "other"} = DOMAIN defs
    <3> HIDE DEF R
    <3> QED
      BY <1>2, <1>3
  <2> QED
    BY <2>1, Zenon DEF Format!ParseCodeSnippets
<1>5. snippets = SnippetsUpTo(items, n)
  BY DEF SnippetsUpTo
<1> HIDE DEF R, back, snippets
<1>6. Cardinality(back) = Cardinality(DOMAIN defs)
  <2> DEFINE f == [key \in DOMAIN defs |-> Read(key)]
  <2>1. \A key \in DOMAIN defs : Read(key).name = key
    OBVIOUS
  <2> HIDE DEF Read
  <2>2. f \in Bijection(DOMAIN defs, back)
    BY <1>4, <2>1 DEF Bijection, Injection, Surjection, IsInjective
  <2>3. ExistsBijection(DOMAIN defs, back)
    BY <2>2 DEF ExistsBijection
  <2> QED
    BY <1>2, <2>3, FS_Bijection
<1>7. ASSUME NEW k \in snippets
      PROVE  \E s \in back : s.body = items[k].body /\ Format!SayTheSame(s, items[k], Kept(k))
  <2>1. PICK key \in DOMAIN defs : defs[key] = Format!Definition(items[k])
    BY <1>1, <1>5, <1>7 DEF Written
  <2>2. Read(key) \in back
    BY <1>4
  <2> DEFINE s == Read(key)
             it == items[k]
  <2>3. /\ s.body = it.body
        /\ s.description = IF it.description = "empty" THEN "undefined" ELSE it.description
        /\ s.languages = Format!ParseScope(IF it.languages = "empty" THEN "undefined" ELSE it.languages)
    BY <2>1 DEF Format!Definition
  <2> HIDE DEF s, it
  <2>4. Format!Says(s, "description") = Format!Says(it, "description")
    BY <2>3 DEF Format!Says
  <2>5. ASSUME it.languages \in {"undefined", "empty", "list", "pieces", "lines"}
        PROVE  Format!Says(s, "languages") = Format!Says(it, "languages")
    BY <2>3, <2>5 DEF Format!Says, Format!ParseScope, Format!SplitAgain, Format!Trimmed
  <2>6. Format!SayTheSame(s, it, Kept(k))
    BY <2>4, <2>5 DEF Format!SayTheSame, it
  <2> QED
    BY <2>2, <2>3, <2>6 DEF s, it
<1>8. Format!Cardinality(back) = Format!Cardinality(snippets)
  BY <1>1, <1>5, <1>6, FormatSizesAre DEF Written
<1> QED
  BY <1>7, <1>8, Zenon DEF Format!Exported, back, defs, snippets

LEMMA GivenExports ==
  ASSUME FunctionsInit, input.about = "export"
  PROVE  \E items \in ExportedItems : input.given = [items |-> Numbered(items)]
<1>1. CASE input = [about |-> "walk"]
  BY <1>1
<1>2. CASE SomeInput
  BY <1>2 DEF SomeInput, Given
<1> QED
  BY <1>1, <1>2 DEF FunctionsInit

LEMMA BodiesAre == \A k \in 1..4 : <<"b1", "b2", "b3", "b4">>[k] # "other"
<1> DEFINE b == <<"b1", "b2", "b3", "b4">>
<1>1. b[1] # "other" /\ b[2] # "other" /\ b[3] # "other" /\ b[4] # "other"
  OBVIOUS
<1>2. \A k \in 1..4 : k = 1 \/ k = 2 \/ k = 3 \/ k = 4
  OBVIOUS
<1> HIDE DEF b
<1>3. \A k \in 1..4 : b[k] # "other"
  BY <1>1, <1>2
<1> QED
  BY <1>3 DEF b

LEMMA NumberedAre ==
    ASSUME NEW items \in ExportedItems
    PROVE  \E U, T : /\ Nat \subseteq U /\ Numbered(items) \in Seq(T)
                     /\ \A item \in T : item.title \in Seq(U) /\ (item.type = "snippet" => item.body # "other")
<1> DEFINE U == Nat \cup {"t", "u"}
           Item == [type : {"snippet"}, title : {<<"t">>, <<"t", 2>>, <<"u">>},
                    languages : {"undefined", "commas", "lines"},
                    prefix : {"undefined"}, body : {"text"}, description : {"blank"}]
           given == Numbered(items)
<1>1. PICK n \in 0..4 : items \in [1..n -> Item]
  BY DEF ExportedItems
<1>2. n \in Nat /\ \A k \in 1..n : k \in 1..4 /\ items[k] \in Item
  BY <1>1
<1>3. <<"t">> \in Seq(U) /\ <<"t", 2>> \in Seq(U) /\ <<"u">> \in Seq(U) /\ Nat \subseteq U
  <2>1. "t" \in U /\ "u" \in U /\ 2 \in U
    OBVIOUS
  <2>2. Nat \subseteq U
    OBVIOUS
  <2> HIDE DEF U
  <2> QED
    BY <2>1, <2>2, ShortSequences, Zenon
<1> HIDE DEF U
<1>4. \A item \in Item : item.title \in Seq(U)
  BY <1>3
<1>5. DOMAIN given = 1..n /\ given = [k \in 1..n |-> given[k]]
  BY <1>1 DEF Numbered
<1>6. ASSUME NEW k \in 1..n
      PROVE  given[k].title \in Seq(U) /\ given[k].body # "other"
  <2> DEFINE b == <<"b1", "b2", "b3", "b4">>[k]
  <2>1. b # "other"
    BY <1>2, BodiesAre
  <2> HIDE DEF b
  <2>2. given[k] = [items[k] EXCEPT !.body = b]
    BY <1>1 DEF Numbered, b
  <2>3. items[k] \in Item
    BY <1>2
  <2>4. given[k].title = items[k].title /\ given[k].body = b
    <3> HIDE DEF given
    <3> QED
      BY <2>2, <2>3
  <2> QED
    BY <1>4, <2>1, <2>3, <2>4
<1> HIDE DEF given, Item
<1> DEFINE T == {given[k] : k \in 1..n}
<1>7. given \in Seq(T)
  BY <1>2, <1>5
<1>8. \A item \in T : item.title \in Seq(U) /\ (item.type = "snippet" => item.body # "other")
  BY <1>6
<1> HIDE DEF T
<1> QED
  BY <1>3, <1>7, <1>8, Zenon DEF given

(* What the run checks of exports holds for any of its lists.              *)
THEOREM ExportsAreKept == FunctionsSpec => []ExportKeepsEverySnippet
<1>1. FunctionsInit => ExportKeepsEverySnippet
  <2> SUFFICES ASSUME FunctionsInit, input.about = "export"
               PROVE  Format!Exported(input.given.items)
    BY DEF ExportKeepsEverySnippet
  <2>1. PICK items \in ExportedItems : input.given = [items |-> Numbered(items)]
    BY GivenExports
  <2>2. input.given.items = Numbered(items)
    BY <2>1
  <2>3. \E U, T : /\ Nat \subseteq U /\ Numbered(items) \in Seq(T)
                  /\ \A item \in T : item.title \in Seq(U) /\ (item.type = "snippet" => item.body # "other")
    BY NumberedAre
  <2>4. Format!Exported(Numbered(items))
    BY <2>3, ExportsAreImported
  <2> QED
    BY <2>2, <2>4
<1>2. ExportKeepsEverySnippet /\ [FunctionsNext]_<<vars, input>> => ExportKeepsEverySnippet'
  <2> SUFFICES ASSUME ExportKeepsEverySnippet, [FunctionsNext]_<<vars, input>>
               PROVE  ExportKeepsEverySnippet'
    OBVIOUS
  <2>1. input' = input
    BY DEF FunctionsNext
  <2> QED
    BY <2>1 DEF ExportKeepsEverySnippet
<1> QED
  BY <1>1, <1>2, PTL DEF FunctionsSpec

-----------------------------------------------------------------------------
(* The order of groups: TreeView.                                          *)

(* Groups that can be put in order: of no two are both order and name the same. *)
Ordered(groups, S) ==
    /\ IsFiniteSet(S)
    /\ \A g \in S : groups[g].order \in Int /\ groups[g].name \in Int
    /\ \A g, h \in S : g # h => groups[g].name # groups[h].name

(* The groups of S from the first to the last. *)
Enumerates(s, S, groups) ==
    /\ s \in Seq(S)
    /\ \A x \in S : \E k \in 1..Len(s) : s[k] = x
    /\ \A i, j \in 1..Len(s) : i < j => Tree!Precedes(groups, s[i], s[j])

LEMMA PrecedesIsStrict ==
    ASSUME NEW groups, NEW S, Ordered(groups, S)
    PROVE  /\ \A a \in S : ~Tree!Precedes(groups, a, a)
           /\ \A a, b, c \in S : Tree!Precedes(groups, a, b) /\ Tree!Precedes(groups, b, c) => Tree!Precedes(groups, a, c)
           /\ \A a, b \in S : Tree!Precedes(groups, a, b) => ~Tree!Precedes(groups, b, a)
           /\ \A a, b \in S : a # b => Tree!Precedes(groups, a, b) \/ Tree!Precedes(groups, b, a)
BY DEF Ordered, Tree!Precedes

(* How many groups come before one says which one it is. *)
LEMMA GroupsAreSorted ==
    ASSUME NEW groups, NEW S, Ordered(groups, S)
    PROVE  Enumerates(Tree!SortGroups(groups, S), S, groups)
<1> DEFINE n == Cardinality(S)
           Lower(g) == {h \in S : Tree!Precedes(groups, h, g)}
           rank == [g \in S |-> Cardinality(Lower(g))]
           s == Tree!SortGroups(groups, S)
<1>1. IsFiniteSet(S) /\ n \in Nat
  BY FS_CardinalityType DEF Ordered
<1>2. \A g \in S : IsFiniteSet(Lower(g)) /\ rank[g] \in Nat
  <2> TAKE g \in S
  <2>1. Lower(g) \in SUBSET S
    OBVIOUS
  <2> HIDE DEF Lower
  <2>2. IsFiniteSet(Lower(g))
    BY <1>1, <2>1, FS_Subset
  <2> QED
    BY <2>2, FS_CardinalityType
<1>3. ASSUME NEW A \in SUBSET S, NEW B \in SUBSET A, NEW x \in A \ B
      PROVE  Cardinality(B) < Cardinality(A)
  <2>1. IsFiniteSet(A) /\ Cardinality(A) \in Nat
    BY <1>1, FS_Subset, FS_CardinalityType
  <2>2. Cardinality(B) <= Cardinality(A) /\ Cardinality(B) # Cardinality(A) /\ IsFiniteSet(B)
    BY <2>1, FS_Subset
  <2>3. Cardinality(B) \in Nat
    BY <2>2, FS_CardinalityType
  <2> QED
    BY <2>1, <2>2, <2>3
<1>4. \A a, b \in S : Tree!Precedes(groups, a, b) => rank[a] < rank[b]
  <2> SUFFICES ASSUME NEW a \in S, NEW b \in S, Tree!Precedes(groups, a, b) PROVE rank[a] < rank[b]
    OBVIOUS
  <2>1. Lower(b) \in SUBSET S /\ Lower(a) \in SUBSET Lower(b) /\ a \in Lower(b) \ Lower(a)
    BY PrecedesIsStrict
  <2> HIDE DEF Lower
  <2>2. Cardinality(Lower(a)) < Cardinality(Lower(b))
    BY <1>3, <2>1
  <2> QED
    BY <2>2
<1>5. \A a \in S : rank[a] < n
  <2> TAKE a \in S
  <2>1. S \in SUBSET S /\ Lower(a) \in SUBSET S /\ a \in S \ Lower(a)
    BY PrecedesIsStrict
  <2> HIDE DEF Lower
  <2>2. Cardinality(Lower(a)) < Cardinality(S)
    BY <1>3, <2>1
  <2> QED
    BY <2>2
<1>a. \A g \in S : rank[g] \in Nat
  BY <1>2
<1> HIDE DEF rank, Lower
<1>6. \A a, b \in S : a # b => rank[a] # rank[b]
  BY <1>a, <1>4, PrecedesIsStrict
<1>7. \A k \in 1..n : \E g \in S : rank[g] = k - 1
  <2> DEFINE R == 0..n - 1
  <2>1. IsFiniteSet(R) /\ Cardinality(R) = n
    BY <1>1, FS_Interval
  <2>2. rank \in [S -> R]
    <3>1. \A a \in S : rank[a] \in R
      BY <1>1, <1>a, <1>5
    <3>2. rank = [g \in S |-> rank[g]]
      BY DEF rank
    <3> QED
      BY <3>1, <3>2
  <2>3. rank \in Injection(S, R)
    BY <1>6, <2>2 DEF Injection, IsInjective
  <2>4. rank \in Surjection(S, R)
    <3> HIDE DEF R
    <3> QED
      BY <2>1, <2>3, FS_Injection
  <2>5. \A k \in 1..n : k - 1 \in R
    BY <1>1
  <2> QED
    BY <2>4, <2>5 DEF Surjection
<1>8. /\ s = [k \in 1..n |-> CHOOSE g \in S : rank[g] = k - 1]
  <2>1. s = [k \in 1..n |-> CHOOSE g \in S : Cardinality(Lower(g)) = k - 1]
    BY DEF Tree!SortGroups, Tree!Cardinality, Cardinality, Lower, n, s
  <2>2. \A g \in S : rank[g] = Cardinality(Lower(g))
    BY DEF rank
  <2>3. \A k \in 1..n : (CHOOSE g \in S : Cardinality(Lower(g)) = k - 1) = (CHOOSE g \in S : rank[g] = k - 1)
    BY <2>2
  <2> QED
    BY <2>1, <2>3
<1>9. \A k \in 1..n : s[k] \in S /\ rank[s[k]] = k - 1
  BY <1>7, <1>8
<1>10. s \in Seq(S) /\ Len(s) = n
  BY <1>1, <1>8, <1>9
<1> HIDE DEF s, n
<1>11. \A x \in S : \E k \in 1..n : s[k] = x
  <2> SUFFICES ASSUME NEW x \in S PROVE \E k \in 1..n : s[k] = x
    OBVIOUS
  <2>1. rank[x] + 1 \in 1..n /\ (rank[x] + 1) - 1 = rank[x]
    BY <1>1, <1>a, <1>5
  <2> QED
    BY <1>6, <1>9, <2>1
<1>12. \A i, j \in 1..n : i < j => Tree!Precedes(groups, s[i], s[j])
  <2> SUFFICES ASSUME NEW i \in 1..n, NEW j \in 1..n, i < j PROVE Tree!Precedes(groups, s[i], s[j])
    OBVIOUS
  <2>1. s[i] \in S /\ s[j] \in S /\ rank[s[i]] < rank[s[j]]
    BY <1>1, <1>9
  <2>2. s[i] # s[j] /\ ~Tree!Precedes(groups, s[j], s[i])
    BY <1>a, <1>4, <2>1
  <2> QED
    BY <2>1, <2>2, PrecedesIsStrict
<1> QED
  BY <1>10, <1>11, <1>12 DEF Enumerates, s

(* Of one set in one order there is one list. *)
LEMMA EnumerationIsUnique ==
    ASSUME NEW groups, NEW S, Ordered(groups, S),
           NEW s, Enumerates(s, S, groups), NEW t, Enumerates(t, S, groups)
    PROVE  s = t
<1>1. /\ s \in Seq(S) /\ t \in Seq(S)
      /\ \A x \in S : (\E k \in 1..Len(s) : s[k] = x) /\ (\E k \in 1..Len(t) : t[k] = x)
      /\ \A i, j \in 1..Len(s) : i < j => Tree!Precedes(groups, s[i], s[j])
      /\ \A i, j \in 1..Len(t) : i < j => Tree!Precedes(groups, t[i], t[j])
  BY DEF Enumerates
<1> DEFINE m == Len(s)
           n == Len(t)
           Differ == {k \in Nat : k \in 1..m /\ k \in 1..n /\ s[k] # t[k]}
<1>2. m \in Nat /\ n \in Nat /\ (\A k \in 1..m : s[k] \in S) /\ (\A k \in 1..n : t[k] \in S)
  BY <1>1
<1> HIDE DEF m, n
<1>3. /\ \A i, j \in 1..m : i # j => s[i] # s[j]
      /\ \A i, j \in 1..n : i # j => t[i] # t[j]
  <2>1. \A i, j \in 1..m : i # j => i < j \/ j < i
    BY <1>2
  <2>2. \A i, j \in 1..n : i # j => i < j \/ j < i
    BY <1>2
  <2> QED
    BY <1>1, <1>2, <2>1, <2>2, PrecedesIsStrict DEF m, n
<1>4. Differ = {}
  <2> SUFFICES ASSUME Differ # {} PROVE FALSE
    OBVIOUS
  <2>1. PICK k \in Differ : \A l \in Differ : k <= l
    <3>1. Differ \in SUBSET Nat
      OBVIOUS
    <3> HIDE DEF Differ
    <3> QED
      BY <3>1, LeastExists
  <2>2. k \in 1..m /\ k \in 1..n /\ s[k] # t[k]
    OBVIOUS
  <2>3. \A l \in 1..k - 1 : l \in 1..m /\ l \in 1..n /\ l # k /\ s[l] = t[l]
    <3> TAKE l \in 1..k - 1
    <3>1. l \in Nat /\ l \in 1..m /\ l \in 1..n /\ ~(k <= l) /\ l # k
      BY <1>2, <2>2
    <3> QED
      BY <2>1, <3>1
  <2>4. PICK j \in 1..n : t[j] = s[k]
    BY <1>1, <1>2, <2>2 DEF n
  <2>5. PICK i \in 1..m : s[i] = t[k]
    BY <1>1, <1>2, <2>2 DEF m
  <2>6. j > k
    <3>1. j # k
      BY <2>2, <2>4
    <3>2. j \notin 1..k - 1
      BY <1>3, <2>2, <2>3, <2>4
    <3> QED
      BY <1>2, <2>2, <3>1, <3>2
  <2>7. i > k
    <3>1. i # k
      BY <2>2, <2>5
    <3>2. i \notin 1..k - 1
      BY <1>3, <2>2, <2>3, <2>5
    <3> QED
      BY <1>2, <2>2, <3>1, <3>2
  <2>8. Tree!Precedes(groups, t[k], t[j]) /\ Tree!Precedes(groups, s[k], s[i])
    <3>1. k < j /\ k < i
      BY <2>6, <2>7
    <3> QED
      BY <1>1, <2>2, <3>1 DEF m, n
  <2> QED
    BY <1>2, <2>2, <2>4, <2>5, <2>8, PrecedesIsStrict
<1>5. \A k \in Nat : k \in 1..m /\ k \in 1..n => s[k] = t[k]
  BY <1>4
<1> HIDE DEF Differ
<1>6. ~(m < n)
  <2> SUFFICES ASSUME m < n PROVE FALSE
    OBVIOUS
  <2>1. m + 1 \in 1..n /\ m + 1 \notin 1..m /\ \A k \in 1..m : k \in Nat /\ k \in 1..n
    BY <1>2
  <2>2. PICK k \in 1..m : s[k] = t[m + 1]
    BY <1>1, <1>2, <2>1 DEF m
  <2> QED
    BY <1>3, <1>5, <2>1, <2>2
<1>7. ~(n < m)
  <2> SUFFICES ASSUME n < m PROVE FALSE
    OBVIOUS
  <2>1. n + 1 \in 1..m /\ n + 1 \notin 1..n /\ \A k \in 1..n : k \in Nat /\ k \in 1..m
    BY <1>2
  <2>2. PICK k \in 1..n : t[k] = s[n + 1]
    BY <1>1, <1>2, <2>1 DEF n
  <2> QED
    BY <1>3, <1>5, <2>1, <2>2
<1>8. m = n
  BY <1>2, <1>6, <1>7
<1>9. \A k \in 1..m : s[k] = t[k]
  BY <1>2, <1>5, <1>8
<1>10. s = [k \in 1..m |-> s[k]] /\ t = [k \in 1..n |-> t[k]]
  BY <1>1 DEF m, n
<1> QED
  BY <1>8, <1>9, <1>10

Increasing(s, groups) == \A i, j \in 1..Len(s) : i < j => Tree!Precedes(groups, s[i], s[j])

LEMMA SelectedIncreases ==
    ASSUME NEW groups, NEW T, NEW list \in Seq(T), NEW these, Increasing(list, groups)
    PROVE  /\ Rank!Selected(list, these) \in Seq(T)
           /\ Increasing(Rank!Selected(list, these), groups)
           /\ OfPrefix(Rank!Selected(list, these), Len(Rank!Selected(list, these)))
                 = OfPrefix(list, Len(list)) \cap these
<1> DEFINE n == Len(list)
<1>0. PICK g : Selecting(g, T, list, these) /\ HoldsThese(g, list, these)
  BY SelectedHas
<1>1. /\ g \in [0..n -> Seq(T)]
      /\ g[0] = << >>
      /\ \A k \in 1..n : g[k] = IF list[k] \in these THEN Append(g[k - 1], list[k]) ELSE g[k - 1]
      /\ Rank!Selected(list, these) = g[n]
      /\ \A k \in 0..n : OfPrefix(g[k], Len(g[k])) = OfPrefix(list, k) \cap these
  BY <1>0 DEF Selecting, HoldsThese
<1>2. n \in Nat /\ \A k \in 1..n : list[k] \in T
  OBVIOUS
<1>3. \A i, j \in 1..n : i < j => Tree!Precedes(groups, list[i], list[j])
  BY DEF Increasing
<1> HIDE DEF n
<1> DEFINE D == {k \in 0..n : Increasing(g[k], groups)}
<1>4. 0 \in D
  <2>1. Increasing(<< >>, groups) /\ 0 \in 0..n
    BY <1>2 DEF Increasing
  <2> QED
    BY <1>1, <2>1
<1>5. ASSUME NEW k \in 0..n, k < n, k \in D
      PROVE  k + 1 \in D
  <2> DEFINE i == k + 1
             e == list[i]
             s == g[k]
             m == Len(s)
  <2>1. i \in 1..n /\ i \in 0..n /\ i - 1 = k /\ k \in Nat /\ \A j \in 1..k : j \in 1..n /\ j < i
    BY <1>2, <1>5
  <2>2. g[i] = (IF e \in these THEN Append(s, e) ELSE s) /\ s \in Seq(T) /\ e \in T /\ Increasing(s, groups)
    BY <1>1, <1>2, <1>5, <2>1
  <2>3. \A j \in 1..m : Tree!Precedes(groups, s[j], e)
    <3> TAKE j \in 1..m
    <3>1. s[j] \in OfPrefix(list, k)
      BY <1>1, <1>5 DEF OfPrefix
    <3> QED
      BY <1>3, <2>1, <3>1 DEF OfPrefix
  <2>4. /\ m \in Nat /\ Len(Append(s, e)) = m + 1 /\ Append(s, e)[m + 1] = e
        /\ \A j \in 1..m : Append(s, e)[j] = s[j]
    BY <2>2
  <2> HIDE DEF i, e, s, m
  <2>5. Increasing(Append(s, e), groups)
    <3> SUFFICES ASSUME NEW a \in 1..m + 1, NEW b \in 1..m + 1, a < b
                 PROVE  Tree!Precedes(groups, Append(s, e)[a], Append(s, e)[b])
      BY <2>4 DEF Increasing
    <3>1. a \in 1..m
      BY <2>4
    <3>2. b = m + 1 \/ b \in 1..m
      BY <2>4
    <3> QED
      BY <2>2, <2>3, <2>4, <3>1, <3>2 DEF Increasing, m
  <2>6. Increasing(g[i], groups)
    BY <2>2, <2>5
  <2> QED
    BY <2>1, <2>6 DEF i
<1> HIDE DEF D
<1>6. n \in D
  <2>1. n >= 1 => 1 \in D
    <3>1. 0 \in 0..n /\ (n >= 1 => 0 < n) /\ 0 + 1 = 1
      BY <1>2
    <3> QED
      BY <1>4, <1>5, <3>1
  <2>2. \A k \in 1..n : k < n /\ k \in D => k + 1 \in D
    BY <1>5
  <2>3. 1..n \subseteq D
    BY <1>2, <2>1, <2>2, UpTo
  <2>4. n = 0 \/ n \in 1..n
    BY <1>2
  <2> QED
    BY <1>4, <2>3, <2>4
<1>7. n \in 0..n
  BY <1>2
<1> QED
  BY <1>1, <1>6, <1>7 DEF D, n

LEMMA WithoutEnumerates ==
    ASSUME NEW groups, NEW S, NEW s, Enumerates(s, S, groups), NEW M
    PROVE  Enumerates(Tree!Without(s, M), S \ M, groups)
<1> DEFINE r == Tree!Without(s, M)
<1>1. s \in Seq(S) /\ Increasing(s, groups) /\ \A x \in S : \E k \in 1..Len(s) : s[k] = x
  BY DEF Enumerates, Increasing
<1>2. OfPrefix(s, Len(s)) = S /\ Tree!ToSet(s) = S
  BY <1>1 DEF OfPrefix, Tree!ToSet
<1>3. r = Rank!Selected(s, S \ M)
  BY <1>2 DEF Tree!Without, Tree!Selected, Rank!Selected
<1>4. r \in Seq(S) /\ Increasing(r, groups) /\ OfPrefix(r, Len(r)) = S \ M
  BY <1>1, <1>2, <1>3, SelectedIncreases
<1> HIDE DEF r
<1>5. \A k \in 1..Len(r) : r[k] \in S \ M
  BY <1>4 DEF OfPrefix
<1>6. r \in Seq(S \ M)
  <2>1. r = [k \in 1..Len(r) |-> r[k]] /\ Len(r) \in Nat
    BY <1>4
  <2> QED
    BY <1>5, <2>1
<1>7. \A x \in S \ M : \E k \in 1..Len(r) : r[k] = x
  BY <1>4 DEF OfPrefix
<1> QED
  BY <1>4, <1>6, <1>7 DEF Enumerates, Increasing, r

(* What is kept of an order when some groups move. *)
Kept(before, after, S, M) ==
    \A a, b \in S \ M : Tree!Precedes(after, a, b) <=> Tree!Precedes(before, a, b)

LEMMA SameOrderSameList ==
    ASSUME NEW before, NEW after, NEW A, NEW B, NEW M,
           Ordered(before, B), Ordered(after, A), A \ M = B \ M, Kept(before, after, B, M)
    PROVE  Tree!Without(Tree!SortGroups(after, A), M) = Tree!Without(Tree!SortGroups(before, B), M)
<1> DEFINE s == Tree!Without(Tree!SortGroups(after, A), M)
           t == Tree!Without(Tree!SortGroups(before, B), M)
<1>1. Enumerates(s, B \ M, after) /\ Enumerates(t, B \ M, before)
  BY GroupsAreSorted, WithoutEnumerates
<1> HIDE DEF s, t
<1>2. Enumerates(s, B \ M, before)
  <2>1. s \in Seq(B \ M) /\ \A k \in 1..Len(s) : s[k] \in B \ M
    BY <1>1 DEF Enumerates
  <2> QED
    BY <1>1, <2>1 DEF Enumerates, Kept
<1>3. Ordered(before, B \ M)
  <2>1. IsFiniteSet(B \ M)
    BY FS_Subset DEF Ordered
  <2> QED
    BY <2>1 DEF Ordered
<1>4. s = t
  BY <1>1, <1>2, <1>3, EnumerationIsUnique
<1> QED
  BY <1>4 DEF s, t

(* What comes before stands before. *)
LEMMA PlacesFollowTheOrder ==
    ASSUME NEW groups, NEW S, Ordered(groups, S), NEW s, Enumerates(s, S, groups)
    PROVE  /\ Len(s) \in Nat /\ \A k \in 1..Len(s) : s[k] \in S
           /\ \A x \in S : \E k \in 1..Len(s) : s[k] = x
           /\ \A i, j \in 1..Len(s) : (i < j <=> Tree!Precedes(groups, s[i], s[j])) /\ (s[i] = s[j] <=> i = j)
<1> DEFINE n == Len(s)
<1>1. n \in Nat /\ (\A k \in 1..n : s[k] \in S) /\ \A i, j \in 1..n : i < j => Tree!Precedes(groups, s[i], s[j])
  BY DEF Enumerates
<1>2. \A i, j \in 1..n : i < j \/ j < i \/ i = j
  BY <1>1
<1>3. \A i, j \in 1..n : i < j => i # j
  BY <1>1
<1> HIDE DEF n
<1>4. \A i, j \in 1..n : (i < j <=> Tree!Precedes(groups, s[i], s[j])) /\ (s[i] = s[j] <=> i = j)
  BY <1>1, <1>2, <1>3, PrecedesIsStrict
<1> QED
  BY <1>1, <1>4 DEF n, Enumerates

LEMMA LastIs ==
    ASSUME NEW groups, NEW S, Ordered(groups, S), NEW s, Enumerates(s, S, groups),
           NEW x \in S, \A z \in S : z # x => Tree!Precedes(groups, z, x)
    PROVE  Tree!Last(s) = x
<1> DEFINE n == Len(s)
<1>1. /\ n \in Nat /\ \A k \in 1..n : s[k] \in S
      /\ \A i, j \in 1..n : (i < j <=> Tree!Precedes(groups, s[i], s[j])) /\ (s[i] = s[j] <=> i = j)
  BY PlacesFollowTheOrder
<1>2. PICK k \in 1..n : s[k] = x
  BY PlacesFollowTheOrder
<1> HIDE DEF n
<1>3. n \in 1..n /\ ~(n < k)
  BY <1>1, <1>2
<1>4. k = n
  <2> SUFFICES ASSUME k # n PROVE FALSE
    OBVIOUS
  <2>1. s[n] \in S /\ s[n] # x
    BY <1>1, <1>2, <1>3
  <2>2. Tree!Precedes(groups, s[n], s[k])
    BY <1>2, <2>1
  <2> QED
    BY <1>1, <1>3, <2>2
<1> QED
  BY <1>2, <1>4 DEF n, Tree!Last

(* Nothing comes between these two. *)
Follows(groups, S, t, g) ==
    /\ t \in S /\ g \in S /\ Tree!Precedes(groups, t, g)
    /\ \A z \in S : Tree!Precedes(groups, t, z) => z = g \/ Tree!Precedes(groups, g, z)

LEMMA FollowsAtOnce ==
    ASSUME NEW groups, NEW S, Ordered(groups, S), NEW s, Enumerates(s, S, groups),
           NEW t, NEW g, Follows(groups, S, t, g)
    PROVE  <<t, g>> \in {Tree!SubSeq(s, k, k + 1) : k \in 1..Len(s) - 1}
<1> DEFINE n == Len(s)
<1>1. /\ n \in Nat /\ \A k \in 1..n : s[k] \in S
      /\ \A i, j \in 1..n : (i < j <=> Tree!Precedes(groups, s[i], s[j])) /\ (s[i] = s[j] <=> i = j)
  BY PlacesFollowTheOrder
<1>2. PICK k \in 1..n : s[k] = t
  BY PlacesFollowTheOrder DEF Follows
<1>3. PICK l \in 1..n : s[l] = g
  BY PlacesFollowTheOrder DEF Follows
<1>4. s \in Seq(S)
  BY DEF Enumerates
<1>5. n = Len(s)
  OBVIOUS
<1> HIDE DEF n
<1>6. k < l
  BY <1>1, <1>2, <1>3 DEF Follows
<1>7. k + 1 \in 1..n /\ k < k + 1 /\ k \in 1..n - 1
  BY <1>1, <1>6
<1>8. l = k + 1
  <2> SUFFICES ASSUME l # k + 1 PROVE FALSE
    OBVIOUS
  <2>1. Tree!Precedes(groups, t, s[k + 1]) /\ s[k + 1] \in S /\ s[k + 1] # g
    BY <1>1, <1>2, <1>3, <1>7
  <2>2. Tree!Precedes(groups, s[l], s[k + 1])
    BY <1>3, <2>1 DEF Follows
  <2>3. l < k + 1
    BY <1>1, <1>7, <2>2
  <2> QED
    BY <1>1, <1>6, <2>3
<1>9. <<t, g>> = SubSeq(s, k, k + 1)
  <2>1. /\ SubSeq(s, k, k + 1) \in Seq(S) /\ Len(SubSeq(s, k, k + 1)) = 2
        /\ SubSeq(s, k, k + 1)[1] = s[k] /\ SubSeq(s, k, k + 1)[2] = s[k + 1]
    BY <1>1, <1>4, <1>5, <1>7
  <2> QED
    BY <1>2, <1>3, <1>8, <2>1
<1> QED
  BY <1>5, <1>7, <1>9

(* The next order is above that of every sibling. *)
LEMMA NextOrderIs ==
    ASSUME NEW groups, NEW S, Ordered(groups, S)
    PROVE  Tree!NextOrder(groups, S) \in Int /\ \A x \in S : groups[x].order < Tree!NextOrder(groups, S)
<1> DEFINE s == Tree!SortGroups(groups, S)
           n == Len(s)
           O == {groups[x].order : x \in S} \cup {-1}
<1>1. /\ n \in Nat /\ (\A k \in 1..n : s[k] \in S) /\ (\A x \in S : \E k \in 1..n : s[k] = x)
      /\ \A i, j \in 1..n : i < j => Tree!Precedes(groups, s[i], s[j])
  <2>1. Enumerates(s, S, groups)
    BY GroupsAreSorted
  <2> HIDE DEF s
  <2> QED
    BY <2>1, PlacesFollowTheOrder
<1> HIDE DEF n, s
<1>2. \A x \in S : groups[x].order \in Int
  BY DEF Ordered
<1>3. \E m \in O : \A o \in O : m >= o
  <2>1. CASE n = 0
    <3>1. S = {}
      BY <1>1, <2>1
    <3> QED
      BY <3>1
  <2>2. CASE n # 0
    <3>1. n \in 1..n /\ \A k \in 1..n : k = n \/ k < n
      BY <1>1, <2>2
    <3> DEFINE x == s[n]
    <3>2. x \in S /\ \A y \in S : y = x \/ Tree!Precedes(groups, y, x)
      BY <1>1, <3>1
    <3> HIDE DEF x
    <3>3. \A y \in S : groups[y].order <= groups[x].order
      BY <1>2, <3>2 DEF Tree!Precedes
    <3>4. CASE groups[x].order >= -1
      <4>1. groups[x].order \in O /\ \A o \in O : groups[x].order >= o
        BY <1>2, <3>2, <3>3, <3>4
      <4> QED
        BY <4>1
    <3>5. CASE ~(groups[x].order >= -1)
      <4>1. -1 \in O /\ \A o \in O : -1 >= o
        BY <1>2, <3>2, <3>3, <3>5
      <4> QED
        BY <4>1
    <3> QED
      BY <3>4, <3>5
  <2> QED
    BY <2>1, <2>2
<1> DEFINE m == Tree!Max(O)
<1>4. m \in O /\ \A o \in O : m >= o
  <2> HIDE DEF O
  <2> QED
    BY <1>3 DEF Tree!Max
<1>5. O \subseteq Int /\ \A x \in S : groups[x].order \in O
  BY <1>2
<1>6. Tree!NextOrder(groups, S) = m + 1
  BY DEF Tree!NextOrder
<1> HIDE DEF O, m
<1>7. m \in Int /\ \A x \in S : groups[x].order \in Int /\ groups[x].order <= m
  BY <1>4, <1>5
<1>8. m + 1 \in Int /\ \A x \in S : groups[x].order < m + 1
  BY <1>7
<1> QED
  BY <1>6, <1>8

(* The groups of a scope that is in memory: finitely many, of different    *)
(* names, in a forest.                                                     *)
GroupRecord == [parent : Ref, order : Int, name : Int]
Tidy(groups) ==
    /\ IsFiniteSet(DOMAIN groups) /\ DOMAIN groups \subseteq GroupId
    /\ groups \in [DOMAIN groups -> GroupRecord]
    /\ \A g, h \in DOMAIN groups : g # h => groups[g].name # groups[h].name
    /\ Tree!Forest(Tree!ParentsOf(groups)) /\ Tree!ParentsResolve(Tree!ParentsOf(groups))

LEMMA ParentsAre ==
    ASSUME NEW groups
    PROVE  /\ DOMAIN Tree!ParentsOf(groups) = DOMAIN groups
           /\ \A g \in DOMAIN groups : Tree!ParentsOf(groups)[g] = groups[g].parent
BY DEF Tree!ParentsOf

LEMMA ChildrenAreOrdered ==
    ASSUME NEW groups, Tidy(groups), NEW p, NEW M
    PROVE  Ordered(groups, Tree!ChildrenOf(groups, p)) /\ Ordered(groups, Tree!ChildrenOf(groups, p) \ M)
<1>1. ASSUME NEW S \in SUBSET DOMAIN groups
      PROVE  Ordered(groups, S)
  <2>1. IsFiniteSet(S)
    BY FS_Subset DEF Tidy
  <2>2. \A g \in S : groups[g] \in GroupRecord
    BY DEF Tidy
  <2> QED
    BY <2>1, <2>2 DEF Tidy, Ordered, GroupRecord
<1> QED
  BY <1>1 DEF Tree!ChildrenOf

(* Saving repairs nothing of a forest. *)
LEMMA RepairChangesNothing ==
    ASSUME NEW groups, Tidy(groups)
    PROVE  Tree!Repaired(groups) = groups
<1> DEFINE p == Tree!ParentsOf(groups)
           D == DOMAIN groups
<1>1. DOMAIN p = D /\ \A g \in D : p[g] = groups[g].parent
  BY ParentsAre
<1>2. Tree!Forest(p) /\ Tree!ParentsResolve(p) /\ groups \in [D -> GroupRecord]
  BY DEF Tidy
<1> HIDE DEF p
<1>3. ASSUME NEW g \in D PROVE ~Tree!HasCycle(p, g) /\ p[g] # g
  <2>1. ASSUME Tree!HasCycle(p, g) PROVE FALSE
    BY <1>2, <2>1 DEF Tree!HasCycle, Tree!Forest
  <2>2. p[g] = g => Tree!HasCycle(p, g)
    <3>1. {g} \in SUBSET DOMAIN p
      BY <1>1
    <3> QED
      BY <3>1 DEF Tree!HasCycle
  <2> QED
    BY <2>1, <2>2
<1>4. \A g \in D : (IF p[g] \notin DOMAIN p \/ p[g] = g \/ Tree!HasCycle(p, g) THEN NoGroup ELSE p[g]) = p[g]
  BY <1>1, <1>2, <1>3 DEF Tree!ParentsResolve
<1>5. \A g \in D : Tree!NormalizeGroups(p)[g] = p[g]
  BY <1>1, <1>4 DEF Tree!NormalizeGroups
<1>6. \A g \in D : [groups[g] EXCEPT !.parent = p[g]] = groups[g]
  BY <1>1, <1>2 DEF GroupRecord
<1>7. Tree!Repaired(groups) = [g \in D |-> [groups[g] EXCEPT !.parent = Tree!NormalizeGroups(p)[g]]]
  BY DEF Tree!Repaired, p
<1> QED
  BY <1>2, <1>5, <1>6, <1>7

(* A group stays in a forest if its new parent is not below it.            *)
LEMMA MovedGroupsAreAForest ==
    ASSUME NEW groups, Tidy(groups), NEW g \in DOMAIN groups, NEW p \in DOMAIN groups \cup {NoGroup},
           ~Tree!WouldCreateCycle(Tree!ParentsOf(groups), g, p),
           NEW after, DOMAIN after = DOMAIN groups,
           after[g].parent = p, \A h \in DOMAIN groups : h # g => after[h].parent = groups[h].parent
    PROVE  Tree!Forest(Tree!ParentsOf(after)) /\ Tree!ParentsResolve(Tree!ParentsOf(after))
<1> DEFINE up == Tree!ParentsOf(groups)
           moved == Tree!ParentsOf(after)
           D == DOMAIN groups
<1>1. /\ DOMAIN up = D /\ DOMAIN moved = D /\ D \subseteq GroupId /\ moved[g] = p
      /\ \A h \in D : h # g => moved[h] = up[h]
      /\ Tree!Forest(up) /\ Tree!ParentsResolve(up)
  BY ParentsAre DEF Tidy
<1>2. ~Tree!WouldCreateCycle(up, g, p)
  OBVIOUS
<1> HIDE DEF up, moved
<1>3. Tree!ParentsResolve(moved)
  BY <1>1 DEF Tree!ParentsResolve
<1>4. ASSUME NEW S \in SUBSET D, S # {}, \A x \in S : moved[x] \in S
      PROVE  FALSE
  <2>1. \A x \in S \ {g} : up[x] \in S
    BY <1>1, <1>4
  <2>2. g \in S
    BY <1>1, <1>4, <2>1 DEF Tree!Forest
  <2>3. p \in S /\ p # NoGroup
    BY <1>1, <1>4, <2>2, NoGroupAssumption
  <2>4. PICK U \in SUBSET Tree!Ref : p \in U /\ Tree!ClosedUpward(up, U) /\ g \notin U
    BY <1>1, <1>2, <2>3 DEF Tree!WouldCreateCycle, Tree!AtOrAbove
  <2>5. \A x \in S \cap U : up[x] \in S \cap U
    BY <1>1, <2>1, <2>4 DEF Tree!ClosedUpward
  <2>6. S \cap U \in SUBSET D /\ S \cap U # {}
    BY <2>3, <2>4
  <2> QED
    BY <1>1, <2>5, <2>6 DEF Tree!Forest
<1> QED
  BY <1>1, <1>3, <1>4 DEF Tree!Forest, up, moved

(* A refused parent is the group itself or one below it.                   *)
LEMMA RefusedIsBelow ==
    ASSUME NEW groups, Tidy(groups), NEW g \in DOMAIN groups, NEW p \in DOMAIN groups \cup {NoGroup},
           Tree!WouldCreateCycle(Tree!ParentsOf(groups), g, p)
    PROVE  p \in {g} \cup Tree!DescendantGroupIds(Tree!ParentsOf(groups), g)
<1> DEFINE up == Tree!ParentsOf(groups)
<1>1. DOMAIN up = DOMAIN groups /\ DOMAIN groups \subseteq GroupId
  BY ParentsAre DEF Tidy
<1>2. Tree!WouldCreateCycle(up, g, p)
  OBVIOUS
<1> HIDE DEF up
<1>3. CASE p = g
  BY <1>3
<1>4. CASE p # g
  <2>1. Tree!AtOrAbove(up, g, p) /\ p \in DOMAIN groups
    BY <1>2, <1>4 DEF Tree!WouldCreateCycle
  <2>2. ASSUME NEW U \in SUBSET Tree!Ref, up[p] \in U, Tree!ClosedUpward(up, U)
        PROVE  g \in U
    <3>1. U \cup {p} \in SUBSET Tree!Ref /\ p \in U \cup {p} /\ Tree!ClosedUpward(up, U \cup {p})
      BY <1>1, <2>1, <2>2 DEF Tree!Ref, Tree!ClosedUpward
    <3>2. g \in U \cup {p}
      BY <2>1, <3>1 DEF Tree!AtOrAbove
    <3> QED
      BY <1>4, <3>2
  <2>3. Tree!AtOrAbove(up, g, up[p])
    BY <2>2 DEF Tree!AtOrAbove
  <2> QED
    BY <1>1, <2>1, <2>3 DEF Tree!DescendantGroupIds, up
<1> QED
  BY <1>3, <1>4

(* indexOf, counted from one. *)
PlaceOf(s, x) ==
    LET I == {i \in 1..Len(s) : s[i] = x}
    IN  IF I # {} THEN Tree!Min(I) ELSE 0

LEMMA PlaceIs ==
    ASSUME NEW S, NEW s \in Seq(S), NEW k \in 1..Len(s), \A j \in 1..Len(s) : s[j] = s[k] => j = k
    PROVE  PlaceOf(s, s[k]) = k
<1> DEFINE I == {i \in 1..Len(s) : s[i] = s[k]}
<1>1. I = {k}
  OBVIOUS
<1>2. Tree!Min({k}) = k
  <2>1. k <= k
    OBVIOUS
  <2> QED
    BY <2>1 DEF Tree!Min
<1> QED
  BY <1>1, <1>2 DEF PlaceOf

LEMMA ReorderGroupsIs ==
    ASSUME NEW groups, NEW ids
    PROVE  Tree!ReorderGroups(groups, ids) =
              Tree!Repaired([g \in DOMAIN groups |->
                                IF g \in Tree!ToSet(ids) THEN [groups[g] EXCEPT !.order = PlaceOf(ids, g) - 1]
                                ELSE groups[g]])
BY DEF Tree!ReorderGroups, Tree!SelectInSeq, PlaceOf

LEMMA ReorderAfterIs ==
    ASSUME NEW groups, NEW g, NEW t
    PROVE  LET order == Tree!Without(Tree!SortedChildren(groups, groups[g].parent), {g})
           IN  Tree!ReorderAfter(groups, g, t) =
                  Tree!ReorderGroups(groups, Rank!InsertAt(order, PlaceOf(order, t) + 1, g))
<1> DEFINE order == Tree!Without(Tree!SortedChildren(groups, groups[g].parent), {g})
           ids(index) == (SubSeq(order, 1, index) \o <<g>>) \o SubSeq(order, index + 1, Len(order))
<1>1. Tree!ReorderAfter(groups, g, t) = Tree!ReorderGroups(groups, ids(PlaceOf(order, t)))
  BY DEF Tree!ReorderAfter, Tree!SelectInSeq, PlaceOf
<1> HIDE DEF order
<1> DEFINE k == PlaceOf(order, t)
<1>2. k \in Int
  <2> DEFINE I == {i \in 1..Len(order) : order[i] = t}
  <2>1. CASE I = {}
    <3>1. k = 0
      BY <2>1 DEF PlaceOf
    <3> QED
      BY <3>1
  <2>2. CASE I # {}
    <3>1. k = Tree!Min(I)
      BY <2>2 DEF PlaceOf
    <3>2. I \in SUBSET Nat
      OBVIOUS
    <3> HIDE DEF I, k
    <3>3. \E m \in I : \A j \in I : m <= j
      BY <2>2, <3>2, LeastExists
    <3>4. Tree!Min(I) \in I
      BY <3>3 DEF Tree!Min
    <3>5. k \in I
      BY <3>1, <3>4
    <3>6. k \in Nat
      BY <3>2, <3>5
    <3> QED
      BY <3>6
  <2> QED
    BY <2>1, <2>2
<1> HIDE DEF k
<1>3. (k + 1) - 1 = k
  BY <1>2
<1>4. Rank!InsertAt(order, k + 1, g) = ids(k)
  BY <1>3 DEF Rank!InsertAt
<1> QED
  BY <1>1, <1>4 DEF order, k

(* Every group of C has a place in the list of its own. *)
Places(ids, C) ==
    /\ ids \in Seq(C)
    /\ \A x \in C : PlaceOf(ids, x) \in 1..Len(ids) /\ ids[PlaceOf(ids, x)] = x
    /\ \A k \in 1..Len(ids) : PlaceOf(ids, ids[k]) = k

LEMMA PlacesAre ==
    ASSUME NEW C, NEW ids \in Seq(C), \A x \in C : \E k \in 1..Len(ids) : ids[k] = x,
           \A j, k \in 1..Len(ids) : ids[j] = ids[k] => j = k
    PROVE  Places(ids, C)
<1>1. ASSUME NEW k \in 1..Len(ids) PROVE PlaceOf(ids, ids[k]) = k
  BY PlaceIs
<1>2. ASSUME NEW x \in C PROVE PlaceOf(ids, x) \in 1..Len(ids) /\ ids[PlaceOf(ids, x)] = x
  <2>1. PICK k \in 1..Len(ids) : ids[k] = x
    OBVIOUS
  <2> QED
    BY <1>1, <2>1
<1> QED
  BY <1>1, <1>2 DEF Places

(* The group that moves stands after t, the others as they did. *)
Inserted(groups, C, g, t, ids) ==
    /\ Places(ids, C) /\ PlaceOf(ids, g) = PlaceOf(ids, t) + 1
    /\ \A a, b \in C \ {g} : PlaceOf(ids, a) < PlaceOf(ids, b) <=> Tree!Precedes(groups, a, b)

LEMMA InsertedAfter ==
    ASSUME NEW groups, NEW C, NEW g \in C, NEW t \in C \ {g}, Ordered(groups, C \ {g}),
           NEW order, Enumerates(order, C \ {g}, groups),
           NEW ids, ids = Rank!InsertAt(order, PlaceOf(order, t) + 1, g)
    PROVE  Inserted(groups, C, g, t, ids)
<1> DEFINE n == Len(order)
           k == PlaceOf(order, t)
           S == C \ {g}
           Was(j) == IF j <= k THEN j ELSE j - 1
           Is(j) == IF j <= k THEN j ELSE j + 1
<1>1. /\ order \in Seq(S) /\ n \in Nat /\ \A j \in 1..n : order[j] \in S
      /\ \A x \in S : \E j \in 1..n : order[j] = x
      /\ \A i, j \in 1..n : (i < j <=> Tree!Precedes(groups, order[i], order[j])) /\ (order[i] = order[j] <=> i = j)
  <2>1. Enumerates(order, S, groups) /\ Ordered(groups, S)
    OBVIOUS
  <2>2. order \in Seq(S)
    BY <2>1 DEF Enumerates
  <2> HIDE DEF S
  <2> QED
    BY <2>1, <2>2, PlacesFollowTheOrder
<1>2. Places(order, S)
  <2> HIDE DEF S
  <2> QED
    BY <1>1, PlacesAre
<1>3. k \in 1..n /\ order[k] = t
  BY <1>2 DEF Places
<1>a. ids = Rank!InsertAt(order, k + 1, g) /\ order \in Seq(C)
  <2>1. \A j \in 1..n : order[j] \in C
    BY <1>1
  <2> QED
    BY <1>1, <2>1
<1>b. n = Len(order)
  OBVIOUS
<1> HIDE DEF k, n, S
<1>4. /\ ids \in Seq(C) /\ Len(ids) = n + 1 /\ ids[k + 1] = g
      /\ \A j \in 1..k : ids[j] = order[j]
      /\ \A j \in k + 2..n + 1 : ids[j] = order[j - 1]
  <2> DEFINE p == k + 1
  <2>1. p \in 1..n + 1 /\ p - 1 = k /\ p + 1 = k + 2
    BY <1>1, <1>3
  <2>2. ids = Rank!InsertAt(order, p, g)
    BY <1>a
  <2> HIDE DEF p
  <2>3. /\ ids \in Seq(C) /\ Len(ids) = n + 1 /\ ids[p] = g
        /\ \A j \in 1..p - 1 : ids[j] = order[j]
        /\ \A j \in p + 1..n + 1 : ids[j] = order[j - 1]
    <3>1. p \in 1..Len(order) + 1 /\ order \in Seq(C) /\ g \in C
      BY <1>a, <1>b, <2>1
    <3>2. /\ Rank!InsertAt(order, p, g) \in Seq(C)
          /\ Len(Rank!InsertAt(order, p, g)) = Len(order) + 1
          /\ Rank!InsertAt(order, p, g)[p] = g
          /\ \A j \in 1..p - 1 : Rank!InsertAt(order, p, g)[j] = order[j]
          /\ \A j \in p + 1..Len(order) + 1 : Rank!InsertAt(order, p, g)[j] = order[j - 1]
      BY <3>1, InsertAtIs
    <3> QED
      BY <1>b, <2>2, <3>2
  <2> QED
    BY <2>1, <2>3 DEF p
<1>5. \A j \in 1..n : /\ Is(j) \in 1..n + 1 /\ Is(j) # k + 1 /\ ids[Is(j)] = order[j]
  <2> SUFFICES ASSUME NEW j \in 1..n PROVE Is(j) \in 1..n + 1 /\ Is(j) # k + 1 /\ ids[Is(j)] = order[j]
    OBVIOUS
  <2>1. CASE j <= k
    BY <1>1, <1>3, <1>4, <2>1
  <2>2. CASE ~(j <= k)
    <3>1. j + 1 \in k + 2..n + 1 /\ (j + 1) - 1 = j /\ j + 1 # k + 1 /\ j + 1 \in 1..n + 1
      BY <1>1, <1>3, <2>2
    <3>2. ids[j + 1] = order[j]
      BY <1>4, <3>1
    <3> QED
      BY <2>2, <3>1, <3>2
  <2> QED
    BY <2>1, <2>2
<1>6. \A i, j \in 1..n : Is(i) < Is(j) <=> i < j
  BY <1>1, <1>3
<1>7. \A j \in 1..n + 1 : j = k + 1 \/ \E i \in 1..n : Is(i) = j
  <2> SUFFICES ASSUME NEW j \in 1..n + 1, j # k + 1 PROVE \E i \in 1..n : Is(i) = j
    OBVIOUS
  <2>1. CASE j <= k
    <3>1. j \in 1..n /\ Is(j) = j
      BY <1>1, <1>3, <2>1
    <3> QED
      BY <3>1
  <2>2. CASE ~(j <= k)
    <3>1. j - 1 \in 1..n /\ ~(j - 1 <= k) /\ (j - 1) + 1 = j
      BY <1>1, <1>3, <2>2
    <3>2. Is(j - 1) = j
      BY <3>1
    <3> QED
      BY <3>1, <3>2
  <2> QED
    BY <2>1, <2>2
<1>8. k + 1 \in 1..n + 1 /\ Is(k) = k
  BY <1>1, <1>3
<1> HIDE DEF Is
<1>9. \A x \in C : \E j \in 1..n + 1 : ids[j] = x
  <2> SUFFICES ASSUME NEW x \in C PROVE \E j \in 1..n + 1 : ids[j] = x
    OBVIOUS
  <2>1. CASE x = g
    BY <1>4, <1>8, <2>1
  <2>2. CASE x # g
    <3>1. PICK j \in 1..n : order[j] = x
      BY <1>1, <2>2 DEF S
    <3> QED
      BY <1>5, <3>1
  <2> QED
    BY <2>1, <2>2
<1>10. \A i, j \in 1..n + 1 : ids[i] = ids[j] => i = j
  <2> SUFFICES ASSUME NEW i \in 1..n + 1, NEW j \in 1..n + 1, ids[i] = ids[j] PROVE i = j
    OBVIOUS
  <2>1. \A l \in 1..n : order[l] # g
    BY <1>1 DEF S
  <2>2. CASE i = k + 1
    BY <1>4, <1>5, <1>7, <2>1, <2>2
  <2>3. CASE j = k + 1
    BY <1>4, <1>5, <1>7, <2>1, <2>3
  <2>4. CASE i # k + 1 /\ j # k + 1
    BY <1>1, <1>5, <1>7, <2>4
  <2> QED
    BY <2>2, <2>3, <2>4
<1>11. Places(ids, C)
  <2>1. ids \in Seq(C) /\ Len(ids) = n + 1
    BY <1>4
  <2>2. \A x \in C : \E j \in 1..Len(ids) : ids[j] = x
    BY <1>9, <2>1
  <2>3. \A i, j \in 1..Len(ids) : ids[i] = ids[j] => i = j
    BY <1>10, <2>1
  <2> QED
    BY <2>1, <2>2, <2>3, PlacesAre
<1>12. \A j \in 1..n + 1 : PlaceOf(ids, ids[j]) = j
  BY <1>4, <1>11 DEF Places
<1>13. PlaceOf(ids, g) = k + 1 /\ PlaceOf(ids, t) = k
  BY <1>3, <1>4, <1>5, <1>8, <1>12
<1>14. \A a, b \in C \ {g} : PlaceOf(ids, a) < PlaceOf(ids, b) <=> Tree!Precedes(groups, a, b)
  <2> SUFFICES ASSUME NEW a \in S, NEW b \in S
               PROVE  PlaceOf(ids, a) < PlaceOf(ids, b) <=> Tree!Precedes(groups, a, b)
    BY DEF S
  <2>1. PICK i \in 1..n : order[i] = a
    BY <1>1
  <2>2. PICK j \in 1..n : order[j] = b
    BY <1>1
  <2>3. PlaceOf(ids, a) = Is(i) /\ PlaceOf(ids, b) = Is(j)
    BY <1>5, <1>12, <2>1, <2>2
  <2> QED
    BY <1>1, <1>6, <2>1, <2>2, <2>3
<1> QED
  BY <1>11, <1>13, <1>14 DEF Inserted

(* Under every parent, the groups that do not move stay, in their order. *)
Still(before, after, M) ==
    \A p \in DOMAIN before \cup {NoGroup} :
        /\ Tree!ChildrenOf(after, p) \ M = Tree!ChildrenOf(before, p) \ M
        /\ Kept(before, after, Tree!ChildrenOf(before, p), M)

LEMMA StillShown ==
    ASSUME NEW before, Tidy(before), NEW after, Tidy(after), NEW M, Still(before, after, M)
    PROVE  Tree!OthersStay(before, after, M)
<1> SUFFICES ASSUME NEW p \in DOMAIN before \cup {NoGroup}
             PROVE  Tree!Without(Tree!SortedChildren(after, p), M) = Tree!Without(Tree!SortedChildren(before, p), M)
  BY DEF Tree!OthersStay
<1> DEFINE A == Tree!ChildrenOf(after, p)
           B == Tree!ChildrenOf(before, p)
<1>1. Ordered(before, B) /\ Ordered(after, A)
  BY ChildrenAreOrdered
<1>2. A \ M = B \ M /\ Kept(before, after, B, M)
  BY DEF Still
<1> HIDE DEF A, B
<1>3. Tree!Without(Tree!SortGroups(after, A), M) = Tree!Without(Tree!SortGroups(before, B), M)
  BY <1>1, <1>2, SameOrderSameList
<1> QED
  BY <1>3 DEF Tree!SortedChildren, A, B

LEMMA StillAgain ==
    ASSUME NEW one, NEW two, NEW three, NEW M, NEW N, DOMAIN one = DOMAIN two,
           Still(one, two, M), Still(two, three, N)
    PROVE  Still(one, three, M \cup N)
<1> SUFFICES ASSUME NEW p \in DOMAIN one \cup {NoGroup}
             PROVE  /\ Tree!ChildrenOf(three, p) \ (M \cup N) = Tree!ChildrenOf(one, p) \ (M \cup N)
                    /\ Kept(one, three, Tree!ChildrenOf(one, p), M \cup N)
  BY DEF Still
<1> DEFINE A == Tree!ChildrenOf(one, p)
           B == Tree!ChildrenOf(two, p)
           C == Tree!ChildrenOf(three, p)
<1>1. B \ M = A \ M /\ Kept(one, two, A, M) /\ C \ N = B \ N /\ Kept(two, three, B, N)
  BY DEF Still
<1> HIDE DEF A, B, C
<1>2. C \ (M \cup N) = A \ (M \cup N)
  BY <1>1
<1>3. \A a \in A \ (M \cup N) : a \in A \ M /\ a \in B \ N
  BY <1>1
<1>4. Kept(one, three, A, M \cup N)
  BY <1>1, <1>3 DEF Kept
<1> QED
  BY <1>2, <1>4 DEF A, B, C

(* A group dropped on a sibling. *)
Reordered(groups, after, g, t) ==
    /\ Tidy(after) /\ DOMAIN after = DOMAIN groups
    /\ \A h \in DOMAIN groups : after[h].parent = groups[h].parent
    /\ Still(groups, after, {g})
    /\ Follows(after, Tree!ChildrenOf(after, groups[g].parent), t, g)

LEMMA ReorderedIs ==
    ASSUME NEW groups, Tidy(groups), NEW g \in DOMAIN groups, NEW t \in DOMAIN groups, t # g,
           groups[t].parent = groups[g].parent
    PROVE  Reordered(groups, Tree!ReorderAfter(groups, g, t), g, t)
<1> DEFINE D == DOMAIN groups
           q == groups[g].parent
           C == Tree!ChildrenOf(groups, q)
           order == Tree!Without(Tree!SortedChildren(groups, q), {g})
           ids == Rank!InsertAt(order, PlaceOf(order, t) + 1, g)
           place(h) == PlaceOf(ids, h)
           after == [h \in D |-> IF h \in Tree!ToSet(ids) THEN [groups[h] EXCEPT !.order = place(h) - 1]
                                 ELSE groups[h]]
<1>1. /\ C = {h \in D : groups[h].parent = q} /\ g \in C /\ t \in C \ {g}
      /\ Ordered(groups, C) /\ Ordered(groups, C \ {g})
  BY ChildrenAreOrdered DEF Tree!ChildrenOf
<1>2. Enumerates(order, C \ {g}, groups)
  BY <1>1, GroupsAreSorted, WithoutEnumerates DEF Tree!SortedChildren
<1>3. Tree!ReorderAfter(groups, g, t) = Tree!Repaired(after)
  BY ReorderAfterIs, ReorderGroupsIs
<1>b. ids = Rank!InsertAt(order, PlaceOf(order, t) + 1, g)
  OBVIOUS
<1> HIDE DEF C, order, ids
<1>4. /\ Places(ids, C) /\ PlaceOf(ids, g) = PlaceOf(ids, t) + 1
      /\ \A a, b \in C \ {g} : PlaceOf(ids, a) < PlaceOf(ids, b) <=> Tree!Precedes(groups, a, b)
  <2>1. g \in C /\ t \in C \ {g}
    BY <1>1
  <2>2. Ordered(groups, C \ {g})
    BY <1>1
  <2>3. Enumerates(order, C \ {g}, groups)
    BY <1>2
  <2> QED
    <3>1. Inserted(groups, C, g, t, ids)
      BY <2>1, <2>2, <2>3, <1>b, InsertedAfter
    <3> QED
      BY <3>1 DEF Inserted
<1>5. Tree!ToSet(ids) = C
  BY <1>4 DEF Places, Tree!ToSet
<1>6. \A h \in C : place(h) \in Nat
  <2>1. ids \in Seq(C) /\ \A h \in C : place(h) \in 1..Len(ids)
    BY <1>4 DEF Places
  <2> QED
    BY <2>1
<1>7. \A a, b \in C : a # b => place(a) # place(b)
  BY <1>4 DEF Places
<1>a. place(g) = place(t) + 1 /\ \A a, b \in C \ {g} : place(a) < place(b) <=> Tree!Precedes(groups, a, b)
  BY <1>4
<1> HIDE DEF place
<1>8. groups \in [D -> GroupRecord]
  BY DEF Tidy
<1>9. /\ DOMAIN after = D
      /\ \A h \in C : after[h] = [groups[h] EXCEPT !.order = place(h) - 1]
      /\ \A h \in D \ C : after[h] = groups[h]
  BY <1>1, <1>5 DEF place
<1> HIDE DEF after
<1>10. \A h \in C : /\ after[h] \in GroupRecord /\ after[h].parent = groups[h].parent
                    /\ after[h].name = groups[h].name /\ after[h].order = place(h) - 1
  BY <1>1, <1>6, <1>8, <1>9 DEF GroupRecord
<1>11. \A h \in D : /\ after[h] \in GroupRecord /\ after[h].parent = groups[h].parent /\ after[h].name = groups[h].name
  BY <1>8, <1>9, <1>10
<1>12. Tidy(after)
  <2>1. after \in [D -> GroupRecord]
    <3>1. after = [h \in D |-> after[h]]
      BY <1>5 DEF after
    <3> QED
      BY <1>11, <3>1
  <2>2. Tree!ParentsOf(after) = Tree!ParentsOf(groups)
    BY <1>9, <1>11 DEF Tree!ParentsOf
  <2> QED
    BY <1>9, <1>11, <2>1, <2>2 DEF Tidy
<1>13. \A a, b \in C : Tree!Precedes(after, a, b) <=> place(a) < place(b)
  <2> DEFINE o(h) == after[h].order
  <2>1. \A h \in C : o(h) = place(h) - 1
    BY <1>10
  <2>2. \A a, b \in C : (o(a) < o(b) <=> place(a) < place(b)) /\ (o(a) = o(b) => place(a) = place(b))
    <3> HIDE DEF o
    <3> QED
      BY <1>6, <2>1
  <2>3. \A h \in C : after[h].name \in Int
    BY <1>10 DEF GroupRecord
  <2> SUFFICES ASSUME NEW a \in C, NEW b \in C
               PROVE  Tree!Precedes(after, a, b) <=> place(a) < place(b)
    OBVIOUS
  <2>4. CASE a = b
    BY <1>6, <2>1, <2>3, <2>4 DEF Tree!Precedes
  <2>5. CASE a # b
    <3>1. o(a) # o(b)
      BY <1>7, <2>2, <2>5
    <3>2. Tree!Precedes(after, a, b) <=> o(a) < o(b)
      BY <3>1 DEF Tree!Precedes
    <3> QED
      BY <2>2, <3>2
  <2> QED
    BY <2>4, <2>5
<1>14. \A p : Tree!ChildrenOf(after, p) = Tree!ChildrenOf(groups, p)
  BY <1>9, <1>11 DEF Tree!ChildrenOf
<1>15. Still(groups, after, {g})
  <2> SUFFICES ASSUME NEW p, NEW a \in Tree!ChildrenOf(groups, p) \ {g}, NEW b \in Tree!ChildrenOf(groups, p) \ {g}
               PROVE  Tree!Precedes(after, a, b) <=> Tree!Precedes(groups, a, b)
    BY <1>14 DEF Still, Kept
  <2>1. a \in D /\ b \in D /\ groups[a].parent = p /\ groups[b].parent = p
    BY DEF Tree!ChildrenOf
  <2>2. CASE p = q
    <3>1. a \in C \ {g} /\ b \in C \ {g}
      BY <1>1, <2>1, <2>2
    <3> QED
      BY <1>a, <1>13, <3>1
  <2>3. CASE p # q
    <3>1. a \in D \ C /\ b \in D \ C
      BY <1>1, <2>1, <2>3
    <3> QED
      BY <1>9, <3>1 DEF Tree!Precedes
  <2> QED
    BY <2>2, <2>3
<1>16. Follows(after, Tree!ChildrenOf(after, q), t, g)
  <2>1. Tree!ChildrenOf(after, q) = C
    BY <1>14 DEF C
  <2>2. \A z \in C : place(t) < place(z) => z = g \/ place(g) < place(z)
    BY <1>1, <1>6, <1>7, <1>a
  <2>3. place(t) < place(g)
    BY <1>1, <1>6, <1>a
  <2> QED
    BY <1>1, <1>13, <2>1, <2>2, <2>3 DEF Follows
<1>17. Tree!ReorderAfter(groups, g, t) = after
  BY <1>3, <1>12, RepairChangesNothing
<1> QED
  BY <1>9, <1>11, <1>12, <1>15, <1>16, <1>17 DEF Reordered

(* One group changed, or there is one more. *)
LEMMA StillBut ==
    ASSUME NEW groups, NEW after, NEW g, DOMAIN after = DOMAIN groups \cup {g},
           \A h \in DOMAIN groups \ {g} : after[h] = groups[h]
    PROVE  Still(groups, after, {g})
<1> SUFFICES ASSUME NEW p
             PROVE  /\ Tree!ChildrenOf(after, p) \ {g} = Tree!ChildrenOf(groups, p) \ {g}
                    /\ Kept(groups, after, Tree!ChildrenOf(groups, p), {g})
  BY DEF Still
<1>1. Tree!ChildrenOf(after, p) \ {g} = Tree!ChildrenOf(groups, p) \ {g}
  BY DEF Tree!ChildrenOf
<1>2. \A a \in Tree!ChildrenOf(groups, p) \ {g} : after[a] = groups[a]
  BY DEF Tree!ChildrenOf
<1> QED
  BY <1>1, <1>2 DEF Kept, Tree!Precedes

(* The group whose order is the highest is shown last. *)
LEMMA HighestIsLast ==
    ASSUME NEW after, Tidy(after), NEW g \in DOMAIN after, NEW p, after[g].parent = p,
           \A h \in Tree!ChildrenOf(after, p) \ {g} : after[h].order < after[g].order
    PROVE  Tree!Last(Tree!SortedChildren(after, p)) = g
<1> DEFINE C == Tree!ChildrenOf(after, p)
           s == Tree!SortedChildren(after, p)
<1>1. g \in C /\ Ordered(after, C)
  BY ChildrenAreOrdered DEF Tree!ChildrenOf
<1>2. Enumerates(s, C, after)
  BY <1>1, GroupsAreSorted DEF Tree!SortedChildren
<1>3. \A z \in C : z # g => Tree!Precedes(after, z, g)
  BY DEF Tree!Precedes
<1> HIDE DEF C, s
<1>4. Tree!Last(s) = g
  BY <1>1, <1>2, <1>3, LastIs
<1> QED
  BY <1>4 DEF s

(* A group put somewhere else, after the groups that are there. *)
PutLast(groups, after, g, p) ==
    /\ Tidy(after) /\ DOMAIN after = DOMAIN groups \cup {g}
    /\ after[g].parent = p
    /\ Still(groups, after, {g})
    /\ Tree!Last(Tree!SortedChildren(after, p)) = g

LEMMA PutLastIs ==
    ASSUME NEW groups, Tidy(groups), NEW g \in GroupId, NEW p \in DOMAIN groups \cup {NoGroup},
           NEW after, DOMAIN after = DOMAIN groups \cup {g}, after \in [DOMAIN after -> GroupRecord],
           after[g].parent = p, after[g].order = Tree!NextOrder(groups, Tree!ChildrenOf(groups, p) \ {g}),
           \A h \in DOMAIN groups \ {g} : after[h] = groups[h] /\ after[h].name # after[g].name,
           Tree!Forest(Tree!ParentsOf(after)), Tree!ParentsResolve(Tree!ParentsOf(after))
    PROVE  PutLast(groups, after, g, p) /\ Tree!Repaired(after) = after
<1> DEFINE D == DOMAIN groups
           C == Tree!ChildrenOf(groups, p) \ {g}
<1>1. IsFiniteSet(D \cup {g}) /\ D \cup {g} \subseteq GroupId
  BY FS_AddElement DEF Tidy
<1>2. \A a, b \in D \cup {g} : a # b => after[a].name # after[b].name
  BY DEF Tidy
<1>3. Tidy(after)
  BY <1>1, <1>2 DEF Tidy
<1>4. Tree!ChildrenOf(after, p) \ {g} = C
  BY DEF Tree!ChildrenOf
<1>5. \A h \in C : groups[h].order < after[g].order
  <2>1. Ordered(groups, C)
    BY ChildrenAreOrdered
  <2>2. after[g].order = Tree!NextOrder(groups, C)
    OBVIOUS
  <2> HIDE DEF C
  <2> QED
    BY <2>1, <2>2, NextOrderIs
<1>6. \A h \in C : after[h] = groups[h]
  BY DEF Tree!ChildrenOf
<1>7. \A h \in Tree!ChildrenOf(after, p) \ {g} : after[h].order < after[g].order
  BY <1>4, <1>5, <1>6
<1>8. Tree!Last(Tree!SortedChildren(after, p)) = g
  BY <1>3, <1>7, HighestIsLast
<1>9. Still(groups, after, {g})
  BY StillBut
<1> QED
  BY <1>3, <1>8, <1>9, RepairChangesNothing DEF PutLast

LEMMA NextOrderAmongChildren ==
    ASSUME NEW groups, Tidy(groups), NEW p, NEW M
    PROVE  Tree!NextOrder(groups, Tree!ChildrenOf(groups, p) \ M) \in Int
BY ChildrenAreOrdered, NextOrderIs

(* A group dropped elsewhere comes last there, or the drop is refused. *)
LEMMA ReparentIs ==
    ASSUME NEW groups, Tidy(groups), NEW g \in DOMAIN groups, NEW p \in DOMAIN groups \cup {NoGroup},
           ~Tree!WouldCreateCycle(Tree!ParentsOf(groups), g, p)
    PROVE  /\ Tree!ReparentGroup(groups, g, p).refused = FALSE
           /\ PutLast(groups, Tree!ReparentGroup(groups, g, p).groups, g, p)
<1> DEFINE D == DOMAIN groups
           o == Tree!NextOrder(groups, Tree!ChildrenOf(groups, p) \ {g})
           after == [groups EXCEPT ![g].parent = p, ![g].order = o]
<1>1. o \in Int
  BY NextOrderAmongChildren
<1>2. Tree!ReparentGroup(groups, g, p) = [refused |-> FALSE, groups |-> Tree!Repaired(after)]
  BY DEF Tree!ReparentGroup
<1> HIDE DEF o
<1>3. groups \in [D -> GroupRecord] /\ D \subseteq GroupId /\ p \in Ref
  BY DEF Tidy, Ref
<1>4. /\ DOMAIN after = D
      /\ \A h \in D \ {g} : after[h] = groups[h]
      /\ after[g] = [[groups[g] EXCEPT !.parent = p] EXCEPT !.order = o]
  BY <1>3
<1>5. after = [h \in D |-> after[h]]
  BY <1>3
<1> HIDE DEF after
<1>6. groups[g] \in GroupRecord
  BY <1>3
<1>7. after[g].parent = p /\ after[g].order = o /\ after[g].name = groups[g].name /\ after[g] \in GroupRecord
  BY <1>1, <1>3, <1>4, <1>6 DEF GroupRecord
<1>8. \A h \in D : after[h] \in GroupRecord
  BY <1>3, <1>4, <1>7
<1>9. after \in [D -> GroupRecord]
  BY <1>5, <1>8
<1>10. \A h \in D \ {g} : after[h] = groups[h] /\ after[h].name # after[g].name
  BY <1>4, <1>7 DEF Tidy
<1>11. Tree!Forest(Tree!ParentsOf(after)) /\ Tree!ParentsResolve(Tree!ParentsOf(after))
  <2>1. DOMAIN after = DOMAIN groups /\ after[g].parent = p
    BY <1>4, <1>7
  <2>2. \A h \in DOMAIN groups : h # g => after[h].parent = groups[h].parent
    BY <1>4
  <2> QED
    BY <2>1, <2>2, MovedGroupsAreAForest
<1>12. DOMAIN after = D \cup {g} /\ after \in [DOMAIN after -> GroupRecord] /\ g \in GroupId
  BY <1>3, <1>4, <1>9
<1>13. after[g].order = Tree!NextOrder(groups, Tree!ChildrenOf(groups, p) \ {g})
  BY <1>7 DEF o
<1>14. PutLast(groups, after, g, p) /\ Tree!Repaired(after) = after
  BY <1>7, <1>10, <1>11, <1>12, <1>13, PutLastIs
<1> QED
  BY <1>2, <1>14

LEMMA RefusedChangesNothing ==
    ASSUME NEW groups, NEW g, NEW p, Tree!WouldCreateCycle(Tree!ParentsOf(groups), g, p)
    PROVE  Tree!ReparentGroup(groups, g, p) = [refused |-> TRUE, groups |-> groups]
BY DEF Tree!ReparentGroup

(* A new group has nothing below it. *)
LEMMA MoreGroupsAreAForest ==
    ASSUME NEW groups, Tidy(groups), NEW new \in GroupId \ DOMAIN groups, NEW p \in DOMAIN groups \cup {NoGroup},
           NEW after, DOMAIN after = DOMAIN groups \cup {new},
           after[new].parent = p, \A h \in DOMAIN groups : after[h] = groups[h]
    PROVE  Tree!Forest(Tree!ParentsOf(after)) /\ Tree!ParentsResolve(Tree!ParentsOf(after))
<1> DEFINE up == Tree!ParentsOf(groups)
           more == Tree!ParentsOf(after)
           D == DOMAIN groups
<1>1. /\ DOMAIN up = D /\ DOMAIN more = D \cup {new} /\ more[new] = p
      /\ \A h \in D : more[h] = up[h]
      /\ Tree!Forest(up) /\ Tree!ParentsResolve(up)
      /\ NoGroup \notin D \cup {new} /\ new \notin D
  BY ParentsAre, NoGroupAssumption DEF Tidy
<1> HIDE DEF up, more
<1>2. Tree!ParentsResolve(more)
  BY <1>1 DEF Tree!ParentsResolve
<1>3. ASSUME NEW S \in SUBSET (D \cup {new}), S # {}, \A x \in S : more[x] \in S
      PROVE  FALSE
  <2>1. \A x \in S : more[x] \in S \ {new}
    BY <1>1, <1>3 DEF Tree!ParentsResolve
  <2>2. \A x \in S \ {new} : x \in D /\ up[x] \in S \ {new}
    BY <1>1, <2>1
  <2>3. S \ {new} \in SUBSET D /\ S \ {new} # {}
    BY <1>3, <2>1
  <2> QED
    BY <1>1, <2>2, <2>3 DEF Tree!Forest
<1> QED
  BY <1>1, <1>2, <1>3 DEF Tree!Forest, more

LEMMA AddGroupIs ==
    ASSUME NEW groups, Tidy(groups), NEW new \in GroupId \ DOMAIN groups, NEW p \in DOMAIN groups \cup {NoGroup},
           NEW name \in Int, \A h \in DOMAIN groups : groups[h].name # name
    PROVE  PutLast(groups, Tree!AddGroup(groups, new, name, p), new, p)
<1> DEFINE D == DOMAIN groups
           o == Tree!NextOrder(groups, Tree!ChildrenOf(groups, p))
           added == [parent |-> p, order |-> o, name |-> name]
           after == [h \in D \cup {new} |-> IF h = new THEN added ELSE groups[h]]
<1>1. Tree!AddGroup(groups, new, name, p) = Tree!Repaired(after)
  BY DEF Tree!AddGroup
<1>2. Tree!ChildrenOf(groups, p) \ {new} = Tree!ChildrenOf(groups, p)
  BY DEF Tree!ChildrenOf
<1>3. o = Tree!NextOrder(groups, Tree!ChildrenOf(groups, p) \ {new})
  BY <1>2
<1> HIDE DEF o
<1>4. o \in Int
  BY <1>3, NextOrderAmongChildren
<1>5. groups \in [D -> GroupRecord] /\ D \subseteq GroupId /\ p \in Ref
  BY DEF Tidy, Ref
<1>6. added \in GroupRecord /\ added.parent = p /\ added.order = o /\ added.name = name
  BY <1>4, <1>5 DEF GroupRecord
<1> HIDE DEF added
<1>7. /\ DOMAIN after = D \cup {new} /\ after[new] = added
      /\ \A h \in D : after[h] = groups[h]
      /\ after \in [D \cup {new} -> GroupRecord]
  BY <1>5, <1>6
<1> HIDE DEF after
<1>8. Tree!Forest(Tree!ParentsOf(after)) /\ Tree!ParentsResolve(Tree!ParentsOf(after))
  <2>1. after[new].parent = p
    BY <1>6, <1>7
  <2> QED
    BY <1>7, <2>1, MoreGroupsAreAForest
<1>9. \A h \in D \ {new} : after[h] = groups[h] /\ after[h].name # after[new].name
  BY <1>6, <1>7
<1>10. after \in [DOMAIN after -> GroupRecord]
  BY <1>7
<1>11. after[new].parent = p /\ after[new].order = Tree!NextOrder(groups, Tree!ChildrenOf(groups, p) \ {new})
  BY <1>3, <1>6, <1>7
<1>12. PutLast(groups, after, new, p) /\ Tree!Repaired(after) = after
  <2>1. DOMAIN after = DOMAIN groups \cup {new}
    BY <1>7
  <2> QED
    BY <1>8, <1>9, <1>10, <1>11, <2>1, PutLastIs
<1> QED
  BY <1>1, <1>12

(* A new name changes neither the parents nor the order of the others. *)
LEMMA RenameGroupIs ==
    ASSUME NEW groups, Tidy(groups), NEW g \in DOMAIN groups,
           NEW name \in Int, \A h \in DOMAIN groups : groups[h].name # name
    PROVE  /\ Tidy(Tree!RenameGroup(groups, g, name))
           /\ Still(groups, Tree!RenameGroup(groups, g, name), {g})
           /\ Tree!ParentsOf(Tree!RenameGroup(groups, g, name)) = Tree!ParentsOf(groups)
<1> DEFINE D == DOMAIN groups
           after == [groups EXCEPT ![g].name = name]
<1>1. Tree!RenameGroup(groups, g, name) = Tree!Repaired(after)
  BY DEF Tree!RenameGroup
<1>2. groups \in [D -> GroupRecord]
  BY DEF Tidy
<1>3. /\ DOMAIN after = D /\ \A h \in D \ {g} : after[h] = groups[h]
      /\ after[g] = [groups[g] EXCEPT !.name = name] /\ after = [h \in D |-> after[h]]
  BY <1>2
<1> HIDE DEF after
<1>4. groups[g] \in GroupRecord
  BY <1>2
<1>5. after[g] \in GroupRecord /\ after[g].name = name /\ after[g].parent = groups[g].parent
  BY <1>3, <1>4 DEF GroupRecord
<1>6. \A h \in D : after[h] \in GroupRecord /\ after[h].parent = groups[h].parent
  BY <1>2, <1>3, <1>5
<1>7. after \in [D -> GroupRecord]
  BY <1>3, <1>6
<1>8. \A a, b \in D : a # b => after[a].name # after[b].name
  BY <1>3, <1>5 DEF Tidy
<1>9. Tree!ParentsOf(after) = Tree!ParentsOf(groups)
  BY <1>3, <1>6 DEF Tree!ParentsOf
<1>10. Tidy(after)
  BY <1>3, <1>7, <1>8, <1>9 DEF Tidy
<1>11. Still(groups, after, {g})
  BY <1>3, StillBut
<1> QED
  BY <1>1, <1>9, <1>10, <1>11, RepairChangesNothing

(* What a group can be dropped on. *)
CanBeDroppedOn(groups, target) ==
    /\ target.group \in DOMAIN groups \cup {NoGroup}
    /\ target.kind = "group" => target.group \in DOMAIN groups

LEMMA PutLastStays ==
    ASSUME NEW groups, Tidy(groups), NEW after, NEW g, NEW p, PutLast(groups, after, g, p)
    PROVE  /\ Tree!OthersStay(groups, after, {g})
           /\ after[g].parent = p /\ Tree!Last(Tree!SortedChildren(after, p)) = g
BY StillShown DEF PutLast

(* g is the next one after t. *)
NextTo(after, g, t) ==
    LET list == Tree!SortedChildren(after, after[g].parent)
    IN  <<t, g>> \in {Tree!SubSeq(list, k, k + 1) : k \in 1..Len(list) - 1}

LEMMA ReorderedStays ==
    ASSUME NEW groups, Tidy(groups), NEW after, NEW g \in DOMAIN groups, NEW t, Reordered(groups, after, g, t)
    PROVE  /\ Tree!OthersStay(groups, after, {g})
           /\ after[g].parent = groups[g].parent
           /\ NextTo(after, g, t)
<1> DEFINE C == Tree!ChildrenOf(after, groups[g].parent)
           s == Tree!SortGroups(after, C)
<1>1. /\ Tidy(after) /\ Still(groups, after, {g}) /\ after[g].parent = groups[g].parent
      /\ Follows(after, C, t, g)
  BY DEF Reordered
<1>2. Ordered(after, C)
  BY <1>1, ChildrenAreOrdered
<1>3. Enumerates(s, C, after)
  BY <1>2, GroupsAreSorted
<1>4. s = Tree!SortedChildren(after, after[g].parent)
  BY <1>1 DEF Tree!SortedChildren
<1> HIDE DEF C, s
<1>5. <<t, g>> \in {Tree!SubSeq(s, k, k + 1) : k \in 1..Len(s) - 1}
  BY <1>1, <1>2, <1>3, FollowsAtOnce
<1> QED
  BY <1>1, <1>4, <1>5, StillShown DEF NextTo

(* A group dropped on a sibling comes right after it; dropped elsewhere it *)
(* becomes the last child there, unless it would be below itself.  No      *)
(* other group moves, whatever orders and names the groups have.           *)
THEOREM DroppedGroupsGoThere ==
    ASSUME NEW groups, Tidy(groups), NEW g \in DOMAIN groups, NEW target, CanBeDroppedOn(groups, target)
    PROVE  Tree!DropsInPlace(groups, g, target)
<1> DEFINE result == Tree!DropGroup(groups, g, target)
           p == target.group
<1>1. CASE Tree!IsSibling(groups, g, target)
  <2>1. p # g /\ groups[p].parent = groups[g].parent /\ p \in DOMAIN groups
    BY <1>1 DEF Tree!IsSibling, CanBeDroppedOn
  <2>2. result = [refused |-> FALSE, groups |-> Tree!ReorderAfter(groups, g, p)]
    BY <1>1 DEF Tree!DropGroup
  <2>3. Reordered(groups, result.groups, g, p)
    BY <2>1, <2>2, ReorderedIs
  <2> HIDE DEF p
  <2>4. result.refused = FALSE
    BY <2>2
  <2> DEFINE after == result.groups
             list == Tree!SortedChildren(after, after[g].parent)
  <2>5. Tree!OthersStay(groups, after, {g}) /\ NextTo(after, g, p)
    <3>1. Reordered(groups, after, g, p)
      BY <2>3
    <3> HIDE DEF after
    <3> QED
      BY <3>1, ReorderedStays
  <2>6. <<p, g>> \in {Tree!SubSeq(list, k, k + 1) : k \in 1..Tree!Len(list) - 1}
    BY <2>5 DEF NextTo
  <2> QED
    BY <1>1, <2>4, <2>5, <2>6 DEF Tree!DropsInPlace, p
<1>2. CASE ~Tree!IsSibling(groups, g, target) /\ Tree!WouldCreateCycle(Tree!ParentsOf(groups), g, p)
  <2>1. result = [refused |-> TRUE, groups |-> groups]
    BY <1>2, RefusedChangesNothing DEF Tree!DropGroup
  <2>2. p \in {g} \cup Tree!DescendantGroupIds(Tree!ParentsOf(groups), g)
    BY <1>2, RefusedIsBelow DEF CanBeDroppedOn
  <2> QED
    BY <2>1, <2>2 DEF Tree!DropsInPlace
<1>3. CASE ~Tree!IsSibling(groups, g, target) /\ ~Tree!WouldCreateCycle(Tree!ParentsOf(groups), g, p)
  <2>1. result = Tree!ReparentGroup(groups, g, p)
    BY <1>3 DEF Tree!DropGroup
  <2>2. p \in DOMAIN groups \cup {NoGroup}
    BY DEF CanBeDroppedOn
  <2>3. result.refused = FALSE /\ PutLast(groups, result.groups, g, p)
    BY <1>3, <2>1, <2>2, ReparentIs
  <2>4. /\ Tree!OthersStay(groups, result.groups, {g}) /\ result.groups[g].parent = p
        /\ Tree!Last(Tree!SortedChildren(result.groups, p)) = g
    BY <2>3, PutLastStays
  <2> QED
    BY <1>3, <2>3, <2>4 DEF Tree!DropsInPlace
<1> QED
  BY <1>1, <1>2, <1>3

(* A new group comes after its siblings, and a new name moves one group.   *)
THEOREM EditedGroupsStay ==
    ASSUME NEW groups, Tidy(groups), NEW g \in DOMAIN groups, NEW new \in GroupId \ DOMAIN groups,
           NEW name \in Int, \A h \in DOMAIN groups : groups[h].name # name
    PROVE  Tree!EditsInPlace(groups, g, new, name)
<1> DEFINE added == Tree!AddGroup(groups, new, name, g)
           renamed == Tree!RenameGroup(groups, g, name)
<1>1. PutLast(groups, added, new, g)
  BY AddGroupIs
<1>2. /\ Tidy(renamed) /\ Still(groups, renamed, {g}) /\ Tree!ParentsOf(renamed) = Tree!ParentsOf(groups)
  BY RenameGroupIs
<1> HIDE DEF added, renamed
<1>3. Tree!OthersStay(groups, added, {new}) /\ Tree!Last(Tree!SortedChildren(added, g)) = new
  BY <1>1, PutLastStays
<1>4. Tree!OthersStay(groups, renamed, {g})
  BY <1>2, StillShown
<1> QED
  BY <1>2, <1>3, <1>4 DEF Tree!EditsInPlace, added, renamed

(* The groups that drops next to siblings can make of these. *)
Alike(groups) ==
    {G \in [DOMAIN groups -> GroupRecord] : Tidy(G) /\ \A h \in DOMAIN groups : G[h].parent = groups[h].parent}

LEMMA DropIsReordering ==
    ASSUME NEW groups, NEW g \in DOMAIN groups, NEW target, CanBeDroppedOn(groups, target),
           Tree!IsSibling(groups, g, target), NEW G \in Alike(groups)
    PROVE  /\ Tree!DropGroup(G, g, target) = [refused |-> FALSE, groups |-> Tree!ReorderAfter(G, g, target.group)]
           /\ Reordered(G, Tree!ReorderAfter(G, g, target.group), g, target.group)
           /\ Tree!ReorderAfter(G, g, target.group) \in Alike(groups)
<1> DEFINE t == target.group
           D == DOMAIN groups
           after == Tree!ReorderAfter(G, g, t)
<1>1. /\ target.kind = "group" /\ t # g /\ t \in D /\ groups[t].parent = groups[g].parent
      /\ G \in [D -> GroupRecord] /\ Tidy(G) /\ \A h \in D : G[h].parent = groups[h].parent
  BY DEF CanBeDroppedOn, Tree!IsSibling, Alike
<1>2. DOMAIN G = D /\ G[t].parent = G[g].parent
  BY <1>1
<1>3. Tree!IsSibling(G, g, target)
  BY <1>1, <1>2 DEF Tree!IsSibling
<1>4. Tree!DropGroup(G, g, target) = [refused |-> FALSE, groups |-> after]
  BY <1>3 DEF Tree!DropGroup
<1> HIDE DEF t
<1>5. Reordered(G, after, g, t)
  BY <1>1, <1>2, ReorderedIs
<1> HIDE DEF after
<1>6. after \in Alike(groups)
  <2>1. Tidy(after) /\ DOMAIN after = D /\ \A h \in D : after[h].parent = G[h].parent
    BY <1>2, <1>5 DEF Reordered
  <2>2. after \in [D -> GroupRecord]
    BY <2>1 DEF Tidy
  <2> QED
    BY <1>1, <2>1, <2>2 DEF Alike
<1> QED
  BY <1>4, <1>5, <1>6 DEF after, t

(* The groups after each of the drops. *)
Dropping(r, groups, selected, target) ==
    /\ r[0] = groups
    /\ \A k \in 0..Len(selected) : r[k] \in Alike(groups)
    /\ \A k \in 1..Len(selected) : Reordered(r[k - 1], r[k], selected[k], target.group)
    /\ Tree!HandleDrop(groups, selected, target).groups = r[Len(selected)]

LEMMA DroppedOneByOne ==
    ASSUME NEW groups, Tidy(groups), NEW target, CanBeDroppedOn(groups, target),
           NEW selected \in Seq(DOMAIN groups), \A k \in 1..Len(selected) : Tree!IsSibling(groups, selected[k], target)
    PROVE  \E r : Dropping(r, groups, selected, target)
<1> DEFINE n == Len(selected)
           t == target.group
           Result(G) == [refused |-> FALSE, groups |-> G]
           S == {Result(G) : G \in Alike(groups)}
           first == Result(groups)
           Drop(x, k) == Tree!DropGroup(x.groups, selected[k], target)
           step == [k \in 1..n |-> [x \in S |-> Drop(x, k)]]
           Is(f) == f = [k \in 0..n |-> IF k = 0 THEN first
                                        ELSE IF f[k - 1].refused THEN f[k - 1]
                                        ELSE Tree!DropGroup(f[k - 1].groups, selected[k], target)]
           result == CHOOSE f : Is(f)
<1>1. n \in Nat /\ \A k \in 1..n : selected[k] \in DOMAIN groups /\ Tree!IsSibling(groups, selected[k], target)
  OBVIOUS
<1>2. groups \in Alike(groups)
  BY DEF Alike, Tidy
<1> HIDE DEF n
<1>3. ASSUME NEW k \in 1..n, NEW x \in S
      PROVE  /\ x.refused = FALSE /\ x.groups \in Alike(groups)
             /\ Drop(x, k) \in S /\ Reordered(x.groups, Drop(x, k).groups, selected[k], t)
  <2>1. PICK G \in Alike(groups) : x = Result(G)
    OBVIOUS
  <2>2. x.refused = FALSE /\ x.groups = G
    BY <2>1
  <2> DEFINE g == selected[k]
             after == Tree!ReorderAfter(G, g, t)
  <2>3. g \in DOMAIN groups /\ Tree!IsSibling(groups, g, target)
    BY <1>1
  <2> HIDE DEF g
  <2>4. Tree!DropGroup(G, g, target) = Result(after) /\ Reordered(G, after, g, t) /\ after \in Alike(groups)
    BY <2>3, DropIsReordering
  <2>5. Drop(x, k) = Result(after)
    BY <2>2, <2>4 DEF g
  <2> HIDE DEF after, Drop
  <2>6. Drop(x, k).groups = after
    BY <2>5
  <2> QED
    BY <2>2, <2>4, <2>5, <2>6 DEF g
<1>4. first \in S
  BY <1>2
<1> HIDE DEF S, Drop, first, Result
<1>5. step \in [1..n -> [S -> S]]
  BY <1>3
<1>a. \A k \in 1..n : \A x \in S : step[k][x] = Drop(x, k)
  OBVIOUS
<1> HIDE DEF step
<1>6. PICK d : Stepwise(d, n, S, first, step)
  BY <1>1, <1>4, <1>5, StepByStep
<1>7. d \in [0..n -> S] /\ d[0] = first /\ \A k \in 1..n : d[k] = Drop(d[k - 1], k)
  <2>1. \A k \in 1..n : k - 1 \in 0..n
    BY <1>1
  <2> QED
    BY <1>6, <1>a, <2>1 DEF Stepwise
<1>8. \A k \in 1..n : /\ k - 1 \in 0..n /\ d[k - 1] \in S /\ d[k - 1].refused = FALSE
                      /\ d[k] = Tree!DropGroup(d[k - 1].groups, selected[k], target)
  <2> TAKE k \in 1..n
  <2>1. k - 1 \in 0..n
    BY <1>1
  <2>2. d[k - 1] \in S
    BY <1>7, <2>1
  <2> QED
    BY <1>3, <1>7, <2>1, <2>2 DEF Drop
<1>9. Is(d)
  <2>1. \A k \in 0..n : k = 0 \/ k \in 1..n
    OBVIOUS
  <2>2. ASSUME NEW k \in 0..n
        PROVE  d[k] = IF k = 0 THEN first ELSE IF d[k - 1].refused THEN d[k - 1]
                      ELSE Tree!DropGroup(d[k - 1].groups, selected[k], target)
    BY <1>7, <1>8, <2>1
  <2>3. d = [k \in 0..n |-> d[k]]
    BY <1>7
  <2> QED
    BY <2>2, <2>3
<1>10. Is(result)
  BY <1>9, Zenon
<1>11. result[0] = first /\ \A k \in 1..n : result[k] = IF result[k - 1].refused THEN result[k - 1]
                                                        ELSE Tree!DropGroup(result[k - 1].groups, selected[k], target)
  <2>1. 0 \in 0..n /\ \A k \in 1..n : k \in 0..n /\ k # 0
    BY <1>1
  <2> HIDE DEF result
  <2> QED
    BY <1>10, <2>1
<1>12. Tree!HandleDrop(groups, selected, target) = result[n]
  BY DEF Tree!HandleDrop, first, Result, n
<1> HIDE DEF result
<1>13. ASSUME NEW k \in 1..n, result[k - 1] \in S
       PROVE  /\ result[k] \in S
              /\ Reordered(result[k - 1].groups, result[k].groups, selected[k], t)
  <2>1. result[k - 1].refused = FALSE
    BY <1>3, <1>13
  <2>2. result[k] = Drop(result[k - 1], k)
    BY <1>11, <2>1 DEF Drop
  <2> QED
    BY <1>3, <1>13, <2>2
<1>14. \A k \in 0..n : result[k] \in S
  <2> DEFINE I == {k \in 1..n : result[k] \in S}
  <2>1. n >= 1 => 1 \in I
    <3>1. 1 - 1 = 0
      OBVIOUS
    <3> QED
      BY <1>1, <1>4, <1>11, <1>13, <3>1
  <2>2. \A k \in 1..n : k < n /\ k \in I => k + 1 \in I
    <3> SUFFICES ASSUME NEW k \in 1..n, k < n, k \in I PROVE k + 1 \in I
      OBVIOUS
    <3>1. k + 1 \in 1..n /\ (k + 1) - 1 = k
      BY <1>1
    <3> QED
      BY <1>13, <3>1
  <2> HIDE DEF I
  <2>3. 1..n \subseteq I
    BY <1>1, <2>1, <2>2, UpTo
  <2>4. \A k \in 0..n : k = 0 \/ k \in 1..n
    OBVIOUS
  <2> QED
    BY <1>4, <1>11, <2>3, <2>4 DEF I
<1> DEFINE r == [k \in 0..n |-> result[k].groups]
<1>15. \A x \in S : x.groups \in Alike(groups)
  BY DEF S, Result
<1>16. /\ 0 \in 0..n /\ n \in 0..n /\ \A k \in 1..n : k \in 0..n /\ k - 1 \in 0..n
  BY <1>1
<1>17. r[0] = groups
  BY <1>11, <1>16 DEF first, Result
<1>18. \A k \in 0..n : r[k] = result[k].groups /\ r[k] \in Alike(groups)
  BY <1>14, <1>15
<1>19. \A k \in 1..n : Reordered(r[k - 1], r[k], selected[k], t)
  BY <1>13, <1>14, <1>16, <1>18
<1>20. Tree!HandleDrop(groups, selected, target).groups = r[n]
  BY <1>12, <1>16, <1>18
<1> HIDE DEF r
<1> QED
  BY <1>17, <1>18, <1>19, <1>20 DEF Dropping, n

Moved(selected, k) == {selected[j] : j \in 1..k}

(* The groups dropped so far follow t before any group that stayed. *)
Gathered(before, after, C, t, M) ==
    /\ Tidy(after) /\ DOMAIN after = DOMAIN before
    /\ \A p \in DOMAIN before \cup {NoGroup} : Tree!ChildrenOf(after, p) = Tree!ChildrenOf(before, p)
    /\ Still(before, after, M)
    /\ \A m \in M : Tree!Precedes(after, t, m)
    /\ \A m \in M : \A z \in C \ M : Tree!Precedes(after, t, z) => Tree!Precedes(after, m, z)

LEMMA OneMoreGathered ==
    ASSUME NEW before, NEW G, NEW C, NEW t, NEW M \in SUBSET C, NEW p \in DOMAIN before \cup {NoGroup},
           C = Tree!ChildrenOf(before, p), Gathered(before, G, C, t, M), NEW after, NEW g \in C \ M, g # t, t \in C \ M,
           Reordered(G, after, g, t)
    PROVE  Gathered(before, after, C, t, M \cup {g})
<1> DEFINE N == M \cup {g}
<1>1. /\ Tidy(after) /\ DOMAIN after = DOMAIN before
      /\ Still(G, after, {g}) /\ \A h \in DOMAIN G : after[h].parent = G[h].parent
      /\ Follows(after, Tree!ChildrenOf(after, G[g].parent), t, g)
  BY DEF Reordered, Gathered
<1>2. \A q : Tree!ChildrenOf(after, q) = Tree!ChildrenOf(G, q)
  BY <1>1 DEF Gathered, Tree!ChildrenOf
<1>3. \A q \in DOMAIN before \cup {NoGroup} : Tree!ChildrenOf(after, q) = Tree!ChildrenOf(before, q)
  BY <1>2 DEF Gathered
<1>4. Tree!ChildrenOf(G, p) = C /\ Tree!ChildrenOf(after, p) = C
  BY <1>2 DEF Gathered
<1>5. G[g].parent = p
  BY <1>4 DEF Tree!ChildrenOf
<1>6. Follows(after, C, t, g)
  BY <1>1, <1>4, <1>5
<1>7. Still(before, after, N)
  <2>1. DOMAIN before = DOMAIN G /\ Still(before, G, M)
    BY DEF Gathered
  <2> QED
    BY <1>1, <2>1, StillAgain
<1>8. Kept(G, after, C, {g})
  <2>1. p \in DOMAIN G \cup {NoGroup}
    BY DEF Gathered
  <2> QED
    BY <1>1, <1>4, <2>1 DEF Still
<1>9. /\ \A m \in M : Tree!Precedes(G, t, m)
      /\ \A m \in M : \A z \in C \ M : Tree!Precedes(G, t, z) => Tree!Precedes(G, m, z)
  BY DEF Gathered
<1>10. \A m \in N : Tree!Precedes(after, t, m)
  <2> SUFFICES ASSUME NEW m \in N PROVE Tree!Precedes(after, t, m)
    OBVIOUS
  <2>1. CASE m = g
    BY <1>6, <2>1 DEF Follows
  <2>2. CASE m # g
    BY <1>8, <1>9, <2>2 DEF Kept
  <2> QED
    BY <2>1, <2>2
<1>11. ASSUME NEW m \in N, NEW z \in C \ N, Tree!Precedes(after, t, z)
       PROVE  Tree!Precedes(after, m, z)
  <2>1. CASE m = g
    BY <1>6, <1>11, <2>1 DEF Follows
  <2>2. CASE m # g
    <3>1. Tree!Precedes(G, t, z)
      BY <1>8, <1>11 DEF Kept
    <3>2. Tree!Precedes(G, m, z)
      BY <1>9, <2>2, <3>1
    <3> QED
      BY <1>8, <2>2, <3>2 DEF Kept
  <2> QED
    BY <2>1, <2>2
<1> QED
  BY <1>1, <1>3, <1>7, <1>10, <1>11 DEF Gathered

(* When all are dropped. *)
LEMMA AllGathered ==
    ASSUME NEW groups, Tidy(groups), NEW target, CanBeDroppedOn(groups, target), target.kind = "group",
           NEW selected \in Seq(DOMAIN groups), \A k \in 1..Len(selected) : Tree!IsSibling(groups, selected[k], target),
           \A j, k \in 1..Len(selected) : selected[j] = selected[k] => j = k
    PROVE  Gathered(groups, Tree!HandleDrop(groups, selected, target).groups,
                    Tree!ChildrenOf(groups, groups[target.group].parent), target.group,
                    Moved(selected, Len(selected)))
<1> DEFINE n == Len(selected)
           t == target.group
           p == groups[t].parent
           C == Tree!ChildrenOf(groups, p)
           D == DOMAIN groups
<1>1. PICK r : Dropping(r, groups, selected, target)
  BY DroppedOneByOne
<1>2. /\ r[0] = groups /\ \A k \in 1..n : Reordered(r[k - 1], r[k], selected[k], t)
      /\ Tree!HandleDrop(groups, selected, target).groups = r[n]
  BY <1>1 DEF Dropping
<1>3. /\ n \in Nat /\ t \in D /\ p \in D \cup {NoGroup} /\ t \in C
      /\ \A k \in 1..n : selected[k] \in C /\ selected[k] # t
  BY DEF CanBeDroppedOn, Tree!IsSibling, Tree!ChildrenOf, Tidy, Tree!ParentsResolve, Tree!ParentsOf
<1>4. \A j, k \in 1..n : selected[j] = selected[k] => j = k
  OBVIOUS
<1>a. C = Tree!ChildrenOf(groups, p)
  OBVIOUS
<1> HIDE DEF n, t, p, C
<1> DEFINE I(k) == Gathered(groups, r[k], C, t, Moved(selected, k))
<1>5. I(0)
  <2>1. Moved(selected, 0) = {}
    BY DEF Moved
  <2> QED
    BY <1>2, <2>1 DEF Gathered, Still, Kept
<1>6. ASSUME NEW k \in 1..n, I(k - 1)
      PROVE  I(k)
  <2> DEFINE M == Moved(selected, k - 1)
             g == selected[k]
  <2>1. /\ k \in Int /\ k - 1 \in 0..n /\ \A j \in 1..k - 1 : j \in 1..n /\ j # k
    BY <1>3
  <2>2. Moved(selected, k) = M \cup {g}
    <3>1. \A j \in 1..k : j = k \/ j \in 1..k - 1
      BY <2>1
    <3>2. k \in 1..k /\ \A j \in 1..k - 1 : j \in 1..k
      BY <2>1
    <3> QED
      BY <3>1, <3>2 DEF Moved
  <2>3. M \in SUBSET C /\ t \in C \ M
    BY <1>3, <2>1 DEF Moved
  <2>4. g \in C \ M /\ g # t
    BY <1>3, <1>4, <2>1 DEF Moved
  <2>5. Gathered(groups, r[k - 1], C, t, M) /\ Reordered(r[k - 1], r[k], g, t)
    BY <1>2, <1>6
  <2> HIDE DEF M, g
  <2>6. Gathered(groups, r[k], C, t, M \cup {g})
    <3> DEFINE one == r[k - 1]
               two == r[k]
    <3>1. Gathered(groups, one, C, t, M) /\ Reordered(one, two, g, t)
      BY <2>5
    <3> HIDE DEF one, two
    <3>2. Gathered(groups, two, C, t, M \cup {g})
      BY <1>3, <1>a, <2>3, <2>4, <3>1, OneMoreGathered
    <3> QED
      BY <3>2 DEF two
  <2> QED
    BY <2>2, <2>6
<1>7. I(n)
  <2> DEFINE S == {k \in 1..n : I(k)}
  <2> HIDE DEF I
  <2>1. n >= 1 => 1 \in S
    <3>1. 1 - 1 = 0
      OBVIOUS
    <3> QED
      BY <1>3, <1>5, <1>6, <3>1
  <2>2. \A k \in 1..n : k < n /\ k \in S => k + 1 \in S
    <3> SUFFICES ASSUME NEW k \in 1..n, k < n, k \in S PROVE k + 1 \in S
      OBVIOUS
    <3>1. k + 1 \in 1..n /\ (k + 1) - 1 = k
      BY <1>3
    <3> QED
      BY <1>6, <3>1
  <2> HIDE DEF S
  <2>3. 1..n \subseteq S
    BY <1>3, <2>1, <2>2, UpTo
  <2>4. n = 0 \/ n \in 1..n
    BY <1>3
  <2> QED
    BY <1>5, <2>3, <2>4 DEF S
<1> QED
  BY <1>2, <1>7 DEF n, t, p, C

(* What follows t before anything else does follows it at once. *)
LEMMA TheseFollow ==
    ASSUME NEW groups, NEW C, Ordered(groups, C), NEW list, Enumerates(list, C, groups),
           NEW M \in SUBSET C, NEW t \in C \ M, NEW n \in Nat, NEW f \in Surjection(1..n, M), f \in Injection(1..n, M),
           \A m \in M : Tree!Precedes(groups, t, m),
           \A m \in M : \A z \in C \ M : Tree!Precedes(groups, t, z) => Tree!Precedes(groups, m, z)
    PROVE  Tree!ToSet(SubSeq(list, PlaceOf(list, t) + 1, PlaceOf(list, t) + n)) = M
<1> DEFINE len == Len(list)
           a == PlaceOf(list, t)
<1>1. /\ len \in Nat /\ \A k \in 1..len : list[k] \in C
      /\ \A x \in C : \E k \in 1..len : list[k] = x
      /\ \A i, j \in 1..len : (i < j <=> Tree!Precedes(groups, list[i], list[j])) /\ (list[i] = list[j] <=> i = j)
  BY PlacesFollowTheOrder
<1>2. list \in Seq(C)
  BY DEF Enumerates
<1>3. Places(list, C)
  <2>1. \A x \in C : \E k \in 1..Len(list) : list[k] = x
    BY <1>1
  <2>2. \A j, k \in 1..Len(list) : list[j] = list[k] => j = k
    BY <1>1
  <2> QED
    BY <1>2, <2>1, <2>2, PlacesAre
<1>4. a \in 1..len /\ list[a] = t
  BY <1>3 DEF Places
<1>b. len = Len(list)
  OBVIOUS
<1> HIDE DEF len, a
<1> DEFINE In(k) == k \in 1..len /\ list[k] \in M
<1>5. \A k \in 1..len : list[k] \in M => a < k
  <2> SUFFICES ASSUME NEW k \in 1..len, list[k] \in M PROVE a < k
    OBVIOUS
  <2>1. Tree!Precedes(groups, list[a], list[k])
    BY <1>4
  <2> QED
    BY <1>1, <1>4, <2>1
<1>6. \A i, j \in 1..len : list[j] \in M /\ a < i /\ i < j => list[i] \in M
  <2> SUFFICES ASSUME NEW i \in 1..len, NEW j \in 1..len, list[j] \in M, a < i, i < j, list[i] \notin M
               PROVE  FALSE
    OBVIOUS
  <2>1. list[i] \in C \ M /\ Tree!Precedes(groups, t, list[i])
    BY <1>1, <1>4
  <2>2. Tree!Precedes(groups, list[j], list[i])
    BY <2>1
  <2>3. j < i
    BY <1>1, <2>2
  <2> QED
    BY <1>1, <2>3
<1> DEFINE Q == {k \in Nat : a <= k /\ ~In(k + 1)}
<1>7. PICK q \in Q : \A k \in Q : q <= k
  <2>1. len \in Q
    <3>1. len + 1 \notin 1..len /\ a <= len
      BY <1>1, <1>4
    <3> QED
      BY <1>1, <3>1
  <2>2. Q \in SUBSET Nat
    OBVIOUS
  <2> HIDE DEF Q
  <2> QED
    BY <2>1, <2>2, LeastExists
<1>8. q \in Nat /\ a <= q /\ ~In(q + 1) /\ a \in Nat
  BY <1>1, <1>4, <1>7
<1>9. \A k \in a + 1..q : In(k)
  <2> SUFFICES ASSUME NEW k \in a + 1..q, ~In(k) PROVE FALSE
    OBVIOUS
  <2>1. k - 1 \in Nat /\ a <= k - 1 /\ (k - 1) + 1 = k /\ ~(q <= k - 1)
    BY <1>8
  <2>2. k - 1 \in Q
    BY <2>1
  <2> QED
    BY <1>7, <2>1, <2>2
<1>10. \A k \in 1..len : In(k) => k \in a + 1..q
  <2> SUFFICES ASSUME NEW k \in 1..len, In(k), k \notin a + 1..q PROVE FALSE
    OBVIOUS
  <2>1. a < k
    BY <1>5
  <2>2. q < k /\ q + 1 # k
    BY <1>8, <2>1
  <2>3. q + 1 \in 1..len /\ a < q + 1 /\ q + 1 < k
    BY <1>1, <1>8, <2>2
  <2>4. list[q + 1] \in M
    BY <1>6, <2>3
  <2> QED
    BY <1>8, <2>3, <2>4
<1> HIDE DEF Q
<1>11. q = a + n
  <2> DEFINE P == a + 1..q
             h == [k \in P |-> list[k]]
  <2>1. \A k \in P : k \in 1..len /\ list[k] \in M
    BY <1>9
  <2>2. h \in [P -> M]
    BY <2>1
  <2>3. \A x \in M : \E k \in P : h[k] = x
    <3> SUFFICES ASSUME NEW x \in M PROVE \E k \in P : h[k] = x
      OBVIOUS
    <3>1. PICK k \in 1..len : list[k] = x
      BY <1>1
    <3>2. k \in P
      BY <1>10, <3>1
    <3> QED
      BY <3>1, <3>2
  <2>4. \A i, j \in P : h[i] = h[j] => i = j
    BY <1>1, <2>1
  <2>5. h \in Surjection(P, M) /\ h \in Injection(P, M)
    BY <2>2, <2>3, <2>4 DEF Surjection, Injection, IsInjective
  <2>6. IsFiniteSet(P) /\ Cardinality(P) = q - a
    <3>1. a + 1 \in Int /\ q \in Int
      BY <1>8
    <3>2. IsFiniteSet(P) /\ Cardinality(P) = IF a + 1 > q THEN 0 ELSE q - (a + 1) + 1
      BY <3>1, FS_Interval
    <3>3. (IF a + 1 > q THEN 0 ELSE q - (a + 1) + 1) = q - a
      BY <1>8
    <3> QED
      BY <3>2, <3>3
  <2>7. IsFiniteSet(1..n) /\ Cardinality(1..n) = n
    <3>1. IsFiniteSet(1..n) /\ Cardinality(1..n) = IF 1 > n THEN 0 ELSE n - 1 + 1
      BY FS_Interval
    <3> QED
      BY <3>1
  <2> HIDE DEF P, h
  <2>8. IsFiniteSet(M) /\ Cardinality(M) = Cardinality(P)
    BY <2>5, <2>6, FS_Surjection
  <2> DEFINE N == 1..n
  <2>9. f \in Surjection(N, M) /\ f \in Injection(N, M) /\ IsFiniteSet(N)
    BY <2>7
  <2>10. Cardinality(N) = n
    BY <2>7
  <2> HIDE DEF N
  <2>11. Cardinality(M) = Cardinality(N)
    BY <2>9, FS_Surjection
  <2> QED
    BY <1>8, <2>6, <2>8, <2>10, <2>11
<1> DEFINE sub == SubSeq(list, a + 1, a + n)
<1>12. DOMAIN sub = 1..n /\ \A k \in 1..n : sub[k] = list[a + k]
  <2>1. a + 1 \in 1..len + 1 /\ a + n \in 0..len /\ a + n - (a + 1) + 1 = n
    <3>1. n = 0 \/ a + n \in 1..len
      <4>1. CASE n # 0
        <5>1. q \in a + 1..q
          BY <1>8, <1>11, <4>1
        <5> QED
          BY <1>9, <1>11, <5>1
      <4> QED
        BY <4>1
    <3> QED
      BY <1>1, <1>4, <1>8, <3>1
  <2>2. sub = [i \in 1..n |-> list[i + (a + 1) - 1]]
    <3> DEFINE size == (1 + (a + n)) - (a + 1)
    <3>1. sub = [i \in 1..size |-> list[i + (a + 1) - 1]]
      BY <1>2, <1>8, <1>b, <2>1
    <3>2. size = n
      BY <1>8
    <3> HIDE DEF size, sub
    <3> QED
      BY <3>1, <3>2
  <2>3. \A i \in 1..n : i + (a + 1) - 1 = a + i
    BY <1>8
  <2> QED
    BY <2>2, <2>3
<1> HIDE DEF sub
<1>13. Tree!ToSet(sub) = M
  <2>1. ASSUME NEW k \in 1..n PROVE sub[k] \in M
    <3>1. a + k \in a + 1..q
      BY <1>8, <1>11
    <3> QED
      BY <1>9, <1>12, <3>1
  <2>2. ASSUME NEW x \in M PROVE \E k \in 1..n : sub[k] = x
    <3>1. PICK j \in 1..len : list[j] = x
      BY <1>1
    <3>2. j \in a + 1..q
      BY <1>10, <3>1
    <3>3. j - a \in 1..n /\ a + (j - a) = j
      BY <1>8, <1>11, <3>2
    <3> QED
      BY <1>12, <3>1, <3>3
  <2> QED
    BY <1>12, <2>1, <2>2 DEF Tree!ToSet
<1> QED
  BY <1>13 DEF sub, a

(* Siblings dropped together on another come right after it, all of them,  *)
(* however many.                                                           *)
THEOREM DroppedGroupsStayTogether ==
    ASSUME NEW groups, Tidy(groups), NEW target, CanBeDroppedOn(groups, target), target.kind = "group",
           NEW selected \in Seq(DOMAIN groups), \A j, k \in 1..Len(selected) : selected[j] = selected[k] => j = k
    PROVE  Tree!DropsTogether(groups, selected, target)
<1> DEFINE n == Len(selected)
           t == target.group
           C == Tree!ChildrenOf(groups, groups[t].parent)
           M == Moved(selected, n)
           after == Tree!HandleDrop(groups, selected, target).groups
           list == Tree!SortedChildren(after, groups[t].parent)
<1> SUFFICES ASSUME \A g \in Tree!ToSet(selected) : Tree!IsSibling(groups, g, target)
             PROVE  /\ Tree!OthersStay(groups, after, Tree!ToSet(selected))
                    /\ Tree!ToSet(SubSeq(list, PlaceOf(list, t) + 1, PlaceOf(list, t) + n)) = Tree!ToSet(selected)
  BY DEF Tree!DropsTogether, Tree!SelectInSeq, PlaceOf
<1>1. n \in Nat /\ DOMAIN selected = 1..n /\ selected \in [1..n -> DOMAIN groups]
  OBVIOUS
<1>2. Tree!ToSet(selected) = M
  BY <1>1 DEF Tree!ToSet, Moved
<1>3. \A k \in 1..n : Tree!IsSibling(groups, selected[k], target)
  BY <1>1, <1>2 DEF Moved
<1>4. Gathered(groups, after, C, t, M)
  BY <1>3, AllGathered
<1>5. /\ t \in DOMAIN groups /\ t \in C /\ groups[t].parent \in DOMAIN groups \cup {NoGroup}
      /\ \A k \in 1..n : selected[k] \in C /\ selected[k] # t
  BY <1>1, <1>3 DEF CanBeDroppedOn, Tree!IsSibling, Tree!ChildrenOf, Tidy, Tree!ParentsResolve, Tree!ParentsOf
<1>6. Tree!OthersStay(groups, after, M)
  <2> HIDE DEF M, after, C
  <2> QED
    BY <1>4, StillShown DEF Gathered
<1>7. Tree!ChildrenOf(after, groups[t].parent) = C
  BY <1>4, <1>5 DEF Gathered
<1>8. list = Tree!SortGroups(after, C)
  BY <1>7 DEF Tree!SortedChildren
<1>9. M \in SUBSET C /\ t \in C \ M
  BY <1>5 DEF Moved
<1>10. selected \in Surjection(1..n, M) /\ selected \in Injection(1..n, M)
  <2>1. \A k \in 1..n : selected[k] \in M
    BY DEF Moved
  <2>2. selected \in [1..n -> M]
    <3> HIDE DEF M
    <3> QED
      BY <1>1, <2>1
  <2>3. \A x \in M : \E k \in 1..n : selected[k] = x
    BY DEF Moved
  <2> HIDE DEF M
  <2> QED
    BY <2>2, <2>3 DEF Surjection, Injection, IsInjective
<1>11. Ordered(after, C)
  <2>1. Tidy(after)
    BY <1>4 DEF Gathered
  <2> HIDE DEF after
  <2> QED
    BY <1>7, <2>1, ChildrenAreOrdered
<1>12. \A m \in M : Tree!Precedes(after, t, m)
  BY <1>4 DEF Gathered
<1>13. \A m \in M : \A z \in C \ M : Tree!Precedes(after, t, z) => Tree!Precedes(after, m, z)
  BY <1>4 DEF Gathered
<1> HIDE DEF n, C, M, after, list, t
<1>14. Enumerates(list, C, after)
  BY <1>8, <1>11, GroupsAreSorted
<1>15. Tree!ToSet(SubSeq(list, PlaceOf(list, t) + 1, PlaceOf(list, t) + n)) = M
  BY <1>1, <1>9, <1>10, <1>11, <1>12, <1>13, <1>14, TheseFollow
<1> QED
  BY <1>2, <1>6, <1>15

LEMMA GivenDrops ==
  ASSUME FunctionsInit, input.about = "drop"
  PROVE  \E groups \in GroupsOf(TreeGroup, {0, 1, 3}), g \in TreeGroup, target \in Targets :
            input.given = [groups |-> groups, group |-> g, target |-> target]
<1>1. CASE input = [about |-> "walk"]
  BY <1>1
<1>2. CASE SomeInput
  BY <1>2 DEF SomeInput, Given
<1> QED
  BY <1>1, <1>2 DEF FunctionsInit

LEMMA NamesDiffer ==
    /\ NameOf \in [GroupId -> Nat] /\ \A g \in GroupId : NameOf[g] # 0
    /\ \A g, h \in GroupId : g # h => NameOf[g] # NameOf[h]
<1> DEFINE n == Cardinality(GroupId)
           N == 1..n
           Names(f) == f \in [GroupId -> N] /\ \A g, h \in GroupId : g # h => f[g] # f[h]
<1>1. IsFiniteSet(GroupId) /\ n \in Nat
  BY FunctionsAssumption, FS_CardinalityType
<1>2. IsFiniteSet(N) /\ Cardinality(N) = n
  <2> HIDE DEF n
  <2>1. IsFiniteSet(1..n) /\ Cardinality(1..n) = IF 1 > n THEN 0 ELSE n - 1 + 1
    BY <1>1, FS_Interval
  <2> QED
    BY <1>1, <2>1
<1>3. ExistsBijection(GroupId, N)
  <2> HIDE DEF N
  <2> QED
    BY <1>1, <1>2, FS_SameCardinalityBij
<1>4. PICK f : Names(f)
  BY <1>3 DEF ExistsBijection, Bijection, Injection, IsInjective
<1>5. NameOf = CHOOSE h \in [GroupId -> N] : \A a, b \in GroupId : a # b => h[a] # h[b]
  BY DEF NameOf
<1> HIDE DEF N
<1>6. Names(NameOf)
  BY <1>4, <1>5
<1>7. \A k \in N : k \in Nat /\ k # 0
  BY <1>1 DEF N
<1> QED
  BY <1>6, <1>7

LEMMA GivenGroupsAreTidy ==
    ASSUME NEW groups \in GroupsOf(TreeGroup, {0, 1, 3})
    PROVE  /\ Tidy(groups) /\ DOMAIN groups = TreeGroup /\ TreeGroup \subseteq GroupId
           /\ \A g \in DOMAIN groups : groups[g].name # 0
<1>1. TreeGroup \in SUBSET GroupId
  BY FunctionsAssumption DEF TreeGroup
<1>2. PICK up \in Forests(TreeGroup), order \in [TreeGroup -> {0, 1, 3}] :
         groups = [g \in TreeGroup |-> [parent |-> up[g], order |-> order[g], name |-> NameOf[g]]]
  BY DEF GroupsOf
<1>3. Tree!ParentsResolve(up) /\ Tree!Forest(up) /\ up \in [TreeGroup -> TreeGroup \cup {NoGroup}]
  BY <1>1, NormalizedIsForest DEF Forests
<1>4. IsFiniteSet(TreeGroup)
  BY <1>1, FunctionsAssumption, FS_Subset
<1> HIDE DEF TreeGroup
<1>5. ASSUME NEW g \in TreeGroup
      PROVE  /\ groups[g] \in GroupRecord /\ groups[g].parent = up[g] /\ groups[g].name = NameOf[g]
             /\ groups[g].name # 0
  <2>1. up[g] \in Ref /\ order[g] \in Int
    BY <1>1, <1>3 DEF Ref
  <2>2. NameOf[g] \in Int /\ NameOf[g] # 0
    BY <1>1, NamesDiffer
  <2> QED
    BY <1>2, <2>1, <2>2 DEF GroupRecord
<1>6. DOMAIN groups = TreeGroup /\ groups \in [TreeGroup -> GroupRecord]
  <2>1. DOMAIN groups = TreeGroup /\ groups = [g \in TreeGroup |-> groups[g]]
    BY <1>2
  <2> QED
    BY <1>5, <2>1
<1>7. Tree!ParentsOf(groups) = up
  <2>1. up = [g \in TreeGroup |-> up[g]]
    BY <1>3
  <2> QED
    BY <1>5, <1>6, <2>1 DEF Tree!ParentsOf
<1>8. \A g, h \in TreeGroup : g # h => groups[g].name # groups[h].name
  BY <1>1, <1>5, NamesDiffer
<1> QED
  BY <1>1, <1>3, <1>4, <1>5, <1>6, <1>7, <1>8 DEF Tidy

(* What the run checks of drops holds for all of its inputs.               *)
THEOREM DropsAreInPlace == FunctionsSpec => []DropMovesOneGroup
<1>1. FunctionsInit => DropMovesOneGroup
  <2> SUFFICES ASSUME FunctionsInit, input.about = "drop"
               PROVE  /\ Tree!DropsInPlace(input.given.groups, input.given.group, input.given.target)
                      /\ \A new \in GroupId \ TreeGroup :
                            Tree!EditsInPlace(input.given.groups, input.given.group, new, 0)
                      /\ \A g \in TreeGroup : input.given.target.kind = "group" /\ g # input.given.group =>
                            Tree!DropsTogether(input.given.groups, <<input.given.group, g>>, input.given.target)
    BY DEF DropMovesOneGroup
  <2>1. PICK groups \in GroupsOf(TreeGroup, {0, 1, 3}), g \in TreeGroup, target \in Targets :
                input.given = [groups |-> groups, group |-> g, target |-> target]
    BY GivenDrops
  <2>2. input.given.groups = groups /\ input.given.group = g /\ input.given.target = target
    BY <2>1
  <2>3. /\ Tidy(groups) /\ DOMAIN groups = TreeGroup /\ TreeGroup \subseteq GroupId
        /\ \A h \in DOMAIN groups : groups[h].name # 0
    BY GivenGroupsAreTidy
  <2>4. CanBeDroppedOn(groups, target)
    BY <2>3 DEF Targets, CanBeDroppedOn
  <2> HIDE DEF TreeGroup
  <2>5. Tree!DropsInPlace(groups, g, target)
    BY <2>3, <2>4, DroppedGroupsGoThere
  <2>6. ASSUME NEW new \in GroupId \ TreeGroup
        PROVE  Tree!EditsInPlace(groups, g, new, 0)
    BY <2>3, EditedGroupsStay
  <2>7. ASSUME NEW h \in TreeGroup, target.kind = "group", h # g
        PROVE  Tree!DropsTogether(groups, <<g, h>>, target)
    <3> DEFINE two == <<g, h>>
    <3>1. two \in Seq(DOMAIN groups) /\ \A j, k \in 1..Len(two) : two[j] = two[k] => j = k
      BY <2>3, <2>7
    <3> HIDE DEF two
    <3>2. Tree!DropsTogether(groups, two, target)
      BY <2>3, <2>4, <2>7, <3>1, DroppedGroupsStayTogether
    <3> QED
      BY <3>2 DEF two
  <2> QED
    BY <2>2, <2>5, <2>6, <2>7
<1>2. DropMovesOneGroup /\ [FunctionsNext]_<<vars, input>> => DropMovesOneGroup'
  <2> SUFFICES ASSUME DropMovesOneGroup, [FunctionsNext]_<<vars, input>>
               PROVE  DropMovesOneGroup'
    OBVIOUS
  <2>1. input' = input
    BY DEF FunctionsNext
  <2> QED
    BY <2>1 DEF DropMovesOneGroup
<1> QED
  BY <1>1, <1>2, PTL DEF FunctionsSpec
=============================================================================
