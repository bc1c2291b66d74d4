------------------------ MODULE CoroutineInputProofs ------------------------
(***************************************************************************)
(* Theorems about CoroutineInput.  What a step takes from its input is a   *)
(* fold over the outstanding requests, so the proofs rest on an induction  *)
(* over their number, which is used in the form of the least number        *)
(* principle: a set of naturals that is not empty has a least element.     *)
(***************************************************************************)
EXTENDS CoroutineInput, FiniteSetTheorems, WellFoundedInduction, TLAPS

(* A set of natural numbers that is not empty has a least element.         *)
LEMMA LeastNumber ==
  \A T \in SUBSET Nat : T # {} => \E m \in T : \A k \in T : m <= k
<1> SUFFICES ASSUME NEW T \in SUBSET Nat, T # {}
             PROVE  \E m \in T : \A k \in T : m <= k
  OBVIOUS
<1> DEFINE R == {ss \in Nat \X Nat : ss[1] < ss[2]}
<1>1. OpToRel(<, Nat) = R
  BY DEF OpToRel
<1>2. IsWellFoundedOn(R, Nat)
  BY <1>1, NatLessThanWellFounded
<1>3. PICK m \in T : \A y \in T : ~(<<y, m>> \in R)
  BY <1>2, WFMin
<1>4. ASSUME NEW k \in T PROVE m <= k
  <2>1. ~(<<k, m>> \in R) /\ k \in Nat /\ m \in Nat
    BY <1>3
  <2>2. <<k, m>> \in Nat \X Nat
    BY <2>1
  <2>3. ~(k < m)
    <3> SUFFICES ASSUME k < m PROVE FALSE
      OBVIOUS
    <3>1. <<k, m>>[1] = k /\ <<k, m>>[2] = m
      OBVIOUS
    <3>2. <<k, m>> \in R
      BY <2>2, <3>1
    <3> QED
      BY <2>1, <3>2
  <2> QED
    BY <2>1, <2>3
<1> QED
  BY <1>3, <1>4

-----------------------------------------------------------------------------
(* The fold of absorb.                                                     *)

(* One round of absorb's loop, without the set around its result.          *)
After(i, begin, acc, r) ==
  LET lo   == Greater(r.offset, begin)
      hi   == EndIn(i, r)
      upto == Reached(acc.held, lo, hi)
  IN IF acc.full \/ r.kind = "Len" \/ lo >= hi THEN acc
     ELSE [held |-> acc.held \cup (lo .. upto - 1),
           taken |-> Greater(acc.taken, upto),
           full |-> r.kind = "Range" /\ upto < hi]

Start(i, from) == [held |-> held, taken |-> i.offset + from, full |-> FALSE]

(* A round has one result.                                                 *)
LEMMA RoundAfter ==
  \A i, begin, acc, r : Round(i, begin, acc, r) = {After(i, begin, acc, r)}
BY DEF Round, After, Serve

(* The greatest of the first k numbers.                                    *)
LEMMA MaxOf ==
  ASSUME NEW k \in Nat, NEW s \in SUBSET (1 .. k), k \in s PROVE Max(s) = k
<1>1. k \in s /\ \A y \in s : k >= y
  OBVIOUS
<1>2. ASSUME NEW x \in s, \A y \in s : x >= y PROVE x = k
  <2>1. x >= k /\ k >= x /\ x \in Nat
    BY <1>1, <1>2
  <2> QED
    BY <2>1
<1> QED
  BY <1>1, <1>2 DEF Max

(* A set without the number above it is one of the numbers below.          *)
LEMMA Below ==
  ASSUME NEW k \in Nat \ {0}, NEW s \in SUBSET (1 .. k)
  PROVE  s \ {k} \in SUBSET (1 .. k - 1)
OBVIOUS

(* g solves the recursion of the fold over the first n requests.           *)
Folds(g, i, b, a0, n) ==
  g = [s \in SUBSET (1 .. n) |->
         IF s = {} THEN {a0}
         ELSE UNION {Round(i, b, acc, need[Max(s)]) : acc \in g[s \ {Max(s)}]}]

(* The recursion of the fold has a solution over any number of requests.   *)
LEMMA FoldExists ==
  ASSUME NEW i, NEW b, NEW a0, NEW n \in Nat
  PROVE  \E g : Folds(g, i, b, a0, n)
<1> DEFINE Step(accs, k) == UNION {Round(i, b, acc, need[k]) : acc \in accs}
           Solves(g, k) == g = [s \in SUBSET (1 .. k) |->
                                  IF s = {} THEN {a0}
                                  ELSE Step(g[s \ {Max(s)}], Max(s))]
           T == {k \in Nat : ~ \E g : Solves(g, k)}
<1>1. 0 \notin T
  <2> DEFINE g == [s \in SUBSET (1 .. 0) |-> {a0}]
  <2> HIDE DEF Step
  <2>1. \A s \in SUBSET (1 .. 0) : s = {}
    OBVIOUS
  <2>2. Solves(g, 0)
    BY <2>1
  <2> QED
    BY <2>2
<1>2. ASSUME NEW k \in Nat \ {0}, k - 1 \notin T PROVE k \notin T
  <2>1. PICK g : Solves(g, k - 1)
    <3> HIDE DEF Solves
    <3>1. k - 1 \in Nat
      OBVIOUS
    <3> QED
      BY <1>2, <3>1
  <2> DEFINE h == [s \in SUBSET (1 .. k) |->
                     IF k \in s THEN Step(g[s \ {k}], k) ELSE g[s]]
  <2> HIDE DEF Step
  <2>2. ASSUME NEW s \in SUBSET (1 .. k)
        PROVE  h[s] = IF s = {} THEN {a0} ELSE Step(h[s \ {Max(s)}], Max(s))
    <3>1. CASE k \in s
      <4>1. Max(s) = k /\ s \ {k} \in SUBSET (1 .. k) /\ k \notin s \ {k}
        BY <3>1, MaxOf, Below
      <4>2. h[s \ {k}] = g[s \ {k}]
        BY <4>1
      <4> QED
        BY <3>1, <4>1, <4>2
    <3>2. CASE k \notin s
      <4>1. s \in SUBSET (1 .. k - 1) /\ s \ {Max(s)} \in SUBSET (1 .. k - 1)
        BY <3>2, Below
      <4>2. h[s] = g[s] /\ h[s \ {Max(s)}] = g[s \ {Max(s)}]
        BY <3>2, <4>1
      <4>3. g[s] = IF s = {} THEN {a0} ELSE Step(g[s \ {Max(s)}], Max(s))
        BY <2>1, <4>1
      <4> QED
        BY <4>2, <4>3
    <3> QED
      BY <3>1, <3>2
  <2>3. h = [s \in SUBSET (1 .. k) |-> h[s]]
    OBVIOUS
  <2> HIDE DEF h
  <2>4. Solves(h, k)
    BY <2>2, <2>3
  <2> HIDE DEF Solves
  <2> QED
    BY <2>4
<1> HIDE DEF Solves
<1>3. T = {}
  <2> SUFFICES ASSUME T # {} PROVE FALSE
    OBVIOUS
  <2>1. PICK m \in T : \A k \in T : m <= k
    BY LeastNumber
  <2>2. m \in Nat \ {0}
    BY <1>1, <2>1
  <2>3. m - 1 \notin T
    BY <2>1, <2>2
  <2> QED
    BY <1>2, <2>1, <2>2, <2>3
<1>4. \E g : Solves(g, n)
  BY <1>3
<1> QED
  BY <1>4 DEF Solves, Folds

(* a is the course of an absorb: one round for each of the n requests.     *)
Course(a, i, from, n) ==
  /\ a[0] = Start(i, from)
  /\ \A k \in 1 .. n : a[k] = After(i, i.offset + from, a[k-1], need[k])
  /\ Absorbed(i, from) = {a[n]}

(* absorb goes through the requests in order, one round each.              *)
LEMMA AbsorbSteps ==
  ASSUME NEW i, NEW from, NEW n \in Nat, DOMAIN need = 1 .. n
  PROVE  \E a : Course(a, i, from, n)
<1> DEFINE b == i.offset + from
           a0 == Start(i, from)
           Def(h) == [s \in SUBSET (1 .. n) |->
                        IF s = {} THEN {a0}
                        ELSE LET x == Max(s)
                             IN UNION {Round(i, b, acc, need[x]) : acc \in h[s \ {x}]}]
           H == CHOOSE h : h = Def(h)
           a == [k \in 0 .. n |-> CHOOSE x : x \in H[1 .. k]]
<1>1. Absorbed(i, from) = H[1 .. n]
  BY Zenon DEF Absorbed, FoldLeft, MapThenFoldSet, Start
<1>2. H = Def(H)
  <2>1. \E h : h = Def(h)
    <3>1. PICK h : Folds(h, i, b, a0, n)
      BY FoldExists
    <3>2. h = Def(h)
      BY <3>1, Zenon DEF Folds
    <3> QED
      BY <3>2
  <2> HIDE DEF Def
  <2> QED
    BY <2>1
<1> HIDE DEF H, a0, b
<1>3. H[1 .. 0] = {a0}
  <2>1. 1 .. 0 = {} /\ {} \in SUBSET (1 .. n)
    OBVIOUS
  <2>2. Def(H)[{}] = {a0}
    BY <2>1
  <2> QED
    BY <1>2, <2>1, <2>2
<1>4. ASSUME NEW k \in 1 .. n
      PROVE  H[1 .. k] = UNION {Round(i, b, acc, need[k]) : acc \in H[1 .. k - 1]}
  <2>1. 1 .. k \in SUBSET (1 .. n) /\ k \in 1 .. k
    OBVIOUS
  <2>2. Max(1 .. k) = k
    BY MaxOf
  <2>3. (1 .. k) \ {k} = 1 .. k - 1
    OBVIOUS
  <2>4. Def(H)[1 .. k] = UNION {Round(i, b, acc, need[k]) : acc \in H[1 .. k - 1]}
    BY <2>1, <2>2, <2>3
  <2> HIDE DEF Def
  <2> QED
    BY <1>2, <2>4
<1>5. ASSUME NEW k \in 1 .. n, H[1 .. k - 1] = {a[k - 1]}
      PROVE  /\ H[1 .. k] = {a[k]}
             /\ a[k] = After(i, b, a[k - 1], need[k])
  <2>1. H[1 .. k] = {After(i, b, a[k - 1], need[k])}
    <3>1. H[1 .. k] = Round(i, b, a[k - 1], need[k])
      <4> DEFINE last == a[k - 1]
      <4>1. H[1 .. k] = UNION {Round(i, b, acc, need[k]) : acc \in {last}}
        BY <1>4, <1>5
      <4> HIDE DEF last
      <4>2. UNION {Round(i, b, acc, need[k]) : acc \in {last}}
              = Round(i, b, last, need[k])
        OBVIOUS
      <4> QED
        BY <4>1, <4>2 DEF last
    <3> QED
      BY <3>1, RoundAfter
  <2>2. a[k] = CHOOSE x : x \in H[1 .. k]
    OBVIOUS
  <2> QED
    BY <2>1, <2>2
<1>6. a[0] = a0
  BY <1>3
<1> HIDE DEF a, Def
<1>7. \A k \in 0 .. n : H[1 .. k] = {a[k]}
  <2> DEFINE T == {k \in 0 .. n : H[1 .. k] # {a[k]}}
  <2> SUFFICES ASSUME T # {} PROVE FALSE
    OBVIOUS
  <2>0. T \in SUBSET Nat
    OBVIOUS
  <2>1. PICK m \in T : \A k \in T : m <= k
    <3> HIDE DEF T
    <3> QED
      BY <2>0, LeastNumber
  <2>2. m # 0
    BY <1>3, <1>6, <2>1
  <2>3. m \in 1 .. n /\ m - 1 \in 0 .. n /\ m - 1 \notin T
    BY <2>1, <2>2
  <2> QED
    BY <1>5, <2>1, <2>3
<1>8. \A k \in 1 .. n : a[k] = After(i, b, a[k-1], need[k])
  BY <1>5, <1>7
<1> QED
  BY <1>1, <1>6, <1>7, <1>8 DEF Course, a0, b

-----------------------------------------------------------------------------
(* What the operators of the model return.                                 *)

RequestSet == [kind : {"AtLeast", "Range", "Len"}, offset : Nat, end : Nat]

(* A span with at least one byte.                                          *)
SpanSort == {s \in Nat \X Nat : s[1] < s[2]}

(* Min is the least element.                                               *)
LEMMA MinIsLeast ==
  ASSUME NEW S \in SUBSET Nat, S # {}
  PROVE  Min(S) \in S /\ \A x \in S : Min(S) <= x
<1>1. \E m \in S : \A x \in S : m <= x
  BY LeastNumber
<1> QED
  BY <1>1 DEF Min

(* The order of a finite set of numbers: one element for each rank.        *)
LEMMA Ranks ==
  ASSUME NEW H \in SUBSET Nat, IsFiniteSet(H)
  PROVE  /\ Cardinality(H) \in Nat
         /\ \A p \in H : Cardinality({q \in H : q < p}) \in 0 .. Cardinality(H) - 1
         /\ \A k \in 1 .. Cardinality(H) :
              \E p \in H : Cardinality({q \in H : q < p}) = k - 1
         /\ \A p, r \in H : Cardinality({q \in H : q < p}) = Cardinality({q \in H : q < r})
                              => p = r
         /\ \A p, r \in H : p < r =>
              Cardinality({q \in H : q < p}) < Cardinality({q \in H : q < r})
<1> DEFINE n == Cardinality(H)
           Smaller(p) == {q \in H : q < p}
           rank == [p \in H |-> Cardinality(Smaller(p)) + 1]
<1>1. n \in Nat
  BY FS_CardinalityType
<1>2. ASSUME NEW p \in H
      PROVE  IsFiniteSet(Smaller(p)) /\ Cardinality(Smaller(p)) \in 0 .. n - 1
  <2>1. Smaller(p) \in SUBSET H /\ p \in H \ Smaller(p)
    OBVIOUS
  <2> HIDE DEF Smaller
  <2>2. IsFiniteSet(Smaller(p)) /\ Cardinality(Smaller(p)) <= n
    BY <2>1, FS_Subset
  <2>3. Cardinality(Smaller(p)) # n
    BY <2>1, FS_Subset
  <2>4. Cardinality(Smaller(p)) \in Nat
    BY <2>2, FS_CardinalityType
  <2> QED
    BY <1>1, <2>2, <2>3, <2>4
<1>3. ASSUME NEW p \in H, NEW r \in H, p < r
      PROVE  Cardinality(Smaller(p)) < Cardinality(Smaller(r))
  <2>0. \A q \in H : q \in Nat
    OBVIOUS
  <2>1. Smaller(p) \in SUBSET Smaller(r) /\ p \in Smaller(r) \ Smaller(p)
    <3>1. ASSUME NEW q \in H, q < p PROVE q < r
      BY <1>3, <2>0, <3>1
    <3>2. ~(p < p)
      BY <2>0
    <3> QED
      BY <1>3, <3>1, <3>2
  <2>2. IsFiniteSet(Smaller(r))
    BY <1>2
  <2>3. Cardinality(Smaller(p)) \in Nat /\ Cardinality(Smaller(r)) \in Nat
    BY <1>2
  <2> HIDE DEF Smaller
  <2>4. Cardinality(Smaller(p)) <= Cardinality(Smaller(r))
    BY <2>1, <2>2, FS_Subset
  <2>5. Cardinality(Smaller(p)) # Cardinality(Smaller(r))
    BY <2>1, <2>2, FS_Subset
  <2> QED
    BY <2>3, <2>4, <2>5
<1>4. ASSUME NEW p \in H, NEW r \in H, Cardinality(Smaller(p)) = Cardinality(Smaller(r))
      PROVE  p = r
  <2>1. Cardinality(Smaller(p)) \in Nat /\ p \in Nat /\ r \in Nat
    BY <1>2
  <2> HIDE DEF Smaller
  <2>2. ~(p < r) /\ ~(r < p)
    BY <1>3, <1>4, <2>1
  <2> QED
    BY <2>1, <2>2
<1> HIDE DEF Smaller
<1>5. rank \in Injection(H, 1 .. n)
  <2>1. rank \in [H -> 1 .. n]
    BY <1>1, <1>2
  <2>2. ASSUME NEW p \in H, NEW r \in H, rank[p] = rank[r] PROVE p = r
    BY <1>2, <1>4, <2>2
  <2> QED
    BY <2>1, <2>2 DEF Injection, IsInjective
<1>6. rank \in Surjection(H, 1 .. n)
  <2>1. IsFiniteSet(1 .. n) /\ Cardinality(1 .. n) = n
    BY <1>1, FS_Interval
  <2> QED
    BY <1>5, <2>1, FS_Injection
<1>7. ASSUME NEW k \in 1 .. n PROVE \E p \in H : Cardinality(Smaller(p)) = k - 1
  <2>1. PICK p \in H : rank[p] = k
    BY <1>6 DEF Surjection
  <2>2. Cardinality(Smaller(p)) \in Nat
    BY <1>2
  <2> QED
    BY <2>1, <2>2
<1> QED
  BY <1>1, <1>2, <1>3, <1>4, <1>7 DEF Smaller

(* The first bytes of a span's gaps, and where the gap that begins with p  *)
(* ends.                                                                   *)
Heads(s) == {p \in Missing(s) : p = s[1] \/ p - 1 \in held}

GapEnd(s, p) == Min({q \in p .. s[2] - 1 : q \in held} \cup {s[2]})

Ranked(H, k) == CHOOSE p \in H : Cardinality({q \in H : q < p}) = k - 1

(* The gaps of a span, by the rank of their first bytes.                   *)
LEMMA GapsRanked ==
  ASSUME NEW s
  PROVE  Gaps(s) = [k \in 1 .. Cardinality(Heads(s)) |->
                      Request("Range", Ranked(Heads(s), k),
                              GapEnd(s, Ranked(Heads(s), k)))]
BY DEF Gaps, Heads, GapEnd, Ranked

(* A gap begins at a missing byte and ends behind it, all its bytes are    *)
(* missing.                                                                *)
LEMMA GapOf ==
  ASSUME NEW s \in SpanSort, NEW p \in Missing(s)
  PROVE  /\ p \in Nat /\ s[1] <= p
         /\ GapEnd(s, p) \in Nat /\ p < GapEnd(s, p) /\ GapEnd(s, p) <= s[2]
         /\ \A q \in p .. GapEnd(s, p) - 1 : q \in Missing(s)
         /\ GapEnd(s, p) < s[2] => GapEnd(s, p) \in held
<1> DEFINE S == {q \in p .. s[2] - 1 : q \in held} \cup {s[2]}
<1>1. s[1] \in Nat /\ s[2] \in Nat /\ p \in s[1] .. s[2] - 1 /\ p \notin held
  BY DEF SpanSort, Missing, SpanOf
<1>2. S \in SUBSET Nat /\ S # {}
  BY <1>1
<1>3. GapEnd(s, p) = Min(S)
  BY DEF GapEnd
<1>4. Min(S) \in S /\ \A x \in S : Min(S) <= x
  BY <1>2, MinIsLeast
<1>5. Min(S) # p /\ Min(S) >= p /\ Min(S) <= s[2] /\ Min(S) \in Nat
  BY <1>1, <1>4
<1>6. ASSUME NEW q \in p .. Min(S) - 1 PROVE q \in Missing(s)
  <2>1. q \in p .. s[2] - 1 /\ ~(Min(S) <= q)
    BY <1>1, <1>5
  <2>2. q \notin S
    BY <1>4, <2>1
  <2> QED
    BY <1>1, <2>1, <2>2 DEF Missing, SpanOf
<1>7. Min(S) < s[2] => Min(S) \in held
  BY <1>1, <1>4, <1>5
<1> QED
  BY <1>1, <1>3, <1>5, <1>6, <1>7

(* A missing byte lies in the gap of a head.                               *)
LEMMA HeadOf ==
  ASSUME NEW s \in SpanSort, NEW p \in Missing(s)
  PROVE  \E h \in Heads(s) : h <= p /\ p < GapEnd(s, h)
<1>1. s[1] \in Nat /\ s[2] \in Nat /\ p \in s[1] .. s[2] - 1
  BY DEF SpanSort, Missing, SpanOf
<1> DEFINE T == {h \in s[1] .. p : \A q \in h .. p : q \in Missing(s)}
<1>2. T \in SUBSET Nat /\ p \in T
  BY <1>1
<1>3. PICK h \in T : \A k \in T : h <= k
  <2> HIDE DEF T
  <2> QED
    BY <1>2, LeastNumber
<1>4. h \in Nat /\ h \in s[1] .. p /\ h \in Missing(s) /\ \A q \in h .. p : q \in Missing(s)
  BY <1>1
<1>5. h \in Heads(s)
  <2> SUFFICES ASSUME h # s[1], h - 1 \notin held PROVE FALSE
    BY <1>4 DEF Heads
  <2>1. h - 1 \in s[1] .. p /\ h - 1 \in Missing(s)
    BY <1>1, <1>4 DEF Missing, SpanOf
  <2>2. \A q \in h - 1 .. p : q \in Missing(s)
    BY <1>1, <1>4, <2>1
  <2> QED
    BY <1>3, <1>4, <2>1, <2>2
<1>6. p < GapEnd(s, h)
  <2>1. /\ GapEnd(s, h) \in Nat /\ h < GapEnd(s, h) /\ GapEnd(s, h) <= s[2]
        /\ GapEnd(s, h) < s[2] => GapEnd(s, h) \in held
    BY <1>4, GapOf
  <2> SUFFICES ASSUME GapEnd(s, h) <= p PROVE FALSE
    BY <1>1, <2>1
  <2>2. GapEnd(s, h) \in h .. p /\ GapEnd(s, h) < s[2]
    BY <1>1, <1>4, <2>1
  <2> QED
    BY <1>4, <2>1, <2>2 DEF Missing
<1> QED
  BY <1>4, <1>5, <1>6

(* The requests for a span: Ranges within its gaps, that cover them.       *)
LEMMA GapsCover ==
  ASSUME NEW s \in SpanSort
  PROVE  /\ Gaps(s) \in Seq(RequestSet)
         /\ \A k \in DOMAIN Gaps(s) :
              LET r == Gaps(s)[k]
              IN /\ r.kind = "Range" /\ r.offset \in Missing(s)
                 /\ r.offset < r.end /\ r.end <= s[2]
                 /\ \A q \in r.offset .. r.end - 1 : q \in Missing(s)
         /\ \A p \in Missing(s) : \E k \in DOMAIN Gaps(s) :
              p \in Gaps(s)[k].offset .. Gaps(s)[k].end - 1
<1> DEFINE H == Heads(s)
           n == Cardinality(H)
           Rank(p) == Cardinality({q \in H : q < p})
<1>1. s[1] \in Nat /\ s[2] \in Nat
  BY DEF SpanSort
<1>2. H \in SUBSET Missing(s) /\ H \in SUBSET Nat /\ IsFiniteSet(H)
  <2>1. H \in SUBSET (s[1] .. s[2] - 1)
    BY DEF Heads, Missing, SpanOf
  <2>2. IsFiniteSet(s[1] .. s[2] - 1)
    BY SMTT(60), <1>1, FS_Interval
  <2> QED
    BY <1>1, <2>1, <2>2, FS_Subset DEF Heads
<1> HIDE DEF H
<1>3. /\ n \in Nat
      /\ \A p \in H : Rank(p) \in 0 .. n - 1
      /\ \A k \in 1 .. n : \E p \in H : Rank(p) = k - 1
      /\ \A p, r \in H : Rank(p) = Rank(r) => p = r
  BY <1>2, Ranks
<1>4. Gaps(s) = [k \in 1 .. n |-> Request("Range", Ranked(H, k), GapEnd(s, Ranked(H, k)))]
  BY GapsRanked DEF H
<1>5. ASSUME NEW k \in 1 .. n PROVE Ranked(H, k) \in H /\ Rank(Ranked(H, k)) = k - 1
  BY <1>3 DEF Ranked
<1>6. ASSUME NEW p \in H PROVE Rank(p) + 1 \in 1 .. n /\ Ranked(H, Rank(p) + 1) = p
  <2>1. Rank(p) + 1 \in 1 .. n
    BY <1>3
  <2> HIDE DEF Rank
  <2>2. Rank(Ranked(H, Rank(p) + 1)) = Rank(p) /\ Ranked(H, Rank(p) + 1) \in H
    <3> DEFINE k == Rank(p) + 1
    <3>1. k \in 1 .. n /\ k - 1 = Rank(p)
      BY <1>3, <2>1
    <3>2. Ranked(H, k) \in H /\ Rank(Ranked(H, k)) = k - 1
      BY <1>5, <3>1
    <3> QED
      BY <3>1, <3>2
  <2> QED
    BY <1>3, <2>1, <2>2
<1> HIDE DEF n, Rank
<1>7. ASSUME NEW k \in 1 .. n
      PROVE  /\ Gaps(s)[k] \in RequestSet /\ Gaps(s)[k].kind = "Range"
             /\ Gaps(s)[k].offset = Ranked(H, k)
             /\ Gaps(s)[k].end = GapEnd(s, Ranked(H, k))
  <2>1. Ranked(H, k) \in Missing(s)
    BY <1>2, <1>5
  <2>2. Ranked(H, k) \in Nat /\ GapEnd(s, Ranked(H, k)) \in Nat
    BY <2>1, GapOf
  <2> QED
    BY <1>4, <2>2 DEF Request, RequestSet
<1>8. DOMAIN Gaps(s) = 1 .. n
  BY <1>4
<1>9. Gaps(s) \in Seq(RequestSet)
  <2>1. Gaps(s) \in [1 .. n -> RequestSet]
    BY <1>4, <1>7
  <2> QED
    BY <1>3, <2>1
<1>10. ASSUME NEW p \in Missing(s)
       PROVE  \E k \in 1 .. n : p \in Gaps(s)[k].offset .. Gaps(s)[k].end - 1
  <2>1. PICK h \in H : h <= p /\ p < GapEnd(s, h)
    BY HeadOf DEF H
  <2>2. h \in Missing(s) /\ p \in Nat /\ h \in Nat /\ GapEnd(s, h) \in Nat
    BY <1>2, GapOf
  <2>3. Rank(h) + 1 \in 1 .. n /\ Ranked(H, Rank(h) + 1) = h
    BY <1>6
  <2> QED
    BY <1>7, <2>1, <2>2, <2>3
<1>11. ASSUME NEW k \in 1 .. n
       PROVE  /\ Gaps(s)[k].offset \in Missing(s)
              /\ Gaps(s)[k].offset < Gaps(s)[k].end /\ Gaps(s)[k].end <= s[2]
              /\ \A q \in Gaps(s)[k].offset .. Gaps(s)[k].end - 1 : q \in Missing(s)
  <2>1. Ranked(H, k) \in Missing(s)
    BY <1>2, <1>5
  <2> QED
    BY <1>7, <2>1, GapOf
<1> QED
  BY <1>7, <1>8, <1>9, <1>10, <1>11

(* The gaps of a span come in the order of their bytes.                    *)
LEMMA GapsAscend ==
  ASSUME NEW s \in SpanSort, NEW j \in DOMAIN Gaps(s), NEW k \in DOMAIN Gaps(s), j < k
  PROVE  Gaps(s)[j].end <= Gaps(s)[k].offset
<1> DEFINE H == Heads(s)
           n == Cardinality(H)
           Rank(p) == Cardinality({q \in H : q < p})
           x == Ranked(H, j)
           y == Ranked(H, k)
<1>1. s[1] \in Nat /\ s[2] \in Nat
  BY DEF SpanSort
<1>2. H \in SUBSET Missing(s) /\ H \in SUBSET Nat /\ IsFiniteSet(H)
  <2>1. H \in SUBSET (s[1] .. s[2] - 1)
    BY DEF Heads, Missing, SpanOf
  <2>2. IsFiniteSet(s[1] .. s[2] - 1)
    BY SMTT(60), <1>1, FS_Interval
  <2> QED
    BY <1>1, <2>1, <2>2, FS_Subset DEF Heads
<1>3. Gaps(s) = [i \in 1 .. n |-> Request("Range", Ranked(H, i), GapEnd(s, Ranked(H, i)))]
  BY GapsRanked
<1> HIDE DEF H
<1>4. /\ n \in Nat
      /\ \A i \in 1 .. n : \E p \in H : Rank(p) = i - 1
      /\ \A p, r \in H : p < r => Rank(p) < Rank(r)
  BY <1>2, Ranks
<1>5. j \in 1 .. n /\ k \in 1 .. n
  BY <1>3
<1>6. /\ Gaps(s)[j].end = GapEnd(s, x) /\ Gaps(s)[k].offset = y
  BY <1>3, <1>5 DEF Request
<1>7. x \in H /\ Rank(x) = j - 1 /\ y \in H /\ Rank(y) = k - 1
  BY <1>4, <1>5 DEF Ranked
<1> HIDE DEF n, Rank, x, y
<1>8. x \in Nat /\ y \in Nat /\ x < y
  <2>1. x \in Nat /\ y \in Nat /\ x # y
    BY <1>2, <1>5, <1>7
  <2>2. ~(y < x)
    BY <1>4, <1>5, <1>7
  <2> QED
    BY <2>1, <2>2
<1>9. /\ GapEnd(s, x) \in Nat /\ s[1] <= x
      /\ \A q \in x .. GapEnd(s, x) - 1 : q \in Missing(s)
  BY <1>2, <1>7, GapOf
<1>10. y - 1 \in held
  BY <1>1, <1>7, <1>8, <1>9 DEF H, Heads
<1>11. ~(y - 1 < GapEnd(s, x))
  BY <1>8, <1>9, <1>10 DEF Missing
<1> QED
  BY <1>6, <1>8, <1>9, <1>11

(* The bytes of a request.                                                 *)
BytesOf(r) == r.offset .. r.end - 1

(* Flattening joins the sequences one by one.                              *)
LEMMA FlattenSteps ==
  ASSUME NEW ss, Len(ss) \in Nat \ {0}
  PROVE  \E f : /\ f[1] = ss[1]
                /\ \A i \in 2 .. Len(ss) : f[i] = f[i - 1] \o ss[i]
                /\ FlattenSeq(ss) = f[Len(ss)]
<1> DEFINE Def(h, k) == [i \in 1 .. k |-> IF i = 1 THEN ss[i] ELSE h[i - 1] \o ss[i]]
           n == Len(ss)
           H == CHOOSE h : h = Def(h, n)
           T == {k \in Nat \ {0} : ~ \E h : h = Def(h, k)}
<1>1. FlattenSeq(ss) = H[n]
  BY DEF FlattenSeq
<1>2. 1 \notin T
  <2> DEFINE g == [i \in 1 .. 1 |-> ss[1]]
  <2>1. g = Def(g, 1)
    OBVIOUS
  <2> HIDE DEF g, Def
  <2> QED
    BY <2>1
<1>3. ASSUME NEW k \in Nat \ {0, 1}, k - 1 \notin T PROVE k \notin T
  <2>1. PICK h : h = Def(h, k - 1)
    <3> HIDE DEF Def
    <3> QED
      BY <1>3
  <2> DEFINE g == [i \in 1 .. k |-> IF i = k THEN h[k - 1] \o ss[k] ELSE h[i]]
  <2>2. ASSUME NEW i \in 1 .. k
        PROVE  g[i] = IF i = 1 THEN ss[i] ELSE g[i - 1] \o ss[i]
    <3>1. CASE i = k
      <4>1. k - 1 \in 1 .. k /\ k \in 1 .. k /\ k - 1 # k /\ k # 1
        OBVIOUS
      <4>2. g[k - 1] = h[k - 1]
        BY <4>1, Zenon
      <4>3. g[k] = h[k - 1] \o ss[k]
        BY <4>1, Zenon
      <4> HIDE DEF g
      <4> QED
        BY <3>1, <4>1, <4>2, <4>3
    <3>2. CASE i # k
      <4>1. i \in 1 .. k - 1
        BY <3>2
      <4>2. g[i] = h[i] /\ (i # 1 => g[i - 1] = h[i - 1])
        BY <3>2, <4>1
      <4>3. h[i] = IF i = 1 THEN ss[i] ELSE h[i - 1] \o ss[i]
        BY <2>1, <4>1
      <4> HIDE DEF g
      <4> QED
        BY <4>2, <4>3
    <3> QED
      BY <3>1, <3>2
  <2>3. g = [i \in 1 .. k |-> g[i]]
    OBVIOUS
  <2> HIDE DEF g
  <2>4. g = Def(g, k)
    BY <2>2, <2>3
  <2> HIDE DEF Def
  <2> QED
    BY <2>4
<1>4. n \notin T
  <2> HIDE DEF Def, n
  <2> SUFFICES ASSUME n \in T PROVE FALSE
    OBVIOUS
  <2>1. PICK m \in T : \A k \in T : m <= k
    BY LeastNumber
  <2>2. m \in Nat \ {0, 1}
    BY <1>2, <2>1
  <2>3. m - 1 \notin T
    BY <2>1, <2>2
  <2> HIDE DEF T
  <2> QED
    BY <1>3, <2>1, <2>2, <2>3
<1>5. H = Def(H, n)
  <2> HIDE DEF Def
  <2> QED
    BY <1>4
<1> HIDE DEF H
<1>6. H[1] = ss[1] /\ \A i \in 2 .. n : H[i] = H[i - 1] \o ss[i]
  <2>1. \A i \in 1 .. n : Def(H, n)[i] = IF i = 1 THEN ss[i] ELSE H[i - 1] \o ss[i]
    OBVIOUS
  <2> HIDE DEF Def
  <2>2. \A i \in 1 .. n : H[i] = IF i = 1 THEN ss[i] ELSE H[i - 1] \o ss[i]
    BY <1>5, <2>1
  <2>3. 1 \in 1 .. n /\ \A i \in 2 .. n : i \in 1 .. n /\ i # 1
    OBVIOUS
  <2> QED
    BY <2>2, <2>3
<1> QED
  BY <1>1, <1>6

(* Requests rs name the gaps of the first n spans: request k lies in a gap *)
(* of span own[k], those of one span come together and in order, the spans *)
(* in their own order, and every missing byte is named for its span.       *)
OwnedBy(own, rs, n) ==
  /\ own \in [DOMAIN rs -> 1 .. n]
  /\ \A k \in DOMAIN rs :
       /\ rs[k].kind = "Range" /\ rs[k].offset < rs[k].end
       /\ rs[k].end <= spans[own[k]][2]
       /\ BytesOf(rs[k]) \subseteq Missing(spans[own[k]])
  /\ \A j, k \in DOMAIN rs : j < k =>
       own[j] <= own[k] /\ (own[j] = own[k] => rs[j].end <= rs[k].offset)
  /\ \A i \in 1 .. n : \A p \in Missing(spans[i]) :
       \E k \in DOMAIN rs : own[k] = i /\ p \in BytesOf(rs[k])

(* The gaps of the next span behind them name those of one span more.      *)
LEMMA OneSpanMore ==
  ASSUME NEW n \in Nat, NEW a \in Seq(RequestSet), NEW own, OwnedBy(own, a, n),
         spans[n + 1] \in SpanSort
  PROVE  /\ a \o Gaps(spans[n + 1]) \in Seq(RequestSet)
         /\ \E o : OwnedBy(o, a \o Gaps(spans[n + 1]), n + 1)
<1> DEFINE s == spans[n + 1]
           g == Gaps(s)
           c == a \o g
           o == [k \in DOMAIN c |-> IF k <= Len(a) THEN own[k] ELSE n + 1]
<1>1. /\ g \in Seq(RequestSet)
      /\ \A k \in DOMAIN g : /\ g[k].kind = "Range" /\ g[k].offset < g[k].end
                             /\ g[k].end <= s[2] /\ BytesOf(g[k]) \subseteq Missing(s)
      /\ \A p \in Missing(s) : \E k \in DOMAIN g : p \in BytesOf(g[k])
  BY GapsCover DEF BytesOf
<1>2. \A j, k \in DOMAIN g : j < k => g[j].end <= g[k].offset
  BY GapsAscend
<1> HIDE DEF g
<1>3. /\ c \in Seq(RequestSet) /\ Len(a) \in Nat /\ Len(g) \in Nat
      /\ DOMAIN a = 1 .. Len(a) /\ DOMAIN g = 1 .. Len(g)
      /\ DOMAIN c = 1 .. Len(a) + Len(g)
      /\ \A k \in DOMAIN a : c[k] = a[k]
      /\ \A k \in DOMAIN g : c[Len(a) + k] = g[k]
  BY <1>1
<1> HIDE DEF c
<1>4. ASSUME NEW k \in DOMAIN c
      PROVE  \/ k \in DOMAIN a /\ k <= Len(a) /\ c[k] = a[k] /\ o[k] = own[k]
             \/ /\ k - Len(a) \in DOMAIN g /\ ~(k <= Len(a))
                /\ c[k] = g[k - Len(a)] /\ o[k] = n + 1
  <2>1. CASE k <= Len(a)
    BY <1>3, <2>1
  <2>2. CASE ~(k <= Len(a))
    <3>1. k - Len(a) \in DOMAIN g /\ Len(a) + (k - Len(a)) = k
      BY <1>3, <2>2
    <3> QED
      BY <1>3, <2>2, <3>1
  <2> QED
    BY <2>1, <2>2
<1>5. /\ \A k \in DOMAIN a : k \in DOMAIN c /\ c[k] = a[k] /\ o[k] = own[k]
      /\ \A k \in DOMAIN g : /\ Len(a) + k \in DOMAIN c /\ c[Len(a) + k] = g[k]
                             /\ o[Len(a) + k] = n + 1
  BY <1>3
<1>6. o \in [DOMAIN c -> 1 .. n + 1]
  <2>1. \A k \in DOMAIN a : own[k] \in 1 .. n
    BY DEF OwnedBy
  <2>2. \A k \in DOMAIN c : o[k] \in 1 .. n + 1
    BY <1>4, <2>1
  <2> QED
    BY <2>2
<1> HIDE DEF o
<1>7. ASSUME NEW k \in DOMAIN c
      PROVE  /\ c[k].kind = "Range" /\ c[k].offset < c[k].end
             /\ c[k].end <= spans[o[k]][2]
             /\ BytesOf(c[k]) \subseteq Missing(spans[o[k]])
  BY <1>1, <1>4 DEF OwnedBy
<1>8. ASSUME NEW j \in DOMAIN c, NEW k \in DOMAIN c, j < k
      PROVE  o[j] <= o[k] /\ (o[j] = o[k] => c[j].end <= c[k].offset)
  <2>1. \A x \in DOMAIN a : own[x] \in Nat /\ own[x] < n + 1
    BY DEF OwnedBy
  <2>2. j \in Nat /\ k \in Nat
    BY <1>3
  <2>3. CASE k <= Len(a)
    <3>1. j <= Len(a)
      BY <1>3, <1>8, <2>2, <2>3
    <3>2. /\ j \in DOMAIN a /\ c[j] = a[j] /\ o[j] = own[j]
          /\ k \in DOMAIN a /\ c[k] = a[k] /\ o[k] = own[k]
      BY <1>4, <2>3, <3>1
    <3> QED
      BY <1>8, <3>2 DEF OwnedBy
  <2>4. CASE ~(k <= Len(a))
    <3>1. k - Len(a) \in DOMAIN g /\ c[k] = g[k - Len(a)] /\ o[k] = n + 1
      BY <1>4, <2>4
    <3>2. CASE j <= Len(a)
      <4>1. j \in DOMAIN a /\ o[j] = own[j]
        BY <1>4, <3>2
      <4> QED
        BY <2>1, <3>1, <4>1
    <3>3. CASE ~(j <= Len(a))
      <4>1. j - Len(a) \in DOMAIN g /\ c[j] = g[j - Len(a)] /\ o[j] = n + 1
        BY <1>4, <3>3
      <4>2. j - Len(a) < k - Len(a)
        BY <1>3, <1>8, <2>2
      <4> QED
        BY <1>2, <3>1, <4>1, <4>2
    <3> QED
      BY <3>2, <3>3
  <2> QED
    BY <2>3, <2>4
<1>9. ASSUME NEW i \in 1 .. n + 1, NEW p \in Missing(spans[i])
      PROVE  \E k \in DOMAIN c : o[k] = i /\ p \in BytesOf(c[k])
  <2>1. CASE i \in 1 .. n
    <3>1. PICK k \in DOMAIN a : own[k] = i /\ p \in BytesOf(a[k])
      BY <2>1 DEF OwnedBy
    <3> QED
      BY <1>5, <3>1
  <2>2. CASE i = n + 1
    <3>1. PICK k \in DOMAIN g : p \in BytesOf(g[k])
      BY <1>1, <2>2
    <3> QED
      BY <1>5, <2>2, <3>1
  <2> QED
    BY <2>1, <2>2
<1>10. OwnedBy(o, c, n + 1)
  BY <1>6, <1>7, <1>8, <1>9 DEF OwnedBy
<1> QED
  BY <1>3, <1>10 DEF c, g

(* The requests of a read of any number of spans name their gaps.          *)
LEMMA RequestsOwned ==
  ASSUME kind = "at", spans \in Seq(SpanSort), spans # <<>>
  PROVE  Requests \in Seq(RequestSet) /\ \E own : OwnedBy(own, Requests, Len(spans))
<1> DEFINE gaps == [i \in DOMAIN spans |-> Gaps(spans[i])]
           n == Len(spans)
<1>1. Requests = FlattenSeq(gaps)
  BY DEF Requests
<1>2. /\ n \in Nat \ {0} /\ Len(gaps) = n
      /\ \A i \in 1 .. n : gaps[i] = Gaps(spans[i]) /\ spans[i] \in SpanSort
  OBVIOUS
<1> HIDE DEF gaps, n
<1>3. PICK f : /\ f[1] = gaps[1]
               /\ \A i \in 2 .. n : f[i] = f[i - 1] \o gaps[i]
               /\ FlattenSeq(gaps) = f[n]
  BY <1>2, FlattenSteps
<1> DEFINE Good(i) == f[i] \in Seq(RequestSet) /\ \E own : OwnedBy(own, f[i], i)
           T == {i \in 1 .. n : ~Good(i)}
<1>4. Good(1)
  <2> DEFINE own == [k \in DOMAIN <<>> |-> 0]
             g == Gaps(spans[0 + 1])
  <2>1. 1 \in 1 .. n /\ 0 + 1 = 1
    BY <1>2
  <2>2. OwnedBy(own, <<>>, 0)
    BY DEF OwnedBy
  <2>3. <<>> \in Seq(RequestSet) /\ spans[0 + 1] \in SpanSort /\ 0 \in Nat
    BY <1>2, <2>1
  <2> HIDE DEF own
  <2>4. <<>> \o g \in Seq(RequestSet) /\ \E o : OwnedBy(o, <<>> \o g, 0 + 1)
    BY <2>2, <2>3, OneSpanMore
  <2>5. g = gaps[1] /\ g \in Seq(RequestSet)
    BY <1>2, <2>1, GapsCover
  <2> HIDE DEF g
  <2>6. <<>> \o g = g
    BY <2>5
  <2> QED
    BY <1>3, <2>1, <2>4, <2>5, <2>6
<1>5. ASSUME NEW i \in 2 .. n, Good(i - 1) PROVE Good(i)
  <2>1. PICK own : OwnedBy(own, f[i - 1], i - 1)
    BY <1>5
  <2>2. i - 1 \in Nat /\ (i - 1) + 1 = i /\ i \in 1 .. n
    BY <1>2
  <2>3. f[i - 1] \in Seq(RequestSet) /\ spans[(i - 1) + 1] \in SpanSort
    BY <1>2, <1>5, <2>2
  <2> DEFINE g == Gaps(spans[(i - 1) + 1])
             c == f[i - 1] \o g
  <2>4. c \in Seq(RequestSet) /\ \E o : OwnedBy(o, c, (i - 1) + 1)
    BY <2>1, <2>2, <2>3, OneSpanMore
  <2>5. f[i] = c
    BY <1>2, <1>3, <2>2
  <2> HIDE DEF c
  <2> QED
    BY <2>2, <2>4, <2>5
<1> HIDE DEF Good
<1>6. T = {}
  <2> SUFFICES ASSUME T # {} PROVE FALSE
    OBVIOUS
  <2>1. T \in SUBSET Nat
    OBVIOUS
  <2>2. PICK m \in T : \A k \in T : m <= k
    <3> HIDE DEF T
    <3> QED
      BY <2>1, LeastNumber
  <2>3. m # 1
    BY <1>4, <2>2
  <2>4. m \in 2 .. n /\ m - 1 \in 1 .. n /\ m - 1 \notin T
    BY <1>2, <2>2, <2>3
  <2> QED
    BY <1>5, <2>2, <2>4
<1>7. Good(n)
  BY <1>2, <1>6
<1> QED
  BY <1>1, <1>3, <1>7 DEF Good, n

(* Every request of rs lies in the gaps of a span, and all gaps are named. *)
Names(rs) ==
  /\ \A k \in DOMAIN rs :
       /\ rs[k].kind = "Range" /\ rs[k].offset < rs[k].end
       /\ \E i \in DOMAIN spans :
            /\ rs[k].offset \in Missing(spans[i])
            /\ rs[k].end <= spans[i][2]
            /\ \A q \in rs[k].offset .. rs[k].end - 1 : q \in Missing(spans[i])
  /\ \A i \in DOMAIN spans : \A p \in Missing(spans[i]) :
       \E k \in DOMAIN rs : p \in rs[k].offset .. rs[k].end - 1

(* The requests of a read of spans name what it lacks.                     *)
LEMMA RequestsName ==
  ASSUME kind = "at", spans \in Seq(SpanSort), spans # <<>>
  PROVE  Requests \in Seq(RequestSet) /\ Names(Requests)
<1> DEFINE rs == Requests
<1>1. rs \in Seq(RequestSet)
  BY RequestsOwned
<1>2. PICK own : OwnedBy(own, rs, Len(spans))
  BY RequestsOwned
<1>3. DOMAIN spans = 1 .. Len(spans)
  OBVIOUS
<1> HIDE DEF rs
<1>4. ASSUME NEW k \in DOMAIN rs
      PROVE  /\ rs[k].kind = "Range" /\ rs[k].offset < rs[k].end
             /\ own[k] \in DOMAIN spans
             /\ rs[k].offset \in Missing(spans[own[k]])
             /\ rs[k].end <= spans[own[k]][2]
             /\ \A q \in rs[k].offset .. rs[k].end - 1 : q \in Missing(spans[own[k]])
  <2>1. /\ rs[k].kind = "Range" /\ rs[k].offset < rs[k].end
        /\ own[k] \in DOMAIN spans /\ rs[k].end <= spans[own[k]][2]
        /\ BytesOf(rs[k]) \subseteq Missing(spans[own[k]])
    BY <1>2, <1>3 DEF OwnedBy
  <2>2. rs[k].offset \in Nat /\ rs[k].end \in Nat
    <3>1. rs[k] \in RequestSet
      BY <1>1
    <3> QED
      BY <3>1 DEF RequestSet
  <2>3. rs[k].offset \in BytesOf(rs[k])
    BY <2>1, <2>2 DEF BytesOf
  <2> QED
    BY <2>1, <2>3 DEF BytesOf
<1>5. \A i \in DOMAIN spans : \A p \in Missing(spans[i]) :
        \E k \in DOMAIN rs : p \in rs[k].offset .. rs[k].end - 1
  BY <1>2, <1>3 DEF OwnedBy, BytesOf
<1> QED
  BY <1>1, <1>4, <1>5 DEF Names, rs

-----------------------------------------------------------------------------
(* Types, and which span a read waits for.                                 *)

Typed ==
  /\ use \in Uses /\ use \in {"stream", "random", "mixed"}
  /\ pc \in {"idle", "poll", "need"} /\ author \in {"running", "failed", "ended"}
  /\ cursor \in Nat /\ front \in Nat /\ consumed \in Nat
  /\ total \in BOOLEAN /\ input \in Inputs /\ input.total = total
  /\ held \subseteq Offsets
  /\ need \in Seq(RequestSet)

Reading ==
  /\ kind \in {"none", "seq", "at", "len"}
  /\ kind \in {"none", "len"} => spans = <<>>
  /\ kind = "seq" => /\ spans = <<<<cursor, spans[1][2]>>>> /\ spans[1] \in SpanSort
                     /\ use # "random"
  /\ kind = "at" => spans \in Seq(SpanSort) /\ use # "stream"

(* A read that waits has asked for what it lacks now, and may go on.       *)
Asked ==
  /\ pc = "need" => kind # "none" /\ author = "running"
  /\ pc = "need" \/ Waiting =>
       ~Failing /\ ~Satisfied /\ need = Requests
  /\ pc = "idle" /\ author = "running" /\ kind = "none" => need = <<>>

InputInv == Typed /\ Reading /\ Asked

(* A stream's driver stands behind what was consumed, and the store holds  *)
(* what lies between the author and the driver.                            *)
StreamInv ==
  use = "stream" =>
    /\ input.offset + consumed = front
    /\ author = "running" => held = cursor .. front - 1

(* In random use the store holds nothing but what the read asks for, which *)
(* fits it.                                                                *)
RandomInv ==
  use = "random" /\ author = "running" =>
    /\ held \subseteq IF kind = "at" THEN Wanted ELSE {}
    /\ kind = "at" /\ Len(spans) > 1 => Cardinality(Wanted) <= Cap

(* A Need follows a fruitless input only if that satisfied no request.     *)
Fruitless ==
  use # "mixed" /\ Waiting /\ consumed = 0 =>
    \A k \in DOMAIN need : ~Satisfies(input, need[k])

ServedInv == InputInv /\ StreamInv /\ RandomInv /\ Fruitless

-----------------------------------------------------------------------------
(* What a step takes.                                                      *)

(* Storing stops at the end at the latest, and behind the first byte       *)
(* unless the store is full.                                               *)
LEMMA ReachedWithin ==
  ASSUME NEW h \in SUBSET Offsets, NEW lo \in Nat, NEW hi \in Nat, lo < hi
  PROVE  /\ Reached(h, lo, hi) \in Int /\ Reached(h, lo, hi) <= hi
         /\ Cardinality(h) < Cap => lo < Reached(h, lo, hi)
         /\ (\A p \in lo .. hi - 1 : p \notin h) =>
              Reached(h, lo, hi) = Lesser(hi, lo + Cap - Cardinality(h))
<1> DEFINE S == {p \in lo .. hi - 1 : p \notin h} \cup {hi}
           start == Min(S)
           T == {p \in start .. hi - 1 : p \in h} \cup {hi}
           stop == Min(T)
<1>1. Reached(h, lo, hi) = Lesser(stop, start + Cap - Cardinality(h))
  BY DEF Reached
<1>2. Cardinality(h) \in Nat
  <2>1. IsFiniteSet(Offsets)
    BY CoroutineInputAssumption, FS_Interval DEF Offsets
  <2> QED
    BY <2>1, FS_Subset, FS_CardinalityType
<1>3. S \in SUBSET Nat /\ S # {}
  OBVIOUS
<1>4. start \in S /\ \A p \in S : start <= p
  BY <1>3, MinIsLeast
<1>5. start \in Nat /\ lo <= start /\ start <= hi
  BY <1>4
<1> HIDE DEF start
<1>6. T \in SUBSET Nat /\ T # {}
  BY <1>5
<1>7. stop \in T /\ \A p \in T : stop <= p
  BY <1>6, MinIsLeast
<1>8. stop \in Nat /\ start <= stop /\ stop <= hi
  BY <1>5, <1>7
<1>9. lo < stop
  <2>1. CASE start = hi
    BY <1>8, <2>1
  <2>2. CASE start < hi
    <3>1. start \notin h
      BY <1>4, <2>2
    <3>2. stop # start
      BY <1>7, <2>2, <3>1
    <3> QED
      BY <1>5, <1>8, <3>2
  <2> QED
    BY <1>5, <2>1, <2>2
<1>10. ASSUME \A p \in lo .. hi - 1 : p \notin h PROVE start = lo /\ stop = hi
  <2>1. lo \in S
    BY <1>10
  <2>2. start = lo
    BY <1>4, <1>5, <2>1
  <2>3. T = {hi}
    BY <1>10, <2>2
  <2> QED
    BY <1>7, <2>2, <2>3
<1> HIDE DEF stop
<1> QED
  BY <1>1, <1>2, <1>5, <1>8, <1>9, <1>10, CoroutineInputAssumption DEF Lesser

Accs == [held : SUBSET Offsets, taken : Nat, full : BOOLEAN]

(* Does input i hold bytes from begin on that r asks for?                  *)
Offers(i, begin, r) ==
  r.kind # "Len" /\ Greater(r.offset, begin) < EndIn(i, r)

(* A round forgets nothing, stores only what it takes and was asked for,   *)
(* and takes something of an input it has a use and room for.              *)
LEMMA AfterKeeps ==
  ASSUME NEW i \in Inputs, NEW begin \in Nat, NEW r \in RequestSet,
         NEW acc \in Accs, begin <= acc.taken,
         NEW b, b = After(i, begin, acc, r)
  PROVE  /\ b \in Accs /\ acc.held \subseteq b.held /\ acc.taken <= b.taken
         /\ b.taken = begin => b.held = acc.held
         /\ r.kind = "Range" => b.held \subseteq acc.held \cup (r.offset .. r.end - 1)
         /\ Cardinality(acc.held) < Cap /\ ~acc.full /\ b.taken = begin =>
              ~b.full /\ ~Offers(i, begin, r)
<1> DEFINE lo   == Greater(r.offset, begin)
           hi   == EndIn(i, r)
           upto == Reached(acc.held, lo, hi)
<1>0. /\ r.kind \in {"AtLeast", "Range", "Len"} /\ r.offset \in Nat /\ r.end \in Nat
      /\ i.offset \in 0 .. Size /\ i.end \in 0 .. Size
      /\ acc.held \in SUBSET Offsets /\ acc.taken \in Nat /\ acc.full \in BOOLEAN
  BY DEF RequestSet, Inputs, Accs
<1>1. /\ lo \in Nat /\ hi \in Nat /\ begin <= lo /\ r.offset <= lo /\ hi <= Size
      /\ r.kind # "AtLeast" => hi <= r.end
  BY <1>0, CoroutineInputAssumption DEF Greater, EndIn, Lesser
<1>2. CASE acc.full \/ r.kind = "Len" \/ lo >= hi
  <2>1. b = acc
    BY <1>2 DEF After
  <2> QED
    BY <1>0, <1>1, <1>2, <2>1 DEF Offers
<1>3. CASE ~acc.full /\ r.kind # "Len" /\ lo < hi
  <2>1. b = [held |-> acc.held \cup (lo .. upto - 1),
             taken |-> Greater(acc.taken, upto),
             full |-> r.kind = "Range" /\ upto < hi]
    BY <1>1, <1>3 DEF After
  <2>2. upto \in Int /\ upto <= hi /\ (Cardinality(acc.held) < Cap => lo < upto)
    BY <1>0, <1>1, <1>3, ReachedWithin
  <2> HIDE DEF lo, hi, upto
  <2>3. lo .. upto - 1 \in SUBSET Offsets
    BY <1>1, <2>2, CoroutineInputAssumption DEF Offsets
  <2>4. /\ Greater(acc.taken, upto) \in Nat /\ acc.taken <= Greater(acc.taken, upto)
        /\ upto <= Greater(acc.taken, upto)
    BY <1>0, <2>2 DEF Greater
  <2>5. /\ b.held = acc.held \cup (lo .. upto - 1) /\ b.taken = Greater(acc.taken, upto)
        /\ b \in Accs
    BY <1>0, <2>1, <2>3, <2>4 DEF Accs
  <2>6. ASSUME b.taken = begin PROVE b.held = acc.held
    <3>1. upto <= lo
      BY <1>1, <2>2, <2>4, <2>5, <2>6
    <3>2. lo .. upto - 1 = {}
      BY <1>1, <2>2, <3>1
    <3> QED
      BY <2>5, <3>2
  <2>7. ASSUME r.kind = "Range"
        PROVE  b.held \subseteq acc.held \cup (r.offset .. r.end - 1)
    BY <1>0, <1>1, <2>2, <2>5, <2>7
  <2>8. ASSUME Cardinality(acc.held) < Cap PROVE b.taken # begin
    BY <1>1, <2>2, <2>4, <2>5, <2>8
  <2> QED
    BY <2>4, <2>5, <2>6, <2>7, <2>8
<1> QED
  BY <1>1, <1>2, <1>3

(* The same of a whole absorb.                                             *)
LEMMA AbsorbedKeeps ==
  ASSUME NEW i \in Inputs, NEW from \in Nat,
         held \subseteq Offsets, need \in Seq(RequestSet),
         NEW got \in Absorbed(i, from)
  PROVE  /\ got \in Accs /\ held \subseteq got.held /\ i.offset + from <= got.taken
         /\ got.taken = i.offset + from => got.held = held
         /\ \A p \in got.held \ held : \E k \in DOMAIN need :
              need[k].kind = "Range" => p \in need[k].offset .. need[k].end - 1
         /\ Cardinality(held) < Cap /\ got.taken = i.offset + from =>
              \A k \in DOMAIN need : ~Offers(i, i.offset + from, need[k])
<1> DEFINE begin == i.offset + from
           n == Len(need)
<1>1. begin \in Nat /\ n \in Nat /\ DOMAIN need = 1 .. n
  BY DEF Inputs
<1> HIDE DEF n
<1>0. PICK a : Course(a, i, from, n)
  BY <1>1, AbsorbSteps
<1>2. /\ a[0] = Start(i, from)
      /\ \A k \in 1 .. n : a[k] = After(i, begin, a[k-1], need[k])
      /\ Absorbed(i, from) = {a[n]}
  BY <1>0 DEF Course
<1> HIDE DEF begin
<1> DEFINE Good(k) ==
      /\ a[k] \in Accs /\ held \subseteq a[k].held /\ begin <= a[k].taken
      /\ a[k].taken = begin => a[k].held = held
      /\ \A p \in a[k].held \ held : \E j \in DOMAIN need :
           need[j].kind = "Range" => p \in need[j].offset .. need[j].end - 1
      /\ Cardinality(held) < Cap /\ a[k].taken = begin =>
           ~a[k].full /\ \A j \in 1 .. k : ~Offers(i, begin, need[j])
<1>3. Good(0)
  <2>1. a[0] = [held |-> held, taken |-> begin, full |-> FALSE]
    BY <1>2 DEF Start, begin
  <2> QED
    BY <1>1, <2>1 DEF Accs
<1>4. ASSUME NEW k \in 1 .. n, Good(k - 1) PROVE Good(k)
  <2> DEFINE c == a[k - 1]
             d == a[k]
  <2>1. need[k] \in RequestSet /\ k \in DOMAIN need
    BY <1>1
  <2>2. d = After(i, begin, c, need[k]) /\ c \in Accs /\ begin <= c.taken
    BY <1>2, <1>4
  <2> HIDE DEF c, d
  <2>3. /\ d \in Accs /\ c.held \subseteq d.held /\ c.taken <= d.taken
        /\ d.taken = begin => d.held = c.held
        /\ need[k].kind = "Range" =>
             d.held \subseteq c.held \cup (need[k].offset .. need[k].end - 1)
        /\ Cardinality(c.held) < Cap /\ ~c.full /\ d.taken = begin =>
             ~d.full /\ ~Offers(i, begin, need[k])
    BY <1>1, <2>1, <2>2, AfterKeeps
  <2>4. c.taken \in Nat /\ d.taken \in Nat
    BY <2>2, <2>3 DEF Accs
  <2>5. ASSUME d.taken = begin PROVE c.taken = begin
    BY <1>1, <2>2, <2>3, <2>4, <2>5
  <2>6. \A p \in d.held \ held : \E j \in DOMAIN need :
          need[j].kind = "Range" => p \in need[j].offset .. need[j].end - 1
    BY <1>4, <2>1, <2>3 DEF c
  <2>7. ASSUME Cardinality(held) < Cap, d.taken = begin
        PROVE  ~d.full /\ \A j \in 1 .. k : ~Offers(i, begin, need[j])
    <3>1. c.taken = begin /\ c.held = held
      BY <1>4, <2>5, <2>7 DEF c
    <3>2. ~c.full /\ \A j \in 1 .. k - 1 : ~Offers(i, begin, need[j])
      BY <1>4, <2>7, <3>1 DEF c
    <3>3. ~d.full /\ ~Offers(i, begin, need[k])
      BY <2>3, <2>7, <3>1, <3>2
    <3> QED
      BY <1>1, <3>2, <3>3
  <2>8. held \subseteq d.held /\ begin <= d.taken /\ (d.taken = begin => d.held = held)
    <3>1. held \subseteq c.held /\ (c.taken = begin => c.held = held)
      BY <1>4 DEF c
    <3> QED
      BY <1>1, <2>2, <2>3, <2>4, <2>5, <3>1
  <2> QED
    BY <2>3, <2>6, <2>7, <2>8 DEF d
<1> HIDE DEF Good
<1>5. Good(n)
  <2> DEFINE T == {k \in 0 .. n : ~Good(k)}
  <2> SUFFICES ASSUME T # {} PROVE FALSE
    BY <1>1
  <2>1. T \in SUBSET Nat
    OBVIOUS
  <2>2. PICK m \in T : \A k \in T : m <= k
    <3> HIDE DEF T
    <3> QED
      BY <2>1, LeastNumber
  <2>3. m # 0
    BY <1>3, <2>2
  <2>4. m \in 1 .. n /\ m - 1 \in 0 .. n /\ m - 1 \notin T
    BY <1>1, <2>2, <2>3
  <2> QED
    BY <1>4, <2>2, <2>4
<1> QED
  BY <1>1, <1>2, <1>5 DEF Good, begin

-----------------------------------------------------------------------------
(* The invariant, step by step.                                            *)

Offering == \E S \in SUBSET Inputs : Offer(S)

(* Both actions of the driver are an Offer of some set of inputs.          *)
LEMMA Offers2 == (OfferAny => Offering) /\ (OfferServing => Offering)
<1>1. Serving \in SUBSET Inputs /\ Inputs \ Serving \in SUBSET Inputs
  BY DEF Serving
<1> QED
  BY <1>1 DEF Offering, OfferAny, OfferServing

(* What a waiting read asks for.                                           *)
LEMMA WhatIsAsked ==
  ASSUME InputInv, pc = "need" \/ Waiting
  PROVE  /\ kind # "none" /\ author = "running"
         /\ kind = "len" => ~total /\ need = <<Request("Len", 0, 0)>>
         /\ kind = "seq" =>
              /\ Missing(spans[1]) # {} /\ ~Fails(spans[1])
              /\ need = <<Request("AtLeast", Min(Missing(spans[1])), spans[1][2])>>
         /\ kind = "at" => /\ Names(need) /\ \A i \in DOMAIN spans : ~Fails(spans[i])
                           /\ \E i \in DOMAIN spans : Missing(spans[i]) # {}
<1>1. /\ kind \in {"seq", "at", "len"} /\ author = "running"
      /\ ~Failing /\ ~Satisfied /\ need = Requests
  BY DEF InputInv, Asked, Reading, Waiting
<1>2. ASSUME kind # "len" PROVE \E i \in DOMAIN spans : Missing(spans[i]) # {}
  BY <1>1, <1>2 DEF Satisfied, Wanted, Missing
<1>3. ASSUME kind # "len", NEW i \in DOMAIN spans PROVE ~Fails(spans[i])
  BY <1>1, <1>3 DEF Failing
<1>4. kind = "len" => ~total /\ need = <<Request("Len", 0, 0)>>
  BY <1>1 DEF Satisfied, Requests
<1>5. ASSUME kind = "seq" PROVE DOMAIN spans = {1}
  BY <1>5 DEF InputInv, Reading
<1>6. ASSUME kind = "seq"
      PROVE  need = <<Request("AtLeast", Min(Missing(spans[1])), spans[1][2])>>
  BY <1>1, <1>6 DEF Requests
<1>7. ASSUME kind = "at" PROVE Names(need)
  <2>1. spans # <<>>
    BY <1>2, <1>7
  <2> QED
    BY <1>1, <1>7, <2>1, RequestsName DEF InputInv, Reading
<1> QED
  BY <1>1, <1>2, <1>3, <1>4, <1>5, <1>6, <1>7

(* The requests that a poll leaves are requests.                           *)
LEMMA RequestsTyped ==
  ASSUME InputInv, kind # "none", ~Satisfied PROVE Requests \in Seq(RequestSet)
<1>1. CASE kind = "len"
  BY <1>1 DEF Requests, Request, RequestSet
<1>2. CASE kind = "at"
  <2>1. spans # <<>>
    BY <1>2 DEF Satisfied, Wanted
  <2> QED
    BY <1>2, <2>1, RequestsName DEF InputInv, Reading
<1>3. CASE kind = "seq"
  <2>1. DOMAIN spans = {1} /\ spans[1] \in SpanSort
    BY <1>3 DEF InputInv, Reading
  <2>2. Missing(spans[1]) # {}
    BY <1>3, <2>1 DEF Satisfied, Wanted, Missing
  <2>3. Missing(spans[1]) \in SUBSET Nat /\ spans[1][2] \in Nat
    BY <2>1 DEF SpanSort, Missing, SpanOf
  <2>4. Min(Missing(spans[1])) \in Nat
    BY <2>2, <2>3, MinIsLeast
  <2> QED
    BY <1>3, <2>3, <2>4 DEF Requests, Request, RequestSet
<1> QED
  BY <1>1, <1>2, <1>3 DEF InputInv, Reading

(* Every step keeps the types.                                             *)
LEMMA TypedKept == InputInv /\ [Next]_vars => Typed'
<1> SUFFICES ASSUME InputInv, [Next]_vars PROVE Typed'
  OBVIOUS
<1> USE CoroutineInputAssumption DEF InputInv, Typed
<1>1. ASSUME NEW S \in SUBSET Inputs, Offer(S) PROVE Typed'
  <2>1. input' \in Inputs /\ total' = input'.total
    BY <1>1 DEF Offer
  <2>2. PICK got \in Absorbed(input', 0) :
          /\ held' = got.held /\ consumed' = got.taken - input'.offset
          /\ Advance(got.taken)
    BY <1>1 DEF Offer
  <2>3. got \in Accs /\ input'.offset <= got.taken
    <3>1. 0 \in Nat /\ input'.offset + 0 = input'.offset
      BY <2>1 DEF Inputs
    <3> QED
      BY <2>1, <3>1, AbsorbedKeeps
  <2>4. got.taken \in Nat /\ held' \subseteq Offsets /\ consumed' \in Nat /\ total' \in BOOLEAN
    BY <2>1, <2>2, <2>3 DEF Accs, Inputs
  <2>5. front' \in Nat
    BY <2>2, <2>4 DEF Advance, Greater
  <2> QED
    BY <1>1, <2>1, <2>4, <2>5 DEF Offer
<1>2. CASE NeedMore
  <2>1. PICK got \in Absorbed(input, consumed) :
          /\ held' = got.held /\ consumed' = got.taken - input.offset
          /\ Advance(got.taken)
    BY <1>2 DEF NeedMore
  <2>2. got \in Accs /\ input.offset + consumed <= got.taken
    BY <2>1, AbsorbedKeeps
  <2>3. got.taken \in Nat /\ held' \subseteq Offsets /\ consumed' \in Nat
    BY <2>1, <2>2 DEF Accs, Inputs
  <2>4. front' \in Nat
    BY <2>1, <2>3 DEF Advance, Greater
  <2> QED
    BY <1>2, <2>3, <2>4 DEF NeedMore
<1>3. CASE ReadExact \/ ReadAt \/ AskLen
  BY <1>3 DEF ReadExact, ReadAt, AskLen, Calls
<1>4. CASE Seek
  BY <1>4 DEF Seek, Calls
<1>5. CASE ReadReady
  <2>1. cursor' \in Nat
    BY <1>5 DEF ReadReady, Polls, Reading, SpanSort
  <2>2. need' \in Seq(RequestSet)
    BY <1>5 DEF ReadReady
  <2>3. held' \subseteq Offsets
    BY <1>5 DEF ReadReady
  <2> QED
    BY <1>5, <2>1, <2>2, <2>3 DEF ReadReady, Polls
<1>6. CASE ReadWaits
  <2>1. need' \in Seq(RequestSet)
    BY <1>6, RequestsTyped DEF ReadWaits, Polls
  <2> QED
    BY <1>6, <2>1 DEF ReadWaits, Polls
<1>7. CASE ReadFails
  BY <1>7 DEF ReadFails, Polls
<1>8. CASE Return
  BY <1>8 DEF Return
<1>9. CASE UNCHANGED vars
  BY <1>9 DEF vars
<1> QED
  BY <1>1, <1>2, <1>3, <1>4, <1>5, <1>6, <1>7, <1>8, <1>9, Offers2
     DEF Next, Offering

(* A read keeps its spans until it ends.                                   *)
LEMMA ReadingKept == InputInv /\ [Next]_vars => Reading'
<1> SUFFICES ASSUME InputInv, [Next]_vars PROVE Reading'
  OBVIOUS
<1> USE CoroutineInputAssumption DEF InputInv, Typed, Reading
<1>1. ASSUME NEW S \in SUBSET Inputs, Offer(S) PROVE Reading'
  BY <1>1 DEF Offer
<1>2. CASE NeedMore
  BY <1>2 DEF NeedMore
<1>3. CASE ReadExact
  <2>1. PICK n \in 1 .. MaxLen : spans' = <<<<cursor, cursor + n>>>>
    BY <1>3 DEF ReadExact
  <2>2. spans'[1] = <<cursor, cursor + n>> /\ spans'[1] \in SpanSort
    BY <2>1 DEF SpanSort
  <2> QED
    BY <1>3, <2>1, <2>2 DEF ReadExact, Calls
<1>4. CASE ReadAt
  <2>1. SpanSet \in SUBSET SpanSort
    BY DEF SpanSet, SpanSort
  <2>2. PICK n \in 0 .. MaxReads : spans' \in [1 .. n -> SpanSet]
    BY <1>4 DEF ReadAt
  <2>3. spans' \in Seq(SpanSort)
    <3>1. spans' \in [1 .. n -> SpanSort] /\ n \in Nat
      BY <2>1, <2>2
    <3> QED
      BY <3>1
  <2> QED
    BY <1>4, <2>3 DEF ReadAt, Calls
<1>5. CASE Seek \/ AskLen
  BY <1>5 DEF Seek, AskLen, Calls
<1>6. CASE ReadReady
  BY <1>6 DEF ReadReady, Polls
<1>7. CASE ReadWaits \/ ReadFails
  BY <1>7 DEF ReadWaits, ReadFails, Polls
<1>8. CASE Return
  BY <1>8 DEF Return
<1>9. CASE UNCHANGED vars
  BY <1>9 DEF vars
<1> QED
  BY <1>1, <1>2, <1>3, <1>4, <1>5, <1>6, <1>7, <1>8, <1>9, Offers2
     DEF Next, Offering

(* A read waits only after a poll that asked, and an absorb that takes     *)
(* nothing leaves the store as it was when it asked.                       *)
LEMMA AskedKept == InputInv /\ [Next]_vars => Asked'
<1> SUFFICES ASSUME InputInv, [Next]_vars PROVE Asked'
  OBVIOUS
<1> USE DEF InputInv, Typed, Asked, Waiting
<1>1. ASSUME NEW S \in SUBSET Inputs, Offer(S) PROVE Asked'
  BY <1>1 DEF Offer
<1>2. CASE NeedMore
  <2>1. PICK got \in Absorbed(input, consumed) :
          /\ held' = got.held /\ consumed' = got.taken - input.offset
          /\ pc' = IF consumed' > consumed THEN "poll" ELSE "idle"
    BY <1>2 DEF NeedMore
  <2>2. /\ got \in Accs /\ input.offset + consumed <= got.taken
        /\ got.taken = input.offset + consumed => got.held = held
    BY <2>1, AbsorbedKeeps
  <2>3. kind # "none" /\ author = "running" /\ ~Failing /\ ~Satisfied /\ need = Requests
    BY <1>2 DEF NeedMore
  <2>4. CASE pc' = "poll"
    BY <1>2, <2>4 DEF NeedMore
  <2>5. CASE pc' = "idle"
    <3>1. held' = held
      BY <2>1, <2>2, <2>5 DEF Accs, Inputs
    <3>2. UNCHANGED <<kind, spans, total, held, need, author>>
      BY <1>2, <3>1 DEF NeedMore
    <3>3. Failing' = Failing /\ Satisfied' = Satisfied /\ Requests' = Requests
      BY <3>2 DEF Failing, Satisfied, Requests, Wanted, Fails, Missing, Gaps
    <3> QED
      BY <1>2, <2>3, <2>5, <3>2, <3>3
  <2> QED
    BY <2>1, <2>4, <2>5
<1>3. CASE ReadExact \/ ReadAt \/ Seek \/ AskLen
  BY <1>3 DEF ReadExact, ReadAt, Seek, AskLen, Calls
<1>4. CASE ReadReady
  BY <1>4 DEF ReadReady, Polls
<1>5. CASE ReadWaits
  <2>1. UNCHANGED <<kind, spans, total, held, author>> /\ need' = Requests
        /\ ~Failing /\ ~Satisfied /\ pc' = "need" /\ kind # "none"
        /\ author = "running"
    BY <1>5 DEF ReadWaits, Polls
  <2>2. Failing' = Failing /\ Satisfied' = Satisfied /\ Requests' = Requests
    BY <2>1 DEF Failing, Satisfied, Requests, Wanted, Fails, Missing, Gaps
  <2> QED
    BY <2>1, <2>2
<1>6. CASE ReadFails
  BY <1>6 DEF ReadFails, Polls
<1>7. CASE Return
  BY <1>7 DEF Return
<1>8. CASE UNCHANGED vars
  <2>1. UNCHANGED <<kind, spans, total, held, author, need, pc>>
    BY <1>8 DEF vars
  <2>2. Failing' = Failing /\ Satisfied' = Satisfied /\ Requests' = Requests
    BY <2>1 DEF Failing, Satisfied, Requests, Wanted, Fails, Missing, Gaps
  <2> QED
    BY <2>1, <2>2
<1> QED
  BY <1>1, <1>2, <1>3, <1>4, <1>5, <1>6, <1>7, <1>8, Offers2 DEF Next, Offering

(* Types, spans and requests together are inductive.                       *)
LEMMA StepInputInv == InputInv /\ [Next]_vars => InputInv'
BY TypedKept, ReadingKept, AskedKept DEF InputInv

(* It holds at the start.                                                  *)
LEMMA InitInputInv == Init => InputInv
<1> SUFFICES ASSUME Init PROVE InputInv
  OBVIOUS
<1>1. input \in Inputs /\ input.total = total
  <2> DEFINE i == [offset |-> 0, end |-> 0, total |-> FALSE]
  <2>1. i \in Inputs
    BY CoroutineInputAssumption DEF Inputs
  <2>2. i.total = FALSE
    BY Zenon
  <2>3. input = i /\ total = FALSE
    BY Zenon DEF Init
  <2> QED
    BY <2>1, <2>2, <2>3, Zenon
<1>2. Typed
  <2>1. use \in Uses /\ use \in {"stream", "random", "mixed"}
    BY CoroutineInputAssumption, Zenon DEF Init
  <2>2. total \in BOOLEAN
    BY Zenon DEF Init
  <2>3. need \in Seq(RequestSet)
    BY DEF Init
  <2> QED
    BY <1>1, <2>1, <2>2, <2>3 DEF Init, Typed
<1>3. Reading
  BY DEF Init, Reading
<1>4. Asked
  BY DEF Init, Asked, Waiting
<1> QED
  BY <1>2, <1>3, <1>4 DEF InputInv

(* A Need names what the read lacks, all of it and no more: the gaps are   *)
(* named from the store as it is when the read waits.                      *)
THEOREM LackIsNamed == Spec => []RequestsAreGaps
<1>1. InputInv => RequestsAreGaps
  <2> DEFINE named == UNION {need[i].offset .. need[i].end - 1 : i \in DOMAIN need}
  <2> SUFFICES ASSUME InputInv, Waiting, kind # "len"
               PROVE  /\ \A i \in DOMAIN need : need[i].offset \in Wanted \ held
                      /\ Wanted \ held \subseteq named
                      /\ kind = "at" => named \subseteq Wanted \ held
    BY DEF RequestsAreGaps
  <2>1. \A p : p \in Wanted \ held <=> \E i \in DOMAIN spans : p \in Missing(spans[i])
    BY DEF Wanted, Missing
  <2>2. CASE kind = "seq"
    <3> DEFINE m == Min(Missing(spans[1]))
    <3>1. need = <<Request("AtLeast", m, spans[1][2])>> /\ Missing(spans[1]) # {}
      BY <2>2, WhatIsAsked
    <3>2. DOMAIN spans = {1} /\ spans[1][1] \in Nat /\ spans[1][2] \in Nat
      BY <2>2 DEF InputInv, Reading, SpanSort
    <3>3. Missing(spans[1]) \in SUBSET Nat
          /\ \A p \in Missing(spans[1]) : p \in Nat /\ p < spans[1][2]
      BY <3>2 DEF Missing, SpanOf
    <3>4. m \in Missing(spans[1]) /\ \A p \in Missing(spans[1]) : m <= p
      BY <3>1, <3>3, MinIsLeast
    <3> HIDE DEF m
    <3>5. DOMAIN need = {1} /\ need[1].offset = m /\ need[1].end = spans[1][2]
      BY <3>1 DEF Request
    <3>6. m \in Nat
      BY <3>3, <3>4
    <3>7. named = m .. spans[1][2] - 1
      BY <3>5
    <3> HIDE DEF named
    <3>8. ASSUME NEW p \in Wanted \ held PROVE p \in named
      <4>1. p \in Missing(spans[1])
        BY <2>1, <3>2
      <4> QED
        BY <3>2, <3>3, <3>4, <3>6, <3>7, <4>1
    <3>9. \A i \in DOMAIN need : need[i].offset \in Wanted \ held
      BY <2>1, <3>2, <3>4, <3>5
    <3> QED
      BY <2>2, <3>8, <3>9
  <2>3. CASE kind = "at"
    <3>1. Names(need)
      BY <2>3, WhatIsAsked
    <3>2. \A i \in DOMAIN need : need[i].offset \in Wanted \ held
      BY <2>1, <3>1 DEF Names
    <3>3. ASSUME NEW p \in Wanted \ held PROVE p \in named
      BY <2>1, <3>1 DEF Names
    <3>4. ASSUME NEW p \in named PROVE p \in Wanted \ held
      BY <2>1, <3>1 DEF Names
    <3> QED
      BY <3>2, <3>3, <3>4
  <2>4. kind \in {"seq", "at"}
    BY DEF Waiting, InputInv, Reading
  <2> QED
    BY <2>2, <2>3, <2>4
<1> QED
  BY <1>1, InitInputInv, StepInputInv, PTL DEF Spec

-----------------------------------------------------------------------------
(* Reading a stream.                                                       *)

(* Absorbing for one request is one round.                                 *)
LEMMA AbsorbOne ==
  ASSUME NEW i, NEW from, NEW r, need = <<r>>
  PROVE  Absorbed(i, from) = {After(i, i.offset + from, Start(i, from), r)}
<1>1. DOMAIN need = 1 .. 1 /\ need[1] = r
  OBVIOUS
<1>2. PICK a : Course(a, i, from, 1)
  BY <1>1, AbsorbSteps
<1> QED
  BY <1>1, <1>2 DEF Course

(* Without requests nothing is absorbed.                                   *)
LEMMA AbsorbNone ==
  ASSUME NEW i, NEW from, need = <<>> PROVE Absorbed(i, from) = {Start(i, from)}
<1>1. DOMAIN need = 1 .. 0
  OBVIOUS
<1>2. PICK a : Course(a, i, from, 0)
  BY <1>1, AbsorbSteps
<1> QED
  BY <1>2 DEF Course

(* In a stream, a waiting read lacks what begins where the driver stands,  *)
(* or where the author has moved to.                                       *)
LEMMA StreamAsks ==
  ASSUME InputInv, StreamInv, use = "stream", kind = "seq", pc = "need" \/ Waiting
  PROVE  \E e \in Nat :
           /\ need = <<Request("AtLeast", Greater(front, cursor), e)>>
           /\ Greater(front, cursor) < e /\ e - cursor <= Cap
<1> DEFINE m == Min(Missing(spans[1]))
           e == spans[1][2]
<1>1. /\ Missing(spans[1]) # {} /\ ~Fails(spans[1])
      /\ need = <<Request("AtLeast", m, e)>> /\ author = "running"
  BY WhatIsAsked
<1>2. /\ spans[1][1] = cursor /\ e \in Nat /\ cursor \in Nat /\ front \in Nat
      /\ cursor < e
  BY DEF InputInv, Typed, Reading, SpanSort
<1>3. held = cursor .. front - 1
  BY <1>1 DEF StreamInv
<1>4. Missing(spans[1]) = (cursor .. e - 1) \ (cursor .. front - 1)
  BY <1>2, <1>3 DEF Missing, SpanOf
<1>5. Missing(spans[1]) \in SUBSET Nat
  BY <1>2, <1>4
<1>6. m \in Missing(spans[1]) /\ \A p \in Missing(spans[1]) : m <= p
  BY <1>1, <1>5, MinIsLeast
<1> HIDE DEF m
<1>7. m \in Nat /\ cursor <= m /\ front <= m /\ m < e
  BY <1>2, <1>4, <1>6
<1>8. Greater(front, cursor) \in Missing(spans[1])
  BY <1>2, <1>4, <1>7 DEF Greater
<1>9. m = Greater(front, cursor)
  BY <1>2, <1>6, <1>7, <1>8 DEF Greater
<1>10. e - cursor <= Cap
  BY <1>1, <1>2, CoroutineInputAssumption DEF Fails
<1> QED
  BY <1>1, <1>2, <1>7, <1>9, <1>10

(* A stream's absorb adds what comes next to the store.                    *)
LEMMA StreamAbsorbs ==
  ASSUME InputInv, StreamInv, use = "stream", author = "running",
         pc = "need" \/ pc = "idle",
         NEW i \in Inputs, NEW from \in Nat,
         \/ i.offset + from = front
         \/ kind = "seq" /\ i.offset + from = need[1].offset,
         NEW got \in Absorbed(i, from)
  PROVE  got.taken \in Nat /\ front <= got.taken /\ got.held = cursor .. got.taken - 1
<1> DEFINE begin == i.offset + from
<1>0. /\ begin \in Nat /\ front \in Nat /\ cursor \in Nat /\ held = cursor .. front - 1
      /\ held \in SUBSET Offsets /\ i.offset \in Nat /\ i.end \in Nat
  BY DEF Inputs, InputInv, Typed, StreamInv
<1>1. CASE kind = "none"
  <2>1. need = <<>>
    BY <1>1 DEF InputInv, Asked
  <2> QED
    BY <1>0, <1>1, <2>1, AbsorbNone DEF Start
<1>2. CASE kind = "len"
  <2>1. need = <<Request("Len", 0, 0)>>
    BY <1>2, WhatIsAsked DEF Waiting
  <2>2. got = After(i, begin, Start(i, from), Request("Len", 0, 0))
    BY <2>1, AbsorbOne
  <2>3. Request("Len", 0, 0).kind = "Len"
    BY DEF Request
  <2>4. got = Start(i, from)
    BY <2>2, <2>3 DEF After
  <2> QED
    BY <1>0, <1>2, <2>4 DEF Start
<1>3. CASE kind = "seq"
  <2> DEFINE q == Greater(front, cursor)
             upto == Reached(held, q, i.end)
  <2>1. PICK e \in Nat : /\ need = <<Request("AtLeast", q, e)>>
                         /\ q < e /\ e - cursor <= Cap
    BY <1>3, StreamAsks DEF Waiting
  <2>2. /\ q \in Nat /\ front <= q /\ cursor <= q
        /\ q = front \/ (q = cursor /\ front < cursor)
    <3>1. CASE front >= cursor
      BY <1>0, <3>1 DEF Greater
    <3>2. CASE front < cursor
      BY <1>0, <3>2 DEF Greater
    <3> QED
      BY <1>0, <3>1, <3>2
  <2> HIDE DEF q
  <2>3. begin = front \/ begin = q
    BY <2>1 DEF Request
  <2>4. got = After(i, begin, Start(i, from), Request("AtLeast", q, e))
    BY <2>1, AbsorbOne
  <2>5. Greater(q, begin) = q
    BY <1>0, <2>2, <2>3 DEF Greater
  <2>6. CASE i.end <= q
    <3>1. got = Start(i, from)
      BY <1>0, <2>2, <2>4, <2>5, <2>6 DEF After, Request, EndIn
    <3>2. got.held = held /\ got.taken = begin
      BY <3>1 DEF Start
    <3> QED
      BY <1>0, <2>2, <2>3, <3>2
  <2>7. CASE q < i.end
    <3> DEFINE r == Request("AtLeast", q, e)
               acc == Start(i, from)
    <3>1. /\ r.kind = "AtLeast" /\ r.offset = q /\ EndIn(i, r) = i.end
          /\ acc.held = held /\ acc.taken = begin /\ acc.full = FALSE
      BY DEF Request, EndIn, Start
    <3> HIDE DEF r, acc, begin
    <3>2. ~(Greater(r.offset, begin) >= EndIn(i, r)) /\ ~acc.full
      BY <1>0, <2>2, <2>5, <2>7, <3>1
    <3>3. got = [held |-> held \cup (q .. upto - 1), taken |-> Greater(begin, upto),
                 full |-> FALSE]
      BY <2>4, <2>5, <3>1, <3>2 DEF After, r, acc
    <3>4. /\ got.held = held \cup (q .. upto - 1)
          /\ got.taken = Greater(begin, upto)
      BY <3>3
    <3>5. /\ upto \in Int /\ upto <= i.end
          /\ Cardinality(held) < Cap => q < upto
      BY <1>0, <2>2, <2>7, ReachedWithin
    <3> HIDE DEF upto
    <3>6. Cardinality(held) < Cap
      <4>1. Cardinality(held) = IF cursor > front - 1 THEN 0 ELSE front - cursor
        BY <1>0, FS_Interval
      <4> QED
        BY <1>0, <2>1, <2>2, <4>1, CoroutineInputAssumption
    <3>7. got.taken = upto /\ front < upto /\ cursor < upto
      BY <1>0, <2>2, <2>3, <3>4, <3>5, <3>6 DEF Greater
    <3>8. held \cup (q .. upto - 1) = cursor .. upto - 1
      BY <1>0, <2>2, <3>5, <3>7
    <3> QED
      BY <3>4, <3>5, <3>7, <3>8, <1>0
  <2> QED
    BY <1>0, <2>2, <2>6, <2>7
<1>4. kind # "at"
  BY DEF InputInv, Reading
<1> QED
  BY <1>1, <1>2, <1>3, <1>4 DEF InputInv, Reading

(* A stream's driver that skips to a request skips to that of read_exact.  *)
LEMMA StreamPosition ==
  ASSUME InputInv, StreamInv, use = "stream", pc = "idle", author = "running",
         NEW o, \/ o = front
                \/ \E k \in DOMAIN need : need[k].kind = "AtLeast" /\ o = need[k].offset
  PROVE  o = front \/ (kind = "seq" /\ o = need[1].offset)
<1> SUFFICES ASSUME NEW k \in DOMAIN need, need[k].kind = "AtLeast", o = need[k].offset
             PROVE  kind = "seq" /\ o = need[1].offset
  OBVIOUS
<1>1. kind # "none" /\ kind # "at"
  BY DEF InputInv, Asked, Reading
<1>2. Waiting
  BY <1>1 DEF Waiting
<1>3. kind # "len"
  <2> SUFFICES ASSUME kind = "len" PROVE FALSE
    OBVIOUS
  <2>1. need = <<Request("Len", 0, 0)>>
    BY <1>2, WhatIsAsked
  <2> QED
    BY <2>1 DEF Request
<1>4. kind = "seq"
  BY <1>1, <1>3 DEF InputInv, Reading
<1>5. PICK e \in Nat : need = <<Request("AtLeast", Greater(front, cursor), e)>>
  BY <1>2, <1>4, StreamAsks
<1>6. k = 1
  BY <1>5
<1> QED
  BY <1>4, <1>6

(* Every step of a stream keeps the store between author and driver.       *)
LEMMA StreamKept == InputInv /\ StreamInv /\ [Next]_vars => StreamInv'
<1> SUFFICES ASSUME InputInv, StreamInv, [Next]_vars, use' = "stream"
             PROVE  /\ input'.offset + consumed' = front'
                    /\ author' = "running" => held' = cursor' .. front' - 1
  BY DEF StreamInv
<1>0. /\ use = "stream" /\ use' = use
  BY DEF Next, OfferAny, OfferServing, Offer, NeedMore, ReadExact, ReadAt, Seek,
         AskLen, Calls, ReadReady, ReadWaits, ReadFails, Polls, Return, vars
<1>00. /\ cursor \in Nat /\ front \in Nat /\ consumed \in Nat /\ input \in Inputs
       /\ input.offset \in Nat /\ input.offset + consumed = front
       /\ author = "running" => held = cursor .. front - 1
  BY <1>0 DEF InputInv, Typed, StreamInv, Inputs
<1>1. ASSUME NEW S \in SUBSET Inputs, Offer(S)
      PROVE  /\ input'.offset + consumed' = front'
             /\ author' = "running" => held' = cursor' .. front' - 1
  <2>1. /\ input' \in Inputs /\ pc = "idle" /\ author = "running"
        /\ \/ input'.offset = front
           \/ \E k \in DOMAIN need : need[k].kind = "AtLeast"
                                     /\ input'.offset = need[k].offset
    BY <1>0, <1>1 DEF Offer
  <2>2. PICK got \in Absorbed(input', 0) :
          /\ held' = got.held /\ consumed' = got.taken - input'.offset
          /\ Advance(got.taken)
    BY <1>1 DEF Offer
  <2>3. input'.offset \in Nat /\ input'.offset + 0 = input'.offset
    BY <2>1 DEF Inputs
  <2>5. \/ input'.offset + 0 = front
        \/ kind = "seq" /\ input'.offset + 0 = need[1].offset
    BY <1>0, <2>1, <2>3, StreamPosition
  <2>6. got.taken \in Nat /\ front <= got.taken /\ got.held = cursor .. got.taken - 1
    BY <1>0, <2>1, <2>2, <2>5, StreamAbsorbs
  <2>7. front' = got.taken
    BY <1>0, <1>00, <2>2, <2>6 DEF Advance, Greater
  <2> QED
    BY <1>1, <2>2, <2>3, <2>6, <2>7 DEF Offer
<1>2. CASE NeedMore
  <2>1. pc = "need" /\ author = "running"
    BY <1>2 DEF NeedMore, InputInv, Asked
  <2>2. PICK got \in Absorbed(input, consumed) :
          /\ held' = got.held /\ consumed' = got.taken - input.offset
          /\ Advance(got.taken)
    BY <1>2 DEF NeedMore
  <2>3. got.taken \in Nat /\ front <= got.taken /\ got.held = cursor .. got.taken - 1
    BY <1>0, <1>00, <2>1, <2>2, StreamAbsorbs
  <2>4. front' = got.taken
    BY <1>0, <1>00, <2>2, <2>3 DEF Advance, Greater
  <2> QED
    BY <1>2, <1>00, <2>2, <2>3, <2>4 DEF NeedMore
<1>3. CASE ReadExact \/ ReadAt \/ AskLen
  BY <1>3, <1>00 DEF ReadExact, ReadAt, AskLen, Calls
<1>4. CASE Seek
  <2>1. PICK to \in 0 .. Size : to > cursor /\ cursor' = to /\ held' = held \ (0 .. to - 1)
    BY <1>0, <1>4 DEF Seek
  <2>2. held' = cursor' .. front - 1
    BY <1>00, <1>4, <2>1 DEF Seek, Calls
  <2> QED
    BY <1>00, <1>4, <2>2 DEF Seek, Calls
<1>5. CASE ReadReady
  <2>1. kind \in {"seq", "len"} /\ author = "running"
    BY <1>0, <1>5 DEF ReadReady, Polls, InputInv, Reading
  <2>2. CASE kind = "len"
    BY <1>5, <1>00, <2>1, <2>2 DEF ReadReady, Polls
  <2>3. CASE kind = "seq"
    <3> DEFINE e == spans[1][2]
    <3>1. /\ spans[1][1] = cursor /\ e \in Nat /\ cursor < e /\ DOMAIN spans = {1}
      BY <2>3 DEF InputInv, Reading, SpanSort
    <3>2. cursor .. e - 1 \subseteq held
      BY <1>5, <2>3, <3>1 DEF ReadReady, Satisfied, Wanted, SpanOf
    <3>3. e <= front
      <4>1. e - 1 \in held
        BY <1>00, <3>1, <3>2
      <4> QED
        BY <1>00, <2>1, <3>1, <4>1
    <3>4. cursor' = e /\ held' = held \ (0 .. e - 1)
      BY <1>5, <2>3 DEF ReadReady
    <3> HIDE DEF e
    <3>5. held' = e .. front - 1
      BY <1>00, <2>1, <3>1, <3>3, <3>4
    <3> QED
      BY <1>5, <1>00, <3>4, <3>5 DEF ReadReady, Polls
  <2> QED
    BY <2>1, <2>2, <2>3
<1>6. CASE ReadWaits \/ ReadFails
  BY <1>6, <1>00 DEF ReadWaits, ReadFails, Polls
<1>7. CASE Return
  BY <1>7, <1>00 DEF Return
<1>8. CASE UNCHANGED vars
  BY <1>8, <1>00 DEF vars
<1> QED
  BY <1>1, <1>2, <1>3, <1>4, <1>5, <1>6, <1>7, <1>8, Offers2 DEF Next, Offering

(* A stream is never asked to go back, and the store holds exactly what    *)
(* the driver has passed and the author has not.                           *)
THEOREM StreamGoesForward == Spec => []ForwardOnly
<1>1. InputInv /\ StreamInv => ForwardOnly
  <2> SUFFICES ASSUME InputInv, StreamInv, use = "stream", author = "running"
               PROVE  /\ held = cursor .. front - 1
                      /\ Waiting /\ kind = "seq" => need[1].offset = Greater(front, cursor)
    BY DEF ForwardOnly
  <2>1. held = cursor .. front - 1
    BY DEF StreamInv
  <2>2. ASSUME Waiting, kind = "seq" PROVE need[1].offset = Greater(front, cursor)
    BY <2>2, StreamAsks DEF Request
  <2> QED
    BY <2>1, <2>2
<1>2. Init => StreamInv
  BY DEF Init, StreamInv
<1> QED
  BY <1>1, <1>2, InitInputInv, StepInputInv, StreamKept, PTL DEF Spec

-----------------------------------------------------------------------------
(* Reads that fit the store.                                               *)

(* With a length to read, absorb takes nothing.                            *)
LEMMA LenAbsorbs ==
  ASSUME NEW i, NEW from, need = <<Request("Len", 0, 0)>>
  PROVE  Absorbed(i, from) = {Start(i, from)}
<1> DEFINE r == Request("Len", 0, 0)
<1>1. Absorbed(i, from) = {After(i, i.offset + from, Start(i, from), r)}
  BY AbsorbOne
<1>2. r.kind = "Len"
  BY DEF Request
<1> QED
  BY <1>1, <1>2 DEF After

(* What an absorb adds in random use is asked for by the read.             *)
LEMMA RandomAbsorbs ==
  ASSUME InputInv, RandomInv, use = "random", author = "running",
         pc = "need" \/ pc = "idle",
         NEW i \in Inputs, NEW from \in Nat, NEW got \in Absorbed(i, from)
  PROVE  got.held \subseteq IF kind = "at" THEN Wanted ELSE {}
<1>1. CASE kind = "none"
  <2>1. need = <<>>
    BY <1>1 DEF InputInv, Asked
  <2> QED
    BY <1>1, <2>1, AbsorbNone DEF Start, RandomInv
<1>2. CASE kind = "len"
  <2>1. need = <<Request("Len", 0, 0)>>
    BY <1>2, WhatIsAsked DEF Waiting
  <2> QED
    BY <1>2, <2>1, LenAbsorbs DEF Start, RandomInv
<1>3. CASE kind = "at"
  <2>1. Names(need)
    BY <1>3, WhatIsAsked DEF Waiting
  <2>2. \A p \in got.held \ held : \E k \in DOMAIN need :
          need[k].kind = "Range" => p \in need[k].offset .. need[k].end - 1
    BY AbsorbedKeeps DEF InputInv, Typed
  <2>3. \A p \in got.held \ held : \E s \in DOMAIN spans : p \in Missing(spans[s])
    BY <2>1, <2>2 DEF Names
  <2>4. \A p \in got.held \ held : p \in Wanted
    BY <2>3 DEF Missing, Wanted
  <2> QED
    BY <1>3, <2>4 DEF RandomInv
<1>4. kind # "seq"
  BY DEF InputInv, Reading
<1> QED
  BY <1>1, <1>2, <1>3, <1>4 DEF InputInv, Reading

(* Every step of a random use keeps the store within the read.             *)
LEMMA RandomKept == InputInv /\ RandomInv /\ [Next]_vars => RandomInv'
<1> SUFFICES ASSUME InputInv, RandomInv, [Next]_vars,
                    use' = "random", author' = "running"
             PROVE  /\ held' \subseteq IF kind' = "at" THEN Wanted' ELSE {}
                    /\ kind' = "at" /\ Len(spans') > 1 => Cardinality(Wanted') <= Cap
  BY DEF RandomInv
<1>0. use = "random" /\ author = "running"
  BY DEF Next, OfferAny, OfferServing, Offer, NeedMore, ReadExact, ReadAt, Seek,
         AskLen, Calls, ReadReady, ReadWaits, ReadFails, Polls, Return, vars
<1>00. /\ held \subseteq IF kind = "at" THEN Wanted ELSE {}
       /\ kind = "at" /\ Len(spans) > 1 => Cardinality(Wanted) <= Cap
  BY <1>0 DEF RandomInv
<1>1. ASSUME UNCHANGED <<kind, spans>>,
             held' \subseteq IF kind = "at" THEN Wanted ELSE {}
      PROVE  /\ held' \subseteq IF kind' = "at" THEN Wanted' ELSE {}
             /\ kind' = "at" /\ Len(spans') > 1 => Cardinality(Wanted') <= Cap
  BY <1>00, <1>1 DEF Wanted
<1>2. ASSUME NEW S \in SUBSET Inputs, Offer(S)
      PROVE  held' \subseteq (IF kind = "at" THEN Wanted ELSE {})
             /\ UNCHANGED <<kind, spans>>
  <2>1. PICK got \in Absorbed(input', 0) : held' = got.held
    BY <1>2 DEF Offer
  <2>2. input' \in Inputs /\ pc = "idle" /\ 0 \in Nat
    BY <1>2 DEF Offer
  <2>3. got.held \subseteq IF kind = "at" THEN Wanted ELSE {}
    BY <1>0, <2>2, RandomAbsorbs
  <2> QED
    BY <1>2, <2>1, <2>3 DEF Offer
<1>3. ASSUME NeedMore
      PROVE  held' \subseteq (IF kind = "at" THEN Wanted ELSE {})
             /\ UNCHANGED <<kind, spans>>
  <2>1. PICK got \in Absorbed(input, consumed) : held' = got.held
    BY <1>3 DEF NeedMore
  <2>2. input \in Inputs /\ consumed \in Nat /\ pc = "need"
    BY <1>3 DEF NeedMore, InputInv, Typed
  <2>3. got.held \subseteq IF kind = "at" THEN Wanted ELSE {}
    BY <1>0, <2>2, RandomAbsorbs
  <2> QED
    BY <1>3, <2>1, <2>3 DEF NeedMore
<1>4. CASE ReadAt
  <2>1. held' = {} /\ kind' = "at"
    BY <1>4, <1>00 DEF ReadAt, Calls
  <2>2. Len(spans') > 1 => Cardinality(Wanted') <= Cap
    BY <1>0, <1>4, <1>00 DEF ReadAt, Calls
  <2> QED
    BY <2>1, <2>2
<1>5. CASE AskLen
  BY <1>5, <1>00 DEF AskLen, Calls
<1>6. CASE ReadReady
  <2>1. kind' = "none" /\ kind # "none" /\ kind # "seq"
    BY <1>0, <1>6 DEF ReadReady, Polls, InputInv, Reading
  <2>2. held' = {}
    BY <1>00, <1>6, <2>1 DEF ReadReady
  <2> QED
    BY <2>1, <2>2
<1>7. CASE ReadWaits
  BY <1>1, <1>00, <1>7 DEF ReadWaits
<1>8. ~ReadExact /\ ~Seek /\ ~ReadFails /\ ~Return
  BY <1>0 DEF ReadExact, Seek, ReadFails, Return
<1>9. CASE UNCHANGED vars
  BY <1>1, <1>00, <1>9 DEF vars
<1> QED
  BY <1>1, <1>2, <1>3, <1>4, <1>5, <1>6, <1>7, <1>8, <1>9, Offers2
     DEF Next, Offering

(* The spans of a random read fit the store together.                      *)
LEMMA WantedFits ==
  ASSUME InputInv, RandomInv, use = "random", kind = "at", pc = "need" \/ Waiting
  PROVE  IsFiniteSet(Wanted) /\ Cardinality(Wanted) <= Cap
<1>1. /\ spans \in Seq(SpanSort) /\ DOMAIN spans = 1 .. Len(spans)
      /\ \A s \in DOMAIN spans : ~Fails(spans[s])
      /\ author = "running" /\ \E s \in DOMAIN spans : Missing(spans[s]) # {}
  BY WhatIsAsked DEF InputInv, Reading
<1>2. ASSUME NEW s \in SpanSort
      PROVE  IsFiniteSet(SpanOf(s)) /\ Cardinality(SpanOf(s)) = s[2] - s[1]
  <2> DEFINE a == s[1]
             b == s[2] - 1
  <2>1. a \in Nat /\ b \in Nat /\ a <= b /\ b + 1 = s[2]
    BY DEF SpanSort
  <2>2. SpanOf(s) = a .. b
    BY DEF SpanOf
  <2> HIDE DEF a, b
  <2>3. IsFiniteSet(a .. b) /\ Cardinality(a .. b) = b - a + 1
    BY <2>1, FS_Interval
  <2> QED
    BY <2>1, <2>2, <2>3 DEF a, b
<1>3. IsFiniteSet(Wanted)
  <2> DEFINE S == {SpanOf(spans[s]) : s \in DOMAIN spans}
  <2>1. IsFiniteSet(DOMAIN spans)
    <3>1. Len(spans) \in Nat
      BY <1>1
    <3> QED
      BY <1>1, <3>1, FS_Interval
  <2>2. IsFiniteSet(S)
    <3> DEFINE f == [s \in DOMAIN spans |-> SpanOf(spans[s])]
    <3>1. f \in Surjection(DOMAIN spans, S)
      BY DEF Surjection
    <3> HIDE DEF f, S
    <3> QED
      BY <2>1, <3>1, FS_Surjection
  <2>3. \A x \in S : IsFiniteSet(x)
    BY <1>1, <1>2
  <2>4. Wanted = UNION S
    BY DEF Wanted
  <2> HIDE DEF S
  <2> QED
    BY <2>2, <2>3, <2>4, FS_UNION
<1>4. CASE Len(spans) > 1
  BY <1>1, <1>3, <1>4 DEF RandomInv
<1>5. CASE Len(spans) = 1
  <2>1. DOMAIN spans = {1} /\ spans[1] \in SpanSort
    BY <1>1, <1>5
  <2>2. Wanted = SpanOf(spans[1])
    BY <2>1 DEF Wanted
  <2>3. spans[1][1] \in Nat /\ spans[1][2] \in Nat
    BY <2>1 DEF SpanSort
  <2> QED
    BY <1>1, <1>2, <2>1, <2>2, <2>3, CoroutineInputAssumption DEF Fails
<1>6. Len(spans) \in Nat /\ Len(spans) # 0
  BY <1>1
<1> QED
  BY <1>4, <1>5, <1>6

(* A store never fills before the read it waits for has its bytes, unless  *)
(* reads are mixed.                                                        *)
LEMMA RoomLeft ==
  ASSUME InputInv, StreamInv, RandomInv, use # "mixed", kind \in {"seq", "at"},
         pc = "need" \/ Waiting
  PROVE  Cardinality(held) < Cap
<1>1. CASE use = "stream"
  <2>1. kind = "seq" /\ author = "running"
    BY <1>1, WhatIsAsked DEF InputInv, Reading
  <2>2. /\ cursor \in Nat /\ front \in Nat /\ held = cursor .. front - 1
    BY <1>1, <2>1 DEF InputInv, Typed, StreamInv
  <2>3. \E e \in Nat : Greater(front, cursor) < e /\ e - cursor <= Cap
    BY <1>1, <2>1, StreamAsks
  <2>4. Cardinality(held) = IF cursor > front - 1 THEN 0 ELSE front - cursor
    BY <2>2, FS_Interval
  <2> QED
    BY <2>2, <2>3, <2>4, CoroutineInputAssumption DEF Greater
<1>2. CASE use = "random"
  <2>1. kind = "at" /\ author = "running"
        /\ \E s \in DOMAIN spans : Missing(spans[s]) # {}
    BY <1>2, WhatIsAsked DEF InputInv, Reading
  <2>2. PICK p \in Wanted : p \notin held
    BY <2>1 DEF Missing, Wanted
  <2>3. held \subseteq Wanted /\ held # Wanted
    BY <1>2, <2>1, <2>2 DEF RandomInv
  <2>4. IsFiniteSet(Wanted) /\ Cardinality(Wanted) <= Cap
    BY <1>2, <2>1, WantedFits
  <2>5. IsFiniteSet(held) /\ Cardinality(held) <= Cardinality(Wanted)
        /\ Cardinality(held) # Cardinality(Wanted)
    BY <2>3, <2>4, FS_Subset
  <2>6. Cardinality(held) \in Nat /\ Cardinality(Wanted) \in Nat
    BY <2>4, <2>5, FS_CardinalityType
  <2> QED
    BY <2>4, <2>5, <2>6, CoroutineInputAssumption
<1> QED
  BY <1>1, <1>2 DEF InputInv, Typed

(* An input that satisfies a request has bytes for it that were not taken. *)
LEMMA SatisfyingOffers ==
  ASSUME InputInv, StreamInv, use # "mixed", pc = "need" \/ Waiting,
         NEW k \in DOMAIN need, Satisfies(input, need[k])
  PROVE  kind \in {"seq", "at"} /\ Offers(input, input.offset, need[k])
<1>0. /\ input.offset \in Nat /\ input.end \in Nat /\ Size \in Nat
      /\ input.total = total /\ need \in Seq(RequestSet)
  BY CoroutineInputAssumption DEF InputInv, Typed, Inputs
<1>1. kind # "len"
  <2> SUFFICES ASSUME kind = "len" PROVE FALSE
    OBVIOUS
  <2>1. ~total /\ need = <<Request("Len", 0, 0)>>
    BY WhatIsAsked
  <2>2. need[k].kind = "Len"
    BY <2>1 DEF Request
  <2> QED
    BY <1>0, <2>1, <2>2 DEF Satisfies
<1>2. CASE kind = "seq"
  <2> DEFINE q == need[k].offset
             e == need[k].end
  <2>1. /\ need[k].kind = "AtLeast" /\ need[k].end = spans[1][2]
        /\ q \in Nat /\ e \in Nat /\ q < e
    <3>1. use = "stream"
      BY <1>2 DEF InputInv, Typed, Reading
    <3>2. PICK x \in Nat : /\ need = <<Request("AtLeast", Greater(front, cursor), x)>>
                           /\ Greater(front, cursor) < x
      BY <1>2, <3>1, StreamAsks
    <3>3. need = <<Request("AtLeast", Min(Missing(spans[1])), spans[1][2])>>
      BY <1>2, WhatIsAsked
    <3>4. k = 1 /\ need[k] \in RequestSet
      BY <1>0, <3>3
    <3>5. need[1].end = spans[1][2] /\ need[1].kind = "AtLeast"
      BY <3>3 DEF Request
    <3>6. need[1].offset = Greater(front, cursor) /\ need[1].end = x
      BY <3>2 DEF Request
    <3> QED
      BY <3>2, <3>4, <3>5, <3>6 DEF RequestSet
  <2>2. total => spans[1][2] <= Size
    BY <1>0, <1>2, <2>1, WhatIsAsked DEF Fails
  <2>3. input.offset = q /\ (input.end >= e \/ (input.end = Size /\ total))
    BY <1>0, <2>1 DEF Satisfies
  <2>4. input.end >= e
    BY <1>0, <2>1, <2>2, <2>3
  <2> HIDE DEF q, e
  <2>5. Greater(q, input.offset) = q
    BY <2>1, <2>3 DEF Greater
  <2>6. EndIn(input, need[k]) = input.end
    BY <2>1 DEF EndIn
  <2> QED
    BY <1>0, <1>2, <2>1, <2>3, <2>4, <2>5, <2>6 DEF Offers, q
<1>3. CASE kind = "at"
  <2>1. /\ need[k].kind = "Range" /\ need[k].offset < need[k].end
        /\ need[k] \in RequestSet
    BY <1>0, <1>3, WhatIsAsked DEF Names
  <2>2. input.offset = need[k].offset /\ input.end >= need[k].end
    BY <2>1 DEF Satisfies
  <2>3. need[k].offset \in Nat /\ need[k].end \in Nat
    BY <2>1 DEF RequestSet
  <2>4. Greater(need[k].offset, input.offset) = need[k].offset
        /\ EndIn(input, need[k]) = need[k].end
    BY <1>0, <2>1, <2>2, <2>3 DEF Greater, EndIn, Lesser
  <2> QED
    BY <1>3, <2>1, <2>4 DEF Offers
<1>4. kind # "none"
  BY WhatIsAsked
<1> QED
  BY <1>1, <1>2, <1>3, <1>4 DEF InputInv, Reading

(* A read that goes on waiting after an input that it took nothing of was  *)
(* not satisfied by it.                                                    *)
LEMMA FruitlessKept == ServedInv /\ [Next]_vars => Fruitless'
<1> SUFFICES ASSUME ServedInv, [Next]_vars, use' # "mixed", Waiting',
                    consumed' = 0, NEW k \in DOMAIN need',
                    Satisfies(input', need'[k])
             PROVE  FALSE
  BY DEF Fruitless
<1> USE DEF ServedInv
<1>0. pc' = "idle" /\ author' = "running" /\ kind' # "none"
  BY DEF Waiting
<1>1. CASE UNCHANGED vars
  <2>1. /\ Waiting /\ use # "mixed" /\ consumed = 0 /\ k \in DOMAIN need
        /\ input' = input /\ need' = need
    BY <1>0, <1>1 DEF vars, Waiting
  <2>2. Satisfies(input, need[k])
    BY <2>1
  <2> QED
    BY <2>1, <2>2 DEF Fruitless
<1>2. CASE NeedMore
  <2>1. PICK got \in Absorbed(input, consumed) :
          /\ held' = got.held /\ consumed' = got.taken - input.offset
          /\ pc' = IF consumed' > consumed THEN "poll" ELSE "idle"
    BY <1>2 DEF NeedMore
  <2>2. /\ pc = "need" /\ use # "mixed" /\ input' = input /\ need' = need
        /\ k \in DOMAIN need
    BY <1>2 DEF NeedMore
  <2>3. /\ input \in Inputs /\ consumed \in Nat /\ held \subseteq Offsets
        /\ need \in Seq(RequestSet)
    BY DEF InputInv, Typed
  <2>4. /\ got \in Accs /\ input.offset + consumed <= got.taken
        /\ Cardinality(held) < Cap /\ got.taken = input.offset + consumed =>
             \A j \in DOMAIN need : ~Offers(input, input.offset + consumed, need[j])
    BY <2>1, <2>3, AbsorbedKeeps
  <2>5. input.offset \in Nat /\ got.taken \in Nat
    BY <2>3, <2>4 DEF Inputs, Accs
  <2>6. consumed = 0 /\ got.taken = input.offset + consumed
        /\ input.offset + consumed = input.offset
    BY <2>1, <2>3, <2>4, <2>5
  <2>7. Satisfies(input, need[k])
    BY <2>2
  <2>8. kind \in {"seq", "at"} /\ Offers(input, input.offset, need[k])
    BY <2>2, <2>7, SatisfyingOffers
  <2>9. Cardinality(held) < Cap
    BY <2>2, <2>8, RoomLeft
  <2> QED
    BY <2>2, <2>4, <2>6, <2>8, <2>9
<1>3. CASE OfferAny \/ OfferServing
  BY <1>0, <1>3 DEF OfferAny, OfferServing, Offer
<1>4. CASE ReadExact \/ ReadAt \/ Seek \/ AskLen
  BY <1>0, <1>4 DEF ReadExact, ReadAt, Seek, AskLen, Calls
<1>5. CASE ReadReady \/ ReadWaits \/ ReadFails
  BY <1>0, <1>5 DEF ReadReady, ReadWaits, ReadFails, Polls
<1>6. CASE Return
  BY <1>0, <1>6 DEF Return
<1> QED
  BY <1>1, <1>2, <1>3, <1>4, <1>5, <1>6 DEF Next

(* What is asked for is within the source once its length is known.        *)
LEMMA AskedWithin ==
  ASSUME InputInv, Waiting
  PROVE  /\ need # <<>>
         /\ total => \A k \in DOMAIN need :
              /\ need[k].kind = "AtLeast" => need[k].offset <= Size
              /\ need[k].kind = "Range" => need[k].end <= Size
<1>0. Size \in Nat /\ kind # "none" /\ need \in Seq(RequestSet)
  BY CoroutineInputAssumption, WhatIsAsked DEF InputInv, Typed
<1>1. CASE kind = "len"
  BY <1>1, WhatIsAsked DEF Request
<1>2. CASE kind = "seq"
  <2> DEFINE m == Min(Missing(spans[1]))
  <2>1. /\ Missing(spans[1]) # {} /\ ~Fails(spans[1])
        /\ need = <<Request("AtLeast", m, spans[1][2])>>
    BY <1>2, WhatIsAsked
  <2>2. spans[1] \in SpanSort
    BY <1>2 DEF InputInv, Reading
  <2>3. /\ spans[1][2] \in Nat /\ Missing(spans[1]) \in SUBSET Nat
        /\ \A p \in Missing(spans[1]) : p < spans[1][2]
    BY <2>2 DEF SpanSort, Missing, SpanOf
  <2>4. m \in Missing(spans[1])
    BY <2>1, <2>3, MinIsLeast
  <2> HIDE DEF m
  <2>5. DOMAIN need = {1} /\ need[1].kind = "AtLeast" /\ need[1].offset = m
    BY <2>1 DEF Request
  <2>6. total => spans[1][2] <= Size
    BY <1>0, <2>1, <2>3 DEF Fails
  <2>7. need # <<>>
    BY <2>1
  <2>8. m \in Nat /\ (total => m <= Size)
    BY <1>0, <2>3, <2>4, <2>6
  <2> QED
    BY <2>5, <2>7, <2>8
<1>3. CASE kind = "at"
  <2>1. /\ Names(need) /\ \A s \in DOMAIN spans : ~Fails(spans[s])
        /\ \E s \in DOMAIN spans : Missing(spans[s]) # {}
        /\ spans \in Seq(SpanSort)
    BY <1>3, WhatIsAsked DEF InputInv, Reading
  <2>2. need # <<>>
    BY <2>1 DEF Names
  <2>3. ASSUME total, NEW k \in DOMAIN need
        PROVE  need[k].kind = "Range" /\ need[k].end <= Size
    <3>1. PICK s \in DOMAIN spans :
            need[k].offset \in Missing(spans[s]) /\ need[k].end <= spans[s][2]
      BY <2>1 DEF Names
    <3>2. spans[s] \in SpanSort /\ spans[s][2] \in Nat /\ need[k].end \in Nat
      <4>1. spans[s] \in SpanSort /\ need[k] \in RequestSet
        BY <1>0, <2>1
      <4> QED
        BY <4>1 DEF SpanSort, RequestSet
    <3>3. spans[s][2] <= Size
      BY <1>0, <2>1, <2>3, <3>1, <3>2 DEF Fails
    <3> QED
      BY <1>0, <2>1, <3>1, <3>2, <3>3 DEF Names
  <2> QED
    BY <2>2, <2>3
<1> QED
  BY <1>0, <1>1, <1>2, <1>3 DEF InputInv, Reading

(* Unless reads are mixed, every Need passes the drivers' check: it asks   *)
(* for something, for nothing past a known end, and follows an input of    *)
(* which nothing was taken only if that input satisfied no request.        *)
THEOREM NeedsAreAllowed ==
  ASSUME Uses \subseteq {"stream", "random"} PROVE Spec => []ProtocolKept
<1>1. ServedInv => ProtocolKept
  <2> SUFFICES ASSUME ServedInv, Waiting PROVE CheckNeed(need, input, consumed)
    BY DEF ProtocolKept
  <2>1. InputInv /\ Fruitless /\ input.total = total /\ use # "mixed"
    BY DEF ServedInv, InputInv, Typed
  <2>2. /\ need # <<>>
        /\ total => \A k \in DOMAIN need :
             /\ need[k].kind = "AtLeast" => need[k].offset <= Size
             /\ need[k].kind = "Range" => need[k].end <= Size
    BY <2>1, AskedWithin
  <2>3. consumed = 0 => \A k \in DOMAIN need : ~Satisfies(input, need[k])
    BY <2>1 DEF Fruitless
  <2> QED
    BY <2>1, <2>2, <2>3 DEF CheckNeed
<1>2. Init => ServedInv
  BY InitInputInv DEF ServedInv, Init, StreamInv, RandomInv, Fruitless, Waiting
<1>3. ServedInv /\ [Next]_vars => ServedInv'
  BY StepInputInv, StreamKept, RandomKept, FruitlessKept DEF ServedInv
<1> QED
  BY <1>1, <1>2, <1>3, PTL DEF Spec

-----------------------------------------------------------------------------
(* What is taken is kept.                                                  *)

(* The first m requests name the gaps of the first span in order, the      *)
(* others those of the second.                                             *)
Runs(m) ==
  /\ m \in 0 .. Len(need)
  /\ \A k \in DOMAIN need : /\ need[k].kind = "Range" /\ need[k].offset < need[k].end
                            /\ BytesOf(need[k]) \subseteq Wanted \ held
  /\ \A j, k \in DOMAIN need : j < k /\ (k <= m \/ m < j) =>
       need[j].end <= need[k].offset
  /\ \A k \in 1 .. m : BytesOf(need[k]) \subseteq SpanOf(spans[1])
                       /\ need[k].end <= spans[1][2]
  /\ \A p \in Missing(spans[1]) : \E k \in 1 .. m : p \in BytesOf(need[k])

(* A read of one span or two asks for its gaps in one run or two.          *)
LEMMA TwoRuns ==
  ASSUME NEW own, OwnedBy(own, need, Len(spans)), need \in Seq(RequestSet),
         spans \in Seq(SpanSort), spans # <<>>, Len(spans) <= 2
  PROVE  \E m : Runs(m)
<1> DEFINE n == Len(need)
           T == {m \in 0 .. n : \A k \in m + 1 .. n : own[k] = 2}
<1>1. n \in Nat /\ DOMAIN need = 1 .. n
  OBVIOUS
<1>2. DOMAIN spans = 1 .. Len(spans) /\ Len(spans) \in {1, 2}
  <2>1. DOMAIN spans = 1 .. Len(spans) /\ Len(spans) \in Nat \ {0}
    OBVIOUS
  <2> QED
    BY <2>1
<1> HIDE DEF n
<1>3. \A k \in 1 .. n : own[k] \in {1, 2} /\ own[k] \in DOMAIN spans
  BY <1>1, <1>2 DEF OwnedBy
<1>4. n \in T /\ T \in SUBSET Nat
  BY <1>1
<1>5. PICK m \in T : \A x \in T : m <= x
  <2> HIDE DEF T
  <2> QED
    BY <1>4, LeastNumber
<1>6. m \in 0 .. n /\ \A k \in m + 1 .. n : own[k] = 2
  BY <1>5, Zenon
<1>7. ASSUME NEW k \in 1 .. m PROVE own[k] = 1
  <2>1. m \in 1 .. n /\ m - 1 \in 0 .. n /\ k \in 1 .. n /\ k <= m
    BY <1>1, <1>6
  <2>2. m - 1 \notin T
    BY <1>5, <2>1
  <2>3. PICK x \in m .. n : own[x] # 2
    BY <1>1, <2>1, <2>2
  <2>4. x = m
    BY <1>1, <1>6, <2>1, <2>3
  <2>5. own[m] = 1
    BY <1>3, <2>1, <2>3, <2>4
  <2>6. k = m \/ own[k] <= own[m]
    BY <1>1, <2>1 DEF OwnedBy
  <2> QED
    BY <1>3, <2>1, <2>5, <2>6
<1> HIDE DEF T
<1>8. \A k \in 1 .. n : (k <= m => own[k] = 1) /\ (m < k => own[k] = 2)
  BY <1>1, <1>6, <1>7
<1>9. ASSUME NEW k \in DOMAIN need
      PROVE  /\ need[k].kind = "Range" /\ need[k].offset < need[k].end
             /\ BytesOf(need[k]) \subseteq Wanted \ held
  <2>1. /\ need[k].kind = "Range" /\ need[k].offset < need[k].end
        /\ BytesOf(need[k]) \subseteq Missing(spans[own[k]])
    BY DEF OwnedBy
  <2>2. Missing(spans[own[k]]) \subseteq Wanted \ held
    BY <1>1, <1>3 DEF Missing, Wanted
  <2> QED
    BY <2>1, <2>2
<1>10. ASSUME NEW j \in DOMAIN need, NEW k \in DOMAIN need, j < k, k <= m \/ m < j
       PROVE  need[j].end <= need[k].offset
  <2>1. own[j] = own[k]
    BY <1>1, <1>6, <1>8, <1>10
  <2> QED
    BY <1>10, <2>1 DEF OwnedBy
<1>11. ASSUME NEW k \in 1 .. m
       PROVE  BytesOf(need[k]) \subseteq SpanOf(spans[1]) /\ need[k].end <= spans[1][2]
  <2>1. k \in DOMAIN need /\ own[k] = 1
    BY <1>1, <1>6, <1>7
  <2> QED
    BY <2>1 DEF OwnedBy, Missing
<1>12. ASSUME NEW p \in Missing(spans[1]) PROVE \E k \in 1 .. m : p \in BytesOf(need[k])
  <2>1. 1 \in 1 .. Len(spans)
    BY <1>2
  <2>2. PICK k \in DOMAIN need : own[k] = 1 /\ p \in BytesOf(need[k])
    BY <2>1 DEF OwnedBy
  <2>3. k \in 1 .. m
    BY <1>1, <1>6, <1>8, <2>2
  <2> QED
    BY <2>2, <2>3
<1>13. Runs(m)
  BY <1>6, <1>9, <1>10, <1>11, <1>12 DEF Runs, n
<1> QED
  BY <1>13

(* With room for all that is asked for, storing stops early only at a byte *)
(* that was there before, and behind one that was not.                     *)
LEMMA ReachedRoom ==
  ASSUME NEW W, IsFiniteSet(W), Cardinality(W) <= Cap,
         NEW h \in SUBSET Offsets, h \subseteq W,
         NEW lo \in Nat, NEW hi \in Nat, lo < hi, lo .. hi - 1 \subseteq W
  PROVE  LET upto == Reached(h, lo, hi) IN
           /\ upto \in Nat /\ lo < upto /\ upto <= hi
           /\ upto < hi => upto \in h /\ \E x \in lo .. upto - 1 : x \notin h
<1> DEFINE S == {p \in lo .. hi - 1 : p \notin h} \cup {hi}
           start == Min(S)
           T == {p \in start .. hi - 1 : p \in h} \cup {hi}
           stop == Min(T)
<1>1. Reached(h, lo, hi) = Lesser(stop, start + Cap - Cardinality(h))
  BY DEF Reached
<1>2. S \in SUBSET Nat /\ S # {}
  OBVIOUS
<1>3. start \in S /\ \A p \in S : start <= p
  BY <1>2, MinIsLeast
<1>4. start \in Nat /\ lo <= start /\ start <= hi /\ (start < hi => start \notin h)
  BY <1>3
<1> HIDE DEF start
<1>5. T \in SUBSET Nat /\ T # {}
  BY <1>4
<1>6. stop \in T /\ \A p \in T : stop <= p
  BY <1>5, MinIsLeast
<1>7. stop \in Nat /\ start <= stop /\ stop <= hi /\ (stop < hi => stop \in h)
  BY <1>4, <1>6
<1>8. ASSUME NEW p \in start .. stop - 1 PROVE p \notin h
  <2>1. p \in start .. hi - 1 /\ ~(stop <= p)
    BY <1>4, <1>7
  <2>2. p \notin T
    BY <1>6, <2>1
  <2> QED
    BY <2>1, <2>2
<1> HIDE DEF stop
<1>9. /\ IsFiniteSet(h) /\ Cardinality(h) \in Nat /\ Cardinality(W) \in Nat
      /\ stop <= start + Cap - Cardinality(h)
  <2> DEFINE N == start .. stop - 1
  <2>1. IsFiniteSet(h) /\ Cardinality(h) \in Nat /\ Cardinality(W) \in Nat
    BY FS_Subset, FS_CardinalityType
  <2>2. IsFiniteSet(N) /\ Cardinality(N) = stop - start
    <3> DEFINE b == stop - 1
    <3>1. b \in Int /\ start \in Int
      BY <1>4, <1>7
    <3> HIDE DEF b
    <3>2. IsFiniteSet(start .. b)
          /\ Cardinality(start .. b) = IF start > b THEN 0 ELSE b - start + 1
      BY <3>1, FS_Interval
    <3> QED
      BY <1>4, <1>7, <3>2 DEF b
  <2>3. N \subseteq W /\ h \cap N = {}
    BY <1>4, <1>7, <1>8
  <2> HIDE DEF N
  <2>4. IsFiniteSet(h \cup N) /\ h \cup N \subseteq W
    BY <2>1, <2>2, <2>3, FS_Union
  <2>5. Cardinality(h \cup N) = Cardinality(h) + Cardinality(N) - Cardinality(h \cap N)
    BY <2>1, <2>2, FS_Union
  <2>6. Cardinality(h \cap N) = 0
    BY <2>3, FS_EmptySet
  <2>7. Cardinality(h \cup N) <= Cardinality(W)
    BY <2>4, FS_Subset
  <2> QED
    BY <1>4, <1>7, <2>1, <2>2, <2>5, <2>6, <2>7, CoroutineInputAssumption
<1>10. Reached(h, lo, hi) = stop
  BY <1>1, <1>4, <1>7, <1>9, CoroutineInputAssumption DEF Lesser
<1>11. lo < stop /\ (stop < hi => start < stop)
  BY <1>4, <1>7
<1> QED
  BY <1>4, <1>7, <1>10, <1>11

(* After k rounds, of which the first m are those of the first span: what  *)
(* is in the store, how much is taken, and what a full store means.        *)
Stage(acc, i, begin, m, k) ==
  /\ acc \in Accs /\ begin <= acc.taken /\ held \subseteq acc.held
  /\ acc.taken = begin \/ (acc.taken <= i.end /\ \E j \in 1 .. k : acc.taken <= need[j].end)
  /\ \A q \in acc.held \ held : \E j \in 1 .. k : q \in BytesOf(need[j])
  /\ ~acc.full => \A j \in 1 .. k : \A q \in BytesOf(need[j]) :
       begin <= q /\ q < i.end => q \in acc.held
  /\ acc.full => /\ m < k
                 /\ \A j \in DOMAIN need : \A q \in BytesOf(need[j]) :
                      begin <= q /\ q < acc.taken => q \in acc.held

(* One round keeps it, as long as the store has room for the whole read.   *)
LEMMA StageKept ==
  ASSUME NEW i \in Inputs, NEW begin \in Nat, NEW m, Runs(m),
         held \subseteq Offsets, held \subseteq Wanted, need \in Seq(RequestSet),
         spans[1] \in SpanSort, IsFiniteSet(Wanted), Cardinality(Wanted) <= Cap,
         NEW k \in DOMAIN need, NEW acc, Stage(acc, i, begin, m, k - 1),
         NEW b, b = After(i, begin, acc, need[k])
  PROVE  Stage(b, i, begin, m, k)
<1> DEFINE r    == need[k]
           lo   == Greater(r.offset, begin)
           hi   == Lesser(r.end, i.end)
           upto == Reached(acc.held, lo, hi)
<1>0. /\ DOMAIN need = 1 .. Len(need) /\ Len(need) \in Nat /\ m \in Nat
      /\ \A j \in DOMAIN need : need[j].offset \in Nat /\ need[j].end \in Nat
      /\ i.offset \in Nat /\ i.end \in Nat
  <2>1. \A j \in DOMAIN need : need[j] \in RequestSet
    OBVIOUS
  <2>2. m \in Nat
    BY DEF Runs
  <2> QED
    BY <2>1, <2>2 DEF RequestSet, Inputs
<1>1. r.kind = "Range" /\ r.offset < r.end /\ EndIn(i, r) = hi
  BY DEF Runs, EndIn
<1>2. /\ acc.held \in SUBSET Offsets /\ acc.taken \in Nat /\ acc.full \in BOOLEAN
      /\ begin <= acc.taken /\ held \subseteq acc.held
      /\ k \in 1 .. Len(need) /\ k - 1 \in Nat
  BY <1>0 DEF Stage, Accs
<1>3. /\ lo \in Nat /\ hi \in Nat /\ begin <= lo /\ r.offset <= lo
      /\ hi <= r.end /\ hi <= i.end
      /\ \A q \in Nat : q \in lo .. hi - 1 <=>
           q \in BytesOf(r) /\ begin <= q /\ q < i.end
  BY SMTT(60), <1>0 DEF Greater, Lesser, BytesOf
<1> HIDE DEF r, lo, hi, upto
<1>4. CASE acc.full \/ lo >= hi
  <2>1. b = acc
    BY <1>1, <1>4 DEF After, r, lo
  <2>2. ASSUME ~acc.full, NEW q \in BytesOf(r), begin <= q, q < i.end PROVE FALSE
    <3>1. q \in Nat
      BY <1>0, <2>2 DEF BytesOf, r
    <3> QED
      BY <1>3, <1>4, <2>2, <3>1
  <2>3. /\ \A j \in 1 .. k : j = k \/ j \in 1 .. k - 1
        /\ \A j \in 1 .. k - 1 : j \in 1 .. k
    BY <1>2
  <2>4. acc.taken = begin \/ (acc.taken <= i.end /\ \E j \in 1 .. k : acc.taken <= need[j].end)
    BY <2>3 DEF Stage
  <2>5. \A q \in acc.held \ held : \E j \in 1 .. k : q \in BytesOf(need[j])
    BY <2>3 DEF Stage
  <2>6. ASSUME ~acc.full, NEW j \in 1 .. k, NEW q \in BytesOf(need[j]),
               begin <= q, q < i.end
        PROVE  q \in acc.held
    BY <2>2, <2>3, <2>6 DEF Stage, r
  <2>7. ASSUME acc.full
        PROVE  /\ m < k
               /\ \A j \in DOMAIN need : \A q \in BytesOf(need[j]) :
                    begin <= q /\ q < acc.taken => q \in acc.held
    <3>1. m < k
      BY <1>0, <1>2, <2>7 DEF Stage
    <3> QED
      BY <2>7, <3>1 DEF Stage
  <2>8. acc \in Accs /\ begin <= acc.taken /\ held \subseteq acc.held
    BY DEF Stage
  <2> QED
    BY <2>1, <2>4, <2>5, <2>6, <2>7, <2>8 DEF Stage
<1>5. CASE ~acc.full /\ lo < hi
  <2>1. b = [held |-> acc.held \cup (lo .. upto - 1),
             taken |-> Greater(acc.taken, upto), full |-> upto < hi]
    BY <1>1, <1>3, <1>5 DEF After, r, lo, upto
  <2>2. acc.held \subseteq Wanted /\ lo .. hi - 1 \subseteq Wanted
    <3>1. \A j \in DOMAIN need : BytesOf(need[j]) \subseteq Wanted
      BY DEF Runs
    <3>2. lo .. hi - 1 \subseteq BytesOf(r)
      BY <1>3
    <3>3. \A q \in acc.held \ held : \E j \in 1 .. k - 1 : q \in BytesOf(need[j])
      BY DEF Stage
    <3>4. \A j \in 1 .. k - 1 : j \in DOMAIN need
      BY <1>0, <1>2
    <3> QED
      BY <3>1, <3>2, <3>3, <3>4 DEF r
  <2>3. /\ upto \in Nat /\ lo < upto /\ upto <= hi
        /\ upto < hi => upto \in acc.held /\ \E x \in lo .. upto - 1 : x \notin acc.held
    BY <1>2, <1>3, <1>5, <2>2, ReachedRoom DEF upto
  <2> HIDE DEF upto
  <2>4. /\ b.held = acc.held \cup (lo .. upto - 1) /\ b.full = (upto < hi)
        /\ b.taken = Greater(acc.taken, upto) /\ b.taken \in Nat
        /\ begin <= b.taken /\ b \in Accs
    <3>1. Greater(acc.taken, upto) \in Nat /\ begin <= Greater(acc.taken, upto)
      BY <1>2, <2>3 DEF Greater
    <3>2. lo .. upto - 1 \subseteq Offsets
      BY <1>3, <2>3, CoroutineInputAssumption DEF Offsets, Inputs
    <3> QED
      BY <1>2, <2>1, <3>1, <3>2 DEF Accs
  <2>5. b.taken = begin \/ (b.taken <= i.end /\ \E j \in 1 .. k : b.taken <= need[j].end)
    <3>1. CASE b.taken = acc.taken
      BY <1>2, <3>1 DEF Stage
    <3>2. CASE b.taken = upto
      BY <1>0, <1>2, <1>3, <2>3, <3>2 DEF r
    <3> QED
      BY <2>4, <3>1, <3>2 DEF Greater
  <2>6. \A q \in b.held \ held : \E j \in 1 .. k : q \in BytesOf(need[j])
    <3>1. ASSUME NEW q \in lo .. upto - 1 PROVE q \in BytesOf(need[k])
      BY <1>3, <2>3 DEF r
    <3> QED
      BY <1>2, <2>4, <3>1 DEF Stage
  <2>7. ASSUME ~b.full, NEW j \in 1 .. k, NEW q \in BytesOf(need[j]),
               begin <= q, q < i.end
        PROVE  q \in b.held
    <3>1. CASE j \in 1 .. k - 1
      BY <1>5, <2>4, <2>7, <3>1 DEF Stage
    <3>2. CASE j = k
      <4>1. q \in Nat
        BY <1>0, <3>2 DEF BytesOf
      <4>2. q \in lo .. hi - 1
        BY <1>3, <2>7, <3>2, <4>1 DEF r
      <4>3. ~(upto < hi)
        BY <2>4, <2>7, Zenon
      <4>4. upto = hi
        BY <1>3, <2>3, <4>3
      <4> QED
        BY <2>4, <4>2, <4>4
    <3> QED
      BY <1>2, <3>1, <3>2
  <2>8. ASSUME b.full
        PROVE  /\ m < k
               /\ \A j \in DOMAIN need : \A q \in BytesOf(need[j]) :
                    begin <= q /\ q < b.taken => q \in b.held
    <3> DEFINE first == spans[1][1]
               last == spans[1][2]
    <3>0. upto < hi
      BY <2>4, <2>8, Zenon
    <3>1. PICK x \in lo .. upto - 1 : x \notin acc.held
      BY <2>3, <3>0
    <3>2. /\ upto \in acc.held /\ upto \in BytesOf(r) /\ upto \notin held
          /\ x \in BytesOf(r) /\ begin <= x /\ x < i.end /\ x \in Nat
      <4>1. upto < hi /\ upto \in lo .. hi - 1 /\ x \in lo .. hi - 1 /\ x \in Nat
        BY <1>3, <2>3, <3>0
      <4>2. BytesOf(r) \subseteq Wanted \ held
        BY DEF Runs, r
      <4> QED
        BY <1>3, <2>3, <4>1, <4>2
    <3>3. PICK j0 \in 1 .. k - 1 : upto \in BytesOf(need[j0])
      BY <3>2 DEF Stage
    <3>4. j0 \in DOMAIN need /\ j0 < k /\ upto < need[j0].end /\ r.offset <= upto
      <4>1. j0 \in DOMAIN need /\ j0 < k
        BY <1>0, <1>2
      <4>2. upto < need[j0].end
        BY <1>0, <2>3, <3>3, <4>1 DEF BytesOf
      <4>3. r.offset <= upto
        BY <1>0, <2>3, <3>2 DEF BytesOf, r
      <4> QED
        BY <4>1, <4>2, <4>3
    <3>5. j0 <= m /\ m < k
      <4>1. ~(need[j0].end <= r.offset)
        BY <1>0, <2>3, <3>4 DEF r
      <4>2. ~(k <= m) /\ ~(m < j0)
        BY <3>4, <4>1 DEF Runs, r
      <4> QED
        BY <1>0, <1>2, <3>4, <4>2
    <3>6. upto \in SpanOf(spans[1])
      BY <1>0, <3>3, <3>4, <3>5 DEF Runs
    <3>7. ASSUME NEW q \in SpanOf(spans[1]), NEW j \in DOMAIN need,
                 q \in BytesOf(need[j]), begin <= q, q < i.end
          PROVE  q \in acc.held
      <4>1. q \in Missing(spans[1])
        BY <3>7 DEF Runs, Missing
      <4>2. PICK jj \in 1 .. m : q \in BytesOf(need[jj])
        BY <4>1 DEF Runs
      <4>3. jj \in 1 .. k - 1
        BY <1>0, <1>2, <3>5
      <4> QED
        BY <1>5, <3>7, <4>2, <4>3 DEF Stage
    <3>8. x \notin SpanOf(spans[1])
      BY <3>1, <3>2, <3>7 DEF r
    <3>9. first \in Int /\ last \in Int
      BY DEF SpanSort
    <3>10. first <= upto /\ upto < last /\ x < first
      BY <2>3, <3>2, <3>6, <3>8, <3>9 DEF SpanOf
    <3>11. ASSUME NEW j \in DOMAIN need, NEW q \in BytesOf(need[j]),
                  begin <= q, q < b.taken
           PROVE  q \in b.held
      <4>1. q \in Nat /\ q < i.end /\ need[j].offset <= q
        BY <1>0, <2>4, <2>5, <3>11 DEF BytesOf
      <4>2. CASE q \in SpanOf(spans[1])
        BY <2>4, <3>7, <3>11, <4>1, <4>2
      <4>3. CASE q \notin SpanOf(spans[1])
        <5>1. ~(j <= m)
          BY <1>0, <3>11, <4>3 DEF Runs
        <5>2. CASE j < k
          <6>1. j \in 1 .. k - 1
            BY <1>0, <1>2, <5>2
          <6>2. q \in acc.held
            BY <1>5, <3>11, <4>1, <6>1 DEF Stage
          <6> QED
            BY <2>4, <6>2
        <5>3. CASE k <= j
          <6>1. r.offset <= q
            <7>1. CASE j = k
              BY <4>1, <7>1 DEF r
            <7>2. CASE k < j
              <8>1. r.end <= need[j].offset
                BY <1>0, <3>5, <7>2 DEF Runs, r
              <8> QED
                BY <1>0, <1>1, <4>1, <8>1 DEF r
            <7> QED
              BY <1>0, <1>2, <5>3, <7>1, <7>2
          <6>2. lo <= q
            BY <3>11, <6>1 DEF lo, Greater
          <6>3. CASE q < upto
            BY <1>3, <2>3, <2>4, <4>1, <6>2, <6>3
          <6>4. CASE upto <= q
            <7>1. last <= q
              BY SMTT(60), <2>3, <3>9, <3>10, <4>1, <4>3, <6>4 DEF SpanOf
            <7>2. q < acc.taken
              BY SMTT(60), <1>2, <2>3, <2>4, <3>11, <4>1, <6>4 DEF Greater
            <7>3. PICK jj \in 1 .. k - 1 : acc.taken <= need[jj].end
              <8>1. acc.taken # begin
                BY <1>2, <3>11, <4>1, <7>2
              <8> QED
                BY <8>1 DEF Stage
            <7>4. jj \in DOMAIN need /\ jj < k /\ need[jj].end \in Nat
              <8>1. k \in Nat /\ k <= Len(need)
                BY <1>0, <1>2
              <8>2. jj \in 1 .. Len(need) /\ jj < k
                BY <1>0, <8>1
              <8> QED
                BY <1>0, <8>2
            <7>5. CASE jj <= m
              <8>1. need[jj].end <= last
                BY <1>0, <7>4, <7>5 DEF Runs
              <8> QED
                BY SMTT(60), <1>2, <3>9, <4>1, <7>1, <7>2, <7>3, <7>4, <8>1
            <7>6. CASE m < jj
              <8>1. need[jj].end <= r.offset
                BY <7>4, <7>6 DEF Runs, r
              <8> QED
                BY SMTT(60), <1>0, <1>2, <4>1, <6>1, <7>2, <7>3, <7>4, <8>1 DEF r
            <7> QED
              BY <1>0, <7>4, <7>5, <7>6
          <6> QED
            BY <2>3, <4>1, <6>3, <6>4
        <5> QED
          BY <1>0, <1>2, <5>2, <5>3
      <4> QED
        BY <4>2, <4>3
    <3> QED
      BY <3>5, <3>11
  <2> QED
    BY <1>2, <2>4, <2>5, <2>6, <2>7, <2>8 DEF Stage
<1> QED
  BY <1>2, <1>3, <1>4, <1>5

(* So one span or two keep what is taken, in whatever order they come.     *)
LEMMA TwoSpansKeepTaken ==
  ASSUME InputInv, RandomInv, use = "random", kind = "at", pc = "need" \/ Waiting,
         NEW own, OwnedBy(own, need, Len(spans)), spans # <<>>, Len(spans) <= 2,
         NEW i \in Inputs, NEW from \in Nat, NEW got \in Absorbed(i, from),
         NEW j \in DOMAIN need, NEW q \in BytesOf(need[j]),
         i.offset + from <= q, q < got.taken
  PROVE  q \in got.held
<1> DEFINE begin == i.offset + from
           n == Len(need)
<1>1. /\ spans \in Seq(SpanSort) /\ need \in Seq(RequestSet) /\ held \subseteq Offsets
      /\ spans[1] \in SpanSort /\ author = "running"
  <2>1. spans \in Seq(SpanSort)
    BY DEF InputInv, Reading
  <2>2. spans[1] \in SpanSort
    BY <2>1
  <2> QED
    BY <2>1, <2>2, WhatIsAsked DEF InputInv, Typed
<1>2. PICK m : Runs(m)
  BY <1>1, TwoRuns
<1>3. IsFiniteSet(Wanted) /\ Cardinality(Wanted) <= Cap /\ held \subseteq Wanted
  BY <1>1, WantedFits DEF RandomInv
<1>4. n \in Nat /\ DOMAIN need = 1 .. n /\ begin \in Nat
  BY <1>1 DEF Inputs
<1> HIDE DEF n
<1>5. PICK a : Course(a, i, from, n)
  BY <1>4, AbsorbSteps
<1>6. /\ a[0] = Start(i, from) /\ got = a[n]
      /\ \A k \in 1 .. n : a[k] = After(i, begin, a[k - 1], need[k])
  BY <1>5 DEF Course
<1>7. Stage(a[0], i, begin, m, 0)
  <2>1. a[0] = [held |-> held, taken |-> begin, full |-> FALSE]
    BY <1>6 DEF Start
  <2>2. a[0].held = held /\ a[0].taken = begin /\ a[0].full = FALSE
    BY <2>1
  <2>3. a[0] \in Accs
    BY <1>1, <1>4, <2>1 DEF Accs
  <2> HIDE DEF begin
  <2> QED
    BY <1>4, <2>2, <2>3 DEF Stage
<1> HIDE DEF begin
<1>8. ASSUME NEW k \in 1 .. n, Stage(a[k - 1], i, begin, m, k - 1)
      PROVE  Stage(a[k], i, begin, m, k)
  BY <1>1, <1>2, <1>3, <1>4, <1>6, <1>8, StageKept
<1>9. Stage(a[n], i, begin, m, n)
  <2> DEFINE T == {k \in 0 .. n : ~Stage(a[k], i, begin, m, k)}
  <2> SUFFICES ASSUME T # {} PROVE FALSE
    BY <1>4
  <2>1. T \in SUBSET Nat
    OBVIOUS
  <2>2. PICK x \in T : \A k \in T : x <= k
    <3> HIDE DEF T
    <3> QED
      BY <2>1, LeastNumber
  <2>3. x # 0
    BY <1>7, <2>2
  <2>4. x \in 1 .. n /\ x - 1 \in 0 .. n /\ x - 1 \notin T
    BY <1>4, <2>2, <2>3
  <2> QED
    BY <1>8, <2>2, <2>4
<1>10. CASE got.full
  BY <1>6, <1>9, <1>10 DEF Stage, begin
<1>11. CASE ~got.full
  <2>1. /\ got \in Accs
        /\ got.taken = begin \/ got.taken <= i.end
        /\ \A k \in 1 .. n : \A p \in BytesOf(need[k]) :
             begin <= p /\ p < i.end => p \in got.held
    BY <1>6, <1>9, <1>11 DEF Stage
  <2>2. need[j] \in RequestSet
    BY <1>1
  <2>3. q \in Int /\ i.end \in Nat /\ got.taken \in Nat /\ begin <= q
    BY <2>1, <2>2 DEF BytesOf, RequestSet, Inputs, Accs, begin
  <2> QED
    BY <1>4, <2>1, <2>3
<1> QED
  BY <1>9, <1>10, <1>11

(* After k rounds of a read whose spans come in order the store is never   *)
(* full, and all that the input has of what was asked for is in it.        *)
Stored(acc, i, begin, k) ==
  /\ acc \in Accs /\ ~acc.full /\ begin <= acc.taken /\ held \subseteq acc.held
  /\ acc.taken = begin \/ acc.taken <= i.end
  /\ \A q \in acc.held \ held : \E j \in 1 .. k : q \in BytesOf(need[j])
  /\ \A j \in 1 .. k : \A q \in BytesOf(need[j]) :
       begin <= q /\ q < i.end => q \in acc.held

(* One round keeps it: storing could stop early only at a byte of an       *)
(* earlier span, behind one that is not in the store; but that one would   *)
(* belong to the earlier span too, which is stored already.                *)
LEMMA StoredKept ==
  ASSUME NEW i \in Inputs, NEW begin \in Nat,
         NEW own, OwnedBy(own, need, Len(spans)), InOrder, spans \in Seq(SpanSort),
         held \subseteq Offsets, held \subseteq Wanted, need \in Seq(RequestSet),
         IsFiniteSet(Wanted), Cardinality(Wanted) <= Cap,
         NEW k \in DOMAIN need, NEW acc, Stored(acc, i, begin, k - 1),
         NEW b, b = After(i, begin, acc, need[k])
  PROVE  Stored(b, i, begin, k)
<1> DEFINE r    == need[k]
           lo   == Greater(r.offset, begin)
           hi   == Lesser(r.end, i.end)
           upto == Reached(acc.held, lo, hi)
<1>0. /\ DOMAIN need = 1 .. Len(need) /\ Len(need) \in Nat
      /\ \A j \in DOMAIN need : need[j].offset \in Nat /\ need[j].end \in Nat
      /\ i.offset \in Nat /\ i.end \in Nat
  <2>1. \A j \in DOMAIN need : need[j] \in RequestSet
    OBVIOUS
  <2> QED
    BY <2>1 DEF RequestSet, Inputs
<1>1. r.kind = "Range" /\ r.offset < r.end /\ EndIn(i, r) = hi
  BY DEF OwnedBy, EndIn
<1>2. /\ acc.held \in SUBSET Offsets /\ acc.taken \in Nat /\ ~acc.full
      /\ begin <= acc.taken /\ held \subseteq acc.held
      /\ k \in 1 .. Len(need)
      /\ \A j \in 1 .. k : j \in DOMAIN need /\ (j = k \/ j \in 1 .. k - 1)
      /\ \A j \in 1 .. k - 1 : j \in 1 .. k
  BY <1>0 DEF Stored, Accs
<1>3. /\ lo \in Nat /\ hi \in Nat /\ begin <= lo /\ r.offset <= lo
      /\ hi <= r.end /\ hi <= i.end
      /\ \A q \in Nat : q \in lo .. hi - 1 <=>
           q \in BytesOf(r) /\ begin <= q /\ q < i.end
  BY SMTT(60), <1>0 DEF Greater, Lesser, BytesOf
<1>4. /\ DOMAIN spans = 1 .. Len(spans)
      /\ \A j \in DOMAIN need :
           /\ own[j] \in DOMAIN spans /\ own[j] \in Nat
           /\ BytesOf(need[j]) \subseteq Missing(spans[own[j]])
           /\ BytesOf(need[j]) \subseteq Wanted \ held
  <2>1. DOMAIN spans = 1 .. Len(spans)
    OBVIOUS
  <2>2. \A j \in DOMAIN need : /\ own[j] \in DOMAIN spans /\ own[j] \in Nat
                               /\ BytesOf(need[j]) \subseteq Missing(spans[own[j]])
    BY <2>1 DEF OwnedBy
  <2>3. \A s \in DOMAIN spans : Missing(spans[s]) \subseteq Wanted \ held
    BY DEF Missing, Wanted
  <2> QED
    BY <2>1, <2>2, <2>3
<1> HIDE DEF r, lo, hi, upto
<1>5. CASE lo >= hi
  <2>1. b = acc
    BY <1>1, <1>5 DEF After, r, lo
  <2>2. ASSUME NEW q \in BytesOf(r), begin <= q, q < i.end PROVE FALSE
    <3>1. q \in Nat
      BY <1>0, <2>2 DEF BytesOf, r
    <3> QED
      BY <1>3, <1>5, <2>2, <3>1
  <2>3. \A j \in 1 .. k : \A q \in BytesOf(need[j]) :
          begin <= q /\ q < i.end => q \in acc.held
    BY <1>2, <2>2 DEF Stored, r
  <2>4. \A q \in acc.held \ held : \E j \in 1 .. k : q \in BytesOf(need[j])
    BY <1>2 DEF Stored
  <2> QED
    BY <2>1, <2>3, <2>4 DEF Stored
<1>6. CASE lo < hi
  <2>1. b = [held |-> acc.held \cup (lo .. upto - 1),
             taken |-> Greater(acc.taken, upto), full |-> upto < hi]
    BY <1>1, <1>2, <1>3, <1>6 DEF After, r, lo, upto
  <2>2. acc.held \subseteq Wanted /\ lo .. hi - 1 \subseteq Wanted
    <3>1. lo .. hi - 1 \subseteq BytesOf(r)
      BY <1>3
    <3>2. \A q \in acc.held \ held : \E j \in 1 .. k - 1 : q \in BytesOf(need[j])
      BY DEF Stored
    <3> QED
      BY <1>2, <1>4, <3>1, <3>2 DEF r
  <2>3. /\ upto \in Nat /\ lo < upto /\ upto <= hi
        /\ upto < hi => upto \in acc.held /\ \E x \in lo .. upto - 1 : x \notin acc.held
    BY <1>2, <1>3, <1>6, <2>2, ReachedRoom DEF upto
  <2> HIDE DEF upto
  <2>4. upto = hi
    <3> SUFFICES ASSUME upto < hi PROVE FALSE
      BY <1>3, <2>3
    <3>1. PICK x \in lo .. upto - 1 : x \notin acc.held
      BY <2>3
    <3>2. /\ x \in Nat /\ x < upto /\ x \in BytesOf(r) /\ begin <= x /\ x < i.end
          /\ upto \in BytesOf(r) /\ upto \in acc.held /\ upto \notin held
      <4>1. x \in Nat /\ x \in lo .. hi - 1 /\ upto \in lo .. hi - 1 /\ x < upto
        BY <1>3, <2>3, <3>1
      <4>2. /\ x \in BytesOf(r) /\ begin <= x /\ x < i.end /\ upto \in BytesOf(r)
        BY <1>3, <2>3, <4>1
      <4> QED
        BY <1>4, <2>3, <4>1, <4>2 DEF r
    <3>3. PICK j \in 1 .. k - 1 : upto \in BytesOf(need[j])
      BY <3>2 DEF Stored
    <3>4. j \in DOMAIN need /\ j < k /\ upto < need[j].end /\ r.offset <= upto
      <4>1. j \in DOMAIN need /\ j < k
        BY <1>0, <1>2
      <4> QED
        BY <1>0, <2>3, <3>2, <3>3, <4>1 DEF BytesOf, r
    <3> DEFINE e == own[j]
               l == own[k]
    <3>5. e \in DOMAIN spans /\ l \in DOMAIN spans /\ e \in Nat /\ l \in Nat
      BY <1>4, <3>4
    <3>6. e < l
      <4>1. ~(need[j].end <= r.offset)
        BY <1>0, <2>3, <3>4 DEF r
      <4>2. e <= l /\ e # l
        BY <3>4, <4>1 DEF OwnedBy, r
      <4> QED
        BY <3>5, <4>2
    <3>7. /\ spans[e] \in SpanSort /\ spans[l] \in SpanSort
          /\ upto \in SpanOf(spans[e]) /\ x \in SpanOf(spans[l]) /\ x \notin held
          /\ upto \in SpanOf(spans[l])
      BY <1>4, <3>2, <3>3, <3>4, <3>5 DEF Missing, r
    <3>8. spans[e][1] <= spans[l][1] \/ spans[l][2] <= spans[e][1]
      BY <3>5, <3>6 DEF InOrder
    <3>9. x \in Missing(spans[e])
      <4> HIDE DEF e, l
      <4>0. upto \in Nat /\ x \in Nat /\ x < upto
        BY <2>3, <3>2
      <4>1. /\ spans[e][1] \in Nat /\ spans[e][2] \in Nat
            /\ spans[l][1] \in Nat /\ spans[l][2] \in Nat
        BY <3>7 DEF SpanSort
      <4>2. /\ spans[e][1] <= upto /\ upto < spans[e][2]
            /\ upto < spans[l][2] /\ spans[l][1] <= x
        <5>1. spans[e][1] <= upto /\ upto < spans[e][2]
          BY <3>7, <4>0, <4>1 DEF SpanOf
        <5>2. upto < spans[l][2] /\ spans[l][1] <= x
          BY <3>7, <4>0, <4>1 DEF SpanOf
        <5> QED
          BY <5>1, <5>2
      <4>3. spans[e][1] <= x /\ x < spans[e][2]
        <5> DEFINE ea == spans[e][1]
                   eb == spans[e][2]
                   la == spans[l][1]
                   lb == spans[l][2]
        <5>1. ea \in Nat /\ eb \in Nat /\ la \in Nat /\ lb \in Nat
          BY <4>1
        <5>2. ea <= upto /\ upto < eb /\ upto < lb /\ la <= x
          BY <4>2
        <5>3. ea <= la \/ lb <= ea
          BY <3>8
        <5> HIDE DEF ea, eb, la, lb
        <5>4. ea <= x /\ x < eb
          BY <4>0, <5>1, <5>2, <5>3
        <5> QED
          BY <5>4 DEF ea, eb
      <4>4. x \in SpanOf(spans[e])
        BY <3>2, <4>1, <4>3 DEF SpanOf
      <4> QED
        BY <3>7, <4>4 DEF Missing
    <3>10. PICK h \in DOMAIN need : own[h] = e /\ x \in BytesOf(need[h])
      BY <1>4, <3>5, <3>9 DEF OwnedBy
    <3>11. h \in 1 .. k - 1
      <4>1. ~(k < h) /\ h # k
        <5>1. k < h => l <= e
          BY <3>10 DEF OwnedBy
        <5> QED
          BY <3>5, <3>6, <3>10, <5>1
      <4> QED
        BY <1>0, <1>2, <4>1
    <3>12. x \in acc.held
      BY <3>2, <3>10, <3>11 DEF Stored
    <3> QED
      BY <3>1, <3>12
  <2>5. /\ b.held = acc.held \cup (lo .. hi - 1) /\ b.full = FALSE
        /\ b.taken = Greater(acc.taken, hi) /\ b.taken \in Nat
        /\ begin <= b.taken /\ b \in Accs
    <3>1. Greater(acc.taken, hi) \in Nat /\ begin <= Greater(acc.taken, hi)
      BY <1>2, <1>3 DEF Greater
    <3>2. lo .. hi - 1 \subseteq Offsets
      BY <1>3, CoroutineInputAssumption DEF Offsets, Inputs
    <3>3. b = [held |-> acc.held \cup (lo .. hi - 1),
               taken |-> Greater(acc.taken, hi), full |-> FALSE]
      <4>1. (upto < hi) = FALSE
        BY <1>3, <2>4
      <4> QED
        BY <2>1, <2>4, <4>1
    <3> QED
      BY <1>2, <3>1, <3>2, <3>3 DEF Accs
  <2>6. b.taken = begin \/ b.taken <= i.end
    BY <1>2, <1>3, <2>5 DEF Greater, Stored
  <2>7. \A q \in b.held \ held : \E j \in 1 .. k : q \in BytesOf(need[j])
    <3>1. \A q \in lo .. hi - 1 : q \in BytesOf(need[k])
      BY <1>3 DEF r
    <3> QED
      BY <1>2, <2>5, <3>1 DEF Stored
  <2>8. ASSUME NEW j \in 1 .. k, NEW q \in BytesOf(need[j]), begin <= q, q < i.end
        PROVE  q \in b.held
    <3>1. CASE j \in 1 .. k - 1
      BY <2>5, <2>8, <3>1 DEF Stored
    <3>2. CASE j = k
      <4>1. q \in Nat
        BY <1>0, <3>2 DEF BytesOf
      <4>2. q \in lo .. hi - 1
        BY <1>3, <2>8, <3>2, <4>1 DEF r
      <4> QED
        BY <2>5, <4>2
    <3> QED
      BY <1>2, <3>1, <3>2
  <2>9. held \subseteq b.held
    BY <1>2, <2>5
  <2> QED
    BY <2>5, <2>6, <2>7, <2>8, <2>9 DEF Stored
<1> QED
  BY <1>3, <1>5, <1>6

(* So any number of spans in order keep what is taken.                     *)
LEMMA InOrderKeepsTaken ==
  ASSUME InputInv, RandomInv, use = "random", kind = "at", pc = "need" \/ Waiting,
         NEW own, OwnedBy(own, need, Len(spans)), InOrder,
         NEW i \in Inputs, NEW from \in Nat, NEW got \in Absorbed(i, from),
         NEW j \in DOMAIN need, NEW q \in BytesOf(need[j]),
         i.offset + from <= q, q < got.taken
  PROVE  q \in got.held
<1> DEFINE begin == i.offset + from
           n == Len(need)
<1>1. /\ spans \in Seq(SpanSort) /\ need \in Seq(RequestSet) /\ held \subseteq Offsets
      /\ author = "running"
  BY WhatIsAsked DEF InputInv, Typed, Reading
<1>2. IsFiniteSet(Wanted) /\ Cardinality(Wanted) <= Cap /\ held \subseteq Wanted
  BY <1>1, WantedFits DEF RandomInv
<1>3. n \in Nat /\ DOMAIN need = 1 .. n /\ begin \in Nat
  BY <1>1 DEF Inputs
<1> HIDE DEF n
<1>4. PICK a : Course(a, i, from, n)
  BY <1>3, AbsorbSteps
<1>5. /\ a[0] = Start(i, from) /\ got = a[n]
      /\ \A k \in 1 .. n : a[k] = After(i, begin, a[k - 1], need[k])
  BY <1>4 DEF Course
<1>6. Stored(a[0], i, begin, 0)
  <2>1. a[0] = [held |-> held, taken |-> begin, full |-> FALSE]
    BY <1>5 DEF Start
  <2>2. a[0].held = held /\ a[0].taken = begin /\ a[0].full = FALSE
    BY <2>1
  <2>3. a[0] \in Accs
    BY <1>1, <1>3, <2>1 DEF Accs
  <2> HIDE DEF begin
  <2> QED
    BY <1>3, <2>2, <2>3 DEF Stored
<1> HIDE DEF begin
<1>7. ASSUME NEW k \in 1 .. n, Stored(a[k - 1], i, begin, k - 1)
      PROVE  Stored(a[k], i, begin, k)
  BY <1>1, <1>2, <1>3, <1>5, <1>7, StoredKept
<1>8. Stored(a[n], i, begin, n)
  <2> DEFINE T == {k \in 0 .. n : ~Stored(a[k], i, begin, k)}
  <2> SUFFICES ASSUME T # {} PROVE FALSE
    BY <1>3
  <2>1. T \in SUBSET Nat
    OBVIOUS
  <2>2. PICK x \in T : \A k \in T : x <= k
    <3> HIDE DEF T
    <3> QED
      BY <2>1, LeastNumber
  <2>3. x # 0
    BY <1>6, <2>2
  <2>4. x \in 1 .. n /\ x - 1 \in 0 .. n /\ x - 1 \notin T
    BY <1>3, <2>2, <2>3
  <2> QED
    BY <1>7, <2>2, <2>4
<1>9. /\ got \in Accs
      /\ got.taken = begin \/ got.taken <= i.end
      /\ \A k \in 1 .. n : \A p \in BytesOf(need[k]) :
           begin <= p /\ p < i.end => p \in got.held
  BY <1>5, <1>8 DEF Stored
<1>10. need[j] \in RequestSet
  BY <1>1
<1>11. q \in Int /\ i.end \in Nat /\ got.taken \in Nat /\ begin <= q
  BY <1>9, <1>10 DEF BytesOf, RequestSet, Inputs, Accs, begin
<1> QED
  BY <1>3, <1>9, <1>11

(* A whole absorb of a random read keeps it, if one of the two holds.      *)
LEMMA RandomKeepsTaken ==
  ASSUME InputInv, RandomInv, use = "random", kind = "at", pc = "need" \/ Waiting,
         Len(spans) <= 2 \/ InOrder,
         NEW i \in Inputs, NEW from \in Nat, NEW got \in Absorbed(i, from),
         NEW j \in DOMAIN need, NEW q \in BytesOf(need[j]),
         i.offset + from <= q, q < got.taken
  PROVE  q \in got.held
<1>1. spans \in Seq(SpanSort) /\ need = Requests /\ spans # <<>>
  <2>1. \E s \in DOMAIN spans : Missing(spans[s]) # {}
    BY WhatIsAsked
  <2> QED
    BY <2>1 DEF InputInv, Reading, Asked
<1>2. PICK own : OwnedBy(own, need, Len(spans))
  BY <1>1, RequestsOwned
<1> QED
  BY <1>1, <1>2, TwoSpansKeepTaken, InOrderKeepsTaken

(* What an absorb takes of what was asked for is in the store.             *)
LEMMA TakenStored ==
  ASSUME InputInv, StreamInv, RandomInv, use # "mixed", kind # "none",
         author = "running", pc = "need" \/ pc = "idle", Len(spans) <= 2 \/ InOrder,
         NEW i \in Inputs, NEW from \in Nat, NEW got \in Absorbed(i, from),
         use = "stream" => \/ i.offset + from = front
                           \/ kind = "seq" /\ i.offset + from = need[1].offset
  PROVE  /\ held \subseteq got.held
         /\ \A j \in DOMAIN need : \A q \in BytesOf(need[j]) :
              need[j].kind # "Len" /\ i.offset + from <= q /\ q < got.taken
                => q \in got.held
<1>1. held \subseteq got.held
  BY AbsorbedKeeps DEF InputInv, Typed
<1>2. Waiting \/ pc = "need"
  BY DEF Waiting
<1> SUFFICES ASSUME NEW j \in DOMAIN need, NEW q \in BytesOf(need[j]),
                    need[j].kind # "Len", i.offset + from <= q, q < got.taken
             PROVE  q \in got.held
  BY <1>1
<1>3. CASE kind = "len"
  <2>1. need = <<Request("Len", 0, 0)>>
    BY <1>2, <1>3, WhatIsAsked
  <2> QED
    BY <2>1 DEF Request
<1>4. CASE kind = "seq"
  <2>1. use = "stream"
    BY <1>4 DEF InputInv, Typed, Reading
  <2>2. PICK e \in Nat : need = <<Request("AtLeast", Greater(front, cursor), e)>>
    BY <1>2, <1>4, <2>1, StreamAsks
  <2>3. got.taken \in Nat /\ got.held = cursor .. got.taken - 1
    BY <2>1, StreamAbsorbs
  <2>4. front \in Nat /\ cursor \in Nat
    BY DEF InputInv, Typed
  <2>5. need[j].offset = Greater(front, cursor) /\ need[j].end = e
    BY <2>2 DEF Request
  <2>6. q \in Nat /\ cursor <= q
    BY <2>4, <2>5 DEF BytesOf, Greater
  <2> QED
    BY <2>3, <2>4, <2>6
<1>5. CASE kind = "at"
  <2>1. use = "random"
    BY <1>5 DEF InputInv, Typed, Reading
  <2> QED
    BY <1>2, <1>5, <2>1, RandomKeepsTaken
<1> QED
  BY <1>3, <1>4, <1>5 DEF InputInv, Reading

(* Unless reads are mixed, and unless a read has three spans or more of    *)
(* which one reaches into an earlier one from below, a byte that was asked *)
(* for is in the store from the moment it is consumed until its read       *)
(* completes: nothing has to be offered again.                             *)
THEOREM ConsumedIsStored == Spec => TakenIsKept
<1> DEFINE From == input'.offset + IF pc = "need" THEN consumed ELSE 0
           Taken == IF pc = "poll" THEN {} ELSE From .. input'.offset + consumed' - 1
           AskedFor == UNION {need[i].offset .. need[i].end - 1 :
                                i \in {k \in DOMAIN need : need[k].kind # "Len"}}
           Inv == InputInv /\ StreamInv /\ RandomInv
           Kept == kind # "none" /\ kind' = kind /\ use # "mixed"
                     /\ (Len(spans) <= 2 \/ InOrder) => AskedIsKept
<1>1. ASSUME Inv, Next, kind # "none", kind' = kind, use # "mixed",
             Len(spans) <= 2 \/ InOrder
      PROVE  AskedFor \cap Taken \subseteq held' /\ held \subseteq held'
  <2>1. ASSUME NEW i \in Inputs, NEW from \in Nat, NEW got \in Absorbed(i, from),
               author = "running", pc = "need" \/ pc = "idle",
               use = "stream" => \/ i.offset + from = front
                                 \/ kind = "seq" /\ i.offset + from = need[1].offset,
               held' = got.held, input' = i, consumed' = got.taken - i.offset,
               from = IF pc = "need" THEN consumed ELSE 0
        PROVE  AskedFor \cap Taken \subseteq held' /\ held \subseteq held'
    <3>1. /\ held \subseteq got.held
          /\ \A j \in DOMAIN need : \A q \in BytesOf(need[j]) :
               need[j].kind # "Len" /\ i.offset + from <= q /\ q < got.taken
                 => q \in got.held
      BY <1>1, <2>1, TakenStored
    <3>2. got.taken \in Nat /\ i.offset \in Nat
      BY <1>1, <2>1, AbsorbedKeeps DEF InputInv, Typed, Accs, Inputs
    <3>3. Taken = i.offset + from .. got.taken - 1
      BY <2>1, <3>2
    <3>4. ASSUME NEW q \in AskedFor, q \in Taken PROVE q \in got.held
      <4>1. PICK j \in DOMAIN need : need[j].kind # "Len" /\ q \in BytesOf(need[j])
        BY DEF BytesOf
      <4>2. q \in Int /\ i.offset + from <= q /\ q < got.taken
        BY <2>1, <3>2, <3>3, <3>4
      <4> QED
        BY <3>1, <4>1, <4>2
    <3> HIDE DEF Taken, AskedFor
    <3> QED
      BY <2>1, <3>1, <3>4
  <2>2. ASSUME NEW S \in SUBSET Inputs, Offer(S)
        PROVE  AskedFor \cap Taken \subseteq held' /\ held \subseteq held'
    <3>1. PICK got \in Absorbed(input', 0) :
            held' = got.held /\ consumed' = got.taken - input'.offset
      BY <2>2 DEF Offer
    <3>2. /\ input' \in Inputs /\ pc = "idle" /\ author = "running"
          /\ use = "stream" => \/ input'.offset = front
                               \/ \E k \in DOMAIN need : need[k].kind = "AtLeast"
                                          /\ input'.offset = need[k].offset
      BY <2>2 DEF Offer
    <3>3. input'.offset + 0 = input'.offset
      BY <3>2 DEF Inputs
    <3>4. use = "stream" => \/ input'.offset + 0 = front
                            \/ kind = "seq" /\ input'.offset + 0 = need[1].offset
      BY <1>1, <3>2, <3>3, StreamPosition
    <3> HIDE DEF Taken, AskedFor
    <3> QED
      BY <2>1, <3>1, <3>2, <3>4
  <2>3. CASE NeedMore
    <3>1. PICK got \in Absorbed(input, consumed) :
            held' = got.held /\ consumed' = got.taken - input.offset
      BY <2>3 DEF NeedMore
    <3>2. /\ input \in Inputs /\ consumed \in Nat /\ pc = "need" /\ input' = input
          /\ author = "running"
      BY <1>1, <2>3 DEF NeedMore, InputInv, Typed, Asked
    <3>3. use = "stream" => input.offset + consumed = front
      BY <1>1 DEF StreamInv
    <3> HIDE DEF Taken, AskedFor
    <3> QED
      BY <2>1, <3>1, <3>2, <3>3
  <2>4. CASE ReadWaits \/ ReadFails
    <3>1. pc = "poll" /\ held' = held
      BY <2>4 DEF ReadWaits, ReadFails, Polls
    <3> QED
      BY <3>1
  <2>5. ~(ReadExact \/ ReadAt \/ Seek \/ AskLen \/ ReadReady \/ Return)
    BY <1>1 DEF ReadExact, ReadAt, Seek, AskLen, Calls, ReadReady, Return
  <2> QED
    BY <1>1, <2>2, <2>3, <2>4, <2>5, Offers2 DEF Next, Offering
<1>2. Inv /\ Next => Kept
  BY <1>1 DEF AskedIsKept
<1>3. Init => Inv
  BY InitInputInv DEF Init, StreamInv, RandomInv
<1>4. Inv /\ [Next]_vars => Inv'
  BY StepInputInv, StreamKept, RandomKept
<1> HIDE DEF Inv
<1> QED
  BY <1>2, <1>3, <1>4, PTL DEF Spec, TakenIsKept
=============================================================================
