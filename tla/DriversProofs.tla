---------------------------- MODULE DriversProofs ----------------------------
(***************************************************************************)
(* The theorems of Drivers: whatever the source, the stage, the limits and *)
(* the requests, the four safety invariants its runs check.                *)
(*                                                                         *)
(* First sums and least elements, and IInv, the inductive invariant.  Then *)
(* what the operators the cursors are built from promise: the window       *)
(* (InputWindow), the fetched ranges, the plan of a round and its          *)
(* allocations (Admission), the buffered source (BufferedSource).  Then    *)
(* one lemma for each action, and the theorems.                            *)
(*                                                                         *)
(* A fold is a CHOOSE of a recursive function on sets of indices; each of  *)
(* the folds of the model is shown to be a run of its step (Runs), and its *)
(* invariant to hold after every index.                                    *)
(***************************************************************************)
EXTENDS Drivers, FiniteSetTheorems, WellFoundedInduction, SequenceTheorems, TLAPS

(* A set of natural numbers that is not empty has a least element.         *)
LEMMA LeastNumber ==
  \A T \in SUBSET Nat : T # {} => \E m \in T : \A k \in T : m <= k
<1> SUFFICES ASSUME NEW T \in SUBSET Nat, T # {}
             PROVE  \E m \in T : \A k \in T : m <= k
  OBVIOUS
<1> DEFINE R == {ss \in Nat \X Nat : ss[1] < ss[2]}
<1>1. OpToRel(<, Nat) = R
  BY DEF OpToRel
<1>2. IsWellFoundedOn(R, Nat)
  BY <1>1, NatLessThanWellFounded
<1>3. PICK m \in T : \A y \in T : ~(<<y, m>> \in R)
  BY <1>2, WFMin
<1>4. ASSUME NEW k \in T PROVE m <= k
  <2>1. k \in Nat /\ m \in Nat /\ <<k, m>> \in Nat \X Nat
    OBVIOUS
  <2>2. <<k, m>>[1] = k /\ <<k, m>>[2] = m
    OBVIOUS
  <2>3. ~(k < m)
    BY <1>3, <2>1, <2>2
  <2> QED
    BY <2>1, <2>3
<1> QED
  BY <1>3, <1>4

(* What holds of 0, and of a number when it holds of the one before, holds *)
(* of every number up to n.                                                *)
LEMMA Upto ==
  ASSUME NEW n \in Nat, NEW P, 0 \in P, \A k \in 1..n : k - 1 \in P => k \in P
  PROVE  \A k \in 0..n : k \in P
<1> DEFINE T == {k \in 0..n : k \notin P}
<1> SUFFICES ASSUME T # {} PROVE FALSE
  OBVIOUS
<1>1. T \in SUBSET Nat
  OBVIOUS
<1>2. PICK m \in T : \A k \in T : m <= k
  <2> HIDE DEF T
  <2> QED
    BY <1>1, LeastNumber
<1>3. m \in 1..n /\ m - 1 \in 0..n
  BY <1>2
<1>4. m - 1 \in P
  BY <1>2, <1>3
<1> QED
  BY <1>2, <1>3, <1>4

(* Min and Max of the numbers that have them.                              *)
LEMMA MinIsLeast ==
  ASSUME NEW S \in SUBSET Nat, S # {}
  PROVE  Min(S) \in S /\ \A x \in S : Min(S) <= x
<1>1. \E m \in S : \A x \in S : m <= x
  BY LeastNumber
<1> QED
  BY <1>1 DEF Min

(* The greatest of a set of indices, when it is the bound.                 *)
LEMMA MaxOf ==
  ASSUME NEW k \in Nat, NEW s \in SUBSET (1..k), k \in s PROVE Max(s) = k
<1>1. k \in s /\ \A y \in s : k >= y
  OBVIOUS
<1>2. ASSUME NEW x \in s, \A y \in s : x >= y PROVE x = k
  <2>1. x >= k /\ k >= x /\ x \in Nat
    BY <1>1, <1>2
  <2> QED
    BY <2>1
<1> QED
  BY <1>1, <1>2 DEF Max

(* Some member of a set of numbers that are not all above n is the         *)
(* greatest of them.                                                       *)
LEMMA MaxIsGreatest ==
  ASSUME NEW n \in Nat, NEW S \in SUBSET (1..n), S # {}
  PROVE  Max(S) \in S /\ \A x \in S : x <= Max(S)
<1> DEFINE T == {n - x : x \in S}
<1>1. T \in SUBSET Nat /\ T # {}
  <2>1. \A x \in S : n - x \in Nat
    OBVIOUS
  <2> QED
    BY <2>1
<1>2. PICK m \in T : \A k \in T : m <= k
  <2> HIDE DEF T
  <2> QED
    BY <1>1, LeastNumber
<1>3. PICK x \in S : m = n - x
  BY <1>2
<1>4. \A y \in S : x >= y
  <2> TAKE y \in S
  <2>1. n - y \in T
    OBVIOUS
  <2>2. m <= n - y
    BY <1>2, <2>1
  <2> QED
    BY <1>3, <2>2
<1>5. \E z \in S : \A y \in S : z >= y
  BY <1>4
<1>6. Max(S) \in S /\ \A y \in S : Max(S) >= y
  BY <1>5 DEF Max
<1> QED
  BY <1>6

(* A set without the number above it is one of the numbers below.          *)
LEMMA Below ==
  ASSUME NEW k \in Nat \ {0}, NEW s \in SUBSET (1..k)
  PROVE  s \ {k} \in SUBSET (1..(k - 1))
OBVIOUS

-----------------------------------------------------------------------------
(* Folds.  step is what the fold does to its value for an index.           *)

Recursion(g, base, step, n) ==
  g = [s \in SUBSET (1..n) |->
         IF s = {} THEN base ELSE step[<<g[s \ {Max(s)}], Max(s)>>]]

(* The recursion of a fold over n indices has a solution.                  *)
LEMMA FoldExists ==
  ASSUME NEW S, NEW n \in Nat, NEW base \in S, NEW step \in [S \X (1..n) -> S]
  PROVE  \E g \in [SUBSET (1..n) -> S] : Recursion(g, base, step, n)
<1> DEFINE P == {k \in 0..n : \E g \in [SUBSET (1..k) -> S] : Recursion(g, base, step, k)}
<1>1. 0 \in P
  <2> DEFINE g == [s \in SUBSET (1..0) |-> base]
  <2>1. \A s \in SUBSET (1..0) : s = {}
    OBVIOUS
  <2>2. g = [s \in SUBSET (1..0) |->
               IF s = {} THEN base ELSE step[<<g[s \ {Max(s)}], Max(s)>>]]
    BY <2>1
  <2>3. g \in [SUBSET (1..0) -> S]
    OBVIOUS
  <2> HIDE DEF g
  <2>4. Recursion(g, base, step, 0)
    BY <2>2 DEF Recursion
  <2>5. \E f \in [SUBSET (1..0) -> S] : Recursion(f, base, step, 0)
    BY <2>3, <2>4
  <2>6. 0 \in 0..n
    OBVIOUS
  <2> QED
    BY <2>5, <2>6
<1>2. ASSUME NEW k \in 1..n, k - 1 \in P PROVE k \in P
  <2>1. PICK g \in [SUBSET (1..(k - 1)) -> S] : Recursion(g, base, step, k - 1)
    BY <1>2
  <2> DEFINE h == [s \in SUBSET (1..k) |->
                     IF k \in s THEN step[<<g[s \ {k}], k>>] ELSE g[s]]
  <2>2. ASSUME NEW s \in SUBSET (1..k)
        PROVE  /\ h[s] \in S
               /\ h[s] = IF s = {} THEN base ELSE step[<<h[s \ {Max(s)}], Max(s)>>]
    <3>1. CASE k \in s
      <4>1. Max(s) = k /\ s \ {k} \in SUBSET (1..k) /\ k \notin s \ {k}
            /\ s \ {k} \in SUBSET (1..(k - 1))
        BY <3>1, MaxOf, Below
      <4>2. h[s \ {k}] = g[s \ {k}] /\ g[s \ {k}] \in S
        BY <4>1
      <4>3. h[s] = step[<<g[s \ {k}], k>>]
        BY <3>1
      <4>4. step[<<g[s \ {k}], k>>] \in S
        BY <4>2
      <4> QED
        BY <3>1, <4>1, <4>2, <4>3, <4>4
    <3>2. CASE k \notin s
      <4>0. s \in SUBSET (1..(k - 1))
        <5>1. s \ {k} = s /\ k \in Nat \ {0}
          BY <3>2
        <5> QED
          BY <5>1, Below
      <4>1. /\ s \in SUBSET (1..(k - 1)) /\ s \ {Max(s)} \in SUBSET (1..(k - 1))
            /\ s \ {Max(s)} \in SUBSET (1..k) /\ k \notin s \ {Max(s)}
        <5>1. \A t \in SUBSET s : t \in SUBSET (1..(k - 1)) /\ t \in SUBSET (1..k) /\ k \notin t
          BY <3>2, <4>0
        <5>2. s \ {Max(s)} \in SUBSET s
          OBVIOUS
        <5> QED
          BY <4>0, <5>1, <5>2
      <4>2. h[s] = g[s] /\ h[s \ {Max(s)}] = g[s \ {Max(s)}]
        BY <3>2, <4>1
      <4>3. g[s] = IF s = {} THEN base ELSE step[<<g[s \ {Max(s)}], Max(s)>>]
        <5>1. g = [t \in SUBSET (1..(k - 1)) |->
                     IF t = {} THEN base ELSE step[<<g[t \ {Max(t)}], Max(t)>>]]
          BY <2>1 DEF Recursion
        <5> QED
          BY <4>1, <5>1
      <4>4. g[s] \in S
        BY <4>1
      <4> QED
        BY <4>2, <4>3, <4>4
    <3> QED
      BY <3>1, <3>2
  <2>3. h = [s \in SUBSET (1..k) |-> h[s]]
    OBVIOUS
  <2> HIDE DEF h
  <2>4. h = [s \in SUBSET (1..k) |->
               IF s = {} THEN base ELSE step[<<h[s \ {Max(s)}], Max(s)>>]]
    BY <2>2, <2>3
  <2>5. h \in [SUBSET (1..k) -> S]
    BY <2>2, <2>3
  <2>6. Recursion(h, base, step, k)
    BY <2>4 DEF Recursion
  <2> QED
    BY <2>5, <2>6
<1> HIDE DEF P
<1>3. n \in P
  BY <1>1, <1>2, Upto
<1> QED
  BY <1>3 DEF P

(* A number for each set is a number for each prefix.                      *)
LEMMA PrefixSets ==
  ASSUME NEW n \in Nat, NEW k \in 1..n
  PROVE  /\ 1..k \in SUBSET (1..n) /\ 1..k # {} /\ Max(1..k) = k
         /\ (1..k) \ {k} = 1..(k - 1) /\ 1..(k - 1) \in SUBSET (1..n)
<1>1. k \in 1..k /\ 1..k \in SUBSET (1..k)
  OBVIOUS
<1>2. Max(1..k) = k
  BY <1>1, MaxOf
<1> QED
  BY <1>1, <1>2

-----------------------------------------------------------------------------
(* Sums of numbers.                                                        *)

SumsTo(c, a) ==
  /\ a \in [0..Len(c) -> Int] /\ a[0] = 0
  /\ \A k \in 1..Len(c) : a[k] = a[k - 1] + c[k]

Total(c) == (CHOOSE a : SumsTo(c, a))[Len(c)]

(* Sums exist and are natural numbers.                                     *)
LEMMA SumExists ==
  ASSUME NEW c \in Seq(Nat)
  PROVE  \E a \in [0..Len(c) -> Nat] : SumsTo(c, a)
<1> DEFINE n == Len(c)
           step == [x \in Nat \X (1..n) |-> x[1] + c[x[2]]]
<1>1. n \in Nat /\ \A k \in 1..n : c[k] \in Nat
  OBVIOUS
<1>2. step \in [Nat \X (1..n) -> Nat]
  <2>1. \A x \in Nat \X (1..n) : x[1] \in Nat /\ c[x[2]] \in Nat
    BY <1>1
  <2> QED
    BY <2>1
<1>3. \A x \in Nat, k \in 1..n : step[<<x, k>>] = x + c[k]
  OBVIOUS
<1> HIDE DEF step, n
<1>4. PICK g \in [SUBSET (1..n) -> Nat] : Recursion(g, 0, step, n)
  BY <1>1, <1>2, FoldExists
<1> DEFINE a == [k \in 0..n |-> g[1..k]]
<1>5. a \in [0..n -> Nat]
  <2>1. \A k \in 0..n : 1..k \in SUBSET (1..n)
    BY <1>1
  <2> QED
    BY <2>1
<1>6. g[{}] = 0
  BY <1>4 DEF Recursion
<1>7. a[0] = 0
  <2>1. 1..0 = {} /\ 0 \in 0..n
    BY <1>1
  <2> QED
    BY <1>6, <2>1
<1>8. ASSUME NEW k \in 1..n PROVE a[k] = a[k - 1] + c[k]
  <2>1. /\ 1..k \in SUBSET (1..n) /\ 1..k # {} /\ Max(1..k) = k
        /\ (1..k) \ {k} = 1..(k - 1)
    BY <1>1, PrefixSets
  <2>2. g[1..k] = step[<<g[1..(k - 1)], k>>]
    BY <1>4, <2>1 DEF Recursion
  <2>3. k \in 0..n /\ k - 1 \in 0..n
    BY <1>1
  <2>4. a[k] = g[1..k] /\ a[k - 1] = g[1..(k - 1)] /\ a[k - 1] \in Nat
    BY <1>5, <2>3
  <2> QED
    BY <1>3, <2>2, <2>4
<1> HIDE DEF a
<1>9. SumsTo(c, a)
  <2>1. a \in [0..n -> Int]
    BY <1>5
  <2> QED
    BY <1>7, <1>8, <2>1 DEF SumsTo, n
<1> QED
  BY <1>5, <1>9 DEF n

(* The sums of a sequence are determined by it, so Total is the last one.  *)
LEMMA TotalIs ==
  ASSUME NEW c \in Seq(Nat), NEW a, SumsTo(c, a)
  PROVE  Total(c) = a[Len(c)] /\ Total(c) \in Nat
<1> DEFINE n == Len(c)
<1>1. n \in Nat /\ \A k \in 1..n : c[k] \in Nat
  OBVIOUS
<1>2. ASSUME NEW p, NEW q, SumsTo(c, p), SumsTo(c, q) PROVE p[n] = q[n]
  <2> DEFINE P == {k \in 0..n : p[k] = q[k]}
  <2>1. 0 \in P
    BY <1>1, <1>2 DEF SumsTo
  <2>2. ASSUME NEW k \in 1..n, k - 1 \in P PROVE k \in P
    <3>1. p[k] = p[k - 1] + c[k] /\ q[k] = q[k - 1] + c[k]
      BY <1>2 DEF SumsTo
    <3>2. k \in 0..n /\ p[k - 1] = q[k - 1]
      BY <1>1, <2>2
    <3> QED
      BY <3>1, <3>2
  <2> HIDE DEF P, n
  <2>3. \A k \in 0..n : k \in P
    <3>1. n \in Nat
      BY <1>1
    <3> QED
      BY <2>1, <2>2, <3>1, Upto
  <2>4. n \in P
    BY <1>1, <2>3
  <2> QED
    BY <2>4 DEF P
<1>3. PICK b \in [0..n -> Nat] : SumsTo(c, b)
  BY SumExists
<1> DEFINE d == CHOOSE x : SumsTo(c, x)
<1>4. SumsTo(c, d)
  BY <1>3
<1>5. Total(c) = d[n]
  BY DEF Total
<1> HIDE DEF d, n
<1>6. d[n] = a[n] /\ d[n] = b[n]
  BY <1>2, <1>3, <1>4
<1>7. b[n] \in Nat
  BY <1>1, <1>3
<1> QED
  BY <1>5, <1>6, <1>7 DEF n

(* A sum of numbers is a number; of none, zero.                            *)
LEMMA TotalNat ==
  ASSUME NEW c \in Seq(Nat)
  PROVE  Total(c) \in Nat /\ (Len(c) = 0 => Total(c) = 0)
<1>1. PICK a \in [0..Len(c) -> Nat] : SumsTo(c, a)
  BY SumExists
<1>2. Total(c) = a[Len(c)] /\ Total(c) \in Nat
  BY <1>1, TotalIs
<1> QED
  BY <1>1, <1>2 DEF SumsTo

(* d is c with v put in at i.                                              *)
LEMMA TotalInserted ==
  ASSUME NEW c \in Seq(Nat), NEW d \in Seq(Nat), NEW i \in 1..(Len(c) + 1), NEW v \in Nat,
         Len(d) = Len(c) + 1, d[i] = v,
         \A j \in 1..(i - 1) : d[j] = c[j],
         \A j \in (i + 1)..Len(d) : d[j] = c[j - 1]
  PROVE  Total(d) = Total(c) + v
<1> DEFINE n == Len(c)
<1>0. n \in Nat /\ Len(d) = n + 1 /\ i \in 1..(n + 1)
  OBVIOUS
<1>1. PICK a \in [0..n -> Nat] : SumsTo(c, a)
  BY SumExists
<1>2. a[0] = 0 /\ \A k \in 1..n : a[k] = a[k - 1] + c[k]
  BY <1>1 DEF SumsTo
<1>v. \A j \in 1..n : c[j] \in Nat
  OBVIOUS
<1> HIDE DEF n
<1> DEFINE b == [k \in 0..(n + 1) |-> IF k < i THEN a[k] ELSE a[k - 1] + v]
<1>3. b \in [0..(n + 1) -> Int]
  <2> SUFFICES ASSUME NEW k \in 0..(n + 1)
               PROVE  (IF k < i THEN a[k] ELSE a[k - 1] + v) \in Int
    OBVIOUS
  <2>1. CASE k < i
    <3>1. k \in 0..n
      BY <1>0, <2>1
    <3> QED
      BY <2>1, <3>1
  <2>2. CASE ~(k < i)
    <3>1. k - 1 \in 0..n
      BY <1>0, <2>2
    <3>2. a[k - 1] \in Nat
      BY <3>1
    <3> QED
      BY <2>2, <3>2
  <2> QED
    BY <2>1, <2>2
<1>4. b[0] = 0
  BY <1>0, <1>2
<1>5. ASSUME NEW k \in 1..(n + 1) PROVE b[k] = b[k - 1] + d[k]
  <2>0. k \in 0..(n + 1) /\ k - 1 \in 0..(n + 1) /\ k \in Int /\ i \in Int
    BY <1>0
  <2>1. CASE k < i
    <3>1. k \in 1..n /\ k - 1 < i /\ k \in 1..(i - 1)
      BY <1>0, <2>1
    <3>2. b[k] = a[k] /\ b[k - 1] = a[k - 1] /\ d[k] = c[k]
      BY <2>0, <2>1, <3>1
    <3> QED
      BY <1>2, <3>1, <3>2
  <2>2. CASE k = i
    <3>1. b[k] = a[k - 1] + v /\ b[k - 1] = a[k - 1]
      BY <2>0, <2>2
    <3> QED
      BY <2>2, <3>1
  <2>3. CASE k > i
    <3>1. k - 1 \in 1..n /\ ~(k - 1 < i) /\ ~(k < i) /\ k \in (i + 1)..Len(d)
          /\ (k - 1) - 1 \in 0..n
      BY <1>0, <2>3
    <3>2. b[k] = a[k - 1] + v /\ b[k - 1] = a[(k - 1) - 1] + v /\ d[k] = c[k - 1]
      BY <2>0, <3>1
    <3>3. a[k - 1] = a[(k - 1) - 1] + c[k - 1]
      BY <1>2, <3>1
    <3>4. a[(k - 1) - 1] \in Nat /\ c[k - 1] \in Nat
      BY <1>v, <3>1
    <3> HIDE DEF b
    <3> QED
      BY <3>2, <3>3, <3>4
  <2> QED
    BY <2>0, <2>1, <2>2, <2>3
<1>6. SumsTo(d, b)
  <2> HIDE DEF b
  <2> QED
    BY <1>0, <1>3, <1>4, <1>5 DEF SumsTo
<1>7. b[n + 1] = a[n] + v
  <2>1. ~(n + 1 < i) /\ n + 1 \in 0..(n + 1) /\ (n + 1) - 1 = n
    BY <1>0
  <2> QED
    BY <2>1
<1> HIDE DEF b
<1>8. Total(d) = b[n + 1]
  BY <1>0, <1>6, TotalIs
<1>9. Total(c) = a[n]
  BY <1>1, TotalIs DEF n
<1> QED
  BY <1>7, <1>8, <1>9

(* d is c but at i.                                                        *)
LEMMA TotalUpdated ==
  ASSUME NEW c \in Seq(Nat), NEW d \in Seq(Nat), NEW i \in 1..Len(c),
         Len(d) = Len(c),
         \A j \in 1..Len(c) : j # i => d[j] = c[j]
  PROVE  Total(d) = Total(c) - c[i] + d[i]
<1> DEFINE n == Len(c)
<1>0. n \in Nat /\ Len(d) = n /\ i \in 1..n /\ c[i] \in Nat /\ d[i] \in Nat
  OBVIOUS
<1>1. PICK a \in [0..n -> Nat] : SumsTo(c, a)
  BY SumExists
<1>2. a[0] = 0 /\ \A k \in 1..n : a[k] = a[k - 1] + c[k]
  BY <1>1 DEF SumsTo
<1>w. \A j \in 1..n : j # i => d[j] = c[j]
  OBVIOUS
<1>v. \A j \in 1..n : c[j] \in Nat
  OBVIOUS
<1> HIDE DEF n
<1> DEFINE b == [k \in 0..n |-> IF k < i THEN a[k] ELSE a[k] - c[i] + d[i]]
<1>3. b \in [0..n -> Int]
  <2> SUFFICES ASSUME NEW k \in 0..n
               PROVE  (IF k < i THEN a[k] ELSE a[k] - c[i] + d[i]) \in Int
    OBVIOUS
  <2>1. a[k] \in Nat
    OBVIOUS
  <2> QED
    BY <1>0, <2>1
<1>4. b[0] = 0
  BY <1>0, <1>2
<1>5. ASSUME NEW k \in 1..n PROVE b[k] = b[k - 1] + d[k]
  <2>0. k \in 0..n /\ k - 1 \in 0..n /\ k \in Int /\ i \in Int
        /\ a[k] = a[k - 1] + c[k] /\ a[k - 1] \in Nat /\ c[k] \in Nat
    <3>1. k \in 0..n /\ k - 1 \in 0..n /\ k \in Int /\ i \in Int
      BY <1>0
    <3>2. a[k] = a[k - 1] + c[k] /\ c[k] \in Nat
      BY <1>2, <1>v
    <3>3. a[k - 1] \in Nat
      BY <1>1, <3>1
    <3> QED
      BY <3>1, <3>2, <3>3
  <2>1. CASE k < i
    <3>1. k - 1 < i /\ k # i
      BY <1>0, <2>0, <2>1
    <3>2. b[k] = a[k] /\ b[k - 1] = a[k - 1] /\ d[k] = c[k]
      BY <1>w, <2>0, <2>1, <3>1
    <3> QED
      BY <2>0, <3>2
  <2>2. CASE k = i
    <3>1. b[k] = a[k] - c[i] + d[i] /\ b[k - 1] = a[k - 1]
      BY <2>0, <2>2
    <3> QED
      BY <1>0, <2>0, <2>2, <3>1
  <2>3. CASE k > i
    <3>1. ~(k - 1 < i) /\ ~(k < i) /\ k # i
      BY <1>0, <2>0, <2>3
    <3>2. b[k] = a[k] - c[i] + d[i] /\ b[k - 1] = a[k - 1] - c[i] + d[i] /\ d[k] = c[k]
      BY <1>w, <2>0, <3>1
    <3>3. d[i] \in Int /\ c[i] \in Int
      BY <1>0
    <3>4. a[k - 1] \in Int /\ c[k] \in Int /\ a[k] = a[k - 1] + c[k]
      BY <2>0
    <3> DEFINE x == a[k - 1]
               y == c[k]
               e == c[i]
               u == d[i]
    <3>5. x \in Int /\ y \in Int /\ e \in Int /\ u \in Int
      BY <3>3, <3>4
    <3>6. b[k] = (x + y) - e + u /\ b[k - 1] = x - e + u /\ d[k] = y
      BY <3>2, <3>4
    <3> HIDE DEF b, x, y, e, u
    <3>7. (x + y) - e + u = (x - e + u) + y
      BY <3>5
    <3> QED
      BY <3>6, <3>7
  <2> QED
    BY <2>0, <2>1, <2>2, <2>3
<1>6. SumsTo(d, b)
  <2> HIDE DEF b
  <2> QED
    BY <1>0, <1>3, <1>4, <1>5 DEF SumsTo
<1>7. b[n] = a[n] - c[i] + d[i]
  <2>1. ~(n < i) /\ n \in 0..n
    BY <1>0
  <2> QED
    BY <2>1
<1> HIDE DEF b
<1>8. Total(d) = b[n]
  BY <1>0, <1>6, TotalIs
<1>9. Total(c) = a[n]
  BY <1>1, TotalIs DEF n
<1> QED
  BY <1>7, <1>8, <1>9

(* c without its i-th number, the last one in its place.                   *)
LEMMA TotalRemoved ==
  ASSUME NEW c \in Seq(Nat), NEW d \in Seq(Nat), NEW i \in 1..Len(c),
         Len(d) = Len(c) - 1,
         \A j \in 1..Len(d) : d[j] = IF j = i THEN c[Len(c)] ELSE c[j]
  PROVE  Total(d) = Total(c) - c[i]
<1> DEFINE n == Len(c)
           v == c[n]
           e == [j \in 1..n |-> IF j = i THEN v ELSE c[j]]
<1>0. n \in Nat /\ n >= 1 /\ v \in Nat /\ c[i] \in Nat /\ i \in 1..n /\ Len(d) = n - 1
  OBVIOUS
<1>1. e \in Seq(Nat) /\ Len(e) = n /\ \A j \in 1..n : e[j] = IF j = i THEN v ELSE c[j]
  <2>1. \A j \in 1..n : (IF j = i THEN v ELSE c[j]) \in Nat
    BY <1>0
  <2> QED
    BY <1>0, <2>1
<1>1w. \A j \in 1..(n - 1) : d[j] = IF j = i THEN v ELSE c[j]
  BY <1>0
<1> HIDE DEF e, v
<1>2. Total(e) = Total(c) - c[i] + e[i]
  BY <1>0, <1>1, TotalUpdated DEF n
<1>3. e[i] = v /\ e[n] = v
  BY <1>0, <1>1 DEF v
<1>4. Total(e) = Total(d) + v
  <2>1. \A j \in 1..(n - 1) : e[j] = d[j]
    BY <1>0, <1>1, <1>1w
  <2>2. n \in 1..(Len(d) + 1) /\ Len(e) = Len(d) + 1
    BY <1>0, <1>1
  <2>3. \A j \in (n + 1)..Len(e) : e[j] = d[j - 1]
    BY <1>0, <1>1
  <2> HIDE DEF n
  <2> QED
    BY <1>0, <1>1, <1>3, <2>1, <2>2, <2>3, TotalInserted
<1>5. Total(c) \in Nat /\ Total(d) \in Nat
  BY TotalNat
<1> HIDE DEF n
<1> QED
  BY <1>0, <1>2, <1>3, <1>4, <1>5

-----------------------------------------------------------------------------
(* The inductive invariant.                                                *)

Cells      == Nat \cup {Zero}
Totals     == Nat \cup {Unknown}
RequestSet == Requests(Nat, Nat)
Asked      == UNION {{a[i] : i \in DOMAIN a} : a \in RequestLists}

(* A window: what it holds is the source's bytes at base and behind.       *)
WindowSet == [buf : Seq(Cells), cap : Nat, head : Nat, end : Nat, base : Nat,
              total : Totals]

WindowOK(w) ==
  /\ w \in WindowSet
  /\ w.head <= w.end /\ w.end <= Len(w.buf) /\ Len(w.buf) <= w.cap
  /\ \A k \in (w.head + 1)..w.end : w.buf[k] = w.base + (k - w.head) - 1

TotalOK(w) == w.total # Unknown => w.total >= Length

(* A fetched range: the source's bytes, in an allocation that is charged.  *)
RangeSet == [off : Nat, cap : Nat, bytes : Seq(Cells)]

RangeOK(f) ==
  /\ f \in RangeSet
  /\ Len(f.bytes) <= f.cap
  /\ \A k \in 1..Len(f.bytes) : f.bytes[k] = f.off + k - 1

FetchedOK(ranges) ==
  ranges \in Seq(RangeSet) /\ \A i \in 1..Len(ranges) : RangeOK(ranges[i])

(* A buffered source: what it keeps is the source's bytes from start up to *)
(* its mark, but for the one byte a spool read and could not keep.         *)
SourceSet == [policy : {"window", "spool"}, cap : Nat, chunk : Nat \ {0},
              buf : Seq(Cells), start : Nat, mark : Nat, eof : BOOLEAN,
              exceeded : BOOLEAN]

SourceOK(s) ==
  /\ s \in SourceSet
  /\ Len(s.buf) <= s.cap /\ s.mark <= Length
  /\ s.start + Len(s.buf) <= s.mark
  /\ ~s.exceeded => s.start + Len(s.buf) = s.mark
  /\ \A k \in 1..Len(s.buf) : s.buf[k] = s.start + k - 1
  /\ s.eof => s.mark = Length

Typed ==
  /\ driver \in {"slice", "random", "buffered", "stream", "async"} /\ inFlight \in Nat
  /\ span \in (Nat \X Nat) /\ pos \in 0..Length
  /\ pc \in {"step", "serve", "skip", "fill"}

(* What the stage asked for: served in turn, one of them at a time.        *)
Asking ==
  /\ reqs \in Seq(RequestSet) /\ \A i \in 1..Len(reqs) : reqs[i] \in Asked
  /\ goal = None \/ (goal \in Asked /\ goal \in RequestSet)
  /\ pc = "serve" => Len(reqs) > 0
  /\ pc = "serve" /\ driver = "slice" =>
       \A i \in 1..Len(reqs) : ~PastEnd(reqs[i], Length)

Backed ==
  /\ driver = "buffered" => SourceOK(src)
  /\ driver # "buffered" => src = None

Stored ==
  /\ WindowOK(win) /\ TotalOK(win)
  /\ FetchedOK(fetched)
  /\ driver \in {"slice", "stream"} => fetched = <<>>

(* A fetched range on offer exists, and only two cursors offer one.        *)
Offering ==
  using # None => /\ driver \in {"random", "buffered"}
                  /\ using \in Nat \X Nat
                  /\ using[1] \in 1..Len(fetched)
                  /\ using[2] \in 0..Len(fetched[using[1]].bytes)

WithinLimits ==
  win.cap + Capacity(fetched) <= Limit

(* A stream's window ends where the stream is, and knows only its end.     *)
Streaming ==
  driver = "stream" => /\ EndOf(win) = pos
                       /\ win.total # Unknown => win.total = Length /\ pos = Length

(* A request being read for fits the limit.  The window starts at it, or   *)
(* is on the way to it, or never gets there.                               *)
Reading ==
  pc \in {"skip", "fill"} =>
    /\ driver \in {"stream", "async"}
    /\ goal \in Asked /\ goal \in RequestSet /\ goal.kind # "len"
    /\ Greater(goal.len, 1) <= Limit
    /\ pc = "skip" => driver = "stream" /\ goal.off >= win.base
    /\ pc = "fill" => \/ goal.off = win.base
                      \/ driver = "stream" /\ win.total # Unknown
                           /\ goal.off > EndOf(win)

IInv ==
  /\ Typed /\ Asking /\ Backed /\ Stored /\ Offering /\ WithinLimits
  /\ Streaming /\ Reading /\ ServedIsOffered

-----------------------------------------------------------------------------
(* The window.                                                             *)

(* What a window in order has, field by field.                             *)
LEMMA WindowFields ==
  ASSUME NEW w, WindowOK(w)
  PROVE  /\ w.buf \in Seq(Cells) /\ Len(w.buf) \in Nat /\ w.cap \in Nat /\ w.head \in Nat
         /\ w.end \in Nat /\ w.base \in Nat /\ w.total \in Totals
         /\ w.head <= w.end /\ w.end <= Len(w.buf) /\ Len(w.buf) <= w.cap
         /\ Held(w) = w.end - w.head /\ Held(w) \in Nat
         /\ EndOf(w) = w.base + Held(w) /\ EndOf(w) \in Nat
<1>1. /\ w.buf \in Seq(Cells) /\ w.cap \in Nat /\ w.head \in Nat
      /\ w.end \in Nat /\ w.base \in Nat /\ w.total \in Totals
      /\ w.head <= w.end /\ w.end <= Len(w.buf) /\ Len(w.buf) <= w.cap
  BY DEF WindowOK, WindowSet
<1>2. Held(w) = w.end - w.head /\ Held(w) \in Nat
  BY <1>1 DEF Held
<1>3. EndOf(w) = w.base + Held(w) /\ EndOf(w) \in Nat
  BY <1>1, <1>2 DEF EndOf
<1> QED
  BY <1>1, <1>2, <1>3

(* The lesser and the greater of two integers.                             *)
LEMMA LesserIs ==
  ASSUME NEW a \in Int, NEW b \in Int
  PROVE  /\ Lesser(a, b) \in {a, b} /\ Lesser(a, b) <= a /\ Lesser(a, b) <= b
         /\ Lesser(a, b) \in Int /\ Greater(a, b) \in Int
         /\ Greater(a, b) \in {a, b} /\ a <= Greater(a, b) /\ b <= Greater(a, b)
BY DEF Lesser, Greater

(* The window of a new cursor.                                             *)
LEMMA EmptyOK ==
  ASSUME NEW t \in Totals
  PROVE  LET v == [EmptyWindow EXCEPT !.total = t]
         IN WindowOK(v) /\ v.cap = 0 /\ v.total = t /\ v.base = 0 /\ Held(v) = 0
            /\ EndOf(v) = 0
<1> DEFINE v == [EmptyWindow EXCEPT !.total = t]
<1>1. /\ v \in WindowSet /\ v.buf = << >> /\ v.cap = 0 /\ v.head = 0 /\ v.end = 0
      /\ v.base = 0 /\ v.total = t
  <2>1. << >> \in Seq(Cells) /\ 0 \in Nat
    OBVIOUS
  <2>2. v = [buf |-> << >>, cap |-> 0, head |-> 0, end |-> 0, base |-> 0, total |-> t]
    BY DEF EmptyWindow
  <2> HIDE DEF v
  <2> QED
    BY <2>1, <2>2 DEF WindowSet
<1>2. Len(<< >>) = 0
  OBVIOUS
<1> HIDE DEF v
<1>3. WindowOK(v)
  BY <1>1, <1>2 DEF WindowOK
<1> QED
  BY <1>1, <1>3 DEF v, Held, EndOf

(* Consuming moves the window's start, and no byte it still holds.         *)
LEMMA ConsumeOK ==
  ASSUME NEW w, WindowOK(w), NEW n \in Nat
  PROVE  LET v == Consume(w, n)
             k == Lesser(n, Held(w))
         IN /\ WindowOK(v) /\ v.cap = w.cap /\ v.total = w.total /\ EndOf(v) = EndOf(w)
            /\ v.base = w.base + k /\ Held(v) = Held(w) - k /\ k \in Nat /\ k <= n
            /\ k <= Held(w)
<1> DEFINE v == Consume(w, n)
           k == Lesser(n, Held(w))
           emptied == w.head + k = w.end
           h == IF emptied THEN 0 ELSE w.head + k
           e == IF emptied THEN 0 ELSE w.end
<1>1. /\ w.buf \in Seq(Cells) /\ Len(w.buf) \in Nat /\ w.cap \in Nat /\ w.head \in Nat
      /\ w.end \in Nat /\ w.base \in Nat /\ w.total \in Totals
      /\ w.head <= w.end /\ w.end <= Len(w.buf) /\ Len(w.buf) <= w.cap
      /\ Held(w) = w.end - w.head /\ Held(w) \in Nat
      /\ EndOf(w) = w.base + Held(w) /\ EndOf(w) \in Nat
  BY WindowFields
<1>2. k \in Nat /\ k <= n /\ k <= Held(w)
  BY <1>1 DEF Lesser
<1> DEFINE l == Len(w.buf)
           d == Held(w)
<1> HIDE DEF k, l, d
<1>4. h \in Nat /\ e \in Nat /\ h <= e /\ e <= l /\ e - h = d - k /\ w.base + k \in Nat
  <2>1. /\ l \in Nat /\ w.head \in Nat /\ w.end \in Nat /\ w.base \in Nat /\ w.head <= w.end
        /\ w.end <= l /\ d = w.end - w.head /\ k \in Nat /\ k <= d
    BY <1>1, <1>2 DEF l, d
  <2>2. CASE emptied
    <3>1. h = 0 /\ e = 0
      BY <2>2
    <3> HIDE DEF h, e
    <3> QED
      BY <2>1, <2>2, <3>1
  <2>3. CASE ~emptied
    <3>1. h = w.head + k /\ e = w.end
      BY <2>3
    <3> HIDE DEF h, e
    <3> QED
      BY <2>1, <2>3, <3>1
  <2> QED
    BY <2>2, <2>3
<1>3. /\ v \in WindowSet /\ v.buf = w.buf /\ v.cap = w.cap /\ v.head = h /\ v.end = e
      /\ v.base = w.base + k /\ v.total = w.total
  <2>1. w \in WindowSet
    BY DEF WindowOK
  <2>2. v = [w EXCEPT !.base = w.base + k, !.head = h, !.end = e]
    BY DEF Consume, k
  <2> HIDE DEF v, h, e
  <2> QED
    BY <1>4, <2>1, <2>2 DEF WindowSet
<1> HIDE DEF v
<1>5. ASSUME NEW j \in (h + 1)..e PROVE w.buf[j] = (w.base + k) + (j - h) - 1
  <2>1. ~emptied
    BY <1>1, <1>2
  <2>2. h = w.head + k /\ e = w.end
    BY <2>1
  <2> HIDE DEF h, e
  <2>3. j \in (w.head + 1)..w.end
    BY <1>1, <1>2, <2>2
  <2>4. w.buf[j] = w.base + (j - w.head) - 1
    BY <2>3 DEF WindowOK
  <2> DEFINE x == w.base
             y == w.head
  <2>5. x \in Int /\ y \in Int
    BY <1>1
  <2>6. k \in Int
    BY <1>2
  <2>7. w.buf[j] = x + (j - y) - 1 /\ h = y + k
    BY <2>2, <2>4
  <2> HIDE DEF x, y
  <2>8. j \in Int
    OBVIOUS
  <2>9. x + (j - y) - 1 = (x + k) + (j - (y + k)) - 1
    BY <2>5, <2>6, <2>8
  <2> QED
    BY <2>7, <2>9 DEF x
<1> HIDE DEF h, e
<1>6. WindowOK(v) /\ Held(v) = e - h /\ EndOf(v) = (w.base + k) + (e - h)
  <2>1. e <= Len(w.buf) /\ Len(w.buf) <= w.cap
    BY <1>1, <1>4 DEF l
  <2> QED
    BY <1>3, <1>4, <1>5, <2>1 DEF WindowOK, Held, EndOf
<1>7. Held(v) = d - k /\ EndOf(v) = EndOf(w)
  <2>1. EndOf(w) = w.base + d /\ d \in Nat /\ w.base \in Nat
    BY <1>1 DEF d
  <2>2. EndOf(v) = (w.base + k) + (d - k)
    BY <1>4, <1>6
  <2> QED
    BY <1>2, <1>4, <1>6, <2>1, <2>2
<1> QED
  BY <1>2, <1>3, <1>6, <1>7 DEF v, k, d

(* A window reset to an offset is empty there.                             *)
LEMMA ResetOK ==
  ASSUME NEW w, WindowOK(w), NEW o \in Nat
  PROVE  LET v == ResetTo(w, o)
         IN WindowOK(v) /\ v.cap = w.cap /\ v.total = w.total /\ v.base = o /\ Held(v) = 0
            /\ EndOf(v) = o
<1> DEFINE v == ResetTo(w, o)
<1>1. /\ w.buf \in Seq(Cells) /\ Len(w.buf) \in Nat /\ w.cap \in Nat
      /\ w.total \in Totals /\ Len(w.buf) <= w.cap
  BY WindowFields
<1>2. /\ v \in WindowSet /\ v.buf = w.buf /\ v.cap = w.cap /\ v.head = 0 /\ v.end = 0
      /\ v.base = o /\ v.total = w.total
  BY DEF ResetTo, WindowOK, WindowSet
<1> HIDE DEF v
<1>3. WindowOK(v)
  BY <1>1, <1>2 DEF WindowOK
<1> QED
  BY <1>2, <1>3 DEF v, Held, EndOf

(* A released window gives up its allocation and stays where it is.        *)
LEMMA ReleaseOK ==
  ASSUME NEW w, WindowOK(w)
  PROVE  LET v == Release(w)
         IN WindowOK(v) /\ v.cap = 0 /\ v.total = w.total /\ v.base = w.base /\ Held(v) = 0
            /\ EndOf(v) = w.base
<1> DEFINE v == Release(w)
<1>1. w.base \in Nat /\ w.total \in Totals
  BY WindowFields
<1>2. /\ v \in WindowSet /\ v.buf = << >> /\ v.cap = 0 /\ v.head = 0 /\ v.end = 0
      /\ v.base = w.base /\ v.total = w.total
  <2>1. << >> \in Seq(Cells) /\ 0 \in Nat
    OBVIOUS
  <2>2. w \in WindowSet /\ v = [w EXCEPT !.buf = << >>, !.cap = 0, !.head = 0, !.end = 0]
    BY DEF Release, WindowOK
  <2> HIDE DEF v
  <2> QED
    BY <2>1, <2>2 DEF WindowSet
<1>3. Len(<< >>) = 0
  OBVIOUS
<1> HIDE DEF v
<1>4. WindowOK(v)
  BY <1>2, <1>3 DEF WindowOK
<1> QED
  BY <1>1, <1>2, <1>4 DEF v, Held, EndOf

(* A fetched range that becomes the window holds the range's bytes.        *)
LEMMA AdoptOK ==
  ASSUME NEW w, WindowOK(w), NEW f, RangeOK(f)
  PROVE  LET v == Adopt(w, f.off, f)
         IN WindowOK(v) /\ v.cap = f.cap /\ v.total = w.total /\ v.base = f.off
            /\ Held(v) = Len(f.bytes) /\ EndOf(v) = f.off + Len(f.bytes)
<1> DEFINE v == Adopt(w, f.off, f)
           n == Len(f.bytes)
<1>1. w.total \in Totals
  BY WindowFields
<1>3. /\ f.bytes \in Seq(Cells) /\ f.off \in Nat /\ f.cap \in Nat /\ n \in Nat
      /\ n <= f.cap /\ \A k \in 1..n : f.bytes[k] = f.off + k - 1
  BY DEF RangeOK, RangeSet
<1> HIDE DEF n
<1>2. /\ v \in WindowSet /\ v.buf = f.bytes /\ v.cap = f.cap /\ v.head = 0 /\ v.end = n
      /\ v.base = f.off /\ v.total = w.total
  <2>1. w \in WindowSet /\ v = [w EXCEPT !.buf = f.bytes, !.cap = f.cap, !.head = 0,
                                        !.end = n, !.base = f.off]
    BY DEF Adopt, WindowOK, n
  <2> HIDE DEF v
  <2> QED
    BY <1>3, <2>1 DEF WindowSet
<1>4. \A k \in (0 + 1)..n : f.bytes[k] = f.off + (k - 0) - 1
  BY <1>3
<1> HIDE DEF v
<1>5. WindowOK(v) /\ Held(v) = n - 0 /\ EndOf(v) = f.off + (n - 0)
  <2>1. Len(f.bytes) = n
    BY DEF n
  <2> QED
    BY <1>2, <1>3, <1>4, <2>1 DEF WindowOK, Held, EndOf
<1> QED
  BY <1>2, <1>3, <1>5 DEF v, n

(* v holds what w does, at the same address.                               *)
Same(v, w) ==
  /\ WindowOK(v) /\ v.total = w.total /\ v.base = w.base /\ Held(v) = Held(w)
  /\ EndOf(v) = EndOf(w)

(* Compaction moves the held bytes to the front and loses none.            *)
LEMMA ToFrontOK ==
  ASSUME NEW w, WindowOK(w), NEW n \in Int
  PROVE  LET v == ToFront(w, n)
         IN /\ Same(v, w) /\ v.cap = w.cap
            /\ Len(v.buf) = Len(w.buf)
            /\ Len(v.buf) - v.end < n => v.head = 0
<1> DEFINE v == ToFront(w, n)
           h == Held(w)
           moved == Bytes(w) \o SubSeq(w.buf, h + 1, Len(w.buf))
<1>1. /\ w.buf \in Seq(Cells) /\ Len(w.buf) \in Nat /\ w.cap \in Nat /\ w.head \in Nat
      /\ w.end \in Nat /\ w.base \in Nat /\ w.total \in Totals
      /\ w.head <= w.end /\ w.end <= Len(w.buf) /\ Len(w.buf) <= w.cap
      /\ Held(w) = w.end - w.head /\ Held(w) \in Nat
      /\ EndOf(w) = w.base + Held(w) /\ EndOf(w) \in Nat
  BY WindowFields
<1>2. CASE Len(w.buf) - w.end < n /\ w.head > 0
  <2>2. /\ Bytes(w) \in Seq(Cells) /\ Len(Bytes(w)) = h
        /\ \A k \in 1..h : Bytes(w)[k] = w.buf[w.head + k]
    <3> DEFINE m == w.head + 1
               e == w.end
               b == w.buf
    <3>1. m \in 1..(Len(b) + 1) /\ e \in (m - 1)..Len(b) /\ e - m + 1 = h
      BY <1>1
    <3>2. \A i \in 1..Len(b) : b[i] \in Cells
      BY <1>1, SMTT(30)
    <3>3. b \in Seq(Cells) /\ Bytes(w) = SubSeq(b, m, e)
      BY <1>1 DEF Bytes
    <3> HIDE DEF m, e, b
    <3>4. SubSeq(b, m, e) \in Seq(Cells)
      BY <3>1, <3>2, <3>3, SubSeqProperties
    <3>5. Len(SubSeq(b, m, e)) = h
      BY <3>1, <3>3, <1>1, SubSeqProperties
    <3>6. \A k \in 1..h : SubSeq(b, m, e)[k] = b[m + k - 1]
      BY <3>1, <3>3, <1>1, SubSeqProperties
    <3>7. \A k \in 1..h : m + k - 1 = w.head + k
      BY <1>1 DEF m
    <3> QED
      BY <3>3, <3>4, <3>5, <3>6, <3>7 DEF b
  <2>3. SubSeq(w.buf, h + 1, Len(w.buf)) \in Seq(Cells)
        /\ Len(SubSeq(w.buf, h + 1, Len(w.buf))) = Len(w.buf) - h
    <3> DEFINE b == w.buf
               m == h + 1
               e == Len(b)
    <3>1. b \in Seq(Cells) /\ \A i \in 1..Len(b) : b[i] \in Cells
      BY <1>1
    <3>2. m \in 1..(Len(b) + 1) /\ e \in (m - 1)..Len(b) /\ e - m + 1 = Len(b) - h
      BY <1>1, SMTT(30)
    <3> HIDE DEF b, m, e
    <3>3. SubSeq(b, m, e) \in Seq(Cells) /\ Len(SubSeq(b, m, e)) = e - m + 1
      BY <3>1, <3>2, SubSeqProperties
    <3> QED
      BY <3>2, <3>3 DEF b, m, e
  <2> DEFINE p == Bytes(w)
             q == SubSeq(w.buf, h + 1, Len(w.buf))
  <2> HIDE DEF p, q
  <2>4. /\ moved \in Seq(Cells) /\ Len(moved) = Len(w.buf)
        /\ \A k \in 1..h : moved[k] = w.buf[w.head + k]
    <3>1. p \in Seq(Cells) /\ q \in Seq(Cells) /\ Len(p) = h /\ Len(q) = Len(w.buf) - h
          /\ moved = p \o q
      BY <2>2, <2>3 DEF p, q
    <3>2. /\ p \o q \in Seq(Cells) /\ Len(p \o q) = Len(p) + Len(q)
          /\ \A k \in 1..Len(p) : (p \o q)[k] = p[k]
      <4>1. p \in Seq(Cells) /\ q \in Seq(Cells)
        BY <3>1
      <4>2. Len(p) \in Nat /\ Len(q) \in Nat
        BY <4>1
      <4>3. /\ p \o q \in Seq(Cells) /\ Len(p \o q) = Len(p) + Len(q)
            /\ \A k \in 1..(Len(p) + Len(q)) : (p \o q)[k]
                 = IF k <= Len(p) THEN p[k] ELSE q[k - Len(p)]
        BY <4>1, ConcatProperties
      <4> QED
        BY <4>2, <4>3
    <3>3. \A k \in 1..h : p[k] = w.buf[w.head + k]
      BY <2>2 DEF p
    <3> DEFINE l == Len(w.buf)
    <3> HIDE DEF moved, h, l
    <3>4. h \in Nat /\ l \in Nat /\ Len(q) = l - h
      BY <1>1, <3>1 DEF h, l
    <3>5. Len(moved) = l
      BY <3>1, <3>2, <3>4
    <3> QED
      BY <3>1, <3>2, <3>3, <3>5 DEF l
  <2>5. \A k \in 1..h : w.buf[w.head + k] = w.base + k - 1
    <3> TAKE k \in 1..h
    <3>1. w.head + k \in (w.head + 1)..w.end /\ (w.head + k) - w.head = k
      BY <1>1
    <3> QED
      BY <3>1 DEF WindowOK
  <2>6. \A k \in (0 + 1)..h : moved[k] = w.base + (k - 0) - 1
    <3> TAKE k \in (0 + 1)..h
    <3>1. k \in 1..h /\ k - 0 = k
      BY <1>1
    <3> QED
      BY <2>4, <2>5, <3>1
  <2>7. h \in Nat /\ h <= Len(moved) /\ Len(moved) <= w.cap /\ h - 0 = h
    <3>1. h <= Len(w.buf) /\ h \in Nat
      BY <1>1
    <3>2. Len(moved) = Len(w.buf)
      BY <2>4
    <3> HIDE DEF h, moved
    <3> QED
      BY <1>1, <3>1, <3>2
  <2>1. w \in WindowSet /\ v = [w EXCEPT !.buf = moved, !.head = 0, !.end = h]
    BY <1>2 DEF ToFront, WindowOK
  <2> HIDE DEF v, moved, h
  <2>8. /\ v \in WindowSet /\ v.buf = moved /\ v.cap = w.cap /\ v.head = 0 /\ v.end = h
        /\ v.base = w.base /\ v.total = w.total
    BY <2>1, <2>4, <2>7 DEF WindowSet
  <2>9. WindowOK(v) /\ Held(v) = h - 0 /\ EndOf(v) = w.base + (h - 0)
    BY <2>6, <2>7, <2>8 DEF WindowOK, Held, EndOf
  <2>10. Len(v.buf) = Len(w.buf) /\ EndOf(w) = w.base + h /\ Held(w) = h
    BY <1>1, <2>4, <2>8 DEF h
  <2> QED
    BY <2>7, <2>8, <2>9, <2>10 DEF v, Same
<1>3. CASE ~(Len(w.buf) - w.end < n /\ w.head > 0)
  <2>1. v = w
    BY <1>3 DEF ToFront
  <2> QED
    BY <1>1, <1>3, <2>1 DEF Same
<1> QED
  BY <1>2, <1>3

(* A function on 1..n is a sequence of length n.                           *)
LEMMA ListIs ==
  ASSUME NEW S, NEW n \in Nat, NEW f \in [1..n -> S]
  PROVE  f \in Seq(S) /\ Len(f) = n
<1>1. f \in Seq(S)
  BY SeqDef
<1>2. DOMAIN f = 1..n /\ DOMAIN f = 1..Len(f) /\ Len(f) \in Nat
  BY <1>1, LenProperties
<1> QED
  BY <1>1, <1>2

(* Zeroed cells.                                                           *)
LEMMA ZeroedIs ==
  ASSUME NEW n \in Nat
  PROVE  Zeroed(n) \in Seq(Cells) /\ Len(Zeroed(n)) = n
<1>1. Zero \in Cells
  BY DEF Cells
<1>2. Zeroed(n) \in [1..n -> Cells]
  BY <1>1 DEF Zeroed
<1> QED
  BY <1>2, ListIs

(* Two sequences end to end.                                               *)
LEMMA ConcatIs ==
  ASSUME NEW S, NEW p \in Seq(S), NEW q \in Seq(S)
  PROVE  /\ p \o q \in Seq(S) /\ Len(p) \in Nat /\ Len(q) \in Nat
         /\ Len(p \o q) = Len(p) + Len(q)
         /\ \A k \in 1..Len(p) : (p \o q)[k] = p[k]
         /\ \A k \in 1..Len(q) : (p \o q)[Len(p) + k] = q[k]
<1>1. Len(p) \in Nat /\ Len(q) \in Nat
  OBVIOUS
<1>2. /\ p \o q \in Seq(S) /\ Len(p \o q) = Len(p) + Len(q)
      /\ \A k \in 1..(Len(p) + Len(q)) : (p \o q)[k]
           = IF k <= Len(p) THEN p[k] ELSE q[k - Len(p)]
  BY ConcatProperties
<1> DEFINE a == Len(p)
           b == Len(q)
           c == p \o q
<1>4. /\ a \in Nat /\ b \in Nat
      /\ \A k \in 1..(a + b) : c[k] = IF k <= a THEN p[k] ELSE q[k - a]
  BY <1>1, <1>2
<1> HIDE DEF a, b, c
<1>5. \A k \in 1..a : c[k] = p[k]
  BY <1>4
<1>6. ASSUME NEW k \in 1..b PROVE c[a + k] = q[k]
  <2>1. a + k \in 1..(a + b) /\ ~(a + k <= a) /\ (a + k) - a = k
    BY <1>4
  <2> QED
    BY <1>4, <2>1
<1> QED
  BY <1>1, <1>2, <1>5, <1>6 DEF a, b, c

(* Growth keeps what is held and stays within the limit.                   *)
LEMMA GrownOK ==
  ASSUME NEW w, WindowOK(w), NEW n \in Nat, NEW limit \in Nat, w.cap <= limit,
         Held(w) + n <= limit, Len(w.buf) - w.end < n => w.head = 0
  PROVE  LET v == Grown(w, n, limit)
         IN Same(v, w) /\ v.cap <= limit /\ Len(v.buf) - v.end >= n
<1> DEFINE v == Grown(w, n, limit)
           l == Len(w.buf)
           want == Lesser(Greater(w.end + n, 2 * l), limit)
           zeros == Zeroed(want - l)
           buf == w.buf \o zeros
<1>1. /\ w.buf \in Seq(Cells) /\ l \in Nat /\ w.cap \in Nat /\ w.head \in Nat
      /\ w.end \in Nat /\ w.base \in Nat /\ w.total \in Totals
      /\ w.head <= w.end /\ w.end <= l /\ l <= w.cap
      /\ Held(w) = w.end - w.head /\ Held(w) \in Nat
      /\ EndOf(w) = w.base + Held(w) /\ EndOf(w) \in Nat
  BY WindowFields
<1>2. CASE l - w.end < n
  <2>1. w.head = 0 /\ w.end + n <= limit /\ w.end + n > l
    BY <1>1, <1>2
  <2>2. want \in Nat /\ want >= w.end + n /\ want <= limit /\ want - l \in Nat
    <3>1. 2 * l \in Nat /\ w.end + n \in Nat
      <4> DEFINE x == w.end
      <4>1. l \in Nat /\ x \in Nat /\ n \in Nat
        BY <1>1
      <4> HIDE DEF l, x
      <4>2. 2 * l \in Nat /\ x + n \in Nat
        BY <4>1
      <4> QED
        BY <4>2 DEF x
    <3>2. Greater(w.end + n, 2 * l) \in Nat /\ Greater(w.end + n, 2 * l) >= w.end + n
      BY <3>1 DEF Greater
    <3> DEFINE g == Greater(w.end + n, 2 * l)
    <3>3. g \in Nat /\ g >= w.end + n /\ want = Lesser(g, limit)
      BY <3>2
    <3> HIDE DEF g, want, l
    <3>4. want \in {g, limit} /\ want <= limit
      BY <3>3, LesserIs
    <3> QED
      BY <1>1, <2>1, <3>1, <3>3, <3>4
  <2> HIDE DEF want
  <2>3. zeros \in Seq(Cells) /\ Len(zeros) = want - l
    BY <2>2, ZeroedIs
  <2> HIDE DEF zeros
  <2>4. /\ buf \in Seq(Cells) /\ Len(buf) = want
        /\ \A k \in 1..l : buf[k] = w.buf[k]
    <3>1. /\ buf \in Seq(Cells) /\ Len(buf) = l + Len(zeros)
          /\ \A k \in 1..l : buf[k] = w.buf[k]
      <4> DEFINE x == w.buf
      <4>1. x \in Seq(Cells) /\ zeros \in Seq(Cells)
        BY <1>1, <2>3
      <4> HIDE DEF x
      <4>2. /\ x \o zeros \in Seq(Cells) /\ Len(x \o zeros) = Len(x) + Len(zeros)
            /\ \A k \in 1..Len(x) : (x \o zeros)[k] = x[k]
        BY <4>1, ConcatIs
      <4> QED
        BY <4>2 DEF x
    <3> HIDE DEF buf, l
    <3> QED
      BY <1>1, <2>2, <2>3, <3>1
  <2> DEFINE cap == Greater(w.cap, want)
  <2>5. cap \in Nat /\ cap <= limit /\ want <= cap
    BY <1>1, <2>2 DEF Greater
  <2>6. w \in WindowSet /\ v = [w EXCEPT !.buf = buf, !.cap = cap]
    BY <1>2 DEF Grown, WindowOK, want, zeros
  <2> HIDE DEF v, buf, cap
  <2>7. /\ v \in WindowSet /\ v.buf = buf /\ v.cap = cap /\ v.head = w.head /\ v.end = w.end
        /\ v.base = w.base /\ v.total = w.total
    BY <2>4, <2>5, <2>6 DEF WindowSet
  <2>8. \A k \in (w.head + 1)..w.end : buf[k] = w.base + (k - w.head) - 1
    <3> TAKE k \in (w.head + 1)..w.end
    <3>1. k \in 1..l
      <4> DEFINE h == w.head
                 e == w.end
      <4>1. h \in Nat /\ e \in Nat /\ l \in Nat /\ e <= l
        BY <1>1
      <4>2. k \in (h + 1)..e
        OBVIOUS
      <4> HIDE DEF h, e, l
      <4> QED
        BY <4>1, <4>2
    <3>2. w.buf[k] = w.base + (k - w.head) - 1
      BY DEF WindowOK
    <3> QED
      BY <2>4, <3>1, <3>2
  <2>9. WindowOK(v)
    <3>1. w.end <= Len(buf) /\ Len(buf) <= cap
      BY <1>1, <2>1, <2>2, <2>4, <2>5
    <3> QED
      BY <1>1, <2>7, <2>8, <3>1 DEF WindowOK
  <2>10. Len(v.buf) - v.end >= n
    BY <1>1, <2>2, <2>4, <2>7
  <2> QED
    BY <2>5, <2>7, <2>9, <2>10 DEF Same, Held, EndOf, v
<1>3. CASE ~(l - w.end < n)
  <2>1. v = w
    BY <1>3 DEF Grown
  <2>2. Same(w, w) /\ Len(w.buf) - w.end >= n
    <3>1. Same(w, w)
      BY DEF Same
    <3> DEFINE x == w.end
    <3>2. l \in Nat /\ x \in Nat
      BY <1>1
    <3>3. ~(l - x < n)
      BY <1>3
    <3> HIDE DEF l, x
    <3>4. l - x >= n
      BY <3>2, <3>3
    <3> QED
      BY <3>1, <3>4 DEF l, x
  <2> QED
    BY <2>1, <2>2
<1> QED
  BY <1>2, <1>3

(* A window within the limit is never given up: it gets its room, or stays *)
(* as it is.                                                               *)
LEMMA SpareOK ==
  ASSUME NEW w, WindowOK(w), NEW n \in Nat, NEW limit \in Nat, w.cap <= limit
  PROVE  LET r == Spare(w, n, limit)
         IN /\ Same(r.win, w) /\ r.win.cap <= limit
            /\ r.ok \in BOOLEAN
            /\ r.ok => Len(r.win.buf) - r.win.end >= n
            /\ Held(w) + n <= limit => r.ok
<1> DEFINE r == Spare(w, n, limit)
           moved == ToFront(w, n)
           grown == Grown(moved, n, limit)
           grows == Len(moved.buf) - moved.end < n
<1>0. WindowOK(w) /\ w.cap \in Nat /\ Held(w) \in Nat
  BY WindowFields
<1>1. Same(moved, w) /\ moved.cap = w.cap /\ (grows => moved.head = 0)
  BY ToFrontOK
<1>2. CASE Held(w) + n > limit
  <2>1. r = [ok |-> FALSE, win |-> w]
    <3>1. ~(Held(w) + n <= limit)
      BY <1>0, <1>2
    <3> QED
      BY <1>2, <3>1, Zenon DEF Spare
  <2>2. Same(w, w)
    BY DEF Same
  <2> HIDE DEF r
  <2>3. r.ok = FALSE /\ r.win = w
    BY <2>1
  <2>4. ~(Held(w) + n <= limit)
    BY <1>0, <1>2
  <2> QED
    BY <2>2, <2>3, <2>4 DEF r
<1>3. CASE Held(w) + n <= limit
  <2>1. Same(grown, moved) /\ grown.cap <= limit /\ Len(grown.buf) - grown.end >= n
    <3>1. WindowOK(moved) /\ Held(moved) + n <= limit /\ moved.cap <= limit
      BY <1>1, <1>3 DEF Same
    <3> HIDE DEF moved
    <3> QED
      BY <1>1, <3>1, GrownOK DEF grown, grows
  <2>2. grown.cap \in Nat
    BY <2>1, WindowFields DEF Same
  <2> HIDE DEF grown, moved, grows
  <2>3. ~(grows /\ grown.cap > limit)
    BY <2>1, <2>2
  <2>4. ~(Held(w) + n > limit)
    BY <1>0, <1>3
  <2>5. r = [ok |-> TRUE, win |-> grown]
    BY <1>3, <2>3, <2>4, Zenon DEF Spare, grown, moved, grows
  <2> HIDE DEF r
  <2>6. r.ok = TRUE /\ r.win = grown
    BY <2>5
  <2>7. Same(grown, w)
    BY <1>1, <2>1 DEF Same
  <2> QED
    BY <2>1, <2>6, <2>7 DEF r
<1>4. Held(w) + n > limit \/ Held(w) + n <= limit
  BY <1>0
<1> QED
  BY <1>2, <1>3, <1>4

(* A read of the source's bytes behind the held ones.                      *)
LEMMA ReadOK ==
  ASSUME NEW w, WindowOK(w), NEW bytes \in Seq(Cells),
         w.end + Len(bytes) <= Len(w.buf),
         \A k \in 1..Len(bytes) : bytes[k] = EndOf(w) + k - 1
  PROVE  LET v == Commit(Filled(w, bytes), Len(bytes))
         IN /\ WindowOK(v) /\ v.cap = w.cap /\ v.base = w.base /\ v.total = w.total
            /\ Held(v) = Held(w) + Len(bytes) /\ EndOf(v) = EndOf(w) + Len(bytes)
<1> DEFINE v == Commit(Filled(w, bytes), Len(bytes))
           n == Len(bytes)
           l == Len(w.buf)
           At(i) == IF i \in (w.end + 1)..(w.end + n) THEN bytes[i - w.end] ELSE w.buf[i]
           buf == [i \in 1..l |-> At(i)]
<1>1. /\ w.buf \in Seq(Cells) /\ l \in Nat /\ w.cap \in Nat /\ w.head \in Nat
      /\ w.end \in Nat /\ w.base \in Nat /\ w.total \in Totals
      /\ w.head <= w.end /\ w.end <= l /\ l <= w.cap
      /\ Held(w) = w.end - w.head /\ Held(w) \in Nat
      /\ EndOf(w) = w.base + Held(w) /\ EndOf(w) \in Nat
  BY WindowFields
<1>2. n \in Nat /\ w.end + n <= l /\ DOMAIN w.buf = 1..l
  BY <1>1
<1>3. v = [w EXCEPT !.buf = buf, !.end = w.end + n] /\ w \in WindowSet
  <2>1. w \in WindowSet
    BY DEF WindowOK
  <2>2. Filled(w, bytes) = [w EXCEPT !.buf = buf]
    BY <1>2, <2>1 DEF Filled, WindowSet
  <2> HIDE DEF buf
  <2>3. v = [[w EXCEPT !.buf = buf] EXCEPT !.end = @ + n]
    BY <2>2 DEF Commit
  <2>4. [[w EXCEPT !.buf = buf] EXCEPT !.end = @ + n]
          = [w EXCEPT !.buf = buf, !.end = w.end + n]
    BY <2>1 DEF WindowSet
  <2> QED
    BY <2>1, <2>3, <2>4
<1>4. ASSUME NEW i \in 1..l PROVE At(i) \in Cells
  <2>1. CASE i \in (w.end + 1)..(w.end + n)
    <3>1. i - w.end \in 1..n
      <4> DEFINE x == w.end
      <4>1. x \in Nat /\ n \in Nat /\ i \in (x + 1)..(x + n)
        BY <1>1, <1>2, <2>1
      <4> HIDE DEF x, n
      <4>2. i - x \in 1..n
        BY <4>1
      <4> QED
        BY <4>2 DEF x
    <3> QED
      BY <2>1, <3>1
  <2>2. CASE i \notin (w.end + 1)..(w.end + n)
    <3>1. w.buf[i] \in Cells
      BY <1>1 DEF l
    <3> QED
      BY <2>2, <3>1
  <2> QED
    BY <2>1, <2>2
<1>5. buf \in Seq(Cells) /\ Len(buf) = l
  <2>1. buf \in [1..l -> Cells]
    BY <1>4
  <2>2. l \in Nat
    BY <1>1
  <2> HIDE DEF buf
  <2> QED
    BY <2>1, <2>2, ListIs
<1>6. ASSUME NEW k \in (w.head + 1)..(w.end + n)
      PROVE  buf[k] = w.base + (k - w.head) - 1
  <2>0. k \in 1..l /\ k \in Int
    BY <1>1, <1>2, SMTT(30)
  <2>1. CASE k <= w.end
    <3>1. k \notin (w.end + 1)..(w.end + n) /\ k \in (w.head + 1)..w.end
      BY <1>1, <2>1
    <3>2. buf[k] = w.buf[k]
      BY <2>0, <3>1
    <3> QED
      BY <3>1, <3>2 DEF WindowOK
  <2>2. CASE k > w.end
    <3>1. k \in (w.end + 1)..(w.end + n) /\ k - w.end \in 1..n
      <4>1. w.end \in Nat /\ n \in Nat /\ k \in Int /\ k <= w.end + n
        BY <1>1, <1>2
      <4> HIDE DEF n
      <4> QED
        BY <2>2, <4>1
    <3>2. buf[k] = bytes[k - w.end]
      BY <2>0, <3>1
    <3>3. bytes[k - w.end] = EndOf(w) + (k - w.end) - 1
      BY <3>1
    <3>4. buf[k] = EndOf(w) + (k - w.end) - 1
      BY <3>2, <3>3
    <3>5. EndOf(w) = w.base + (w.end - w.head) /\ w.base \in Int /\ w.end \in Int
          /\ w.head \in Int
      BY <1>1
    <3> HIDE DEF buf, n
    <3> QED
      BY <2>0, <3>4, <3>5
  <2> QED
    BY <1>1, <2>0, <2>1, <2>2
<1> HIDE DEF v, buf, n, l, At
<1>7. /\ v \in WindowSet /\ v.buf = buf /\ v.cap = w.cap /\ v.head = w.head
      /\ v.end = w.end + n /\ v.base = w.base /\ v.total = w.total
  <2>1. w.end + n \in Nat
    BY <1>1, <1>2
  <2> QED
    BY <1>3, <1>5, <2>1 DEF WindowSet
<1>8. WindowOK(v)
  <2>1. w.head <= w.end + n /\ w.end + n <= Len(buf) /\ Len(buf) <= w.cap
    BY <1>1, <1>2, <1>5
  <2> QED
    BY <1>6, <1>7, <2>1 DEF WindowOK
<1>9. Held(v) = Held(w) + n
  BY <1>1, <1>2, <1>7 DEF Held
<1>10. EndOf(v) = EndOf(w) + n
  BY <1>1, <1>2, <1>7, <1>9 DEF EndOf
<1> QED
  BY <1>7, <1>8, <1>9, <1>10 DEF v, n

(* The driver learns a total.                                              *)
LEMMA TotalSetOK ==
  ASSUME NEW w, WindowOK(w), NEW t \in Totals
  PROVE  LET v == [w EXCEPT !.total = t]
         IN /\ WindowOK(v) /\ v.cap = w.cap /\ v.base = w.base /\ v.total = t
            /\ Held(v) = Held(w) /\ EndOf(v) = EndOf(w)
<1> DEFINE v == [w EXCEPT !.total = t]
<1>1. /\ v \in WindowSet /\ v.buf = w.buf /\ v.cap = w.cap /\ v.head = w.head
      /\ v.end = w.end /\ v.base = w.base /\ v.total = t
  BY DEF WindowOK, WindowSet
<1> HIDE DEF v
<1>2. WindowOK(v)
  BY <1>1 DEF WindowOK
<1> QED
  BY <1>1, <1>2 DEF v, Held, EndOf

-----------------------------------------------------------------------------
(* Fetched ranges.                                                         *)

(* A function on a set of numbers that is not empty has a greatest value.  *)
LEMMA GreatestValue ==
  ASSUME NEW n \in Nat, NEW v \in [1..n -> Nat], NEW L \in SUBSET (1..n), L # {}
  PROVE  \E i \in L : \A j \in L : v[j] <= v[i]
<1> DEFINE Has(M) == \E i \in M : \A j \in M : v[j] <= v[i]
           P == {k \in 0..n : \A M \in SUBSET (1..k) : M # {} => Has(M)}
<1>1. 0 \in P
  <2>1. \A M \in SUBSET (1..0) : M # {} => Has(M)
    <3>1. \A M \in SUBSET (1..0) : M = {}
      OBVIOUS
    <3> HIDE DEF Has
    <3> QED
      BY <3>1
  <2>2. 0 \in 0..n
    OBVIOUS
  <2> HIDE DEF Has
  <2> QED
    BY <2>1, <2>2
<1>2. ASSUME NEW k \in 1..n, k - 1 \in P PROVE k \in P
  <2> SUFFICES ASSUME NEW M \in SUBSET (1..k), M # {} PROVE Has(M)
    OBVIOUS
  <2>1. CASE M \ {k} = {}
    <3>1. M = {k} /\ v[k] \in Nat
      BY <2>1
    <3> QED
      BY <3>1
  <2>2. CASE M \ {k} # {}
    <3>1. M \ {k} \in SUBSET (1..(k - 1))
      BY Below
    <3>2. PICK i \in M \ {k} : \A j \in M \ {k} : v[j] <= v[i]
      BY <1>2, <2>2, <3>1
    <3>3. v[i] \in Nat /\ v[k] \in Nat /\ \A j \in M : v[j] \in Nat
      OBVIOUS
    <3>4. CASE k \in M /\ v[k] > v[i]
      <4>1. \A j \in M : v[j] <= v[k]
        BY <3>2, <3>3, <3>4
      <4> QED
        BY <3>4, <4>1
    <3>5. CASE ~(k \in M /\ v[k] > v[i])
      <4>1. \A j \in M : v[j] <= v[i]
        BY <3>2, <3>3, <3>5
      <4> QED
        BY <4>1
    <3> QED
      BY <3>4, <3>5
  <2> QED
    BY <2>1, <2>2
<1> HIDE DEF P
<1>3. \A k \in 0..n : k \in P
  BY <1>1, <1>2, Upto
<1>4. n \in P
  BY <1>3
<1> QED
  BY <1>4 DEF P

CapsOf(f) == [i \in 1..Len(f) |-> f[i].cap]

(* The allocations of the fetched ranges.                                  *)
LEMMA CapsAre ==
  ASSUME NEW f, FetchedOK(f)
  PROVE  /\ CapsOf(f) \in Seq(Nat) /\ Len(CapsOf(f)) = Len(f) /\ Len(f) \in Nat
         /\ \A i \in 1..Len(f) : CapsOf(f)[i] = f[i].cap /\ f[i].cap \in Nat
<1>1. Len(f) \in Nat /\ \A i \in 1..Len(f) : f[i].cap \in Nat
  BY DEF FetchedOK, RangeOK, RangeSet
<1>2. CapsOf(f) \in [1..Len(f) -> Nat]
  BY <1>1 DEF CapsOf
<1>3. CapsOf(f) \in Seq(Nat) /\ Len(CapsOf(f)) = Len(f)
  BY <1>1, <1>2, ListIs
<1> QED
  BY <1>1, <1>3 DEF CapsOf

(* capacity is the sum of the allocations.                                 *)
LEMMA CapacityIs ==
  ASSUME NEW f, FetchedOK(f)
  PROVE  Capacity(f) = Total(CapsOf(f)) /\ Capacity(f) \in Nat
<1> DEFINE n == Len(f)
           c == CapsOf(f)
           step == [x \in Nat \X (1..n) |-> x[1] + f[x[2]].cap]
           Def(h) == [s \in SUBSET (1..n) |->
                        IF s = {} THEN 0
                        ELSE LET x == Max(s) IN h[s \ {x}] + f[x].cap]
           H == CHOOSE h : h = Def(h)
<1>1. /\ c \in Seq(Nat) /\ Len(c) = n /\ n \in Nat
      /\ \A i \in 1..n : c[i] = f[i].cap /\ f[i].cap \in Nat
  BY CapsAre
<1>2. DOMAIN f = 1..n
  BY DEF FetchedOK
<1>3. Capacity(f) = H[1..n]
  BY <1>2, Zenon DEF Capacity, FoldLeft, MapThenFoldSet
<1> HIDE DEF c, n
<1>4. \E h : h = Def(h)
  <2>1. step \in [Nat \X (1..n) -> Nat]
    <3>1. \A x \in Nat \X (1..n) : x[1] + f[x[2]].cap \in Nat
      BY <1>1
    <3> QED
      BY <3>1
  <2>2. \A x \in Nat, k \in 1..n : step[<<x, k>>] = x + f[k].cap
    OBVIOUS
  <2> HIDE DEF step
  <2>3. PICK g \in [SUBSET (1..n) -> Nat] : Recursion(g, 0, step, n)
    BY <1>1, <2>1, FoldExists
  <2>4. ASSUME NEW s \in SUBSET (1..n), s # {}
        PROVE  step[<<g[s \ {Max(s)}], Max(s)>>] = g[s \ {Max(s)}] + f[Max(s)].cap
    <3>1. Max(s) \in 1..n /\ s \ {Max(s)} \in SUBSET (1..n)
      BY <1>1, <2>4, MaxIsGreatest
    <3>2. g[s \ {Max(s)}] \in Nat
      BY <3>1
    <3> QED
      BY <2>2, <3>1, <3>2
  <2>5. g = Def(g)
    BY <2>3, <2>4 DEF Recursion
  <2> QED
    BY <2>5
<1>5. H = Def(H)
  <2> HIDE DEF Def
  <2> QED
    BY <1>4
<1> HIDE DEF H
<1>6. H[1..0] = 0
  <2>1. 1..0 = {} /\ {} \in SUBSET (1..n)
    OBVIOUS
  <2>2. Def(H)[{}] = 0
    BY <2>1
  <2> HIDE DEF Def
  <2> QED
    BY <1>5, <2>1, <2>2
<1>7. ASSUME NEW k \in 1..n PROVE H[1..k] = H[1..(k - 1)] + f[k].cap
  <2>1. /\ 1..k \in SUBSET (1..n) /\ 1..k # {} /\ Max(1..k) = k
        /\ (1..k) \ {k} = 1..(k - 1)
    BY <1>1, PrefixSets
  <2>2. Def(H)[1..k] = H[1..(k - 1)] + f[k].cap
    BY <2>1
  <2> HIDE DEF Def
  <2> QED
    BY <1>5, <2>2
<1> DEFINE a == [k \in 0..n |-> H[1..k]]
<1>8. \A k \in 0..n : H[1..k] \in Nat
  <2> DEFINE P == {k \in 0..n : H[1..k] \in Nat}
  <2>1. 0 \in P
    BY <1>1, <1>6
  <2>2. ASSUME NEW k \in 1..n, k - 1 \in P PROVE k \in P
    <3>1. k \in 0..n /\ H[1..(k - 1)] \in Nat /\ f[k].cap \in Nat
      BY <1>1, <2>2
    <3> QED
      BY <1>7, <3>1
  <2> HIDE DEF P
  <2>3. \A k \in 0..n : k \in P
    BY <1>1, <2>1, <2>2, Upto
  <2> QED
    BY <2>3 DEF P
<1>9. SumsTo(c, a)
  <2>1. a \in [0..n -> Int]
    BY <1>8
  <2>2. a[0] = 0
    BY <1>1, <1>6
  <2>3. \A k \in 1..n : a[k] = a[k - 1] + c[k]
    <3> TAKE k \in 1..n
    <3>1. k \in 0..n /\ k - 1 \in 0..n
      BY <1>1
    <3>2. a[k] = H[1..k] /\ a[k - 1] = H[1..(k - 1)]
      BY <3>1
    <3> QED
      BY <1>1, <1>7, <3>2
  <2> HIDE DEF a
  <2> QED
    BY <1>1, <2>1, <2>2, <2>3 DEF SumsTo
<1>10. a[n] = H[1..n]
  BY <1>1
<1> HIDE DEF a
<1>11. Total(c) = a[n] /\ Total(c) \in Nat
  BY <1>1, <1>9, TotalIs
<1> QED
  BY <1>3, <1>10, <1>11 DEF n, c

(* Nothing fetched is nothing allocated.                                   *)
LEMMA NoneFetched == FetchedOK(<<>>) /\ Capacity(<<>>) = 0 /\ Len(<<>>) = 0
<1>1. FetchedOK(<<>>)
  BY DEF FetchedOK
<1>2. Capacity(<<>>) = Total(CapsOf(<<>>)) /\ CapsOf(<<>>) \in Seq(Nat)
      /\ Len(CapsOf(<<>>)) = 0
  BY <1>1, CapacityIs, CapsAre
<1> QED
  BY <1>1, <1>2, TotalNat

(* A range leaves the cache with its allocation.                           *)
LEMMA RemoveOK ==
  ASSUME NEW f, FetchedOK(f), NEW i \in 1..Len(f)
  PROVE  LET g == RemoveSwapping(f, i)
         IN FetchedOK(g) /\ Capacity(g) = Capacity(f) - f[i].cap
<1> DEFINE n == Len(f)
           g == RemoveSwapping(f, i)
           At(j) == IF j = i THEN f[n] ELSE f[j]
<1>1. /\ n \in Nat /\ n >= 1 /\ \A j \in 1..n : RangeOK(f[j]) /\ f[j] \in RangeSet
  BY DEF FetchedOK
<1>2. g = [j \in 1..(n - 1) |-> At(j)]
  BY DEF RemoveSwapping
<1>3. \A j \in 1..(n - 1) : At(j) \in RangeSet /\ RangeOK(At(j))
  <2> TAKE j \in 1..(n - 1)
  <2>1. j \in 1..n /\ n \in 1..n
    BY <1>1
  <2> QED
    BY <1>1, <2>1
<1> HIDE DEF n, g
<1>4. g \in Seq(RangeSet) /\ Len(g) = n - 1 /\ \A j \in 1..(n - 1) : g[j] = At(j)
  <2>1. g \in [1..(n - 1) -> RangeSet] /\ n - 1 \in Nat
    BY <1>1, <1>2, <1>3
  <2>2. \A j \in 1..(n - 1) : g[j] = At(j)
    BY <1>2
  <2> HIDE DEF At
  <2> QED
    BY <2>1, <2>2, ListIs
<1>5. FetchedOK(g)
  BY <1>3, <1>4 DEF FetchedOK
<1> DEFINE c == CapsOf(f)
           d == CapsOf(g)
<1>6. /\ c \in Seq(Nat) /\ Len(c) = n /\ \A j \in 1..n : c[j] = f[j].cap
      /\ d \in Seq(Nat) /\ Len(d) = n - 1 /\ \A j \in 1..(n - 1) : d[j] = g[j].cap
  BY <1>4, <1>5, CapsAre DEF n
<1> HIDE DEF c, d
<1>7. \A j \in 1..Len(d) : d[j] = IF j = i THEN c[Len(c)] ELSE c[j]
  <2> TAKE j \in 1..Len(d)
  <2>1. j \in 1..(n - 1) /\ j \in 1..n /\ n \in 1..n
    BY <1>1, <1>6
  <2>2. d[j] = At(j).cap
    BY <1>4, <1>6, <2>1
  <2> QED
    BY <1>6, <2>1, <2>2
<1>8. i \in 1..Len(c) /\ Len(d) = Len(c) - 1
  BY <1>6 DEF n
<1>9. Total(d) = Total(c) - c[i]
  BY <1>6, <1>7, <1>8, TotalRemoved
<1>10. Capacity(f) = Total(c) /\ Capacity(g) = Total(d) /\ c[i] = f[i].cap
  BY <1>5, <1>6, CapacityIs DEF c, d, n
<1> QED
  BY <1>5, <1>9, <1>10 DEF g

RangeFields(f) ==
  f.off \in Nat /\ f.cap \in Nat /\ Len(f.bytes) \in Nat /\ RangeEnd(f) = f.off + Len(f.bytes)
  /\ RangeEnd(f) \in Nat

(* What a fetched range in order has, field by field.                      *)
LEMMA RangesAre ==
  ASSUME NEW f, RangeOK(f)
  PROVE  RangeFields(f)
<1>1. f.off \in Nat /\ f.cap \in Nat /\ Len(f.bytes) \in Nat
  BY DEF RangeOK, RangeSet
<1> QED
  BY <1>1 DEF RangeFields, RangeEnd

(* Where a window is taken to an offset, nothing is held that was not.     *)
Positioned(p, w, f, o) ==
  /\ WindowOK(p.win) /\ p.win.base = o /\ p.win.total = w.total
  /\ FetchedOK(p.fetched)
  /\ p.win.cap + Capacity(p.fetched) <= w.cap + Capacity(f)
  /\ p.kept \in BOOLEAN
  /\ p.kept => /\ o < EndOf(p.win)
               /\ \/ w.base <= o /\ EndOf(p.win) = EndOf(w)
                  \/ \E i \in 1..Len(f) : f[i].off <= o /\ EndOf(p.win) = RangeEnd(f[i])
  /\ ~p.kept => Held(p.win) = 0

(* Keep what is held at an offset: the window then starts there, and ends  *)
(* where it did or where a fetched range does.                             *)
LEMMA PositionedOK ==
  ASSUME NEW w, WindowOK(w), NEW f, FetchedOK(f), NEW o \in Nat
  PROVE  Positioned(Position(w, f, o), w, f, o)
<1> DEFINE p == Position(w, f, o)
           active    == o >= w.base /\ o < EndOf(w)
           activeEnd == IF active THEN EndOf(w) ELSE o
           longer    == {i \in DOMAIN f : o >= f[i].off /\ RangeEnd(f[i]) > activeEnd}
           furthest  == {i \in longer : \A j \in longer : RangeEnd(f[j]) <= RangeEnd(f[i])}
           best      == Max(furthest)
<1>1. /\ w.cap \in Nat /\ w.base \in Nat /\ EndOf(w) \in Nat /\ Held(w) \in Nat
      /\ EndOf(w) = w.base + Held(w)
  BY WindowFields
<1>2. DOMAIN f = 1..Len(f) /\ Len(f) \in Nat /\ \A i \in 1..Len(f) : RangeOK(f[i])
  BY DEF FetchedOK
<1>3. \A i \in 1..Len(f) : RangeFields(f[i])
  BY <1>2, RangesAre
<1>4. Capacity(f) \in Nat
  BY CapacityIs
<1>5. CASE longer # {}
  <2>1. best \in 1..Len(f) /\ o >= f[best].off /\ RangeEnd(f[best]) > activeEnd
    <3> DEFINE v == [i \in 1..Len(f) |-> RangeEnd(f[i])]
               n == Len(f)
    <3>1. v \in [1..n -> Nat] /\ n \in Nat /\ longer \in SUBSET (1..n)
      BY <1>2, <1>3 DEF RangeFields
    <3>2. \E i \in longer : \A j \in longer : v[j] <= v[i]
      <4> HIDE DEF v, longer, n
      <4> QED
        BY <1>5, <3>1, GreatestValue
    <3>3. \A i \in longer : v[i] = RangeEnd(f[i])
      BY <3>1
    <3> HIDE DEF v, n
    <3>4. furthest # {}
      BY <3>2, <3>3
    <3>5. furthest \in SUBSET (1..n)
      BY <3>1
    <3> HIDE DEF furthest
    <3>6. best \in furthest
      BY <3>1, <3>4, <3>5, MaxIsGreatest
    <3>7. furthest \in SUBSET longer
      BY DEF furthest
    <3> HIDE DEF best
    <3> QED
      BY <1>2, <3>6, <3>7
  <2> DEFINE r == f[best]
             a == Adopt(w, r.off, r)
             c == Consume(a, o - r.off)
  <2>2. p = [win |-> c, fetched |-> RemoveSwapping(f, best), kept |-> TRUE]
    BY <1>5, Zenon DEF Position
  <2> HIDE DEF best, longer, p
  <2>3. RangeOK(r) /\ RangeFields(r)
    BY <1>2, <1>3, <2>1
  <2>4. /\ WindowOK(a) /\ a.cap = r.cap /\ a.total = w.total /\ a.base = r.off
        /\ Held(a) = Len(r.bytes) /\ EndOf(a) = RangeEnd(r)
    BY <2>3, AdoptOK DEF RangeFields
  <2>5. activeEnd \in Nat /\ o <= activeEnd
    BY <1>1
  <2> HIDE DEF activeEnd
  <2>6. o - r.off \in Nat /\ o < RangeEnd(r) /\ o - r.off < Len(r.bytes)
    BY <2>1, <2>3, <2>5 DEF RangeFields
  <2> HIDE DEF r, a
  <2>7. /\ WindowOK(c) /\ c.cap = a.cap /\ c.total = a.total /\ EndOf(c) = EndOf(a)
        /\ c.base = a.base + Lesser(o - r.off, Held(a))
    BY <2>4, <2>6, ConsumeOK
  <2>8. c.base = o
    <3>1. Lesser(o - r.off, Held(a)) = o - r.off
      BY <2>4, <2>6 DEF Lesser
    <3>2. r.off \in Int
      BY <2>3 DEF RangeFields
    <3> HIDE DEF c
    <3> QED
      BY <2>4, <2>7, <3>1, <3>2
  <2> DEFINE g == RemoveSwapping(f, best)
  <2>9. FetchedOK(g) /\ Capacity(g) = Capacity(f) - r.cap
    BY <2>1, RemoveOK DEF r
  <2> HIDE DEF c, g
  <2>10. p.win = c /\ p.fetched = g /\ p.kept = TRUE
    BY <2>2 DEF c, g
  <2>11. c.cap + Capacity(g) <= w.cap + Capacity(f)
    <3>1. r.cap \in Nat /\ c.cap = r.cap
      BY <2>3, <2>4, <2>7 DEF RangeFields
    <3> QED
      BY <1>1, <1>4, <2>9, <3>1
  <2>12. o < EndOf(c) /\ \E i \in 1..Len(f) : f[i].off <= o /\ EndOf(c) = RangeEnd(f[i])
    <3>1. EndOf(c) = RangeEnd(r) /\ r.off <= o
      <4>1. r.off \in Int
        BY <2>3 DEF RangeFields
      <4> QED
        BY <2>1, <2>4, <2>7, <4>1 DEF r
    <3> QED
      BY <2>1, <2>6, <3>1 DEF r
  <2> QED
    BY <2>4, <2>7, <2>8, <2>9, <2>10, <2>11, <2>12 DEF p, Positioned
<1>6. CASE longer = {} /\ active
  <2> DEFINE c == Consume(w, o - w.base)
  <2>1. p = [win |-> c, fetched |-> f, kept |-> TRUE]
    BY <1>6, Zenon DEF Position
  <2> HIDE DEF p, longer
  <2>2. o - w.base \in Nat /\ Lesser(o - w.base, Held(w)) = o - w.base
    BY <1>1, <1>6 DEF Lesser
  <2>3. /\ WindowOK(c) /\ c.cap = w.cap /\ c.total = w.total /\ EndOf(c) = EndOf(w)
        /\ c.base = w.base + (o - w.base)
    BY <2>2, ConsumeOK
  <2> HIDE DEF c
  <2>4. p.win = c /\ p.fetched = f /\ p.kept = TRUE
    BY <2>1
  <2>5. c.base = o /\ c.cap + Capacity(f) <= w.cap + Capacity(f)
    BY <1>1, <1>4, <2>3
  <2>6. o < EndOf(c) /\ w.base <= o
    BY <1>1, <1>6, <2>3
  <2> QED
    BY <2>3, <2>4, <2>5, <2>6 DEF p, Positioned
<1>7. CASE longer = {} /\ ~active
  <2> DEFINE c == ResetTo(w, o)
  <2>1. p = [win |-> c, fetched |-> f, kept |-> FALSE]
    BY <1>7, Zenon DEF Position
  <2> HIDE DEF p, longer, active
  <2>3. /\ WindowOK(c) /\ c.cap = w.cap /\ c.total = w.total /\ c.base = o /\ Held(c) = 0
    BY ResetOK
  <2> HIDE DEF c
  <2>4. p.win = c /\ p.fetched = f /\ p.kept = FALSE
    BY <2>1
  <2>5. c.cap + Capacity(f) <= w.cap + Capacity(f)
    BY <1>1, <1>4, <2>3
  <2> QED
    BY <2>3, <2>4, <2>5 DEF p, Positioned
<1> QED
  BY <1>5, <1>6, <1>7

(* The cache gives way, or is small enough.                                *)
LEMMA MakeRoomOK ==
  ASSUME NEW w, NEW f, FetchedOK(f), NEW t
  PROVE  LET g == MakeRoom(w, f, t)
         IN FetchedOK(g) /\ Capacity(g) \in Nat /\ Capacity(g) <= Capacity(f)
<1>1. Capacity(f) \in Nat
  BY CapacityIs
<1> QED
  BY <1>1, NoneFetched DEF MakeRoom

-----------------------------------------------------------------------------
(* The plan of a round.                                                    *)

(* What a fold has after each index, one step from the other.              *)
Folds(H, S, base, step, n) ==
  /\ H[1..0] = base
  /\ \A k \in 1..n : H[1..(k - 1)] \in S => H[1..k] = step[<<H[1..(k - 1)], k>>]

Runs(a, S, base, step, n, last) ==
  /\ a \in [0..n -> S] /\ a[0] = base /\ a[n] = last
  /\ \A k \in 1..n : a[k] = step[<<a[k - 1], k>>]

(* A fold of a step that stays in S is a run that stays in S.              *)
LEMMA FoldRuns ==
  ASSUME NEW S, NEW n \in Nat, NEW base \in S, NEW step \in [S \X (1..n) -> S], NEW H,
         Folds(H, S, base, step, n)
  PROVE  H[1..n] \in S /\ \E a : Runs(a, S, base, step, n, H[1..n])
<1> DEFINE P == {k \in 0..n : H[1..k] \in S}
           a == [k \in 0..n |-> H[1..k]]
<1>1. 0 \in P
  BY DEF Folds
<1>2. ASSUME NEW k \in 1..n, k - 1 \in P PROVE k \in P
  <2>1. H[1..(k - 1)] \in S /\ k \in 0..n
    BY <1>2
  <2>2. H[1..k] = step[<<H[1..(k - 1)], k>>]
    BY <2>1 DEF Folds
  <2>3. step[<<H[1..(k - 1)], k>>] \in S
    BY <2>1
  <2> QED
    BY <2>1, <2>2, <2>3
<1>3. \A k \in 0..n : k \in P
  <2> HIDE DEF P
  <2> QED
    BY <1>1, <1>2, Upto
<1>4. a \in [0..n -> S] /\ \A k \in 0..n : a[k] = H[1..k]
  BY <1>3
<1>5. 0 \in 0..n /\ n \in 0..n /\ \A k \in 1..n : k \in 0..n /\ k - 1 \in 0..n
  OBVIOUS
<1> HIDE DEF a, P
<1>6. \A k \in 1..n : a[k] = step[<<a[k - 1], k>>]
  <2> TAKE k \in 1..n
  <2>1. a[k - 1] = H[1..(k - 1)] /\ a[k] = H[1..k] /\ a[k - 1] \in S
    BY <1>4, <1>5
  <2> QED
    BY <2>1 DEF Folds
<1>7. a[0] = base /\ a[n] = H[1..n] /\ a[n] \in S
  BY <1>4, <1>5 DEF Folds
<1>8. Runs(a, S, base, step, n, H[1..n])
  BY <1>4, <1>6, <1>7 DEF Runs
<1> QED
  BY <1>7, <1>8

(* The lengths of a list of ranges.                                        *)
Lens(out) == [i \in 1..Len(out) |-> out[i].len]

RangeRequests == [kind : {"range"}, off : Nat, len : Nat]

(* The parts of a request.                                                 *)
LEMMA AskedIs ==
  ASSUME NEW r \in RequestSet
  PROVE  /\ r.off \in Nat /\ r.len \in Nat /\ ReqEnd(r) = r.off + r.len /\ ReqEnd(r) \in Nat
         /\ r.kind \in {"least", "range", "len"}
         /\ r.kind = "range" => r \in RangeRequests
BY DEF RequestSet, RangeRequests, Requests, ReqEnd

(* The parts of a request for a range.                                     *)
LEMMA RequestIs ==
  ASSUME NEW r \in RangeRequests
  PROVE  r.off \in Nat /\ r.len \in Nat /\ ReqEnd(r) = r.off + r.len /\ ReqEnd(r) \in Nat
         /\ r.kind = "range"
BY DEF RangeRequests, ReqEnd

(* The lengths of a list of ranges.                                        *)
LEMMA LensAre ==
  ASSUME NEW out \in Seq(RangeRequests)
  PROVE  /\ Lens(out) \in Seq(Nat) /\ Len(Lens(out)) = Len(out) /\ Len(out) \in Nat
         /\ \A i \in 1..Len(out) : Lens(out)[i] = out[i].len /\ out[i].len \in Nat
<1>1. Len(out) \in Nat /\ \A i \in 1..Len(out) : out[i] \in RangeRequests
  OBVIOUS
<1>2. \A i \in 1..Len(out) : out[i].len \in Nat
  BY <1>1, RequestIs
<1>3. Lens(out) \in [1..Len(out) -> Nat]
  BY <1>2 DEF Lens
<1>4. Lens(out) \in Seq(Nat) /\ Len(Lens(out)) = Len(out)
  BY <1>1, <1>3, ListIs
<1> QED
  BY <1>1, <1>2, <1>4 DEF Lens

(* One more range adds its length.                                         *)
LEMMA LensAppended ==
  ASSUME NEW out \in Seq(RangeRequests), NEW r \in RangeRequests
  PROVE  Total(Lens(Append(out, r))) = Total(Lens(out)) + r.len
<1> DEFINE new == Append(out, r)
           c == Lens(out)
           d == Lens(new)
           n == Len(out)
<1>1. /\ new \in Seq(RangeRequests) /\ Len(new) = n + 1 /\ new[n + 1] = r
      /\ \A i \in 1..n : new[i] = out[i]
  OBVIOUS
<1>2. /\ c \in Seq(Nat) /\ Len(c) = n /\ n \in Nat /\ \A i \in 1..n : c[i] = out[i].len
  BY LensAre
<1> HIDE DEF new
<1>3. /\ d \in Seq(Nat) /\ Len(d) = n + 1 /\ \A i \in 1..(n + 1) : d[i] = new[i].len
  BY <1>1, LensAre
<1> HIDE DEF c, d, n
<1>4. /\ \A j \in 1..n : d[j] = c[j]
      /\ d[n + 1] = r.len /\ r.len \in Nat /\ n + 1 \in 1..(Len(c) + 1)
      /\ \A j \in (n + 2)..Len(d) : d[j] = c[j - 1]
  <2>1. /\ \A j \in 1..n : j \in 1..(n + 1)
        /\ n + 1 \in 1..(n + 1) /\ n + 1 \in 1..(Len(c) + 1)
    BY <1>2
  <2>2. \A j \in 1..n : d[j] = c[j]
    BY <1>1, <1>2, <1>3, <2>1
  <2>3. d[n + 1] = r.len /\ r.len \in Nat
    BY <1>1, <1>3, <2>1, RequestIs
  <2>4. \A j \in (n + 2)..Len(d) : FALSE
    BY <1>2, <1>3
  <2> QED
    BY <2>1, <2>2, <2>3, <2>4
<1>5. (n + 1) - 1 = n /\ (n + 1) + 1 = n + 2
  BY <1>2
<1>6. Total(d) = Total(c) + r.len
  BY <1>2, <1>3, <1>4, <1>5, TotalInserted, SMTT(30)
<1> QED
  BY <1>6 DEF c, d, new

(* The admitted ranges begin with the first choice, and fit together.      *)
Plans(first) ==
  {p \in [out : Seq(RangeRequests), bytes : Nat] :
     /\ Len(p.out) > 0 /\ p.out[1] = first
     /\ p.bytes = Total(Lens(p.out)) /\ p.bytes <= InputBytes}

(* A range is admitted to a plan only as long as the plan fits.            *)
LEMMA AdmitOK ==
  ASSUME NEW first, NEW p \in Plans(first), NEW r \in RequestSet
  PROVE  Admit(first, p, r) \in Plans(first)
<1>1. CASE Admit(first, p, r) = p
  BY <1>1
<1>2. CASE Admit(first, p, r) = [out |-> Append(p.out, r), bytes |-> p.bytes + r.len]
           /\ p.bytes + r.len <= InputBytes /\ r.kind = "range"
  <2> DEFINE new == Append(p.out, r)
  <2>1. /\ p.out \in Seq(RangeRequests) /\ p.bytes \in Nat /\ Len(p.out) \in Nat /\ Len(p.out) > 0
        /\ p.out[1] = first /\ p.bytes = Total(Lens(p.out)) /\ r.len \in Nat
        /\ r \in RangeRequests
    BY <1>2, AskedIs DEF Plans
  <2>2. Total(Lens(new)) = p.bytes + r.len
    BY <2>1, LensAppended
  <2>3. new \in Seq(RangeRequests) /\ Len(new) > 0 /\ new[1] = first /\ p.bytes + r.len \in Nat
    BY <2>1
  <2> HIDE DEF new
  <2> DEFINE q == [out |-> new, bytes |-> p.bytes + r.len]
  <2>4. q \in [out : Seq(RangeRequests), bytes : Nat] /\ q.out = new /\ q.bytes = p.bytes + r.len
    BY <2>3
  <2>5. Admit(first, p, r) = q
    BY <1>2 DEF new
  <2> HIDE DEF q
  <2>6. q \in Plans(first)
    BY <1>2, <2>2, <2>3, <2>4 DEF Plans
  <2> QED
    BY <2>5, <2>6
<1> QED
  BY <1>1, <1>2 DEF Admit

(* What is admitted starts with the first range and fits.                  *)
LEMMA AdmittedOK ==
  ASSUME NEW first \in RangeRequests, first.len <= InputBytes, NEW rs \in Seq(RequestSet)
  PROVE  Admitted(first, rs) \in Plans(first)
<1> DEFINE n == Len(rs)
           base == [out |-> <<first>>, bytes |-> first.len]
           S == Plans(first)
           step == [x \in S \X (1..n) |-> Admit(first, x[1], rs[x[2]])]
           Def(h) == [s \in SUBSET (1..n) |->
                        IF s = {} THEN base
                        ELSE LET x == Max(s) IN Admit(first, h[s \ {x}], rs[x])]
           H == CHOOSE h : h = Def(h)
<1>1. n \in Nat /\ DOMAIN rs = 1..n /\ \A k \in 1..n : rs[k] \in RequestSet
  OBVIOUS
<1>2. Admitted(first, rs) = H[1..n]
  BY <1>1, Zenon DEF Admitted, FoldLeft, MapThenFoldSet
<1>3. base \in S
  <2> DEFINE one == <<first>>
  <2>1. one \in Seq(RangeRequests) /\ Len(one) = 1 /\ one[1] = first /\ first.len \in Nat
    BY RequestIs
  <2>2. Total(Lens(<< >>)) = 0 /\ << >> \in Seq(RangeRequests) /\ one = Append(<< >>, first)
    <3>1. << >> \in Seq(RangeRequests) /\ Len(<< >>) = 0
      OBVIOUS
    <3>2. Lens(<< >>) \in Seq(Nat) /\ Len(Lens(<< >>)) = 0
      BY <3>1, LensAre
    <3> QED
      BY <3>1, <3>2, TotalNat
  <2>3. Total(Lens(one)) = first.len
    <3> HIDE DEF one
    <3>1. Total(Lens(Append(<< >>, first))) = Total(Lens(<< >>)) + first.len
      BY <2>2, LensAppended
    <3> QED
      BY <2>1, <2>2, <3>1
  <2> HIDE DEF one
  <2>4. base = [out |-> one, bytes |-> first.len]
    BY DEF one
  <2> QED
    BY <2>1, <2>3, <2>4 DEF Plans
<1>4. step \in [S \X (1..n) -> S]
  <2>1. \A x \in S \X (1..n) : Admit(first, x[1], rs[x[2]]) \in S
    BY <1>1, AdmitOK
  <2> HIDE DEF S
  <2> QED
    BY <2>1
<1>5. \A p \in S, k \in 1..n : step[<<p, k>>] = Admit(first, p, rs[k])
  <2> HIDE DEF S
  <2> QED
    OBVIOUS
<1> HIDE DEF step, base, S
<1>6. \E h : h = Def(h)
  <2>1. PICK g \in [SUBSET (1..n) -> S] : Recursion(g, base, step, n)
    BY <1>1, <1>3, <1>4, FoldExists
  <2>2. ASSUME NEW s \in SUBSET (1..n), s # {}
        PROVE  step[<<g[s \ {Max(s)}], Max(s)>>] = Admit(first, g[s \ {Max(s)}], rs[Max(s)])
    <3>1. Max(s) \in 1..n /\ s \ {Max(s)} \in SUBSET (1..n)
      BY <1>1, <2>2, MaxIsGreatest
    <3>2. g[s \ {Max(s)}] \in S
      BY <3>1
    <3> QED
      BY <1>5, <3>1, <3>2
  <2>3. g = Def(g)
    BY <2>1, <2>2 DEF Recursion
  <2> QED
    BY <2>3
<1>7. H = Def(H)
  <2> HIDE DEF Def
  <2> QED
    BY <1>6
<1> HIDE DEF H
<1>8. H[1..0] = base
  <2>1. 1..0 = {} /\ {} \in SUBSET (1..n)
    OBVIOUS
  <2>2. Def(H)[{}] = base
    BY <2>1
  <2> HIDE DEF Def
  <2> QED
    BY <1>7, <2>1, <2>2
<1>9. Folds(H, S, base, step, n)
  <2> SUFFICES \A k \in 1..n : H[1..(k - 1)] \in S => H[1..k] = step[<<H[1..(k - 1)], k>>]
    BY <1>8 DEF Folds
  <2> TAKE k \in 1..n
  <2>1. /\ 1..k \in SUBSET (1..n) /\ 1..k # {} /\ Max(1..k) = k
        /\ (1..k) \ {k} = 1..(k - 1)
    BY <1>1, PrefixSets
  <2>2. Def(H)[1..k] = Admit(first, H[1..(k - 1)], rs[k])
    BY <2>1
  <2> HIDE DEF Def
  <2> QED
    BY <1>5, <1>7, <2>2
<1>10. H[1..n] \in S
  BY <1>1, <1>3, <1>4, <1>9, FoldRuns
<1> QED
  BY <1>2, <1>10 DEF S

-----------------------------------------------------------------------------
(* The ranges in the order of their offsets.                               *)

Sorted(s) == \A i, j \in 1..Len(s) : i < j => s[i].off <= s[j].off

(* A sequence with one more element, and where each element is.            *)
LEMMA InsertedIs ==
  ASSUME NEW S, NEW s \in Seq(S), NEW e \in S, NEW i \in 1..(Len(s) + 1)
  PROVE  LET t == InsertAt(s, i, e)
         IN /\ t \in Seq(S) /\ Len(t) = Len(s) + 1 /\ Len(s) \in Nat /\ t[i] = e
            /\ \A j \in 1..(i - 1) : t[j] = s[j]
            /\ \A j \in (i + 1)..(Len(s) + 1) : t[j] = s[j - 1]
<1> DEFINE n == Len(s)
           p == SubSeq(s, 1, i - 1)
           q == SubSeq(s, i, n)
           o == <<e>>
           t == InsertAt(s, i, e)
<1>1. n \in Nat /\ i \in 1..(n + 1)
  OBVIOUS
<1>2. p \in Seq(S) /\ Len(p) = i - 1 /\ \A j \in 1..(i - 1) : p[j] = s[j]
  BY <1>1
<1>3. q \in Seq(S) /\ Len(q) = n - i + 1 /\ \A j \in 1..(n - i + 1) : q[j] = s[i + j - 1]
  BY <1>1
<1>4. o \in Seq(S) /\ Len(o) = 1 /\ o[1] = e
  OBVIOUS
<1>5. t = (p \o o) \o q
  BY DEF InsertAt
<1> HIDE DEF n, p, q, o, t
<1> DEFINE po == p \o o
<1>6. /\ po \in Seq(S) /\ Len(po) = i /\ po[i] = e /\ \A j \in 1..(i - 1) : po[j] = s[j]
  <2>1. /\ po \in Seq(S) /\ Len(po) = Len(p) + Len(o)
        /\ \A k \in 1..Len(p) : po[k] = p[k]
        /\ \A k \in 1..Len(o) : po[Len(p) + k] = o[k]
    <3> HIDE DEF po
    <3>1. p \in Seq(S) /\ o \in Seq(S)
      BY <1>2, <1>4
    <3> QED
      BY <3>1, ConcatIs DEF po
  <2> HIDE DEF po
  <2>2. Len(po) = i /\ (i - 1) + 1 = i
    BY <1>1, <1>2, <1>4, <2>1
  <2>3. po[i] = e
    BY <1>2, <1>4, <2>1, <2>2
  <2> QED
    BY <1>2, <2>1, <2>2, <2>3
<1>7. /\ t \in Seq(S) /\ Len(t) = Len(po) + Len(q)
      /\ \A k \in 1..Len(po) : t[k] = po[k]
      /\ \A k \in 1..Len(q) : t[Len(po) + k] = q[k]
  <2> HIDE DEF po
  <2> QED
    <3>1. po \in Seq(S) /\ q \in Seq(S)
      BY <1>3, <1>6
    <3>2. t = po \o q
      BY <1>5 DEF po
    <3> QED
      BY <3>1, <3>2, ConcatIs
<1> HIDE DEF po
<1>8. Len(t) = n + 1
  BY <1>1, <1>3, <1>6, <1>7
<1>9. t[i] = e /\ \A j \in 1..(i - 1) : t[j] = s[j]
  BY <1>1, <1>6, <1>7
<1>10. ASSUME NEW j \in (i + 1)..(n + 1) PROVE t[j] = s[j - 1]
  <2>1. j - i \in 1..(n - i + 1) /\ i + (j - i) = j /\ i + (j - i) - 1 = j - 1
    BY <1>1
  <2>2. t[i + (j - i)] = q[j - i] /\ q[j - i] = s[i + (j - i) - 1]
    BY <1>3, <1>6, <1>7, <2>1
  <2> QED
    BY <2>1, <2>2
<1> QED
  BY <1>1, <1>7, <1>8, <1>9, <1>10 DEF t, n

(* A range is placed before the first that is to come after it.            *)
LEMMA PlaceIs ==
  ASSUME NEW s \in Seq(RangeRequests), NEW r
  PROVE  LET p == Place(s, r)
         IN /\ p \in 1..(Len(s) + 1)
            /\ \A j \in 1..(p - 1) : ~After(s[j], r)
            /\ p \in 1..Len(s) => After(s[p], r)
<1> DEFINE n == Len(s)
           T == {j \in 1..(n + 1) : j \in DOMAIN s => After(s[j], r)}
           p == Place(s, r)
<1>1. n \in Nat /\ DOMAIN s = 1..n
  OBVIOUS
<1>2. n + 1 \in T /\ T \in SUBSET Nat
  BY <1>1
<1>3. p = Min(T)
  BY DEF Place
<1> HIDE DEF p
<1>4. p \in T /\ \A j \in T : p <= j
  <2> HIDE DEF T
  <2> QED
    BY <1>2, <1>3, MinIsLeast
<1>5. \A j \in 1..(p - 1) : ~After(s[j], r)
  <2> SUFFICES ASSUME NEW j \in 1..(p - 1), After(s[j], r) PROVE FALSE
    OBVIOUS
  <2>1. j \in T
    BY <1>1, <1>4
  <2>2. p <= j
    BY <1>4, <2>1
  <2> QED
    BY <1>1, <1>4, <2>2
<1> QED
  BY <1>1, <1>4, <1>5 DEF p

(* An insertion keeps the order and the ranges, and adds one.              *)
LEMMA InsertOK ==
  ASSUME NEW s \in Seq(RangeRequests), Sorted(s), NEW r \in RangeRequests
  PROVE  LET t == InsertAt(s, Place(s, r), r)
         IN /\ t \in Seq(RangeRequests) /\ Sorted(t) /\ Len(t) = Len(s) + 1
            /\ Total(Lens(t)) = Total(Lens(s)) + r.len
            /\ \E i \in 1..Len(t) : t[i] = r
            /\ \A j \in 1..Len(s) : \E i \in 1..Len(t) : t[i] = s[j]
<1> DEFINE p == Place(s, r)
           t == InsertAt(s, p, r)
           n == Len(s)
<1>1. /\ p \in 1..(n + 1)
      /\ \A j \in 1..(p - 1) : ~After(s[j], r)
      /\ p \in 1..n => After(s[p], r)
  BY PlaceIs
<1> HIDE DEF p
<1>2. /\ t \in Seq(RangeRequests) /\ Len(t) = n + 1 /\ n \in Nat /\ t[p] = r
      /\ \A j \in 1..(p - 1) : t[j] = s[j]
      /\ \A j \in (p + 1)..(n + 1) : t[j] = s[j - 1]
  BY <1>1, InsertedIs
<1>3. r.off \in Nat /\ r.len \in Nat /\ \A j \in 1..n : s[j].off \in Nat /\ s[j].len \in Nat
  <2>1. \A j \in 1..n : s[j] \in RangeRequests
    OBVIOUS
  <2> HIDE DEF n
  <2> QED
    BY <2>1, RequestIs
<1>0. \A i, j \in 1..n : i < j => s[i].off <= s[j].off
  BY DEF Sorted
<1> HIDE DEF t, n
<1>4. \A j \in 1..(p - 1) : j \in 1..n /\ s[j].off <= r.off
  <2> TAKE j \in 1..(p - 1)
  <2>1. j \in 1..n /\ ~After(s[j], r)
    BY <1>1, <1>2
  <2> QED
    BY <1>3, <2>1 DEF After
<1>5. \A j \in p..n : j \in 1..n /\ r.off <= s[j].off
  <2> TAKE j \in p..n
  <2>1. j \in 1..n /\ p \in 1..n /\ p <= j
    BY <1>1, <1>2
  <2>2. r.off <= s[p].off
    BY <1>1, <1>3, <2>1 DEF After
  <2>3. s[p].off <= s[j].off
    BY <1>0, <1>3, <2>1
  <2> QED
    BY <1>3, <2>1, <2>2, <2>3
<1>6. ASSUME NEW i \in 1..(n + 1), NEW j \in 1..(n + 1), i < j PROVE t[i].off <= t[j].off
  <2>1. CASE j < p
    <3>1. i \in 1..(p - 1) /\ j \in 1..(p - 1)
      BY <1>1, <1>2, <1>6, <2>1
    <3> QED
      BY <1>0, <1>2, <1>4, <1>6, <3>1
  <2>2. CASE j = p
    <3>1. i \in 1..(p - 1)
      BY <1>1, <1>2, <1>6, <2>2
    <3> QED
      BY <1>2, <1>4, <2>2, <3>1
  <2>3. CASE j > p
    <3>1. j \in (p + 1)..(n + 1) /\ j - 1 \in p..n
      BY <1>1, <1>2, <2>3
    <3>2. t[j] = s[j - 1] /\ j - 1 \in 1..n /\ r.off <= s[j - 1].off
      BY <1>2, <1>5, <3>1
    <3>3. CASE i < p
      <4>1. i \in 1..(p - 1)
        BY <1>1, <3>3
      <4>2. t[i] = s[i] /\ s[i].off <= r.off /\ i \in 1..n
        BY <1>2, <1>4, <4>1
      <4> QED
        BY <1>3, <3>2, <4>2
    <3>4. CASE i = p
      BY <1>2, <3>2, <3>4
    <3>5. CASE i > p
      <4>1. i \in (p + 1)..(n + 1) /\ i - 1 \in 1..n /\ i - 1 < j - 1
        BY <1>1, <1>2, <1>6, <3>5
      <4>2. t[i] = s[i - 1]
        BY <1>2, <4>1
      <4> QED
        BY <1>0, <3>2, <4>1, <4>2
    <3> QED
      BY <1>1, <3>3, <3>4, <3>5
  <2> QED
    BY <1>1, <2>1, <2>2, <2>3
<1>7. Sorted(t)
  BY <1>2, <1>6 DEF Sorted
<1>8. Total(Lens(t)) = Total(Lens(s)) + r.len
  <2> DEFINE c == Lens(s)
             d == Lens(t)
  <2>1. /\ c \in Seq(Nat) /\ Len(c) = n /\ \A i \in 1..n : c[i] = s[i].len
    BY LensAre DEF n
  <2>2. /\ d \in Seq(Nat) /\ Len(d) = n + 1 /\ \A i \in 1..(n + 1) : d[i] = t[i].len
    BY <1>2, LensAre
  <2> HIDE DEF c, d
  <2>3. d[p] = r.len /\ p \in 1..(Len(c) + 1)
    BY <1>1, <1>2, <2>1, <2>2
  <2>4. ASSUME NEW j \in 1..(p - 1) PROVE d[j] = c[j]
    <3>1. j \in 1..n /\ j \in 1..(n + 1)
      BY <1>1, <1>2
    <3> QED
      BY <1>2, <2>1, <2>2, <3>1
  <2>5. ASSUME NEW j \in (p + 1)..(n + 1) PROVE d[j] = c[j - 1]
    <3>1. j - 1 \in 1..n /\ j \in 1..(n + 1)
      BY <1>1, <1>2
    <3> QED
      BY <1>2, <2>1, <2>2, <3>1
  <2>6. Total(d) = Total(c) + r.len
    <3>1. /\ c \in Seq(Nat) /\ d \in Seq(Nat) /\ p \in 1..(Len(c) + 1) /\ r.len \in Nat
          /\ Len(d) = Len(c) + 1 /\ d[p] = r.len
      BY <1>3, <2>1, <2>2, <2>3
    <3>2. \A j \in 1..(p - 1) : d[j] = c[j]
      BY <2>4
    <3>3. \A j \in (p + 1)..Len(d) : d[j] = c[j - 1]
      BY <2>2, <2>5
    <3> QED
      BY <3>1, <3>2, <3>3, TotalInserted
  <2> QED
    BY <2>6 DEF c, d
<1>9. ASSUME NEW j \in 1..n PROVE \E i \in 1..(n + 1) : t[i] = s[j]
  <2>1. CASE j < p
    <3>1. j \in 1..(p - 1) /\ j \in 1..(n + 1)
      BY <1>1, <1>2, <2>1
    <3> QED
      BY <1>2, <3>1
  <2>2. CASE j >= p
    <3>1. j + 1 \in (p + 1)..(n + 1) /\ j + 1 \in 1..(n + 1) /\ (j + 1) - 1 = j
      BY <1>1, <1>2, <2>2
    <3>2. t[j + 1] = s[j]
      BY <1>2, <3>1
    <3> QED
      BY <3>1, <3>2
  <2> QED
    BY <1>1, <2>1, <2>2
<1>10. \E i \in 1..Len(t) : t[i] = r
  BY <1>1, <1>2
<1> QED
  BY <1>2, <1>7, <1>8, <1>9, <1>10 DEF t, p, n

Ins(s, r) == InsertAt(s, Place(s, r), r)

SortedLists == {s \in Seq(RangeRequests) : Sorted(s)}

(* Insertion in order, as the run of its fold.                             *)
LEMMA InOrderRuns ==
  ASSUME NEW out \in Seq(RangeRequests)
  PROVE  \E a : /\ a \in [0..Len(out) -> SortedLists] /\ a[0] = << >>
                /\ a[Len(out)] = InOrder(out)
                /\ \A k \in 1..Len(out) : a[k] = Ins(a[k - 1], out[k])
<1> DEFINE n == Len(out)
           base == << >>
           S == SortedLists
           step == [x \in S \X (1..n) |-> Ins(x[1], out[x[2]])]
           Def(h) == [s \in SUBSET (1..n) |->
                        IF s = {} THEN << >>
                        ELSE LET x == Max(s)
                             IN InsertAt(h[s \ {x}], Place(h[s \ {x}], out[x]), out[x])]
           H == CHOOSE h : h = Def(h)
<1>1. n \in Nat /\ DOMAIN out = 1..n /\ \A k \in 1..n : out[k] \in RangeRequests
  OBVIOUS
<1>2. InOrder(out) = H[1..n]
  BY <1>1, Zenon DEF InOrder, FoldLeft, MapThenFoldSet
<1>3. base \in S
  BY DEF SortedLists, Sorted
<1>4. step \in [S \X (1..n) -> S]
  <2>1. \A s \in S, k \in 1..n : Ins(s, out[k]) \in S
    BY <1>1, InsertOK DEF Ins, SortedLists
  <2> HIDE DEF S
  <2> QED
    BY <2>1
<1>5. \A p \in S, k \in 1..n : step[<<p, k>>] = Ins(p, out[k])
  <2> HIDE DEF S
  <2> QED
    OBVIOUS
<1> HIDE DEF step, base, S
<1>6. \E h : h = Def(h)
  <2>1. PICK g \in [SUBSET (1..n) -> S] : Recursion(g, base, step, n)
    BY <1>1, <1>3, <1>4, FoldExists
  <2>2. ASSUME NEW s \in SUBSET (1..n), s # {}
        PROVE  step[<<g[s \ {Max(s)}], Max(s)>>] = Ins(g[s \ {Max(s)}], out[Max(s)])
    <3>1. Max(s) \in 1..n /\ s \ {Max(s)} \in SUBSET (1..n)
      BY <1>1, <2>2, MaxIsGreatest
    <3>2. g[s \ {Max(s)}] \in S
      BY <3>1
    <3> QED
      BY <1>5, <3>1, <3>2
  <2>3. g = Def(g)
    BY <2>1, <2>2 DEF Recursion, Ins, base
  <2> QED
    BY <2>3
<1>7. H = Def(H)
  <2> HIDE DEF Def
  <2> QED
    BY <1>6
<1> HIDE DEF H
<1>8. H[1..0] = base
  <2>1. 1..0 = {} /\ {} \in SUBSET (1..n)
    OBVIOUS
  <2>2. Def(H)[{}] = base
    BY <2>1 DEF base
  <2> HIDE DEF Def
  <2> QED
    BY <1>7, <2>1, <2>2
<1>9. Folds(H, S, base, step, n)
  <2> SUFFICES \A k \in 1..n : H[1..(k - 1)] \in S => H[1..k] = step[<<H[1..(k - 1)], k>>]
    BY <1>8 DEF Folds
  <2> TAKE k \in 1..n
  <2>1. /\ 1..k \in SUBSET (1..n) /\ 1..k # {} /\ Max(1..k) = k
        /\ (1..k) \ {k} = 1..(k - 1)
    BY <1>1, PrefixSets
  <2>2. Def(H)[1..k] = Ins(H[1..(k - 1)], out[k])
    BY <2>1 DEF Ins
  <2> HIDE DEF Def
  <2> QED
    BY <1>5, <1>7, <2>2
<1>10. PICK a : Runs(a, S, base, step, n, H[1..n])
  BY <1>1, <1>3, <1>4, <1>9, FoldRuns
<1>11. a \in [0..n -> S] /\ a[0] = base /\ a[n] = H[1..n] /\ \A k \in 1..n : a[k] = Ins(a[k - 1], out[k])
  <2>1. a \in [0..n -> S] /\ a[0] = base /\ a[n] = H[1..n] /\ \A k \in 1..n : a[k] = step[<<a[k - 1], k>>]
    BY <1>10 DEF Runs
  <2>2. \A k \in 1..n : k - 1 \in 0..n
    BY <1>1
  <2> QED
    BY <1>5, <2>1, <2>2
<1> QED
  BY <1>2, <1>10, <1>11 DEF S, base, n

(* Insertion of one range after the other sorts them all.                  *)
LEMMA InOrderOK ==
  ASSUME NEW out \in Seq(RangeRequests)
  PROVE  LET t == InOrder(out)
         IN /\ t \in Seq(RangeRequests) /\ Sorted(t) /\ Len(t) = Len(out)
            /\ Total(Lens(t)) = Total(Lens(out))
            /\ \A j \in 1..Len(out) : \E i \in 1..Len(t) : t[i] = out[j]
<1> DEFINE n == Len(out)
           c == Lens(out)
<1>1. PICK a : /\ a \in [0..n -> SortedLists] /\ a[0] = << >> /\ a[n] = InOrder(out)
               /\ \A k \in 1..n : a[k] = Ins(a[k - 1], out[k])
  BY InOrderRuns
<1>2. /\ c \in Seq(Nat) /\ Len(c) = n /\ n \in Nat /\ \A k \in 1..n : c[k] = out[k].len
      /\ \A k \in 1..n : out[k] \in RangeRequests
  BY LensAre
<1> HIDE DEF n, c
<1>3. PICK b \in [0..n -> Nat] : SumsTo(c, b)
  BY <1>2, SumExists
<1>4. b[0] = 0 /\ \A k \in 1..n : b[k] = b[k - 1] + c[k]
  BY <1>2, <1>3 DEF SumsTo
<1> DEFINE Has(k) == /\ Len(a[k]) = k /\ Total(Lens(a[k])) = b[k]
                     /\ \A j \in 1..k : \E i \in 1..k : a[k][i] = out[j]
           P == {k \in 0..n : Has(k)}
<1>5. 0 \in P
  <2>1. << >> \in Seq(RangeRequests) /\ Len(<< >>) = 0
    OBVIOUS
  <2>2. Total(Lens(<< >>)) = 0
    <3>1. Lens(<< >>) \in Seq(Nat) /\ Len(Lens(<< >>)) = 0
      BY <2>1, LensAre
    <3> QED
      BY <3>1, TotalNat
  <2> QED
    BY <1>1, <1>2, <1>4, <2>1, <2>2
<1>6. ASSUME NEW k \in 1..n, k - 1 \in P PROVE k \in P
  <2> DEFINE s == a[k - 1]
             t == a[k]
  <2>1. k \in 0..n /\ k - 1 \in 0..n /\ k - 1 \in Nat
    BY <1>2
  <2>2. s \in Seq(RangeRequests) /\ Sorted(s) /\ t = Ins(s, out[k])
    BY <1>1, <2>1 DEF SortedLists
  <2>3. Has(k - 1)
    BY <1>6
  <2>4. /\ Len(t) = Len(s) + 1 /\ Total(Lens(t)) = Total(Lens(s)) + out[k].len
        /\ \E i \in 1..Len(t) : t[i] = out[k]
        /\ \A j \in 1..Len(s) : \E i \in 1..Len(t) : t[i] = s[j]
    <3> HIDE DEF s, t
    <3> QED
      BY <1>2, <2>2, InsertOK DEF Ins
  <2>5. Len(s) = k - 1 /\ Len(t) = k /\ Total(Lens(s)) = b[k - 1]
    BY <2>3, <2>4
  <2>6. Total(Lens(t)) = b[k]
    BY <1>2, <1>4, <2>4, <2>5
  <2>7. ASSUME NEW j \in 1..k PROVE \E i \in 1..k : t[i] = out[j]
    <3>1. CASE j = k
      BY <2>4, <2>5, <3>1
    <3>2. CASE j # k
      <4>1. j \in 1..(k - 1)
        BY <2>1, <3>2
      <4>2. PICK i \in 1..(k - 1) : s[i] = out[j]
        BY <2>3, <4>1
      <4> HIDE DEF s, t
      <4> QED
        BY <2>4, <2>5, <4>2
    <3> QED
      BY <3>1, <3>2
  <2> QED
    BY <2>1, <2>5, <2>6, <2>7
<1> HIDE DEF P
<1>7. n \in P
  <2>1. \A k \in 0..n : k \in P
    BY <1>2, <1>5, <1>6, Upto
  <2> QED
    BY <1>2, <2>1
<1>8. Has(n)
  BY <1>7 DEF P
<1>9. Total(c) = b[n]
  BY <1>2, <1>3, TotalIs
<1>10. a[n] \in Seq(RangeRequests) /\ Sorted(a[n])
  BY <1>1, <1>2 DEF SortedLists
<1> QED
  BY <1>1, <1>8, <1>9, <1>10 DEF n, c

-----------------------------------------------------------------------------
(* Near neighbours are merged, and still fit.                              *)

MergeLists ==
  {p \in [out : Seq(RangeRequests), bytes : Int] : Len(p.out) > 0 /\ p.bytes <= InputBytes}

(* Some range of the list holds r.                                         *)
Within(r, out) ==
  \E j \in 1..Len(out) : out[j].off <= r.off /\ ReqEnd(r) <= ReqEnd(out[j])

(* A merged range covers both; the plan still fits, and is in order.       *)
LEMMA MergeOK ==
  ASSUME NEW p \in MergeLists, NEW r \in RangeRequests
  PROVE  LET q     == Merge(p, r)
             last  == p.out[Len(p.out)]
             final == q.out[Len(q.out)]
         IN /\ q \in MergeLists
            /\ q.bytes - Total(Lens(q.out)) = p.bytes - Total(Lens(p.out)) - r.len
            /\ \A i \in 1..Len(p.out) : Within(p.out[i], q.out)
            /\ last.off <= r.off => Within(r, q.out) /\ final.off <= r.off
<1> DEFINE q      == Merge(p, r)
           out    == p.out
           n      == Len(out)
           last   == out[n]
           merged == Greater(ReqEnd(last), ReqEnd(r)) - last.off
           extra  == Greater(r.off - ReqEnd(last), 0)
           Fits   == /\ r.off <= ReqEnd(last) + MaxGap
                     /\ extra <= Greater(InputBytes - p.bytes, 0)
           end    == [last EXCEPT !.len = merged]
           joined == [out EXCEPT ![n] = end]
           bytes  == p.bytes - last.len - r.len + merged
<1>1. /\ out \in Seq(RangeRequests) /\ n \in Nat /\ n \in 1..n /\ p.bytes \in Int
      /\ p.bytes <= InputBytes /\ last \in RangeRequests
      /\ \A i \in 1..n : out[i] \in RangeRequests
      /\ p = [out |-> out, bytes |-> p.bytes]
  BY DEF MergeLists
<1>2. /\ last.off \in Nat /\ last.len \in Nat /\ ReqEnd(last) = last.off + last.len
      /\ r.off \in Nat /\ r.len \in Nat /\ ReqEnd(r) = r.off + r.len
      /\ ReqEnd(last) \in Nat /\ ReqEnd(r) \in Nat
  BY <1>1, RequestIs
<1>3. /\ Lens(out) \in Seq(Nat) /\ Len(Lens(out)) = n /\ Total(Lens(out)) \in Nat
      /\ \A i \in 1..n : Lens(out)[i] = out[i].len
  BY <1>1, LensAre, TotalNat
<1>4. CASE Fits
  <2>1. q = [out |-> joined, bytes |-> bytes]
    <3>1. q = [out |-> [p.out EXCEPT ![Len(p.out)].len = merged],
               bytes |-> p.bytes - last.len - r.len + merged]
      BY <1>4, Zenon DEF Merge
    <3> QED
      BY <3>1
  <2> HIDE DEF q
  <2>2. /\ merged \in Nat /\ merged >= last.len /\ merged >= ReqEnd(r) - last.off
        /\ merged <= last.len + r.len + extra /\ extra \in Nat
        /\ extra <= InputBytes - p.bytes
    <3>1. InputBytes - p.bytes \in Nat /\ Greater(InputBytes - p.bytes, 0) = InputBytes - p.bytes
      BY <1>1, LimitsAreNaturals DEF Greater
    <3>2. extra <= InputBytes - p.bytes
      BY <1>4, <3>1
    <3> HIDE DEF last, out, n
    <3>3. extra \in Nat /\ extra >= r.off - ReqEnd(last)
      BY <1>2 DEF Greater
    <3> HIDE DEF extra
    <3>4. merged \in Nat /\ merged >= last.len /\ merged >= ReqEnd(r) - last.off
          /\ merged <= last.len + r.len + extra
      <4>1. CASE ReqEnd(last) < ReqEnd(r)
        <5>1. merged = ReqEnd(r) - last.off
          BY <4>1 DEF Greater
        <5> HIDE DEF merged
        <5> QED
          BY <1>2, <3>3, <4>1, <5>1
      <4>2. CASE ~(ReqEnd(last) < ReqEnd(r))
        <5>1. merged = ReqEnd(last) - last.off
          BY <4>2 DEF Greater
        <5> HIDE DEF merged
        <5> QED
          BY <1>2, <3>3, <4>2, <5>1
      <4> QED
        BY <4>1, <4>2
    <3> QED
      BY <3>2, <3>3, <3>4
  <2> HIDE DEF merged, extra
  <2>3. /\ end \in RangeRequests /\ end.off = last.off /\ end.len = merged
        /\ ReqEnd(end) = last.off + merged
    <3>1. end = [last EXCEPT !.len = merged] /\ last \in RangeRequests
      BY <1>1
    <3> HIDE DEF end, last
    <3>2. end \in RangeRequests /\ end.off = last.off /\ end.len = merged
      BY <2>2, <3>1 DEF RangeRequests
    <3> QED
      BY <3>2 DEF ReqEnd
  <2> HIDE DEF end
  <2>4. /\ joined \in Seq(RangeRequests) /\ Len(joined) = n /\ joined[n] = end
        /\ \A i \in 1..n : i # n => joined[i] = out[i]
    BY <1>1, <2>3
  <2>5. q.out = joined /\ q.bytes = bytes
    BY <2>1
  <2>6. Lens(joined) \in Seq(Nat) /\ Len(Lens(joined)) = n
        /\ \A i \in 1..n : Lens(joined)[i] = joined[i].len
    <3> HIDE DEF joined
    <3> QED
      BY <2>4, LensAre
  <2> HIDE DEF joined, bytes
  <2>7. Total(Lens(joined)) = Total(Lens(out)) - last.len + merged
    <3> DEFINE c == Lens(out)
               d == Lens(joined)
    <3>1. c[n] = last.len /\ d[n] = merged
      BY <1>1, <1>3, <2>3, <2>4, <2>6
    <3>2. \A i \in 1..n : i # n => d[i] = c[i]
      BY <1>3, <2>4, <2>6
    <3>3. c \in Seq(Nat) /\ d \in Seq(Nat) /\ Len(c) = n /\ Len(d) = n /\ n \in 1..n
      BY <1>1, <1>3, <2>6
    <3> HIDE DEF c, d, n, last
    <3>4. Total(d) = Total(c) - c[n] + d[n]
      BY <3>2, <3>3, TotalUpdated
    <3> QED
      BY <3>1, <3>4 DEF c, d
  <2> HIDE DEF out, n, last
  <2>8. bytes \in Int /\ bytes <= InputBytes
        /\ bytes - Total(Lens(joined)) = p.bytes - Total(Lens(out)) - r.len
    <3>1. bytes = p.bytes - last.len - r.len + merged
      BY DEF bytes
    <3>2. /\ p.bytes \in Int /\ last.len \in Int /\ r.len \in Int /\ merged \in Int /\ extra \in Int
          /\ InputBytes \in Int /\ Total(Lens(out)) \in Int
          /\ merged <= last.len + r.len + extra /\ extra <= InputBytes - p.bytes
      BY <1>1, <1>2, <1>3, <2>2, LimitsAreNaturals
    <3> QED
      BY <2>7, <3>1, <3>2
  <2>9. q \in MergeLists
    <3>1. n > 0
      BY <1>1
    <3> QED
      BY <2>1, <2>4, <2>8, <3>1 DEF MergeLists
  <2>10. ASSUME NEW i \in 1..n PROVE Within(out[i], joined)
    <3>1. out[i].off \in Nat /\ ReqEnd(out[i]) \in Nat
      BY <1>1, RequestIs
    <3>2. CASE i = n
      <4>1. out[i] = last
        BY <3>2 DEF last
      <4>2. end.off <= out[i].off /\ ReqEnd(out[i]) <= ReqEnd(end)
        BY <1>2, <2>2, <2>3, <4>1
      <4> QED
        BY <1>1, <2>4, <4>2 DEF Within
    <3>3. CASE i # n
      <4>1. joined[i] = out[i] /\ i \in 1..Len(joined)
        BY <2>4, <3>3
      <4>2. joined[i].off <= out[i].off /\ ReqEnd(out[i]) <= ReqEnd(joined[i])
        BY <3>1, <4>1
      <4> QED
        BY <4>1, <4>2 DEF Within
    <3> QED
      BY <3>2, <3>3
  <2>11. ASSUME last.off <= r.off
         PROVE  Within(r, joined) /\ joined[Len(joined)].off <= r.off
    <3>1. end.off <= r.off /\ ReqEnd(r) <= ReqEnd(end)
      BY <1>2, <2>2, <2>3, <2>11
    <3> QED
      BY <1>1, <2>4, <3>1 DEF Within
  <2> QED
    BY <2>5, <2>8, <2>9, <2>10, <2>11 DEF q, last, n, out
<1>5. CASE ~Fits
  <2> DEFINE new == Append(out, r)
  <2>1. q = [p EXCEPT !.out = new]
    <3>1. q = [p EXCEPT !.out = Append(@, r)]
      BY <1>5, Zenon DEF Merge
    <3> QED
      BY <3>1
  <2> HIDE DEF q, Fits, merged, extra, end, joined, bytes
  <2>2. /\ new \in Seq(RangeRequests) /\ Len(new) = n + 1 /\ new[n + 1] = r
        /\ \A i \in 1..n : new[i] = out[i]
    BY <1>1
  <2>3. Total(Lens(new)) = Total(Lens(out)) + r.len
    BY <1>1, LensAppended
  <2> HIDE DEF new
  <2>4. q.out = new /\ q.bytes = p.bytes /\ q = [out |-> new, bytes |-> p.bytes]
    <3>1. p \in [out : Seq(RangeRequests), bytes : Int]
      BY DEF MergeLists
    <3> QED
      BY <2>1, <3>1
  <2>5. q \in MergeLists
    <3>1. Len(new) > 0
      BY <1>1, <2>2
    <3> QED
      BY <1>1, <2>2, <2>4, <3>1 DEF MergeLists
  <2>6. ASSUME NEW i \in 1..n PROVE Within(out[i], new)
    <3>1. out[i].off \in Nat /\ ReqEnd(out[i]) \in Nat /\ new[i] = out[i] /\ i \in 1..Len(new)
      BY <1>1, <2>2, RequestIs
    <3>2. new[i].off <= out[i].off /\ ReqEnd(out[i]) <= ReqEnd(new[i])
      BY <3>1
    <3> QED
      BY <3>1, <3>2 DEF Within
  <2>7. Within(r, new) /\ new[Len(new)].off <= r.off
    <3>1. n + 1 \in 1..Len(new) /\ new[n + 1].off <= r.off /\ ReqEnd(r) <= ReqEnd(new[n + 1])
      BY <1>1, <1>2, <2>2
    <3> QED
      BY <2>2, <3>1 DEF Within
  <2>8. q.bytes - Total(Lens(new)) = p.bytes - Total(Lens(out)) - r.len
    BY <1>1, <1>2, <1>3, <2>3, <2>4
  <2> HIDE DEF out, n, last
  <2> QED
    BY <2>4, <2>5, <2>6, <2>7, <2>8 DEF q, last, n, out
<1> HIDE DEF Fits
<1> QED
  BY <1>4, <1>5

MergedList(base, rest) == FoldLeft(Merge, base, rest)

(* The fold of Merge, step by step.                                        *)
LEMMA MergeRuns ==
  ASSUME NEW base \in MergeLists, NEW rest \in Seq(RangeRequests)
  PROVE  \E a : /\ a \in [0..Len(rest) -> MergeLists] /\ a[0] = base
                /\ a[Len(rest)] = MergedList(base, rest)
                /\ \A k \in 1..Len(rest) : a[k] = Merge(a[k - 1], rest[k])
<1> DEFINE n == Len(rest)
           S == MergeLists
           step == [x \in S \X (1..n) |-> Merge(x[1], rest[x[2]])]
           Def(h) == [s \in SUBSET (1..n) |->
                        IF s = {} THEN base
                        ELSE LET x == Max(s) IN Merge(h[s \ {x}], rest[x])]
           H == CHOOSE h : h = Def(h)
<1>1. n \in Nat /\ DOMAIN rest = 1..n /\ \A k \in 1..n : rest[k] \in RangeRequests
  OBVIOUS
<1>2. MergedList(base, rest) = H[1..n]
  BY <1>1, Zenon DEF MergedList, FoldLeft, MapThenFoldSet
<1>3. \A p \in S, k \in 1..n : Merge(p, rest[k]) \in S
  BY <1>1, MergeOK
<1>4. step \in [S \X (1..n) -> S]
  <2> HIDE DEF S
  <2> QED
    BY <1>3
<1>5. \A p \in S, k \in 1..n : step[<<p, k>>] = Merge(p, rest[k])
  <2> HIDE DEF S
  <2> QED
    OBVIOUS
<1> HIDE DEF step
<1>6. \E h : h = Def(h)
  <2>1. PICK g \in [SUBSET (1..n) -> S] : Recursion(g, base, step, n)
    BY <1>1, <1>4, FoldExists
  <2>2. ASSUME NEW s \in SUBSET (1..n), s # {}
        PROVE  step[<<g[s \ {Max(s)}], Max(s)>>] = Merge(g[s \ {Max(s)}], rest[Max(s)])
    <3>1. Max(s) \in 1..n /\ s \ {Max(s)} \in SUBSET (1..n)
      BY <1>1, <2>2, MaxIsGreatest
    <3>2. g[s \ {Max(s)}] \in S
      BY <3>1
    <3> QED
      BY <1>5, <3>1, <3>2
  <2>3. g = Def(g)
    BY <2>1, <2>2 DEF Recursion
  <2> QED
    BY <2>3
<1>7. H = Def(H)
  <2> HIDE DEF Def
  <2> QED
    BY <1>6
<1> HIDE DEF H
<1>8. H[1..0] = base
  <2>1. 1..0 = {} /\ {} \in SUBSET (1..n)
    OBVIOUS
  <2>2. Def(H)[{}] = base
    BY <2>1
  <2> HIDE DEF Def
  <2> QED
    BY <1>7, <2>1, <2>2
<1>9. Folds(H, S, base, step, n)
  <2> SUFFICES \A k \in 1..n : H[1..(k - 1)] \in S => H[1..k] = step[<<H[1..(k - 1)], k>>]
    BY <1>8 DEF Folds
  <2> TAKE k \in 1..n
  <2>1. /\ 1..k \in SUBSET (1..n) /\ 1..k # {} /\ Max(1..k) = k
        /\ (1..k) \ {k} = 1..(k - 1)
    BY <1>1, PrefixSets
  <2>2. Def(H)[1..k] = Merge(H[1..(k - 1)], rest[k])
    BY <2>1
  <2> HIDE DEF Def
  <2> QED
    BY <1>5, <1>7, <2>2
<1>10. PICK a : Runs(a, S, base, step, n, H[1..n])
  BY <1>1, <1>4, <1>9, FoldRuns
<1>11. a \in [0..n -> S] /\ a[0] = base /\ a[n] = H[1..n]
       /\ \A k \in 1..n : a[k] = Merge(a[k - 1], rest[k])
  <2>1. a \in [0..n -> S] /\ a[0] = base /\ a[n] = H[1..n]
        /\ \A k \in 1..n : a[k] = step[<<a[k - 1], k>>]
    BY <1>10 DEF Runs
  <2>2. \A k \in 1..n : k - 1 \in 0..n
    BY <1>1
  <2> QED
    BY <1>5, <2>1, <2>2
<1> QED
  BY <1>2, <1>11 DEF S, n

(* A plan fits the limit and covers the range that was chosen.             *)
LEMMA PlanOK ==
  ASSUME NEW first \in RangeRequests, first.len <= InputBytes, NEW rs \in Seq(RequestSet)
  PROVE  LET plan == Plan(first, rs)
         IN /\ plan \in Seq(RangeRequests) /\ Len(plan) > 0
            /\ Total(Lens(plan)) <= InputBytes /\ Within(first, plan)
<1> DEFINE admitted == Admitted(first, rs)
           sorted == InOrder(admitted.out)
           rest == Tail(sorted)
           base == [out |-> <<Head(sorted)>>, bytes |-> admitted.bytes]
           n == Len(rest)
           c == Lens(sorted)
<1>1. admitted \in Plans(first)
  BY AdmittedOK
<1> HIDE DEF admitted
<1>2. /\ admitted.out \in Seq(RangeRequests) /\ Len(admitted.out) \in Nat
      /\ Len(admitted.out) > 0 /\ admitted.out[1] = first /\ admitted.bytes \in Nat
      /\ admitted.bytes = Total(Lens(admitted.out)) /\ admitted.bytes <= InputBytes
  BY <1>1 DEF Plans
<1>3. /\ sorted \in Seq(RangeRequests) /\ Sorted(sorted) /\ Len(sorted) = Len(admitted.out)
      /\ Total(c) = admitted.bytes
      /\ \A j \in 1..Len(admitted.out) : \E i \in 1..Len(sorted) : sorted[i] = admitted.out[j]
  <2>1. LET t == InOrder(admitted.out)
        IN /\ t \in Seq(RangeRequests) /\ Sorted(t) /\ Len(t) = Len(admitted.out)
           /\ Total(Lens(t)) = Total(Lens(admitted.out))
           /\ \A j \in 1..Len(admitted.out) : \E i \in 1..Len(t) : t[i] = admitted.out[j]
    BY <1>2, InOrderOK
  <2> QED
    BY <1>2, <2>1
<1> HIDE DEF sorted
<1>4. /\ rest \in Seq(RangeRequests) /\ n \in Nat /\ Len(sorted) = n + 1
      /\ \A k \in 1..n : rest[k] = sorted[k + 1]
      /\ \A k \in 1..(n + 1) : sorted[k] \in RangeRequests
      /\ Head(sorted) = sorted[1]
  <2>1. Len(sorted) \in Nat /\ Len(sorted) > 0 /\ sorted # << >>
    BY <1>2, <1>3
  <2> QED
    BY <1>3, <2>1
<1>5. PICK j1 \in 1..(n + 1) : sorted[j1] = first
  <2>1. 1 \in 1..Len(admitted.out)
    BY <1>2
  <2> QED
    BY <1>2, <1>3, <1>4, <2>1
<1>6. \A i, j \in 1..(n + 1) : i < j => sorted[i].off <= sorted[j].off
  BY <1>3, <1>4 DEF Sorted
<1>7. /\ c \in Seq(Nat) /\ Len(c) = n + 1
      /\ \A k \in 1..(n + 1) : c[k] = sorted[k].len
  <2>1. c \in Seq(Nat) /\ Len(c) = Len(sorted) /\ \A k \in 1..Len(sorted) : c[k] = sorted[k].len
    BY <1>3, LensAre
  <2> QED
    BY <1>4, <2>1
<1> DEFINE one == <<sorted[1]>>
<1>8. one \in Seq(RangeRequests) /\ Len(one) = 1 /\ one[1] = sorted[1]
      /\ base = [out |-> one, bytes |-> admitted.bytes]
  BY <1>4
<1> HIDE DEF base, one, rest, n, c
<1>9. base \in MergeLists /\ base.out = one /\ base.bytes = admitted.bytes
  <2>1. base.out = one /\ base.bytes = admitted.bytes /\ admitted.bytes \in Int /\ Len(one) > 0
    BY <1>2, <1>8
  <2>2. base \in [out : Seq(RangeRequests), bytes : Int]
    BY <1>8, <2>1
  <2> QED
    BY <1>2, <2>1, <2>2 DEF MergeLists
<1>10. PICK a : /\ a \in [0..n -> MergeLists] /\ a[0] = base /\ a[n] = MergedList(base, rest)
                /\ \A k \in 1..n : a[k] = Merge(a[k - 1], rest[k])
  BY <1>4, <1>9, MergeRuns DEF n
<1>11. PICK b \in [0..(n + 1) -> Nat] : SumsTo(c, b)
  BY <1>7, SumExists
<1>12. b[0] = 0 /\ \A k \in 1..(n + 1) : b[k] = b[k - 1] + c[k]
  BY <1>7, <1>11 DEF SumsTo
<1>13. admitted.bytes = b[n + 1]
  BY <1>3, <1>7, <1>11, TotalIs
<1> DEFINE Final(p) == p.out[Len(p.out)]
           Has(k) == /\ a[k].bytes - Total(Lens(a[k].out)) = b[n + 1] - b[k + 1]
                     /\ \A j \in 1..(k + 1) : Within(sorted[j], a[k].out)
                     /\ Final(a[k]).off <= sorted[k + 1].off
           P == {k \in 0..n : Has(k)}
<1>14. 0 \in P
  <2>1. Total(Lens(one)) = b[1]
    <3>1. Total(Lens(one)) = sorted[1].len
      <4>1. << >> \in Seq(RangeRequests) /\ Len(<< >>) = 0 /\ one = Append(<< >>, sorted[1])
        BY DEF one
      <4>2. Lens(<< >>) \in Seq(Nat) /\ Len(Lens(<< >>)) = 0
        BY <4>1, LensAre
      <4>3. sorted[1] \in RangeRequests /\ sorted[1].len \in Nat
        BY <1>4, RequestIs
      <4>4. Total(Lens(<< >>)) = 0
        BY <4>2, TotalNat
      <4>5. Total(Lens(Append(<< >>, sorted[1]))) = Total(Lens(<< >>)) + sorted[1].len
        <5> HIDE DEF one
        <5> QED
          BY <4>1, <4>3, LensAppended
      <4> QED
        BY <4>1, <4>3, <4>4, <4>5
    <3>2. b[1] = b[0] + c[1] /\ c[1] = sorted[1].len /\ c[1] \in Nat
      <4>1. 1 \in 1..(n + 1) /\ 1 - 1 = 0
        BY <1>4
      <4>2. b[1] = b[1 - 1] + c[1] /\ c[1] = sorted[1].len /\ sorted[1].len \in Nat
        BY <1>4, <1>7, <1>12, <4>1, RequestIs
      <4> QED
        BY <4>1, <4>2
    <3> QED
      BY <1>12, <3>1, <3>2
  <2>2. Within(sorted[1], one) /\ sorted[1].off <= sorted[1].off
    <3>1. sorted[1] \in RangeRequests
      BY <1>4
    <3>2. sorted[1].off <= sorted[1].off /\ ReqEnd(sorted[1]) <= ReqEnd(sorted[1])
      BY <3>1, RequestIs
    <3>3. 1 \in 1..Len(one)
      BY <1>8
    <3> QED
      BY <1>8, <3>2, <3>3 DEF Within
  <2>3. a[0].out = one /\ a[0].bytes = b[n + 1]
    BY <1>9, <1>10, <1>13
  <2>4. \A j \in 1..(0 + 1) : j = 1
    OBVIOUS
  <2>5. Final(a[0]) = sorted[1]
    BY <1>8, <2>3
  <2>6. Has(0)
    BY <2>1, <2>2, <2>3, <2>4, <2>5
  <2> HIDE DEF Has
  <2> QED
    BY <1>4, <2>6
<1>15. ASSUME NEW k \in 1..n, k - 1 \in P PROVE k \in P
  <2> DEFINE p == a[k - 1]
             q == a[k]
             r == rest[k]
  <2>1. k \in 0..n /\ k - 1 \in 0..n /\ (k - 1) + 1 = k /\ k \in 1..(n + 1) /\ k + 1 \in 1..(n + 1)
    BY <1>4
  <2>2. Has(k - 1)
    BY <1>15
  <2>3. p \in MergeLists /\ r \in RangeRequests /\ q = Merge(p, r) /\ r = sorted[k + 1]
    BY <1>4, <1>10, <2>1
  <2>4. /\ q.bytes - Total(Lens(q.out)) = p.bytes - Total(Lens(p.out)) - r.len
        /\ \A i \in 1..Len(p.out) : Within(p.out[i], q.out)
        /\ Final(p).off <= r.off => Within(r, q.out) /\ Final(q).off <= r.off
    <3> HIDE DEF p, q, r
    <3> QED
      BY <2>3, MergeOK
  <2>5. q \in MergeLists /\ \A i \in 1..Len(q.out) : q.out[i] \in RangeRequests
    BY <1>10, <2>1 DEF MergeLists
  <2>6. p.out \in Seq(RangeRequests) /\ Len(p.out) > 0 /\ \A i \in 1..Len(p.out) : p.out[i] \in RangeRequests
    BY <2>3 DEF MergeLists
  <2>7. p.bytes - Total(Lens(p.out)) = b[n + 1] - b[k]
        /\ \A j \in 1..k : Within(sorted[j], p.out)
        /\ Final(p).off <= sorted[k].off
    BY <2>1, <2>2
  <2>8. Final(p).off <= r.off
    <3>1. Final(p) \in RangeRequests /\ sorted[k] \in RangeRequests /\ sorted[k + 1] \in RangeRequests
      BY <1>4, <2>1, <2>6
    <3>2. sorted[k].off <= sorted[k + 1].off
      BY <1>6, <2>1
    <3> HIDE DEF Final, p, r
    <3> QED
      BY <2>3, <2>7, <3>1, <3>2, RequestIs
  <2>9. b[k + 1] = b[k] + r.len
    <3>1. b[k + 1] = b[(k + 1) - 1] + c[k + 1] /\ c[k + 1] = sorted[k + 1].len /\ (k + 1) - 1 = k
      BY <1>7, <1>12, <2>1
    <3> QED
      BY <2>3, <3>1
  <2>10. ASSUME NEW j \in 1..(k + 1) PROVE Within(sorted[j], q.out)
    <3>1. CASE j = k + 1
      BY <2>3, <2>4, <2>8, <3>1
    <3>2. CASE j # k + 1
      <4>1. j \in 1..k /\ j \in 1..(n + 1)
        BY <1>4, <2>1, <3>2
      <4>2. PICK i \in 1..Len(p.out) :
              p.out[i].off <= sorted[j].off /\ ReqEnd(sorted[j]) <= ReqEnd(p.out[i])
        BY <2>7, <4>1 DEF Within
      <4>3. PICK m \in 1..Len(q.out) :
              q.out[m].off <= p.out[i].off /\ ReqEnd(p.out[i]) <= ReqEnd(q.out[m])
        BY <2>4, <4>2 DEF Within
      <4>4. sorted[j] \in RangeRequests /\ p.out[i] \in RangeRequests /\ q.out[m] \in RangeRequests
        BY <1>4, <2>5, <2>6, <4>1
      <4>5. q.out[m].off <= sorted[j].off /\ ReqEnd(sorted[j]) <= ReqEnd(q.out[m])
        <5> DEFINE x == sorted[j]
                   y == p.out[i]
                   z == q.out[m]
        <5>1. /\ x.off \in Nat /\ y.off \in Nat /\ z.off \in Nat
              /\ ReqEnd(x) \in Nat /\ ReqEnd(y) \in Nat /\ ReqEnd(z) \in Nat
          BY <4>4, RequestIs
        <5>2. /\ y.off <= x.off /\ ReqEnd(x) <= ReqEnd(y)
              /\ z.off <= y.off /\ ReqEnd(y) <= ReqEnd(z)
          BY <4>2, <4>3
        <5> HIDE DEF x, y, z
        <5>3. z.off <= x.off /\ ReqEnd(x) <= ReqEnd(z)
          BY <5>1, <5>2
        <5> QED
          BY <5>3 DEF x, z
      <4> QED
        BY <4>5 DEF Within
    <3> QED
      BY <3>1, <3>2
  <2>11. q.bytes - Total(Lens(q.out)) = b[n + 1] - b[k + 1]
    <3>1. n + 1 \in 0..(n + 1) /\ k \in 0..(n + 1) /\ k + 1 \in 0..(n + 1)
      BY <1>4, <2>1
    <3>2. b[n + 1] \in Nat /\ b[k] \in Nat /\ b[k + 1] \in Nat
      BY <1>11, <3>1
    <3>3. r.len \in Nat
      BY <2>3, RequestIs
    <3> HIDE DEF p, q, r
    <3> QED
      BY <2>4, <2>7, <2>9, <3>2, <3>3
  <2>12. Final(q).off <= sorted[k + 1].off
    BY <2>3, <2>4, <2>8
  <2> QED
    BY <2>1, <2>10, <2>11, <2>12
<1> HIDE DEF P
<1>16. n \in P
  <2>1. \A k \in 0..n : k \in P
    BY <1>4, <1>14, <1>15, Upto
  <2> QED
    BY <1>4, <2>1
<1>17. Has(n)
  BY <1>16 DEF P
<1> DEFINE plan == a[n].out
<1>18. plan = Plan(first, rs)
  BY <1>10, Zenon DEF Plan, MergedList, base, rest, sorted, admitted
<1>19. a[n] \in MergeLists
  BY <1>4, <1>10
<1>20. /\ plan \in Seq(RangeRequests) /\ Len(plan) > 0 /\ a[n].bytes \in Int
       /\ a[n].bytes <= InputBytes
  BY <1>19 DEF MergeLists
<1>21. Total(Lens(plan)) <= InputBytes
  <2>1. Total(Lens(plan)) \in Nat
    BY <1>20, LensAre, TotalNat
  <2>2. a[n].bytes - Total(Lens(plan)) = b[n + 1] - b[n + 1] /\ b[n + 1] \in Nat
    BY <1>4, <1>11, <1>17
  <2> HIDE DEF plan
  <2>3. a[n].bytes = Total(Lens(plan))
    BY <1>20, <2>1, <2>2
  <2> QED
    BY <1>20, <2>3
<1>22. Within(first, plan)
  BY <1>5, <1>17
<1> HIDE DEF plan
<1> QED
  BY <1>18, <1>20, <1>21, <1>22

-----------------------------------------------------------------------------
(* The allocations of a round.                                             *)

(* What a list of ranges is to have allocated, old allocations kept.       *)
CapsFor(plan, old) == [i \in 1..Len(plan) |-> Greater(OldCap(old, i), plan[i].len)]

(* The allocations of a round, from those of the last one.                 *)
LEMMA CapsForAre ==
  ASSUME NEW plan \in Seq(RangeRequests), NEW f, FetchedOK(f)
  PROVE  /\ CapsFor(plan, f) \in Seq(Nat) /\ Len(CapsFor(plan, f)) = Len(plan)
         /\ \A i \in 1..Len(plan) : /\ CapsFor(plan, f)[i] = Greater(OldCap(f, i), plan[i].len)
                                    /\ plan[i].len <= CapsFor(plan, f)[i]
<1> DEFINE n == Len(plan)
<1>1. n \in Nat /\ DOMAIN f = 1..Len(f) /\ \A i \in 1..Len(f) : f[i].cap \in Nat
  BY CapsAre DEF FetchedOK
<1>2. \A i \in 1..n : plan[i].len \in Nat
  <2>1. \A i \in 1..n : plan[i] \in RangeRequests
    OBVIOUS
  <2> QED
    BY <2>1, RequestIs
<1>3. \A i \in 1..n : /\ Greater(OldCap(f, i), plan[i].len) \in Nat
                      /\ plan[i].len <= Greater(OldCap(f, i), plan[i].len)
  BY <1>1, <1>2 DEF Greater, OldCap
<1>4. /\ CapsFor(plan, f) \in [1..n -> Nat]
      /\ \A i \in 1..n : CapsFor(plan, f)[i] = Greater(OldCap(f, i), plan[i].len)
  BY <1>3 DEF CapsFor
<1> HIDE DEF n
<1>5. CapsFor(plan, f) \in Seq(Nat) /\ Len(CapsFor(plan, f)) = n
  BY <1>1, <1>4, ListIs
<1> QED
  BY <1>3, <1>4, <1>5 DEF n

(* What Reusable compares is the sum of those allocations.                 *)
SumOf(plan, f) ==
  FoldLeftDomain(LAMBDA sum, i : sum + Greater(OldCap(f, i), plan[i].len), 0, plan)

(* What Reusable adds up are those allocations.                            *)
LEMMA SumOfIs ==
  ASSUME NEW plan \in Seq(RangeRequests), NEW f, FetchedOK(f)
  PROVE  SumOf(plan, f) = Total(CapsFor(plan, f))
<1> DEFINE n == Len(plan)
           c == CapsFor(plan, f)
           I == [i \in 1..n |-> i]
           step == [x \in Nat \X (1..n) |-> x[1] + c[x[2]]]
           Def(h) == [s \in SUBSET (1..n) |->
                        IF s = {} THEN 0
                        ELSE LET x == Max(s)
                             IN h[s \ {x}] + Greater(OldCap(f, I[x]), plan[I[x]].len)]
           H == CHOOSE h : h = Def(h)
<1>1. /\ c \in Seq(Nat) /\ Len(c) = n /\ n \in Nat
      /\ \A i \in 1..n : c[i] = Greater(OldCap(f, i), plan[i].len) /\ c[i] \in Nat
  BY CapsForAre
<1>2. DOMAIN plan = 1..n
  OBVIOUS
<1>3. SumOf(plan, f) = H[1..n]
  <2>1. DOMAIN I = 1..n
    OBVIOUS
  <2>2. SumOf(plan, f)
          = FoldLeft(LAMBDA sum, i : sum + Greater(OldCap(f, i), plan[i].len), 0, I)
    BY <1>2, Zenon DEF SumOf, FoldLeftDomain
  <2> HIDE DEF I
  <2> QED
    BY <2>1, <2>2, Zenon DEF FoldLeft, MapThenFoldSet
<1> HIDE DEF c, n
<1>0. \A k \in 1..n : I[k] = k
  OBVIOUS
<1> HIDE DEF I
<1>4. step \in [Nat \X (1..n) -> Nat]
  <2>1. \A x \in Nat \X (1..n) : x[1] + c[x[2]] \in Nat
    BY <1>1
  <2> QED
    BY <2>1
<1>5. \A x \in Nat, k \in 1..n : step[<<x, k>>] = x + c[k]
  OBVIOUS
<1> HIDE DEF step
<1>6. \E h : h = Def(h)
  <2>1. PICK g \in [SUBSET (1..n) -> Nat] : Recursion(g, 0, step, n)
    BY <1>1, <1>4, FoldExists
  <2>2. ASSUME NEW s \in SUBSET (1..n), s # {}
        PROVE  step[<<g[s \ {Max(s)}], Max(s)>>]
                 = g[s \ {Max(s)}] + Greater(OldCap(f, I[Max(s)]), plan[I[Max(s)]].len)
    <3>1. Max(s) \in 1..n /\ s \ {Max(s)} \in SUBSET (1..n)
      BY <1>1, <2>2, MaxIsGreatest
    <3>2. g[s \ {Max(s)}] \in Nat
      BY <3>1
    <3> QED
      BY <1>0, <1>1, <1>5, <3>1, <3>2
  <2>3. g = Def(g)
    BY <2>1, <2>2 DEF Recursion
  <2> QED
    BY <2>3
<1>7. H = Def(H)
  <2> HIDE DEF Def
  <2> QED
    BY <1>6
<1> HIDE DEF H
<1>8. H[1..0] = 0
  <2>1. 1..0 = {} /\ {} \in SUBSET (1..n)
    OBVIOUS
  <2>2. Def(H)[{}] = 0
    BY <2>1
  <2> HIDE DEF Def
  <2> QED
    BY <1>7, <2>1, <2>2
<1>9. Folds(H, Nat, 0, step, n)
  <2> SUFFICES \A k \in 1..n : H[1..(k - 1)] \in Nat => H[1..k] = step[<<H[1..(k - 1)], k>>]
    BY <1>8 DEF Folds
  <2> TAKE k \in 1..n
  <2>1. /\ 1..k \in SUBSET (1..n) /\ 1..k # {} /\ Max(1..k) = k
        /\ (1..k) \ {k} = 1..(k - 1)
    BY <1>1, PrefixSets
  <2>2. Def(H)[1..k] = H[1..(k - 1)] + Greater(OldCap(f, I[k]), plan[I[k]].len)
    BY <2>1
  <2>3. H[1..k] = H[1..(k - 1)] + c[k]
    <3> HIDE DEF Def
    <3> QED
      BY <1>0, <1>1, <1>7, <2>2
  <2> HIDE DEF Def
  <2> QED
    BY <1>5, <2>3
<1>10. PICK a : Runs(a, Nat, 0, step, n, H[1..n])
  BY <1>1, <1>4, <1>9, FoldRuns
<1>11. SumsTo(c, a) /\ a[n] = H[1..n]
  <2>1. a \in [0..n -> Nat] /\ a[0] = 0 /\ a[n] = H[1..n]
        /\ \A k \in 1..n : a[k] = step[<<a[k - 1], k>>]
    BY <1>10 DEF Runs
  <2>2. \A k \in 1..n : k - 1 \in 0..n
    BY <1>1
  <2>3. \A k \in 1..n : a[k] = a[k - 1] + c[k]
    BY <1>5, <2>1, <2>2
  <2>4. a \in [0..n -> Int]
    BY <2>1
  <2> QED
    BY <1>1, <2>1, <2>3, <2>4 DEF SumsTo
<1>12. Total(c) = a[n]
  BY <1>1, <1>11, TotalIs
<1> QED
  BY <1>3, <1>11, <1>12 DEF c

(* A round's buffers fit the limit together, whether they reuse the last   *)
(* round's or not.                                                         *)
LEMMA AllocatedOK ==
  ASSUME NEW plan \in Seq(RangeRequests), Total(Lens(plan)) <= InputBytes,
         NEW f, FetchedOK(f)
  PROVE  LET round == Allocated(plan, f)
         IN /\ round \in Seq(RangeSet) /\ Len(round) = Len(plan)
            /\ \A i \in 1..Len(plan) :
                 /\ round[i].off = plan[i].off /\ Len(round[i].bytes) = plan[i].len
                 /\ plan[i].len <= round[i].cap
            /\ Total(CapsOf(round)) <= InputBytes
<1> DEFINE old   == IF Reusable(plan, f) THEN f ELSE << >>
           round == Allocated(plan, f)
           n     == Len(plan)
           c     == CapsFor(plan, old)
<1>1. FetchedOK(old)
  BY NoneFetched
<1>2. round = [i \in DOMAIN plan |-> [off   |-> plan[i].off,
                                       cap   |-> Greater(OldCap(old, i), plan[i].len),
                                       bytes |-> Zeroed(plan[i].len)]]
  BY Zenon DEF Allocated
<1> HIDE DEF round
<1>3. n \in Nat /\ DOMAIN plan = 1..n /\ \A i \in 1..n : plan[i].len \in Nat /\ plan[i].off \in Nat
  <2>1. n \in Nat /\ DOMAIN plan = 1..n /\ \A i \in 1..n : plan[i] \in RangeRequests
    OBVIOUS
  <2> QED
    BY <2>1, RequestIs
<1>4. /\ c \in Seq(Nat) /\ Len(c) = n
      /\ \A i \in 1..n : /\ c[i] = Greater(OldCap(old, i), plan[i].len)
                         /\ plan[i].len <= c[i] /\ c[i] \in Nat
  <2> HIDE DEF old
  <2> QED
    BY <1>1, CapsForAre
<1>5. Total(c) <= InputBytes
  <2>1. CASE Reusable(plan, f)
    <3>1. SumOf(plan, f) <= InputBytes
      BY <2>1 DEF Reusable, SumOf
    <3>2. old = f
      BY <2>1
    <3> QED
      BY <3>1, <3>2, SumOfIs
  <2>2. CASE ~Reusable(plan, f)
    <3>1. \A i \in 1..n : OldCap(old, i) = 0
      BY <2>2 DEF OldCap
    <3> DEFINE l == Lens(plan)
    <3>2. l \in Seq(Nat) /\ Len(l) = n /\ \A i \in 1..n : l[i] = plan[i].len
      BY LensAre
    <3> HIDE DEF l, old
    <3>3. \A i \in 1..n : c[i] = l[i]
      BY <1>3, <1>4, <3>1, <3>2 DEF Greater
    <3> HIDE DEF c
    <3>4. c = l
      BY <1>3, <1>4, <3>2, <3>3
    <3> QED
      BY <3>4 DEF l
  <2> QED
    BY <2>1, <2>2
<1> HIDE DEF c, n, old
<1>6. ASSUME NEW i \in 1..n
      PROVE  /\ round[i] = [off |-> plan[i].off, cap |-> c[i], bytes |-> Zeroed(plan[i].len)]
             /\ round[i] \in RangeSet /\ round[i].off = plan[i].off /\ round[i].cap = c[i]
             /\ Len(round[i].bytes) = plan[i].len
  <2>1. round[i] = [off |-> plan[i].off, cap |-> c[i], bytes |-> Zeroed(plan[i].len)]
    BY <1>2, <1>3, <1>4
  <2>2. Zeroed(plan[i].len) \in Seq(Cells) /\ Len(Zeroed(plan[i].len)) = plan[i].len
    BY <1>3, ZeroedIs
  <2> QED
    BY <1>3, <1>4, <2>1, <2>2 DEF RangeSet
<1>7. round \in Seq(RangeSet) /\ Len(round) = n
  <2>1. round \in [1..n -> RangeSet]
    <3>1. DOMAIN round = 1..n /\ round = [i \in 1..n |-> round[i]]
      BY <1>2, <1>3
    <3> QED
      BY <1>6, <3>1
  <2> QED
    BY <1>3, <2>1, ListIs
<1>8. CapsOf(round) = c
  <2>0. CapsOf(round) = [i \in 1..n |-> round[i].cap]
    BY <1>7 DEF CapsOf
  <2>1. c = [i \in 1..n |-> c[i]]
    BY <1>4
  <2> QED
    BY <1>6, <2>0, <2>1
<1> QED
  BY <1>4, <1>5, <1>6, <1>7, <1>8 DEF round, n

(* A complete round is published with the bytes that were read.            *)
LEMMA PublishedOK ==
  ASSUME NEW round \in Seq(RangeSet), Total(CapsOf(round)) <= InputBytes,
         \A i \in 1..Len(round) : Len(round[i].bytes) <= round[i].cap,
         NEW bytes,
         \A i \in 1..Len(round) :
           /\ bytes[i] \in Seq(Cells) /\ Len(bytes[i]) = Len(round[i].bytes)
           /\ \A k \in 1..Len(bytes[i]) : bytes[i][k] = round[i].off + k - 1
  PROVE  LET new == [i \in DOMAIN round |-> [round[i] EXCEPT !.bytes = bytes[i]]]
         IN /\ FetchedOK(new) /\ Len(new) = Len(round) /\ Capacity(new) <= InputBytes
            /\ \A i \in 1..Len(round) : /\ new[i].off = round[i].off
                                        /\ RangeEnd(new[i]) = RangeEnd(round[i])
<1> DEFINE n == Len(round)
           new == [i \in DOMAIN round |-> [round[i] EXCEPT !.bytes = bytes[i]]]
<1>1. n \in Nat /\ DOMAIN round = 1..n /\ \A i \in 1..n : round[i] \in RangeSet
  OBVIOUS
<1>2. ASSUME NEW i \in 1..n
      PROVE  /\ new[i] \in RangeSet /\ new[i].off = round[i].off
             /\ new[i].cap = round[i].cap /\ new[i].bytes = bytes[i]
             /\ RangeOK(new[i]) /\ RangeEnd(new[i]) = RangeEnd(round[i])
  <2>1. new[i] = [round[i] EXCEPT !.bytes = bytes[i]] /\ round[i] \in RangeSet
        /\ bytes[i] \in Seq(Cells)
    BY <1>1
  <2> HIDE DEF new
  <2>2. /\ new[i] \in RangeSet /\ new[i].off = round[i].off
        /\ new[i].cap = round[i].cap /\ new[i].bytes = bytes[i]
    BY <2>1 DEF RangeSet
  <2>3. RangeOK(new[i])
    BY <2>2 DEF RangeOK
  <2>4. RangeEnd(new[i]) = RangeEnd(round[i])
    BY <2>2 DEF RangeEnd
  <2> QED
    BY <2>2, <2>3, <2>4
<1>3. new = [i \in 1..n |-> new[i]]
  BY <1>1
<1> HIDE DEF new
<1>4. new \in Seq(RangeSet) /\ Len(new) = n
  <2>1. new \in [1..n -> RangeSet]
    BY <1>2, <1>3
  <2> QED
    BY <1>1, <2>1, ListIs
<1>5. FetchedOK(new)
  BY <1>2, <1>4 DEF FetchedOK
<1>6. CapsOf(new) = CapsOf(round)
  <2>1. CapsOf(new) = [i \in 1..n |-> new[i].cap] /\ CapsOf(round) = [i \in 1..n |-> round[i].cap]
    BY <1>4 DEF CapsOf
  <2> QED
    BY <1>2, <2>1
<1>7. Capacity(new) <= InputBytes
  BY <1>5, <1>6, CapacityIs
<1> QED
  BY <1>2, <1>4, <1>5, <1>7 DEF new
-----------------------------------------------------------------------------
(* The choice among the requests, and what decode_async keeps of them.     *)

(* What is selected was asked for and fits.                                *)
LEMMA SelectIs ==
  ASSUME NEW rs \in Seq(RequestSet)
  PROVE  Select(rs) # 0 => /\ Select(rs) \in 1..Len(rs) /\ Affordable(rs[Select(rs)])
                           /\ rs[Select(rs)] \in RequestSet
<1> DEFINE T == {i \in DOMAIN rs : Affordable(rs[i])}
<1>1. DOMAIN rs = 1..Len(rs) /\ \A i \in 1..Len(rs) : rs[i] \in RequestSet
  OBVIOUS
<1>2. Select(rs) = IF T = {} THEN 0 ELSE Min(T)
  BY DEF Select
<1>3. T \in SUBSET Nat
  BY <1>1
<1>4. T # {} => Min(T) \in T
  <2> HIDE DEF T
  <2> QED
    BY <1>3, MinIsLeast
<1> QED
  BY <1>1, <1>2, <1>4

(* A copy keeps only what was asked for, and never nothing.                *)
LEMMA CopiedOK ==
  ASSUME NEW rs \in Seq(RequestSet), Select(rs) # 0
  PROVE  LET t == CopyRequests(rs)
         IN /\ t \in Seq(RequestSet) /\ Len(t) > 0
            /\ \A i \in 1..Len(t) : \E j \in 1..Len(rs) : t[i] = rs[j]
<1> DEFINE n == Len(rs)
           E == {rs[j] : j \in 1..n}
           S == {s \in Seq(E) : Len(s) > 0}
           first == rs[Select(rs)]
           count == IF first.kind = "range" THEN Lesser(Len(rs), Ranges) ELSE 1
           base == <<first>>
           step == [x \in S \X (1..n) |-> Copy(first, count, x[1], rs[x[2]])]
           Def(h) == [s \in SUBSET (1..n) |->
                        IF s = {} THEN base
                        ELSE LET x == Max(s) IN Copy(first, count, h[s \ {x}], rs[x])]
           H == CHOOSE h : h = Def(h)
<1>1. n \in Nat /\ DOMAIN rs = 1..n /\ \A k \in 1..n : rs[k] \in E
  OBVIOUS
<1>2. CopyRequests(rs) = H[1..n]
  BY <1>1, Zenon DEF CopyRequests, FoldLeft, MapThenFoldSet
<1>3. base \in S
  <2>1. first \in E
    BY SelectIs
  <2> HIDE DEF E, first
  <2> QED
    BY <2>1
<1> HIDE DEF E, first, base, count
<1>4. \A p \in S, k \in 1..n : Copy(first, count, p, rs[k]) \in S
  <2> TAKE p \in S, k \in 1..n
  <2>1. rs[k] \in E /\ p \in Seq(E) /\ Len(p) > 0
    BY <1>1
  <2>2. Append(p, rs[k]) \in S
    BY <2>1
  <2> QED
    BY <2>2 DEF Copy
<1>5. step \in [S \X (1..n) -> S]
  <2> HIDE DEF S
  <2> QED
    BY <1>4
<1>6. \A p \in S, k \in 1..n : step[<<p, k>>] = Copy(first, count, p, rs[k])
  <2> HIDE DEF S
  <2> QED
    OBVIOUS
<1> HIDE DEF step, S
<1>7. \E h : h = Def(h)
  <2>1. PICK g \in [SUBSET (1..n) -> S] : Recursion(g, base, step, n)
    BY <1>1, <1>3, <1>5, FoldExists
  <2>2. ASSUME NEW s \in SUBSET (1..n), s # {}
        PROVE  step[<<g[s \ {Max(s)}], Max(s)>>]
                 = Copy(first, count, g[s \ {Max(s)}], rs[Max(s)])
    <3>1. Max(s) \in 1..n /\ s \ {Max(s)} \in SUBSET (1..n)
      BY <1>1, <2>2, MaxIsGreatest
    <3>2. g[s \ {Max(s)}] \in S
      BY <3>1
    <3> QED
      BY <1>6, <3>1, <3>2
  <2>3. g = Def(g)
    BY <2>1, <2>2 DEF Recursion
  <2> QED
    BY <2>3
<1>8. H = Def(H)
  <2> HIDE DEF Def
  <2> QED
    BY <1>7
<1> HIDE DEF H
<1>9. H[1..0] = base
  <2>1. 1..0 = {} /\ {} \in SUBSET (1..n)
    OBVIOUS
  <2>2. Def(H)[{}] = base
    BY <2>1
  <2> HIDE DEF Def
  <2> QED
    BY <1>8, <2>1, <2>2
<1>10. Folds(H, S, base, step, n)
  <2> SUFFICES \A k \in 1..n : H[1..(k - 1)] \in S => H[1..k] = step[<<H[1..(k - 1)], k>>]
    BY <1>9 DEF Folds
  <2> TAKE k \in 1..n
  <2>1. /\ 1..k \in SUBSET (1..n) /\ 1..k # {} /\ Max(1..k) = k
        /\ (1..k) \ {k} = 1..(k - 1)
    BY <1>1, PrefixSets
  <2>2. Def(H)[1..k] = Copy(first, count, H[1..(k - 1)], rs[k])
    BY <2>1
  <2> HIDE DEF Def
  <2> QED
    BY <1>6, <1>8, <2>2
<1>0. H[1..n] \in S
  BY <1>1, <1>3, <1>5, <1>10, FoldRuns
<1> DEFINE t == CopyRequests(rs)
<1>11. t \in S
  BY <1>0, <1>2
<1> HIDE DEF t
<1>12. t \in Seq(E) /\ Len(t) > 0
  BY <1>11 DEF S
<1>13. \A i \in 1..Len(t) : t[i] \in E
  BY <1>12
<1>14. \A i \in 1..Len(t) : \E j \in 1..n : t[i] = rs[j]
  BY <1>13 DEF E
<1>15. t \in Seq(RequestSet)
  <2>1. E \subseteq RequestSet
    BY DEF E
  <2> QED
    BY <1>12, <2>1
<1> QED
  BY <1>12, <1>14, <1>15 DEF t

-----------------------------------------------------------------------------
(* A buffered source.                                                      *)

(* A piece of the source.                                                  *)
LEMMA SourceIs ==
  ASSUME NEW from \in Nat, NEW to \in Nat, from <= to
  PROVE  /\ Source(from, to) \in Seq(Cells) /\ Len(Source(from, to)) = to - from
         /\ \A k \in 1..(to - from) : Source(from, to)[k] = from + k - 1
<1> DEFINE n == to - from
<1>1. n \in Nat
  OBVIOUS
<1>2. /\ Source(from, to) \in [1..n -> Cells]
      /\ \A k \in 1..n : Source(from, to)[k] = from + k - 1
  <2>1. \A k \in 1..n : from + k - 1 \in Nat
    OBVIOUS
  <2>2. Nat \subseteq Cells
    BY DEF Cells
  <2> QED
    BY <2>1, <2>2 DEF Source
<1> HIDE DEF n
<1>3. Source(from, to) \in Seq(Cells) /\ Len(Source(from, to)) = n
  BY <1>1, <1>2, ListIs
<1> QED
  BY <1>2, <1>3 DEF n

(* The last n of a sequence.                                               *)
LEMMA LastOfIs ==
  ASSUME NEW t \in Seq(Cells), NEW n \in Nat
  PROVE  LET v == LastOf(t, n)
         IN /\ v \in Seq(Cells) /\ Len(v) = Lesser(n, Len(t)) /\ Len(t) \in Nat
            /\ \A k \in 1..Len(v) : v[k] = t[Len(t) - Len(v) + k]
<1> DEFINE l == Len(t)
           from == Greater(l - n, 0)
           v == LastOf(t, n)
<1>1. l \in Nat
  OBVIOUS
<1>2. from \in Nat /\ from <= l /\ l - from = Lesser(n, l)
  <2> HIDE DEF l
  <2> QED
    BY <1>1 DEF Greater, Lesser
<1>3. v = SubSeq(t, from + 1, l)
  BY DEF LastOf
<1> HIDE DEF from, v, l
<1>4. /\ SubSeq(t, from + 1, l) \in Seq(Cells) /\ Len(SubSeq(t, from + 1, l)) = l - from
      /\ \A k \in 1..(l - from) : SubSeq(t, from + 1, l)[k] = t[from + k]
  <2>1. \A k \in 1..(l - from) : (from + 1) + k - 1 = from + k
    BY <1>1, <1>2
  <2> QED
    BY <1>1, <1>2, <2>1 DEF l
<1>5. l - Len(v) = from
  BY <1>1, <1>2, <1>3, <1>4
<1> QED
  BY <1>1, <1>2, <1>3, <1>4, <1>5 DEF v, l

(* What a source in order has, field by field.                             *)
LEMMA SourceFields ==
  ASSUME NEW s, SourceOK(s)
  PROVE  /\ s.policy \in {"window", "spool"} /\ s.cap \in Nat /\ s.chunk \in Nat \ {0}
         /\ s.buf \in Seq(Cells) /\ Len(s.buf) \in Nat /\ s.start \in Nat /\ s.mark \in Nat
         /\ s.eof \in BOOLEAN /\ s.exceeded \in BOOLEAN
         /\ Len(s.buf) <= s.cap /\ s.mark <= Length /\ s.start + Len(s.buf) <= s.mark
         /\ s.start <= s.mark
<1>1. /\ s.policy \in {"window", "spool"} /\ s.cap \in Nat /\ s.chunk \in Nat \ {0}
      /\ s.buf \in Seq(Cells) /\ s.start \in Nat /\ s.mark \in Nat
      /\ s.eof \in BOOLEAN /\ s.exceeded \in BOOLEAN
  BY DEF SourceOK, SourceSet
<1>2. Len(s.buf) \in Nat
  BY <1>1
<1>3. Len(s.buf) <= s.cap /\ s.mark <= Length /\ s.start + Len(s.buf) <= s.mark
  BY DEF SourceOK
<1> QED
  BY <1>1, <1>2, <1>3

(* What is read is kept behind what was: the last cap bytes, or all.       *)
LEMMA RememberOK ==
  ASSUME NEW s, SourceOK(s), ~s.exceeded, ~s.eof, NEW n \in 1..(Length - s.mark),
         s.policy = "spool" => Len(s.buf) + n <= s.cap
  PROVE  LET v == Remember(s, Source(s.mark, s.mark + n))
         IN SourceOK(v) /\ v.mark = s.mark + n /\ v.exceeded = FALSE /\ v.eof = FALSE
<1> DEFINE got == Source(s.mark, s.mark + n)
           all == s.buf \o got
           l == Len(s.buf)
           mark == s.mark + n
           kept == IF s.policy = "window" THEN LastOf(all, s.cap) ELSE all
           start == IF s.policy = "window" THEN mark - Len(kept) ELSE s.start
           v == Remember(s, got)
<1>1. /\ s.policy \in {"window", "spool"} /\ s.cap \in Nat /\ s.chunk \in Nat \ {0}
      /\ s.buf \in Seq(Cells) /\ l \in Nat /\ s.start \in Nat /\ s.mark \in Nat
      /\ s.eof = FALSE /\ s.exceeded = FALSE
      /\ l <= s.cap /\ s.mark <= Length
  BY SourceFields
<1>2. s.start + l = s.mark /\ \A k \in 1..l : s.buf[k] = s.start + k - 1
  BY DEF SourceOK
<1>3. n \in Nat /\ n >= 1 /\ mark \in Nat /\ mark <= Length /\ mark - s.mark = n
  BY <1>1, OptionsAreSizes
<1>4. got \in Seq(Cells) /\ Len(got) = n /\ \A k \in 1..n : got[k] = s.mark + k - 1
  <2> DEFINE a == s.mark
  <2>1. a \in Nat /\ mark \in Nat /\ n \in Nat /\ mark - a = n /\ a <= mark
    BY <1>1, <1>3
  <2>2. got = Source(a, mark)
    OBVIOUS
  <2> HIDE DEF a, mark, got
  <2>3. /\ Source(a, mark) \in Seq(Cells) /\ Len(Source(a, mark)) = n
        /\ \A k \in 1..n : Source(a, mark)[k] = a + k - 1
    BY <2>1, SourceIs
  <2> QED
    BY <2>2, <2>3 DEF a
<1>5. v = [s EXCEPT !.buf = kept, !.mark = mark, !.start = start]
  <2>1. Len(got) = n
    BY <1>4
  <2> HIDE DEF got
  <2> QED
    BY <2>1 DEF Remember
<1> HIDE DEF got, l, v
<1>6. all \in Seq(Cells) /\ Len(all) = l + n
      /\ \A k \in 1..(l + n) : all[k] = s.start + k - 1
  <2>1. /\ all \in Seq(Cells) /\ Len(all) = l + n
        /\ \A k \in 1..l : all[k] = s.buf[k]
        /\ \A k \in 1..n : all[l + k] = got[k]
    <3> HIDE DEF all
    <3>1. /\ all \in Seq(Cells) /\ Len(all) = Len(s.buf) + Len(got)
          /\ \A k \in 1..Len(s.buf) : all[k] = s.buf[k]
          /\ \A k \in 1..Len(got) : all[Len(s.buf) + k] = got[k]
      <4>1. s.buf \in Seq(Cells) /\ got \in Seq(Cells)
        BY <1>1, <1>4
      <4> QED
        BY <4>1, ConcatIs DEF all
    <3> QED
      BY <1>4, <3>1 DEF l
  <2> HIDE DEF all
  <2>2. ASSUME NEW k \in 1..(l + n) PROVE all[k] = s.start + k - 1
    <3>1. CASE k <= l
      <4>1. k \in 1..l
        BY <1>1, <3>1
      <4> QED
        BY <1>2, <2>1, <4>1
    <3>2. CASE k > l
      <4>1. k - l \in 1..n /\ l + (k - l) = k
        BY <1>1, <1>3, <3>2
      <4>2. all[k] = s.mark + (k - l) - 1
        BY <1>4, <2>1, <4>1
      <4> QED
        BY <1>1, <1>2, <4>2
    <3> QED
      BY <1>1, <1>3, <3>1, <3>2
  <2> QED
    BY <2>1, <2>2
<1> HIDE DEF all, mark
<1>7. /\ kept \in Seq(Cells) /\ Len(kept) \in Nat /\ Len(kept) <= s.cap
      /\ start \in Nat /\ start + Len(kept) = mark
      /\ \A k \in 1..Len(kept) : kept[k] = start + k - 1
  <2>1. CASE s.policy = "window"
    <3> DEFINE last == LastOf(all, s.cap)
    <3>1. /\ last \in Seq(Cells) /\ Len(last) = Lesser(s.cap, l + n)
          /\ \A k \in 1..Len(last) : last[k] = all[(l + n) - Len(last) + k]
      <4>1. all \in Seq(Cells) /\ s.cap \in Nat
        BY <1>1, <1>6
      <4>2. /\ last \in Seq(Cells) /\ Len(last) = Lesser(s.cap, Len(all))
            /\ \A k \in 1..Len(last) : last[k] = all[Len(all) - Len(last) + k]
        BY <4>1, LastOfIs
      <4> QED
        BY <1>6, <4>2
    <3> HIDE DEF last
    <3>2. Len(last) \in Nat /\ Len(last) <= s.cap /\ Len(last) <= l + n
      BY <1>1, <1>3, <3>1 DEF Lesser
    <3>3. s.start + (l + n) = mark
      BY <1>1, <1>2, <1>3 DEF mark
    <3>4. mark - Len(last) \in Nat
      BY <1>1, <1>3, <3>2, <3>3
    <3>5. ASSUME NEW k \in 1..Len(last) PROVE last[k] = (mark - Len(last)) + k - 1
      <4>1. (l + n) - Len(last) + k \in 1..(l + n)
        BY <1>1, <1>3, <3>2
      <4>2. last[k] = s.start + ((l + n) - Len(last) + k) - 1
        BY <1>6, <3>1, <4>1
      <4>3. s.start \in Int /\ l + n \in Int /\ Len(last) \in Int /\ k \in Int
        BY <1>1, <1>3, <3>2
      <4> QED
        BY <3>3, <4>2, <4>3
    <3>6. kept = last /\ start = mark - Len(last)
      BY <2>1 DEF last
    <3> HIDE DEF kept, start
    <3> QED
      BY <1>3, <3>1, <3>2, <3>4, <3>5, <3>6
  <2>2. CASE s.policy = "spool"
    <3>1. kept = all /\ start = s.start
      BY <2>2
    <3> HIDE DEF kept, start
    <3>2. l + n \in Nat /\ l + n <= s.cap
      BY <1>1, <1>3, <2>2 DEF l
    <3>3. s.start + (l + n) = mark
      BY <1>1, <1>2, <1>3 DEF mark
    <3> QED
      BY <1>1, <1>6, <3>1, <3>2, <3>3
  <2> QED
    BY <1>1, <2>1, <2>2
<1> HIDE DEF kept, start
<1>8. /\ v \in SourceSet /\ v.policy = s.policy /\ v.cap = s.cap /\ v.chunk = s.chunk
      /\ v.buf = kept /\ v.start = start /\ v.mark = mark /\ v.eof = FALSE /\ v.exceeded = FALSE
  <2>1. s \in SourceSet
    BY DEF SourceOK
  <2> QED
    BY <1>1, <1>3, <1>5, <1>7, <2>1 DEF SourceSet
<1>9. SourceOK(v)
  BY <1>1, <1>3, <1>7, <1>8 DEF SourceOK
<1> QED
  BY <1>8, <1>9 DEF v, got, mark

(* The progress of an operation.                                           *)
OpSet == [src : SourceSet, calls : Int, has : Seq(Cells), r : {"more", "end", "failed"}]

OpOK(o) ==
  /\ o \in OpSet /\ SourceOK(o.src)
  /\ o.r = "end" => o.src.mark = Length

Exceeds(o) == o.src.exceeded => o.r = "failed"

(* One call of the reader: more bytes, the end, or a failure.              *)
LEMMA ReadMoreOK ==
  ASSUME NEW o, OpOK(o), o.r = "more", NEW want \in Nat \ {0}
  PROVE  LET q == ReadMore(o, want)
         IN /\ OpOK(q) /\ Exceeds(q)
            /\ q.r = "more" =>
                 \E n \in 1..want : /\ q.src.mark = o.src.mark + n
                                    /\ q.has = o.has \o Source(o.src.mark, o.src.mark + n)
            /\ q.r # "more" => q.src.start = o.src.start /\ q.has = o.has
            /\ q.r = "end" => q.src.mark = o.src.mark
<1> DEFINE q     == ReadMore(o, want)
           s     == o.src
           full  == s.policy = "spool" /\ Len(s.buf) = s.cap
           room  == IF s.policy = "spool" /\ ~full THEN s.cap - Len(s.buf) ELSE want
           n     == Min({want, room, s.chunk, Length - s.mark})
           got   == Source(s.mark, s.mark + n)
           next  == [o EXCEPT !.calls = @ - 1]
           fails == s.exceeded \/ (~s.eof /\ o.calls = 0)
<1>1. /\ o \in OpSet /\ SourceOK(s) /\ o.calls \in Int /\ o.has \in Seq(Cells) /\ s \in SourceSet
      /\ (~s.exceeded => s.exceeded = FALSE)
  <2>1. SourceOK(o.src) /\ o.src.exceeded \in BOOLEAN
    BY SourceFields DEF OpOK
  <2> QED
    BY <2>1 DEF OpOK, OpSet
<1>2. /\ s.policy \in {"window", "spool"} /\ s.cap \in Nat /\ s.chunk \in Nat \ {0}
      /\ s.buf \in Seq(Cells) /\ Len(s.buf) \in Nat /\ s.start \in Nat /\ s.mark \in Nat
      /\ s.eof \in BOOLEAN /\ Len(s.buf) <= s.cap /\ s.mark <= Length
      /\ s.start + Len(s.buf) <= s.mark
  BY <1>1, SourceFields
<1>3. next \in OpSet /\ next.src = s /\ next.has = o.has /\ next.r = "more"
  <2>1. o.calls - 1 \in Int
    BY <1>1
  <2> QED
    BY <1>1, <2>1 DEF OpSet
<1>4. CASE fails
  <2>1. q = [o EXCEPT !.r = "failed"]
    BY <1>4, Zenon DEF ReadMore
  <2> HIDE DEF q, s
  <2>2. q \in OpSet /\ q.src = s /\ q.r = "failed" /\ q.has = o.has
    BY <1>1, <2>1 DEF OpSet, s
  <2>3. OpOK(q) /\ Exceeds(q)
    BY <1>1, <2>2 DEF OpOK, Exceeds
  <2> QED
    BY <2>2, <2>3 DEF q, s
<1>5. CASE ~fails /\ s.eof
  <2>1. q = [o EXCEPT !.r = "end"]
    <3>1. /\ ~fails /\ (~fails /\ s.eof) /\ ~(~fails /\ ~s.eof /\ s.mark = Length)
          /\ ~(~fails /\ ~s.eof /\ full /\ s.mark < Length)
      BY <1>5
    <3> DEFINE g1 == fails
               g2 == ~fails /\ s.eof
               g3 == ~fails /\ ~s.eof /\ s.mark = Length
               g4 == ~fails /\ ~s.eof /\ full /\ s.mark < Length
               e3 == [next EXCEPT !.r = "end", !.src.eof = TRUE]
               e4 == [next EXCEPT !.r = "failed", !.src.exceeded = TRUE, !.src.mark = @ + 1]
               e5 == [next EXCEPT !.src = Remember(s, got), !.has = @ \o got]
    <3>2. q = CASE g1 -> [o EXCEPT !.r = "failed"]
                [] g2 -> [o EXCEPT !.r = "end"]
                [] g3 -> e3
                [] g4 -> e4
                [] OTHER -> e5
      BY DEF ReadMore
    <3> HIDE DEF q, g1, g2, g3, g4, e3, e4, e5
    <3>3. ~g1 /\ g2 /\ ~g3 /\ ~g4
      BY <3>1 DEF g1, g2, g3, g4
    <3> QED
      BY <3>2, <3>3
  <2>2. s.mark = Length /\ ~s.exceeded
    BY <1>1, <1>5 DEF SourceOK
  <2> HIDE DEF q, s
  <2>3. q \in OpSet /\ q.src = s /\ q.r = "end" /\ q.has = o.has
    BY <1>1, <2>1 DEF OpSet, s
  <2>4. OpOK(q) /\ Exceeds(q)
    BY <1>1, <2>2, <2>3 DEF OpOK, Exceeds
  <2> QED
    BY <2>3, <2>4 DEF q, s
<1>6. CASE ~fails /\ ~s.eof /\ s.mark = Length
  <2>1. q = [next EXCEPT !.r = "end", !.src.eof = TRUE]
    <3>1. s.mark \in Int /\ ~(s.mark < s.mark)
      BY <1>2
    <3>2. /\ ~fails /\ ~(~fails /\ s.eof) /\ (~fails /\ ~s.eof /\ s.mark = Length)
          /\ ~(~fails /\ ~s.eof /\ full /\ s.mark < Length)
      BY <1>6, <3>1
    <3> QED
      BY <3>2, Zenon DEF ReadMore
  <2> DEFINE t == [s EXCEPT !.eof = TRUE]
  <2>2. /\ t \in SourceSet /\ t.policy = s.policy /\ t.cap = s.cap /\ t.chunk = s.chunk
        /\ t.buf = s.buf /\ t.start = s.start /\ t.mark = s.mark /\ t.eof = TRUE
        /\ t.exceeded = FALSE
    BY <1>1, <1>6 DEF SourceSet
  <2> HIDE DEF t
  <2>3. SourceOK(t)
    BY <1>1, <1>6, <2>2 DEF SourceOK
  <2>4. q = [next EXCEPT !.r = "end", !.src = t]
    BY <1>3, <2>1 DEF t
  <2> HIDE DEF q, next, s
  <2>5. q \in OpSet /\ q.src = t /\ q.r = "end" /\ q.has = o.has
    BY <1>3, <2>2, <2>4 DEF OpSet
  <2>6. OpOK(q) /\ Exceeds(q)
    BY <1>6, <2>2, <2>3, <2>5 DEF OpOK, Exceeds
  <2> QED
    BY <2>2, <2>5, <2>6 DEF q, s
<1>7. CASE ~fails /\ ~s.eof /\ full /\ s.mark < Length
  <2>1. q = [next EXCEPT !.r = "failed", !.src.exceeded = TRUE, !.src.mark = @ + 1]
    <3>1. s.mark # Length
      BY <1>2, <1>7
    <3>2. /\ ~fails /\ ~s.eof /\ full /\ s.mark < Length /\ ~(~s.eof /\ s.mark = Length)
      BY <1>7, <3>1
    <3> QED
      BY <3>2, Zenon DEF ReadMore
  <2> DEFINE t == [s EXCEPT !.exceeded = TRUE, !.mark = @ + 1]
  <2>2. /\ t \in SourceSet /\ t.policy = s.policy /\ t.cap = s.cap /\ t.chunk = s.chunk
        /\ t.buf = s.buf /\ t.start = s.start /\ t.mark = s.mark + 1 /\ t.eof = s.eof
        /\ t.exceeded = TRUE
    <3>1. s.mark + 1 \in Nat /\ s \in SourceSet
      BY <1>1, <1>2
    <3>2. t = [s EXCEPT !.exceeded = TRUE, !.mark = s.mark + 1]
      OBVIOUS
    <3> HIDE DEF t, s
    <3> QED
      BY <3>1, <3>2 DEF SourceSet
  <2> HIDE DEF t
  <2>3. s.mark + 1 <= Length /\ s.start + Len(s.buf) <= s.mark + 1
    BY <1>2, <1>7, OptionsAreSizes
  <2>4. SourceOK(t)
    BY <1>1, <1>7, <2>2, <2>3 DEF SourceOK
  <2>5. q = [next EXCEPT !.r = "failed", !.src = t]
    BY <1>3, <2>1 DEF t
  <2> HIDE DEF q, next, s
  <2>6. q \in OpSet /\ q.src = t /\ q.r = "failed" /\ q.has = o.has
    BY <1>3, <2>2, <2>5 DEF OpSet
  <2>7. OpOK(q) /\ Exceeds(q)
    BY <2>4, <2>6 DEF OpOK, Exceeds
  <2> QED
    BY <2>2, <2>6, <2>7 DEF q, s
<1>8. CASE ~fails /\ ~s.eof /\ s.mark # Length /\ ~(full /\ s.mark < Length)
  <2>1. q = [next EXCEPT !.src = Remember(s, got), !.has = @ \o got]
    <3>1. /\ ~fails /\ ~(~fails /\ s.eof) /\ ~(~fails /\ ~s.eof /\ s.mark = Length)
          /\ ~(~fails /\ ~s.eof /\ full /\ s.mark < Length)
      BY <1>8
    <3> HIDE DEF fails, full
    <3>2. q = [next EXCEPT !.src = Remember(next.src, got), !.has = next.has \o got]
            \/ q = [next EXCEPT !.src = Remember(s, got), !.has = @ \o got]
      BY <3>1, Zenon DEF ReadMore, fails, full
    <3> HIDE DEF q, got, next, s
    <3> QED
      BY <1>3, <3>2
  <2>2. s.mark < Length /\ ~full
    BY <1>2, <1>8, OptionsAreSizes
  <2>3. room \in Nat /\ room >= 1 /\ (s.policy = "spool" => room = s.cap - Len(s.buf))
    BY <1>2, <2>2
  <2> HIDE DEF room, full
  <2>4. n \in 1..want /\ n \in 1..(Length - s.mark) /\ n <= room
    <3> DEFINE T == {want, room, s.chunk, Length - s.mark}
    <3>1. Length - s.mark \in Nat /\ Length - s.mark >= 1
      BY <1>2, <2>2, OptionsAreSizes
    <3>2. T \in SUBSET Nat /\ T # {} /\ \A x \in T : x >= 1
      BY <1>2, <2>3, <3>1
    <3>3. want \in T /\ room \in T /\ (Length - s.mark) \in T
      OBVIOUS
    <3> DEFINE m == Min(T)
    <3> HIDE DEF T
    <3>4. m \in T /\ \A x \in T : m <= x
      BY <3>2, MinIsLeast
    <3>5. n = m
      BY DEF T
    <3> HIDE DEF m, n
    <3>6. m \in Nat /\ m >= 1 /\ m <= want /\ m <= room /\ m <= Length - s.mark
      BY <3>2, <3>3, <3>4
    <3> QED
      BY <3>1, <3>5, <3>6
  <2> HIDE DEF n
  <2> DEFINE t == Remember(s, got)
             h == o.has \o got
  <2>5. SourceOK(t) /\ t.mark = s.mark + n /\ t.exceeded = FALSE /\ t.eof = FALSE
    <3>1. s.policy = "spool" => Len(s.buf) + n <= s.cap
      BY <1>2, <2>3, <2>4
    <3>2. ~s.exceeded /\ ~s.eof
      BY <1>1, <1>8
    <3> HIDE DEF s
    <3> QED
      BY <1>1, <2>4, <3>1, <3>2, RememberOK
  <2>6. got \in Seq(Cells)
    <3>1. s.mark + n \in Nat /\ s.mark <= s.mark + n
      BY <1>2, <2>4
    <3> HIDE DEF s
    <3> QED
      BY <1>2, <3>1, SourceIs
  <2>7. h \in Seq(Cells)
    BY <1>1, <2>6
  <2> HIDE DEF q, t, h, got, next, s
  <2>8. q = [next EXCEPT !.src = t, !.has = h]
    BY <1>3, <2>1 DEF t, h
  <2>9. t \in SourceSet
    BY <2>5 DEF SourceOK
  <2>10. q \in OpSet /\ q.src = t /\ q.r = "more" /\ q.has = h
    BY <1>3, <2>7, <2>8, <2>9 DEF OpSet
  <2>11. OpOK(q) /\ Exceeds(q)
    BY <2>5, <2>10 DEF OpOK, Exceeds
  <2> QED
    BY <2>4, <2>5, <2>10, <2>11 DEF q, h, got, s
<1> HIDE DEF q, fails, full
<1> QED
  BY <1>4, <1>5, <1>6, <1>7, <1>8

(* Advancing the mark: nothing is kept for the answer.                     *)
AdvSet(offset) ==
  {o \in OpSet : OpOK(o) /\ Exceeds(o) /\ o.has = << >> /\ o.src.start <= offset}

AdvStep(o, offset) ==
  IF o.r = "more" /\ o.src.mark < offset
  THEN [ReadMore(o, offset - o.src.mark) EXCEPT !.has = << >>] ELSE o

(* One read on the way to an offset moves the mark or is the last.         *)
LEMMA AdvStepOK ==
  ASSUME NEW offset \in Nat, NEW o \in AdvSet(offset)
  PROVE  LET q == AdvStep(o, offset)
         IN /\ q \in AdvSet(offset)
            /\ q.r = "more" /\ q.src.mark < offset =>
                 o.r = "more" /\ o.src.mark < offset /\ q.src.mark >= o.src.mark + 1
<1> DEFINE q == AdvStep(o, offset)
           want == offset - o.src.mark
           m == ReadMore(o, want)
<1>1. /\ o \in OpSet /\ OpOK(o) /\ SourceOK(o.src) /\ o.has = << >> /\ o.src.start <= offset
      /\ o.src.mark \in Nat /\ o.src.start \in Nat
  <2>1. OpOK(o) /\ SourceOK(o.src) /\ o \in OpSet /\ o.has = << >> /\ o.src.start <= offset
    BY DEF AdvSet, OpOK
  <2> QED
    BY <2>1, SourceFields
<1>2. CASE o.r = "more" /\ o.src.mark < offset
  <2>1. q = [m EXCEPT !.has = << >>]
    BY <1>2 DEF AdvStep
  <2>2. want \in Nat \ {0}
    BY <1>1, <1>2
  <2> HIDE DEF want
  <2>3. /\ OpOK(m) /\ Exceeds(m)
        /\ m.r = "more" => \E n \in 1..want : m.src.mark = o.src.mark + n
        /\ m.r # "more" => m.src.start = o.src.start
    BY <1>1, <1>2, <2>2, ReadMoreOK
  <2> HIDE DEF m, q
  <2>4. m \in OpSet /\ SourceOK(m.src) /\ m.src.mark \in Nat /\ m.src.start \in Nat
        /\ m.src.start <= m.src.mark
    <3>1. m \in OpSet /\ SourceOK(m.src)
      BY <2>3 DEF OpOK
    <3> QED
      BY <3>1, SourceFields
  <2>5. q \in OpSet /\ q.src = m.src /\ q.r = m.r /\ q.has = << >>
    <3>1. << >> \in Seq(Cells)
      OBVIOUS
    <3> QED
      BY <2>1, <2>4, <3>1 DEF OpSet
  <2>6. OpOK(q) /\ Exceeds(q)
    BY <2>3, <2>5 DEF OpOK, Exceeds
  <2>7. m.r = "more" => m.src.mark >= o.src.mark + 1 /\ m.src.mark <= offset
    BY <1>1, <2>2, <2>3 DEF want
  <2>8. m.src.start <= offset
    BY <1>1, <2>3, <2>4, <2>7
  <2>9. q \in AdvSet(offset)
    BY <2>5, <2>6, <2>8 DEF AdvSet
  <2> QED
    BY <1>2, <2>5, <2>7, <2>9 DEF q
<1>3. CASE ~(o.r = "more" /\ o.src.mark < offset)
  <2>1. q = o
    BY <1>3 DEF AdvStep
  <2> HIDE DEF q
  <2>2. q \in AdvSet(offset)
    BY <2>1
  <2> QED
    BY <1>3, <2>1, <2>2 DEF q
<1> QED
  BY <1>2, <1>3

(* The fold of AdvanceTo, step by step.                                    *)
LEMMA AdvanceRuns ==
  ASSUME NEW offset \in Nat, NEW base \in AdvSet(offset)
  PROVE  \E a : /\ a \in [0..Plenty -> AdvSet(offset)] /\ a[0] = base
                /\ a[Plenty] = AdvanceTo(base, offset)
                /\ \A k \in 1..Plenty : a[k] = AdvStep(a[k - 1], offset)
<1> DEFINE n == Plenty
           S == AdvSet(offset)
           I == [i \in 1..Plenty |-> i]
           step == [x \in S \X (1..n) |-> AdvStep(x[1], offset)]
           Def(h) == [s \in SUBSET (1..n) |->
                        IF s = {} THEN base
                        ELSE LET x == Max(s) IN AdvStep(h[s \ {x}], offset)]
           H == CHOOSE h : h = Def(h)
<1>1. n \in Nat
  BY OptionsAreSizes DEF Plenty
<1>2. AdvanceTo(base, offset) = H[1..n]
  <2>1. AdvanceTo(base, offset) = FoldLeft(LAMBDA o, i : AdvStep(o, offset), base, I)
    BY DEF AdvanceTo, Repeat, AdvStep
  <2>2. DOMAIN I = 1..n
    OBVIOUS
  <2> HIDE DEF I
  <2> QED
    BY <2>1, <2>2, Zenon DEF FoldLeft, MapThenFoldSet
<1> HIDE DEF n
<1>3. \A p \in S : AdvStep(p, offset) \in S
  BY AdvStepOK
<1> HIDE DEF S
<1>4. step \in [S \X (1..n) -> S]
  BY <1>3
<1>5. \A p \in S, k \in 1..n : step[<<p, k>>] = AdvStep(p, offset)
  OBVIOUS
<1> HIDE DEF step
<1>6. \E h : h = Def(h)
  <2>1. PICK g \in [SUBSET (1..n) -> S] : Recursion(g, base, step, n)
    BY <1>1, <1>4, FoldExists DEF S
  <2>2. ASSUME NEW s \in SUBSET (1..n), s # {}
        PROVE  step[<<g[s \ {Max(s)}], Max(s)>>] = AdvStep(g[s \ {Max(s)}], offset)
    <3>1. Max(s) \in 1..n /\ s \ {Max(s)} \in SUBSET (1..n)
      BY <1>1, <2>2, MaxIsGreatest
    <3>2. g[s \ {Max(s)}] \in S
      BY <3>1
    <3> QED
      BY <1>5, <3>1, <3>2
  <2>3. g = Def(g)
    BY <2>1, <2>2 DEF Recursion
  <2> QED
    BY <2>3
<1>7. H = Def(H)
  <2> HIDE DEF Def
  <2> QED
    BY <1>6
<1> HIDE DEF H
<1>8. H[1..0] = base
  <2>1. 1..0 = {} /\ {} \in SUBSET (1..n)
    OBVIOUS
  <2>2. Def(H)[{}] = base
    BY <2>1
  <2> HIDE DEF Def
  <2> QED
    BY <1>7, <2>1, <2>2
<1>9. Folds(H, S, base, step, n)
  <2> SUFFICES \A k \in 1..n : H[1..(k - 1)] \in S => H[1..k] = step[<<H[1..(k - 1)], k>>]
    BY <1>8 DEF Folds
  <2> TAKE k \in 1..n
  <2>1. /\ 1..k \in SUBSET (1..n) /\ 1..k # {} /\ Max(1..k) = k
        /\ (1..k) \ {k} = 1..(k - 1)
    BY <1>1, PrefixSets
  <2>2. Def(H)[1..k] = AdvStep(H[1..(k - 1)], offset)
    BY <2>1
  <2> HIDE DEF Def
  <2> QED
    BY <1>5, <1>7, <2>2
<1>10. PICK a : Runs(a, S, base, step, n, H[1..n])
  <2>1. base \in S
    BY DEF S
  <2> QED
    BY <1>1, <1>4, <1>9, <2>1, FoldRuns
<1>11. a \in [0..n -> S] /\ a[0] = base /\ a[n] = H[1..n]
       /\ \A k \in 1..n : a[k] = AdvStep(a[k - 1], offset)
  <2>1. a \in [0..n -> S] /\ a[0] = base /\ a[n] = H[1..n]
        /\ \A k \in 1..n : a[k] = step[<<a[k - 1], k>>]
    BY <1>10 DEF Runs
  <2>2. \A k \in 1..n : k - 1 \in 0..n
    BY <1>1
  <2> QED
    BY <1>5, <2>1, <2>2
<1> QED
  BY <1>2, <1>11 DEF S, n

(* Plenty of steps reach the offset, the end or a failure.                 *)
LEMMA AdvanceOK ==
  ASSUME NEW offset \in Nat, NEW base \in AdvSet(offset)
  PROVE  LET op == AdvanceTo(base, offset)
         IN op \in AdvSet(offset) /\ (op.r = "more" => op.src.mark >= offset)
<1>1. PICK a : /\ a \in [0..Plenty -> AdvSet(offset)] /\ a[0] = base
               /\ a[Plenty] = AdvanceTo(base, offset)
               /\ \A k \in 1..Plenty : a[k] = AdvStep(a[k - 1], offset)
  BY AdvanceRuns
<1>2. Plenty \in Nat /\ Plenty > Length
  BY OptionsAreSizes DEF Plenty
<1>3. \A k \in 0..Plenty : a[k].src.mark \in Nat /\ a[k].src.mark <= Length
  <2> TAKE k \in 0..Plenty
  <2>1. a[k] \in AdvSet(offset)
    BY <1>1
  <2>2. SourceOK(a[k].src)
    BY <2>1 DEF AdvSet, OpOK
  <2> QED
    BY <2>2, SourceFields
<1> DEFINE Going(k) == a[k].r = "more" /\ a[k].src.mark < offset
           P == {k \in 0..Plenty : Going(k) => a[k].src.mark >= k}
<1>4. 0 \in P
  BY <1>2, <1>3
<1>5. ASSUME NEW k \in 1..Plenty, k - 1 \in P PROVE k \in P
  <2>1. k \in 0..Plenty /\ k - 1 \in 0..Plenty
    BY <1>2
  <2>2. a[k - 1] \in AdvSet(offset) /\ a[k] = AdvStep(a[k - 1], offset)
    BY <1>1, <2>1
  <2>3. Going(k) => Going(k - 1) /\ a[k].src.mark >= a[k - 1].src.mark + 1
    BY <2>2, AdvStepOK
  <2>4. Going(k - 1) => a[k - 1].src.mark >= k - 1
    BY <1>5
  <2> HIDE DEF Going
  <2>5. Going(k) => a[k].src.mark >= k
    BY <1>3, <2>1, <2>3, <2>4
  <2> QED
    BY <2>1, <2>5
<1> HIDE DEF P
<1>6. Plenty \in P
  <2>1. \A k \in 0..Plenty : k \in P
    BY <1>2, <1>4, <1>5, Upto
  <2> QED
    BY <1>2, <2>1
<1>7. ~Going(Plenty)
  <2>1. Plenty \in 0..Plenty /\ (Going(Plenty) => a[Plenty].src.mark >= Plenty)
    BY <1>2, <1>6 DEF P
  <2> HIDE DEF Going
  <2> QED
    BY <1>2, <1>3, <2>1, OptionsAreSizes
<1>8. a[Plenty] \in AdvSet(offset) /\ a[Plenty].src.mark \in Nat
  BY <1>1, <1>2, <1>3
<1> QED
  BY <1>1, <1>7, <1>8

(* Filling the answer: the source's bytes at the offset.                   *)
FillSet(offset, n0) ==
  {o \in OpSet :
     /\ OpOK(o) /\ Exceeds(o) /\ Len(o.has) <= n0
     /\ \A k \in 1..Len(o.has) : o.has[k] = offset + k - 1
     /\ o.r # "failed" /\ Len(o.has) < n0 => offset + Len(o.has) = o.src.mark}

FillStep(o, n0) ==
  IF o.r = "more" /\ Len(o.has) < n0 THEN ReadMore(o, n0 - Len(o.has)) ELSE o

(* One read for the answer adds to it or is the last.                      *)
LEMMA FillStepOK ==
  ASSUME NEW offset \in Nat, NEW n0 \in Nat, NEW o \in FillSet(offset, n0)
  PROVE  LET q == FillStep(o, n0)
         IN /\ q \in FillSet(offset, n0)
            /\ q.r = "more" /\ Len(q.has) < n0 =>
                 o.r = "more" /\ Len(o.has) < n0 /\ q.src.mark >= o.src.mark + 1
<1> DEFINE q == FillStep(o, n0)
           l == Len(o.has)
           want == n0 - l
<1>1. /\ o \in OpSet /\ OpOK(o) /\ SourceOK(o.src) /\ l \in Nat /\ l <= n0
      /\ o.has \in Seq(Cells) /\ \A k \in 1..l : o.has[k] = offset + k - 1
      /\ o.r # "failed" /\ l < n0 => offset + l = o.src.mark
      /\ o.src.mark \in Nat
  <2>1. /\ OpOK(o) /\ SourceOK(o.src) /\ o \in OpSet /\ Len(o.has) <= n0
        /\ \A k \in 1..Len(o.has) : o.has[k] = offset + k - 1
        /\ o.r # "failed" /\ Len(o.has) < n0 => offset + Len(o.has) = o.src.mark
    BY DEF FillSet, OpOK
  <2>2. o.has \in Seq(Cells) /\ Len(o.has) \in Nat
    BY <2>1 DEF OpSet
  <2> QED
    BY <2>1, <2>2, SourceFields
<1>2. CASE o.r = "more" /\ l < n0
  <2>1. q = ReadMore(o, want)
    BY <1>2 DEF FillStep
  <2>2. want \in Nat \ {0} /\ offset + l = o.src.mark
    <3> HIDE DEF l
    <3> QED
      BY <1>1, <1>2
  <2> HIDE DEF want, l
  <2>3. /\ OpOK(q) /\ Exceeds(q)
        /\ q.r = "more" =>
             \E n \in 1..want : /\ q.src.mark = o.src.mark + n
                                /\ q.has = o.has \o Source(o.src.mark, o.src.mark + n)
        /\ q.r # "more" => q.has = o.has
        /\ q.r = "end" => q.src.mark = o.src.mark
    <3> DEFINE m == ReadMore(o, want)
    <3>1. /\ OpOK(m) /\ Exceeds(m)
          /\ m.r = "more" =>
               \E n \in 1..want : /\ m.src.mark = o.src.mark + n
                                  /\ m.has = o.has \o Source(o.src.mark, o.src.mark + n)
          /\ m.r # "more" => m.has = o.has
          /\ m.r = "end" => m.src.mark = o.src.mark
      BY <1>1, <1>2, <2>2, ReadMoreOK
    <3> HIDE DEF q
    <3> QED
      BY <2>1, <3>1
  <2> HIDE DEF q
  <2>4. q \in OpSet /\ q.has \in Seq(Cells) /\ q.r \in {"more", "end", "failed"}
    BY <2>3 DEF OpOK, OpSet
  <2>5. CASE q.r = "more"
    <3>1. PICK n \in 1..want : /\ q.src.mark = o.src.mark + n
                               /\ q.has = o.has \o Source(o.src.mark, o.src.mark + n)
      BY <2>3, <2>5
    <3> DEFINE got == Source(o.src.mark, o.src.mark + n)
    <3>2. n \in Nat /\ n >= 1 /\ l + n <= n0
      BY <1>1, <2>2 DEF want
    <3>3. got \in Seq(Cells) /\ Len(got) = n /\ \A k \in 1..n : got[k] = o.src.mark + k - 1
      <4>1. o.src.mark + n \in Nat /\ o.src.mark <= o.src.mark + n /\ (o.src.mark + n) - o.src.mark = n
        BY <1>1, <3>2
      <4> QED
        <5> DEFINE m == o.src.mark
                   to == o.src.mark + n
        <5>1. m \in Nat /\ to \in Nat /\ m <= to /\ to - m = n
          BY <1>1, <4>1
        <5> HIDE DEF m, to
        <5>2. /\ Source(m, to) \in Seq(Cells) /\ Len(Source(m, to)) = to - m
              /\ \A k \in 1..(to - m) : Source(m, to)[k] = m + k - 1
          BY <5>1, SourceIs
        <5>3. got = Source(m, to)
          BY DEF m, to
        <5> HIDE DEF got
        <5>4. got \in Seq(Cells) /\ Len(got) = n /\ \A k \in 1..n : got[k] = m + k - 1
          BY <5>1, <5>2, <5>3
        <5> QED
          BY <5>4 DEF m
    <3>4. q.has = o.has \o got
      BY <3>1
    <3> HIDE DEF got
    <3>5. /\ Len(q.has) = Len(o.has) + Len(got)
          /\ \A k \in 1..Len(o.has) : q.has[k] = o.has[k]
          /\ \A k \in 1..Len(got) : q.has[Len(o.has) + k] = got[k]
      <4>1. o.has \in Seq(Cells) /\ got \in Seq(Cells)
        BY <1>1, <3>3
      <4> QED
        BY <3>4, <4>1, ConcatIs
    <3>6. Len(q.has) = l + n
      BY <3>3, <3>5 DEF l
    <3>7. ASSUME NEW k \in 1..(l + n) PROVE q.has[k] = offset + k - 1
      <4>1. CASE k <= l
        <5>1. k \in 1..l
          BY <1>1, <4>1
        <5> QED
          BY <1>1, <3>5, <5>1 DEF l
      <4>2. CASE k > l
        <5>1. k - l \in 1..n /\ l + (k - l) = k
          BY <1>1, <3>2, <4>2
        <5>2. q.has[l + (k - l)] = o.src.mark + (k - l) - 1
          BY <3>3, <3>5, <5>1 DEF l
        <5>3. k \in Int /\ l \in Int
          BY <1>1, <3>2
        <5> QED
          BY <2>2, <5>1, <5>2, <5>3
      <4> QED
        BY <1>1, <3>2, <4>1, <4>2
    <3>8. offset + Len(q.has) = q.src.mark /\ Len(q.has) <= n0
      <4>1. offset \in Int /\ l \in Int /\ n \in Int /\ o.src.mark \in Int
        BY <1>1, <3>2
      <4>2. q.src.mark = o.src.mark + n
        BY <3>1
      <4> QED
        BY <2>2, <3>2, <3>6, <4>1, <4>2
    <3>9. q \in FillSet(offset, n0)
      BY <2>3, <2>4, <3>6, <3>7, <3>8 DEF FillSet
    <3>10. q.src.mark >= o.src.mark + 1
      BY <1>1, <3>1, <3>2
    <3> QED
      BY <1>2, <3>9, <3>10 DEF q, l
  <2>6. CASE q.r = "end"
    <3>1. q.has = o.has /\ q.src.mark = o.src.mark
      BY <2>3, <2>6
    <3>2. q \in FillSet(offset, n0)
      BY <1>1, <2>2, <2>3, <2>4, <3>1 DEF FillSet, l
    <3> QED
      BY <2>6, <3>2 DEF q
  <2>7. CASE q.r = "failed"
    <3>1. q.has = o.has
      BY <2>3, <2>7
    <3>2. q \in FillSet(offset, n0)
      BY <1>1, <2>3, <2>4, <2>7, <3>1 DEF FillSet, l
    <3> QED
      BY <2>7, <3>2 DEF q
  <2> QED
    BY <2>4, <2>5, <2>6, <2>7
<1>3. CASE ~(o.r = "more" /\ l < n0)
  <2>1. q = o
    BY <1>3 DEF FillStep
  <2> HIDE DEF q
  <2>2. q \in FillSet(offset, n0)
    BY <2>1
  <2> QED
    BY <1>3, <2>1, <2>2 DEF q, l
<1> QED
  BY <1>2, <1>3

(* The fold of Fill, step by step.                                         *)
LEMMA FillRuns ==
  ASSUME NEW offset \in Nat, NEW n0 \in Nat, NEW base \in FillSet(offset, n0)
  PROVE  \E a : /\ a \in [0..Plenty -> FillSet(offset, n0)] /\ a[0] = base
                /\ a[Plenty] = Fill(base, n0)
                /\ \A k \in 1..Plenty : a[k] = FillStep(a[k - 1], n0)
<1> DEFINE n == Plenty
           S == FillSet(offset, n0)
           I == [i \in 1..Plenty |-> i]
           step == [x \in S \X (1..n) |-> FillStep(x[1], n0)]
           Def(h) == [s \in SUBSET (1..n) |->
                        IF s = {} THEN base
                        ELSE LET x == Max(s) IN FillStep(h[s \ {x}], n0)]
           H == CHOOSE h : h = Def(h)
<1>1. n \in Nat
  BY OptionsAreSizes DEF Plenty
<1>2. Fill(base, n0) = H[1..n]
  <2>1. Fill(base, n0) = FoldLeft(LAMBDA o, i : FillStep(o, n0), base, I)
    BY DEF Fill, Repeat, FillStep
  <2>2. DOMAIN I = 1..n
    OBVIOUS
  <2> HIDE DEF I
  <2> QED
    BY <2>1, <2>2, Zenon DEF FoldLeft, MapThenFoldSet
<1> HIDE DEF n
<1>3. \A p \in S : FillStep(p, n0) \in S
  BY FillStepOK
<1> HIDE DEF S
<1>4. step \in [S \X (1..n) -> S]
  BY <1>3
<1>5. \A p \in S, k \in 1..n : step[<<p, k>>] = FillStep(p, n0)
  OBVIOUS
<1> HIDE DEF step
<1>6. \E h : h = Def(h)
  <2>1. PICK g \in [SUBSET (1..n) -> S] : Recursion(g, base, step, n)
    BY <1>1, <1>4, FoldExists DEF S
  <2>2. ASSUME NEW s \in SUBSET (1..n), s # {}
        PROVE  step[<<g[s \ {Max(s)}], Max(s)>>] = FillStep(g[s \ {Max(s)}], n0)
    <3>1. Max(s) \in 1..n /\ s \ {Max(s)} \in SUBSET (1..n)
      BY <1>1, <2>2, MaxIsGreatest
    <3>2. g[s \ {Max(s)}] \in S
      BY <3>1
    <3> QED
      BY <1>5, <3>1, <3>2
  <2>3. g = Def(g)
    BY <2>1, <2>2 DEF Recursion
  <2> QED
    BY <2>3
<1>7. H = Def(H)
  <2> HIDE DEF Def
  <2> QED
    BY <1>6
<1> HIDE DEF H
<1>8. H[1..0] = base
  <2>1. 1..0 = {} /\ {} \in SUBSET (1..n)
    OBVIOUS
  <2>2. Def(H)[{}] = base
    BY <2>1
  <2> HIDE DEF Def
  <2> QED
    BY <1>7, <2>1, <2>2
<1>9. Folds(H, S, base, step, n)
  <2> SUFFICES \A k \in 1..n : H[1..(k - 1)] \in S => H[1..k] = step[<<H[1..(k - 1)], k>>]
    BY <1>8 DEF Folds
  <2> TAKE k \in 1..n
  <2>1. /\ 1..k \in SUBSET (1..n) /\ 1..k # {} /\ Max(1..k) = k
        /\ (1..k) \ {k} = 1..(k - 1)
    BY <1>1, PrefixSets
  <2>2. Def(H)[1..k] = FillStep(H[1..(k - 1)], n0)
    BY <2>1
  <2> HIDE DEF Def
  <2> QED
    BY <1>5, <1>7, <2>2
<1>10. PICK a : Runs(a, S, base, step, n, H[1..n])
  <2>1. base \in S
    BY DEF S
  <2> QED
    BY <1>1, <1>4, <1>9, <2>1, FoldRuns
<1>11. a \in [0..n -> S] /\ a[0] = base /\ a[n] = H[1..n]
       /\ \A k \in 1..n : a[k] = FillStep(a[k - 1], n0)
  <2>1. a \in [0..n -> S] /\ a[0] = base /\ a[n] = H[1..n]
        /\ \A k \in 1..n : a[k] = step[<<a[k - 1], k>>]
    BY <1>10 DEF Runs
  <2>2. \A k \in 1..n : k - 1 \in 0..n
    BY <1>1
  <2> QED
    BY <1>5, <2>1, <2>2
<1> QED
  BY <1>2, <1>11 DEF S, n

(* Plenty of reads fill the answer, or end.                                *)
LEMMA FillOK ==
  ASSUME NEW offset \in Nat, NEW n0 \in Nat, NEW base \in FillSet(offset, n0)
  PROVE  LET op == Fill(base, n0)
         IN op \in FillSet(offset, n0) /\ (op.r = "more" => Len(op.has) >= n0)
<1>1. PICK a : /\ a \in [0..Plenty -> FillSet(offset, n0)] /\ a[0] = base
               /\ a[Plenty] = Fill(base, n0)
               /\ \A k \in 1..Plenty : a[k] = FillStep(a[k - 1], n0)
  BY FillRuns
<1>2. Plenty \in Nat /\ Plenty > Length
  BY OptionsAreSizes DEF Plenty
<1>3. \A k \in 0..Plenty : a[k].src.mark \in Nat /\ a[k].src.mark <= Length
  <2> TAKE k \in 0..Plenty
  <2>1. a[k] \in FillSet(offset, n0)
    BY <1>1
  <2>2. SourceOK(a[k].src)
    BY <2>1 DEF FillSet, OpOK
  <2> QED
    BY <2>2, SourceFields
<1> DEFINE Going(k) == a[k].r = "more" /\ Len(a[k].has) < n0
           P == {k \in 0..Plenty : Going(k) => a[k].src.mark >= k}
<1>4. 0 \in P
  BY <1>2, <1>3
<1>5. ASSUME NEW k \in 1..Plenty, k - 1 \in P PROVE k \in P
  <2>1. k \in 0..Plenty /\ k - 1 \in 0..Plenty
    BY <1>2
  <2>2. a[k - 1] \in FillSet(offset, n0) /\ a[k] = FillStep(a[k - 1], n0)
    BY <1>1, <2>1
  <2>3. Going(k) => Going(k - 1) /\ a[k].src.mark >= a[k - 1].src.mark + 1
    BY <2>2, FillStepOK
  <2>4. Going(k - 1) => a[k - 1].src.mark >= k - 1
    BY <1>5
  <2> HIDE DEF Going
  <2>5. Going(k) => a[k].src.mark >= k
    BY <1>3, <2>1, <2>3, <2>4
  <2> QED
    BY <2>1, <2>5
<1> HIDE DEF P
<1>6. Plenty \in P
  <2>1. \A k \in 0..Plenty : k \in P
    BY <1>2, <1>4, <1>5, Upto
  <2> QED
    BY <1>2, <2>1
<1>7. ~Going(Plenty)
  <2>1. Plenty \in 0..Plenty /\ (Going(Plenty) => a[Plenty].src.mark >= Plenty)
    BY <1>2, <1>6 DEF P
  <2> HIDE DEF Going
  <2> QED
    BY <1>2, <1>3, <2>1, OptionsAreSizes
<1>8. a[Plenty] \in FillSet(offset, n0) /\ Len(a[Plenty].has) \in Nat
  BY <1>1, <1>2 DEF FillSet, OpSet
<1> QED
  BY <1>1, <1>7, <1>8

(* Reading to the end.                                                     *)
LenSet == {o \in OpSet : OpOK(o)}

LenStep(o) == IF o.r = "more" THEN ReadMore(o, Plenty) ELSE o

ToEnd(op) == Repeat(op, LAMBDA o : IF o.r = "more" THEN ReadMore(o, Plenty) ELSE o)

(* One read on the way to the end moves the mark or is the last.           *)
LEMMA LenStepOK ==
  ASSUME NEW o \in LenSet
  PROVE  LET q == LenStep(o)
         IN /\ q \in LenSet
            /\ q.r = "more" => o.r = "more" /\ q.src.mark >= o.src.mark + 1
<1> DEFINE q == LenStep(o)
<1>1. OpOK(o) /\ o.src.mark \in Nat
  <2>1. OpOK(o) /\ SourceOK(o.src)
    BY DEF LenSet, OpOK
  <2> QED
    BY <2>1, SourceFields
<1>2. CASE o.r = "more"
  <2>1. q = ReadMore(o, Plenty)
    BY <1>2 DEF LenStep
  <2>2. Plenty \in Nat \ {0}
    BY OptionsAreSizes DEF Plenty
  <2>3. OpOK(q) /\ (q.r = "more" => \E n \in 1..Plenty : q.src.mark = o.src.mark + n)
    <3>1. LET m == ReadMore(o, Plenty)
          IN /\ OpOK(m)
             /\ m.r = "more" =>
                  \E n \in 1..Plenty : /\ m.src.mark = o.src.mark + n
                                       /\ m.has = o.has \o Source(o.src.mark, o.src.mark + n)
      BY <1>1, <1>2, <2>2, ReadMoreOK
    <3> HIDE DEF q
    <3> QED
      BY <2>1, <3>1
  <2> HIDE DEF q
  <2>4. q.r = "more" => q.src.mark >= o.src.mark + 1
    BY <1>1, <2>2, <2>3
  <2>5. q \in LenSet
    BY <2>3 DEF LenSet, OpOK
  <2> QED
    BY <1>2, <2>4, <2>5 DEF q
<1>3. CASE o.r # "more"
  BY <1>3 DEF LenStep
<1> QED
  BY <1>2, <1>3

(* The fold of LenOf, step by step.                                        *)
LEMMA LenRuns ==
  ASSUME NEW base \in LenSet
  PROVE  \E a : /\ a \in [0..Plenty -> LenSet] /\ a[0] = base
                /\ a[Plenty] = ToEnd(base)
                /\ \A k \in 1..Plenty : a[k] = LenStep(a[k - 1])
<1> DEFINE n == Plenty
           S == LenSet
           I == [i \in 1..Plenty |-> i]
           step == [x \in S \X (1..n) |-> LenStep(x[1])]
           Def(h) == [s \in SUBSET (1..n) |->
                        IF s = {} THEN base
                        ELSE LET x == Max(s) IN LenStep(h[s \ {x}])]
           H == CHOOSE h : h = Def(h)
<1>1. n \in Nat
  BY OptionsAreSizes DEF Plenty
<1>2. ToEnd(base) = H[1..n]
  <2>1. ToEnd(base) = FoldLeft(LAMBDA o, i : LenStep(o), base, I)
    BY DEF ToEnd, Repeat, LenStep
  <2>2. DOMAIN I = 1..n
    OBVIOUS
  <2> HIDE DEF I
  <2> QED
    BY <2>1, <2>2, Zenon DEF FoldLeft, MapThenFoldSet
<1> HIDE DEF n
<1>3. \A p \in S : LenStep(p) \in S
  BY LenStepOK
<1> HIDE DEF S
<1>4. step \in [S \X (1..n) -> S]
  BY <1>3
<1>5. \A p \in S, k \in 1..n : step[<<p, k>>] = LenStep(p)
  OBVIOUS
<1> HIDE DEF step
<1>6. \E h : h = Def(h)
  <2>1. PICK g \in [SUBSET (1..n) -> S] : Recursion(g, base, step, n)
    BY <1>1, <1>4, FoldExists DEF S
  <2>2. ASSUME NEW s \in SUBSET (1..n), s # {}
        PROVE  step[<<g[s \ {Max(s)}], Max(s)>>] = LenStep(g[s \ {Max(s)}])
    <3>1. Max(s) \in 1..n /\ s \ {Max(s)} \in SUBSET (1..n)
      BY <1>1, <2>2, MaxIsGreatest
    <3>2. g[s \ {Max(s)}] \in S
      BY <3>1
    <3> QED
      BY <1>5, <3>1, <3>2
  <2>3. g = Def(g)
    BY <2>1, <2>2 DEF Recursion
  <2> QED
    BY <2>3
<1>7. H = Def(H)
  <2> HIDE DEF Def
  <2> QED
    BY <1>6
<1> HIDE DEF H
<1>8. H[1..0] = base
  <2>1. 1..0 = {} /\ {} \in SUBSET (1..n)
    OBVIOUS
  <2>2. Def(H)[{}] = base
    BY <2>1
  <2> HIDE DEF Def
  <2> QED
    BY <1>7, <2>1, <2>2
<1>9. Folds(H, S, base, step, n)
  <2> SUFFICES \A k \in 1..n : H[1..(k - 1)] \in S => H[1..k] = step[<<H[1..(k - 1)], k>>]
    BY <1>8 DEF Folds
  <2> TAKE k \in 1..n
  <2>1. /\ 1..k \in SUBSET (1..n) /\ 1..k # {} /\ Max(1..k) = k
        /\ (1..k) \ {k} = 1..(k - 1)
    BY <1>1, PrefixSets
  <2>2. Def(H)[1..k] = LenStep(H[1..(k - 1)])
    BY <2>1
  <2> HIDE DEF Def
  <2> QED
    BY <1>5, <1>7, <2>2
<1>10. PICK a : Runs(a, S, base, step, n, H[1..n])
  <2>1. base \in S
    BY DEF S
  <2> QED
    BY <1>1, <1>4, <1>9, <2>1, FoldRuns
<1>11. a \in [0..n -> S] /\ a[0] = base /\ a[n] = H[1..n]
       /\ \A k \in 1..n : a[k] = LenStep(a[k - 1])
  <2>1. a \in [0..n -> S] /\ a[0] = base /\ a[n] = H[1..n]
        /\ \A k \in 1..n : a[k] = step[<<a[k - 1], k>>]
    BY <1>10 DEF Runs
  <2>2. \A k \in 1..n : k - 1 \in 0..n
    BY <1>1
  <2> QED
    BY <1>5, <2>1, <2>2
<1> QED
  BY <1>2, <1>11 DEF S, n

(* Plenty of reads come to the end, or fail.                               *)
LEMMA ToEndOK ==
  ASSUME NEW base \in LenSet
  PROVE  LET op == ToEnd(base)
         IN op \in LenSet /\ op.r # "more"
<1>1. PICK a : /\ a \in [0..Plenty -> LenSet] /\ a[0] = base
               /\ a[Plenty] = ToEnd(base)
               /\ \A k \in 1..Plenty : a[k] = LenStep(a[k - 1])
  BY LenRuns
<1>2. Plenty \in Nat /\ Plenty > Length
  BY OptionsAreSizes DEF Plenty
<1>3. \A k \in 0..Plenty : a[k].src.mark \in Nat /\ a[k].src.mark <= Length
  <2> TAKE k \in 0..Plenty
  <2>1. a[k] \in LenSet
    BY <1>1
  <2>2. SourceOK(a[k].src)
    BY <2>1 DEF LenSet, OpOK
  <2> QED
    BY <2>2, SourceFields
<1> DEFINE Going(k) == a[k].r = "more"
           P == {k \in 0..Plenty : Going(k) => a[k].src.mark >= k}
<1>4. 0 \in P
  BY <1>2, <1>3
<1>5. ASSUME NEW k \in 1..Plenty, k - 1 \in P PROVE k \in P
  <2>1. k \in 0..Plenty /\ k - 1 \in 0..Plenty
    BY <1>2
  <2>2. a[k - 1] \in LenSet /\ a[k] = LenStep(a[k - 1])
    BY <1>1, <2>1
  <2>3. Going(k) => Going(k - 1) /\ a[k].src.mark >= a[k - 1].src.mark + 1
    BY <2>2, LenStepOK
  <2>4. Going(k - 1) => a[k - 1].src.mark >= k - 1
    BY <1>5
  <2> HIDE DEF Going
  <2>5. Going(k) => a[k].src.mark >= k
    BY <1>3, <2>1, <2>3, <2>4
  <2> QED
    BY <2>1, <2>5
<1> HIDE DEF P
<1>6. Plenty \in P
  <2>1. \A k \in 0..Plenty : k \in P
    BY <1>2, <1>4, <1>5, Upto
  <2> QED
    BY <1>2, <2>1
<1>7. ~Going(Plenty)
  <2>1. Plenty \in 0..Plenty /\ (Going(Plenty) => a[Plenty].src.mark >= Plenty)
    BY <1>2, <1>6 DEF P
  <2> HIDE DEF Going
  <2> QED
    BY <1>2, <1>3, <2>1, OptionsAreSizes
<1>8. a[Plenty] \in LenSet /\ a[Plenty].src.mark \in Nat
  BY <1>1, <1>2, <1>3
<1> QED
  BY <1>1, <1>7, <1>8

(* What a read of a buffered source comes to.                              *)
OutcomeSet == [src : SourceSet, ok : BOOLEAN, bytes : Seq(Cells), calls : Int]

Outcome(o) == o \in OutcomeSet /\ SourceOK(o.src)

IsSource(bytes, offset) == \A k \in 1..Len(bytes) : bytes[k] = offset + k - 1

(* A short answer ends where the source does.                              *)
Answers(bytes, offset, n) ==
  /\ Len(bytes) \in Nat /\ Len(bytes) <= n /\ IsSource(bytes, offset)
  /\ Len(bytes) < n => offset + Len(bytes) >= Length

(* An operation that has not read yet.                                     *)
LEMMA BegunOK ==
  ASSUME NEW s, SourceOK(s), NEW calls \in Int
  PROVE  LET o == Begun(s, calls)
         IN OpOK(o) /\ o.src = s /\ o.has = << >> /\ o.r = "more" /\ o \in OpSet
<1>1. << >> \in Seq(Cells) /\ s \in SourceSet
  BY DEF SourceOK
<1> QED
  BY <1>1 DEF Begun, OpOK, OpSet

(* What an operation comes to.                                             *)
LEMMA AnsweredOK ==
  ASSUME NEW o, OpOK(o)
  PROVE  LET v == Answered(o)
         IN Outcome(v) /\ v.bytes = o.has /\ (v.ok <=> o.r # "failed")
BY DEF Answered, Outcome, OutcomeSet, OpOK, OpSet

(* What a refused operation comes to.                                      *)
LEMMA RefusedOK ==
  ASSUME NEW s, SourceOK(s)
  PROVE  Outcome(Refused(s)) /\ Refused(s).ok = FALSE
<1>1. << >> \in Seq(Cells) /\ s \in SourceSet /\ 0 \in Int
  BY DEF SourceOK
<1> QED
  BY <1>1 DEF Refused, Outcome, OutcomeSet

(* A read answers with the source's bytes at its offset.                   *)
LEMMA ReadAtOK ==
  ASSUME NEW s, SourceOK(s), NEW offset \in Nat, NEW n \in Nat, NEW calls \in Int
  PROVE  LET o == ReadAt(s, offset, n, calls)
         IN Outcome(o) /\ (o.ok => Answers(o.bytes, offset, n))
<1> DEFINE begun == Begun(s, calls)
           op == AdvanceTo(begun, offset)
           l == Len(op.src.buf)
           at == offset - op.src.start
           kept == SubSeq(op.src.buf, at + 1, Lesser(at + n, l))
           ready == [op EXCEPT !.has = kept, !.r = "more"]
           o == ReadAt(s, offset, n, calls)
           Early == s.exceeded \/ offset < s.start
<1>1. OpOK(begun) /\ begun.src = s /\ begun.has = << >> /\ begun.r = "more" /\ begun \in OpSet
  BY BegunOK
<1>2. s.exceeded \in BOOLEAN /\ s.start \in Nat
  BY SourceFields
<1>3. CASE n = 0
  <2>1. o = Answered(begun)
    BY <1>3 DEF ReadAt
  <2> HIDE DEF o, begun
  <2>2. Outcome(o) /\ o.bytes = << >>
    BY <1>1, <2>1, AnsweredOK
  <2>3. Answers(o.bytes, offset, n)
    <3>1. Len(<< >>) = 0 /\ \A k \in 1..0 : FALSE
      OBVIOUS
    <3> QED
      BY <1>3, <2>2, <3>1 DEF Answers, IsSource
  <2> QED
    BY <2>2, <2>3 DEF o
<1>4. CASE n # 0 /\ Early
  <2>1. o = Refused(s)
    BY <1>4 DEF ReadAt
  <2> HIDE DEF o
  <2> QED
    BY <2>1, RefusedOK DEF o
<1>5. CASE n # 0 /\ ~Early
  <2>1. begun \in AdvSet(offset)
    <3>1. ~s.exceeded /\ s.start <= offset
      BY <1>2, <1>5
    <3> HIDE DEF begun
    <3> QED
      BY <1>1, <3>1 DEF AdvSet, Exceeds
  <2> HIDE DEF begun
  <2>2. op \in AdvSet(offset) /\ (op.r = "more" => op.src.mark >= offset)
    BY <2>1, AdvanceOK
  <2> HIDE DEF op
  <2>3. /\ op \in OpSet /\ OpOK(op) /\ Exceeds(op) /\ SourceOK(op.src) /\ op.has = << >>
        /\ op.src.start <= offset
    BY <2>2 DEF AdvSet, OpOK
  <2>4. CASE op.r = "failed"
    <3>1. o = Refused(op.src)
      BY <1>5, <2>4 DEF ReadAt, begun, op
    <3> HIDE DEF o
    <3> QED
      BY <2>3, <3>1, RefusedOK DEF o
  <2>5. CASE op.r # "failed" /\ offset > op.src.mark
    <3>1. o = Answered(op)
      BY <1>5, <2>5 DEF ReadAt, begun, op
    <3> HIDE DEF o
    <3>2. Outcome(o) /\ o.bytes = << >>
      BY <2>3, <3>1, AnsweredOK
    <3>3. offset >= Length
      <4>1. op.src.mark \in Nat /\ op.r \in {"more", "end", "failed"}
        BY <2>3, SourceFields DEF OpSet
      <4>2. op.src.mark = Length
        BY <2>2, <2>3, <2>5, <4>1 DEF OpOK
      <4> QED
        BY <2>5, <4>1, <4>2
    <3>4. Answers(<< >>, offset, n)
      <4>1. Len(<< >>) = 0 /\ \A k \in 1..0 : FALSE
        OBVIOUS
      <4> QED
        BY <3>3, <4>1 DEF Answers, IsSource
    <3> QED
      BY <3>2, <3>4 DEF o
  <2>6. CASE op.r # "failed" /\ ~(offset > op.src.mark)
    <3>1. o = Answered(Fill(ready, n))
      BY <1>5, <2>6 DEF ReadAt, begun, op
    <3> HIDE DEF o
    <3>2. /\ op.src.buf \in Seq(Cells) /\ l \in Nat /\ op.src.start \in Nat /\ op.src.mark \in Nat
          /\ op.src.exceeded = FALSE
      BY <2>3, <2>6, SourceFields DEF Exceeds
    <3>3. op.src.start + l = op.src.mark /\ \A k \in 1..l : op.src.buf[k] = op.src.start + k - 1
      BY <2>3, <3>2 DEF SourceOK
    <3> HIDE DEF l
    <3> DEFINE to == Lesser(at + n, l)
    <3>4. /\ at \in Nat /\ at <= l /\ to \in Nat /\ at <= to /\ to <= l /\ to - at \in Nat
          /\ to - at <= n /\ (to - at < n => to = l) /\ op.src.start + at = offset
      <4>1. at \in Nat /\ at <= l /\ op.src.start + at = offset
        <5>1. /\ op.src.start \in Int /\ op.src.mark \in Int /\ l \in Int /\ offset \in Int
              /\ op.src.start <= offset /\ offset <= op.src.mark /\ op.src.start + l = op.src.mark
          BY <2>3, <2>6, <3>2, <3>3
        <5> HIDE DEF l
        <5> QED
          BY <5>1
      <4>2. to = Lesser(at + n, l)
        OBVIOUS
      <4>3. l \in Nat
        BY <3>2
      <4> HIDE DEF at, to
      <4> QED
        BY <4>1, <4>2, <4>3 DEF Lesser
    <3> HIDE DEF at, to
    <3>5. /\ kept \in Seq(Cells) /\ Len(kept) = to - at
          /\ \A k \in 1..(to - at) : kept[k] = op.src.buf[at + k]
      <4>1. SubSeq(op.src.buf, at + 1, to) \in Seq(Cells)
            /\ Len(SubSeq(op.src.buf, at + 1, to)) = to - at
        BY <3>2, <3>4 DEF l
      <4>2. ASSUME NEW k \in 1..(to - at)
            PROVE  SubSeq(op.src.buf, at + 1, to)[k] = op.src.buf[at + k]
        <5>1. (at + 1) + k - 1 = at + k
          BY <3>4
        <5> QED
          BY <3>2, <3>4, <5>1 DEF l
      <4>3. kept = SubSeq(op.src.buf, at + 1, to)
        BY DEF to, l
      <4> QED
        BY <4>1, <4>2, <4>3
    <3> HIDE DEF kept
    <3>6. ASSUME NEW k \in 1..Len(kept) PROVE kept[k] = offset + k - 1
      <4>1. k \in 1..(to - at) /\ at + k \in 1..l
        <5>1. k \in 1..(to - at)
          BY <3>5
        <5>2. at \in Nat /\ to \in Nat /\ to <= l /\ l \in Nat
          BY <3>2, <3>4
        <5> QED
          BY <5>1, <5>2
      <4>2. kept[k] = op.src.start + (at + k) - 1
        BY <3>3, <3>5, <4>1
      <4>3. op.src.start \in Int /\ at \in Int /\ k \in Int /\ op.src.start + at = offset
        BY <3>2, <3>4, <4>1
      <4>4. op.src.start + (at + k) - 1 = offset + k - 1
        BY <4>3
      <4> QED
        BY <4>2, <4>4
    <3>7. /\ ready \in OpSet /\ ready.src = op.src /\ ready.has = kept /\ ready.r = "more"
      BY <2>3, <3>5 DEF OpSet
    <3> HIDE DEF ready
    <3>8. OpOK(ready) /\ Exceeds(ready)
      BY <2>3, <3>2, <3>7 DEF OpOK, Exceeds
    <3>9. Len(kept) <= n /\ (Len(kept) < n => offset + Len(kept) = op.src.mark)
      <4>1. /\ op.src.start \in Int /\ op.src.mark \in Int /\ l \in Int /\ at \in Int /\ to \in Int
            /\ op.src.start + l = op.src.mark /\ op.src.start + at = offset
            /\ to - at <= n /\ (to - at < n => to = l)
        BY <3>2, <3>3, <3>4
      <4>2. Len(kept) = to - at
        BY <3>5
      <4> QED
        BY <4>1, <4>2
    <3>10. ready \in FillSet(offset, n)
      BY <3>6, <3>7, <3>8, <3>9 DEF FillSet
    <3> DEFINE full == Fill(ready, n)
    <3>11. full \in FillSet(offset, n) /\ (full.r = "more" => Len(full.has) >= n)
      BY <3>10, FillOK
    <3> HIDE DEF full
    <3>12. /\ OpOK(full) /\ full \in OpSet /\ Len(full.has) <= n /\ full.has \in Seq(Cells)
           /\ IsSource(full.has, offset)
           /\ full.r # "failed" /\ Len(full.has) < n => offset + Len(full.has) = full.src.mark
      BY <3>11 DEF FillSet, OpSet, IsSource
    <3>13. Outcome(o) /\ o.bytes = full.has /\ (o.ok <=> full.r # "failed")
      BY <3>1, <3>12, AnsweredOK DEF full
    <3>14. o.ok => Answers(full.has, offset, n)
      <4>1. Len(full.has) \in Nat /\ full.r \in {"more", "end", "failed"}
        BY <3>12 DEF OpSet
      <4>2. o.ok /\ Len(full.has) < n => offset + Len(full.has) = Length
        BY <3>11, <3>12, <3>13, <4>1 DEF OpOK
      <4>3. Length \in Nat
        BY OptionsAreSizes
      <4> QED
        BY <3>12, <4>1, <4>2, <4>3 DEF Answers
    <3> QED
      BY <3>13, <3>14 DEF o
  <2> QED
    BY <2>4, <2>5, <2>6
<1> QED
  BY <1>3, <1>4, <1>5

(* Exactly n bytes, or a failure.                                          *)
LEMMA ReadExactOK ==
  ASSUME NEW s, SourceOK(s), NEW offset \in Nat, NEW n \in Nat, NEW calls \in Int
  PROVE  LET o == ReadExactAt(s, offset, n, calls)
         IN Outcome(o) /\ (o.ok => Len(o.bytes) = n /\ IsSource(o.bytes, offset))
<1> DEFINE p == ReadAt(s, offset, n, calls)
           all == p.ok /\ Len(p.bytes) = n
           o == ReadExactAt(s, offset, n, calls)
           Hopeless == n > 0 /\ ~s.exceeded /\ s.policy = "spool" /\ offset + n > s.cap
<1>1. Outcome(p) /\ (p.ok => Answers(p.bytes, offset, n))
  BY ReadAtOK
<1>2. o = IF Hopeless THEN Refused(s) ELSE [p EXCEPT !.ok = all]
  BY DEF ReadExactAt
<1> HIDE DEF p, o
<1>3. CASE Hopeless
  <2>1. o = Refused(s)
    BY <1>2, <1>3
  <2> QED
    BY <2>1, RefusedOK DEF o
<1>4. CASE ~Hopeless
  <2> DEFINE v == [p EXCEPT !.ok = all]
  <2>1. o = v
    BY <1>2, <1>4
  <2>2. p \in OutcomeSet /\ SourceOK(p.src) /\ all \in BOOLEAN
    BY <1>1 DEF Outcome
  <2>3. all => Len(p.bytes) = n /\ IsSource(p.bytes, offset)
    BY <1>1 DEF Answers
  <2> HIDE DEF all
  <2>4. v \in OutcomeSet /\ v.src = p.src /\ v.ok = all /\ v.bytes = p.bytes
    BY <2>2 DEF OutcomeSet
  <2> HIDE DEF v
  <2> QED
    BY <2>1, <2>2, <2>3, <2>4 DEF Outcome, o
<1> QED
  BY <1>3, <1>4

(* Ranges read one after the other.                                        *)
ManySet == {o \in [src : SourceSet, ok : BOOLEAN, bytes : Seq(Seq(Cells)), calls : Int] :
              SourceOK(o.src)}

ThenRead(o, r) ==
  IF ~o.ok THEN o
  ELSE LET next == ReadExactAt(o.src, r.off, r.len, o.calls)
       IN  [next EXCEPT !.bytes = Append(o.bytes, @)]

Spans == [off : Nat, len : Nat]

IsSpan(bytes, r) == Len(bytes) = r.len /\ IsSource(bytes, r.off)

(* One range more, or the first failure.                                   *)
LEMMA ThenReadOK ==
  ASSUME NEW o \in ManySet, NEW r \in Spans
  PROVE  LET q == ThenRead(o, r)
         IN /\ q \in ManySet
            /\ q.ok => /\ o.ok /\ Len(q.bytes) = Len(o.bytes) + 1
                       /\ IsSpan(q.bytes[Len(o.bytes) + 1], r)
                       /\ \A i \in 1..Len(o.bytes) : q.bytes[i] = o.bytes[i]
<1>1. /\ SourceOK(o.src) /\ o.ok \in BOOLEAN /\ o.bytes \in Seq(Seq(Cells)) /\ o.calls \in Int
      /\ r.off \in Nat /\ r.len \in Nat
  BY DEF ManySet, Spans
<1>2. CASE ~o.ok
  BY <1>1, <1>2 DEF ThenRead
<1>3. CASE o.ok
  <2> DEFINE p == ReadExactAt(o.src, r.off, r.len, o.calls)
             v == [p EXCEPT !.bytes = Append(o.bytes, p.bytes)]
  <2>1. ThenRead(o, r) = v
    BY <1>3 DEF ThenRead
  <2>2. Outcome(p) /\ (p.ok => IsSpan(p.bytes, r))
    BY <1>1, ReadExactOK DEF IsSpan
  <2> HIDE DEF p
  <2>3. p \in OutcomeSet /\ SourceOK(p.src) /\ p.bytes \in Seq(Cells)
    BY <2>2 DEF Outcome, OutcomeSet
  <2> DEFINE b == Append(o.bytes, p.bytes)
  <2>4. /\ b \in Seq(Seq(Cells)) /\ Len(b) = Len(o.bytes) + 1 /\ b[Len(o.bytes) + 1] = p.bytes
        /\ \A i \in 1..Len(o.bytes) : b[i] = o.bytes[i]
    BY <1>1, <2>3
  <2> HIDE DEF b
  <2>5. /\ v \in [src : SourceSet, ok : BOOLEAN, bytes : Seq(Seq(Cells)), calls : Int]
        /\ v.src = p.src /\ v.ok = p.ok /\ v.bytes = b
    BY <2>3, <2>4 DEF OutcomeSet, b
  <2> HIDE DEF v
  <2> QED
    BY <1>3, <2>1, <2>2, <2>3, <2>4, <2>5 DEF ManySet
<1> QED
  BY <1>1, <1>2, <1>3

(* The fold of ReadManyAt, step by step.                                   *)
LEMMA ManyRuns ==
  ASSUME NEW s, SourceOK(s), NEW ranges \in Seq(Spans), NEW calls \in Int
  PROVE  \E a : /\ a \in [0..Len(ranges) -> ManySet] /\ a[0] = Answered(Begun(s, calls))
                /\ a[Len(ranges)] = ReadManyAt(s, ranges, calls)
                /\ \A k \in 1..Len(ranges) : a[k] = ThenRead(a[k - 1], ranges[k])
<1> DEFINE n == Len(ranges)
           S == ManySet
           base == Answered(Begun(s, calls))
           step == [x \in S \X (1..n) |-> ThenRead(x[1], ranges[x[2]])]
           Def(h) == [t \in SUBSET (1..n) |->
                        IF t = {} THEN base
                        ELSE LET x == Max(t) IN ThenRead(h[t \ {x}], ranges[x])]
           H == CHOOSE h : h = Def(h)
<1>1. n \in Nat /\ DOMAIN ranges = 1..n /\ \A k \in 1..n : ranges[k] \in Spans
  OBVIOUS
<1>2. ReadManyAt(s, ranges, calls) = H[1..n]
  <2>1. ReadManyAt(s, ranges, calls) = FoldLeft(LAMBDA o, r : ThenRead(o, r), base, ranges)
    BY DEF ReadManyAt, ThenRead
  <2> HIDE DEF base
  <2> QED
    BY <1>1, <2>1, Zenon DEF FoldLeft, MapThenFoldSet
<1>3. base \in S
  <2>1. << >> \in Seq(Cells) /\ << >> \in Seq(Seq(Cells)) /\ s \in SourceSet
    BY DEF SourceOK
  <2>2. base = [src |-> s, ok |-> TRUE, bytes |-> << >>, calls |-> calls]
    BY DEF Answered, Begun
  <2> HIDE DEF base
  <2> QED
    BY <2>1, <2>2 DEF ManySet
<1> HIDE DEF base
<1>4. \A p \in S, k \in 1..n : ThenRead(p, ranges[k]) \in S
  <2> HIDE DEF n
  <2> QED
    BY <1>1, ThenReadOK
<1>5. step \in [S \X (1..n) -> S]
  <2> HIDE DEF S
  <2> QED
    BY <1>4
<1>6. \A p \in S, k \in 1..n : step[<<p, k>>] = ThenRead(p, ranges[k])
  <2> HIDE DEF S
  <2> QED
    OBVIOUS
<1> HIDE DEF step
<1>7. \E h : h = Def(h)
  <2>1. PICK g \in [SUBSET (1..n) -> S] : Recursion(g, base, step, n)
    BY <1>1, <1>3, <1>5, FoldExists
  <2>2. ASSUME NEW t \in SUBSET (1..n), t # {}
        PROVE  step[<<g[t \ {Max(t)}], Max(t)>>] = ThenRead(g[t \ {Max(t)}], ranges[Max(t)])
    <3>1. Max(t) \in 1..n /\ t \ {Max(t)} \in SUBSET (1..n)
      BY <1>1, <2>2, MaxIsGreatest
    <3>2. g[t \ {Max(t)}] \in S
      BY <3>1
    <3> QED
      BY <1>6, <3>1, <3>2
  <2>3. g = Def(g)
    BY <2>1, <2>2 DEF Recursion
  <2> QED
    BY <2>3
<1>8. H = Def(H)
  <2> HIDE DEF Def
  <2> QED
    BY <1>7
<1> HIDE DEF H
<1>9. H[1..0] = base
  <2>1. 1..0 = {} /\ {} \in SUBSET (1..n)
    OBVIOUS
  <2>2. Def(H)[{}] = base
    BY <2>1
  <2> HIDE DEF Def
  <2> QED
    BY <1>8, <2>1, <2>2
<1>10. Folds(H, S, base, step, n)
  <2> SUFFICES \A k \in 1..n : H[1..(k - 1)] \in S => H[1..k] = step[<<H[1..(k - 1)], k>>]
    BY <1>9 DEF Folds
  <2> TAKE k \in 1..n
  <2>1. /\ 1..k \in SUBSET (1..n) /\ 1..k # {} /\ Max(1..k) = k
        /\ (1..k) \ {k} = 1..(k - 1)
    BY <1>1, PrefixSets
  <2>2. Def(H)[1..k] = ThenRead(H[1..(k - 1)], ranges[k])
    BY <2>1
  <2> HIDE DEF Def
  <2> QED
    BY <1>6, <1>8, <2>2
<1>11. PICK a : Runs(a, S, base, step, n, H[1..n])
  BY <1>1, <1>3, <1>5, <1>10, FoldRuns
<1>12. a \in [0..n -> S] /\ a[0] = base /\ a[n] = H[1..n]
       /\ \A k \in 1..n : a[k] = ThenRead(a[k - 1], ranges[k])
  <2>1. a \in [0..n -> S] /\ a[0] = base /\ a[n] = H[1..n]
        /\ \A k \in 1..n : a[k] = step[<<a[k - 1], k>>]
    BY <1>11 DEF Runs
  <2>2. \A k \in 1..n : k - 1 \in 0..n
    BY <1>1
  <2> QED
    BY <1>6, <2>1, <2>2
<1> QED
  BY <1>2, <1>12 DEF S, n, base

(* Every range was read, or the whole fails.                               *)
LEMMA ReadManyOK ==
  ASSUME NEW s, SourceOK(s), NEW ranges \in Seq(Spans), NEW calls \in Int
  PROVE  LET o == ReadManyAt(s, ranges, calls)
         IN /\ SourceOK(o.src) /\ o.ok \in BOOLEAN
            /\ o.ok => \A i \in 1..Len(ranges) : /\ o.bytes[i] \in Seq(Cells)
                                                 /\ IsSpan(o.bytes[i], ranges[i])
<1> DEFINE n == Len(ranges)
<1>1. PICK a : /\ a \in [0..n -> ManySet] /\ a[0] = Answered(Begun(s, calls))
               /\ a[n] = ReadManyAt(s, ranges, calls)
               /\ \A k \in 1..n : a[k] = ThenRead(a[k - 1], ranges[k])
  BY ManyRuns
<1>2. n \in Nat /\ \A k \in 1..n : ranges[k] \in Spans
  OBVIOUS
<1> HIDE DEF n
<1> DEFINE All(k) == a[k].ok => /\ Len(a[k].bytes) = k
                                /\ \A i \in 1..k : IsSpan(a[k].bytes[i], ranges[i])
           P == {k \in 0..n : All(k)}
<1>3. 0 \in P
  <2>1. a[0].bytes = << >>
    BY <1>1 DEF Answered, Begun
  <2> QED
    BY <1>2, <2>1
<1>4. ASSUME NEW k \in 1..n, k - 1 \in P PROVE k \in P
  <2>1. k \in 0..n /\ k - 1 \in 0..n
    BY <1>2
  <2>2. a[k - 1] \in ManySet /\ a[k] = ThenRead(a[k - 1], ranges[k]) /\ ranges[k] \in Spans
    BY <1>1, <1>2, <2>1
  <2>3. a[k].ok => /\ a[k - 1].ok /\ Len(a[k].bytes) = Len(a[k - 1].bytes) + 1
                   /\ IsSpan(a[k].bytes[Len(a[k - 1].bytes) + 1], ranges[k])
                   /\ \A i \in 1..Len(a[k - 1].bytes) : a[k].bytes[i] = a[k - 1].bytes[i]
    BY <2>2, ThenReadOK
  <2>4. All(k - 1)
    BY <1>4
  <2>5. ASSUME a[k].ok
        PROVE  Len(a[k].bytes) = k /\ \A i \in 1..k : IsSpan(a[k].bytes[i], ranges[i])
    <3>1. Len(a[k - 1].bytes) = k - 1
      BY <2>3, <2>4, <2>5
    <3>2. Len(a[k].bytes) = k /\ IsSpan(a[k].bytes[k], ranges[k])
      BY <2>3, <2>5, <3>1
    <3>3. ASSUME NEW i \in 1..(k - 1) PROVE IsSpan(a[k].bytes[i], ranges[i])
      <4>1. a[k].bytes[i] = a[k - 1].bytes[i]
        BY <2>3, <2>5, <3>1
      <4>2. IsSpan(a[k - 1].bytes[i], ranges[i])
        BY <2>3, <2>4, <2>5
      <4> QED
        BY <4>1, <4>2
    <3>4. \A i \in 1..k : i = k \/ i \in 1..(k - 1)
      OBVIOUS
    <3> QED
      BY <3>2, <3>3, <3>4
  <2> QED
    BY <2>1, <2>5
<1> HIDE DEF P
<1>5. n \in P
  <2>1. \A k \in 0..n : k \in P
    BY <1>2, <1>3, <1>4, Upto
  <2> QED
    BY <1>2, <2>1
<1>6. All(n) /\ a[n] \in ManySet
  BY <1>1, <1>2, <1>5 DEF P
<1> DEFINE o == a[n]
<1>7. SourceOK(o.src) /\ o.ok \in BOOLEAN /\ o.bytes \in Seq(Seq(Cells))
  BY <1>6 DEF ManySet
<1>8. ASSUME o.ok, NEW i \in 1..n
      PROVE  o.bytes[i] \in Seq(Cells) /\ IsSpan(o.bytes[i], ranges[i])
  <2>1. Len(o.bytes) = n /\ IsSpan(o.bytes[i], ranges[i])
    BY <1>6, <1>8
  <2> HIDE DEF o
  <2>2. o.bytes[i] \in Seq(Cells)
    BY <1>7, <2>1
  <2> QED
    BY <2>1, <2>2
<1> QED
  BY <1>1, <1>7, <1>8 DEF n

(* A length that is given is the source's.                                 *)
LEMMA LenOfOK ==
  ASSUME NEW s, SourceOK(s), NEW calls \in Int
  PROVE  LET o == LenOf(s, calls)
         IN SourceOK(o.src) /\ o.ok \in BOOLEAN /\ (o.ok => o.total = Length)
<1> DEFINE begun == Begun(s, calls)
           op == ToEnd(begun)
<1>1. LenOf(s, calls) = [src |-> op.src, ok |-> op.r # "failed", total |-> op.src.mark]
  BY DEF LenOf, ToEnd
<1>2. begun \in LenSet
  BY BegunOK DEF LenSet
<1> HIDE DEF begun
<1>3. op \in LenSet /\ op.r # "more"
  BY <1>2, ToEndOK
<1> HIDE DEF op
<1>4. OpOK(op) /\ op \in OpSet /\ SourceOK(op.src)
  BY <1>3 DEF LenSet, OpOK
<1>5. op.r \in {"more", "end", "failed"}
  BY <1>4 DEF OpSet
<1>6. op.r = "end" => op.src.mark = Length
  BY <1>4 DEF OpOK
<1> DEFINE b == op.r # "failed"
           m == op.src.mark
           v == op.src
<1>7. LenOf(s, calls) = [src |-> v, ok |-> b, total |-> m]
  BY <1>1
<1>8. SourceOK(v) /\ b \in BOOLEAN /\ (b => m = Length)
  BY <1>3, <1>4, <1>5, <1>6
<1> HIDE DEF b, m, v
<1> QED
  BY <1>7, <1>8

-----------------------------------------------------------------------------
(* What the reads of a cursor come to.                                     *)

(* The target of a read is at least what is asked for, and one byte.       *)
LEMMA TargetOK ==
  ASSUME NEW min \in Nat, NEW size \in Nat
  PROVE  ReadTarget(min, size) \in Nat /\ ReadTarget(min, size) >= Greater(min, 1)
<1> DEFINE unit == Greater(min, 1)
           x == Greater(size, unit) + unit - 1
           q == x \div unit
<1>1. unit \in Nat \ {0} /\ x \in Nat /\ x >= unit
  BY DEF Greater
<1>2. ReadTarget(min, size) = q * unit
  BY DEF ReadTarget
<1> HIDE DEF unit, x
<1>3. q \in Nat /\ x < unit * q + unit
  BY <1>1
<1> HIDE DEF q
<1>4. q # 0
  <2> SUFFICES ASSUME q = 0 PROVE FALSE
    OBVIOUS
  <2>1. unit * q = 0
    BY <1>1
  <2> QED
    BY <1>1, <1>3, <2>1
<1>5. q - 1 \in Nat /\ q * unit = (q - 1) * unit + unit
  BY <1>1, <1>3, <1>4
<1>6. (q - 1) * unit \in Nat
  BY <1>1, <1>5
<1>7. q * unit \in Nat /\ q * unit >= unit
  BY <1>1, <1>5, <1>6
<1> QED
  BY <1>2, <1>7 DEF unit

(* The bytes a source has of n at an offset.                               *)
LEMMA HasIs ==
  ASSUME NEW offset \in Nat, NEW n \in Nat
  PROVE  LET got == Source(offset, Lesser(offset + n, Length))
         IN got \in Seq(Cells) /\ Answers(got, offset, n)
<1> DEFINE to == Lesser(offset + n, Length)
           got == Source(offset, to)
<1>1. to \in Nat /\ to <= offset + n /\ (to < offset + n => to = Length) /\ Length \in Nat
  BY OptionsAreSizes DEF Lesser
<1> HIDE DEF to
<1>2. CASE offset <= to
  <2>1. /\ got \in Seq(Cells) /\ Len(got) = to - offset
        /\ \A k \in 1..(to - offset) : got[k] = offset + k - 1
    BY <1>1, <1>2, SourceIs
  <2> HIDE DEF got
  <2>2. Len(got) \in Nat /\ Len(got) <= n /\ (Len(got) < n => offset + Len(got) >= Length)
    BY <1>1, <1>2, <2>1
  <2> QED
    BY <2>1, <2>2 DEF Answers, IsSource, got, to
<1>3. CASE offset > to
  <2>1. 1..(to - offset) = {}
    BY <1>1, <1>3
  <2>2. got \in [1..0 -> Cells]
    BY <2>1 DEF Source
  <2>3. got \in Seq(Cells) /\ Len(got) = 0
    BY <2>2, ListIs
  <2> HIDE DEF got
  <2>4. offset >= Length
    BY <1>1, <1>3
  <2> QED
    BY <2>3, <2>4 DEF Answers, IsSource, got, to
<1> QED
  BY <1>1, <1>2, <1>3

Backs(v) == IF driver = "buffered" THEN SourceOK(v) ELSE v = None

(* Backed, of a value of src.                                              *)
LEMMA BackedIs == Backed <=> Backs(src)
BY DEF Backed, Backs

(* A read gives the source's bytes, all of them unless the source ends.    *)
LEMMA ReadsOK ==
  ASSUME Backed, NEW offset \in Nat, NEW n \in Nat, NEW exact \in BOOLEAN,
         NEW o \in Reads(offset, n, exact)
  PROVE  /\ Backs(o.src) /\ o.ok \in BOOLEAN
         /\ o.ok => o.bytes \in Seq(Cells) /\ Answers(o.bytes, offset, n)
<1>1. CASE driver = "buffered"
  <2>1. SourceOK(src)
    BY <1>1 DEF Backed
  <2>2. PICK calls \in 0..Plenty :
          o = IF exact THEN ReadExactAt(src, offset, n, calls) ELSE ReadAt(src, offset, n, calls)
    BY <1>1 DEF Reads
  <2>3. calls \in Int
    OBVIOUS
  <2>4. CASE exact
    <3>1. o = ReadExactAt(src, offset, n, calls)
      BY <2>2, <2>4
    <3>2. Outcome(o) /\ (o.ok => Len(o.bytes) = n /\ IsSource(o.bytes, offset))
      BY <2>1, <2>3, <3>1, ReadExactOK
    <3> QED
      BY <1>1, <3>2 DEF Backs, Outcome, OutcomeSet, Answers
  <2>5. CASE ~exact
    <3>1. o = ReadAt(src, offset, n, calls)
      BY <2>2, <2>5
    <3>2. Outcome(o) /\ (o.ok => Answers(o.bytes, offset, n))
      BY <2>1, <2>3, <3>1, ReadAtOK
    <3> QED
      BY <1>1, <3>2 DEF Backs, Outcome, OutcomeSet
  <2> QED
    BY <2>4, <2>5
<1>2. CASE driver # "buffered"
  <2> DEFINE got == Source(offset, Lesser(offset + n, Length))
  <2>1. o = Fails \/ o = [src |-> src, ok |-> TRUE, bytes |-> got]
    BY <1>2 DEF Reads
  <2>2. Backs(src)
    BY BackedIs
  <2>3. got \in Seq(Cells) /\ Answers(got, offset, n)
    BY HasIs
  <2> HIDE DEF got
  <2>4. CASE o = Fails
    BY <2>2, <2>4 DEF Fails
  <2>5. CASE o = [src |-> src, ok |-> TRUE, bytes |-> got]
    BY <2>2, <2>3, <2>5
  <2> QED
    BY <2>1, <2>4, <2>5
<1> QED
  BY <1>1, <1>2

(* A round is fetched as a whole or not at all.                            *)
LEMMA FetchesOK ==
  ASSUME Backed, NEW round \in Seq(RangeSet), NEW o \in FetchesAll(round)
  PROVE  /\ Backs(o.src) /\ o.ok \in BOOLEAN
         /\ o.ok => \A i \in 1..Len(round) :
              /\ o.bytes[i] \in Seq(Cells) /\ Len(o.bytes[i]) = Len(round[i].bytes)
              /\ \A k \in 1..Len(o.bytes[i]) : o.bytes[i][k] = round[i].off + k - 1
<1>1. /\ DOMAIN round = 1..Len(round) /\ Len(round) \in Nat
      /\ \A i \in 1..Len(round) : /\ round[i] \in RangeSet /\ round[i].off \in Nat
                                  /\ round[i].bytes \in Seq(Cells) /\ Len(round[i].bytes) \in Nat
  <2>1. \A i \in 1..Len(round) : round[i] \in RangeSet
    OBVIOUS
  <2> QED
    BY <2>1 DEF RangeSet
<1>2. CASE driver = "buffered"
  <2> DEFINE n == Len(round)
             spans == [i \in 1..n |-> [off |-> round[i].off, len |-> Len(round[i].bytes)]]
  <2>1. SourceOK(src)
    BY <1>2 DEF Backed
  <2>2. PICK calls \in 0..Plenty :
          o = ReadManyAt(src, [i \in DOMAIN round |-> [off |-> round[i].off,
                                                       len |-> Len(round[i].bytes)]], calls)
    BY <1>2 DEF FetchesAll
  <2>3. o = ReadManyAt(src, spans, calls)
    BY <1>1, <2>2
  <2>4. /\ spans \in [1..n -> Spans]
        /\ \A i \in 1..n : spans[i].off = round[i].off /\ spans[i].len = Len(round[i].bytes)
    BY <1>1 DEF Spans
  <2> HIDE DEF spans
  <2>5. spans \in Seq(Spans) /\ Len(spans) = n
    BY <1>1, <2>4, ListIs
  <2>6. calls \in Int
    OBVIOUS
  <2>7. /\ SourceOK(o.src) /\ o.ok \in BOOLEAN
        /\ o.ok => \A i \in 1..n : o.bytes[i] \in Seq(Cells) /\ IsSpan(o.bytes[i], spans[i])
    BY <2>1, <2>3, <2>5, <2>6, ReadManyOK
  <2>8. Backs(o.src)
    BY <1>2, <2>7 DEF Backs
  <2> QED
    BY <2>4, <2>7, <2>8 DEF IsSpan, IsSource
<1>3. CASE driver # "buffered"
  <2> DEFINE all == [i \in DOMAIN round |-> Source(round[i].off, RangeEnd(round[i]))]
  <2>1. o = Fails \/ o = [src |-> src, ok |-> TRUE, bytes |-> all]
    BY <1>3 DEF FetchesAll
  <2>2. Backs(src)
    BY BackedIs
  <2>3. ASSUME NEW i \in 1..Len(round)
        PROVE  /\ all[i] \in Seq(Cells) /\ Len(all[i]) = Len(round[i].bytes)
               /\ \A k \in 1..Len(all[i]) : all[i][k] = round[i].off + k - 1
    <3> DEFINE from == round[i].off
               l == Len(round[i].bytes)
               to == RangeEnd(round[i])
    <3>1. from \in Nat /\ l \in Nat /\ to = from + l
      BY <1>1 DEF RangeEnd
    <3>2. all[i] = Source(from, to)
      BY <1>1
    <3> HIDE DEF all, from, l, to
    <3>3. to \in Nat /\ from <= to /\ to - from = l
      BY <3>1
    <3>4. /\ all[i] \in Seq(Cells) /\ Len(all[i]) = l
          /\ \A k \in 1..l : all[i][k] = from + k - 1
      <4>1. /\ Source(from, to) \in Seq(Cells) /\ Len(Source(from, to)) = to - from
            /\ \A k \in 1..(to - from) : Source(from, to)[k] = from + k - 1
        BY <3>1, <3>3, SourceIs
      <4> QED
        BY <3>2, <3>3, <4>1
    <3> QED
      BY <3>4 DEF from, l
  <2> HIDE DEF all
  <2>4. CASE o = Fails
    BY <2>2, <2>4 DEF Fails
  <2>5. CASE o = [src |-> src, ok |-> TRUE, bytes |-> all]
    BY <2>2, <2>3, <2>5
  <2> QED
    BY <2>1, <2>4, <2>5
<1> QED
  BY <1>2, <1>3

(* A length that a source gives is the length.                             *)
LEMMA LengthsOK ==
  ASSUME Backed, NEW o \in Lengths
  PROVE  Backs(o.src) /\ o.ok \in BOOLEAN /\ (o.ok => o.total = Length)
<1>1. CASE driver = "buffered"
  <2>1. SourceOK(src)
    BY <1>1 DEF Backed
  <2>2. PICK calls \in 0..Plenty : o = LenOf(src, calls)
    BY <1>1 DEF Lengths
  <2>3. calls \in Int
    OBVIOUS
  <2> QED
    BY <1>1, <2>1, <2>2, <2>3, LenOfOK DEF Backs
<1>2. CASE driver # "buffered"
  <2>1. PICK ok \in BOOLEAN : o = [src |-> src, ok |-> ok, total |-> Length]
    BY <1>2 DEF Lengths
  <2> QED
    BY <2>1, BackedIs
<1> QED
  BY <1>1, <1>2

-----------------------------------------------------------------------------
(* Control returns to the stage.                                           *)

(* What a window holds, as an offer.                                       *)
LEMMA BytesAre ==
  ASSUME NEW w, WindowOK(w)
  PROVE  /\ Bytes(w) \in Seq(Cells) /\ Len(Bytes(w)) = Held(w)
         /\ \A k \in 1..Held(w) : Bytes(w)[k] = w.base + k - 1
<1>1. /\ w.buf \in Seq(Cells) /\ w.head \in Nat /\ w.end \in Nat /\ w.head <= w.end
      /\ w.end <= Len(w.buf) /\ Held(w) = w.end - w.head /\ w.base \in Nat
      /\ \A k \in (w.head + 1)..w.end : w.buf[k] = w.base + (k - w.head) - 1
  BY WindowFields DEF WindowOK
<1> DEFINE h == w.head
           e == w.end
           t == w.buf
<1>2. t \in Seq(Cells) /\ h \in Nat /\ e \in Nat /\ h <= e /\ e <= Len(t) /\ Held(w) = e - h
  BY <1>1
<1>3. Bytes(w) = SubSeq(t, h + 1, e)
  BY DEF Bytes
<1>4. \A k \in (h + 1)..e : t[k] = w.base + (k - h) - 1
  BY <1>1
<1> HIDE DEF h, e, t
<1>5. SubSeq(t, h + 1, e) \in Seq(Cells) /\ Len(SubSeq(t, h + 1, e)) = e - h
  BY <1>2
<1>6. ASSUME NEW k \in 1..(e - h)
      PROVE  SubSeq(t, h + 1, e)[k] = w.base + k - 1
  <2>1. (h + 1) + k - 1 = h + k /\ h + k \in (h + 1)..e /\ (h + k) - h = k
    BY <1>2
  <2>2. SubSeq(t, h + 1, e)[k] = t[h + k]
    BY <1>2, <2>1
  <2> QED
    BY <1>4, <2>1, <2>2
<1> QED
  BY <1>2, <1>3, <1>5, <1>6

(* What a window on offer does for a request.                              *)
Serves(w, r) ==
  IF r.kind = "len" THEN w.total # Unknown
  ELSE /\ w.base = r.off
       /\ Held(w) >= r.len \/ (w.total # Unknown /\ w.total = EndOf(w))

OfferOf(w) == [off |-> w.base, bytes |-> Bytes(w), total |-> w.total]

(* A window that serves a request satisfies it when it is offered.         *)
LEMMA ServesSatisfies ==
  ASSUME NEW w, WindowOK(w), NEW r, Serves(w, r)
  PROVE  Satisfied(r, OfferOf(w))
<1> DEFINE b == Bytes(w)
<1>1. Len(b) = Held(w) /\ EndOf(w) = w.base + Held(w)
  BY BytesAre, WindowFields
<1> HIDE DEF b
<1> QED
  BY <1>1 DEF Satisfied, OfferOf, Serves, b

(* Without a fetched range on offer, the window is.                        *)
LEMMA OfferIsWindow ==
  driver # "slice" /\ using = None => Offer = OfferOf(win)
BY Zenon DEF Offer, OfferOf

(* The cursor is done with a request, and serves it or fails.              *)
LEMMA ReturnOK ==
  ASSUME Typed, Asking, NEW r, r = None \/ (r \in Asked /\ r \in RequestSet), Return(r)
  PROVE  /\ Typed' /\ Asking' /\ Reading' /\ goal' = r /\ pc' = "step"
         /\ driver' = driver /\ pos' = pos
<1>1. /\ goal' = r /\ reqs' = << >> /\ pc' = "step" /\ driver' = driver /\ pos' = pos
      /\ inFlight' = inFlight /\ span' = span
  BY DEF Return
<1>2. Typed'
  BY <1>1 DEF Typed
<1>3. Asking'
  <2>1. << >> \in Seq(RequestSet) /\ Len(<< >>) = 0
    OBVIOUS
  <2> QED
    BY <1>1, <2>1 DEF Asking, Asked
<1>4. Reading'
  BY <1>1 DEF Reading
<1> QED
  BY <1>1, <1>2, <1>3, <1>4

(* A source still in order after a step.                                   *)
LEMMA BackedNext ==
  ASSUME Backs(src'), driver' = driver
  PROVE  Backed'
BY DEF Backed, Backs

(* A random-access cursor returns with its window on offer.                *)
LEMMA RandomReturn ==
  ASSUME IInv, RandomAccess, NEW r, r = None \/ (r \in Asked /\ r \in RequestSet),
         Return(r), using' = None, WindowOK(win'), TotalOK(win'), FetchedOK(fetched'),
         win'.cap + Capacity(fetched') <= InputBytes, Backs(src'),
         r # None => Serves(win', r)
  PROVE  IInv'
<1>1. /\ Typed' /\ Asking' /\ Reading' /\ goal' = r /\ pc' = "step" /\ driver' = driver
      /\ driver' \in {"random", "buffered", "async"}
  BY ReturnOK DEF IInv, RandomAccess
<1>2. Backed'
  BY <1>1, BackedNext
<1>3. Stored'
  BY <1>1 DEF Stored
<1>4. Offering' /\ Streaming'
  BY <1>1 DEF Offering, Streaming
<1>5. WithinLimits'
  BY <1>1 DEF WithinLimits, Limit
<1>6. ServedIsOffered'
  <2>1. Offer' = OfferOf(win')
    <3>1. driver' # "slice" /\ using' = None
      BY <1>1
    <3> QED
      BY <3>1, Zenon DEF Offer, OfferOf
  <2>2. r # None => Satisfied(r, OfferOf(win'))
    BY ServesSatisfies
  <2>3. goal' # None => Satisfied(goal', Offer')
    BY <1>1, <2>1, <2>2
  <2> QED
    BY <2>3 DEF ServedIsOffered
<1> QED
  BY <1>1, <1>2, <1>3, <1>4, <1>5, <1>6 DEF IInv

(* What the cursor chose to serve.                                         *)
LEMMA ChosenIs ==
  ASSUME IInv, NEW kind, Serving(kind)
  PROVE  /\ Chosen \in Asked /\ Chosen \in RequestSet /\ Chosen.kind = kind
         /\ Affordable(Chosen) /\ pc = "serve" /\ RandomAccess
         /\ Chosen.off \in Nat /\ Chosen.len \in Nat /\ ReqEnd(Chosen) = Chosen.off + Chosen.len
<1>1. reqs \in Seq(RequestSet) /\ \A i \in 1..Len(reqs) : reqs[i] \in Asked
  BY DEF IInv, Asking
<1>2. /\ Select(reqs) \in 1..Len(reqs) /\ Affordable(reqs[Select(reqs)])
      /\ reqs[Select(reqs)] \in RequestSet
  BY <1>1, SelectIs DEF Serving
<1>3. Chosen \in Asked /\ Chosen \in RequestSet /\ Affordable(Chosen) /\ Chosen.kind = kind
  BY <1>1, <1>2 DEF Chosen, Serving
<1>4. Chosen.off \in Nat /\ Chosen.len \in Nat /\ ReqEnd(Chosen) = Chosen.off + Chosen.len
  BY <1>3, AskedIs
<1> QED
  BY <1>3, <1>4 DEF Serving

-----------------------------------------------------------------------------
(* The steps of a random-access cursor.                                    *)

(* What a random-access cursor has.                                        *)
LEMMA RandomHas ==
  ASSUME IInv, RandomAccess
  PROVE  /\ Typed /\ Asking /\ Backed /\ WindowOK(win) /\ TotalOK(win) /\ FetchedOK(fetched)
         /\ win.cap + Capacity(fetched) <= InputBytes /\ win.cap \in Nat
         /\ Capacity(fetched) \in Nat /\ InputBytes \in Nat
<1>1. /\ Typed /\ Asking /\ Backed /\ WindowOK(win) /\ TotalOK(win) /\ FetchedOK(fetched)
      /\ win.cap + Capacity(fetched) <= Limit
  BY DEF IInv, Stored, WithinLimits
<1>2. Limit = InputBytes
  BY DEF RandomAccess, Limit
<1> QED
  BY <1>1, <1>2, WindowFields, CapacityIs, LimitsAreNaturals

(* A refusal leaves everything but the request.                            *)
LEMMA RefuseOK ==
  ASSUME IInv, Refuse
  PROVE  IInv'
<1>1. RandomAccess /\ Return(None) /\ src' = src /\ win' = win /\ fetched' = fetched /\ using' = using
      /\ driver' = driver
  BY DEF Refuse, Window, Return
<1>2. /\ Typed' /\ Asking' /\ Reading' /\ goal' = None /\ pc' = "step"
  BY <1>1, ReturnOK DEF IInv
<1>3. Backed'
  BY <1>1 DEF IInv, Backed
<1>4. Stored' /\ Offering' /\ WithinLimits'
  BY <1>1 DEF IInv, Stored, Offering, WithinLimits, Limit
<1>5. Streaming'
  BY <1>1 DEF Streaming, RandomAccess
<1>6. ServedIsOffered'
  BY <1>2 DEF ServedIsOffered
<1> QED
  BY <1>2, <1>3, <1>4, <1>5, <1>6 DEF IInv

(* A window with bytes read behind what it held.                           *)
LEMMA BehindOK ==
  ASSUME NEW w, WindowOK(w), TotalOK(w), NEW v, Same(v, w), NEW want \in Nat,
         Len(v.buf) - v.end >= want, NEW bytes \in Seq(Cells), Answers(bytes, EndOf(w), want)
  PROVE  LET read == Commit(Filled(v, bytes), Len(bytes))
             new  == IF Len(bytes) < want
                     THEN [read EXCEPT !.total = EndOf(w) + Len(bytes)] ELSE read
         IN /\ WindowOK(new) /\ TotalOK(new) /\ new.cap = v.cap /\ new.base = w.base
            /\ Held(new) = Held(w) + Len(bytes) /\ EndOf(new) = EndOf(w) + Len(bytes)
            /\ Len(bytes) < want => new.total = EndOf(new)
            /\ Len(bytes) >= want => new.total = w.total
            /\ Held(w) + want <= Held(new) \/ (new.total # Unknown /\ new.total = EndOf(new))
<1> DEFINE read == Commit(Filled(v, bytes), Len(bytes))
           t == EndOf(w) + Len(bytes)
           new == IF Len(bytes) < want THEN [read EXCEPT !.total = t] ELSE read
<1>1. WindowOK(v) /\ v.total = w.total /\ v.base = w.base /\ Held(v) = Held(w)
      /\ EndOf(v) = EndOf(w)
  BY DEF Same
<1>2. /\ Len(bytes) \in Nat /\ Len(bytes) <= want /\ IsSource(bytes, EndOf(w))
      /\ (Len(bytes) < want => t >= Length)
  BY DEF Answers
<1>3. v.end \in Nat /\ Len(v.buf) \in Nat /\ Held(w) \in Nat /\ EndOf(w) \in Nat
      /\ EndOf(w) = w.base + Held(w)
  BY <1>1, WindowFields
<1>4. v.end + Len(bytes) <= Len(v.buf)
  BY <1>2, <1>3
<1>5. \A k \in 1..Len(bytes) : bytes[k] = EndOf(v) + k - 1
  BY <1>1, <1>2 DEF IsSource
<1>6. /\ WindowOK(read) /\ read.cap = v.cap /\ read.base = v.base /\ read.total = v.total
      /\ Held(read) = Held(v) + Len(bytes) /\ EndOf(read) = EndOf(v) + Len(bytes)
  BY <1>1, <1>4, <1>5, ReadOK
<1> HIDE DEF read
<1>7. t \in Nat /\ t \in Totals /\ t # Unknown
  BY <1>2, <1>3, AbsentIsNothing DEF Totals
<1>8. CASE Len(bytes) < want
  <2> DEFINE u == [read EXCEPT !.total = t]
  <2>1. WindowOK(u) /\ u.cap = read.cap /\ u.base = read.base /\ u.total = t
        /\ Held(u) = Held(read) /\ EndOf(u) = EndOf(read)
    BY <1>6, <1>7, TotalSetOK
  <2>2. new = u
    BY <1>8
  <2>3. t >= Length
    BY <1>2, <1>8
  <2> HIDE DEF u, new, t
  <2>4. TotalOK(new)
    BY <2>1, <2>2, <2>3 DEF TotalOK
  <2>5. new.total = EndOf(new) /\ EndOf(new) = t
    BY <1>1, <1>6, <2>1, <2>2 DEF t
  <2> QED
    BY <1>1, <1>2, <1>6, <1>7, <1>8, <2>1, <2>2, <2>4, <2>5 DEF new, t, read
<1>9. CASE Len(bytes) >= want
  <2>1. new = read
    BY <1>2, <1>9
  <2>2. Len(bytes) = want
    BY <1>2, <1>9
  <2> HIDE DEF new
  <2>3. TotalOK(new)
    BY <1>1, <1>6, <2>1 DEF TotalOK
  <2>4. WindowOK(new) /\ new.cap = v.cap /\ new.base = w.base /\ new.total = w.total
        /\ Held(new) = Held(w) + Len(bytes) /\ EndOf(new) = EndOf(w) + Len(bytes)
    BY <1>1, <1>6, <2>1
  <2>5. Held(w) + want <= Held(new) /\ ~(Len(bytes) < want)
    BY <1>3, <2>2, <2>4
  <2> QED
    BY <2>3, <2>4, <2>5 DEF new, read, t
<1> QED
  BY <1>2, <1>8, <1>9

(* A read behind the window, whatever it comes to.                         *)
LEMMA ReadBehindOK ==
  ASSUME IInv, RandomAccess, Chosen \in Asked, Chosen \in RequestSet, Chosen.kind # "len",
         NEW w, WindowOK(w), TotalOK(w), w.base = Chosen.off,
         NEW cache, FetchedOK(cache), w.cap + Capacity(cache) <= InputBytes,
         NEW want \in Nat, Held(w) + want >= Chosen.len, NEW exact \in BOOLEAN,
         ReadBehind(w, cache, want, exact)
  PROVE  IInv'
<1> DEFINE limit == InputBytes - Capacity(cache)
           room == Spare(w, want, limit)
           Behind(bytes) == LET read == Commit(Filled(room.win, bytes), Len(bytes))
                            IN  IF Len(bytes) < want
                                THEN [read EXCEPT !.total = EndOf(w) + Len(bytes)] ELSE read
<1>1. fetched' = cache /\ using' = None
  BY DEF ReadBehind, StopsOffering
<1>2. Capacity(cache) \in Nat /\ w.cap \in Nat /\ limit \in Nat /\ w.cap <= limit
      /\ EndOf(w) \in Nat /\ Held(w) \in Nat /\ InputBytes \in Nat /\ Backed
  <2>1. Capacity(cache) \in Nat /\ w.cap \in Nat /\ EndOf(w) \in Nat /\ Held(w) \in Nat
    BY CapacityIs, WindowFields
  <2> QED
    BY <2>1, RandomHas
<1> HIDE DEF limit
<1>3. Same(room.win, w) /\ room.win.cap <= limit /\ room.ok \in BOOLEAN
      /\ (room.ok => Len(room.win.buf) - room.win.end >= want)
  BY <1>2, SpareOK
<1>4. \/ /\ room.ok
         /\ \E o \in Reads(EndOf(w), want, exact) :
              /\ src' = o.src
              /\ \/ o.ok /\ win' = Behind(o.bytes) /\ Return(Chosen)
                 \/ ~o.ok /\ win' = room.win /\ Return(None)
      \/ /\ win' \in IF room.ok THEN {ToFront(w, want)} ELSE {room.win}
         /\ src' = src /\ Return(None)
  BY Zenon DEF ReadBehind, limit
<1> HIDE DEF room
<1>5. ASSUME NEW v, Same(v, w), v.cap <= limit, win' = v, Backs(src'), Return(None)
      PROVE  IInv'
  <2>1. WindowOK(v) /\ v.total = w.total /\ v.cap \in Nat
    BY <1>5, WindowFields DEF Same
  <2>2. TotalOK(v)
    BY <2>1 DEF TotalOK
  <2>3. v.cap + Capacity(cache) <= InputBytes
    BY <1>2, <1>5, <2>1 DEF limit
  <2> QED
    BY <1>1, <1>5, <2>1, <2>2, <2>3, RandomReturn
<1>6. ASSUME room.ok, NEW o \in Reads(EndOf(w), want, exact), src' = o.src, o.ok,
             win' = Behind(o.bytes), Return(Chosen)
      PROVE  IInv'
  <2> DEFINE new == Behind(o.bytes)
  <2>1. Backs(o.src) /\ o.bytes \in Seq(Cells) /\ Answers(o.bytes, EndOf(w), want)
    BY <1>2, <1>6, ReadsOK
  <2>2. /\ WindowOK(new) /\ TotalOK(new) /\ new.cap = room.win.cap /\ new.base = w.base
        /\ Held(w) + want <= Held(new) \/ (new.total # Unknown /\ new.total = EndOf(new))
    BY <1>3, <1>6, <2>1, BehindOK
  <2>3. win' = new
    BY <1>6
  <2> HIDE DEF new
  <2>4. new.cap \in Nat /\ Held(new) \in Nat
    BY <2>2, WindowFields
  <2>5. new.cap + Capacity(cache) <= InputBytes
    BY <1>2, <1>3, <2>2, <2>4 DEF limit
  <2>6. Chosen.len \in Nat
    BY AskedIs
  <2>7. Serves(new, Chosen)
    BY <1>2, <2>2, <2>4, <2>6 DEF Serves
  <2> QED
    BY <1>1, <1>6, <2>1, <2>2, <2>3, <2>5, <2>7, RandomReturn
<1>7. Same(ToFront(w, want), w) /\ ToFront(w, want).cap = w.cap
  BY ToFrontOK
<1>8. CASE win' \in (IF room.ok THEN {ToFront(w, want)} ELSE {room.win}) /\ src' = src /\ Return(None)
  <2>1. win' = ToFront(w, want) \/ win' = room.win
    BY <1>8
  <2>2. Backs(src')
    BY <1>2, <1>8, BackedIs
  <2> QED
    BY <1>2, <1>3, <1>5, <1>7, <1>8, <2>1, <2>2
<1>9. ASSUME NEW o \in Reads(EndOf(w), want, exact), src' = o.src, win' = room.win, Return(None)
      PROVE  IInv'
  <2>1. Backs(o.src)
    BY <1>2, ReadsOK
  <2> QED
    BY <1>3, <1>5, <1>9, <2>1
<1> QED
  BY <1>4, <1>6, <1>8, <1>9

(* A request of kind range is a range.                                     *)
LEMMA RangeAsked ==
  ASSUME NEW r \in RequestSet, r.kind = "range"
  PROVE  r \in RangeRequests
BY AskedIs

(* A request for nothing is served like one for a byte.                    *)
LEMMA AtLeastOne ==
  ASSUME NEW n \in Nat
  PROVE  Greater(n, 1) \in Nat /\ Greater(n, 1) >= n /\ Greater(n, 1) >= 1
BY DEF Greater

(* Enough is held.                                                         *)
LEMMA ServeHeldOK ==
  ASSUME IInv, ServeHeld
  PROVE  IInv'
<1> DEFINE at == Position(win, fetched, Chosen.off)
<1>1. Serving("least") /\ Held(at.win) >= Greater(Chosen.len, 1) /\ win' = at.win
      /\ fetched' = at.fetched /\ using' = None /\ src' = src /\ Return(Chosen)
  BY DEF ServeHeld, StopsOffering
<1>2. /\ Chosen \in Asked /\ Chosen \in RequestSet /\ Chosen.kind = "least" /\ RandomAccess
      /\ Chosen.off \in Nat /\ Chosen.len \in Nat
  BY <1>1, ChosenIs
<1>3. /\ Backed /\ WindowOK(win) /\ TotalOK(win) /\ FetchedOK(fetched)
      /\ win.cap + Capacity(fetched) <= InputBytes /\ InputBytes \in Nat
      /\ win.cap \in Nat /\ Capacity(fetched) \in Nat
  BY <1>2, RandomHas
<1>4. /\ WindowOK(at.win) /\ at.win.base = Chosen.off /\ at.win.total = win.total
      /\ FetchedOK(at.fetched)
      /\ at.win.cap + Capacity(at.fetched) <= win.cap + Capacity(fetched)
  <2>1. Positioned(at, win, fetched, Chosen.off)
    BY <1>2, <1>3, PositionedOK
  <2> HIDE DEF at
  <2> QED
    BY <2>1 DEF Positioned
<1> HIDE DEF at
<1>5. TotalOK(at.win) /\ Backs(src')
  BY <1>1, <1>3, <1>4, BackedIs DEF TotalOK
<1>6. at.win.cap \in Nat /\ Capacity(at.fetched) \in Nat /\ Held(at.win) \in Nat
  BY <1>4, WindowFields, CapacityIs
<1>7. at.win.cap + Capacity(at.fetched) <= InputBytes
  BY <1>3, <1>4, <1>6
<1>8. Serves(at.win, Chosen)
  BY <1>1, <1>2, <1>4, <1>6 DEF Serves, Greater
<1> QED
  BY <1>1, <1>2, <1>4, <1>5, <1>7, <1>8, RandomReturn

(* Too little is held, and more is read behind it.                         *)
LEMMA ServeLeastOK ==
  ASSUME IInv, ServeLeast
  PROVE  IInv'
<1> DEFINE at == Position(win, fetched, Chosen.off)
           want == Target(Chosen) - Held(at.win)
           room == MakeRoom(at.win, at.fetched, Target(Chosen))
<1>1. Serving("least") /\ Held(at.win) < Greater(Chosen.len, 1)
  BY DEF ServeLeast
<1>2. /\ Chosen \in Asked /\ Chosen \in RequestSet /\ Chosen.kind = "least" /\ RandomAccess
      /\ Chosen.off \in Nat /\ Chosen.len \in Nat /\ Affordable(Chosen)
  BY <1>1, ChosenIs
<1>3. /\ Backed /\ WindowOK(win) /\ TotalOK(win) /\ FetchedOK(fetched)
      /\ win.cap + Capacity(fetched) <= InputBytes /\ InputBytes \in Nat
      /\ win.cap \in Nat /\ Capacity(fetched) \in Nat
  BY <1>2, RandomHas
<1>4. /\ WindowOK(at.win) /\ at.win.base = Chosen.off /\ at.win.total = win.total
      /\ FetchedOK(at.fetched)
      /\ at.win.cap + Capacity(at.fetched) <= win.cap + Capacity(fetched)
  <2>1. Positioned(at, win, fetched, Chosen.off)
    BY <1>2, <1>3, PositionedOK
  <2> HIDE DEF at
  <2> QED
    BY <2>1 DEF Positioned
<1>5. \/ win' = at.win /\ fetched' = at.fetched /\ using' = None /\ src' = src /\ Return(None)
      \/ /\ at.win.total = EndOf(at.win) /\ win' = at.win /\ using' = None /\ fetched' = room
         /\ src' = src /\ Return(Chosen)
      \/ ReadBehind(at.win, room, want, FALSE)
  <2> DEFINE A == ~ReadsAllowed
             B == ReadsAllowed /\ at.win.total = EndOf(at.win)
  <2>1. CASE A
    BY <2>1, Zenon DEF ServeLeast, StopsOffering
  <2>2. CASE B
    BY <2>2, Zenon DEF ServeLeast, StopsOffering
  <2>3. CASE ~A /\ ~B
    BY <2>3, Zenon DEF ServeLeast
  <2> QED
    BY <2>1, <2>2, <2>3
<1>6. FetchedOK(room) /\ Capacity(room) \in Nat /\ Capacity(room) <= Capacity(at.fetched)
  BY <1>4, MakeRoomOK
<1> HIDE DEF at, room
<1>7. TotalOK(at.win) /\ Backs(src)
  BY <1>3, <1>4, BackedIs DEF TotalOK
<1>8. /\ at.win.cap \in Nat /\ Capacity(at.fetched) \in Nat /\ Held(at.win) \in Nat
      /\ EndOf(at.win) \in Nat
  BY <1>4, WindowFields, CapacityIs
<1>9. at.win.cap + Capacity(at.fetched) <= InputBytes
      /\ at.win.cap + Capacity(room) <= InputBytes
  BY <1>3, <1>4, <1>6, <1>8
<1>10. want \in Nat /\ Held(at.win) + want >= Chosen.len
  <2> DEFINE least == Greater(Chosen.len, 1)
             target == Target(Chosen)
  <2>1. least \in Nat /\ least >= Chosen.len /\ least <= InputBytes
    <3>1. Affordable(Chosen) = (Greater(Chosen.len, 1) <= InputBytes)
      BY <1>2 DEF Affordable
    <3>2. least <= InputBytes
      BY <1>2, <3>1
    <3>3. Chosen.len \in Nat
      BY <1>2
    <3> QED
      BY <3>2, <3>3, AtLeastOne
  <2>2. ReadTarget(Chosen.len, ReadSize) \in Nat /\ ReadTarget(Chosen.len, ReadSize) >= least
    BY <1>2, OptionsAreSizes, TargetOK
  <2>3. target = Lesser(ReadTarget(Chosen.len, ReadSize), InputBytes)
    BY DEF Target
  <2> HIDE DEF least, target
  <2>4. target \in Nat /\ target >= least
    BY <1>3, <2>1, <2>2, <2>3 DEF Lesser
  <2>5. Held(at.win) < least
    BY <1>1 DEF least, at
  <2>6. want = target - Held(at.win)
    BY DEF target
  <2> HIDE DEF want
  <2> QED
    BY <1>2, <1>8, <2>1, <2>4, <2>5, <2>6
<1> HIDE DEF want
<1>11. CASE win' = at.win /\ fetched' = at.fetched /\ using' = None /\ src' = src /\ Return(None)
  BY <1>2, <1>4, <1>7, <1>9, <1>11, RandomReturn
<1>12. CASE /\ at.win.total = EndOf(at.win) /\ win' = at.win /\ using' = None /\ fetched' = room
            /\ src' = src /\ Return(Chosen)
  <2>1. Serves(at.win, Chosen)
    BY <1>2, <1>4, <1>8, <1>12, AbsentIsNothing DEF Serves
  <2> QED
    BY <1>2, <1>4, <1>6, <1>7, <1>9, <1>12, <2>1, RandomReturn
<1>13. CASE ReadBehind(at.win, room, want, FALSE)
  <2>1. Chosen.kind # "len"
    BY <1>2
  <2> QED
    BY <1>2, <1>4, <1>6, <1>7, <1>9, <1>10, <1>13, <2>1, ReadBehindOK
<1> QED
  BY <1>5, <1>11, <1>12, <1>13

(* The window holds the range.                                             *)
LEMMA ServeInWindowOK ==
  ASSUME IInv, ServeInWindow
  PROVE  IInv'
<1> DEFINE n == Chosen.off - win.base
           v == Consume(win, n)
<1>1. /\ Serving("range") /\ InWindow(Chosen) /\ win' = v /\ using' = None /\ src' = src
      /\ fetched' = fetched /\ Return(Chosen)
  BY DEF ServeInWindow, StopsOffering
<1>2. /\ Chosen \in Asked /\ Chosen \in RequestSet /\ Chosen.kind = "range" /\ RandomAccess
      /\ Chosen.off \in Nat /\ Chosen.len \in Nat /\ ReqEnd(Chosen) = Chosen.off + Chosen.len
  BY <1>1, ChosenIs
<1>3. /\ Backed /\ WindowOK(win) /\ TotalOK(win) /\ FetchedOK(fetched)
      /\ win.cap + Capacity(fetched) <= InputBytes
  BY <1>2, RandomHas
<1>4. win.base \in Nat /\ Held(win) \in Nat /\ EndOf(win) = win.base + Held(win)
  BY <1>3, WindowFields
<1>5. n \in Nat /\ n <= Held(win) /\ Held(win) - n >= Chosen.len /\ win.base + n = Chosen.off
      /\ Lesser(n, Held(win)) = n
  BY <1>1, <1>2, <1>4 DEF InWindow, Lesser
<1>6. /\ WindowOK(v) /\ v.cap = win.cap /\ v.total = win.total
      /\ v.base = win.base + Lesser(n, Held(win)) /\ Held(v) = Held(win) - Lesser(n, Held(win))
  BY <1>3, <1>5, ConsumeOK
<1> HIDE DEF v, n
<1>7. Serves(v, Chosen)
  BY <1>2, <1>5, <1>6 DEF Serves
<1>8. TotalOK(v) /\ Backs(src')
  BY <1>1, <1>3, <1>6, BackedIs DEF TotalOK
<1> QED
  BY <1>1, <1>2, <1>3, <1>6, <1>7, <1>8, RandomReturn

(* The total is known, or the source is asked for it.                      *)
LEMMA ServeLenOK ==
  ASSUME IInv, ServeLen
  PROVE  IInv'
<1>1. Serving("len") /\ using' = None /\ fetched' = fetched
  BY DEF ServeLen, StopsOffering
<1>2. Chosen \in Asked /\ Chosen \in RequestSet /\ Chosen.kind = "len" /\ RandomAccess
  BY <1>1, ChosenIs
<1>3. /\ Backed /\ WindowOK(win) /\ TotalOK(win) /\ FetchedOK(fetched)
      /\ win.cap + Capacity(fetched) <= InputBytes /\ Backs(src)
  BY <1>2, RandomHas, BackedIs
<1>4. \/ win.total # Unknown /\ src' = src /\ win' = win /\ Return(Chosen)
      \/ src' = src /\ win' = win /\ Return(None)
      \/ \E o \in Lengths :
           /\ src' = o.src
           /\ \/ o.ok /\ win' = [win EXCEPT !.total = o.total] /\ Return(Chosen)
              \/ win' = win /\ Return(None)
  BY Zenon DEF ServeLen
<1>5. CASE win.total # Unknown /\ src' = src /\ win' = win /\ Return(Chosen)
  <2>1. Serves(win, Chosen)
    BY <1>2, <1>5 DEF Serves
  <2> QED
    BY <1>1, <1>2, <1>3, <1>5, <2>1, RandomReturn
<1>6. CASE src' = src /\ win' = win /\ Return(None)
  BY <1>1, <1>2, <1>3, <1>6, RandomReturn
<1>7. ASSUME NEW o \in Lengths, src' = o.src, o.ok, win' = [win EXCEPT !.total = o.total],
             Return(Chosen)
      PROVE  IInv'
  <2> DEFINE v == [win EXCEPT !.total = o.total]
  <2>1. Backs(o.src) /\ o.total = Length
    BY <1>3, <1>7, LengthsOK
  <2>2. Length \in Nat /\ Length \in Totals /\ Length # Unknown
    BY OptionsAreSizes, AbsentIsNothing DEF Totals
  <2>3. WindowOK(v) /\ v.cap = win.cap /\ v.total = Length
    BY <1>3, <2>1, <2>2, TotalSetOK
  <2>4. win' = v
    BY <1>7
  <2> HIDE DEF v
  <2>5. TotalOK(v) /\ Serves(v, Chosen)
    BY <1>2, <2>2, <2>3 DEF TotalOK, Serves
  <2> QED
    BY <1>1, <1>2, <1>3, <1>7, <2>1, <2>3, <2>4, <2>5, RandomReturn
<1>8. ASSUME NEW o \in Lengths, src' = o.src, win' = win, Return(None)
      PROVE  IInv'
  <2>1. Backs(o.src)
    BY <1>3, LengthsOK
  <2> QED
    BY <1>1, <1>2, <1>3, <1>8, <2>1, RandomReturn
<1> QED
  BY <1>4, <1>5, <1>6, <1>7, <1>8

(* A prefix is held, and the missing tail is read.                         *)
LEMMA ServeTailOK ==
  ASSUME IInv, ServeTail
  PROVE  IInv'
<1> DEFINE at == Position(win, fetched, Chosen.off)
           want == ReqEnd(Chosen) - EndOf(at.win)
           room == MakeRoom(at.win, at.fetched, Chosen.len)
<1>1. /\ Serving("range") /\ ~InWindow(Chosen) /\ Holding(Chosen, fetched) = {} /\ at.kept
      /\ ReadBehind(at.win, room, want, TRUE)
  BY DEF ServeTail, Absent
<1>2. /\ Chosen \in Asked /\ Chosen \in RequestSet /\ Chosen.kind = "range" /\ RandomAccess
      /\ Chosen.off \in Nat /\ Chosen.len \in Nat /\ ReqEnd(Chosen) = Chosen.off + Chosen.len
  BY <1>1, ChosenIs
<1>3. /\ Backed /\ WindowOK(win) /\ TotalOK(win) /\ FetchedOK(fetched)
      /\ win.cap + Capacity(fetched) <= InputBytes /\ InputBytes \in Nat
      /\ win.cap \in Nat /\ Capacity(fetched) \in Nat
  BY <1>2, RandomHas
<1>4. Positioned(at, win, fetched, Chosen.off)
  BY <1>2, <1>3, PositionedOK
<1>5. FetchedOK(room) /\ Capacity(room) \in Nat /\ Capacity(room) <= Capacity(at.fetched)
  <2>1. FetchedOK(at.fetched)
    BY <1>4 DEF Positioned
  <2> QED
    BY <2>1, MakeRoomOK
<1> HIDE DEF at, room
<1>6. /\ WindowOK(at.win) /\ at.win.base = Chosen.off /\ at.win.total = win.total
      /\ FetchedOK(at.fetched)
      /\ at.win.cap + Capacity(at.fetched) <= win.cap + Capacity(fetched)
      /\ \/ win.base <= Chosen.off /\ EndOf(at.win) = EndOf(win)
         \/ \E i \in 1..Len(fetched) : fetched[i].off <= Chosen.off
                                       /\ EndOf(at.win) = RangeEnd(fetched[i])
  BY <1>1, <1>4 DEF Positioned
<1>7. /\ at.win.cap \in Nat /\ Capacity(at.fetched) \in Nat /\ Held(at.win) \in Nat
      /\ EndOf(at.win) \in Nat /\ EndOf(at.win) = at.win.base + Held(at.win)
      /\ win.base \in Nat /\ EndOf(win) \in Nat
  BY <1>3, <1>6, WindowFields, CapacityIs
<1>8. EndOf(at.win) < ReqEnd(Chosen)
  <2>1. CASE win.base <= Chosen.off /\ EndOf(at.win) = EndOf(win)
    BY <1>1, <1>2, <1>7, <2>1 DEF InWindow
  <2>2. ASSUME NEW i \in 1..Len(fetched), fetched[i].off <= Chosen.off,
               EndOf(at.win) = RangeEnd(fetched[i])
        PROVE  EndOf(at.win) < ReqEnd(Chosen)
    <3>1. DOMAIN fetched = 1..Len(fetched) /\ fetched[i].off \in Nat
      BY <1>3 DEF FetchedOK, RangeOK, RangeSet
    <3>2. ~(ReqEnd(Chosen) <= RangeEnd(fetched[i]))
      BY <1>1, <1>2, <2>2, <3>1 DEF Holding
    <3> QED
      BY <1>2, <1>7, <2>2, <3>2
  <2> QED
    BY <1>6, <2>1, <2>2
<1>9. want \in Nat /\ Held(at.win) + want >= Chosen.len
  <2>1. EndOf(at.win) = Chosen.off + Held(at.win) /\ EndOf(at.win) \in Nat
        /\ Held(at.win) \in Nat
    BY <1>6, <1>7
  <2> QED
    BY <1>2, <1>8, <2>1
<1> HIDE DEF want
<1>10. TotalOK(at.win)
  BY <1>3, <1>6 DEF TotalOK
<1>11. at.win.cap + Capacity(room) <= InputBytes
  BY <1>3, <1>5, <1>6, <1>7, SMTT(30)
<1>12. Chosen.kind # "len" /\ TRUE \in BOOLEAN
  BY <1>2
<1> QED
  BY <1>1, <1>2, <1>5, <1>6, <1>9, <1>10, <1>11, <1>12, ReadBehindOK

(* The first of the ranges that hold a request.                            *)
LEMMA HoldingIs ==
  ASSUME NEW r, NEW f, FetchedOK(f), Holding(r, f) # {}
  PROVE  LET i == Min(Holding(r, f))
         IN /\ i \in 1..Len(f) /\ f[i].off <= r.off /\ ReqEnd(r) <= RangeEnd(f[i])
            /\ RangeOK(f[i])
<1>1. DOMAIN f = 1..Len(f) /\ Len(f) \in Nat /\ \A j \in 1..Len(f) : RangeOK(f[j])
  BY DEF FetchedOK
<1>2. Holding(r, f) \in SUBSET Nat
  BY <1>1 DEF Holding
<1>3. Min(Holding(r, f)) \in Holding(r, f)
  BY <1>2, MinIsLeast
<1>4. ASSUME NEW i \in Holding(r, f)
      PROVE  /\ i \in 1..Len(f) /\ r.off >= f[i].off /\ ReqEnd(r) <= RangeEnd(f[i])
  BY <1>1 DEF Holding
<1> DEFINE i == Min(Holding(r, f))
<1> HIDE DEF i
<1>6. i \in Holding(r, f)
  BY <1>3 DEF i
<1>7. i \in 1..Len(f) /\ r.off >= f[i].off /\ ReqEnd(r) <= RangeEnd(f[i]) /\ RangeOK(f[i])
  BY <1>1, <1>4, <1>6
<1> QED
  BY <1>7 DEF i

(* A fetched range is handed to the stage.                                 *)
LEMMA HandOK ==
  ASSUME IInv, RandomAccess, Chosen \in Asked, Chosen \in RequestSet, Chosen.kind = "range",
         NEW w, WindowOK(w), TotalOK(w), NEW ranges, FetchedOK(ranges),
         Holding(Chosen, ranges) # {}, w.cap + Capacity(ranges) <= InputBytes,
         Backs(src'), Hand(w, ranges), Return(Chosen)
  PROVE  IInv'
<1> DEFINE i == Min(Holding(Chosen, ranges))
           f == ranges[i]
           into == Chosen.off - f.off
<1>1. Chosen.off \in Nat /\ Chosen.len \in Nat /\ ReqEnd(Chosen) = Chosen.off + Chosen.len
  BY AskedIs
<1>2. i \in 1..Len(ranges) /\ f.off <= Chosen.off /\ ReqEnd(Chosen) <= RangeEnd(f) /\ RangeOK(f)
  BY HoldingIs
<1>3. IF driver = "async"
      THEN /\ win' = Consume(Adopt(w, f.off, f), into)
           /\ fetched' = RemoveSwapping(ranges, i) /\ using' = None
      ELSE win' = w /\ fetched' = ranges /\ using' = <<i, into>>
  BY DEF Hand, StopsOffering
<1> HIDE DEF i
<1>4. /\ f.off \in Nat /\ f.cap \in Nat /\ f.bytes \in Seq(Cells) /\ Len(f.bytes) \in Nat
      /\ Len(f.bytes) <= f.cap /\ RangeEnd(f) = f.off + Len(f.bytes)
  BY <1>2 DEF RangeOK, RangeSet, RangeEnd
<1> DEFINE l == Len(f.bytes)
<1>5. l \in Nat /\ into \in Nat /\ into <= l /\ l - into >= Chosen.len /\ f.off + into = Chosen.off
  BY <1>1, <1>2, <1>4, SMTT(30)
<1>6. w.cap \in Nat /\ Capacity(ranges) \in Nat /\ InputBytes \in Nat
  BY WindowFields, CapacityIs, LimitsAreNaturals
<1> HIDE DEF f, into, l
<1>7. CASE driver = "async"
  <2> DEFINE a == Adopt(w, f.off, f)
             v == Consume(a, into)
             g == RemoveSwapping(ranges, i)
  <2>1. WindowOK(a) /\ a.cap = f.cap /\ a.total = w.total /\ a.base = f.off /\ Held(a) = l
    BY <1>2, AdoptOK DEF l
  <2> HIDE DEF a
  <2>2. /\ WindowOK(v) /\ v.cap = a.cap /\ v.total = a.total
        /\ v.base = a.base + Lesser(into, Held(a)) /\ Held(v) = Held(a) - Lesser(into, Held(a))
    BY <1>5, <2>1, ConsumeOK
  <2>3. Lesser(into, Held(a)) = into
    BY <1>5, <2>1 DEF Lesser
  <2>4. FetchedOK(g) /\ Capacity(g) = Capacity(ranges) - f.cap
    BY <1>2, RemoveOK DEF f
  <2>5. win' = v /\ fetched' = g /\ using' = None
    BY <1>3, <1>7 DEF a
  <2> HIDE DEF v, g
  <2>6. TotalOK(v)
    BY <2>1, <2>2 DEF TotalOK
  <2>7. Serves(v, Chosen)
    BY <1>1, <1>5, <2>1, <2>2, <2>3 DEF Serves
  <2>8. v.cap + Capacity(g) <= InputBytes
    BY <1>4, <1>6, <2>1, <2>2, <2>4
  <2> QED
    BY <2>2, <2>4, <2>5, <2>6, <2>7, <2>8, RandomReturn
<1>8. CASE driver # "async"
  <2>1. /\ Typed' /\ Asking' /\ Reading' /\ goal' = Chosen /\ pc' = "step" /\ driver' = driver
        /\ driver' \in {"random", "buffered"}
    BY <1>8, ReturnOK DEF IInv, RandomAccess
  <2>2. win' = w /\ fetched' = ranges /\ using' = <<i, into>>
    BY <1>3, <1>8
  <2>3. Backed'
    BY <2>1, BackedNext
  <2>4. Stored'
    BY <2>1, <2>2 DEF Stored
  <2>5. Len(ranges) \in Nat /\ i \in Nat /\ <<i, into>> \in Nat \X Nat /\ using' # None
    BY <1>2, <1>5, <2>2, AbsentIsNothing DEF FetchedOK
  <2>6. Offering'
    <3>1. using'[1] = i /\ using'[2] = into /\ fetched'[i].bytes = f.bytes
      BY <2>2 DEF f
    <3>2. into \in 0..Len(f.bytes)
      BY <1>5 DEF l
    <3> QED
      BY <1>2, <2>1, <2>2, <2>5, <3>1, <3>2 DEF Offering
  <2>7. WithinLimits' /\ Streaming'
    BY <2>1, <2>2 DEF WithinLimits, Limit, Streaming
  <2>8. ServedIsOffered'
    <3> DEFINE t == SubSeq(f.bytes, into + 1, l)
    <3>1. Offer' = [off |-> f.off + into, bytes |-> t, total |-> w.total]
      <4>1. /\ driver' # "slice" /\ fetched'[using'[1]].off = f.off /\ using'[2] = into
            /\ fetched'[using'[1]].bytes = f.bytes /\ win' = w
        BY <2>1, <2>2 DEF f
      <4>2. Offer' = [off   |-> fetched'[using'[1]].off + using'[2],
                      bytes |-> SubSeq(fetched'[using'[1]].bytes, using'[2] + 1,
                                       Len(fetched'[using'[1]].bytes)),
                      total |-> win'.total]
        BY <2>5, <4>1, Zenon DEF Offer
      <4> QED
        BY <4>1, <4>2 DEF l
    <3>2. Len(t) = l - into
      BY <1>4, <1>5 DEF l
    <3> HIDE DEF t
    <3>3. Satisfied(Chosen, [off |-> f.off + into, bytes |-> t, total |-> w.total])
      BY <1>1, <1>5, <3>2 DEF Satisfied
    <3> QED
      BY <2>1, <3>1, <3>3 DEF ServedIsOffered
  <2> QED
    BY <2>1, <2>3, <2>4, <2>6, <2>7, <2>8 DEF IInv
<1> QED
  BY <1>7, <1>8

(* A fetched range holds the request.                                      *)
LEMMA ServeFetchedOK ==
  ASSUME IInv, ServeFetched
  PROVE  IInv'
<1>1. /\ Serving("range") /\ Holding(Chosen, fetched) # {} /\ Hand(win, fetched) /\ src' = src
      /\ Return(Chosen)
  BY DEF ServeFetched
<1>2. Chosen \in Asked /\ Chosen \in RequestSet /\ Chosen.kind = "range" /\ RandomAccess
  BY <1>1, ChosenIs
<1>3. /\ Backed /\ WindowOK(win) /\ TotalOK(win) /\ FetchedOK(fetched)
      /\ win.cap + Capacity(fetched) <= InputBytes
  BY <1>2, RandomHas
<1>4. Backs(src')
  BY <1>1, <1>3, BackedIs
<1> QED
  BY <1>1, <1>2, <1>3, <1>4, HandOK

(* A complete round is published, a failed one leaves nothing behind.      *)
LEMMA ServeRoundOK ==
  ASSUME IInv, ServeRound
  PROVE  IInv'
<1> DEFINE at == Position(win, fetched, Chosen.off)
           plan == Plan(Chosen, reqs)
           round == Allocated(plan, at.fetched)
           New(o) == [i \in DOMAIN round |-> [round[i] EXCEPT !.bytes = o.bytes[i]]]
<1>1. Serving("range")
  BY DEF ServeRound, Absent
<1>2. /\ Chosen \in Asked /\ Chosen \in RequestSet /\ Chosen.kind = "range" /\ RandomAccess
      /\ Chosen.off \in Nat /\ Chosen.len \in Nat /\ ReqEnd(Chosen) = Chosen.off + Chosen.len
      /\ Affordable(Chosen)
  BY <1>1, ChosenIs
<1>3. /\ Backed /\ WindowOK(win) /\ TotalOK(win) /\ FetchedOK(fetched)
      /\ win.cap + Capacity(fetched) <= InputBytes /\ InputBytes \in Nat
      /\ win.cap \in Nat /\ Capacity(fetched) \in Nat /\ reqs \in Seq(RequestSet)
  BY <1>2, RandomHas DEF Asking
<1>4. Positioned(at, win, fetched, Chosen.off)
  BY <1>2, <1>3, PositionedOK
<1>5. \/ win' = at.win /\ fetched' = at.fetched /\ using' = None /\ src' = src /\ Return(None)
      \/ \E o \in FetchesAll(round) :
           /\ src' = o.src
           /\ \/ o.ok /\ Hand(Release(at.win), New(o)) /\ Return(Chosen)
              \/ /\ win' = Release(at.win) /\ fetched' = << >> /\ using' = None /\ Return(None)
  BY Zenon DEF ServeRound, StopsOffering
<1> HIDE DEF at
<1>6. /\ WindowOK(at.win) /\ at.win.total = win.total /\ FetchedOK(at.fetched)
      /\ at.win.cap + Capacity(at.fetched) <= win.cap + Capacity(fetched)
  BY <1>4 DEF Positioned
<1>7. at.win.cap \in Nat /\ Capacity(at.fetched) \in Nat /\ Backs(src)
  BY <1>3, <1>6, WindowFields, CapacityIs, BackedIs
<1>8. TotalOK(at.win)
  BY <1>3, <1>6 DEF TotalOK
<1> DEFINE w == Release(at.win)
<1>9. WindowOK(w) /\ w.cap = 0 /\ TotalOK(w)
  <2>1. WindowOK(w) /\ w.cap = 0 /\ w.total = at.win.total
    BY <1>6, ReleaseOK
  <2> HIDE DEF w
  <2> QED
    BY <1>8, <2>1 DEF TotalOK
<1>10. Chosen \in RangeRequests /\ Chosen.len <= InputBytes
  <2>1. Affordable(Chosen) = (Chosen.len <= InputBytes /\ Ranges > 0)
    BY <1>2 DEF Affordable
  <2> QED
    BY <1>2, <2>1, RangeAsked
<1>11. /\ plan \in Seq(RangeRequests) /\ Total(Lens(plan)) <= InputBytes /\ Within(Chosen, plan)
  BY <1>3, <1>10, PlanOK
<1> HIDE DEF plan
<1>12. /\ round \in Seq(RangeSet) /\ Len(round) = Len(plan)
       /\ \A i \in 1..Len(plan) :
            /\ round[i].off = plan[i].off /\ Len(round[i].bytes) = plan[i].len
            /\ plan[i].len <= round[i].cap
       /\ Total(CapsOf(round)) <= InputBytes
  BY <1>6, <1>11, AllocatedOK
<1> HIDE DEF round, w
<1>13. CASE win' = at.win /\ fetched' = at.fetched /\ using' = None /\ src' = src /\ Return(None)
  <2>1. at.win.cap + Capacity(at.fetched) <= InputBytes
    BY <1>3, <1>6, <1>7
  <2> QED
    BY <1>2, <1>6, <1>7, <1>8, <1>13, <2>1, RandomReturn
<1>14. ASSUME NEW o \in FetchesAll(round), src' = o.src, win' = w, fetched' = << >>, using' = None,
              Return(None)
       PROVE  IInv'
  <2>1. Backs(o.src)
    BY <1>3, <1>12, FetchesOK
  <2>2. FetchedOK(<< >>) /\ w.cap + Capacity(<< >>) <= InputBytes
    BY <1>3, <1>9, NoneFetched
  <2> QED
    BY <1>2, <1>9, <1>14, <2>1, <2>2, RandomReturn
<1>15. ASSUME NEW o \in FetchesAll(round), src' = o.src, o.ok, Hand(w, New(o)), Return(Chosen)
       PROVE  IInv'
  <2> DEFINE new == New(o)
  <2>1. /\ Backs(o.src)
        /\ \A i \in 1..Len(round) :
             /\ o.bytes[i] \in Seq(Cells) /\ Len(o.bytes[i]) = Len(round[i].bytes)
             /\ \A k \in 1..Len(o.bytes[i]) : o.bytes[i][k] = round[i].off + k - 1
    BY <1>3, <1>12, <1>15, FetchesOK
  <2>2. \A i \in 1..Len(round) : Len(round[i].bytes) <= round[i].cap
    BY <1>12
  <2>3. /\ FetchedOK(new) /\ Len(new) = Len(round) /\ Capacity(new) <= InputBytes
        /\ \A i \in 1..Len(round) : /\ new[i].off = round[i].off
                                    /\ RangeEnd(new[i]) = RangeEnd(round[i])
    BY <1>12, <2>1, <2>2, PublishedOK
  <2>4. Hand(w, new)
    BY <1>15
  <2> HIDE DEF new
  <2>5. Holding(Chosen, new) # {}
    <3>1. PICK j \in 1..Len(plan) : plan[j].off <= Chosen.off /\ ReqEnd(Chosen) <= ReqEnd(plan[j])
      BY <1>11 DEF Within
    <3>2. new[j].off = plan[j].off /\ RangeEnd(new[j]) = ReqEnd(plan[j])
      <4>1. j \in 1..Len(round)
        BY <1>12
      <4>2. RangeEnd(round[j]) = round[j].off + Len(round[j].bytes)
        BY DEF RangeEnd
      <4>3. round[j].off = plan[j].off /\ Len(round[j].bytes) = plan[j].len
        BY <1>12
      <4>4. RangeEnd(round[j]) = ReqEnd(plan[j])
        BY <4>2, <4>3 DEF ReqEnd
      <4> QED
        BY <2>3, <4>1, <4>3, <4>4
    <3>3. j \in DOMAIN new
      BY <1>12, <2>3 DEF FetchedOK
    <3>4. plan[j].off \in Nat
      BY <1>11, RequestIs
    <3> QED
      BY <1>2, <3>1, <3>2, <3>3, <3>4 DEF Holding
  <2>6. w.cap + Capacity(new) <= InputBytes
    <3>1. Capacity(new) \in Nat
      BY <2>3, CapacityIs
    <3> QED
      BY <1>9, <2>3, <3>1
  <2> QED
    BY <1>2, <1>9, <1>15, <2>1, <2>3, <2>4, <2>5, <2>6, HandOK
<1>16. ASSUME NEW o \in FetchesAll(round), src' = o.src,
              \/ o.ok /\ Hand(w, New(o)) /\ Return(Chosen)
              \/ win' = w /\ fetched' = << >> /\ using' = None /\ Return(None)
       PROVE  IInv'
  <2> HIDE DEF New
  <2> QED
    BY <1>14, <1>15, <1>16
<1> QED
  BY <1>5, <1>13, <1>16 DEF round, w

-----------------------------------------------------------------------------
(* The stage takes a part of its offer, and asks for more.                 *)

(* The clamps of a slice cursor put its start before its end.              *)
LEMMA SliceIs ==
  ASSUME Typed
  PROVE  SliceEnd \in Nat /\ SliceStart \in Nat /\ SliceStart <= SliceEnd
<1>1. span[1] \in Nat /\ span[2] \in Nat /\ Length \in Nat
  BY OptionsAreSizes DEF Typed
<1>2. SliceEnd \in Nat
  BY <1>1 DEF SliceEnd, Lesser
<1> QED
  BY <1>1, <1>2 DEF SliceStart, Lesser

(* Whatever the stage claims, what it takes was offered.                   *)
LEMMA TakeOK ==
  ASSUME IInv, NEW consumed \in Nat, Take(consumed), driver' = driver, pos' = pos
  PROVE  Stored' /\ Offering' /\ WithinLimits' /\ Streaming' /\ span' \in Nat \X Nat
<1>1. fetched' = fetched
      /\ using' = (IF using = None THEN None
                   ELSE <<using[1], Lesser(using[2] + consumed, Len(fetched[using[1]].bytes))>>)
  BY DEF Take
<1>2. win' = Consume(win, consumed) \/ win' = win
  BY DEF Take
<1>3. WindowOK(win) /\ TotalOK(win) /\ FetchedOK(fetched)
  BY DEF IInv, Stored
<1>4. /\ WindowOK(win') /\ win'.cap = win.cap /\ win'.total = win.total
      /\ EndOf(win') = EndOf(win)
  BY <1>2, <1>3, ConsumeOK
<1>5. Stored'
  BY <1>1, <1>3, <1>4 DEF IInv, Stored, TotalOK
<1>6. Offering'
  <2> SUFFICES ASSUME using # None PROVE Offering'
    BY <1>1 DEF Offering
  <2> DEFINE l == Len(fetched[using[1]].bytes)
             n == Lesser(using[2] + consumed, l)
  <2>1. /\ driver \in {"random", "buffered"} /\ using \in Nat \X Nat
        /\ using[1] \in 1..Len(fetched) /\ using[2] \in 0..l
    BY DEF IInv, Offering
  <2>2. l \in Nat
    BY <1>3, <2>1 DEF FetchedOK, RangeOK, RangeSet
  <2>3. using' = <<using[1], n>>
    BY <1>1
  <2> HIDE DEF l
  <2>4. n \in 0..l /\ n \in Nat /\ using[1] \in Nat
    BY <2>1, <2>2 DEF Lesser
  <2> HIDE DEF n
  <2>5. using' \in Nat \X Nat /\ using'[1] = using[1] /\ using'[2] = n
    BY <2>3, <2>4
  <2> QED
    BY <1>1, <2>1, <2>4, <2>5 DEF Offering, l
<1>7. WithinLimits'
  BY <1>1, <1>4 DEF IInv, WithinLimits, Limit
<1>8. Streaming'
  BY <1>4 DEF IInv, Streaming
<1>9. span' \in Nat \X Nat
  <2>1. CASE driver = "slice"
    <3> DEFINE d == SliceEnd - SliceStart
               k == Lesser(consumed, d)
    <3>1. SliceEnd \in Nat /\ SliceStart \in Nat /\ d \in Nat
      BY SliceIs DEF IInv
    <3>2. k \in Nat
      BY <3>1 DEF Lesser
    <3>3. span' = <<SliceStart + k, SliceEnd>>
      BY <2>1 DEF Take
    <3> HIDE DEF k
    <3> QED
      BY <3>1, <3>2, <3>3
  <2>2. CASE driver # "slice"
    BY <2>2 DEF Take, IInv, Typed
  <2> QED
    BY <2>1, <2>2
<1> QED
  BY <1>5, <1>6, <1>7, <1>8, <1>9

(* Claims are numbers.                                                     *)
LEMMA ClaimsAre == Claims \subseteq Nat
BY DEF Claims

(* What the stage is left with when it asked for nothing, or in vain.      *)
LEMMA StepAgain ==
  ASSUME IInv, pc = "step", goal' = None, UNCHANGED <<driver, src, inFlight, pos, reqs, pc>>,
         Stored', Offering', WithinLimits', Streaming', span' \in Nat \X Nat
  PROVE  IInv'
<1>1. Typed' /\ Asking' /\ Backed' /\ Reading' /\ ServedIsOffered'
  <2>1. Typed'
    BY DEF IInv, Typed
  <2>2. Asking'
    BY DEF IInv, Asking, Asked
  <2>3. Backed'
    BY DEF IInv, Backed
  <2>4. Reading' /\ ServedIsOffered'
    BY DEF Reading, ServedIsOffered
  <2> QED
    BY <2>1, <2>2, <2>3, <2>4
<1> QED
  BY <1>1 DEF IInv

(* The stage puts out a part.                                              *)
LEMMA OutputsOK ==
  ASSUME IInv, Outputs
  PROVE  IInv'
<1>1. PICK consumed \in Nat : Take(consumed)
  BY ClaimsAre DEF Outputs
<1>2. pc = "step" /\ goal' = None /\ UNCHANGED <<driver, src, inFlight, pos, reqs, pc>>
  BY DEF Outputs
<1>3. Stored' /\ Offering' /\ WithinLimits' /\ Streaming' /\ span' \in Nat \X Nat
  BY <1>1, <1>2, TakeOK
<1> QED
  BY <1>2, <1>3, StepAgain

(* The stage asks for what the driver refuses to serve.                    *)
LEMMA BreaksProtocolOK ==
  ASSUME IInv, BreaksProtocol
  PROVE  IInv'
<1>1. pc = "step" /\ goal' = None /\ UNCHANGED <<driver, src, inFlight, pos, reqs, pc>>
  BY DEF BreaksProtocol
<1>2. PICK consumed \in Claims : IF driver = "slice" THEN Take(consumed)
                                 ELSE UNCHANGED <<span, Window>>
  BY DEF BreaksProtocol
<1>3. CASE Take(consumed)
  <2>1. consumed \in Nat
    BY ClaimsAre
  <2>2. Stored' /\ Offering' /\ WithinLimits' /\ Streaming' /\ span' \in Nat \X Nat
    BY <1>1, <1>3, <2>1, TakeOK
  <2> QED
    BY <1>1, <2>2, StepAgain
<1>4. CASE UNCHANGED <<span, Window>>
  <2>1. span' = span /\ win' = win /\ fetched' = fetched /\ using' = using
    BY <1>4 DEF Window
  <2>2. Stored' /\ Offering' /\ WithinLimits'
    BY <1>1, <2>1 DEF IInv, Stored, Offering, WithinLimits, Limit
  <2>3. Streaming' /\ span' \in Nat \X Nat
    BY <1>1, <2>1 DEF IInv, Streaming, Typed
  <2> QED
    BY <1>1, <2>2, <2>3, StepAgain
<1> QED
  BY <1>2, <1>3, <1>4

(* The lists a stage may ask with are lists of requests.                   *)
LEMMA AskedLists ==
  ASSUME NEW asked \in RequestLists
  PROVE  /\ asked \in Seq(RequestSet) /\ \A i \in 1..Len(asked) : asked[i] \in Asked
<1>1. asked \in Seq(RequestSet)
  BY CallersAreReal DEF RequestSet
<1>2. DOMAIN asked = 1..Len(asked)
  BY <1>1
<1> QED
  BY <1>1, <1>2 DEF Asked

(* The stage asks for more.                                                *)
LEMMA NeedsOK ==
  ASSUME IInv, Needs
  PROVE  IInv'
<1>1. PICK consumed \in Claims, asked \in RequestLists :
        NeedAllowed(asked, Offer, consumed) /\ Take(consumed) /\ reqs' \in Kept(asked)
  BY DEF Needs
<1>2. goal' = None /\ pc' = "serve" /\ UNCHANGED <<driver, src, inFlight, pos>>
  BY DEF Needs
<1>3. consumed \in Nat
  BY ClaimsAre
<1>4. Stored' /\ Offering' /\ WithinLimits' /\ Streaming' /\ span' \in Nat \X Nat
  BY <1>1, <1>2, <1>3, TakeOK
<1>5. asked \in Seq(RequestSet) /\ (\A i \in 1..Len(asked) : asked[i] \in Asked) /\ Len(asked) > 0
      /\ Len(asked) \in Nat
  <2>1. asked \in Seq(RequestSet) /\ \A i \in 1..Len(asked) : asked[i] \in Asked
    BY AskedLists
  <2>2. asked # << >>
    BY <1>1 DEF NeedAllowed
  <2> QED
    BY <2>1, <2>2
<1>6. reqs' = asked \/ (driver = "async" /\ Select(asked) # 0 /\ reqs' = CopyRequests(asked))
  BY <1>1 DEF Kept
<1>7. /\ reqs' \in Seq(RequestSet) /\ Len(reqs') > 0
      /\ \A i \in 1..Len(reqs') : reqs'[i] \in Asked
  <2>1. CASE reqs' = asked
    BY <1>5, <2>1
  <2>2. CASE Select(asked) # 0 /\ reqs' = CopyRequests(asked)
    <3> DEFINE t == CopyRequests(asked)
    <3>1. /\ t \in Seq(RequestSet) /\ Len(t) > 0
          /\ \A i \in 1..Len(t) : \E j \in 1..Len(asked) : t[i] = asked[j]
      BY <1>5, <2>2, CopiedOK
    <3>2. reqs' = t
      BY <2>2
    <3> HIDE DEF t
    <3> QED
      BY <1>5, <3>1, <3>2
  <2> QED
    BY <1>6, <2>1, <2>2
<1>8. driver = "slice" => \A i \in 1..Len(reqs') : ~PastEnd(reqs'[i], Length)
  <2> SUFFICES ASSUME driver = "slice" PROVE \A i \in 1..Len(asked) : ~PastEnd(asked[i], Length)
    BY <1>6
  <2>1. Offer.total = Length /\ Length # Unknown
    BY OptionsAreSizes, AbsentIsNothing DEF Offer
  <2>2. DOMAIN asked = 1..Len(asked)
    BY <1>5
  <2> QED
    BY <1>1, <2>1, <2>2 DEF NeedAllowed
<1>9. Typed'
  BY <1>2, <1>4 DEF IInv, Typed
<1>10. Asking'
  BY <1>2, <1>7, <1>8 DEF Asking, Asked
<1>11. Backed'
  BY <1>2 DEF IInv, Backed
<1>12. Reading' /\ ServedIsOffered'
  BY <1>2 DEF Reading, ServedIsOffered
<1> QED
  BY <1>4, <1>9, <1>10, <1>11, <1>12 DEF IInv

-----------------------------------------------------------------------------
(* The slice cursor, and the reads of the stream and async cursors.        *)

(* The slice cursor offers what was asked for.                             *)
LEMMA ServeSliceOK ==
  ASSUME IInv, ServeSlice
  PROVE  IInv'
<1> DEFINE r == reqs[1]
<1>1. /\ pc = "serve" /\ driver = "slice" /\ goal' = r /\ reqs' = << >> /\ pc' = "step"
      /\ driver' = driver /\ src' = src /\ inFlight' = inFlight /\ pos' = pos
      /\ win' = win /\ fetched' = fetched /\ using' = using
  BY DEF ServeSlice, Window
<1>2. Len(reqs) > 0 /\ reqs \in Seq(RequestSet) /\ 1 \in 1..Len(reqs)
  BY <1>1 DEF IInv, Asking
<1>3. r \in RequestSet /\ r \in Asked /\ ~PastEnd(r, Length)
  BY <1>1, <1>2 DEF IInv, Asking
<1>4. span' = CASE r.kind = "least" -> <<r.off, Lesser(r.off + Greater(r.len, ReadSize), Length)>>
                [] r.kind = "range" -> <<r.off, ReqEnd(r)>>
                [] OTHER            -> span
  BY DEF ServeSlice
<1> HIDE DEF r
<1>5. r.off \in Nat /\ r.len \in Nat /\ ReqEnd(r) = r.off + r.len /\ ReqEnd(r) \in Nat
      /\ r.kind \in {"least", "range", "len"}
  BY <1>3, AskedIs
<1>6. Length \in Nat /\ ReadSize \in Nat /\ span \in Nat \X Nat /\ Length # Unknown
  BY OptionsAreSizes, AbsentIsNothing DEF IInv, Typed
<1> DEFINE e == Lesser(r.off + Greater(r.len, ReadSize), Length)
<1>7. Offer' = [off |-> SliceStart', bytes |-> Source(SliceStart', SliceEnd'), total |-> Length]
  BY <1>1, Zenon DEF Offer
<1>8. span' \in Nat \X Nat /\ Satisfied(r, Offer')
  <2>1. CASE r.kind = "least"
    <3>1. r.off <= Length
      <4>1. r.off > Length => PastEnd(r, Length)
        BY <2>1 DEF PastEnd
      <4> QED
        BY <1>3, <1>5, <1>6, <4>1
    <3>2. e \in Nat /\ r.off <= e /\ e <= Length /\ (e - r.off >= r.len \/ e = Length)
      BY <1>5, <1>6, <3>1 DEF Lesser, Greater
    <3>3. span' = <<r.off, e>>
      BY <1>4, <2>1
    <3> HIDE DEF e
    <3>4. SliceEnd' = e /\ SliceStart' = r.off
      BY <1>5, <1>6, <3>2, <3>3 DEF SliceEnd, SliceStart, Lesser
    <3>5. Len(Source(r.off, e)) = e - r.off
      BY <1>5, <3>2, SourceIs
    <3>6. r.off + (e - r.off) = e /\ r.kind # "len"
      BY <1>5, <2>1, <3>2
    <3> DEFINE b == Source(r.off, e)
    <3>7. Offer' = [off |-> r.off, bytes |-> b, total |-> Length] /\ Len(b) = e - r.off
      BY <1>7, <3>4, <3>5
    <3> HIDE DEF b
    <3>8. Satisfied(r, Offer')
      BY <1>6, <3>2, <3>6, <3>7 DEF Satisfied
    <3> QED
      BY <1>5, <3>2, <3>3, <3>8
  <2>2. CASE r.kind = "range"
    <3> DEFINE l == ReqEnd(r)
    <3>1. l <= Length /\ l \in Nat /\ l = r.off + r.len
      <4>1. l > Length => PastEnd(r, Length)
        BY <2>2 DEF PastEnd
      <4> QED
        BY <1>3, <1>5, <1>6, <4>1
    <3>2. span' = <<r.off, l>>
      BY <1>4, <2>2
    <3> HIDE DEF l
    <3>3. SliceEnd' = l /\ SliceStart' = r.off
      BY <1>5, <1>6, <3>1, <3>2 DEF SliceEnd, SliceStart, Lesser
    <3>4. Len(Source(r.off, l)) = l - r.off /\ l - r.off = r.len
      <4>1. r.off <= l /\ l - r.off = r.len
        BY <1>5, <3>1
      <4> QED
        BY <1>5, <3>1, <4>1, SourceIs
    <3> DEFINE b == Source(r.off, l)
    <3>5. Offer' = [off |-> r.off, bytes |-> b, total |-> Length] /\ Len(b) = r.len
      BY <1>7, <3>3, <3>4
    <3> HIDE DEF b
    <3>6. Satisfied(r, Offer')
      BY <1>5, <2>2, <3>5 DEF Satisfied
    <3> QED
      BY <1>5, <3>1, <3>2, <3>6
  <2>3. CASE r.kind = "len"
    <3>1. span' = span
      BY <1>4, <2>3
    <3>2. Offer'.total # Unknown
      BY <1>6, <1>7
    <3> QED
      BY <1>6, <2>3, <3>1, <3>2 DEF Satisfied
  <2> QED
    BY <1>5, <2>1, <2>2, <2>3
<1>9. Typed' /\ Backed'
  BY <1>1, <1>8 DEF IInv, Typed, Backed
<1>10. Asking'
  <2>1. << >> \in Seq(RequestSet) /\ Len(<< >>) = 0
    OBVIOUS
  <2> QED
    BY <1>1, <1>3, <2>1 DEF Asking, Asked
<1>11. Stored' /\ Offering' /\ WithinLimits'
  BY <1>1 DEF IInv, Stored, Offering, WithinLimits, Limit
<1>12. Streaming' /\ Reading'
  BY <1>1 DEF Streaming, Reading
<1>13. ServedIsOffered'
  BY <1>1, <1>8 DEF ServedIsOffered
<1> QED
  BY <1>9, <1>10, <1>11, <1>12, <1>13 DEF IInv

(* What a stream cursor prefers was asked for.                             *)
LEMMA PreferredIs ==
  ASSUME IInv, pc = "serve"
  PROVE  Preferred \in Asked /\ Preferred \in RequestSet
<1>1. /\ Len(reqs) > 0 /\ reqs \in Seq(RequestSet) /\ DOMAIN reqs = 1..Len(reqs)
      /\ Len(reqs) \in Nat /\ \A i \in 1..Len(reqs) : reqs[i] \in Asked /\ reqs[i] \in RequestSet
  BY DEF IInv, Asking
<1>2. Ahead \in SUBSET (1..Len(reqs))
  BY <1>1 DEF Ahead
<1>3. Ahead # {} => Min(Ahead) \in Ahead
  <2>1. Ahead \in SUBSET Nat
    BY <1>1, <1>2
  <2> QED
    BY <2>1, MinIsLeast
<1>4. Preferred = reqs[1] \/ (Ahead # {} /\ Preferred = reqs[Min(Ahead)])
  BY DEF Preferred
<1>5. CASE Ahead # {} /\ Preferred = reqs[Min(Ahead)]
  <2>1. Min(Ahead) \in 1..Len(reqs)
    BY <1>2, <1>3, <1>5
  <2> QED
    BY <1>1, <1>5, <2>1
<1>6. CASE Preferred = reqs[1]
  <2>1. 1 \in 1..Len(reqs)
    BY <1>1
  <2> QED
    BY <1>1, <1>6, <2>1
<1> QED
  BY <1>4, <1>5, <1>6

(* The stream cursor starts on a request, or cannot serve it.              *)
LEMMA ServeStreamOK ==
  ASSUME IInv, ServeStream
  PROVE  IInv'
<1>1. /\ pc = "serve" /\ driver = "stream" /\ src' = src /\ win' = win /\ fetched' = fetched
      /\ using' = using
  BY DEF ServeStream, Window
<1>2. \/ Return(None)
      \/ /\ ~NeedsRandomAccess(Preferred) /\ ~(Greater(Preferred.len, 1) > MaxWindow)
         /\ goal' = Preferred /\ reqs' = << >> /\ pc' = "skip"
         /\ UNCHANGED <<driver, inFlight, pos, span>>
  BY DEF ServeStream
<1>3. driver' = driver /\ inFlight' = inFlight /\ pos' = pos /\ span' = span
  BY <1>2 DEF Return
<1>4. Backed' /\ Stored' /\ Offering' /\ WithinLimits' /\ Streaming'
  <2>1. Backed' /\ Streaming'
    BY <1>1, <1>3 DEF IInv, Backed, Streaming
  <2> QED
    BY <1>1, <1>3, <2>1 DEF IInv, Stored, Offering, WithinLimits, Limit
<1>5. CASE Return(None)
  <2>1. Typed' /\ Asking' /\ Reading' /\ goal' = None
    BY <1>5, ReturnOK DEF IInv
  <2>2. ServedIsOffered'
    BY <2>1 DEF ServedIsOffered
  <2> QED
    BY <1>4, <2>1, <2>2 DEF IInv
<1>6. CASE /\ ~NeedsRandomAccess(Preferred) /\ ~(Greater(Preferred.len, 1) > MaxWindow)
           /\ goal' = Preferred /\ reqs' = << >> /\ pc' = "skip"
  <2>1. Preferred \in Asked /\ Preferred \in RequestSet
    BY <1>1, PreferredIs
  <2>2. Preferred.off \in Nat /\ Preferred.len \in Nat
    BY <2>1, AskedIs
  <2>3. Preferred.kind # "len" /\ Preferred.off >= win.base /\ Greater(Preferred.len, 1) <= MaxWindow
    <3>1. win.base \in Nat
      BY WindowFields DEF IInv, Stored
    <3>2. MaxWindow \in Nat /\ Greater(Preferred.len, 1) \in Nat
      BY <2>2, OptionsAreSizes, AtLeastOne
    <3> QED
      BY <1>6, <2>2, <3>1, <3>2 DEF NeedsRandomAccess
  <2>4. Typed'
    BY <1>3, <1>6 DEF IInv, Typed
  <2>5. Asking'
    <3>1. << >> \in Seq(RequestSet) /\ Len(<< >>) = 0
      OBVIOUS
    <3> QED
      BY <1>6, <2>1, <3>1 DEF Asking, Asked
  <2>6. Reading'
    BY <1>1, <1>3, <1>6, <2>1, <2>3 DEF Reading, Asked, Limit
  <2>7. ServedIsOffered'
    BY <1>6 DEF ServedIsOffered
  <2> QED
    BY <1>4, <2>4, <2>5, <2>6, <2>7 DEF IInv
<1> QED
  BY <1>2, <1>5, <1>6

(* The async cursor takes the window to the request and starts on it.      *)
LEMMA ServeAsyncOK ==
  ASSUME IInv, ServeAsync
  PROVE  IInv'
<1> DEFINE at == Position(win, fetched, Chosen.off)
           room == MakeRoom(at.win, at.fetched, Target(Chosen))
<1>1. /\ Serving("least") /\ driver = "async" /\ win' = at.win /\ fetched' = room
      /\ goal' = Chosen /\ reqs' = << >> /\ pc' = "fill"
      /\ UNCHANGED <<driver, src, inFlight, using, span, pos>>
  BY DEF ServeAsync
<1>2. /\ Chosen \in Asked /\ Chosen \in RequestSet /\ Chosen.kind = "least" /\ RandomAccess
      /\ Chosen.off \in Nat /\ Chosen.len \in Nat /\ Affordable(Chosen)
  BY <1>1, ChosenIs
<1>3. /\ WindowOK(win) /\ TotalOK(win) /\ FetchedOK(fetched)
      /\ win.cap + Capacity(fetched) <= InputBytes /\ InputBytes \in Nat
      /\ win.cap \in Nat /\ Capacity(fetched) \in Nat
  BY <1>2, RandomHas
<1>4. Positioned(at, win, fetched, Chosen.off)
  BY <1>2, <1>3, PositionedOK
<1>5. FetchedOK(room) /\ Capacity(room) \in Nat /\ Capacity(room) <= Capacity(at.fetched)
  <2>1. FetchedOK(at.fetched)
    BY <1>4 DEF Positioned
  <2> QED
    BY <2>1, MakeRoomOK
<1> HIDE DEF at, room
<1>6. /\ WindowOK(at.win) /\ at.win.base = Chosen.off /\ at.win.total = win.total
      /\ FetchedOK(at.fetched)
      /\ at.win.cap + Capacity(at.fetched) <= win.cap + Capacity(fetched)
  BY <1>4 DEF Positioned
<1>7. at.win.cap \in Nat /\ Capacity(at.fetched) \in Nat
  BY <1>6, WindowFields, CapacityIs
<1>8. at.win.cap + Capacity(room) <= InputBytes
  BY <1>3, <1>5, <1>6, <1>7
<1>9. Greater(Chosen.len, 1) <= InputBytes
  BY <1>2 DEF Affordable
<1>10. Typed' /\ Backed' /\ Streaming'
  BY <1>1 DEF IInv, Typed, Backed, Streaming
<1>11. Asking'
  <2>1. << >> \in Seq(RequestSet) /\ Len(<< >>) = 0
    OBVIOUS
  <2> QED
    BY <1>1, <1>2, <2>1 DEF Asking, Asked
<1>12. Stored'
  <2>1. TotalOK(win')
    BY <1>1, <1>3, <1>6 DEF TotalOK
  <2> QED
    BY <1>1, <1>5, <1>6, <2>1 DEF Stored
<1>13. Offering'
  BY <1>1 DEF IInv, Offering
<1>14. WithinLimits'
  BY <1>1, <1>8 DEF WithinLimits, Limit
<1>15. Reading'
  BY <1>1, <1>2, <1>6, <1>9 DEF Reading, Asked, Limit
<1>16. ServedIsOffered'
  BY <1>1 DEF ServedIsOffered
<1> QED
  BY <1>10, <1>11, <1>12, <1>13, <1>14, <1>15, <1>16 DEF IInv

(* The cursor's limit, and what is left of it for the window.              *)
LEMMA LimitIs ==
  ASSUME IInv
  PROVE  /\ Limit \in Nat /\ Capacity(fetched) \in Nat /\ win.cap \in Nat
         /\ Limit - Capacity(fetched) \in Nat /\ win.cap <= Limit - Capacity(fetched)
         /\ WindowOK(win) /\ TotalOK(win) /\ FetchedOK(fetched)
<1>1. WindowOK(win) /\ TotalOK(win) /\ FetchedOK(fetched) /\ win.cap + Capacity(fetched) <= Limit
  BY DEF IInv, Stored, WithinLimits
<1>2. Limit \in Nat
  BY OptionsAreSizes, LimitsAreNaturals DEF Limit
<1>3. Capacity(fetched) \in Nat /\ win.cap \in Nat
  BY <1>1, CapacityIs, WindowFields
<1> QED
  BY <1>1, <1>2, <1>3

(* What a cursor that reads has.                                           *)
LEMMA ReadingHas ==
  ASSUME IInv, pc \in {"skip", "fill"}
  PROVE  /\ driver \in {"stream", "async"} /\ using = None
         /\ goal \in Asked /\ goal \in RequestSet /\ goal.kind # "len"
         /\ goal.off \in Nat /\ goal.len \in Nat
         /\ Greater(goal.len, 1) <= Limit /\ Greater(goal.len, 1) \in Nat
         /\ Greater(goal.len, 1) >= goal.len /\ Greater(goal.len, 1) >= 1
         /\ pos \in Nat /\ pos <= Length /\ (driver = "stream" => EndOf(win) = pos)
<1>1. /\ driver \in {"stream", "async"} /\ goal \in Asked /\ goal \in RequestSet
      /\ goal.kind # "len" /\ Greater(goal.len, 1) <= Limit
  BY DEF IInv, Reading
<1>2. goal.off \in Nat /\ goal.len \in Nat
  BY <1>1, AskedIs
<1>3. using = None
  BY <1>1 DEF IInv, Offering
<1>4. pos \in Nat /\ pos <= Length /\ (driver = "stream" => EndOf(win) = pos)
  BY OptionsAreSizes DEF IInv, Typed, Streaming
<1> QED
  BY <1>1, <1>2, <1>3, <1>4, AtLeastOne

(* One read: w is the window, emptied or not, and knows no end it is at.   *)
LEMMA ReadSomeOK ==
  ASSUME IInv, pc \in {"skip", "fill"}, NEW w, WindowOK(w), w.cap = win.cap,
         w.total = win.total, EndOf(w) = EndOf(win), NEW want \in Nat \ {0},
         driver = "stream" => win.total = Unknown, ReadSome(w, want)
  PROVE  /\ Typed' /\ Asking' /\ Backed' /\ Stored' /\ Offering' /\ WithinLimits'
         /\ Streaming' /\ ServedIsOffered'
         /\ win'.base = w.base /\ EndOf(win') <= EndOf(win) + want
         /\ UNCHANGED <<driver, goal, pc>>
<1> DEFINE limit == Limit - Capacity(fetched)
           room == Spare(w, want, limit)
           from == IF driver = "stream" THEN pos ELSE EndOf(w)
           left == Greater(Length - from, 0)
<1>1. /\ limit \in Nat /\ win.cap <= limit /\ TotalOK(win) /\ FetchedOK(fetched)
      /\ Limit \in Nat /\ Capacity(fetched) \in Nat
  BY LimitIs
<1>2. /\ driver \in {"stream", "async"} /\ using = None
      /\ pos \in Nat /\ pos <= Length /\ (driver = "stream" => EndOf(win) = pos)
  BY ReadingHas
<1>3. EndOf(w) \in Nat /\ Length \in Nat
  BY WindowFields, OptionsAreSizes
<1>4. UNCHANGED <<driver, src, inFlight, fetched, using, span, reqs, goal, pc>>
  BY DEF ReadSome
<1>5. PICK n \in IF left = 0 \/ want = 0 THEN {0} ELSE 1..Lesser(want, left) :
        /\ pos' = IF driver = "stream" THEN pos + n ELSE pos
        /\ win' = IF n = 0 THEN [room.win EXCEPT !.total = EndOf(w)]
                  ELSE Commit(Filled(room.win, Source(from, from + n)), n)
  BY DEF ReadSome
<1>6. room.ok
  BY DEF ReadSome
<1> HIDE DEF limit
<1>7. /\ Same(room.win, w) /\ room.win.cap <= limit
      /\ Len(room.win.buf) - room.win.end >= want
  BY <1>1, <1>6, SpareOK
<1> HIDE DEF room
<1>8. from = EndOf(w) /\ from \in Nat
  BY <1>2, <1>3
<1> HIDE DEF from
<1>9. left \in Nat /\ (left = 0 => from >= Length) /\ (left > 0 => left = Length - from)
  BY <1>3, <1>8 DEF Greater
<1> HIDE DEF left
<1>10. /\ WindowOK(room.win) /\ room.win.total = win.total /\ room.win.base = w.base
       /\ Held(room.win) = Held(w) /\ EndOf(room.win) = EndOf(w)
  BY <1>7 DEF Same
<1>11. n \in Nat /\ n <= want /\ (n = 0 => left = 0) /\ (n > 0 => n <= left)
  BY <1>5, <1>9 DEF Lesser
<1>12. /\ WindowOK(win') /\ TotalOK(win') /\ win'.cap <= limit /\ win'.base = w.base
       /\ EndOf(win') = EndOf(w) + n /\ pos' \in 0..Length
       /\ driver = "stream" => pos' = pos + n
       /\ driver = "stream" /\ win'.total # Unknown => win'.total = EndOf(win') /\ pos' = Length
  <2>1. CASE n = 0
    <3> DEFINE v == [room.win EXCEPT !.total = EndOf(w)]
    <3>1. EndOf(w) \in Totals
      BY <1>3 DEF Totals
    <3>2. /\ WindowOK(v) /\ v.cap = room.win.cap /\ v.base = room.win.base /\ v.total = EndOf(w)
          /\ EndOf(v) = EndOf(room.win)
      BY <1>10, <3>1, TotalSetOK
    <3>3. win' = v
      BY <1>5, <2>1
    <3> HIDE DEF v
    <3>4. EndOf(w) >= Length
      BY <1>8, <1>9, <1>11, <2>1
    <3>5. pos' = pos
      BY <1>2, <1>5, <2>1
    <3>6. driver = "stream" => pos' = Length /\ pos' = pos + n
      BY <1>2, <1>3, <2>1, <3>4, <3>5
    <3>7. EndOf(w) = EndOf(w) + n
      BY <1>3, <2>1
    <3> QED
      BY <1>2, <1>3, <1>7, <1>10, <3>2, <3>3, <3>4, <3>5, <3>6, <3>7 DEF TotalOK
  <2>2. CASE n > 0
    <3> DEFINE b == Source(from, from + n)
               v == Commit(Filled(room.win, b), n)
    <3>1. n <= left /\ left = Length - from /\ from + n \in Nat /\ from <= from + n
          /\ (from + n) - from = n /\ from + n <= Length
      BY <1>3, <1>8, <1>9, <1>11, <2>2
    <3>2. b \in Seq(Cells) /\ Len(b) = n /\ \A k \in 1..n : b[k] = from + k - 1
      <4>1. /\ b \in Seq(Cells) /\ Len(b) = (from + n) - from
            /\ \A k \in 1..((from + n) - from) : b[k] = from + k - 1
        BY <1>8, <3>1, SourceIs
      <4> HIDE DEF b
      <4> QED
        BY <3>1, <4>1
    <3>3. win' = v
      BY <1>5, <1>11, <2>2
    <3> HIDE DEF b
    <3>4. room.win.end + Len(b) <= Len(room.win.buf)
      <4>1. room.win.end \in Nat /\ Len(room.win.buf) \in Nat
        BY <1>10, WindowFields
      <4> QED
        BY <1>7, <1>11, <3>2, <4>1
    <3>5. \A k \in 1..Len(b) : b[k] = EndOf(room.win) + k - 1
      BY <1>8, <1>10, <3>2
    <3>6. /\ WindowOK(v) /\ v.cap = room.win.cap /\ v.base = room.win.base
          /\ v.total = room.win.total /\ EndOf(v) = EndOf(room.win) + n
      <4> DEFINE u == Commit(Filled(room.win, b), Len(b))
      <4>1. /\ WindowOK(u) /\ u.cap = room.win.cap /\ u.base = room.win.base
            /\ u.total = room.win.total /\ EndOf(u) = EndOf(room.win) + Len(b)
        BY <1>10, <3>2, <3>4, <3>5, ReadOK
      <4> QED
        BY <3>2, <4>1
    <3> HIDE DEF v
    <3>7. TotalOK(win')
      BY <1>1, <1>10, <3>3, <3>6 DEF TotalOK
    <3>8. pos' \in 0..Length /\ (driver = "stream" => pos' = pos + n)
      <4>1. CASE driver = "stream"
        <5>1. pos' = pos + n /\ from = pos
          BY <1>2, <1>5, <1>8, <4>1
        <5> QED
          BY <1>2, <1>3, <1>11, <3>1, <5>1
      <4>2. CASE driver # "stream"
        BY <1>2, <1>3, <1>5, <4>2
      <4> QED
        BY <4>1, <4>2
    <3>9. driver = "stream" => win'.total = Unknown
      BY <1>10, <3>3, <3>6
    <3> QED
      BY <1>7, <1>10, <3>3, <3>6, <3>7, <3>8, <3>9
  <2> QED
    BY <1>11, <2>1, <2>2
<1>13. win'.cap + Capacity(fetched) <= Limit
  <2>1. win'.cap \in Nat
    BY <1>12, WindowFields
  <2> QED
    BY <1>1, <1>12, <2>1 DEF limit
<1>14. Typed' /\ Asking' /\ Backed'
  <2>1. Typed'
    BY <1>4, <1>12 DEF IInv, Typed
  <2>2. Asking'
    BY <1>4 DEF IInv, Asking, Asked
  <2>3. Backed'
    BY <1>4 DEF IInv, Backed
  <2> QED
    BY <2>1, <2>2, <2>3
<1>15. Stored' /\ Offering' /\ WithinLimits'
  <2>1. Stored'
    BY <1>1, <1>4, <1>12 DEF IInv, Stored
  <2>2. Offering'
    BY <1>2, <1>4 DEF Offering
  <2>3. WithinLimits'
    BY <1>4, <1>13 DEF WithinLimits, Limit
  <2> QED
    BY <2>1, <2>2, <2>3
<1>16. Streaming'
  <2> SUFFICES ASSUME driver = "stream"
               PROVE  /\ EndOf(win') = pos'
                      /\ win'.total # Unknown => win'.total = Length /\ pos' = Length
    BY <1>4 DEF Streaming
  <2> QED
    BY <1>2, <1>12
<1>17. ServedIsOffered'
  BY <1>4 DEF ServedIsOffered
<1>18. EndOf(win') <= EndOf(win) + want
  BY <1>3, <1>11, <1>12
<1> QED
  BY <1>4, <1>12, <1>14, <1>15, <1>16, <1>17, <1>18

(* A read on the way to the request.                                       *)
LEMMA SkipReadOK ==
  ASSUME IInv, SkipRead
  PROVE  IInv'
<1> DEFINE w == ResetTo(win, EndOf(win))
<1>1. pc = "skip" /\ goal.off > EndOf(win) /\ win.total = Unknown /\ ReadSome(w, SkipWant)
  BY DEF SkipRead, Skipping
<1>2. WindowOK(win) /\ EndOf(win) \in Nat /\ goal.off \in Nat /\ Greater(goal.len, 1) <= Limit
      /\ Greater(goal.len, 1) >= 1 /\ Greater(goal.len, 1) \in Nat /\ Limit \in Nat
      /\ driver = "stream" /\ goal \in Asked /\ goal \in RequestSet /\ goal.kind # "len"
  BY <1>1, LimitIs, ReadingHas, WindowFields DEF IInv, Reading
<1>3. MaxWindow \in Nat \ {0} /\ ReadSize \in Nat \ {0}
  BY <1>2, OptionsAreSizes DEF Limit
<1>4. SkipWant \in Nat \ {0} /\ SkipWant <= goal.off - EndOf(win)
  <2> DEFINE d == goal.off - EndOf(win)
  <2>1. d \in Nat \ {0}
    BY <1>1, <1>2
  <2>2. SkipWant = Lesser(Lesser(d, ReadSize), MaxWindow)
    BY DEF SkipWant
  <2> HIDE DEF d
  <2>3. SkipWant \in Nat \ {0} /\ SkipWant <= d
    BY <1>3, <2>1, <2>2 DEF Lesser
  <2> QED
    BY <2>3 DEF d
<1>5. WindowOK(w) /\ w.cap = win.cap /\ w.total = win.total /\ EndOf(w) = EndOf(win)
      /\ w.base = EndOf(win)
  BY <1>2, ResetOK
<1> HIDE DEF w
<1>6. /\ Typed' /\ Asking' /\ Backed' /\ Stored' /\ Offering' /\ WithinLimits'
      /\ Streaming' /\ ServedIsOffered'
      /\ win'.base = w.base /\ UNCHANGED <<driver, goal, pc>>
  BY <1>1, <1>4, <1>5, ReadSomeOK
<1>7. Reading'
  <2>1. goal.off >= win'.base
    BY <1>1, <1>2, <1>5, <1>6
  <2> QED
    BY <1>1, <1>2, <1>6, <2>1 DEF Reading, Asked, Limit
<1> QED
  BY <1>6, <1>7 DEF IInv

(* A read for the request.                                                 *)
LEMMA FillReadOK ==
  ASSUME IInv, FillRead
  PROVE  IInv'
<1>1. pc = "fill" /\ Held(win) < Greater(goal.len, 1) /\ ~AtEnd /\ ReadSome(win, FillWant)
  BY DEF FillRead, Filling
<1>2. /\ WindowOK(win) /\ EndOf(win) \in Nat /\ Held(win) \in Nat /\ goal.len \in Nat
      /\ Greater(goal.len, 1) <= Limit /\ Greater(goal.len, 1) \in Nat /\ Limit \in Nat
      /\ driver \in {"stream", "async"} /\ goal \in Asked /\ goal \in RequestSet
      /\ goal.kind # "len"
  BY <1>1, LimitIs, ReadingHas, WindowFields
<1>3. driver = "stream" => win.total = Unknown
  BY <1>1 DEF AtEnd
<1>4. goal.off = win.base
  BY <1>1, <1>3 DEF IInv, Reading
<1>5. FillWant \in Nat \ {0}
  <2> DEFINE least == Greater(goal.len, 1)
             goes == ReadTarget(goal.len, ReadSize)
             target == Lesser(goes, Limit)
             h == Held(win)
  <2>1. goes \in Nat /\ goes >= least
    BY <1>2, OptionsAreSizes, TargetOK
  <2>2. FillWant = target - Lesser(h, target)
    BY DEF FillWant
  <2>3. h \in Nat /\ h < least /\ least <= Limit /\ least \in Nat
    BY <1>1, <1>2
  <2> HIDE DEF least, goes, h
  <2>4. target \in Nat /\ target >= least
    BY <1>2, <2>1, <2>3 DEF Lesser
  <2> HIDE DEF target
  <2>5. Lesser(h, target) = h /\ target - h \in Nat \ {0}
    BY <2>3, <2>4 DEF Lesser
  <2> QED
    BY <2>2, <2>5
<1>6. /\ Typed' /\ Asking' /\ Backed' /\ Stored' /\ Offering' /\ WithinLimits'
      /\ Streaming' /\ ServedIsOffered'
      /\ win'.base = win.base /\ UNCHANGED <<driver, goal, pc>>
  BY <1>1, <1>2, <1>3, <1>5, ReadSomeOK
<1>7. Reading'
  BY <1>1, <1>2, <1>4, <1>6 DEF Reading, Asked, Limit
<1> QED
  BY <1>6, <1>7 DEF IInv

(* The reader or the allocator fails, or the future is dropped.            *)
LEMMA ReadingFailsOK ==
  ASSUME IInv, ReadingFails
  PROVE  IInv'
<1>1. Skipping \/ Filling
  BY DEF ReadingFails
<1>2. pc \in {"skip", "fill"} /\ src' = src /\ fetched' = fetched /\ using' = using /\ Return(None)
  BY <1>1 DEF ReadingFails, Skipping, Filling
<1>3. PICK w \in IF Skipping THEN {ResetTo(win, EndOf(win))} ELSE {win} :
        win' \in IF ReadsAllowed
                 THEN {Spare(w, IF Skipping THEN SkipWant ELSE FillWant,
                             Limit - Capacity(fetched)).win,
                       ToFront(w, IF Skipping THEN SkipWant ELSE FillWant)}
                 ELSE {w}
  BY DEF ReadingFails
<1>4. /\ WindowOK(win) /\ TotalOK(win) /\ FetchedOK(fetched) /\ Limit \in Nat
      /\ Capacity(fetched) \in Nat /\ win.cap \in Nat
      /\ Limit - Capacity(fetched) \in Nat /\ win.cap <= Limit - Capacity(fetched)
      /\ EndOf(win) \in Nat /\ Held(win) \in Nat
  BY LimitIs, WindowFields
<1>5. goal.off \in Nat /\ goal.len \in Nat /\ driver \in {"stream", "async"}
  BY <1>2, ReadingHas
<1>6. WindowOK(w) /\ w.cap = win.cap /\ w.total = win.total /\ EndOf(w) = EndOf(win)
  <2> DEFINE u == ResetTo(win, EndOf(win))
  <2>1. WindowOK(u) /\ u.cap = win.cap /\ u.total = win.total /\ EndOf(u) = EndOf(win)
    BY <1>4, ResetOK
  <2>2. w = u \/ w = win
    BY <1>3
  <2> HIDE DEF u
  <2> QED
    BY <1>4, <2>1, <2>2
<1>7. (IF Skipping THEN SkipWant ELSE FillWant) \in Nat
  <2>1. CASE Skipping
    <3> DEFINE d == goal.off - EndOf(win)
    <3>1. driver = "stream"
      BY <2>1 DEF Skipping, IInv, Reading
    <3>2. d \in Nat /\ ReadSize \in Nat /\ MaxWindow \in Nat
      BY <1>4, <1>5, <2>1, OptionsAreSizes DEF Skipping
    <3>3. SkipWant = Lesser(Lesser(d, ReadSize), MaxWindow)
      BY DEF SkipWant
    <3> HIDE DEF d
    <3>4. SkipWant \in Nat
      BY <3>2, <3>3 DEF Lesser
    <3> QED
      BY <2>1, <3>4
  <2>2. CASE ~Skipping
    <3> DEFINE goes == ReadTarget(goal.len, ReadSize)
               target == Lesser(goes, Limit)
               h == Held(win)
    <3>1. goes \in Nat
      BY <1>5, OptionsAreSizes, TargetOK
    <3>2. FillWant = target - Lesser(h, target)
      BY DEF FillWant
    <3>3. h \in Nat
      BY <1>4
    <3> HIDE DEF goes, h
    <3>4. target \in Nat
      BY <1>4, <3>1 DEF Lesser
    <3> HIDE DEF target
    <3>5. target - Lesser(h, target) \in Nat
      BY <3>3, <3>4 DEF Lesser
    <3> QED
      BY <2>2, <3>2, <3>5
  <2> QED
    BY <2>1, <2>2
<1> DEFINE want == IF Skipping THEN SkipWant ELSE FillWant
           limit == Limit - Capacity(fetched)
           room == Spare(w, want, limit)
           front == ToFront(w, want)
<1>8. win' \in {room.win, front, w}
  BY <1>3
<1>9. Same(room.win, w) /\ room.win.cap <= limit
  BY <1>4, <1>6, <1>7, SpareOK
<1>10. Same(front, w) /\ front.cap = w.cap
  BY <1>6, <1>7, ToFrontOK
<1>11. limit \in Nat /\ w.cap <= limit
  BY <1>4, <1>6
<1> HIDE DEF want, limit, room, front
<1>12. WindowOK(win') /\ win'.total = win.total /\ EndOf(win') = EndOf(win) /\ win'.cap <= limit
  <2>1. CASE win' = room.win
    BY <1>6, <1>9, <2>1 DEF Same
  <2>2. CASE win' = front
    BY <1>6, <1>10, <1>11, <2>2 DEF Same
  <2>3. CASE win' = w
    BY <1>6, <1>11, <2>3
  <2> QED
    BY <1>8, <2>1, <2>2, <2>3
<1>13. /\ Typed' /\ Asking' /\ Reading' /\ goal' = None /\ driver' = driver /\ pos' = pos
  BY <1>2, ReturnOK DEF IInv
<1>14. Backed' /\ Offering' /\ ServedIsOffered'
  <2>1. Backed' /\ Offering'
    BY <1>2, <1>13 DEF IInv, Backed, Offering
  <2> QED
    BY <1>13, <2>1 DEF ServedIsOffered
<1>15. Stored'
  BY <1>2, <1>4, <1>12, <1>13 DEF IInv, Stored, TotalOK
<1>16. WithinLimits'
  <2>1. win'.cap \in Nat
    BY <1>12, WindowFields
  <2>2. win'.cap + Capacity(fetched) <= Limit
    BY <1>4, <1>12, <2>1 DEF limit
  <2> QED
    BY <1>2, <1>13, <2>2 DEF WithinLimits, Limit
<1>17. Streaming'
  BY <1>12, <1>13 DEF IInv, Streaming
<1> QED
  BY <1>13, <1>14, <1>15, <1>16, <1>17 DEF IInv

(* The stream is at the request, or at its end.                            *)
LEMMA SkipDoneOK ==
  ASSUME IInv, SkipDone
  PROVE  IInv'
<1> DEFINE n == goal.off - win.base
           v == Consume(win, n)
<1>1. /\ pc = "skip" /\ ~Skipping /\ pc' = "fill"
      /\ win' = (IF goal.off <= EndOf(win) THEN v ELSE win)
      /\ UNCHANGED <<driver, src, inFlight, fetched, using, span, pos, reqs, goal>>
  BY DEF SkipDone
<1>2. /\ driver = "stream" /\ goal.off >= win.base /\ goal \in Asked /\ goal \in RequestSet
      /\ goal.kind # "len" /\ Greater(goal.len, 1) <= Limit
  BY <1>1 DEF IInv, Reading
<1>3. /\ WindowOK(win) /\ TotalOK(win) /\ FetchedOK(fetched) /\ win.base \in Nat
      /\ Held(win) \in Nat /\ EndOf(win) = win.base + Held(win) /\ goal.off \in Nat
      /\ using = None
  BY <1>1, LimitIs, WindowFields, ReadingHas
<1>4. /\ WindowOK(win') /\ win'.cap = win.cap /\ win'.total = win.total
      /\ EndOf(win') = EndOf(win)
      /\ goal.off = win'.base \/ (win'.total # Unknown /\ goal.off > EndOf(win'))
  <2>1. CASE goal.off <= EndOf(win)
    <3>1. n \in Nat /\ Lesser(n, Held(win)) = n /\ win.base + n = goal.off
      BY <1>2, <1>3, <2>1 DEF Lesser
    <3>2. /\ WindowOK(v) /\ v.cap = win.cap /\ v.total = win.total /\ EndOf(v) = EndOf(win)
          /\ v.base = win.base + Lesser(n, Held(win))
      BY <1>3, <3>1, ConsumeOK
    <3>3. win' = v
      BY <1>1, <2>1
    <3> HIDE DEF v, n
    <3> QED
      BY <3>1, <3>2, <3>3
  <2>2. CASE ~(goal.off <= EndOf(win))
    <3>1. win' = win /\ goal.off > EndOf(win)
      BY <1>1, <1>3, <2>2
    <3>2. win.total # Unknown
      BY <1>1, <3>1 DEF Skipping
    <3> QED
      BY <1>3, <3>1, <3>2
  <2> QED
    BY <2>1, <2>2
<1> HIDE DEF v, n
<1>5. Typed' /\ Asking' /\ Backed'
  <2>1. Typed'
    BY <1>1 DEF IInv, Typed
  <2>2. Asking'
    BY <1>1 DEF IInv, Asking, Asked
  <2>3. Backed'
    BY <1>1 DEF IInv, Backed
  <2> QED
    BY <2>1, <2>2, <2>3
<1>6. Stored' /\ Offering' /\ WithinLimits'
  <2>1. Stored'
    BY <1>1, <1>3, <1>4 DEF IInv, Stored, TotalOK
  <2>2. Offering'
    BY <1>1, <1>3 DEF Offering
  <2>3. WithinLimits'
    BY <1>1, <1>4 DEF IInv, WithinLimits, Limit
  <2> QED
    BY <2>1, <2>2, <2>3
<1>7. Streaming'
  BY <1>1, <1>4 DEF IInv, Streaming
<1>8. Reading' /\ ServedIsOffered'
  BY <1>1, <1>2, <1>4 DEF Reading, ServedIsOffered, Asked, Limit
<1> QED
  BY <1>5, <1>6, <1>7, <1>8 DEF IInv

(* Enough is held, or the source has no more.                              *)
LEMMA FillDoneOK ==
  ASSUME IInv, FillDone
  PROVE  IInv'
<1>1. /\ pc = "fill" /\ ~Filling /\ src' = src /\ win' = win /\ fetched' = fetched
      /\ using' = using /\ Return(goal)
  BY DEF FillDone, Window
<1>2. /\ driver \in {"stream", "async"} /\ using = None /\ goal \in Asked /\ goal \in RequestSet
      /\ goal.kind # "len" /\ goal.off \in Nat /\ goal.len \in Nat
      /\ Greater(goal.len, 1) \in Nat /\ Greater(goal.len, 1) >= goal.len
  BY <1>1, ReadingHas
<1>3. /\ Typed' /\ Asking' /\ Reading' /\ goal' = goal /\ pc' = "step" /\ driver' = driver
      /\ pos' = pos
  BY <1>1, <1>2, ReturnOK DEF IInv
<1>4. Backed' /\ Streaming'
  BY <1>1, <1>3 DEF IInv, Backed, Streaming
<1>5. Stored' /\ Offering' /\ WithinLimits'
  BY <1>1, <1>3 DEF IInv, Stored, Offering, WithinLimits, Limit
<1>6. WindowOK(win) /\ Held(win) \in Nat /\ EndOf(win) \in Nat
  BY LimitIs, WindowFields
<1>7. Offer' = OfferOf(win)
  <2>1. driver' # "slice" /\ using' = None /\ win' = win
    BY <1>1, <1>2, <1>3
  <2>2. Offer' = OfferOf(win')
    BY <2>1, Zenon DEF Offer, OfferOf
  <2> QED
    BY <2>1, <2>2
<1>8. Serves(win, goal) \/ (driver = "stream" /\ win.total # Unknown /\ goal.off > win.total)
  <2>1. goal.off = win.base \/ (driver = "stream" /\ win.total # Unknown /\ goal.off > EndOf(win))
    BY <1>1 DEF IInv, Reading
  <2>2. Held(win) >= Greater(goal.len, 1) \/ AtEnd
    BY <1>1, <1>2, <1>6 DEF Filling
  <2>3. AtEnd => win.total # Unknown /\ win.total = EndOf(win)
    <3>1. driver = "stream" /\ win.total # Unknown => win.total = EndOf(win)
      BY DEF IInv, Streaming
    <3>2. Unknown # EndOf(win)
      BY <1>6, AbsentIsNothing
    <3> QED
      BY <1>2, <3>1, <3>2 DEF AtEnd
  <2>4. driver = "stream" /\ win.total # Unknown => win.total = EndOf(win)
    BY DEF IInv, Streaming
  <2>5. CASE goal.off = win.base
    <3>1. Held(win) >= goal.len \/ (win.total # Unknown /\ win.total = EndOf(win))
      BY <1>2, <1>6, <2>2, <2>3
    <3> QED
      BY <1>2, <2>5, <3>1 DEF Serves
  <2>6. CASE driver = "stream" /\ win.total # Unknown /\ goal.off > EndOf(win)
    BY <2>4, <2>6
  <2> QED
    BY <2>1, <2>5, <2>6
<1>9. ServedIsOffered'
  <2>1. CASE Serves(win, goal)
    <3>1. Satisfied(goal', Offer')
      BY <1>3, <1>6, <1>7, <2>1, ServesSatisfies
    <3> QED
      BY <3>1 DEF ServedIsOffered
  <2>2. CASE driver = "stream" /\ win.total # Unknown /\ goal.off > win.total
    BY <1>1, <1>3, <2>2 DEF ServedIsOffered
  <2> QED
    BY <1>8, <2>1, <2>2
<1> QED
  BY <1>3, <1>4, <1>5, <1>9 DEF IInv

-----------------------------------------------------------------------------
(* The invariant holds, and the properties follow from it.                 *)

(* A source nobody has read is in order.                                   *)
LEMMA NewSourceOK ==
  ASSUME NEW s \in Buffered
  PROVE  SourceOK(s)
<1>1. /\ s.policy \in {"window", "spool"} /\ s.cap \in Nat /\ s.chunk \in Nat \ {0}
      /\ s = NewSource(s.policy, s.cap, s.chunk)
  BY CallersAreReal
<1> DEFINE p == s.policy
           c == s.cap
           h == s.chunk
<1>2. s = [policy |-> p, cap |-> c, chunk |-> h, buf |-> << >>, start |-> 0, mark |-> 0,
           eof |-> FALSE, exceeded |-> FALSE]
  BY <1>1 DEF NewSource
<1>3. p \in {"window", "spool"} /\ c \in Nat /\ h \in Nat \ {0}
  BY <1>1
<1> HIDE DEF p, c, h
<1>4. << >> \in Seq(Cells) /\ Len(<< >>) = 0 /\ 0 <= Length
  BY OptionsAreSizes
<1>5. s \in SourceSet
  BY <1>2, <1>3, <1>4 DEF SourceSet
<1>6. /\ s.buf = << >> /\ s.start = 0 /\ s.mark = 0 /\ s.eof = FALSE /\ s.exceeded = FALSE
      /\ s.cap \in Nat
  BY <1>2, <1>3
<1> QED
  BY <1>4, <1>5, <1>6 DEF SourceOK

(* The invariant holds of a cursor that was just created.                  *)
LEMMA InitOK == Init => IInv
<1> SUFFICES ASSUME Init PROVE IInv
  OBVIOUS
<1>1. /\ driver \in {"slice", "random", "buffered", "stream", "async"}
      /\ src \in (IF driver = "buffered" THEN Buffered ELSE {None})
      /\ inFlight \in (IF driver \in {"random", "async"} THEN InFlights ELSE {1})
      /\ fetched = << >> /\ using = None /\ span = <<0, 0>> /\ pos = 0 /\ reqs = << >>
      /\ goal = None /\ pc = "step"
  BY DEF Init
<1>2. PICK hint \in IF driver \in {"random", "async"} THEN {Unknown, Length} ELSE {Unknown} :
        win = [EmptyWindow EXCEPT !.total = hint]
  BY DEF Init
<1>3. Length \in Nat /\ MaxWindow \in Nat /\ InputBytes \in Nat /\ InFlights \subseteq Nat
  BY OptionsAreSizes, LimitsAreNaturals
<1>4. hint \in Totals /\ (hint # Unknown => hint = Length)
      /\ (driver = "stream" => hint = Unknown)
  BY <1>2, <1>3 DEF Totals
<1>5. WindowOK(win) /\ win.cap = 0 /\ win.total = hint /\ EndOf(win) = 0
  BY <1>2, <1>4, EmptyOK
<1>6. Typed
  <2>1. inFlight \in Nat
    BY <1>1, <1>3
  <2> QED
    BY <1>1, <1>3, <2>1 DEF Typed
<1>7. Asking
  <2>1. << >> \in Seq(RequestSet) /\ Len(<< >>) = 0
    OBVIOUS
  <2> QED
    BY <1>1, <2>1 DEF Asking
<1>8. Backed
  BY <1>1, NewSourceOK DEF Backed
<1>9. Stored
  BY <1>1, <1>3, <1>4, <1>5, NoneFetched DEF Stored, TotalOK
<1>10. WithinLimits
  BY <1>1, <1>3, <1>5, NoneFetched DEF WithinLimits, Limit
<1>11. Offering /\ Streaming /\ Reading /\ ServedIsOffered
  BY <1>1, <1>4, <1>5 DEF Offering, Streaming, Reading, ServedIsOffered
<1> QED
  BY <1>6, <1>7, <1>8, <1>9, <1>10, <1>11 DEF IInv

(* The invariant holds as long as nothing changes.                         *)
LEMMA StutterOK ==
  ASSUME IInv, UNCHANGED vars
  PROVE  IInv'
<1>1. /\ driver' = driver /\ inFlight' = inFlight /\ win' = win /\ fetched' = fetched
      /\ using' = using /\ span' = span /\ pos' = pos /\ src' = src /\ reqs' = reqs
      /\ goal' = goal /\ pc' = pc
  BY DEF vars
<1>2. Typed' /\ Asking' /\ Backed'
  BY <1>1 DEF IInv, Typed, Asking, Backed, Asked
<1>3. Stored' /\ Offering' /\ WithinLimits'
  BY <1>1 DEF IInv, Stored, Offering, WithinLimits, Limit
<1>4. Streaming' /\ Reading'
  BY <1>1 DEF IInv, Streaming, Reading, Asked, Limit
<1>5. ServedIsOffered'
  <2>1. Offer' = Offer
    BY <1>1, Zenon DEF Offer, SliceStart, SliceEnd
  <2> QED
    BY <1>1, <2>1 DEF IInv, ServedIsOffered
<1> QED
  BY <1>2, <1>3, <1>4, <1>5 DEF IInv

(* No step breaks it.                                                      *)
LEMMA NextOK ==
  ASSUME IInv, [Next]_vars
  PROVE  IInv'
<1>1. CASE Outputs
  BY <1>1, OutputsOK
<1>2. CASE Needs
  BY <1>2, NeedsOK
<1>3. CASE BreaksProtocol
  BY <1>3, BreaksProtocolOK
<1>4. CASE ServeSlice
  BY <1>4, ServeSliceOK
<1>5. CASE Refuse
  BY <1>5, RefuseOK
<1>6. CASE ServeHeld
  BY <1>6, ServeHeldOK
<1>7. CASE ServeLeast
  BY <1>7, ServeLeastOK
<1>8. CASE ServeInWindow
  BY <1>8, ServeInWindowOK
<1>9. CASE ServeFetched
  BY <1>9, ServeFetchedOK
<1>10. CASE ServeTail
  BY <1>10, ServeTailOK
<1>11. CASE ServeRound
  BY <1>11, ServeRoundOK
<1>12. CASE ServeLen
  BY <1>12, ServeLenOK
<1>13. CASE ServeStream
  BY <1>13, ServeStreamOK
<1>14. CASE ServeAsync
  BY <1>14, ServeAsyncOK
<1>15. CASE SkipRead
  BY <1>15, SkipReadOK
<1>16. CASE FillRead
  BY <1>16, FillReadOK
<1>17. CASE ReadingFails
  BY <1>17, ReadingFailsOK
<1>18. CASE SkipDone
  BY <1>18, SkipDoneOK
<1>19. CASE FillDone
  BY <1>19, FillDoneOK
<1>20. CASE UNCHANGED vars
  BY <1>20, StutterOK
<1> QED
  BY <1>1, <1>2, <1>3, <1>4, <1>5, <1>6, <1>7, <1>8, <1>9, <1>10, <1>11, <1>12, <1>13, <1>14,
     <1>15, <1>16, <1>17, <1>18, <1>19, <1>20, Zenon DEF Next

(* What is on offer is as long and lies where it should.                   *)
LEMMA IInvTypeOK == IInv => TypeOK
<1> SUFFICES ASSUME IInv PROVE TypeOK
  OBVIOUS
<1>1. src # None => src.start + Len(src.buf) <= src.mark /\ src.mark <= Length
  BY SourceFields DEF IInv, Backed
<1>2. /\ win.base \in Nat /\ win.total \in Nat \cup {Unknown}
      /\ 0 <= win.head /\ win.head <= win.end /\ win.end <= Len(win.buf)
      /\ Len(win.buf) <= win.cap
  BY WindowFields DEF IInv, Stored, Totals
<1>3. FetchedOK(fetched) /\ DOMAIN fetched = 1..Len(fetched)
  BY DEF IInv, Stored, FetchedOK
<1>4. \A i \in DOMAIN fetched : Len(fetched[i].bytes) <= fetched[i].cap
  BY <1>3 DEF FetchedOK, RangeOK
<1>5. using # None => /\ using[1] \in DOMAIN fetched
                      /\ using[2] \in 0..Len(fetched[using[1]].bytes)
  BY <1>3 DEF IInv, Offering
<1>6. goal = None \/ goal \in UNION {{a[i] : i \in DOMAIN a} : a \in RequestLists}
  BY DEF IInv, Asking, Asked
<1>7. Typed
  BY DEF IInv
<1> QED
  BY <1>1, <1>2, <1>4, <1>5, <1>6, <1>7 DEF TypeOK, Typed

(* What is on offer, by the window or a fetched range, is the source's.    *)
LEMMA IInvOfferIsSource == IInv => OfferIsSource
<1> SUFFICES ASSUME IInv PROVE OfferIsSource
  OBVIOUS
<1>1. WindowOK(win) /\ TotalOK(win) /\ FetchedOK(fetched) /\ Length \in Nat
  BY OptionsAreSizes DEF IInv, Stored
<1>2. CASE driver = "slice"
  <2> DEFINE b == Source(SliceStart, SliceEnd)
  <2>1. Offer = [off |-> SliceStart, bytes |-> b, total |-> Length]
    BY <1>2 DEF Offer
  <2>2. SliceEnd \in Nat /\ SliceStart \in Nat /\ SliceStart <= SliceEnd
    BY SliceIs DEF IInv
  <2>3. /\ b \in Seq(Cells) /\ Len(b) = SliceEnd - SliceStart
        /\ \A k \in 1..(SliceEnd - SliceStart) : b[k] = SliceStart + k - 1
    BY <2>2, SourceIs
  <2> HIDE DEF b
  <2>4. DOMAIN b = 1..(SliceEnd - SliceStart)
    BY <2>3
  <2> QED
    BY <1>1, <2>1, <2>3, <2>4 DEF OfferIsSource
<1>3. CASE driver # "slice" /\ using # None
  <2> DEFINE f == fetched[using[1]]
             n == using[2]
             l == Len(f.bytes)
             b == SubSeq(f.bytes, n + 1, l)
  <2>1. Offer = [off |-> f.off + n, bytes |-> b, total |-> win.total]
    BY <1>3, Zenon DEF Offer
  <2>2. using[1] \in 1..Len(fetched) /\ n \in 0..l
    BY <1>3 DEF IInv, Offering
  <2>3. RangeOK(f)
    BY <1>1, <2>2 DEF FetchedOK
  <2> HIDE DEF f
  <2>4. /\ f.off \in Nat /\ f.bytes \in Seq(Cells) /\ l \in Nat
        /\ \A k \in 1..l : f.bytes[k] = f.off + k - 1
    BY <2>3 DEF RangeOK, RangeSet
  <2>5. n \in Nat /\ n <= l
    BY <2>2, <2>4
  <2> HIDE DEF n
  <2>6. b \in Seq(Cells) /\ Len(b) = l - n
    BY <2>4, <2>5
  <2>7. ASSUME NEW k \in 1..(l - n) PROVE b[k] = f.off + n + k - 1
    <3>1. (n + 1) + k - 1 = n + k /\ n + k \in 1..l
      BY <2>4, <2>5
    <3>2. b[k] = f.bytes[n + k]
      BY <2>4, <2>5, <3>1
    <3>3. f.bytes[n + k] = f.off + (n + k) - 1
      BY <2>4, <3>1
    <3>4. f.off + (n + k) - 1 = f.off + n + k - 1
      BY <2>4, <2>5
    <3> QED
      BY <3>2, <3>3, <3>4
  <2> HIDE DEF b, l
  <2>8. DOMAIN b = 1..(l - n)
    BY <2>6
  <2> QED
    BY <1>1, <2>1, <2>7, <2>8 DEF OfferIsSource, TotalOK
<1>4. CASE driver # "slice" /\ using = None
  <2> DEFINE b == Bytes(win)
  <2>1. Offer = [off |-> win.base, bytes |-> b, total |-> win.total]
    BY <1>4, OfferIsWindow DEF OfferOf
  <2>2. /\ b \in Seq(Cells) /\ Len(b) = Held(win)
        /\ \A k \in 1..Held(win) : b[k] = win.base + k - 1
    BY <1>1, BytesAre
  <2> HIDE DEF b
  <2>3. DOMAIN b = 1..Held(win)
    BY <2>2
  <2> QED
    BY <1>1, <2>1, <2>2, <2>3 DEF OfferIsSource, TotalOK
<1> QED
  BY <1>2, <1>3, <1>4

(* What is retained is bounded.                                            *)
LEMMA IInvRetained == IInv => RetainedWithinLimits
<1> SUFFICES ASSUME IInv PROVE RetainedWithinLimits
  OBVIOUS
<1>1. win.cap + Capacity(fetched) <= IF driver = "stream" THEN MaxWindow ELSE InputBytes
  BY DEF IInv, WithinLimits, Limit
<1>2. src # None => Len(src.buf) <= src.cap
  BY SourceFields DEF IInv, Backed
<1> QED
  BY <1>1, <1>2 DEF RetainedWithinLimits

(* The inductive invariant, for every cursor, source, stage and limit:     *)
(* what a window or a fetched range holds is the source's bytes, what is   *)
(* allocated fits the limits, and a request being read for can still be    *)
(* served.                                                                 *)
THEOREM Invariant == Spec => []IInv
<1>1. IInv /\ [Next]_vars => IInv'
  BY NextOK
<1> QED
  BY <1>1, InitOK, PTL DEF Spec

(* Every variable keeps its shape, and a fetched range on offer exists: no *)
(* swap, clearing or publication of the cache leaves an index into it      *)
(* (stepper.rs, ReadAtCursor::from_fetched).                               *)
THEOREM TypesOK == Spec => []TypeOK
BY Invariant, IInvTypeOK, PTL

(* What the stage is offered is the source's bytes at the offset it is     *)
(* told, and a total it is told is no less than the length: through        *)
(* compaction and growth, adopted ranges, reused memory, failed reads and  *)
(* calls after them (window.rs, stepper.rs, tokio_io.rs).                  *)
THEOREM OfferedIsTheSource == Spec => []OfferIsSource
BY Invariant, IInvOfferIsSource, PTL

(* Window and fetched ranges together keep to IoLimits.input_bytes, a      *)
(* stream cursor to its window, a BufferedReadAt to its policy's cap       *)
(* (admission.rs, window.rs, buffered.rs).                                 *)
THEOREM RetentionIsLimited == Spec => []RetainedWithinLimits
BY Invariant, IInvRetained, PTL

(* A request reported as served is satisfied by the next offer, but for a  *)
(* stream that ended before it and says so (stepper.rs, tokio_io.rs,       *)
(* window.rs check_need).                                                  *)
THEOREM ServedAsAsked == Spec => []ServedIsOffered
<1>1. IInv => ServedIsOffered
  BY DEF IInv
<1> QED
  BY <1>1, Invariant, PTL
=============================================================================
