--------------------------- MODULE InputStoreProofs ---------------------------
(***************************************************************************)
(* The packed store, the segment map, and the theorems of InputStore:      *)
(* whichever representation is in use it keeps its shape, answers reads as *)
(* a byte map would and implements ByteStore.                              *)
(*                                                                         *)
(* First, what the packed store does, for any capacity, any number of      *)
(* spans and any offsets.  Its form (Packed) is that of admitted_input.rs: *)
(* spans sorted and apart, their payloads end to end, each byte under its  *)
(* own offset.  FeedPacked and ReleasePacked state that a feed and a       *)
(* release keep the form and change the bytes that they should and no      *)
(* other: the shift of the spans behind an insertion and the four ways to  *)
(* join it (WovenPacked, IndexedWeaves), the cut of a span in two and the  *)
(* compaction (PiecesAre, CompactedPacked).                                *)
(***************************************************************************)
EXTENDS InputStore, FiniteSetTheorems, SequenceTheorems, WellFoundedInduction, TLAPS

(* A set of natural numbers that is not empty has a least element.         *)
LEMMA LeastNumber ==
  \A T \in SUBSET Nat : T # {} => \E m \in T : \A k \in T : m <= k
<1> SUFFICES ASSUME NEW T \in SUBSET Nat, T # {}
             PROVE  \E m \in T : \A k \in T : m <= k
  OBVIOUS
<1> DEFINE R == {ss \in Nat \X Nat : ss[1] < ss[2]}
<1>1. OpToRel(<, Nat) = R
  BY DEF OpToRel
<1>2. IsWellFoundedOn(R, Nat)
  BY <1>1, NatLessThanWellFounded
<1>3. PICK m \in T : \A y \in T : ~(<<y, m>> \in R)
  BY <1>2, WFMin
<1>4. ASSUME NEW k \in T PROVE m <= k
  <2>1. ~(<<k, m>> \in R) /\ k \in Nat /\ m \in Nat
    BY <1>3
  <2>2. <<k, m>> \in Nat \X Nat
    BY <2>1
  <2>3. ~(k < m)
    <3> SUFFICES ASSUME k < m PROVE FALSE
      OBVIOUS
    <3>1. <<k, m>>[1] = k /\ <<k, m>>[2] = m
      OBVIOUS
    <3>2. <<k, m>> \in R
      BY <2>2, <3>1
    <3> QED
      BY <2>1, <3>2
  <2> QED
    BY <2>1, <2>3
<1> QED
  BY <1>3, <1>4

(* The least of a set of numbers.                                          *)
LEMMA LeastIs ==
  ASSUME NEW S \in SUBSET Nat, S # {}
  PROVE  Min(S) \in S /\ \A y \in S : Min(S) <= y
<1>1. \E m \in S : \A y \in S : m <= y
  BY LeastNumber
<1> QED
  BY <1>1 DEF Min

(* The greatest of a bounded set of numbers.                               *)
LEMMA GreatestIs ==
  ASSUME NEW n \in Nat, NEW S \in SUBSET (0 .. n), S # {}
  PROVE  Max(S) \in S /\ \A y \in S : y <= Max(S)
<1> DEFINE T == {n - x : x \in S}
<1>1. T \in SUBSET Nat
  <2> SUFFICES ASSUME NEW x \in S PROVE n - x \in Nat
    OBVIOUS
  <2>1. x \in 0 .. n
    OBVIOUS
  <2> QED
    BY <2>1
<1>2. PICK m \in T : \A y \in T : m <= y
  <2>1. T # {}
    OBVIOUS
  <2> HIDE DEF T
  <2> QED
    BY <1>1, <2>1, LeastNumber
<1>3. PICK g \in S : m = n - g
  BY <1>2
<1>4. \A y \in S : y <= g
  <2> SUFFICES ASSUME NEW y \in S PROVE y <= g
    OBVIOUS
  <2>1. n - y \in T
    OBVIOUS
  <2>2. n - g <= n - y /\ y \in Int /\ g \in Int
    BY <1>2, <1>3, <2>1
  <2> QED
    BY <2>2
<1>5. \A y \in S : y \in Int
  OBVIOUS
<1>6. \E x \in S : \A y \in S : x >= y
  BY <1>4, <1>5
<1> QED
  BY <1>5, <1>6 DEF Max

(* What holds of 0 and is passed on by every number below n holds up to n: *)
(* the induction over the spans of a store, for a set in the place of the  *)
(* property.                                                               *)
LEMMA Upwards ==
  ASSUME NEW n \in Nat, NEW S, 0 \in S,
         \A k \in 1 .. n : k - 1 \in S => k \in S
  PROVE  \A k \in 0 .. n : k \in S
<1> DEFINE T == {k \in 0 .. n : k \notin S}
<1> SUFFICES ASSUME T # {} PROVE FALSE
  OBVIOUS
<1>1. PICK m \in T : \A k \in T : m <= k
  <2>1. T \in SUBSET Nat
    OBVIOUS
  <2> QED
    BY <2>1, LeastNumber
<1>2. m \in 1 .. n /\ m \notin S
  BY <1>1
<1>3. m - 1 \notin T /\ m - 1 \in 0 .. n
  BY <1>1, <1>2
<1> QED
  BY <1>2, <1>3

(* Numbers of 1 .. n that leave no gap below them are the first ones.      *)
LEMMA FirstOnes ==
  ASSUME NEW n \in Nat, NEW S \in SUBSET (1 .. n),
         \A i \in S : \A j \in 1 .. i : j \in S
  PROVE  /\ Cardinality(S) \in 0 .. n
         /\ S = 1 .. Cardinality(S)
<1>1. CASE S = {}
  BY <1>1, FS_EmptySet
<1>2. CASE S # {}
  <2>1. S \in SUBSET (0 .. n)
    OBVIOUS
  <2>2. Max(S) \in S /\ \A y \in S : y <= Max(S)
    BY <1>2, <2>1, GreatestIs
  <2>3. Max(S) \in 1 .. n /\ \A j \in 1 .. Max(S) : j \in S
    BY <2>2
  <2>4. S = 1 .. Max(S)
    <3>1. \A y \in S : y \in 1 .. n /\ y <= Max(S)
      BY <2>2
    <3>2. \A y \in S : y \in 1 .. Max(S)
      BY <2>3, <3>1
    <3> QED
      BY <2>3, <3>2
  <2>5. Cardinality(1 .. Max(S)) = Max(S)
    BY <2>3, FS_Interval
  <2> QED
    BY <2>3, <2>4, <2>5
<1> QED
  BY <1>1, <1>2
-----------------------------------------------------------------------------
(* Flattening.                                                             *)

(* h solves the recursion of FlattenSeq over the first n sequences of t.   *)
Extends(h, t, i) == h[i] = IF i = 1 THEN t[1] ELSE h[i - 1] \o t[i]
Flattens(h, t, n) == \A i \in 1 .. n : Extends(h, t, i)

(* The recursion has a solution over any number of sequences.              *)
LEMMA FlattenExists ==
  ASSUME NEW t, NEW n \in Nat
  PROVE  \E h : Flattens(h, t, n)
<1> DEFINE S == {k \in 0 .. n : \E h : Flattens(h, t, k)}
<1>1. 0 \in S
  <2> DEFINE h == [i \in 1 .. 0 |-> t[1]]
  <2>1. Flattens(h, t, 0)
    BY DEF Flattens, Extends
  <2> HIDE DEF h
  <2> QED
    BY <2>1
<1>2. ASSUME NEW k \in 1 .. n, k - 1 \in S PROVE k \in S
  <2>1. PICK h : Flattens(h, t, k - 1)
    BY <1>2
  <2> DEFINE f == [i \in 1 .. k |-> IF i = 1 THEN t[1] ELSE h[i - 1] \o t[i]]
  <2>2. ASSUME NEW i \in 1 .. k - 1 PROVE f[i] = h[i]
    BY <2>1 DEF Flattens, Extends
  <2>3. ASSUME NEW i \in 1 .. k
        PROVE  f[i] = IF i = 1 THEN t[1] ELSE f[i - 1] \o t[i]
    <3>1. CASE i = 1
      BY <3>1
    <3>2. CASE i # 1
      <4>1. i - 1 \in 1 .. k - 1
        BY <3>2
      <4>2. f[i - 1] = h[i - 1]
        BY <2>2, <4>1
      <4> QED
        BY <3>2, <4>2
    <3> QED
      BY <3>1, <3>2
  <2> HIDE DEF f
  <2>6. Flattens(f, t, k)
    BY <2>3 DEF Flattens, Extends
  <2> QED
    BY <2>6
<1> HIDE DEF S
<1>3. \A k \in 0 .. n : k \in S
  BY <1>1, <1>2, Upwards
<1> QED
  BY <1>3 DEF S

(* Two solutions agree where both are defined.                             *)
LEMMA FlattenAgrees ==
  ASSUME NEW t, NEW n \in Nat, NEW m \in 0 .. n, NEW h, NEW f,
         Flattens(h, t, n), Flattens(f, t, m)
  PROVE  \A k \in 1 .. m : h[k] = f[k]
<1> DEFINE S == {k \in 0 .. m : k = 0 \/ h[k] = f[k]}
<1>1. 0 \in S
  OBVIOUS
<1>2. ASSUME NEW k \in 1 .. m, k - 1 \in S PROVE k \in S
  <2>1. h[k] = IF k = 1 THEN t[1] ELSE h[k - 1] \o t[k]
    BY DEF Flattens, Extends
  <2>2. f[k] = IF k = 1 THEN t[1] ELSE f[k - 1] \o t[k]
    BY DEF Flattens, Extends
  <2>3. k # 1 => h[k - 1] = f[k - 1]
    BY <1>2
  <2> QED
    BY <2>1, <2>2, <2>3
<1> HIDE DEF S
<1>3. \A k \in 0 .. m : k \in S
  BY <1>1, <1>2, Upwards
<1> QED
  BY <1>3 DEF S

(* The flattening of the first n sequences of t.                           *)
Flat(t, n) == FlattenSeq([i \in 1 .. n |-> t[i]])

(* It is what the recursion says.                                          *)
LEMMA FlatIs ==
  ASSUME NEW t, NEW n \in Nat \ {0}
  PROVE  \E h : Flattens(h, t, n) /\ Flat(t, n) = h[n]
<1> DEFINE s == [i \in 1 .. n |-> t[i]]
           Def(h) == [i \in 1 .. Len(s) |-> IF i = 1 THEN s[i] ELSE h[i - 1] \o s[i]]
           H == CHOOSE h : h = Def(h)
<1>1. Len(s) = n
  OBVIOUS
<1>2. Flat(t, n) = H[Len(s)]
  BY <1>1, Zenon DEF Flat, FlattenSeq
<1>3. ASSUME NEW h PROVE Def(h) = [i \in 1 .. n |-> IF i = 1 THEN t[1] ELSE h[i - 1] \o t[i]]
  <2>1. \A i \in 1 .. n : s[i] = t[i]
    OBVIOUS
  <2> HIDE DEF s
  <2> QED
    BY <1>1, <2>1
<1>4. \E h : h = Def(h)
  <2>1. PICK h : Flattens(h, t, n)
    BY FlattenExists
  <2> DEFINE f == [i \in 1 .. n |-> h[i]]
  <2>2. ASSUME NEW i \in 1 .. n
        PROVE  f[i] = IF i = 1 THEN t[1] ELSE f[i - 1] \o t[i]
    <3>1. i # 1 => i - 1 \in 1 .. n
      OBVIOUS
    <3>2. h[i] = IF i = 1 THEN t[1] ELSE h[i - 1] \o t[i]
      BY <2>1 DEF Flattens, Extends
    <3> QED
      BY <3>1, <3>2
  <2>3. f = [i \in 1 .. n |-> IF i = 1 THEN t[1] ELSE f[i - 1] \o t[i]]
    BY <2>2
  <2> HIDE DEF f, Def
  <2>4. f = Def(f)
    BY <1>3, <2>3
  <2> QED
    BY <2>4
<1>5. H = Def(H)
  <2> HIDE DEF Def
  <2> QED
    BY <1>4
<1>6. Flattens(H, t, n)
  <2> HIDE DEF H
  <2> QED
    BY <1>3, <1>5 DEF Flattens, Extends
<1> QED
  BY <1>1, <1>2, <1>6

(* Nothing flattens to nothing.                                            *)
LEMMA FlatNone == \A t : Flat(t, 0) = <<>>
BY DEF Flat, FlattenSeq

(* One sequence is its own flattening, and one more is appended.           *)
LEMMA FlatFirst == \A t : Flat(t, 1) = t[1]
BY FlatIs DEF Flattens, Extends

(* So from its second sequence on it grows by one sequence at a time,      *)
LEMMA FlatLater ==
  ASSUME NEW t, NEW n \in Nat \ {0, 1}
  PROVE  Flat(t, n) = Flat(t, n - 1) \o t[n]
<1>1. n - 1 \in Nat \ {0} /\ n - 1 \in 0 .. n /\ n - 1 \in 1 .. n - 1
  OBVIOUS
<1>2. PICK h : Flattens(h, t, n) /\ Flat(t, n) = h[n]
  BY FlatIs
<1>3. PICK f : Flattens(f, t, n - 1) /\ Flat(t, n - 1) = f[n - 1]
  BY <1>1, FlatIs
<1>4. h[n - 1] = f[n - 1]
  BY <1>1, <1>2, <1>3, FlattenAgrees
<1>5. h[n] = h[n - 1] \o t[n]
  <2>1. Extends(h, t, n)
    BY <1>2 DEF Flattens
  <2> QED
    BY <2>1 DEF Extends
<1> QED
  BY <1>2, <1>3, <1>4, <1>5

(* and from its first on when that is one.                                 *)
LEMMA FlatMore ==
  ASSUME NEW Elem, NEW n \in Nat \ {0}, NEW t, t[1] \in Seq(Elem)
  PROVE  Flat(t, n) = Flat(t, n - 1) \o t[n]
<1>1. CASE n = 1
  <2>1. Flat(t, 1) = t[1] /\ Flat(t, 0) = <<>>
    BY FlatFirst, FlatNone
  <2>2. <<>> \o t[1] = t[1]
    OBVIOUS
  <2> QED
    BY <1>1, <2>1, <2>2
<1>2. CASE n # 1
  BY <1>2, FlatLater
<1> QED
  BY <1>1, <1>2

(* The flattening of sequences is one, however many of them.               *)
LEMMA FlatTyped ==
  ASSUME NEW Elem, NEW n \in Nat, NEW t, \A i \in 1 .. n : t[i] \in Seq(Elem)
  PROVE  \A k \in 0 .. n : Flat(t, k) \in Seq(Elem)
<1> DEFINE All == Seq(Elem)
           S == {k \in 0 .. n : Flat(t, k) \in All}
<1>1. 0 \in S
  <2>1. <<>> \in Seq(Elem)
    OBVIOUS
  <2>2. Flat(t, 0) = <<>>
    BY FlatNone
  <2> HIDE DEF All
  <2>3. Flat(t, 0) \in All
    BY <2>1, <2>2 DEF All
  <2> QED
    BY <2>3
<1>2. ASSUME NEW k \in 1 .. n, k - 1 \in S PROVE k \in S
  <2>1. k \in Nat \ {0} /\ t[1] \in Seq(Elem)
    OBVIOUS
  <2>2. Flat(t, k) = Flat(t, k - 1) \o t[k]
    BY <2>1, FlatMore
  <2>3. Flat(t, k - 1) \in Seq(Elem) /\ t[k] \in Seq(Elem)
    BY <1>2
  <2> HIDE DEF S
  <2>4. Flat(t, k) \in Seq(Elem)
    BY <2>2, <2>3
  <2> HIDE DEF All
  <2>5. Flat(t, k) \in All
    BY <2>4 DEF All
  <2> QED
    BY <2>5 DEF S
<1> HIDE DEF S
<1>3. \A k \in 0 .. n : k \in S
  BY <1>1, <1>2, Upwards
<1> QED
  BY <1>3 DEF S
-----------------------------------------------------------------------------
(* The packed store.                                                       *)

Spans == [start : Nat, at : Nat, len : Nat]

Covers(s, p) == s.start <= p /\ p < SpanEnd(s)

(* The index: its runs are sorted and apart, and lie end to end in data.   *)
Index(spans) ==
  /\ spans \in Seq(Spans)
  /\ \A i \in DOMAIN spans : spans[i].len > 0 /\ SpanEnd(spans[i]) <= MaxAddr
  /\ \A i, j \in DOMAIN spans : i < j => SpanEnd(spans[i]) < spans[j].start

LaidAt(spans, i) ==
  spans[i].at = IF i = 1 THEN 0 ELSE spans[i - 1].at + spans[i - 1].len

Laid(spans) == \A i \in DOMAIN spans : LaidAt(spans, i)

(* Every run's bytes are those of its offsets.                             *)
Placed(data, spans) ==
  \A i \in DOMAIN spans : \A k \in 1 .. spans[i].len :
    data[spans[i].at + k][1] = spans[i].start + k - 1

Packed(st) ==
  /\ st = [data |-> st.data, spans |-> st.spans]
  /\ st.data \in Seq(Bytes) /\ Index(st.spans) /\ Laid(st.spans)
  /\ Len(st.data) = IF st.spans = <<>> THEN 0
                    ELSE st.spans[Len(st.spans)].at + st.spans[Len(st.spans)].len
  /\ Placed(st.data, st.spans)
  /\ Len(st.spans) <= MaxSpans /\ Len(st.data) <= Cap

(* What is assumed of the constants.                                       *)
LEMMA Addresses ==
  /\ MaxAddr \in Nat /\ Cap \in Nat \ {0} /\ MaxSpans \in Nat \ {0}
  /\ "none" \notin Versions
BY InputStoreAssumption

(* The offsets are numbers below MaxAddr.                                  *)
LEMMA PositionsAre ==
  \A p \in Positions : p \in Nat /\ p \in Int /\ p < MaxAddr
<1>1. MaxAddr \in Nat
  BY Addresses
<1> QED
  BY <1>1 DEF Positions

(* A span's fields.                                                        *)
LEMMA SpanFields ==
  ASSUME NEW spans, Index(spans), NEW i \in DOMAIN spans
  PROVE  /\ spans[i] = [start |-> spans[i].start, at |-> spans[i].at, len |-> spans[i].len]
         /\ spans[i].start \in Nat /\ spans[i].at \in Nat /\ spans[i].len \in Nat \ {0}
         /\ SpanEnd(spans[i]) = spans[i].start + spans[i].len
         /\ SpanEnd(spans[i]) <= MaxAddr
         /\ Len(spans) \in Nat /\ DOMAIN spans = 1 .. Len(spans)
<1>1. spans[i] \in Spans /\ Len(spans) \in Nat /\ DOMAIN spans = 1 .. Len(spans)
  BY DEF Index
<1> QED
  BY <1>1 DEF Index, Spans, SpanEnd

(* What lies end to end lies in order.                                     *)
LEMMA LaidInOrder ==
  ASSUME NEW spans, Index(spans), Laid(spans)
  PROVE  \A j \in DOMAIN spans : \A i \in 1 .. j - 1 :
           spans[i].at + spans[i].len <= spans[j].at
<1> DEFINE n == Len(spans)
           S == {j \in 0 .. n : j = 0 \/ \A i \in 1 .. j - 1 :
                   spans[i].at + spans[i].len <= spans[j].at}
<1>1. n \in Nat /\ DOMAIN spans = 1 .. n
  BY DEF Index
<1>2. \A i \in 1 .. n : spans[i].at \in Nat /\ spans[i].len \in Nat
  BY <1>1, SpanFields
<1> HIDE DEF n
<1>3. 0 \in S
  BY <1>1
<1>4. ASSUME NEW j \in 1 .. n, j - 1 \in S PROVE j \in S
  <2> SUFFICES ASSUME NEW i \in 1 .. j - 1
               PROVE  spans[i].at + spans[i].len <= spans[j].at
    OBVIOUS
  <2>1. spans[j].at = spans[j - 1].at + spans[j - 1].len
    <3>1. LaidAt(spans, j) /\ j # 1
      BY <1>1 DEF Laid
    <3> QED
      BY <3>1 DEF LaidAt
  <2>2. CASE i = j - 1
    <3>1. spans[i].at \in Nat /\ spans[i].len \in Nat
      BY <1>1, <1>2
    <3> QED
      BY <2>1, <2>2, <3>1
  <2>3. CASE i # j - 1
    <3>1. i \in 1 .. (j - 1) - 1 /\ j - 1 \in 1 .. n /\ i \in 1 .. n
      BY <1>1, <2>3
    <3>2. spans[i].at + spans[i].len <= spans[j - 1].at
      BY <1>4, <3>1
    <3>3. /\ spans[i].at \in Nat /\ spans[i].len \in Nat
          /\ spans[j - 1].at \in Nat /\ spans[j - 1].len \in Nat
      BY <1>2, <3>1
    <3> QED
      BY <2>1, <3>2, <3>3
  <2> QED
    BY <2>2, <2>3
<1> HIDE DEF S
<1>5. \A j \in 0 .. n : j \in S
  BY <1>1, <1>3, <1>4, Upwards
<1>6. \A j \in 1 .. n : j # 0
  OBVIOUS
<1> QED
  BY <1>1, <1>5, <1>6 DEF S

(* At most one span covers an offset.                                      *)
LEMMA OneCovers ==
  ASSUME NEW spans, Index(spans), NEW p \in Int,
         NEW i \in DOMAIN spans, NEW j \in DOMAIN spans,
         Covers(spans[i], p), Covers(spans[j], p)
  PROVE  i = j
<1>1. i \in Nat /\ j \in Nat
  BY SpanFields
<1>2. /\ spans[i].start \in Nat /\ SpanEnd(spans[i]) \in Nat
      /\ spans[j].start \in Nat /\ SpanEnd(spans[j]) \in Nat
  BY SpanFields
<1>3. i < j => SpanEnd(spans[i]) < spans[j].start
  BY DEF Index
<1>4. j < i => SpanEnd(spans[j]) < spans[i].start
  BY DEF Index
<1> QED
  BY <1>1, <1>2, <1>3, <1>4 DEF Covers

(* The payload lies within data, span by span.                             *)
LEMMA LaidWithin ==
  ASSUME NEW st, Packed(st), NEW i \in DOMAIN st.spans
  PROVE  /\ st.spans[i].at + st.spans[i].len <= Len(st.data)
         /\ Len(st.data) \in Nat
<1> DEFINE n == Len(st.spans)
<1>1. Index(st.spans) /\ Laid(st.spans) /\ st.data \in Seq(Bytes)
  BY DEF Packed
<1>2. n \in Nat /\ DOMAIN st.spans = 1 .. n /\ i \in 1 .. n /\ n \in 1 .. n
  <2>1. n \in Nat /\ DOMAIN st.spans = 1 .. n
    BY <1>1, SpanFields
  <2> QED
    BY <2>1
<1>3. Len(st.data) = st.spans[n].at + st.spans[n].len
  <2>1. st.spans # <<>>
    BY <1>2
  <2> QED
    BY <2>1 DEF Packed
<1>4. i # n => st.spans[i].at + st.spans[i].len <= st.spans[n].at
  <2>1. i # n => i \in 1 .. n - 1
    BY <1>2
  <2> HIDE DEF n
  <2> QED
    BY <1>1, <1>2, <2>1, LaidInOrder
<1>5. /\ st.spans[i].at \in Nat /\ st.spans[i].len \in Nat
      /\ st.spans[n].at \in Nat /\ st.spans[n].len \in Nat
  BY <1>1, <1>2, SpanFields
<1>6. Len(st.data) \in Nat
  BY <1>1
<1> QED
  BY SMTT(60), <1>3, <1>4, <1>5, <1>6

(* The byte of offset p, which span i covers.                              *)
Cell(st, i, p) == st.data[st.spans[i].at + (p - st.spans[i].start) + 1]

(* It is there, it is the one of that offset, and a read finds it.         *)
LEMMA CellIs ==
  ASSUME NEW st, Packed(st), NEW p \in Int,
         NEW i \in DOMAIN st.spans, Covers(st.spans[i], p)
  PROVE  /\ p \in Positions
         /\ st.spans[i].at + (p - st.spans[i].start) + 1 \in 1 .. Len(st.data)
         /\ Cell(st, i, p) \in Bytes /\ Cell(st, i, p)[1] = p
         /\ CoversAt(st, p) /\ Covering(st, p) = st.spans[i]
<1> DEFINE s == st.spans[i]
           k == p - s.start + 1
<1>1. /\ s.start \in Nat /\ s.at \in Nat /\ s.len \in Nat
      /\ SpanEnd(s) = s.start + s.len /\ SpanEnd(s) <= MaxAddr
  BY SpanFields DEF Packed
<1>2. s.start <= p /\ p < s.start + s.len
  BY <1>1 DEF Covers
<1> HIDE DEF s
<1>3. k \in 1 .. s.len
  BY <1>1, <1>2
<1>4. p \in Positions
  <2>1. MaxAddr \in Nat
    BY InputStoreAssumption
  <2>2. s.start + s.len <= MaxAddr
    BY <1>1
  <2> QED
    BY <1>1, <1>2, <2>1, <2>2 DEF Positions
<1>5. s.at + k \in 1 .. Len(st.data) /\ s.at + k = s.at + (p - s.start) + 1
  <2>1. s.at + s.len <= Len(st.data) /\ Len(st.data) \in Nat
    BY LaidWithin DEF s
  <2> QED
    BY SMTT(30), <1>1, <1>3, <2>1
<1>6. st.data[s.at + k] \in Bytes
  <2>1. st.data \in Seq(Bytes)
    BY DEF Packed
  <2> HIDE DEF k
  <2> QED
    BY <1>5, <2>1
<1>7. st.data[s.at + k][1] = s.start + k - 1 /\ s.start + k - 1 = p
  <2>1. Placed(st.data, st.spans)
    BY DEF Packed
  <2>2. s.start + k - 1 = p
    BY <1>1
  <2> HIDE DEF k
  <2>3. st.data[s.at + k][1] = s.start + k - 1
    BY <1>3, <2>1 DEF Placed, s
  <2> QED
    BY <2>2, <2>3
<1>8. CoversAt(st, p)
  BY DEF CoversAt, Covers
<1>9. Covering(st, p) = st.spans[i]
  <2>1. Index(st.spans) /\ DOMAIN st.spans = 1 .. Len(st.spans) /\ Len(st.spans) \in Nat
    BY SpanFields DEF Packed
  <2> DEFINE First(a) == /\ st.spans[a].start <= p /\ p < SpanEnd(st.spans[a])
                         /\ \A b \in 1 .. a - 1 :
                              ~(st.spans[b].start <= p /\ p < SpanEnd(st.spans[b]))
  <2>2. ASSUME NEW a \in DOMAIN st.spans, First(a) PROVE a = i
    <3>1. Covers(st.spans[a], p)
      BY <2>2 DEF Covers
    <3> QED
      BY <2>1, <3>1, OneCovers
  <2>3. First(i)
    <3>1. ASSUME NEW b \in 1 .. i - 1, Covers(st.spans[b], p) PROVE FALSE
      <4>1. b \in DOMAIN st.spans /\ b # i
        BY <2>1
      <4> QED
        BY <2>1, <3>1, <4>1, OneCovers
    <3> QED
      BY <3>1 DEF Covers
  <2> HIDE DEF First
  <2>4. (CHOOSE a \in DOMAIN st.spans : First(a)) = i
    BY <2>2, <2>3
  <2> QED
    BY <2>4 DEF Covering, First
<1> QED
  BY <1>4, <1>5, <1>6, <1>7, <1>8, <1>9 DEF Cell, s

(* What the packed store holds at p.                                       *)
PackedByte(st, p) ==
  IF ~CoversAt(st, p) THEN "none"
  ELSE LET b == TryRead(st, p, p + 1)[1]
       IN IF b[1] = p THEN b[2] ELSE "misplaced"

(* It is the byte that lies in the cell of the span that covers p.         *)
LEMMA PackedByteIs ==
  ASSUME NEW st, Packed(st), NEW p \in Int
  PROVE  /\ CoversAt(st, p) <=> \E i \in DOMAIN st.spans : Covers(st.spans[i], p)
         /\ \A i \in DOMAIN st.spans : Covers(st.spans[i], p) =>
              /\ PackedByte(st, p) = Cell(st, i, p)[2]
              /\ Cell(st, i, p) = <<p, PackedByte(st, p)>>
              /\ PackedByte(st, p) \in Versions
         /\ ~CoversAt(st, p) => PackedByte(st, p) = "none"
<1>1. CoversAt(st, p) <=> \E i \in DOMAIN st.spans : Covers(st.spans[i], p)
  BY DEF CoversAt, Covers
<1>2. ~CoversAt(st, p) => PackedByte(st, p) = "none"
  BY DEF PackedByte
<1>3. ASSUME NEW i \in DOMAIN st.spans, Covers(st.spans[i], p)
      PROVE  /\ PackedByte(st, p) = Cell(st, i, p)[2]
             /\ Cell(st, i, p) = <<p, PackedByte(st, p)>>
             /\ PackedByte(st, p) \in Versions
  <2>1. /\ Cell(st, i, p) \in Bytes /\ Cell(st, i, p)[1] = p
        /\ CoversAt(st, p) /\ Covering(st, p) = st.spans[i]
    BY <1>3, CellIs
  <2>2. p .. (p + 1) - 1 = {p} /\ 1 .. (p + 1) - p = {1}
    OBVIOUS
  <2> DEFINE place(k) == LET s == Covering(st, p + k - 1)
                         IN st.data[s.at + (p + k - 1 - s.start) + 1]
  <2>3. TryRead(st, p, p + 1) = [k \in 1 .. (p + 1) - p |-> place(k)]
    <3>1. \A q \in p .. (p + 1) - 1 : CoversAt(st, q)
      BY <2>1, <2>2
    <3> QED
      BY <3>1, Zenon DEF TryRead
  <2>4. TryRead(st, p, p + 1)[1] = Cell(st, i, p)
    <3>1. p + 1 - 1 = p /\ 1 \in 1 .. (p + 1) - p
      OBVIOUS
    <3>2. place(1) = Cell(st, i, p)
      <4>1. st.spans[i].at \in Nat /\ st.spans[i].start \in Nat
        BY SpanFields DEF Packed
      <4>2. Covering(st, p + 1 - 1) = st.spans[i]
        BY <2>1, <3>1
      <4> QED
        BY <3>1, <4>1, <4>2 DEF Cell
    <3> HIDE DEF place
    <3> QED
      BY <2>3, <3>1, <3>2
  <2>5. PackedByte(st, p) = Cell(st, i, p)[2]
    BY <2>1, <2>4 DEF PackedByte
  <2> QED
    BY <2>1, <2>5 DEF Bytes
<1> QED
  BY <1>1, <1>2, <1>3

(* Every place of the payload belongs to a span.                           *)
LEMMA PlaceIsCovered ==
  ASSUME NEW st, Packed(st), NEW j \in 1 .. Len(st.data)
  PROVE  \E i \in DOMAIN st.spans :
           /\ st.spans[i].at < j /\ j <= st.spans[i].at + st.spans[i].len
           /\ Covers(st.spans[i], st.spans[i].start + (j - st.spans[i].at) - 1)
<1> DEFINE n == Len(st.spans)
           T == {i \in 1 .. n : j <= st.spans[i].at + st.spans[i].len}
<1>1. Index(st.spans) /\ Laid(st.spans) /\ Len(st.data) \in Nat
  BY DEF Packed
<1>2. n \in Nat /\ DOMAIN st.spans = 1 .. n
  BY <1>1 DEF Index
<1>3. \A i \in 1 .. n :
        /\ st.spans[i].at \in Nat /\ st.spans[i].len \in Nat
        /\ st.spans[i].start \in Nat
        /\ SpanEnd(st.spans[i]) = st.spans[i].start + st.spans[i].len
  BY <1>1, <1>2, SpanFields
<1>4. n \in T
  <2>1. st.spans # <<>>
    BY <1>1 DEF Packed
  <2>2. n # 0
    BY <1>1, <2>1 DEF Index
  <2> QED
    BY <1>2, <2>1, <2>2 DEF Packed
<1>5. PICK m \in T : \A k \in T : m <= k
  <2>1. T \in SUBSET Nat
    BY <1>2
  <2> HIDE DEF T
  <2> QED
    BY <2>1, <1>4, LeastNumber
<1>6. m \in 1 .. n /\ j <= st.spans[m].at + st.spans[m].len
  OBVIOUS
<1>7. st.spans[m].at < j
  <2>1. LaidAt(st.spans, m)
    BY <1>1, <1>2, <1>6 DEF Laid
  <2>2. CASE m = 1
    BY <2>1, <2>2 DEF LaidAt
  <2>3. CASE m # 1
    <3>1. m - 1 \in 1 .. n /\ m - 1 \notin T
      BY <1>2, <1>5, <1>6, <2>3
    <3>2. st.spans[m].at = st.spans[m - 1].at + st.spans[m - 1].len
      BY <2>1, <2>3 DEF LaidAt
    <3>3. ~(j <= st.spans[m - 1].at + st.spans[m - 1].len)
      BY <3>1
    <3>4. st.spans[m - 1].at \in Nat /\ st.spans[m - 1].len \in Nat
      BY <1>3, <3>1
    <3> QED
      BY <3>2, <3>3, <3>4
  <2> QED
    BY <2>2, <2>3
<1> HIDE DEF T, n
<1>8. Covers(st.spans[m], st.spans[m].start + (j - st.spans[m].at) - 1)
  <2>1. /\ st.spans[m].at \in Nat /\ st.spans[m].len \in Nat
        /\ st.spans[m].start \in Nat /\ j \in Nat
        /\ SpanEnd(st.spans[m]) = st.spans[m].start + st.spans[m].len
    BY <1>1, <1>3, <1>6
  <2> QED
    BY SMTT(60), <1>6, <1>7, <2>1 DEF Covers
<1> QED
  BY <1>2, <1>6, <1>7, <1>8

(* The payload is as long as there are bytes held.                         *)
LEMMA PayloadCounts ==
  ASSUME NEW st, Packed(st)
  PROVE  LET live == {p \in Positions : CoversAt(st, p)}
         IN IsFiniteSet(live) /\ Cardinality(live) = Len(st.data)
<1> DEFINE L == Len(st.data)
           live == {p \in Positions : CoversAt(st, p)}
           f == [j \in 1 .. L |-> st.data[j][1]]
<1>1. L \in Nat /\ Index(st.spans)
  BY DEF Packed
<1>2. \A i \in DOMAIN st.spans :
        /\ st.spans[i].at \in Nat /\ st.spans[i].len \in Nat
        /\ st.spans[i].start \in Nat
  BY <1>1, SpanFields
<1> HIDE DEF L
<1>3. ASSUME NEW j \in 1 .. L
      PROVE  \E i \in DOMAIN st.spans :
               /\ Covers(st.spans[i], f[j]) /\ f[j] \in Positions
               /\ j = st.spans[i].at + (f[j] - st.spans[i].start) + 1
  <2>1. PICK i \in DOMAIN st.spans :
          /\ st.spans[i].at < j /\ j <= st.spans[i].at + st.spans[i].len
          /\ Covers(st.spans[i], st.spans[i].start + (j - st.spans[i].at) - 1)
    BY PlaceIsCovered DEF L
  <2> DEFINE p == st.spans[i].start + (j - st.spans[i].at) - 1
  <2>2. p \in Int /\ j = st.spans[i].at + (p - st.spans[i].start) + 1
    BY <1>2, <2>1
  <2>3. Covers(st.spans[i], p)
    BY <2>1
  <2> HIDE DEF p
  <2>4. p \in Positions /\ Cell(st, i, p)[1] = p
    BY <2>2, <2>3, CellIs
  <2>5. Cell(st, i, p) = st.data[j]
    BY <2>2 DEF Cell
  <2>6. f[j] = p
    BY <2>4, <2>5
  <2> HIDE DEF f
  <2> QED
    BY <2>2, <2>3, <2>4, <2>6
<1>4. ASSUME NEW p \in live PROVE \E j \in 1 .. L : f[j] = p
  <2>1. p \in Int
    BY PositionsAre
  <2>2. PICK i \in DOMAIN st.spans : Covers(st.spans[i], p)
    BY <2>1, PackedByteIs
  <2>3. /\ st.spans[i].at + (p - st.spans[i].start) + 1 \in 1 .. L
        /\ Cell(st, i, p)[1] = p
    BY <2>1, <2>2, CellIs DEF L
  <2> QED
    BY <2>3 DEF Cell
<1>5. ASSUME NEW j \in 1 .. L, NEW k \in 1 .. L, f[j] = f[k] PROVE j = k
  <2>1. PICK i \in DOMAIN st.spans :
          /\ Covers(st.spans[i], f[j]) /\ f[j] \in Positions
          /\ j = st.spans[i].at + (f[j] - st.spans[i].start) + 1
    BY <1>3
  <2>2. PICK m \in DOMAIN st.spans :
          /\ Covers(st.spans[m], f[k])
          /\ k = st.spans[m].at + (f[k] - st.spans[m].start) + 1
    BY <1>3
  <2> HIDE DEF f
  <2>3. f[j] \in Int
    BY <2>1, PositionsAre
  <2>4. i = m
    BY <1>1, <1>5, <2>1, <2>2, <2>3, OneCovers
  <2> QED
    BY <1>5, <2>1, <2>2, <2>4
<1>6. ASSUME NEW j \in 1 .. L PROVE f[j] \in live
  <2>1. PICK i \in DOMAIN st.spans : Covers(st.spans[i], f[j]) /\ f[j] \in Positions
    BY <1>3
  <2> HIDE DEF f
  <2>2. f[j] \in Int
    BY <2>1, PositionsAre
  <2> QED
    BY <2>1, <2>2, PackedByteIs
<1>7. ExistsBijection(1 .. L, live)
  <2>1. f = [j \in 1 .. L |-> f[j]]
    OBVIOUS
  <2> HIDE DEF f, live
  <2>2. f \in [1 .. L -> live]
    BY <1>6, <2>1
  <2>3. f \in Injection(1 .. L, live)
    BY <1>5, <2>2 DEF Injection, IsInjective
  <2>4. f \in Surjection(1 .. L, live)
    BY <1>4, <2>2 DEF Surjection
  <2>5. f \in Bijection(1 .. L, live)
    BY <2>3, <2>4 DEF Bijection
  <2> QED
    BY <2>5 DEF ExistsBijection
<1> HIDE DEF live
<1>8. IsFiniteSet(live) /\ Cardinality(live) = L
  BY <1>1, <1>7, FS_NatBijection, FS_CountingElements
<1> QED
  BY <1>8 DEF live, L
-----------------------------------------------------------------------------
(* Feeding the packed store.                                               *)

(* Two sequences, one behind the other.                                    *)
LEMMA Behind ==
  ASSUME NEW Elem, NEW x \in Seq(Elem), NEW y \in Seq(Elem)
  PROVE  /\ x \o y \in Seq(Elem) /\ Len(x \o y) = Len(x) + Len(y)
         /\ \A j \in 1 .. Len(x) : (x \o y)[j] = x[j]
         /\ \A j \in 1 .. Len(y) : (x \o y)[Len(x) + j] = y[j]
OBVIOUS

(* The payload with `new` put in at place `at`.                            *)
Shifted(data, at, new) == SubSeq(data, 1, at) \o new \o SubSeq(data, at + 1, Len(data))

(* An insertion moves nothing below `at` and the rest up by its length.    *)
LEMMA ShiftedIs ==
  ASSUME NEW data \in Seq(Bytes), NEW new \in Seq(Bytes), NEW at \in 0 .. Len(data)
  PROVE  /\ Shifted(data, at, new) \in Seq(Bytes)
         /\ Len(Shifted(data, at, new)) = Len(data) + Len(new)
         /\ \A j \in 1 .. at : Shifted(data, at, new)[j] = data[j]
         /\ \A j \in 1 .. Len(new) : Shifted(data, at, new)[at + j] = new[j]
         /\ \A j \in at + 1 .. Len(data) : Shifted(data, at, new)[j + Len(new)] = data[j]
<1> DEFINE a == SubSeq(data, 1, at)
           c == SubSeq(data, at + 1, Len(data))
<1>1. Len(data) \in Nat /\ Len(new) \in Nat /\ at \in Nat
  OBVIOUS
<1>2. a \in Seq(Bytes) /\ Len(a) = at /\ \A j \in 1 .. at : a[j] = data[j]
  OBVIOUS
<1>3. /\ c \in Seq(Bytes) /\ Len(c) = Len(data) - at
      /\ \A j \in 1 .. Len(data) - at : c[j] = data[at + j]
  OBVIOUS
<1> HIDE DEF a, c
<1> DEFINE b == a \o new
<1>4. /\ b \in Seq(Bytes) /\ Len(b) = at + Len(new)
      /\ \A j \in 1 .. at : b[j] = data[j]
      /\ \A j \in 1 .. Len(new) : b[at + j] = new[j]
  BY SMTT(60), <1>1, <1>2
<1> HIDE DEF b
<1> DEFINE d == b \o c
<1>5. /\ d \in Seq(Bytes) /\ Len(d) = Len(data) + Len(new)
      /\ \A j \in 1 .. at + Len(new) : d[j] = b[j]
      /\ \A j \in 1 .. Len(data) - at : d[at + Len(new) + j] = c[j]
  <2>1. /\ d \in Seq(Bytes) /\ Len(d) = Len(b) + Len(c)
        /\ \A j \in 1 .. Len(b) : d[j] = b[j]
        /\ \A j \in 1 .. Len(c) : d[Len(b) + j] = c[j]
    <3>1. b \in Seq(Bytes) /\ c \in Seq(Bytes)
      BY <1>3, <1>4
    <3> QED
      BY <3>1, Behind
  <2> HIDE DEF d
  <2>2. Len(b) + Len(c) = Len(data) + Len(new)
    BY <1>1, <1>3, <1>4
  <2> QED
    BY <1>3, <1>4, <2>1, <2>2
<1> HIDE DEF d
<1>6. \A j \in 1 .. at : d[j] = data[j]
  BY <1>1, <1>4, <1>5
<1>7. \A j \in 1 .. Len(new) : d[at + j] = new[j]
  BY <1>1, <1>4, <1>5
<1>8. ASSUME NEW j \in at + 1 .. Len(data) PROVE d[j + Len(new)] = data[j]
  <2>1. j - at \in 1 .. Len(data) - at /\ at + Len(new) + (j - at) = j + Len(new)
        /\ at + (j - at) = j
    BY <1>1
  <2> QED
    BY <1>3, <1>5, <2>1
<1>9. Shifted(data, at, new) = d
  BY DEF Shifted, a, b, c, d
<1> QED
  BY <1>5, <1>6, <1>7, <1>8, <1>9

(* A span whose bytes moved up by `take`.                                  *)
Up(s, take) == [start |-> s.start, at |-> s.at + take, len |-> s.len]

(* q is the index `spans` in which lo + 1 .. hi were replaced by join and  *)
(* the spans behind them moved up.                                         *)
Woven(q, spans, take, lo, hi, join) ==
  /\ lo \in 0 .. Len(spans) /\ hi \in lo .. Len(spans)
  /\ q \in Seq(Spans) /\ join \in Spans
  /\ Len(q) = lo + 1 + (Len(spans) - hi)
  /\ \A i \in 1 .. lo : q[i] = spans[i]
  /\ q[lo + 1] = join
  /\ \A i \in hi + 1 .. Len(spans) : q[i - hi + lo + 1] = Up(spans[i], take)

(* join takes the fed run and the spans it touches, and nothing else.      *)
Joins(st, start, take, at, lo, hi, join) ==
  /\ join.start <= start /\ start + take <= join.start + join.len
  /\ join.start + join.len <= MaxAddr
  /\ join.at + start = at + join.start
  /\ join.at = IF lo = 0 THEN 0 ELSE st.spans[lo].at + st.spans[lo].len
  /\ join.at + join.len =
       IF hi = Len(st.spans) THEN Len(st.data) + take ELSE st.spans[hi + 1].at + take
  /\ \A i \in 1 .. lo : /\ SpanEnd(st.spans[i]) < join.start
                        /\ st.spans[i].at + st.spans[i].len <= at
  /\ \A i \in hi + 1 .. Len(st.spans) : /\ join.start + join.len < st.spans[i].start
                                        /\ at <= st.spans[i].at
  /\ \A i \in lo + 1 .. hi : /\ join.start <= st.spans[i].start
                             /\ SpanEnd(st.spans[i]) <= join.start + join.len
  /\ \A p \in Int : join.start <= p /\ p < start =>
       \E i \in DOMAIN st.spans : /\ Covers(st.spans[i], p)
                                  /\ st.spans[i].at + st.spans[i].len <= at
                                  /\ st.spans[i].at + join.start = join.at + st.spans[i].start
  /\ \A p \in Int : start + take <= p /\ p < join.start + join.len =>
       \E i \in DOMAIN st.spans : /\ Covers(st.spans[i], p)
                                  /\ at <= st.spans[i].at
                                  /\ st.spans[i].at + take + join.start
                                       = join.at + st.spans[i].start

(* Where a span of q comes from.                                           *)
LEMMA WovenFrom ==
  ASSUME NEW q, NEW spans, NEW take \in Nat, NEW lo, NEW hi, NEW join, Index(spans),
         Woven(q, spans, take, lo, hi, join), NEW m \in DOMAIN q
  PROVE  \/ m \in 1 .. lo /\ q[m] = spans[m] /\ m \in DOMAIN spans
         \/ m = lo + 1 /\ q[m] = join
         \/ \E i \in hi + 1 .. Len(spans) :
              i \in DOMAIN spans /\ m = i - hi + lo + 1 /\ q[m] = Up(spans[i], take)
<1> DEFINE n == Len(spans)
<1>1. n \in Nat /\ DOMAIN spans = 1 .. n
  BY DEF Index
<1>2. lo \in 0 .. n /\ hi \in lo .. n /\ DOMAIN q = 1 .. lo + 1 + (n - hi)
  BY DEF Woven
<1>3. CASE m <= lo
  <2>1. m \in 1 .. lo
    BY <1>2, <1>3
  <2>2. q[m] = spans[m]
    BY <2>1 DEF Woven
  <2>3. m \in 1 .. n
    BY <1>1, <1>2, <2>1
  <2> QED
    BY <1>1, <2>1, <2>2, <2>3
<1>4. CASE m = lo + 1
  BY <1>4 DEF Woven
<1>5. CASE m > lo + 1
  <2> DEFINE i == m - lo - 1 + hi
  <2>1. i \in hi + 1 .. n /\ m = i - hi + lo + 1 /\ i \in 1 .. n
    BY <1>1, <1>2, <1>5
  <2> HIDE DEF i
  <2>2. q[i - hi + lo + 1] = Up(spans[i], take)
    BY <2>1 DEF Woven
  <2> QED
    BY <1>1, <2>1, <2>2
<1>6. m \in Int /\ lo \in Int
  BY <1>1, <1>2
<1> QED
  BY <1>3, <1>4, <1>5, <1>6

(* The index stays sorted, and its runs apart.                             *)
LEMMA WovenIndex ==
  ASSUME NEW st, Packed(st), NEW start \in Nat, NEW take \in Nat \ {0}, NEW at \in Nat,
         NEW lo, NEW hi, NEW join, NEW q,
         Woven(q, st.spans, take, lo, hi, join),
         Joins(st, start, take, at, lo, hi, join)
  PROVE  Index(q)
<1> DEFINE n == Len(st.spans)
<1>1. Index(st.spans) /\ n \in Nat /\ DOMAIN st.spans = 1 .. n
  BY DEF Packed, Index
<1>2. lo \in 0 .. n /\ hi \in lo .. n /\ lo \in Nat /\ hi \in Nat
  BY <1>1 DEF Woven
<1>3. q \in Seq(Spans) /\ DOMAIN q = 1 .. lo + 1 + (n - hi)
  BY DEF Woven
<1>4. \A i \in 1 .. n :
        /\ st.spans[i].start \in Nat /\ st.spans[i].at \in Nat /\ st.spans[i].len \in Nat \ {0}
        /\ SpanEnd(st.spans[i]) = st.spans[i].start + st.spans[i].len
        /\ SpanEnd(st.spans[i]) <= MaxAddr
  BY <1>1, SpanFields
<1>5. \A i, k \in 1 .. n : i < k => SpanEnd(st.spans[i]) < st.spans[k].start
  BY <1>1 DEF Index
<1>6. /\ join.start \in Nat /\ join.at \in Nat /\ join.len \in Nat
      /\ SpanEnd(join) = join.start + join.len
  BY DEF Woven, Spans, SpanEnd
<1>7. /\ join.len > 0 /\ SpanEnd(join) <= MaxAddr
  <2>1. /\ join.start <= start /\ start + take <= join.start + join.len
        /\ join.start + join.len <= MaxAddr
    BY DEF Joins
  <2> QED
    BY <1>6, <2>1
<1>8. \A i \in 1 .. n : /\ Up(st.spans[i], take).start = st.spans[i].start
                        /\ Up(st.spans[i], take).len = st.spans[i].len
                        /\ SpanEnd(Up(st.spans[i], take)) = SpanEnd(st.spans[i])
  BY <1>4 DEF Up, SpanEnd
<1>9. \A i \in 1 .. lo : SpanEnd(st.spans[i]) < join.start
  BY DEF Joins
<1>10. \A i \in hi + 1 .. n : SpanEnd(join) < st.spans[i].start
  BY <1>6 DEF Joins
<1>11. \A m \in DOMAIN q :
          \/ m \in 1 .. lo /\ q[m] = st.spans[m] /\ m \in 1 .. n
          \/ m = lo + 1 /\ q[m] = join
          \/ \E i \in hi + 1 .. n :
               i \in 1 .. n /\ m = i - hi + lo + 1 /\ q[m] = Up(st.spans[i], take)
  BY <1>1, WovenFrom
<1> HIDE DEF n
<1>12. \A m \in DOMAIN q : q[m].len > 0 /\ SpanEnd(q[m]) <= MaxAddr
  BY <1>4, <1>7, <1>8, <1>11
<1>13. ASSUME NEW k \in DOMAIN q, NEW m \in DOMAIN q, k < m
       PROVE  SpanEnd(q[k]) < q[m].start
  <2>1. CASE m \in 1 .. lo /\ q[m] = st.spans[m] /\ m \in 1 .. n
    <3>1. k \in 1 .. lo /\ q[k] = st.spans[k] /\ k \in 1 .. n
      BY <1>2, <1>3, <1>11, <1>13, <2>1
    <3> QED
      BY <1>5, <1>13, <2>1, <3>1
  <2>2. CASE m = lo + 1 /\ q[m] = join
    <3>1. k \in 1 .. lo /\ q[k] = st.spans[k]
      BY <1>2, <1>3, <1>11, <1>13, <2>2
    <3> QED
      BY <1>9, <2>2, <3>1
  <2>3. ASSUME NEW i \in hi + 1 .. n, i \in 1 .. n, m = i - hi + lo + 1,
               q[m] = Up(st.spans[i], take)
        PROVE  SpanEnd(q[k]) < q[m].start
    <3>1. q[m].start = st.spans[i].start
      BY <1>8, <2>3
    <3>2. CASE k \in 1 .. lo /\ q[k] = st.spans[k] /\ k \in 1 .. n
      <4>1. k < i
        BY <1>1, <1>2, <2>3, <3>2
      <4> QED
        BY <1>5, <2>3, <3>1, <3>2, <4>1
    <3>3. CASE k = lo + 1 /\ q[k] = join
      BY <1>10, <3>1, <3>3
    <3>4. ASSUME NEW h \in hi + 1 .. n, h \in 1 .. n, k = h - hi + lo + 1,
                 q[k] = Up(st.spans[h], take)
          PROVE  SpanEnd(q[k]) < q[m].start
      <4>1. h < i
        BY <1>1, <1>2, <1>13, <2>3, <3>4
      <4> QED
        BY <1>5, <1>8, <2>3, <3>1, <3>4, <4>1
    <3> QED
      BY <1>11, <3>2, <3>3, <3>4
  <2> QED
    BY <1>11, <2>1, <2>2, <2>3
<1> QED
  BY <1>3, <1>12, <1>13 DEF Index

(* Its payloads lie end to end.                                            *)
LEMMA WovenLaid ==
  ASSUME NEW st, Packed(st), NEW start \in Nat, NEW take \in Nat \ {0}, NEW at \in Nat,
         NEW lo, NEW hi, NEW join, NEW q,
         Woven(q, st.spans, take, lo, hi, join),
         Joins(st, start, take, at, lo, hi, join)
  PROVE  /\ Laid(q)
         /\ q # <<>> /\ q[Len(q)].at + q[Len(q)].len = Len(st.data) + take
<1> DEFINE n == Len(st.spans)
<1>1. /\ Index(st.spans) /\ n \in Nat /\ DOMAIN st.spans = 1 .. n
      /\ Len(st.data) \in Nat
  BY DEF Packed, Index
<1>2. lo \in 0 .. n /\ hi \in lo .. n /\ lo \in Nat /\ hi \in Nat
  BY <1>1 DEF Woven
<1>3. Len(q) = lo + 1 + (n - hi) /\ DOMAIN q = 1 .. lo + 1 + (n - hi)
  BY DEF Woven
<1>4. \A i \in 1 .. n : st.spans[i].at \in Nat /\ st.spans[i].len \in Nat
  BY <1>1, SpanFields
<1>5. join.at \in Nat /\ join.len \in Nat
  BY DEF Woven, Spans
<1>6. \A i \in 1 .. n : /\ Up(st.spans[i], take).at = st.spans[i].at + take
                        /\ Up(st.spans[i], take).len = st.spans[i].len
  BY DEF Up
<1>7. \A m \in DOMAIN q :
          \/ m \in 1 .. lo /\ q[m] = st.spans[m] /\ m \in 1 .. n
          \/ m = lo + 1 /\ q[m] = join
          \/ \E i \in hi + 1 .. n :
               i \in 1 .. n /\ m = i - hi + lo + 1 /\ q[m] = Up(st.spans[i], take)
  BY <1>1, WovenFrom
<1>8. \A i \in 1 .. n : LaidAt(st.spans, i)
  BY <1>1 DEF Packed, Laid
<1>9. /\ join.at = IF lo = 0 THEN 0 ELSE st.spans[lo].at + st.spans[lo].len
      /\ join.at + join.len = IF hi = n THEN Len(st.data) + take
                              ELSE st.spans[hi + 1].at + take
  BY DEF Joins
<1>10. \A i \in 1 .. lo : q[i] = st.spans[i]
  BY DEF Woven
<1>11. q[lo + 1] = join
  BY DEF Woven
<1>12. \A i \in hi + 1 .. n : q[i - hi + lo + 1] = Up(st.spans[i], take)
  BY DEF Woven
<1> HIDE DEF n
<1>13. ASSUME NEW m \in DOMAIN q PROVE LaidAt(q, m)
  <2>1. CASE m \in 1 .. lo /\ q[m] = st.spans[m] /\ m \in 1 .. n
    <3>1. LaidAt(st.spans, m)
      BY <1>8, <2>1
    <3>2. CASE m = 1
      BY <2>1, <3>1, <3>2 DEF LaidAt
    <3>3. CASE m # 1
      <4>1. q[m - 1] = st.spans[m - 1]
        BY <1>2, <1>10, <2>1, <3>3
      <4> QED
        BY <2>1, <3>1, <3>3, <4>1 DEF LaidAt
    <3> QED
      BY <3>2, <3>3
  <2>2. CASE m = lo + 1 /\ q[m] = join
    <3>1. CASE lo = 0
      BY <1>9, <2>2, <3>1 DEF LaidAt
    <3>2. CASE lo # 0
      <4>1. q[m - 1] = st.spans[lo] /\ m # 1 /\ m - 1 = lo
        BY <1>2, <1>10, <2>2, <3>2
      <4> QED
        BY <1>9, <2>2, <3>2, <4>1 DEF LaidAt
    <3> QED
      BY <3>1, <3>2
  <2>3. ASSUME NEW i \in hi + 1 .. n, i \in 1 .. n, m = i - hi + lo + 1,
               q[m] = Up(st.spans[i], take)
        PROVE  LaidAt(q, m)
    <3>1. q[m].at = st.spans[i].at + take /\ m # 1
      BY <1>1, <1>2, <1>6, <2>3
    <3>2. CASE i = hi + 1
      <4>1. m - 1 = lo + 1 /\ hi # n
        <5>1. n \in Nat /\ i <= n /\ i \in Int
          BY <1>1, <2>3
        <5> QED
          BY <1>2, <2>3, <3>2, <5>1
      <4> QED
        BY <1>9, <1>11, <3>1, <3>2, <4>1 DEF LaidAt
    <3>3. CASE i # hi + 1
      <4>1. /\ i - 1 \in hi + 1 .. n /\ i - 1 \in 1 .. n /\ i # 1
            /\ m - 1 = (i - 1) - hi + lo + 1
        BY <1>1, <1>2, <2>3, <3>3
      <4>2. q[m - 1] = Up(st.spans[i - 1], take)
        BY <1>12, <4>1
      <4>3. /\ q[m - 1].at = st.spans[i - 1].at + take
            /\ q[m - 1].len = st.spans[i - 1].len
        BY <1>6, <4>1, <4>2
      <4>4. st.spans[i].at = st.spans[i - 1].at + st.spans[i - 1].len
        <5>1. LaidAt(st.spans, i)
          BY <1>8, <2>3
        <5> QED
          BY <4>1, <5>1 DEF LaidAt
      <4>5. st.spans[i - 1].at \in Nat /\ st.spans[i - 1].len \in Nat
        BY <1>4, <4>1
      <4> QED
        BY <3>1, <4>3, <4>4, <4>5 DEF LaidAt
    <3> QED
      BY <3>2, <3>3
  <2> QED
    BY <1>7, <2>1, <2>2, <2>3
<1>14. Len(q) \in DOMAIN q /\ q # <<>>
  BY <1>1, <1>2, <1>3
<1>15. q[Len(q)].at + q[Len(q)].len = Len(st.data) + take
  <2>1. CASE hi = n
    <3>1. Len(q) = lo + 1
      BY <1>1, <1>2, <1>3, <2>1
    <3> QED
      BY <1>9, <1>11, <2>1, <3>1
  <2>2. CASE hi # n
    <3>1. n \in hi + 1 .. n /\ n \in 1 .. n /\ Len(q) = n - hi + lo + 1
      BY <1>1, <1>2, <1>3, <2>2
    <3>2. q[Len(q)].at = st.spans[n].at + take /\ q[Len(q)].len = st.spans[n].len
      BY <1>6, <1>12, <3>1
    <3>3. Len(st.data) = st.spans[n].at + st.spans[n].len
      <4>1. st.spans # <<>>
        BY <1>1, <3>1
      <4> QED
        BY <4>1 DEF Packed, n
    <3>4. st.spans[n].at \in Nat /\ st.spans[n].len \in Nat
      BY <1>4, <3>1
    <3> QED
      BY <3>2, <3>3, <3>4
  <2> QED
    BY <2>1, <2>2
<1> QED
  BY <1>13, <1>14, <1>15 DEF Laid

(* A byte held before is where it was, or `take` places up.                *)
LEMMA CellMoves ==
  ASSUME NEW st, Packed(st), NEW at \in 0 .. Len(st.data), NEW new \in Seq(Bytes),
         NEW p \in Int, NEW i \in DOMAIN st.spans, Covers(st.spans[i], p)
  PROVE  LET place == st.spans[i].at + (p - st.spans[i].start) + 1
             data  == Shifted(st.data, at, new)
         IN /\ st.spans[i].at + st.spans[i].len <= at => data[place] = Cell(st, i, p)
            /\ at <= st.spans[i].at => data[place + Len(new)] = Cell(st, i, p)
<1> DEFINE place == st.spans[i].at + (p - st.spans[i].start) + 1
           data == Shifted(st.data, at, new)
<1>1. st.data \in Seq(Bytes) /\ Len(st.data) \in Nat
  BY DEF Packed
<1>2. place \in 1 .. Len(st.data)
  BY CellIs
<1>3. /\ st.spans[i].start \in Nat /\ st.spans[i].at \in Nat /\ st.spans[i].len \in Nat
      /\ SpanEnd(st.spans[i]) = st.spans[i].start + st.spans[i].len
  BY SpanFields DEF Packed
<1>4. st.spans[i].start <= p /\ p < st.spans[i].start + st.spans[i].len
  BY <1>3 DEF Covers
<1>5. place > st.spans[i].at /\ place <= st.spans[i].at + st.spans[i].len
  BY SMTT(60), <1>3, <1>4
<1>6. Cell(st, i, p) = st.data[place]
  BY DEF Cell
<1> HIDE DEF place
<1>7. /\ \A j \in 1 .. at : data[j] = st.data[j]
      /\ \A j \in at + 1 .. Len(st.data) : data[j + Len(new)] = st.data[j]
  BY <1>1, ShiftedIs
<1> HIDE DEF data
<1>8. st.spans[i].at + st.spans[i].len <= at => place \in 1 .. at
  BY <1>1, <1>2, <1>3, <1>5
<1>9. at <= st.spans[i].at => place \in at + 1 .. Len(st.data)
  BY <1>1, <1>2, <1>3, <1>5
<1>10. st.spans[i].at + st.spans[i].len <= at => data[place] = Cell(st, i, p)
  BY <1>6, <1>7, <1>8
<1>11. at <= st.spans[i].at => data[place + Len(new)] = Cell(st, i, p)
  BY <1>6, <1>7, <1>9
<1> QED
  BY <1>10, <1>11 DEF place, data

(* What a span of q covers is a byte just fed or one held before.          *)
Fed(st, start, new, p, byte) ==
  \/ p \in start .. start + Len(new) - 1 /\ byte = new[p - start + 1]
  \/ /\ p \notin start .. start + Len(new) - 1
     /\ \E i \in DOMAIN st.spans : Covers(st.spans[i], p) /\ byte = Cell(st, i, p)

(* A byte keeps its cell when its span and its place move together,        *)
LEMMA SamePlace ==
  ASSUME NEW s \in Spans, NEW r \in Spans, NEW p \in Int,
         s.at + r.start = r.at + s.start
  PROVE  s.at + (p - s.start) + 1 = r.at + (p - r.start) + 1
BY DEF Spans

(* also when both are moved up.                                            *)
LEMMA UpperPlace ==
  ASSUME NEW s \in Spans, NEW r \in Spans, NEW p \in Int, NEW t \in Int,
         s.at + t + r.start = r.at + s.start
  PROVE  s.at + (p - s.start) + 1 + t = r.at + (p - r.start) + 1
BY DEF Spans

(* Behind a feed each span leads to the byte of the offset it covers: one  *)
(* that was fed, or one that was held, wherever it was moved.              *)
LEMMA WovenCells ==
  ASSUME NEW st, Packed(st), NEW start \in Nat, NEW at \in 0 .. Len(st.data),
         NEW new \in Seq(Bytes), Len(new) > 0,
         NEW lo, NEW hi, NEW join, NEW q,
         Woven(q, st.spans, Len(new), lo, hi, join),
         Joins(st, start, Len(new), at, lo, hi, join),
         \A i \in DOMAIN st.spans :
           SpanEnd(st.spans[i]) <= start \/ start + Len(new) <= st.spans[i].start,
         NEW m \in DOMAIN q, NEW p \in Int, Covers(q[m], p)
  PROVE  Fed(st, start, new, p,
             Shifted(st.data, at, new)[q[m].at + (p - q[m].start) + 1])
<1> DEFINE take == Len(new)
           data == Shifted(st.data, at, new)
           n == Len(st.spans)
           fresh == start .. start + take - 1
<1>1. Index(st.spans) /\ n \in Nat /\ DOMAIN st.spans = 1 .. n /\ take \in Nat \ {0}
  BY DEF Packed, Index
<1>2. \A i \in 1 .. n :
        /\ st.spans[i].start \in Nat /\ st.spans[i].at \in Nat /\ st.spans[i].len \in Nat
        /\ SpanEnd(st.spans[i]) = st.spans[i].start + st.spans[i].len
  BY <1>1, SpanFields
<1>3. \A j \in 1 .. take : data[at + j] = new[j]
  BY ShiftedIs DEF Packed
<1>0. at \in Nat
  <2>1. Len(st.data) \in Nat
    BY DEF Packed
  <2> QED
    BY <2>1
<1> HIDE DEF data, n
<1>4. ASSUME NEW i \in 1 .. n, Covers(st.spans[i], p) PROVE p \notin fresh
  <2>1. SpanEnd(st.spans[i]) <= start \/ start + take <= st.spans[i].start
    BY <1>1
  <2>2. st.spans[i].start <= p /\ p < SpanEnd(st.spans[i])
    BY <1>4 DEF Covers
  <2>3. st.spans[i].start \in Nat /\ SpanEnd(st.spans[i]) \in Nat /\ take \in Nat
    <3>1. take \in Nat
      BY <1>1
    <3>2. /\ st.spans[i].start \in Nat /\ st.spans[i].len \in Nat
          /\ SpanEnd(st.spans[i]) = st.spans[i].start + st.spans[i].len
      BY <1>2
    <3> HIDE DEF take
    <3> QED
      BY <3>1, <3>2
  <2> DEFINE from == st.spans[i].start
             to == SpanEnd(st.spans[i])
  <2>4. to <= start => ~(p \in fresh)
    <3> HIDE DEF take, from
    <3>1. p < to /\ to \in Nat
      BY <2>2, <2>3
    <3> HIDE DEF to
    <3> QED
      BY <3>1
  <2>5. start + take <= from => ~(p \in fresh)
    <3> HIDE DEF take, to
    <3>1. from <= p /\ from \in Nat /\ take \in Nat
      BY <2>2, <2>3
    <3> HIDE DEF from
    <3> QED
      BY <3>1
  <2> QED
    BY <2>1, <2>4, <2>5
<1>5. ASSUME NEW i \in 1 .. n, Covers(st.spans[i], p),
             st.spans[i].at + st.spans[i].len <= at
      PROVE  data[st.spans[i].at + (p - st.spans[i].start) + 1] = Cell(st, i, p)
  BY <1>1, <1>5, CellMoves DEF data
<1>6. ASSUME NEW i \in 1 .. n, Covers(st.spans[i], p), at <= st.spans[i].at
      PROVE  data[st.spans[i].at + (p - st.spans[i].start) + 1 + take] = Cell(st, i, p)
  BY <1>1, <1>6, CellMoves DEF data
<1>7. \/ m \in 1 .. lo /\ q[m] = st.spans[m] /\ m \in 1 .. n
      \/ m = lo + 1 /\ q[m] = join
      \/ \E i \in hi + 1 .. n :
           i \in 1 .. n /\ m = i - hi + lo + 1 /\ q[m] = Up(st.spans[i], take)
  BY <1>1, WovenFrom DEF n
<1> HIDE DEF take
<1> DEFINE byte == data[q[m].at + (p - q[m].start) + 1]
<1>8. CASE m \in 1 .. lo /\ q[m] = st.spans[m] /\ m \in 1 .. n
  <2>1. Covers(st.spans[m], p)
    BY <1>8
  <2>2. st.spans[m].at + st.spans[m].len <= at
    BY <1>8 DEF Joins
  <2>3. byte = Cell(st, m, p) /\ p \notin fresh
    BY <1>4, <1>5, <1>8, <2>1, <2>2
  <2> QED
    BY <1>1, <1>8, <2>1, <2>3 DEF Fed, data, take
<1>9. CASE m = lo + 1 /\ q[m] = join
  <2>1. /\ join.start \in Nat /\ join.at \in Nat /\ join.len \in Nat
        /\ SpanEnd(join) = join.start + join.len
    BY DEF Woven, Spans, SpanEnd
  <2>2. join.start <= p /\ p < join.start + join.len
    BY <1>9, <2>1 DEF Covers
  <2>3. join.at + start = at + join.start
    BY DEF Joins
  <2>4. byte = data[join.at + (p - join.start) + 1]
    BY <1>9
  <2>5. CASE p \in fresh
    <3>1. p - start + 1 \in 1 .. take
          /\ join.at + (p - join.start) + 1 = at + (p - start + 1)
      <4>1. join.start \in Int /\ join.at \in Int /\ at \in Int /\ start \in Int
        BY <1>0, <2>1
      <4>2. join.at + (p - join.start) + 1 = at + (p - start + 1)
        BY SMTT(60), <2>3, <4>1
      <4>3. p - start + 1 \in 1 .. take
        BY <1>1, <2>5, <4>1
      <4> QED
        BY <4>2, <4>3
    <3>2. data[at + (p - start + 1)] = new[p - start + 1]
      BY <1>3, <3>1
    <3> QED
      BY <2>4, <2>5, <3>1, <3>2 DEF Fed, data, take
  <2>6. CASE p < start
    <3>1. PICK i \in 1 .. n :
            /\ Covers(st.spans[i], p) /\ st.spans[i].at + st.spans[i].len <= at
            /\ st.spans[i].at + join.start = join.at + st.spans[i].start
      BY <1>1, <2>2, <2>6 DEF Joins
    <3>2. st.spans[i].at + (p - st.spans[i].start) + 1 = join.at + (p - join.start) + 1
      <4>1. st.spans[i] \in Spans /\ join \in Spans
        BY <1>1 DEF Index, Woven
      <4>2. st.spans[i].at + join.start = join.at + st.spans[i].start
        BY <3>1
      <4> QED
        BY <4>1, <4>2, SamePlace
    <3>3. byte = Cell(st, i, p) /\ p \notin fresh
      BY <1>4, <1>5, <2>4, <3>1, <3>2
    <3> QED
      BY <1>1, <3>1, <3>3 DEF Fed, data, take
  <2>7. CASE start + take <= p
    <3>1. PICK i \in 1 .. n :
            /\ Covers(st.spans[i], p) /\ at <= st.spans[i].at
            /\ st.spans[i].at + take + join.start = join.at + st.spans[i].start
      BY <1>1, <2>2, <2>7 DEF Joins, take
    <3>2. st.spans[i].at + (p - st.spans[i].start) + 1 + take
            = join.at + (p - join.start) + 1
      <4>1. st.spans[i] \in Spans /\ join \in Spans /\ take \in Int
        BY <1>1 DEF Index, Woven
      <4>2. st.spans[i].at + take + join.start = join.at + st.spans[i].start
        BY <3>1
      <4> QED
        BY <4>1, <4>2, UpperPlace
    <3>3. byte = Cell(st, i, p) /\ p \notin fresh
      BY <1>4, <1>6, <2>4, <3>1, <3>2
    <3> QED
      BY <1>1, <3>1, <3>3 DEF Fed, data, take
  <2> QED
    BY <1>1, <2>5, <2>6, <2>7
<1>10. ASSUME NEW i \in hi + 1 .. n, i \in 1 .. n, q[m] = Up(st.spans[i], take)
       PROVE  Fed(st, start, new, p, byte)
  <2>1. /\ q[m].start = st.spans[i].start /\ q[m].at = st.spans[i].at + take
        /\ SpanEnd(q[m]) = SpanEnd(st.spans[i])
    BY <1>10 DEF Up, SpanEnd
  <2>2. Covers(st.spans[i], p)
    BY <2>1 DEF Covers
  <2>3. at <= st.spans[i].at
    BY <1>10 DEF Joins, n
  <2>4. q[m].at + (p - q[m].start) + 1 = st.spans[i].at + (p - st.spans[i].start) + 1 + take
    BY SMTT(60), <1>1, <1>2, <1>10, <2>1
  <2>5. byte = Cell(st, i, p) /\ p \notin fresh
    BY <1>4, <1>6, <1>10, <2>2, <2>3, <2>4
  <2> QED
    BY <1>1, <1>10, <2>2, <2>5 DEF Fed, data, take
<1> QED
  BY <1>7, <1>8, <1>9, <1>10 DEF data

(* q covers what was covered before and the bytes just fed.                *)
LEMMA WovenCovers ==
  ASSUME NEW st, Packed(st), NEW start \in Nat, NEW take \in Nat \ {0}, NEW at \in Nat,
         NEW lo, NEW hi, NEW join, NEW q,
         Woven(q, st.spans, take, lo, hi, join),
         Joins(st, start, take, at, lo, hi, join), NEW p \in Int
  PROVE  (\E m \in DOMAIN q : Covers(q[m], p))
           <=> \/ p \in start .. start + take - 1
               \/ \E i \in DOMAIN st.spans : Covers(st.spans[i], p)
<1> DEFINE n == Len(st.spans)
<1>1. Index(st.spans) /\ n \in Nat /\ DOMAIN st.spans = 1 .. n
  BY DEF Packed, Index
<1>2. lo \in 0 .. n /\ hi \in lo .. n /\ lo \in Nat /\ hi \in Nat
  BY <1>1 DEF Woven
<1>3. DOMAIN q = 1 .. lo + 1 + (n - hi)
  BY DEF Woven
<1>4. /\ join.start \in Nat /\ join.len \in Nat
      /\ SpanEnd(join) = join.start + join.len
  BY DEF Woven, Spans, SpanEnd
<1>5. \A i \in 1 .. n :
        /\ st.spans[i].start \in Nat /\ SpanEnd(st.spans[i]) \in Nat
        /\ Covers(Up(st.spans[i], take), p) <=> Covers(st.spans[i], p)
  <2>1. \A i \in 1 .. n : st.spans[i].start \in Nat /\ st.spans[i].len \in Nat
                          /\ SpanEnd(st.spans[i]) = st.spans[i].start + st.spans[i].len
    BY <1>1, SpanFields
  <2> QED
    BY <2>1 DEF Up, Covers, SpanEnd
<1>6. \A i \in 1 .. lo : q[i] = st.spans[i]
  BY DEF Woven
<1>7. q[lo + 1] = join
  BY DEF Woven
<1>8. \A i \in hi + 1 .. n : q[i - hi + lo + 1] = Up(st.spans[i], take)
  BY DEF Woven
<1>9. /\ join.start <= start /\ start + take <= join.start + join.len
      /\ \A i \in lo + 1 .. hi : /\ join.start <= st.spans[i].start
                                 /\ SpanEnd(st.spans[i]) <= join.start + join.len
  BY DEF Joins
<1>10. \A m \in DOMAIN q :
          \/ m \in 1 .. lo /\ q[m] = st.spans[m] /\ m \in 1 .. n
          \/ m = lo + 1 /\ q[m] = join
          \/ \E i \in hi + 1 .. n :
               i \in 1 .. n /\ m = i - hi + lo + 1 /\ q[m] = Up(st.spans[i], take)
  BY <1>1, WovenFrom
<1>11. ASSUME Covers(join, p), p \notin start .. start + take - 1
       PROVE  \E i \in 1 .. n : Covers(st.spans[i], p)
  <2>1. join.start <= p /\ p < join.start + join.len
    BY <1>4, <1>11 DEF Covers
  <2>2. p < start \/ start + take <= p
    BY <1>11
  <2> QED
    BY <1>1, <2>1, <2>2 DEF Joins
<1> HIDE DEF n
<1>12. ASSUME NEW m \in DOMAIN q, Covers(q[m], p)
       PROVE  \/ p \in start .. start + take - 1
              \/ \E i \in 1 .. n : Covers(st.spans[i], p)
  BY <1>5, <1>10, <1>11, <1>12
<1>13. ASSUME p \in start .. start + take - 1
       PROVE  \E m \in DOMAIN q : Covers(q[m], p)
  <2>1. Covers(join, p)
    BY <1>4, <1>9, <1>13 DEF Covers
  <2>2. lo + 1 \in DOMAIN q
    BY <1>1, <1>2, <1>3
  <2> QED
    BY <1>7, <2>1, <2>2
<1>14. ASSUME NEW i \in 1 .. n, Covers(st.spans[i], p)
       PROVE  \E m \in DOMAIN q : Covers(q[m], p)
  <2>1. CASE i \in 1 .. lo
    <3>1. i \in DOMAIN q
      BY <1>1, <1>2, <1>3, <2>1
    <3> QED
      BY <1>6, <1>14, <2>1, <3>1
  <2>2. CASE i \in lo + 1 .. hi
    <3>1. Covers(join, p)
      BY <1>4, <1>5, <1>9, <1>14, <2>2 DEF Covers
    <3>2. lo + 1 \in DOMAIN q
      BY <1>1, <1>2, <1>3
    <3> QED
      BY <1>7, <3>1, <3>2
  <2>3. CASE i \in hi + 1 .. n
    <3>1. i - hi + lo + 1 \in DOMAIN q
      BY <1>1, <1>2, <1>3, <2>3
    <3>2. Covers(q[i - hi + lo + 1], p)
      BY <1>5, <1>8, <1>14, <2>3
    <3> QED
      BY <3>1, <3>2
  <2> QED
    BY <1>1, <1>2, <2>1, <2>2, <2>3
<1> QED
  BY <1>1, <1>12, <1>13, <1>14

(* A store in which spans are woven and their payload is shifted is packed *)
(* again, and holds the bytes fed and every byte it held.                  *)
Fits(st, start, at, v, new, lo, hi, join, q) ==
  /\ start \in Nat /\ at \in 0 .. Len(st.data)
  /\ v \in Versions /\ new \in Seq(Bytes) /\ Len(new) > 0
  /\ \A j \in 1 .. Len(new) : new[j] = <<start + j - 1, v>>
  /\ Woven(q, st.spans, Len(new), lo, hi, join)
  /\ Joins(st, start, Len(new), at, lo, hi, join)
  /\ \A i \in DOMAIN st.spans :
       SpanEnd(st.spans[i]) <= start \/ start + Len(new) <= st.spans[i].start
  /\ Len(q) <= MaxSpans /\ Len(st.data) + Len(new) <= Cap

(* A feed that fits keeps the packed form, stores what it was given and    *)
(* loses nothing.                                                          *)
LEMMA WovenPacked ==
  ASSUME NEW st, Packed(st), NEW start, NEW at, NEW v, NEW new, NEW lo, NEW hi,
         NEW join, NEW q, Fits(st, start, at, v, new, lo, hi, join, q)
  PROVE  LET after == [data |-> Shifted(st.data, at, new), spans |-> q]
         IN /\ Packed(after)
            /\ \A p \in Int : PackedByte(after, p) =
                 IF p \in start .. start + Len(new) - 1 THEN v ELSE PackedByte(st, p)
<1> DEFINE take == Len(new)
           data == Shifted(st.data, at, new)
           after == [data |-> data, spans |-> q]
<1>0. /\ start \in Nat /\ at \in 0 .. Len(st.data)
      /\ v \in Versions /\ new \in Seq(Bytes) /\ Len(new) > 0
      /\ \A j \in 1 .. Len(new) : new[j] = <<start + j - 1, v>>
      /\ Woven(q, st.spans, Len(new), lo, hi, join)
      /\ Joins(st, start, Len(new), at, lo, hi, join)
      /\ \A i \in DOMAIN st.spans :
           SpanEnd(st.spans[i]) <= start \/ start + Len(new) <= st.spans[i].start
      /\ Len(q) <= MaxSpans /\ Len(st.data) + Len(new) <= Cap
  BY DEF Fits
<1>1. st.data \in Seq(Bytes) /\ Len(st.data) \in Nat /\ take \in Nat \ {0} /\ at \in Nat
  BY <1>0 DEF Packed
<1>2. data \in Seq(Bytes) /\ Len(data) = Len(st.data) + take
  BY <1>0, <1>1, ShiftedIs
<1>3. Index(q)
  BY <1>0, <1>1, WovenIndex
<1>4. Laid(q) /\ q # <<>> /\ q[Len(q)].at + q[Len(q)].len = Len(st.data) + take
  BY <1>0, <1>1, WovenLaid
<1>5. ASSUME NEW m \in DOMAIN q, NEW p \in Int, Covers(q[m], p)
      PROVE  Fed(st, start, new, p, data[q[m].at + (p - q[m].start) + 1])
  BY <1>0, <1>5, WovenCells
<1> HIDE DEF data
<1>6. ASSUME NEW p \in Int, NEW byte, Fed(st, start, new, p, byte)
      PROVE  /\ byte[1] = p
             /\ byte[2] = IF p \in start .. start + take - 1 THEN v ELSE PackedByte(st, p)
  <2>1. CASE p \in start .. start + take - 1 /\ byte = new[p - start + 1]
    <3>1. p - start + 1 \in 1 .. take /\ start + (p - start + 1) - 1 = p
      BY <1>0, <1>1, <2>1
    <3>2. byte = <<p, v>>
      BY <1>0, <2>1, <3>1
    <3> QED
      BY <2>1, <3>2
  <2>2. ASSUME NEW i \in DOMAIN st.spans, Covers(st.spans[i], p), byte = Cell(st, i, p),
               p \notin start .. start + take - 1
        PROVE  byte[1] = p /\ byte[2] = PackedByte(st, p)
    <3>1. Cell(st, i, p)[1] = p
      BY <2>2, CellIs
    <3>2. PackedByte(st, p) = Cell(st, i, p)[2]
      BY <2>2, PackedByteIs
    <3> QED
      BY <2>2, <3>1, <3>2
  <2> QED
    BY <1>6, <2>1, <2>2 DEF Fed
<1>7. Placed(data, q)
  <2> SUFFICES ASSUME NEW m \in DOMAIN q, NEW k \in 1 .. q[m].len
               PROVE  data[q[m].at + k][1] = q[m].start + k - 1
    BY DEF Placed
  <2> DEFINE p == q[m].start + k - 1
  <2>1. q[m].start \in Nat /\ q[m].at \in Nat /\ q[m].len \in Nat
        /\ SpanEnd(q[m]) = q[m].start + q[m].len
    BY <1>3, SpanFields
  <2>2. p \in Int /\ Covers(q[m], p) /\ q[m].at + (p - q[m].start) + 1 = q[m].at + k
    BY <2>1 DEF Covers
  <2> HIDE DEF p
  <2>3. Fed(st, start, new, p, data[q[m].at + k])
    BY <1>5, <2>2
  <2>4. data[q[m].at + k][1] = p
    BY <1>6, <2>2, <2>3
  <2> QED
    BY <2>4 DEF p
<1>8. Packed(after)
  BY <1>0, <1>2, <1>3, <1>4, <1>7 DEF Packed
<1>9. ASSUME NEW p \in Int
      PROVE  PackedByte(after, p) =
               IF p \in start .. start + take - 1 THEN v ELSE PackedByte(st, p)
  <2>1. after.spans = q /\ after.data = data
    OBVIOUS
  <2> HIDE DEF after
  <2>2. (\E m \in DOMAIN q : Covers(q[m], p))
          <=> \/ p \in start .. start + take - 1
              \/ \E i \in DOMAIN st.spans : Covers(st.spans[i], p)
    BY <1>0, <1>1, WovenCovers
  <2>3. CASE \E m \in DOMAIN q : Covers(q[m], p)
    <3>1. PICK m \in DOMAIN q : Covers(q[m], p)
      BY <2>3
    <3>2. PackedByte(after, p) = Cell(after, m, p)[2]
      BY <1>8, <2>1, <3>1, PackedByteIs
    <3>3. Cell(after, m, p) = data[q[m].at + (p - q[m].start) + 1]
      BY <2>1 DEF Cell
    <3>4. Fed(st, start, new, p, Cell(after, m, p))
      BY <1>5, <3>1, <3>3
    <3> QED
      BY <1>6, <3>2, <3>4
  <2>4. CASE ~\E m \in DOMAIN q : Covers(q[m], p)
    <3>1. PackedByte(after, p) = "none"
      BY <1>8, <2>1, <2>4, PackedByteIs
    <3>2. p \notin start .. start + take - 1 /\ PackedByte(st, p) = "none"
      BY <2>2, <2>4, PackedByteIs
    <3> QED
      BY <3>1, <3>2
  <2> QED
    BY <2>3, <2>4
<1> HIDE DEF after
<1> QED
  BY <1>8, <1>9 DEF after, data

(* A sequence without its kth element, and one with e put in there.        *)
LEMMA RemovedIs ==
  ASSUME NEW Elem, NEW s \in Seq(Elem), NEW k \in 1 .. Len(s)
  PROVE  /\ RemoveAt(s, k) \in Seq(Elem) /\ Len(RemoveAt(s, k)) = Len(s) - 1
         /\ \A i \in 1 .. k - 1 : RemoveAt(s, k)[i] = s[i]
         /\ \A i \in k + 1 .. Len(s) : RemoveAt(s, k)[i - 1] = s[i]
<1> DEFINE a == SubSeq(s, 1, k - 1)
           b == SubSeq(s, k + 1, Len(s))
<1>1. Len(s) \in Nat /\ k \in Nat
  OBVIOUS
<1>2. a \in Seq(Elem) /\ Len(a) = k - 1 /\ \A i \in 1 .. k - 1 : a[i] = s[i]
  OBVIOUS
<1>3. /\ b \in Seq(Elem) /\ Len(b) = Len(s) - k
      /\ \A i \in 1 .. Len(s) - k : b[i] = s[k + i]
  OBVIOUS
<1> HIDE DEF a, b
<1> DEFINE c == a \o b
<1>4. /\ c \in Seq(Elem) /\ Len(c) = Len(a) + Len(b)
      /\ \A j \in 1 .. Len(a) : c[j] = a[j]
      /\ \A j \in 1 .. Len(b) : c[Len(a) + j] = b[j]
  <2>1. a \in Seq(Elem) /\ b \in Seq(Elem)
    BY <1>2, <1>3
  <2> QED
    BY <2>1
<1> HIDE DEF c
<1>5. ASSUME NEW i \in k + 1 .. Len(s) PROVE c[i - 1] = s[i]
  <2>1. i - k \in 1 .. Len(s) - k /\ Len(a) + (i - k) = i - 1 /\ k + (i - k) = i
    BY <1>1, <1>2
  <2> QED
    BY <1>3, <1>4, <2>1
<1>6. RemoveAt(s, k) = c
  BY DEF RemoveAt, a, b, c
<1>7. \A i \in 1 .. k - 1 : c[i] = s[i]
  BY <1>2, <1>4
<1>8. c \in Seq(Elem) /\ Len(c) = Len(s) - 1
  BY <1>1, <1>2, <1>3, <1>4
<1> QED
  BY <1>5, <1>6, <1>7, <1>8

(* An insertion into a sequence.                                           *)
LEMMA InsertedIs ==
  ASSUME NEW Elem, NEW s \in Seq(Elem), NEW k \in 1 .. Len(s) + 1, NEW e \in Elem
  PROVE  /\ InsertAt(s, k, e) \in Seq(Elem) /\ Len(InsertAt(s, k, e)) = Len(s) + 1
         /\ \A i \in 1 .. k - 1 : InsertAt(s, k, e)[i] = s[i]
         /\ InsertAt(s, k, e)[k] = e
         /\ \A i \in k .. Len(s) : InsertAt(s, k, e)[i + 1] = s[i]
<1> DEFINE a == SubSeq(s, 1, k - 1)
           m == <<e>>
           b == SubSeq(s, k, Len(s))
<1>1. Len(s) \in Nat /\ k \in Nat
  OBVIOUS
<1>2. a \in Seq(Elem) /\ Len(a) = k - 1 /\ \A i \in 1 .. k - 1 : a[i] = s[i]
  OBVIOUS
<1>3. /\ b \in Seq(Elem) /\ Len(b) = Len(s) - k + 1
      /\ \A i \in 1 .. Len(s) - k + 1 : b[i] = s[k + i - 1]
  OBVIOUS
<1>4. m \in Seq(Elem) /\ Len(m) = 1 /\ m[1] = e
  OBVIOUS
<1> HIDE DEF a, b, m
<1> DEFINE c == a \o m
<1>5. /\ c \in Seq(Elem) /\ Len(c) = Len(a) + Len(m)
      /\ \A j \in 1 .. Len(a) : c[j] = a[j]
      /\ \A j \in 1 .. Len(m) : c[Len(a) + j] = m[j]
  <2>1. a \in Seq(Elem) /\ m \in Seq(Elem)
    BY <1>2, <1>4
  <2> QED
    BY <2>1
<1> HIDE DEF c
<1> DEFINE d == c \o b
<1>6. /\ d \in Seq(Elem) /\ Len(d) = Len(c) + Len(b)
      /\ \A j \in 1 .. Len(c) : d[j] = c[j]
      /\ \A j \in 1 .. Len(b) : d[Len(c) + j] = b[j]
  <2>1. c \in Seq(Elem) /\ b \in Seq(Elem)
    BY <1>3, <1>5
  <2> QED
    BY <2>1
<1> HIDE DEF d
<1>7. ASSUME NEW i \in k .. Len(s) PROVE d[i + 1] = s[i]
  <2>1. /\ i - k + 1 \in 1 .. Len(s) - k + 1 /\ Len(c) + (i - k + 1) = i + 1
        /\ k + (i - k + 1) - 1 = i
    BY <1>1, <1>2, <1>4, <1>5
  <2> QED
    BY ZenonT(60), <1>3, <1>6, <2>1
<1>8. \A i \in 1 .. k - 1 : d[i] = s[i]
  BY <1>1, <1>2, <1>4, <1>5, <1>6
<1>9. d[k] = e
  BY <1>1, <1>2, <1>4, <1>5, <1>6
<1>10. Len(d) = Len(s) + 1
  BY <1>1, <1>2, <1>3, <1>4, <1>5, <1>6
<1>11. InsertAt(s, k, e) = d
  BY DEF InsertAt, a, b, c, d, m
<1> QED
  BY <1>6, <1>7, <1>8, <1>9, <1>10, <1>11

(* A span with one field set.                                              *)
LEMMA FieldsSet ==
  ASSUME NEW s \in Spans, NEW t
  PROVE  /\ [s EXCEPT !.at = @ + t] = Up(s, t)
         /\ [s EXCEPT !.at = t] = [start |-> s.start, at |-> t, len |-> s.len]
         /\ [s EXCEPT !.len = t] = [start |-> s.start, at |-> s.at, len |-> t]
         /\ t \in Nat => Up(s, t) \in Spans
         /\ Up(s, t).start = s.start /\ Up(s, t).len = s.len
BY DEF Up, Spans

(* The span that a fed run of `take` bytes ends up in.                     *)
Grown(spans, index, start, at, take, mergePrevious, mergeNext) ==
  [start |-> IF mergePrevious THEN spans[index].start ELSE start,
   at    |-> IF mergePrevious THEN spans[index].at ELSE at,
   len   |-> (IF mergePrevious THEN spans[index].len ELSE 0) + take
               + (IF mergeNext THEN spans[index + 1].len ELSE 0)]

(* Each of the four merges weaves it into the index.                       *)
LEMMA IndexedWeaves ==
  ASSUME NEW spans, Index(spans), NEW index \in 0 .. Len(spans),
         NEW start \in Nat, NEW at \in Nat, NEW take \in Nat \ {0},
         NEW mergePrevious \in BOOLEAN, NEW mergeNext \in BOOLEAN,
         mergePrevious => index > 0, mergeNext => index < Len(spans)
  PROVE  Woven(Indexed(spans, index, start, at, take, mergePrevious, mergeNext),
               spans, take,
               IF mergePrevious THEN index - 1 ELSE index,
               IF mergeNext THEN index + 1 ELSE index,
               Grown(spans, index, start, at, take, mergePrevious, mergeNext))
<1> DEFINE n == Len(spans)
           moved == ShiftFrom(spans, index, take)
           q == Indexed(spans, index, start, at, take, mergePrevious, mergeNext)
           join == Grown(spans, index, start, at, take, mergePrevious, mergeNext)
<1>1. n \in Nat /\ DOMAIN spans = 1 .. n /\ index \in 0 .. n /\ spans \in Seq(Spans)
  BY DEF Index
<1>2. \A i \in 1 .. n :
        /\ spans[i] = [start |-> spans[i].start, at |-> spans[i].at, len |-> spans[i].len]
        /\ spans[i].start \in Nat /\ spans[i].at \in Nat /\ spans[i].len \in Nat
  BY <1>1, SpanFields
<1> HIDE DEF n
<1>3. ASSUME NEW i \in 1 .. n
      PROVE  /\ i <= index => moved[i] = spans[i]
             /\ i > index => moved[i] = Up(spans[i], take)
             /\ moved[i] \in Spans
             /\ moved[i].start = spans[i].start /\ moved[i].len = spans[i].len
  <2>1. moved[i] = IF i > index THEN [spans[i] EXCEPT !.at = @ + take] ELSE spans[i]
    BY <1>1, Zenon DEF ShiftFrom
  <2>2. spans[i] \in Spans
    BY <1>1
  <2>3. [spans[i] EXCEPT !.at = @ + take] = Up(spans[i], take)
    BY <2>2, FieldsSet
  <2>4. /\ Up(spans[i], take) \in Spans /\ Up(spans[i], take).start = spans[i].start
        /\ Up(spans[i], take).len = spans[i].len
    BY <2>2, FieldsSet
  <2>5. i \in Int /\ index \in Int
    BY <1>1
  <2> HIDE DEF moved
  <2> QED
    BY <2>1, <2>2, <2>3, <2>4, <2>5
<1>4. moved \in Seq(Spans) /\ Len(moved) = n /\ DOMAIN moved = 1 .. n
  <2>1. DOMAIN moved = 1 .. n /\ moved = [i \in 1 .. n |-> moved[i]]
    BY <1>1 DEF ShiftFrom
  <2> HIDE DEF moved
  <2>2. moved \in [1 .. n -> Spans]
    BY <1>3, <2>1
  <2> QED
    BY <1>1, <2>2
<1> HIDE DEF moved
<1>5. join \in Spans
  <2>1. mergePrevious => index \in 1 .. n
    BY <1>1
  <2>2. mergeNext => index + 1 \in 1 .. n
    BY <1>1 DEF n
  <2>3. (IF mergePrevious THEN spans[index].start ELSE start) \in Nat
    BY <1>2, <2>1
  <2>4. (IF mergePrevious THEN spans[index].at ELSE at) \in Nat
    BY <1>2, <2>1
  <2>5. (IF mergePrevious THEN spans[index].len ELSE 0) \in Nat
    BY <1>2, <2>1
  <2>6. (IF mergeNext THEN spans[index + 1].len ELSE 0) \in Nat
    BY <1>2, <2>2
  <2> QED
    BY <2>3, <2>4, <2>5, <2>6 DEF Grown, Spans
<1>6. CASE mergePrevious /\ mergeNext
  <2> DEFINE w == [moved EXCEPT ![index].len = @ + take + moved[index + 1].len]
  <2>1. index \in 1 .. n /\ index + 1 \in 1 .. n /\ index + 1 # index
    BY <1>1, <1>6 DEF n
  <2>2. q = RemoveAt(w, index + 1)
    BY <1>6, Zenon DEF Indexed, moved
  <2>3. w[index] = join
    <3>1. w[index] = [start |-> spans[index].start, at |-> spans[index].at,
                      len |-> spans[index].len + take + spans[index + 1].len]
      <4>1. moved[index] = spans[index] /\ moved[index + 1].len = spans[index + 1].len
        BY <1>3, <2>1
      <4>2. w[index] = [moved[index] EXCEPT !.len = @ + take + moved[index + 1].len]
        BY <1>4, <2>1
      <4>3. spans[index] = [start |-> spans[index].start, at |-> spans[index].at,
                            len |-> spans[index].len]
        BY <1>2, <2>1
      <4> HIDE DEF w
      <4> QED
        BY <4>1, <4>2, <4>3
    <3> QED
      BY <1>6, <3>1 DEF Grown
  <2>4. \A i \in 1 .. n : i # index => w[i] = moved[i]
    BY <1>4
  <2>5. w \in Seq(Spans) /\ Len(w) = n
    <3>1. w = [i \in 1 .. n |-> w[i]]
      BY <1>4
    <3>2. \A i \in 1 .. n : w[i] \in Spans
      <4> HIDE DEF w
      <4> QED
        BY <1>3, <1>5, <2>3, <2>4
    <3> HIDE DEF w
    <3>3. w \in [1 .. n -> Spans]
      BY <3>1, <3>2
    <3> QED
      BY <1>1, <3>3
  <2> HIDE DEF w, q, join
  <2>6. /\ q \in Seq(Spans) /\ Len(q) = n - 1
        /\ \A i \in 1 .. index : q[i] = w[i]
        /\ \A i \in index + 2 .. n : q[i - 1] = w[i]
    <3>1. /\ q \in Seq(Spans) /\ Len(q) = Len(w) - 1
          /\ \A i \in 1 .. (index + 1) - 1 : q[i] = w[i]
          /\ \A i \in (index + 1) + 1 .. Len(w) : q[i - 1] = w[i]
      <4>1. w \in Seq(Spans) /\ index + 1 \in 1 .. Len(w)
        BY <2>1, <2>5
      <4> QED
        BY <2>2, <4>1, RemovedIs
    <3>2. (index + 1) - 1 = index /\ (index + 1) + 1 = index + 2
      BY <2>1
    <3> QED
      BY <2>5, <3>1, <3>2
  <2>7. \A i \in 1 .. index - 1 : q[i] = spans[i]
    <3> SUFFICES ASSUME NEW i \in 1 .. index - 1 PROVE q[i] = spans[i]
      OBVIOUS
    <3>1. i \in 1 .. index /\ i \in 1 .. n /\ i # index /\ i <= index
      BY <1>1
    <3> QED
      BY <1>3, <2>4, <2>6, <3>1
  <2>8. \A i \in index + 2 .. n : q[i - 1] = Up(spans[i], take)
    <3> SUFFICES ASSUME NEW i \in index + 2 .. n PROVE q[i - 1] = Up(spans[i], take)
      OBVIOUS
    <3>1. i \in 1 .. n /\ i # index /\ i > index
      BY <1>1
    <3> QED
      BY <1>3, <2>4, <2>6, <3>1
  <2>9. q[index] = join
    BY <2>1, <2>3, <2>6
  <2>10. Woven(q, spans, take, index - 1, index + 1, join)
    <3>1. index - 1 \in 0 .. n /\ index + 1 \in index - 1 .. n
      BY <1>1, <2>1
    <3>2. Len(q) = index - 1 + 1 + (n - (index + 1)) /\ index - 1 + 1 = index
      BY <1>1, <2>1, <2>6
    <3>3. ASSUME NEW i \in index + 1 + 1 .. n
          PROVE  q[i - (index + 1) + (index - 1) + 1] = Up(spans[i], take)
      <4>1. i \in index + 2 .. n /\ i - (index + 1) + (index - 1) + 1 = i - 1
        BY <1>1, <2>1
      <4> QED
        BY <2>8, <4>1
    <3> QED
      BY <1>5, <2>6, <2>7, <2>9, <3>1, <3>2, <3>3 DEF Woven, n, join
  <2> QED
    BY <1>6, <2>10 DEF q, join
<1>7. CASE mergePrevious /\ ~mergeNext
  <2>1. index \in 1 .. n
    BY <1>1, <1>7
  <2>2. q = [moved EXCEPT ![index].len = @ + take]
    BY <1>7, Zenon DEF Indexed, moved
  <2>3. q[index] = join
    <3>1. moved[index] = spans[index]
      BY <1>1, <1>3, <2>1
    <3>2. q[index] = [moved[index] EXCEPT !.len = @ + take]
      BY <1>4, <2>1, <2>2
    <3>3. q[index] = [spans[index] EXCEPT !.len = spans[index].len + take]
      BY <3>1, <3>2
    <3>4. spans[index] \in Spans
      BY <1>1, <2>1
    <3>5. q[index] = [start |-> spans[index].start, at |-> spans[index].at,
                      len |-> spans[index].len + take]
      BY <3>3, <3>4, FieldsSet
    <3>6. spans[index].len + take + 0 = spans[index].len + take
      <4>1. spans[index].len \in Nat
        BY <1>2, <2>1
      <4> QED
        BY <4>1
    <3> QED
      BY <1>7, <3>5, <3>6 DEF Grown
  <2>4. \A i \in 1 .. n : i # index => q[i] = moved[i]
    BY <1>4, <2>2
  <2>5. q \in Seq(Spans) /\ Len(q) = n
    <3>1. DOMAIN q = 1 .. n /\ q = [i \in 1 .. n |-> q[i]]
      BY <1>4, <2>2
    <3> HIDE DEF q, join
    <3>2. \A i \in 1 .. n : q[i] \in Spans
      BY <1>3, <1>5, <2>3, <2>4
    <3>3. q \in [1 .. n -> Spans]
      BY <3>1, <3>2
    <3> QED
      BY <1>1, <3>3
  <2> HIDE DEF q, join
  <2>6. \A i \in 1 .. index - 1 : q[i] = spans[i]
    <3> SUFFICES ASSUME NEW i \in 1 .. index - 1 PROVE q[i] = spans[i]
      OBVIOUS
    <3>1. i \in 1 .. n /\ i # index /\ i <= index
      BY <1>1
    <3> QED
      BY <1>3, <2>4, <3>1
  <2>7. \A i \in index + 1 .. n : q[i] = Up(spans[i], take)
    <3> SUFFICES ASSUME NEW i \in index + 1 .. n PROVE q[i] = Up(spans[i], take)
      OBVIOUS
    <3>1. i \in 1 .. n /\ i # index /\ i > index
      BY <1>1
    <3> QED
      BY <1>3, <2>4, <3>1
  <2>8. Woven(q, spans, take, index - 1, index, join)
    <3>1. index - 1 \in 0 .. n /\ index \in index - 1 .. n
      BY <1>1, <2>1
    <3>2. Len(q) = index - 1 + 1 + (n - index) /\ index - 1 + 1 = index
      BY <1>1, <2>1, <2>5
    <3>3. ASSUME NEW i \in index + 1 .. n
          PROVE  q[i - index + (index - 1) + 1] = Up(spans[i], take)
      <4>1. i - index + (index - 1) + 1 = i
        BY <1>1, <2>1
      <4> QED
        BY <2>7, <4>1
    <3> QED
      BY <1>5, <2>3, <2>5, <2>6, <3>1, <3>2, <3>3 DEF Woven, n, join
  <2> QED
    BY <1>7, <2>8 DEF q, join
<1>8. CASE ~mergePrevious /\ mergeNext
  <2>1. index + 1 \in 1 .. n
    BY <1>1, <1>8 DEF n
  <2>2. q = [moved EXCEPT ![index + 1] =
               [start |-> start, at |-> at, len |-> @.len + take]]
    BY <1>8, Zenon DEF Indexed, moved
  <2>3. q[index + 1] = join
    <3>1. moved[index + 1].len = spans[index + 1].len
      BY <1>3, <2>1
    <3>2. q[index + 1] = [start |-> start, at |-> at,
                          len |-> spans[index + 1].len + take]
      BY <1>4, <2>1, <2>2, <3>1
    <3>3. 0 + take + spans[index + 1].len = spans[index + 1].len + take
      <4>1. spans[index + 1].len \in Nat
        BY <1>2, <2>1
      <4> QED
        BY <4>1
    <3> QED
      BY <1>8, <3>2, <3>3 DEF Grown
  <2>4. \A i \in 1 .. n : i # index + 1 => q[i] = moved[i]
    BY <1>4, <2>2
  <2>5. q \in Seq(Spans) /\ Len(q) = n
    <3>1. DOMAIN q = 1 .. n /\ q = [i \in 1 .. n |-> q[i]]
      BY <1>4, <2>2
    <3> HIDE DEF q, join
    <3>2. \A i \in 1 .. n : q[i] \in Spans
      BY <1>3, <1>5, <2>3, <2>4
    <3>3. q \in [1 .. n -> Spans]
      BY <3>1, <3>2
    <3> QED
      BY <1>1, <3>3
  <2> HIDE DEF q, join
  <2>6. \A i \in 1 .. index : q[i] = spans[i]
    <3> SUFFICES ASSUME NEW i \in 1 .. index PROVE q[i] = spans[i]
      OBVIOUS
    <3>1. i \in 1 .. n /\ i # index + 1 /\ i <= index
      BY <1>1
    <3> QED
      BY <1>3, <2>4, <3>1
  <2>7. \A i \in index + 2 .. n : q[i] = Up(spans[i], take)
    <3> SUFFICES ASSUME NEW i \in index + 2 .. n PROVE q[i] = Up(spans[i], take)
      OBVIOUS
    <3>1. i \in 1 .. n /\ i # index + 1 /\ i > index
      BY <1>1
    <3> QED
      BY <1>3, <2>4, <3>1
  <2>8. Woven(q, spans, take, index, index + 1, join)
    <3>1. index \in 0 .. n /\ index + 1 \in index .. n
      BY <1>1, <2>1
    <3>2. Len(q) = index + 1 + (n - (index + 1))
      BY <1>1, <2>1, <2>5
    <3>3. ASSUME NEW i \in index + 1 + 1 .. n
          PROVE  q[i - (index + 1) + index + 1] = Up(spans[i], take)
      <4>1. i \in index + 2 .. n /\ i - (index + 1) + index + 1 = i
        BY <1>1, <2>1
      <4> QED
        BY <2>7, <4>1
    <3> QED
      BY <1>5, <2>3, <2>5, <2>6, <3>1, <3>2, <3>3 DEF Woven, n, join
  <2> QED
    BY <1>8, <2>8 DEF q, join
<1>9. CASE ~mergePrevious /\ ~mergeNext
  <2> DEFINE fresh == [start |-> start, at |-> at, len |-> take]
  <2>1. q = InsertAt(moved, index + 1, fresh)
    BY <1>9, Zenon DEF Indexed, moved
  <2>2. fresh = join
    <3>1. 0 + take + 0 = take
      OBVIOUS
    <3> QED
      BY <1>9, <3>1 DEF Grown
  <2> HIDE DEF q, join, fresh
  <2>3. /\ q \in Seq(Spans) /\ Len(q) = Len(moved) + 1
        /\ \A i \in 1 .. (index + 1) - 1 : q[i] = moved[i]
        /\ q[index + 1] = join
        /\ \A i \in index + 1 .. Len(moved) : q[i + 1] = moved[i]
    <3>1. /\ moved \in Seq(Spans) /\ index + 1 \in 1 .. Len(moved) + 1
          /\ fresh \in Spans
      BY <1>1, <1>4, <1>5, <2>2
    <3>2. /\ q \in Seq(Spans) /\ Len(q) = Len(moved) + 1
          /\ \A i \in 1 .. (index + 1) - 1 : q[i] = moved[i]
          /\ q[index + 1] = fresh
          /\ \A i \in index + 1 .. Len(moved) : q[i + 1] = moved[i]
      BY <2>1, <3>1, InsertedIs
    <3> QED
      BY <2>2, <3>2
  <2>4. \A i \in 1 .. index : q[i] = spans[i]
    <3> SUFFICES ASSUME NEW i \in 1 .. index PROVE q[i] = spans[i]
      OBVIOUS
    <3>1. i \in 1 .. n /\ i \in 1 .. (index + 1) - 1 /\ i <= index
      BY <1>1
    <3> QED
      BY <1>3, <2>3, <3>1
  <2>5. \A i \in index + 1 .. n : q[i + 1] = Up(spans[i], take)
    <3> SUFFICES ASSUME NEW i \in index + 1 .. n PROVE q[i + 1] = Up(spans[i], take)
      OBVIOUS
    <3>1. i \in 1 .. n /\ i > index
      BY <1>1
    <3> QED
      BY <1>3, <1>4, <2>3, <3>1
  <2>6. Woven(q, spans, take, index, index, join)
    <3>1. index \in 0 .. n /\ index \in index .. n
      BY <1>1
    <3>2. Len(q) = index + 1 + (n - index)
      BY <1>1, <1>4, <2>3
    <3>3. ASSUME NEW i \in index + 1 .. n
          PROVE  q[i - index + index + 1] = Up(spans[i], take)
      <4>1. i - index + index + 1 = i + 1
        BY <1>1
      <4> QED
        BY <2>5, <4>1
    <3> QED
      BY <1>5, <2>3, <2>4, <3>1, <3>2, <3>3 DEF Woven, n, join
  <2> QED
    BY <1>9, <2>6 DEF q, join
<1> QED
  BY <1>6, <1>7, <1>8, <1>9

(* The run a feed stores lies between two spans and joins those it meets.  *)
Between(st, index, start, take, at, mergePrevious, mergeNext) ==
  /\ index \in 0 .. Len(st.spans)
  /\ start \in Nat /\ take \in Nat \ {0} /\ start + take <= MaxAddr
  /\ \A i \in 1 .. index : SpanEnd(st.spans[i]) <= start
  /\ index < Len(st.spans) => start + take <= st.spans[index + 1].start
  /\ at = IF index < Len(st.spans) THEN st.spans[index + 1].at ELSE Len(st.data)
  /\ mergePrevious \in BOOLEAN
  /\ mergePrevious <=> index > 0 /\ SpanEnd(st.spans[index]) = start
  /\ mergeNext \in BOOLEAN
  /\ mergeNext <=> index < Len(st.spans) /\ start + take = st.spans[index + 1].start

(* The place found by the feed of admitted_input.rs is such a one, merged  *)
(* or not.                                                                 *)
LEMMA FedJoins ==
  ASSUME NEW st, Packed(st), NEW index, NEW start, NEW take, NEW at,
         NEW mergePrevious, NEW mergeNext,
         Between(st, index, start, take, at, mergePrevious, mergeNext)
  PROVE  /\ at \in 0 .. Len(st.data)
         /\ \A i \in DOMAIN st.spans :
              SpanEnd(st.spans[i]) <= start \/ start + take <= st.spans[i].start
         /\ Joins(st, start, take, at,
                  IF mergePrevious THEN index - 1 ELSE index,
                  IF mergeNext THEN index + 1 ELSE index,
                  Grown(st.spans, index, start, at, take, mergePrevious, mergeNext))
<1> DEFINE n == Len(st.spans)
           L == Len(st.data)
           spans == st.spans
           prev == spans[index]
           next == spans[index + 1]
           join == Grown(spans, index, start, at, take, mergePrevious, mergeNext)
           lo == IF mergePrevious THEN index - 1 ELSE index
           hi == IF mergeNext THEN index + 1 ELSE index
<1>1. /\ Index(spans) /\ Laid(spans) /\ n \in Nat /\ DOMAIN spans = 1 .. n
      /\ L \in Nat /\ index \in 0 .. n /\ index \in Int
      /\ start \in Nat /\ take \in Nat \ {0} /\ start + take <= MaxAddr
      /\ mergePrevious \in BOOLEAN /\ mergeNext \in BOOLEAN
  BY DEF Packed, Index, Between
<1>2. \A i \in 1 .. n :
        /\ spans[i].start \in Nat /\ spans[i].at \in Nat /\ spans[i].len \in Nat \ {0}
        /\ SpanEnd(spans[i]) = spans[i].start + spans[i].len
        /\ SpanEnd(spans[i]) <= MaxAddr
  BY <1>1, SpanFields
<1>3. \A i, k \in 1 .. n : i < k => SpanEnd(spans[i]) < spans[k].start
  BY <1>1 DEF Index
<1>4. \A k \in 1 .. n : \A i \in 1 .. k - 1 : spans[i].at + spans[i].len <= spans[k].at
  BY <1>1, LaidInOrder
<1>5. \A i \in 1 .. n : LaidAt(spans, i)
  BY <1>1 DEF Laid
<1>6. L = IF n = 0 THEN 0 ELSE spans[n].at + spans[n].len
  <2>1. spans = <<>> <=> n = 0
    BY <1>1 DEF Index
  <2> QED
    BY <2>1 DEF Packed
<1>7. \A i \in 1 .. index : SpanEnd(spans[i]) <= start
  BY DEF Between
<1>8. /\ index < n => start + take <= next.start
      /\ at = IF index < n THEN next.at ELSE L
      /\ mergePrevious <=> index > 0 /\ SpanEnd(prev) = start
      /\ mergeNext <=> index < n /\ start + take = next.start
  BY DEF Between
<1>9. MaxAddr \in Nat
  BY Addresses
<1> HIDE DEF spans, n, L
<1>10. /\ index > 0 => /\ index \in 1 .. n
                       /\ prev.start \in Nat /\ prev.at \in Nat /\ prev.len \in Nat \ {0}
                       /\ SpanEnd(prev) = prev.start + prev.len
       /\ index < n => /\ index + 1 \in 1 .. n
                       /\ next.start \in Nat /\ next.at \in Nat /\ next.len \in Nat \ {0}
                       /\ SpanEnd(next) = next.start + next.len
                       /\ SpanEnd(next) <= MaxAddr
  <2>1. index > 0 => index \in 1 .. n
    BY <1>1
  <2>2. index < n => index + 1 \in 1 .. n
    BY <1>1
  <2> QED
    BY <1>2, <2>1, <2>2
<1>11. at = IF index = 0 THEN 0 ELSE prev.at + prev.len
  <2>1. CASE index < n
    <3>1. next.at = IF index + 1 = 1 THEN 0
                    ELSE spans[index + 1 - 1].at + spans[index + 1 - 1].len
      <4>1. index + 1 \in 1 .. n
        BY <1>10, <2>1
      <4>2. LaidAt(spans, index + 1)
        BY <1>5, <4>1
      <4> QED
        BY <1>1, <4>1, <4>2 DEF LaidAt
    <3>2. index + 1 - 1 = index /\ (index + 1 = 1 <=> index = 0)
      BY <1>1
    <3> QED
      BY <1>8, <2>1, <3>1, <3>2
  <2>2. CASE ~(index < n)
    <3>1. index = n
      BY <1>1, <2>2
    <3> QED
      BY <1>6, <1>8, <2>2, <3>1
  <2> QED
    BY <2>1, <2>2
<1>12. at \in Nat
  <2>1. index # 0 => index > 0
    BY <1>1
  <2> QED
    BY <1>10, <1>11, <2>1
<1>13. at <= L
  <2>1. CASE index < n
    <3>1. next.at <= L
      <4>1. n \in 1 .. n /\ n # 0
        BY <1>1, <2>1
      <4>2. spans[n].at \in Nat /\ spans[n].len \in Nat
        BY <1>2, <4>1
      <4>3. CASE index + 1 = n
        BY <1>6, <4>1, <4>2, <4>3
      <4>4. CASE index + 1 # n
        <5>1. index + 1 \in 1 .. n - 1
          BY <1>1, <2>1, <4>4
        <5>2. next.at + next.len <= spans[n].at
          BY <1>4, <4>1, <5>1
        <5>3. L = spans[n].at + spans[n].len
          BY <1>6, <4>1
        <5>4. next.at \in Nat /\ next.len \in Nat
          BY <1>10, <2>1
        <5> HIDE DEF next
        <5> QED
          BY <4>2, <5>2, <5>3, <5>4
      <4> QED
        BY <4>3, <4>4
    <3> QED
      BY <1>8, <2>1, <3>1
  <2>2. CASE ~(index < n)
    BY <1>1, <1>8, <2>2
  <2> QED
    BY <2>1, <2>2
<1>14. \A i \in index + 1 .. n : start + take <= spans[i].start /\ at <= spans[i].at
  <2> SUFFICES ASSUME NEW i \in index + 1 .. n
               PROVE  start + take <= spans[i].start /\ at <= spans[i].at
    OBVIOUS
  <2>1. index < n /\ i \in 1 .. n /\ index + 1 \in 1 .. n
    BY <1>1
  <2>2. CASE i = index + 1
    BY <1>8, <1>10, <2>1, <2>2
  <2>3. CASE i # index + 1
    <3>1. index + 1 < i /\ index + 1 \in 1 .. i - 1
      BY <1>1, <2>1, <2>3
    <3>2. SpanEnd(next) < spans[i].start /\ next.at + next.len <= spans[i].at
      BY <1>3, <1>4, <2>1, <3>1
    <3>3. spans[i].start \in Nat /\ spans[i].at \in Nat
      BY <1>2, <2>1
    <3>4. /\ next.start \in Nat /\ next.at \in Nat /\ next.len \in Nat
          /\ SpanEnd(next) = next.start + next.len
          /\ start + take <= next.start /\ at = next.at
      BY <1>8, <1>10, <2>1
    <3> HIDE DEF next
    <3> QED
      BY <1>1, <3>2, <3>3, <3>4, SMTT(60)
  <2> QED
    BY <2>2, <2>3
<1>15. \A i \in 1 .. index : spans[i].at + spans[i].len <= at
  <2> SUFFICES ASSUME NEW i \in 1 .. index PROVE spans[i].at + spans[i].len <= at
    OBVIOUS
  <2>1. i \in 1 .. n /\ index \in 1 .. n /\ index > 0
    BY <1>1
  <2>2. CASE i = index
    BY <1>10, <1>11, <2>1, <2>2
  <2>3. CASE i # index
    <3>1. i \in 1 .. index - 1
      BY <1>1, <2>3
    <3>2. spans[i].at + spans[i].len <= prev.at
      BY <1>4, <2>1, <3>1
    <3>3. spans[i].at \in Nat /\ spans[i].len \in Nat
      BY <1>2, <2>1
    <3>4. /\ prev.at \in Nat /\ prev.len \in Nat /\ at = prev.at + prev.len
      BY <1>10, <1>11, <2>1
    <3> HIDE DEF prev
    <3> QED
      BY <3>2, <3>3, <3>4
  <2> QED
    BY <2>2, <2>3
<1>16. \A i \in 1 .. n : SpanEnd(spans[i]) <= start \/ start + take <= spans[i].start
  <2>1. \A i \in 1 .. n : i \in 1 .. index \/ i \in index + 1 .. n
    BY <1>1
  <2> QED
    BY <1>7, <1>14, <2>1
<1>17. /\ lo \in Nat /\ hi \in Nat /\ lo <= n /\ hi <= n
       /\ lo = IF mergePrevious THEN index - 1 ELSE index
       /\ hi = IF mergeNext THEN index + 1 ELSE index
  BY <1>1, <1>8
<1>18. /\ join.start = IF mergePrevious THEN prev.start ELSE start
       /\ join.at = IF mergePrevious THEN prev.at ELSE at
       /\ join.len = (IF mergePrevious THEN prev.len ELSE 0) + take
                       + (IF mergeNext THEN next.len ELSE 0)
  BY DEF Grown
<1>19. ASSUME mergePrevious
       PROVE  /\ index \in 1 .. n /\ index > 0 /\ lo = index - 1
              /\ prev.start \in Nat /\ prev.at \in Nat /\ prev.len \in Nat \ {0}
              /\ SpanEnd(prev) = start /\ prev.start + prev.len = start
              /\ at = prev.at + prev.len
              /\ join.start = prev.start /\ join.at = prev.at
  <2>1. index > 0 /\ SpanEnd(prev) = start
    BY <1>8, <1>19
  <2>2. /\ index \in 1 .. n /\ SpanEnd(prev) = prev.start + prev.len
        /\ prev.start \in Nat /\ prev.at \in Nat /\ prev.len \in Nat \ {0}
    BY <1>10, <2>1
  <2>3. at = prev.at + prev.len
    BY <1>1, <1>11, <2>1
  <2> QED
    BY <1>17, <1>18, <1>19, <2>1, <2>2, <2>3
<1>20. ASSUME ~mergePrevious
       PROVE  /\ lo = index /\ join.start = start /\ join.at = at
              /\ index > 0 => SpanEnd(prev) < start
  <2>1. index > 0 => SpanEnd(prev) < start
    <3> SUFFICES ASSUME index > 0 PROVE SpanEnd(prev) < start
      OBVIOUS
    <3>1. index \in 1 .. index
      BY <1>1
    <3>2. SpanEnd(prev) <= start /\ SpanEnd(prev) # start /\ SpanEnd(prev) \in Nat
      BY <1>7, <1>8, <1>10, <1>20, <3>1
    <3> QED
      BY <1>1, <3>2
  <2> QED
    BY <1>17, <1>18, <1>20, <2>1
<1>21. ASSUME mergeNext
       PROVE  /\ index + 1 \in 1 .. n /\ index < n /\ hi = index + 1
              /\ next.start \in Nat /\ next.at \in Nat /\ next.len \in Nat \ {0}
              /\ SpanEnd(next) = next.start + next.len /\ SpanEnd(next) <= MaxAddr
              /\ next.start = start + take /\ at = next.at
  BY <1>8, <1>10, <1>17, <1>21
<1>22. ASSUME ~mergeNext
       PROVE  /\ hi = index
              /\ index < n => start + take < next.start
  <2>1. index < n => start + take < next.start
    <3> SUFFICES ASSUME index < n PROVE start + take < next.start
      OBVIOUS
    <3>1. start + take <= next.start /\ start + take # next.start /\ next.start \in Nat
      BY <1>8, <1>10, <1>22
    <3> QED
      BY <1>1, <3>1
  <2> QED
    BY <1>17, <1>22, <2>1
<1> DEFINE before == IF mergePrevious THEN prev.len ELSE 0
           behind == IF mergeNext THEN next.len ELSE 0
<1>23. /\ before \in Nat /\ behind \in Nat
       /\ join.start \in Nat /\ join.at \in Nat
       /\ join.start + before = start /\ join.at + before = at
       /\ join.len = before + take + behind
  <2>1. behind \in Nat
    BY <1>21
  <2>2. join.len = before + take + behind
    BY <1>18
  <2>3. CASE mergePrevious
    <3>1. before = prev.len
      BY <2>3
    <3> QED
      BY <1>19, <2>1, <2>2, <2>3, <3>1
  <2>4. CASE ~mergePrevious
    <3>1. before = 0
      BY <2>4
    <3> QED
      BY <1>1, <1>12, <1>20, <2>1, <2>2, <2>4, <3>1
  <2> QED
    BY <2>3, <2>4
<1>24. /\ mergeNext => start + take + behind = SpanEnd(next) /\ behind = next.len
       /\ ~mergeNext => behind = 0
  BY <1>1, <1>21
<1> HIDE DEF before, behind, join, lo, hi, prev, next
<1>25. /\ join.start <= start /\ start + take <= join.start + join.len
       /\ join.at + start = at + join.start
       /\ join.start + join.len = start + take + behind
       /\ join.at + join.len = at + take + behind
       /\ join.start + join.len \in Nat /\ join.len \in Nat
  <2>1. take \in Nat /\ start \in Nat
    BY <1>1
  <2>2. join.start <= start
    BY <1>23, <2>1
  <2>3. join.at + start = at + join.start
    BY <1>12, <1>23, <2>1
  <2>4. join.start + join.len = start + take + behind
    BY <1>23, <2>1
  <2>5. join.at + join.len = at + take + behind
    BY SMTT(60), <1>12, <1>23, <2>1
  <2>6. join.len \in Nat
    BY <1>23, <2>1
  <2> QED
    BY <1>23, <2>1, <2>2, <2>3, <2>4, <2>5, <2>6
<1>26. join.start + join.len <= MaxAddr
  BY <1>1, <1>9, <1>21, <1>22, <1>24, <1>25
<1>27. join.at = IF lo = 0 THEN 0 ELSE spans[lo].at + spans[lo].len
  <2>1. CASE mergePrevious
    <3>1. index \in 1 .. n /\ lo = index - 1 /\ join.at = prev.at
      BY <1>19, <2>1
    <3>2. LaidAt(spans, index)
      BY <1>5, <3>1
    <3>3. index = 1 <=> lo = 0
      BY <3>1
    <3> QED
      BY <3>1, <3>2, <3>3 DEF LaidAt, prev
  <2>2. CASE ~mergePrevious
    BY <1>11, <1>20, <2>2 DEF prev
  <2> QED
    BY <2>1, <2>2
<1>28. join.at + join.len = IF hi = n THEN L + take ELSE spans[hi + 1].at + take
  <2>1. CASE mergeNext
    <3>1. hi = index + 1 /\ hi \in 1 .. n /\ behind = next.len /\ at = next.at
      BY <1>21, <1>24, <2>1
    <3>2. next.at \in Nat /\ next.len \in Nat
      BY <1>21, <2>1
    <3>3. CASE hi = n
      <4>1. L = next.at + next.len
        BY <1>1, <1>6, <3>1, <3>3 DEF next
      <4> QED
        BY <1>1, <1>25, <3>1, <3>2, <3>3, <4>1
    <3>4. CASE hi # n
      <4>1. hi + 1 \in 1 .. n /\ hi + 1 # 1 /\ hi + 1 - 1 = hi
        BY <1>1, <3>1, <3>4
      <4>2. spans[hi + 1].at = spans[hi + 1 - 1].at + spans[hi + 1 - 1].len
        <5>1. LaidAt(spans, hi + 1)
          BY <1>5, <4>1
        <5> QED
          BY <1>1, <3>1, <4>1, <5>1 DEF LaidAt
      <4>3. spans[hi + 1].at = next.at + next.len
        BY <3>1, <4>1, <4>2 DEF next
      <4> QED
        BY <1>1, <1>25, <3>1, <3>2, <3>4, <4>3
    <3> QED
      BY <3>3, <3>4
  <2>2. CASE ~mergeNext
    <3>1. hi = index /\ behind = 0 /\ join.at + join.len = at + take
      BY <1>1, <1>12, <1>22, <1>24, <1>25, <2>2
    <3>2. at = IF index = n THEN L ELSE spans[index + 1].at
      BY <1>1, <1>8 DEF next
    <3> QED
      BY <3>1, <3>2
  <2> QED
    BY <2>1, <2>2
<1>29. \A i \in 1 .. lo : SpanEnd(spans[i]) < join.start /\ spans[i].at + spans[i].len <= at
  <2> SUFFICES ASSUME NEW i \in 1 .. lo
               PROVE  SpanEnd(spans[i]) < join.start /\ spans[i].at + spans[i].len <= at
    OBVIOUS
  <2>1. i \in 1 .. index /\ i \in 1 .. n
    BY <1>1, <1>17
  <2>2. spans[i].at + spans[i].len <= at
    BY <1>15, <2>1
  <2>3. CASE mergePrevious
    <3>1. i < index /\ index \in 1 .. n
      BY <1>19, <2>1, <2>3
    <3>2. SpanEnd(spans[i]) < prev.start
      BY <1>3, <2>1, <3>1 DEF prev
    <3> QED
      BY <1>19, <2>2, <2>3, <3>2
  <2>4. CASE ~mergePrevious /\ i = index
    <3>1. index > 0
      BY <2>1, <2>4
    <3> QED
      BY <1>20, <2>2, <2>4, <3>1 DEF prev
  <2>5. CASE ~mergePrevious /\ i # index
    <3>1. i < index /\ index \in 1 .. n /\ index > 0
      BY <1>1, <2>1, <2>5
    <3>2. SpanEnd(spans[i]) < prev.start /\ SpanEnd(prev) < start
      BY <1>3, <1>20, <2>1, <2>5, <3>1 DEF prev
    <3>3. SpanEnd(prev) = prev.start + prev.len /\ prev.start \in Nat /\ prev.len \in Nat
      BY <1>10, <3>1
    <3>4. SpanEnd(spans[i]) \in Nat
      <4>1. spans[i].start \in Nat /\ spans[i].len \in Nat
            /\ SpanEnd(spans[i]) = spans[i].start + spans[i].len
        BY <1>2, <2>1
      <4> QED
        BY <4>1
    <3>5. SpanEnd(spans[i]) < start
      BY <1>1, <3>2, <3>3, <3>4
    <3> QED
      BY <1>20, <2>2, <2>5, <3>5
  <2> QED
    BY <2>3, <2>4, <2>5
<1>30. \A i \in hi + 1 .. n : join.start + join.len < spans[i].start /\ at <= spans[i].at
  <2> SUFFICES ASSUME NEW i \in hi + 1 .. n
               PROVE  join.start + join.len < spans[i].start /\ at <= spans[i].at
    OBVIOUS
  <2>1. i \in index + 1 .. n /\ i \in 1 .. n /\ index < n
    BY <1>1, <1>17
  <2>2. at <= spans[i].at
    BY <1>14, <2>1
  <2>3. CASE mergeNext
    <3>1. index + 1 < i /\ index + 1 \in 1 .. n
      BY <1>1, <1>21, <2>3
    <3>2. SpanEnd(next) < spans[i].start
      BY <1>3, <2>1, <3>1 DEF next
    <3> QED
      BY <1>24, <1>25, <2>2, <2>3, <3>2
  <2>4. CASE ~mergeNext
    <3>1. join.start + join.len = start + take /\ start + take < next.start
      BY <1>1, <1>22, <1>24, <1>25, <2>1, <2>4
    <3>2. CASE i = index + 1
      BY <2>2, <3>1, <3>2 DEF next
    <3>3. CASE i # index + 1
      <4>1. index + 1 < i /\ index + 1 \in 1 .. n
        BY <1>1, <2>1, <3>3
      <4>2. SpanEnd(next) < spans[i].start
        BY <1>3, <2>1, <4>1 DEF next
      <4>3. /\ SpanEnd(next) = next.start + next.len /\ next.start \in Nat /\ next.len \in Nat
            /\ spans[i].start \in Nat
        BY <1>2, <1>10, <2>1
      <4> QED
        BY SMTT(30), <1>1, <1>25, <2>2, <3>1, <4>2, <4>3
    <3> QED
      BY <3>2, <3>3
  <2> QED
    BY <2>3, <2>4
<1>31. \A i \in lo + 1 .. hi : /\ join.start <= spans[i].start
                               /\ SpanEnd(spans[i]) <= join.start + join.len
  <2> SUFFICES ASSUME NEW i \in lo + 1 .. hi
               PROVE  join.start <= spans[i].start /\ SpanEnd(spans[i]) <= join.start + join.len
    OBVIOUS
  <2>1. CASE mergePrevious /\ i = index
    <3>1. join.start = prev.start /\ SpanEnd(prev) = start /\ prev.start \in Nat
      BY <1>19, <2>1
    <3>2. spans[i] = prev
      BY <2>1 DEF prev
    <3> QED
      BY <1>1, <1>25, <3>1, <3>2
  <2>2. CASE mergeNext /\ i = index + 1
    <3>1. /\ next.start = start + take /\ SpanEnd(next) = join.start + join.len
          /\ SpanEnd(next) = next.start + next.len /\ next.start \in Nat /\ next.len \in Nat
      BY <1>21, <1>24, <1>25, <2>2
    <3>2. spans[i] = next
      BY <2>2 DEF next
    <3>3. join.start <= next.start
      BY SMTT(60), <1>1, <1>23, <1>25, <3>1
    <3> QED
      BY <1>1, <1>23, <1>25, <3>1, <3>2, <3>3
  <2>3. (mergePrevious /\ i = index) \/ (mergeNext /\ i = index + 1)
    <3>1. i \in Int /\ lo + 1 <= i /\ i <= hi
      BY <1>17
    <3>2. mergePrevious => lo = index - 1
      BY <1>17
    <3>3. ~mergePrevious => lo = index
      BY <1>17
    <3>4. mergeNext => hi = index + 1
      BY <1>17
    <3>5. ~mergeNext => hi = index
      BY <1>17
    <3>6. ~mergePrevious => i # index
      BY <1>1, <3>1, <3>3
    <3>7. ~mergeNext => i # index + 1
      BY <1>1, <3>1, <3>5
    <3>8. i = index \/ i = index + 1
      <4>1. lo + 1 >= index /\ hi <= index + 1
        BY <1>1, <3>2, <3>3, <3>4, <3>5
      <4> QED
        BY <1>1, <1>17, <3>1, <4>1
    <3> QED
      BY <3>6, <3>7, <3>8
  <2> QED
    BY <2>1, <2>2, <2>3
<1>32. ASSUME NEW p \in Int, join.start <= p, p < start
       PROVE  \E i \in 1 .. n : /\ Covers(spans[i], p) /\ spans[i].at + spans[i].len <= at
                                /\ spans[i].at + join.start = join.at + spans[i].start
  <2>1. CASE mergePrevious
    <3>1. /\ index \in 1 .. n /\ join.start = prev.start /\ SpanEnd(prev) = start
          /\ join.at = prev.at
      BY <1>19, <2>1
    <3>2. Covers(prev, p) /\ prev.at + join.start = join.at + prev.start
      BY <1>32, <3>1 DEF Covers
    <3>3. prev.at + prev.len <= at
      <4>1. index \in 1 .. index
        BY <3>1
      <4> QED
        BY <1>15, <4>1 DEF prev
    <3> QED
      BY <3>1, <3>2, <3>3 DEF prev
  <2>2. CASE ~mergePrevious
    BY <1>1, <1>20, <1>32, <2>2
  <2> QED
    BY <2>1, <2>2
<1>33. ASSUME NEW p \in Int, start + take <= p, p < join.start + join.len
       PROVE  \E i \in 1 .. n : /\ Covers(spans[i], p) /\ at <= spans[i].at
                                /\ spans[i].at + take + join.start = join.at + spans[i].start
  <2>1. CASE mergeNext
    <3>1. /\ index + 1 \in 1 .. n /\ next.start = start + take
          /\ SpanEnd(next) = join.start + join.len /\ at = next.at /\ next.at \in Nat
      BY <1>21, <1>24, <1>25, <2>1
    <3>2. Covers(next, p) /\ at <= next.at
      BY <1>33, <3>1 DEF Covers
    <3>3. next.at + take + join.start = join.at + next.start
      <4>1. join.at + start = at + join.start /\ join.at \in Nat /\ join.start \in Nat
        BY <1>23, <1>25
      <4> QED
        BY SMTT(60), <1>1, <3>1, <4>1
    <3> QED
      BY <3>1, <3>2, <3>3 DEF next
  <2>2. CASE ~mergeNext
    <3>1. join.start + join.len = start + take
      BY <1>1, <1>24, <1>25, <2>2
    <3> QED
      BY <1>1, <1>33, <3>1
  <2> QED
    BY <2>1, <2>2
<1>34. Joins(st, start, take, at, lo, hi, join)
  BY <1>1, <1>25, <1>26, <1>27, <1>28, <1>29, <1>30, <1>31, <1>32, <1>33
     DEF Joins, spans, n, L
<1>35. at \in 0 .. L
  BY <1>1, <1>12, <1>13
<1> QED
  BY <1>1, <1>16, <1>34, <1>35 DEF spans, n, L, lo, hi, join

(* The spans in front of an uncovered offset, and the one behind it.       *)
LEMMA FeedIndex ==
  ASSUME NEW st, Packed(st), NEW start \in Nat, ~CoversAt(st, start)
  PROVE  LET spans == st.spans
             index == Cardinality({i \in DOMAIN spans : spans[i].start < start})
         IN /\ index \in 0 .. Len(spans)
            /\ \A i \in 1 .. index : SpanEnd(spans[i]) <= start
            /\ \A i \in index + 1 .. Len(spans) : start < spans[i].start
<1> DEFINE spans == st.spans
           n == Len(spans)
           S == {i \in DOMAIN spans : spans[i].start < start}
           index == Cardinality(S)
<1>1. Index(spans) /\ n \in Nat /\ DOMAIN spans = 1 .. n
  BY DEF Packed, Index
<1>2. \A i \in 1 .. n :
        /\ spans[i].start \in Nat /\ spans[i].len \in Nat \ {0}
        /\ SpanEnd(spans[i]) = spans[i].start + spans[i].len
        /\ SpanEnd(spans[i]) \in Nat
  BY <1>1, SpanFields
<1>3. \A i, k \in 1 .. n : i < k => SpanEnd(spans[i]) < spans[k].start
  BY <1>1 DEF Index
<1>4. \A i \in 1 .. n : SpanEnd(spans[i]) <= start \/ start < spans[i].start
  <2>1. \A i \in 1 .. n : ~Covers(spans[i], start)
    <3>1. start \in Int
      OBVIOUS
    <3>2. CoversAt(st, start) <=> \E i \in DOMAIN st.spans : Covers(st.spans[i], start)
      BY <3>1, PackedByteIs
    <3> QED
      BY <1>1, <3>2
  <2> QED
    BY <1>2, <2>1 DEF Covers
<1> HIDE DEF n, spans
<1>5. S \in SUBSET (1 .. n)
  BY <1>1
<1>6. ASSUME NEW i \in S, NEW j \in 1 .. i PROVE j \in S
  <2>1. i \in 1 .. n /\ spans[i].start < start /\ j \in 1 .. n
    BY <1>1
  <2>2. CASE j = i
    BY <2>2
  <2>3. CASE j # i
    <3>1. SpanEnd(spans[j]) < spans[i].start
      BY <1>3, <2>1, <2>3
    <3>2. spans[j].start < start
      <4>1. /\ spans[j].start \in Nat /\ spans[j].len \in Nat /\ spans[i].start \in Nat
            /\ SpanEnd(spans[j]) = spans[j].start + spans[j].len
        BY <1>2, <2>1
      <4> QED
        BY <2>1, <3>1, <4>1
    <3> QED
      BY <1>1, <2>1, <3>2
  <2> QED
    BY <2>2, <2>3
<1>7. index \in 0 .. n /\ S = 1 .. index
  <2> HIDE DEF S
  <2>1. \A i \in S : \A j \in 1 .. i : j \in S
    BY <1>6
  <2> QED
    BY <1>1, <1>5, <2>1, FirstOnes
<1>8. ASSUME NEW i \in 1 .. index PROVE SpanEnd(spans[i]) <= start
  <2>1. i \in S
    BY <1>7
  <2>2. i \in 1 .. n /\ spans[i].start < start
    BY <1>1, <2>1
  <2>3. spans[i].start \in Nat
    BY <1>2, <2>2
  <2> QED
    BY <1>4, <2>2, <2>3
<1>9. ASSUME NEW i \in index + 1 .. n PROVE start < spans[i].start
  <2>1. i \in 1 .. n /\ i \notin 1 .. index
    BY <1>1, <1>7
  <2>2. ~(spans[i].start < start)
    BY <1>1, <1>7, <2>1
  <2>3. /\ spans[i].start \in Nat /\ spans[i].len \in Nat \ {0}
        /\ SpanEnd(spans[i]) = spans[i].start + spans[i].len
    BY <1>2, <2>1
  <2> QED
    BY <1>4, <2>1, <2>2, <2>3
<1> HIDE DEF index
<1>10. /\ index \in 0 .. n
       /\ \A i \in 1 .. index : SpanEnd(spans[i]) <= start
       /\ \A i \in index + 1 .. n : start < spans[i].start
  BY <1>7, <1>8, <1>9
<1> QED
  BY <1>10 DEF index, S, spans, n

(* The least of a bounded set, or the bound.                               *)
LEMMA LeastOrIs ==
  ASSUME NEW S \in SUBSET Nat, NEW d \in Nat
  PROVE  /\ S = {} => LeastOr(S, d) = d
         /\ S # {} => LeastOr(S, d) \in S /\ \A y \in S : LeastOr(S, d) <= y
         /\ LeastOr(S, d) \in Nat
BY LeastIs DEF LeastOr

(* Up to where a fed run may reach: the first offset held behind it.       *)
LEMMA RunReaches ==
  ASSUME NEW st, Packed(st), NEW start \in Nat, NEW end \in Nat, start < end,
         ~CoversAt(st, start)
  PROVE  LET spans == st.spans
             index == Cardinality({i \in DOMAIN spans : spans[i].start < start})
             stop  == LeastOr({p \in start .. end - 1 : CoversAt(st, p)}, end)
         IN stop - start = IF index < Len(spans)
                           THEN Least(spans[index + 1].start - start, end - start)
                           ELSE end - start
<1> DEFINE spans == st.spans
           n == Len(spans)
           index == Cardinality({i \in DOMAIN spans : spans[i].start < start})
           H == {p \in start .. end - 1 : CoversAt(st, p)}
           stop == LeastOr(H, end)
<1>1. Index(spans) /\ n \in Nat /\ DOMAIN spans = 1 .. n
  BY DEF Packed, Index
<1>2. \A i \in 1 .. n :
        /\ spans[i].start \in Nat /\ spans[i].len \in Nat \ {0}
        /\ SpanEnd(spans[i]) = spans[i].start + spans[i].len
  BY <1>1, SpanFields
<1>3. \A i, k \in 1 .. n : i < k => SpanEnd(spans[i]) < spans[k].start
  BY <1>1 DEF Index
<1>4. /\ index \in 0 .. n
      /\ \A i \in 1 .. index : SpanEnd(spans[i]) <= start
      /\ \A i \in index + 1 .. n : start < spans[i].start
  BY FeedIndex
<1>5. H \in SUBSET Nat
  OBVIOUS
<1>6. ASSUME NEW p \in Int PROVE CoversAt(st, p) <=> \E i \in 1 .. n : Covers(spans[i], p)
  BY <1>1, PackedByteIs
<1> HIDE DEF spans, n, index
<1>7. /\ H = {} => stop = end
      /\ H # {} => stop \in H /\ \A y \in H : stop <= y
  <2> HIDE DEF H
  <2> QED
    BY <1>5, LeastOrIs
<1>8. ASSUME index < n
      PROVE  stop - start = Least(spans[index + 1].start - start, end - start)
  <2> DEFINE next == spans[index + 1].start
  <2>1. index + 1 \in 1 .. n /\ index + 1 \in index + 1 .. n
    BY <1>1, <1>4, <1>8
  <2>2. next \in Nat /\ start < next /\ Covers(spans[index + 1], next)
    BY <1>2, <1>4, <2>1 DEF Covers
  <2>3. ASSUME NEW p \in H PROVE next <= p
    <3>1. p \in Int /\ start <= p
      OBVIOUS
    <3>2. PICK i \in 1 .. n : Covers(spans[i], p)
      BY <1>6, <3>1
    <3>3. spans[i].start <= p /\ p < SpanEnd(spans[i])
      BY <3>2 DEF Covers
    <3>4. i \in index + 1 .. n
      <4>1. SpanEnd(spans[i]) \in Nat
        <5>1. spans[i].start \in Nat /\ spans[i].len \in Nat
              /\ SpanEnd(spans[i]) = spans[i].start + spans[i].len
          BY <1>2
        <5> QED
          BY <5>1
      <4>2. i \notin 1 .. index
        BY <1>4, <3>1, <3>3, <4>1
      <4> QED
        BY <1>1, <1>4, <4>2
    <3>5. CASE i = index + 1
      BY <3>3, <3>5
    <3>6. CASE i # index + 1
      <4>1. index + 1 < i
        BY <1>1, <1>4, <3>4, <3>6
      <4>2. SpanEnd(spans[index + 1]) < spans[i].start
        BY <1>3, <2>1, <4>1
      <4>3. /\ spans[index + 1].len \in Nat /\ spans[i].start \in Nat
            /\ SpanEnd(spans[index + 1]) = next + spans[index + 1].len
        BY <1>2, <2>1
      <4> HIDE DEF next
      <4> QED
        BY <2>2, <3>1, <3>3, <4>2, <4>3
    <3> QED
      BY <3>5, <3>6
  <2>4. CASE next < end
    <3>1. next \in H
      <4>1. CoversAt(st, next)
        BY <1>6, <2>1, <2>2
      <4> HIDE DEF next
      <4> QED
        BY <2>2, <2>4, <4>1
    <3>2. stop \in H /\ stop <= next /\ next <= stop /\ stop \in Nat
      BY <1>5, <1>7, <2>3, <3>1
    <3>3. stop = next
      <4> HIDE DEF next, stop
      <4> QED
        BY <2>2, <3>2
    <3> HIDE DEF next, stop
    <3>4. stop - start = Least(next - start, end - start)
      BY <2>2, <2>4, <3>3 DEF Least
    <3> QED
      BY <1>8, <3>4 DEF next
  <2>5. CASE ~(next < end)
    <3>1. H = {}
      <4> SUFFICES ASSUME NEW p \in H PROVE FALSE
        OBVIOUS
      <4>1. p \in Int /\ p < end /\ next <= p
        BY <2>3
      <4> HIDE DEF next, H
      <4> QED
        BY <2>2, <2>5, <4>1
    <3> HIDE DEF next, stop
    <3>2. stop - start = Least(next - start, end - start)
      BY <1>7, <2>2, <2>5, <3>1 DEF Least
    <3> QED
      BY <1>8, <3>2 DEF next
  <2> QED
    BY <2>4, <2>5
<1>9. ASSUME ~(index < n) PROVE stop - start = end - start
  <2>1. index = n
    BY <1>1, <1>4, <1>9
  <2>2. H = {}
    <3> SUFFICES ASSUME NEW p \in H PROVE FALSE
      OBVIOUS
    <3>1. p \in Int /\ start <= p
      OBVIOUS
    <3>2. PICK i \in 1 .. n : Covers(spans[i], p)
      BY <1>6, <3>1
    <3>3. p < SpanEnd(spans[i]) /\ SpanEnd(spans[i]) <= start
      BY <1>4, <2>1, <3>2 DEF Covers
    <3>4. SpanEnd(spans[i]) \in Nat
      <4>1. spans[i].start \in Nat /\ spans[i].len \in Nat
            /\ SpanEnd(spans[i]) = spans[i].start + spans[i].len
        BY <1>2
      <4> QED
        BY <4>1
    <3> QED
      BY <3>1, <3>3, <3>4
  <2> QED
    BY <1>7, <1>9, <2>2
<1>10. stop - start = IF index < n THEN Least(spans[index + 1].start - start, end - start)
                      ELSE end - start
  BY <1>8, <1>9
<1> QED
  BY <1>10 DEF spans, n, index

(* What a feed of o .. e - 1 stores: from the first offset not held, up to *)
(* the next one held or until the payload is full.                         *)
FirstFree(st, o, e) == LeastOr({p \in o .. e - 1 : ~CoversAt(st, p)}, e)
NextHeld(st, start, e) == LeastOr({p \in start .. e - 1 : CoversAt(st, p)}, e)
Takes(st, start, e) == Least(NextHeld(st, start, e) - start, Cap - Len(st.data))

(* The first offset not held lies in what is fed, or at its end.           *)
LEMMA FreeIs ==
  ASSUME NEW st, NEW o \in Nat, NEW e \in Nat, o <= e
  PROVE  LET start == FirstFree(st, o, e)
         IN /\ start \in o .. e /\ start \in Nat
            /\ start # e => ~CoversAt(st, start)
<1> DEFINE F == {p \in o .. e - 1 : ~CoversAt(st, p)}
           start == LeastOr(F, e)
<1>1. F \in SUBSET Nat
  OBVIOUS
<1>2. F = {} => start = e
  <2> HIDE DEF F
  <2> QED
    BY <1>1, LeastOrIs
<1>3. F # {} => start \in F
  <2> HIDE DEF F
  <2> QED
    BY <1>1, LeastOrIs
<1> HIDE DEF start
<1>4. CASE F = {}
  <2>1. start = e
    BY <1>2, <1>4
  <2> QED
    BY <2>1 DEF FirstFree, start
<1>5. CASE F # {}
  <2>1. start \in o .. e - 1 /\ ~CoversAt(st, start)
    BY <1>3, <1>5
  <2>2. start \in o .. e /\ start \in Nat
    BY <2>1
  <2> QED
    BY <2>1, <2>2 DEF FirstFree, start
<1> QED
  BY <1>4, <1>5

(* So does the next one held.                                              *)
LEMMA HeldIs ==
  ASSUME NEW st, NEW start \in Nat, NEW e \in Nat, start <= e
  PROVE  NextHeld(st, start, e) \in start .. e
<1> DEFINE F == {p \in start .. e - 1 : CoversAt(st, p)}
           stop == LeastOr(F, e)
<1>1. F \in SUBSET Nat
  OBVIOUS
<1>2. F = {} => stop = e
  <2> HIDE DEF F
  <2> QED
    BY <1>1, LeastOrIs
<1>3. F # {} => stop \in F
  <2> HIDE DEF F
  <2> QED
    BY <1>1, LeastOrIs
<1> HIDE DEF stop
<1>4. stop \in start .. e
  BY <1>2, <1>3
<1> QED
  BY <1>4 DEF NextHeld, stop

(* The bytes of a chunk.                                                   *)
Chunk(o, n, v, skip, take) == SubSeq(Payload(o, n, v), skip + 1, skip + take)

(* The chunk holds the bytes of its offsets.                               *)
LEMMA PayloadIs ==
  ASSUME NEW o \in Nat, NEW n \in Nat, o + n <= MaxAddr, NEW v \in Versions,
         NEW skip \in Nat, NEW take \in Nat, skip + take <= n
  PROVE  LET new == Chunk(o, n, v, skip, take)
         IN /\ Len(Payload(o, n, v)) = n
            /\ new \in Seq(Bytes) /\ Len(new) = take
            /\ \A j \in 1 .. take : new[j] = <<o + skip + j - 1, v>>
<1> DEFINE b == Payload(o, n, v)
           new == SubSeq(b, skip + 1, skip + take)
<1>1. MaxAddr \in Nat
  BY Addresses
<1>2. \A j \in 1 .. n : b[j] = <<o + j - 1, v>> /\ b[j] \in Bytes
  BY <1>1 DEF Payload, Bytes, Positions
<1>3. b \in Seq(Bytes) /\ Len(b) = n
  <2>1. b = [j \in 1 .. n |-> b[j]]
    BY DEF Payload
  <2> HIDE DEF b
  <2>2. b \in [1 .. n -> Bytes]
    BY <1>2, <2>1
  <2> QED
    BY <2>2
<1> HIDE DEF b
<1>4. \A j \in skip + 1 .. skip + take : b[j] \in Bytes
  BY <1>2
<1>5. new \in Seq(Bytes) /\ Len(new) = take /\ \A j \in 1 .. take : new[j] = b[skip + j]
  <2>1. /\ new \in Seq(Bytes)
        /\ Len(new) = IF skip + 1 <= skip + take THEN skip + take - (skip + 1) + 1 ELSE 0
        /\ \A j \in 1 .. skip + take - (skip + 1) + 1 : new[j] = b[(skip + 1) + j - 1]
    BY <1>4, SubSeqProperties
  <2>2. skip + take - (skip + 1) + 1 = take /\ \A j \in 1 .. take : (skip + 1) + j - 1 = skip + j
    OBVIOUS
  <2> QED
    BY <2>1, <2>2
<1>6. ASSUME NEW j \in 1 .. take PROVE new[j] = <<o + skip + j - 1, v>>
  <2>1. skip + j \in 1 .. n /\ o + (skip + j) - 1 = o + skip + j - 1
    OBVIOUS
  <2> HIDE DEF new
  <2> QED
    BY <1>2, <1>5, <2>1
<1> QED
  BY <1>3, <1>5, <1>6 DEF b, Chunk

(* f is what became of st in such a feed.                                  *)
Fills(st, f, o, e, v) ==
  LET start == FirstFree(st, o, e)
      take  == Takes(st, start, e)
  IN /\ Packed(f.store) /\ take \in Nat /\ start + take <= e
     /\ f.result = Accepted(start - o + take)
     /\ \A p \in Int : PackedByte(f.store, p) =
          IF p \in start .. start + take - 1 THEN v ELSE PackedByte(st, p)

(* A feed of o .. e - 1 finds the index full: it would store bytes that    *)
(* touch no run that is held.                                              *)
NoSlot(st, o, e) ==
  LET start == FirstFree(st, o, e)
      take  == Takes(st, start, e)
  IN /\ Len(st.spans) = MaxSpans /\ take # 0
     /\ \A i \in DOMAIN st.spans : /\ SpanEnd(st.spans[i]) # start
                                   /\ st.spans[i].start # start + take

(* A feed leaves the store packed.  It is refused, when the index has no   *)
(* slot for it, or stores what it takes and nothing else.                  *)
LEMMA FeedPacked ==
  ASSUME NEW st, Packed(st), NEW o \in Nat, NEW n \in Nat, o + n <= MaxAddr,
         NEW v \in Versions
  PROVE  LET f == Feed(st, o, Payload(o, n, v))
         IN \/ f = [store |-> st, result |-> Refused("span_limit")] /\ NoSlot(st, o, o + n)
            \/ Fills(st, f, o, o + n, v)
<1> DEFINE bytes == Payload(o, n, v)
           end == o + Len(bytes)
           spans == st.spans
           start == FirstFree(st, o, end)
           skip  == start - o
           index == Cardinality({i \in DOMAIN spans : spans[i].start < start})
           count == Len(spans)
           gap   == IF index < count THEN Least(spans[index + 1].start - start, end - start)
                    ELSE end - start
           take  == Least(gap, Cap - Len(st.data))
           mergePrevious == index > 0 /\ SpanEnd(spans[index]) = start
           mergeNext == index < count /\ start + take = spans[index + 1].start
           at    == IF index < count THEN spans[index + 1].at ELSE Len(st.data)
           new   == SubSeq(bytes, skip + 1, skip + take)
           q     == Indexed(spans, index, start, at, take, mergePrevious, mergeNext)
           f     == Feed(st, o, bytes)
           full  == ~mergePrevious /\ ~mergeNext /\ count = MaxSpans
           after == [data |-> Shifted(st.data, at, new), spans |-> q]
<1>1. Len(bytes) = n
  <2>1. 0 \in Nat /\ 0 + 0 <= n
    OBVIOUS
  <2> QED
    BY ZenonT(60), <2>1, PayloadIs
<1>2. f = IF start = end \/ take = 0 THEN [store |-> st, result |-> Accepted(skip)]
          ELSE IF full THEN [store |-> st, result |-> Refused("span_limit")]
          ELSE [store |-> after, result |-> Accepted(skip + take)]
  <2> HIDE DEF bytes
  <2> QED
    BY Zenon DEF Feed, FirstFree, Shifted
<1>20. end = o + n /\ end \in Nat /\ o <= end
  <2> HIDE DEF bytes
  <2> QED
    BY <1>1
<1> HIDE DEF bytes, end
<1>3. start \in o .. end /\ start \in Nat /\ (start # end => ~CoversAt(st, start))
  BY <1>20, FreeIs
<1>4. Len(st.data) \in Nat /\ Len(st.data) <= Cap /\ count \in Nat /\ count <= MaxSpans
      /\ Index(spans) /\ DOMAIN spans = 1 .. count
  BY DEF Packed, Index
<1>5. NextHeld(st, start, end) \in start .. end
  <2> HIDE DEF start
  <2> QED
    BY <1>3, <1>20, HeldIs
<1>6. Takes(st, start, end) \in Nat /\ start + Takes(st, start, end) <= end
  <2>1. Cap \in Nat
    BY Addresses
  <2> HIDE DEF start
  <2> QED
    BY <1>3, <1>4, <1>5, <1>20, <2>1 DEF Takes, Least
<1> HIDE DEF start, f
<1> DEFINE takes == Takes(st, start, end)
           fed == IF takes = 0 THEN f = [store |-> st, result |-> Accepted(skip)]
                  ELSE /\ Packed(f.store) /\ f.result = Accepted(skip + takes)
                       /\ \A p \in Int : PackedByte(f.store, p) =
                            IF p \in start .. start + takes - 1 THEN v ELSE PackedByte(st, p)
<1>7. ASSUME start # end PROVE take = takes
  <2>1. start < end
    BY <1>3, <1>7, <1>20
  <2>2. gap = NextHeld(st, start, end) - start
    BY <1>3, <1>7, <1>20, <2>1, RunReaches DEF NextHeld
  <2> HIDE DEF gap
  <2> QED
    BY <2>2 DEF Takes
<1>8. ASSUME start = end PROVE takes = 0
  <2>1. NextHeld(st, start, end) = start
    BY <1>5, <1>8, <1>20
  <2>2. takes = Least(start - start, Cap - Len(st.data))
    BY <2>1 DEF Takes
  <2>3. start - start = 0 /\ 0 <= Cap - Len(st.data)
    <3>1. Cap \in Nat
      BY Addresses
    <3> QED
      BY <1>3, <1>4, <3>1
  <2> HIDE DEF takes
  <2> QED
    BY <2>2, <2>3 DEF Least
<1>9. ASSUME start = end \/ takes = 0 PROVE fed
  <2>1. f = [store |-> st, result |-> Accepted(skip)] /\ takes = 0
    BY <1>2, <1>7, <1>8, <1>9
  <2> QED
    BY <2>1
<1> HIDE DEF takes
<1>15. ASSUME start # end, takes # 0
       PROVE  /\ take = takes /\ takes \in Nat \ {0} /\ start + takes <= end /\ start < end
              /\ index \in 0 .. count
              /\ \A i \in 1 .. index : SpanEnd(spans[i]) <= start
              /\ \A i \in index + 1 .. count : start < spans[i].start
              /\ index < count => start + take <= spans[index + 1].start
  <2>1. take = takes /\ takes \in Nat \ {0} /\ start + takes <= end /\ start < end
    BY <1>3, <1>6, <1>7, <1>15, <1>20 DEF takes
  <2>3. /\ index \in 0 .. count
        /\ \A i \in 1 .. index : SpanEnd(spans[i]) <= start
        /\ \A i \in index + 1 .. count : start < spans[i].start
    BY <1>3, <1>15, FeedIndex
  <2> HIDE DEF index
  <2>4. index < count => index + 1 \in 1 .. count /\ spans[index + 1].start \in Nat
    <3>1. index < count => index + 1 \in 1 .. count
      BY <1>4, <2>3
    <3> QED
      BY <1>4, <3>1, SpanFields
  <2>5. index < count => start + take <= spans[index + 1].start
    <3> SUFFICES ASSUME index < count PROVE start + take <= spans[index + 1].start
      OBVIOUS
    <3>1. gap = Least(spans[index + 1].start - start, end - start)
      OBVIOUS
    <3>2. spans[index + 1].start \in Nat
      BY <2>4
    <3>3. gap \in Int /\ gap <= spans[index + 1].start - start
      BY <1>3, <1>20, <3>1, <3>2 DEF Least
    <3>4. Cap - Len(st.data) \in Int
      <4>1. Cap \in Nat
        BY Addresses
      <4> QED
        BY <1>4, <4>1
    <3> HIDE DEF gap
    <3>5. take <= gap /\ take \in Int
      BY <3>3, <3>4 DEF Least
    <3> HIDE DEF take
    <3> QED
      BY <1>3, <3>2, <3>3, <3>5
  <2> HIDE DEF take
  <2> QED
    BY <2>1, <2>3, <2>5
<1>10. ASSUME start # end, takes # 0, full
       PROVE  f = [store |-> st, result |-> Refused("span_limit")]
  <2>1. take # 0
    BY <1>7, <1>10
  <2> HIDE DEF take, full, after, skip
  <2> QED
    BY <1>2, <1>10, <2>1
<1>16. ASSUME start # end, takes # 0, full PROVE NoSlot(st, o, end)
  <2>1. /\ take = takes /\ takes \in Nat \ {0} /\ index \in 0 .. count
        /\ \A i \in 1 .. index : SpanEnd(spans[i]) <= start
        /\ \A i \in index + 1 .. count : start < spans[i].start
        /\ index < count => start + take <= spans[index + 1].start
    BY <1>15, <1>16
  <2>2. /\ index > 0 => SpanEnd(spans[index]) # start
        /\ index < count => start + take # spans[index + 1].start
        /\ count = MaxSpans
    BY <1>16
  <2> HIDE DEF index, take, full
  <2>3. ASSUME NEW i \in 1 .. count
        PROVE  SpanEnd(spans[i]) # start /\ spans[i].start # start + take
    <3>1. /\ spans[i].start \in Nat /\ SpanEnd(spans[i]) \in Nat
          /\ spans[i].start < SpanEnd(spans[i])
      <4>1. i \in DOMAIN spans
        BY <1>4
      <4> QED
        BY <1>4, <4>1, SpanFields
    <3>2. CASE i < index
      <4>1. index \in DOMAIN spans /\ i \in DOMAIN spans
        BY <1>4, <2>1, <3>2
      <4>2. SpanEnd(spans[i]) < spans[index].start
        BY <1>4, <3>2, <4>1 DEF Index
      <4>3. spans[index].start < SpanEnd(spans[index]) /\ SpanEnd(spans[index]) <= start
            /\ spans[index].start \in Nat /\ SpanEnd(spans[index]) \in Nat
        BY SMTT(30), <1>4, <2>1, <3>2, <4>1, SpanFields
      <4> QED
        BY SMTT(30), <1>3, <2>1, <3>1, <4>2, <4>3
    <3>3. CASE i = index
      <4>1. SpanEnd(spans[i]) # start /\ SpanEnd(spans[i]) <= start
        BY <2>1, <2>2, <3>3
      <4> QED
        BY <1>3, <2>1, <3>1, <4>1
    <3>4. CASE i = index + 1
      <4>1. start < spans[i].start /\ start + take # spans[i].start
        BY <2>1, <2>2, <3>4
      <4> QED
        BY <1>3, <2>1, <3>1, <4>1
    <3>5. CASE i > index + 1
      <4>1. index + 1 \in DOMAIN spans /\ i \in DOMAIN spans /\ index < count
        BY <1>4, <2>1, <3>5
      <4>2. SpanEnd(spans[index + 1]) < spans[i].start
        BY <1>4, <2>1, <3>5, <4>1 DEF Index
      <4>3. /\ spans[index + 1].start \in Nat /\ SpanEnd(spans[index + 1]) \in Nat
            /\ spans[index + 1].start < SpanEnd(spans[index + 1])
            /\ start + take <= spans[index + 1].start
        BY <1>4, <2>1, <4>1, SpanFields
      <4> QED
        BY SMTT(30), <1>3, <2>1, <3>1, <4>2, <4>3
    <3> QED
      BY <2>1, <3>2, <3>3, <3>4, <3>5
  <2> QED
    BY <1>4, <2>1, <2>2, <2>3 DEF NoSlot, start, takes
<1>11. ASSUME start # end, takes # 0, ~full PROVE fed
  <2>1. take = takes /\ takes \in Nat \ {0} /\ start + takes <= end /\ start < end
    BY <1>11, <1>15
  <2>2. f = [store |-> after, result |-> Accepted(skip + take)]
    BY <1>2, <1>11, <2>1
  <2>3. /\ index \in 0 .. count
        /\ \A i \in 1 .. index : SpanEnd(spans[i]) <= start
        /\ \A i \in index + 1 .. count : start < spans[i].start
    BY <1>11, <1>15
  <2>5. index < count => start + take <= spans[index + 1].start
    BY <1>11, <1>15
  <2> HIDE DEF index
  <2>6. Len(st.data) + take <= Cap
    <3>1. Cap \in Nat
      BY Addresses
    <3>2. take = Takes(st, start, end)
      BY <2>1 DEF takes
    <3> HIDE DEF take
    <3> QED
      BY <1>3, <1>4, <1>5, <1>20, <3>1, <3>2 DEF Takes, Least
  <2> HIDE DEF take
  <2>7. take \in Nat \ {0} /\ start + take <= MaxAddr
    <3>1. MaxAddr \in Nat
      BY Addresses
    <3> QED
      BY <1>3, <1>20, <2>1, <3>1
  <2>8. Between(st, index, start, take, at, mergePrevious, mergeNext)
    BY <1>3, <2>3, <2>5, <2>7 DEF Between
  <2> DEFINE lo == IF mergePrevious THEN index - 1 ELSE index
             hi == IF mergeNext THEN index + 1 ELSE index
             join == Grown(spans, index, start, at, take, mergePrevious, mergeNext)
  <2>9. /\ at \in 0 .. Len(st.data)
        /\ \A i \in DOMAIN spans : SpanEnd(spans[i]) <= start \/ start + take <= spans[i].start
        /\ Joins(st, start, take, at, lo, hi, join)
    BY <2>8, FedJoins
  <2>10. Woven(q, spans, take, lo, hi, join)
    <3>1. at \in Nat
      BY <1>4, <2>9
    <3>2. mergePrevious \in BOOLEAN /\ mergeNext \in BOOLEAN
      BY <2>8 DEF Between
    <3>3. (mergePrevious => index > 0) /\ (mergeNext => index < Len(spans))
      OBVIOUS
    <3> HIDE DEF at, mergePrevious, mergeNext
    <3> QED
      BY <1>3, <1>4, <2>3, <2>7, <3>1, <3>2, <3>3, IndexedWeaves
  <2>11. Len(q) <= MaxSpans
    <3>1. Len(q) = lo + 1 + (count - hi)
      BY <2>10 DEF Woven
    <3>2. ~mergePrevious /\ ~mergeNext => count # MaxSpans
      BY <1>11
    <3>0. MaxSpans \in Nat
      BY Addresses
    <3>3. MaxSpans \in Nat /\ index \in Nat
      BY <1>4, <2>3, <3>0
    <3> HIDE DEF q, mergePrevious, mergeNext
    <3>4. CASE mergePrevious /\ mergeNext
      BY <1>4, <3>1, <3>3, <3>4
    <3>5. CASE mergePrevious /\ ~mergeNext
      BY <1>4, <3>1, <3>3, <3>5
    <3>6. CASE ~mergePrevious /\ mergeNext
      BY <1>4, <3>1, <3>3, <3>6
    <3>7. CASE ~mergePrevious /\ ~mergeNext
      <4>1. count # MaxSpans /\ lo = index /\ hi = index
        BY <3>2, <3>7
      <4>2. count \in Nat /\ count <= MaxSpans
        BY <1>4
      <4>3. Len(q) = index + 1 + (count - index)
        BY <3>1, <4>1
      <4> HIDE DEF lo, hi, count, index
      <4>4. index + 1 + (count - index) = count + 1 /\ count + 1 <= MaxSpans
        BY <3>3, <4>1, <4>2
      <4> QED
        BY <4>3, <4>4
    <3> QED
      BY <3>4, <3>5, <3>6, <3>7
  <2>12. /\ new \in Seq(Bytes) /\ Len(new) = take
         /\ \A j \in 1 .. take : new[j] = <<start + j - 1, v>>
    <3>1. skip \in Nat /\ take \in Nat /\ skip + take <= n /\ o + skip = start
      BY <1>1, <1>3, <1>20, <2>1
    <3> HIDE DEF skip
    <3>2. /\ new \in Seq(Bytes) /\ Len(new) = take
          /\ \A j \in 1 .. take : new[j] = <<o + skip + j - 1, v>>
      <4> DEFINE piece == Chunk(o, n, v, skip, take)
      <4>1. /\ piece \in Seq(Bytes) /\ Len(piece) = take
            /\ \A j \in 1 .. take : piece[j] = <<o + skip + j - 1, v>>
        BY <3>1, PayloadIs
      <4>2. new = piece
        BY DEF bytes, Chunk
      <4> HIDE DEF new, piece
      <4> QED
        BY <4>1, <4>2
    <3> QED
      BY <3>1, <3>2
  <2> HIDE DEF q, lo, hi, join, new, at
  <2>13. /\ Packed(after)
         /\ \A p \in Int : PackedByte(after, p) =
              IF p \in start .. start + take - 1 THEN v ELSE PackedByte(st, p)
    <3>1. Len(new) > 0 /\ take = Len(new)
      BY <2>7, <2>12
    <3>2. /\ Woven(q, spans, Len(new), lo, hi, join)
          /\ Joins(st, start, Len(new), at, lo, hi, join)
      BY <2>9, <2>10, <3>1
    <3>3. \A i \in DOMAIN spans :
            SpanEnd(spans[i]) <= start \/ start + Len(new) <= spans[i].start
      BY <2>9, <3>1
    <3>4. Len(q) <= MaxSpans /\ Len(st.data) + Len(new) <= Cap
      BY <2>6, <2>11, <3>1
    <3>5. \A j \in 1 .. Len(new) : new[j] = <<start + j - 1, v>>
      BY <2>12, <3>1
    <3>6. /\ start \in Nat /\ at \in 0 .. Len(st.data)
          /\ new \in Seq(Bytes) /\ Len(new) > 0
      BY <1>3, <2>9, <2>12, <3>1
    <3>7. /\ Packed(after)
          /\ \A p \in Int : PackedByte(after, p) =
               IF p \in start .. start + Len(new) - 1 THEN v ELSE PackedByte(st, p)
      <4>1. Fits(st, start, at, v, new, lo, hi, join, q)
        BY <3>2, <3>3, <3>4, <3>5, <3>6 DEF Fits
      <4> QED
        BY <4>1, WovenPacked
    <3> QED
      BY <3>1, <3>7
  <2>14. f.store = after /\ f.result = Accepted(skip + takes) /\ takes # 0
    BY <1>11, <2>1, <2>2
  <2> HIDE DEF after
  <2> QED
    BY <2>1, <2>13, <2>14
<1> HIDE DEF full
<1>12. (f = [store |-> st, result |-> Refused("span_limit")] /\ NoSlot(st, o, end)) \/ fed
  BY <1>9, <1>10, <1>11, <1>16
<1>13. ASSUME fed
       PROVE  /\ Packed(f.store) /\ takes \in Nat /\ start + takes <= end
              /\ f.result = Accepted(skip + takes)
              /\ \A p \in Int : PackedByte(f.store, p) =
                   IF p \in start .. start + takes - 1 THEN v ELSE PackedByte(st, p)
  <2>1. takes \in Nat /\ start + takes <= end
    BY <1>6 DEF takes
  <2>2. CASE takes = 0
    <3>1. f.store = st /\ f.result = Accepted(skip) /\ skip + takes = skip
      BY <1>3, <1>13, <1>20, <2>2
    <3>2. \A p \in Int : p \notin start .. start + takes - 1
      BY <1>3, <2>2
    <3> QED
      BY <2>1, <3>1, <3>2
  <2>3. CASE takes # 0
    BY <1>13, <2>1, <2>3
  <2> QED
    BY <2>2, <2>3
<1> HIDE DEF fed
<1>14. fed => Fills(st, f, o, end, v)
  BY <1>13 DEF Fills, start, takes
<1> QED
  BY <1>12, <1>14, <1>20 DEF f, bytes
-----------------------------------------------------------------------------
(* Releasing from the packed store.                                        *)

(* r is part of the run of s, with the place of its bytes.                 *)
Piece(r, s) ==
  /\ r \in Spans /\ r.len > 0
  /\ s.start <= r.start /\ SpanEnd(r) <= SpanEnd(s)
  /\ r.at + s.start = s.at + r.start

(* Runs in order, apart, and with their bytes in the same order.           *)
Follows(r, s) == SpanEnd(r) < s.start /\ r.at + r.len <= s.at
InOrder(rs) == \A i, j \in DOMAIN rs : i < j => Follows(rs[i], rs[j])

(* A span is left whole, cut at one end or both, or gone.                  *)
LEMMA RemainsForms ==
  ASSUME NEW s \in Spans, NEW lo \in Nat, NEW hi \in Nat, lo < hi, s.len > 0
  PROVE  LET front == [start |-> s.start, at |-> s.at, len |-> lo - s.start]
             back  == [start |-> hi, at |-> s.at + (hi - s.start), len |-> SpanEnd(s) - hi]
         IN \/ /\ SpanEnd(s) <= lo \/ hi <= s.start
               /\ Remains(s, lo, hi) = <<s>>
            \/ /\ s.start < lo /\ lo < SpanEnd(s) /\ hi < SpanEnd(s)
               /\ Remains(s, lo, hi) = <<front, back>>
            \/ /\ s.start < lo /\ lo < SpanEnd(s) /\ SpanEnd(s) <= hi
               /\ Remains(s, lo, hi) = <<front>>
            \/ /\ lo <= s.start /\ s.start < hi /\ hi < SpanEnd(s)
               /\ Remains(s, lo, hi) = <<back>>
            \/ /\ lo <= s.start /\ SpanEnd(s) <= hi
               /\ Remains(s, lo, hi) = <<>>
<1> DEFINE piece(from, to) == [start |-> from, at |-> s.at + (from - s.start),
                               len |-> to - from]
           cutLo == IF s.start >= lo THEN s.start ELSE lo
           cutHi == Least(SpanEnd(s), hi)
<1>1. /\ s.start \in Nat /\ s.at \in Nat /\ s.len \in Nat
      /\ SpanEnd(s) = s.start + s.len /\ SpanEnd(s) \in Nat
  BY DEF Spans, SpanEnd
<1>2. Remains(s, lo, hi) =
        IF cutLo >= cutHi THEN <<s>>
        ELSE (IF s.start < cutLo THEN <<piece(s.start, cutLo)>> ELSE <<>>)
               \o (IF cutHi < SpanEnd(s) THEN <<piece(cutHi, SpanEnd(s))>> ELSE <<>>)
  BY Zenon DEF Remains
<1>3. /\ cutLo = IF s.start >= lo THEN s.start ELSE lo
      /\ cutHi = IF SpanEnd(s) <= hi THEN SpanEnd(s) ELSE hi
  BY DEF Least
<1>4. \A x, y : <<x>> \o <<y>> = <<x, y>>
  <2> SUFFICES ASSUME NEW x, NEW y PROVE <<x>> \o <<y>> = <<x, y>>
    OBVIOUS
  <2> DEFINE Elem == {x, y}
             c == <<x>> \o <<y>>
  <2>1. <<x>> \in Seq(Elem) /\ <<y>> \in Seq(Elem) /\ <<x, y>> \in Seq(Elem)
    OBVIOUS
  <2>2. c \in Seq(Elem) /\ Len(c) = 2 /\ c[1] = x /\ c[2] = y
    <3>1. /\ c \in Seq(Elem) /\ Len(c) = Len(<<x>>) + Len(<<y>>)
          /\ \A j \in 1 .. Len(<<x>>) : c[j] = <<x>>[j]
          /\ \A j \in 1 .. Len(<<y>>) : c[Len(<<x>>) + j] = <<y>>[j]
      BY <2>1, Behind
    <3>2. Len(<<x>>) = 1 /\ Len(<<y>>) = 1 /\ <<x>>[1] = x /\ <<y>>[1] = y
      OBVIOUS
    <3>3. 1 \in 1 .. Len(<<x>>) /\ 1 \in 1 .. Len(<<y>>) /\ Len(<<x>>) + 1 = 2
      BY <3>2
    <3> HIDE DEF c, Elem
    <3>4. c[1] = <<x>>[1]
      BY <3>1, <3>3
    <3>5. c[2] = <<y>>[1]
      BY <3>1, <3>3
    <3> QED
      BY <3>1, <3>2, <3>3, <3>4, <3>5
  <2> HIDE DEF c, Elem
  <2>3. Len(<<x, y>>) = 2 /\ <<x, y>>[1] = x /\ <<x, y>>[2] = y
    OBVIOUS
  <2>4. c = <<x, y>>
    BY <2>1, <2>2, <2>3, SeqEqual
  <2> QED
    BY <2>4 DEF c
<1>5. \A x : <<x>> \o <<>> = <<x>> /\ <<>> \o <<x>> = <<x>>
  OBVIOUS
<1>6. <<>> \o <<>> = <<>>
  OBVIOUS
<1>7. s.at + (s.start - s.start) = s.at
  BY <1>1
<1> HIDE DEF cutLo, cutHi
<1>8. CASE SpanEnd(s) <= lo \/ hi <= s.start
  <2>1. cutLo >= cutHi
    BY <1>1, <1>3, <1>8
  <2> QED
    BY <1>2, <1>8, <2>1
<1>9. CASE s.start < lo /\ lo < SpanEnd(s) /\ hi < SpanEnd(s)
  <2>1. cutLo = lo /\ cutHi = hi /\ ~(cutLo >= cutHi) /\ s.start < cutLo /\ cutHi < SpanEnd(s)
    BY <1>1, <1>3, <1>9
  <2>2. Remains(s, lo, hi) = <<piece(s.start, lo)>> \o <<piece(hi, SpanEnd(s))>>
    BY <1>2, <2>1
  <2>3. Remains(s, lo, hi) = <<piece(s.start, lo), piece(hi, SpanEnd(s))>>
    BY <1>4, <2>2
  <2> QED
    BY <1>7, <1>9, <2>3
<1>10. CASE s.start < lo /\ lo < SpanEnd(s) /\ SpanEnd(s) <= hi
  <2>1. /\ cutLo = lo /\ cutHi = SpanEnd(s) /\ ~(cutLo >= cutHi) /\ s.start < cutLo
        /\ ~(cutHi < SpanEnd(s))
    BY <1>1, <1>3, <1>10
  <2>2. Remains(s, lo, hi) = <<piece(s.start, lo)>> \o <<>>
    BY <1>2, <2>1
  <2>3. Remains(s, lo, hi) = <<piece(s.start, lo)>>
    BY <1>5, <2>2
  <2> QED
    BY <1>7, <1>10, <2>3
<1>11. CASE lo <= s.start /\ s.start < hi /\ hi < SpanEnd(s)
  <2>1. /\ cutLo = s.start /\ cutHi = hi /\ ~(cutLo >= cutHi) /\ ~(s.start < cutLo)
        /\ cutHi < SpanEnd(s)
    BY <1>1, <1>3, <1>11
  <2>2. Remains(s, lo, hi) = <<>> \o <<piece(hi, SpanEnd(s))>>
    BY <1>2, <2>1
  <2>3. Remains(s, lo, hi) = <<piece(hi, SpanEnd(s))>>
    BY <1>5, <2>2
  <2> QED
    BY <1>11, <2>3
<1>12. CASE lo <= s.start /\ SpanEnd(s) <= hi
  <2>1. /\ cutLo = s.start /\ cutHi = SpanEnd(s) /\ ~(cutLo >= cutHi)
        /\ ~(s.start < cutLo) /\ ~(cutHi < SpanEnd(s))
    BY <1>1, <1>3, <1>12
  <2> QED
    BY <1>2, <1>6, <1>12, <2>1
<1>13. \/ SpanEnd(s) <= lo \/ hi <= s.start
       \/ s.start < lo /\ lo < SpanEnd(s) /\ hi < SpanEnd(s)
       \/ s.start < lo /\ lo < SpanEnd(s) /\ SpanEnd(s) <= hi
       \/ lo <= s.start /\ s.start < hi /\ hi < SpanEnd(s)
       \/ lo <= s.start /\ SpanEnd(s) <= hi
  BY <1>1
<1> QED
  BY <1>8, <1>9, <1>10, <1>11, <1>12, <1>13

(* Whatever is left are pieces of it, in order, and they cover what the    *)
(* cut leaves.  Only a cut inside the run leaves two.                      *)
LEMMA RemainsIs ==
  ASSUME NEW s \in Spans, NEW lo \in Nat, NEW hi \in Nat, lo < hi, s.len > 0
  PROVE  LET r == Remains(s, lo, hi)
         IN /\ r \in Seq(Spans) /\ Len(r) \in 0 .. 2
            /\ \A i \in DOMAIN r : Piece(r[i], s)
            /\ InOrder(r)
            /\ Len(r) = 2 => s.start < lo /\ hi < SpanEnd(s)
            /\ \A p \in Int : (\E i \in DOMAIN r : Covers(r[i], p))
                                <=> Covers(s, p) /\ p \notin lo .. hi - 1
<1> DEFINE front == [start |-> s.start, at |-> s.at, len |-> lo - s.start]
           back == [start |-> hi, at |-> s.at + (hi - s.start), len |-> SpanEnd(s) - hi]
           r == Remains(s, lo, hi)
<1>1. /\ s.start \in Nat /\ s.at \in Nat /\ s.len \in Nat
      /\ SpanEnd(s) = s.start + s.len /\ SpanEnd(s) \in Nat
  BY DEF Spans, SpanEnd
<1>2. \A p \in Int : Covers(s, p) <=> s.start <= p /\ p < SpanEnd(s)
  BY DEF Covers
<1>3. Piece(s, s)
  BY <1>1 DEF Piece
<1>4. ASSUME s.start < lo, lo < SpanEnd(s)
      PROVE  /\ Piece(front, s) /\ SpanEnd(front) = lo /\ front.at + front.len = s.at + (lo - s.start)
             /\ \A p \in Int : Covers(front, p) <=> s.start <= p /\ p < lo
  <2>1. front.start = s.start /\ front.at = s.at /\ front.len = lo - s.start
    OBVIOUS
  <2>2. front \in Spans
    BY <1>1, <1>4 DEF Spans
  <2> HIDE DEF front
  <2>3. SpanEnd(front) = lo
    BY <1>1, <1>4, <2>1 DEF SpanEnd
  <2> QED
    BY <1>1, <1>4, <2>1, <2>2, <2>3 DEF Piece, Covers
<1>5. ASSUME s.start < hi, hi < SpanEnd(s)
      PROVE  /\ Piece(back, s) /\ back.start = hi /\ back.at = s.at + (hi - s.start)
             /\ \A p \in Int : Covers(back, p) <=> hi <= p /\ p < SpanEnd(s)
  <2>1. /\ back.start = hi /\ back.at = s.at + (hi - s.start)
        /\ back.len = SpanEnd(s) - hi
    OBVIOUS
  <2>2. back \in Spans
    BY <1>1, <1>5 DEF Spans
  <2> HIDE DEF back
  <2>3. SpanEnd(back) = SpanEnd(s)
    BY <1>1, <1>5, <2>1 DEF SpanEnd
  <2> QED
    BY <1>1, <1>5, <2>1, <2>2, <2>3 DEF Piece, Covers
<1>6. \/ (SpanEnd(s) <= lo \/ hi <= s.start) /\ r = <<s>>
      \/ s.start < lo /\ lo < SpanEnd(s) /\ hi < SpanEnd(s) /\ r = <<front, back>>
      \/ s.start < lo /\ lo < SpanEnd(s) /\ SpanEnd(s) <= hi /\ r = <<front>>
      \/ lo <= s.start /\ s.start < hi /\ hi < SpanEnd(s) /\ r = <<back>>
      \/ lo <= s.start /\ SpanEnd(s) <= hi /\ r = <<>>
  BY RemainsForms
<1> HIDE DEF front, back, r
<1>7. ASSUME NEW x \in Spans, r = <<x>>
      PROVE  r \in Seq(Spans) /\ Len(r) = 1 /\ DOMAIN r = {1} /\ r[1] = x
  BY <1>7
<1>8. \A x : Piece(x, s) => x \in Spans
  BY DEF Piece
<1> DEFINE goal == /\ r \in Seq(Spans) /\ Len(r) \in 0 .. 2
                   /\ \A i \in DOMAIN r : Piece(r[i], s)
                   /\ InOrder(r)
                   /\ Len(r) = 2 => s.start < lo /\ hi < SpanEnd(s)
                   /\ \A p \in Int : (\E i \in DOMAIN r : Covers(r[i], p))
                                       <=> Covers(s, p) /\ p \notin lo .. hi - 1
<1>9. ASSUME NEW x, Piece(x, s), r = <<x>>,
             \A p \in Int : Covers(x, p) <=> Covers(s, p) /\ p \notin lo .. hi - 1
      PROVE  goal
  <2>1. r \in Seq(Spans) /\ Len(r) = 1 /\ DOMAIN r = {1} /\ r[1] = x
    BY <1>7, <1>8, <1>9
  <2>2. InOrder(r)
    BY <2>1 DEF InOrder
  <2> QED
    BY <1>9, <2>1, <2>2
<1>10. CASE (SpanEnd(s) <= lo \/ hi <= s.start) /\ r = <<s>>
  <2>1. \A p \in Int : Covers(s, p) => p \notin lo .. hi - 1
    BY <1>1, <1>2, <1>10
  <2>2. goal
    BY <1>3, <1>9, <1>10, <2>1
  <2> QED
    BY <2>2 DEF r
<1>11. CASE s.start < lo /\ lo < SpanEnd(s) /\ hi < SpanEnd(s) /\ r = <<front, back>>
  <2>1. /\ Piece(front, s) /\ SpanEnd(front) = lo
        /\ front.at + front.len = s.at + (lo - s.start)
        /\ \A p \in Int : Covers(front, p) <=> s.start <= p /\ p < lo
    BY <1>4, <1>11
  <2>2. /\ Piece(back, s) /\ back.start = hi /\ back.at = s.at + (hi - s.start)
        /\ \A p \in Int : Covers(back, p) <=> hi <= p /\ p < SpanEnd(s)
    BY <1>1, <1>5, <1>11
  <2>3. /\ r \in Seq(Spans) /\ Len(r) = 2 /\ DOMAIN r = {1, 2}
        /\ r[1] = front /\ r[2] = back
    <3>1. front \in Spans /\ back \in Spans
      BY <1>8, <2>1, <2>2
    <3> QED
      BY <1>11, <3>1
  <2>4. Follows(front, back)
    BY <1>1, <2>1, <2>2 DEF Follows
  <2>5. InOrder(r)
    BY <2>3, <2>4 DEF InOrder
  <2>6. \A p \in Int : (\E i \in DOMAIN r : Covers(r[i], p))
                         <=> Covers(s, p) /\ p \notin lo .. hi - 1
    <3> SUFFICES ASSUME NEW p \in Int
                 PROVE  Covers(front, p) \/ Covers(back, p)
                          <=> Covers(s, p) /\ p \notin lo .. hi - 1
      BY <2>3
    <3> QED
      BY <1>1, <1>2, <1>11, <2>1, <2>2
  <2>7. goal
    BY <1>11, <2>1, <2>2, <2>3, <2>5, <2>6
  <2> QED
    BY <2>7 DEF r
<1>12. CASE s.start < lo /\ lo < SpanEnd(s) /\ SpanEnd(s) <= hi /\ r = <<front>>
  <2>1. /\ Piece(front, s)
        /\ \A p \in Int : Covers(front, p) <=> s.start <= p /\ p < lo
    BY <1>4, <1>12
  <2>2. \A p \in Int : Covers(front, p) <=> Covers(s, p) /\ p \notin lo .. hi - 1
    BY <1>1, <1>2, <1>12, <2>1
  <2>3. goal
    BY <1>9, <1>12, <2>1, <2>2
  <2> QED
    BY <2>3 DEF r
<1>13. CASE lo <= s.start /\ s.start < hi /\ hi < SpanEnd(s) /\ r = <<back>>
  <2>1. /\ Piece(back, s)
        /\ \A p \in Int : Covers(back, p) <=> hi <= p /\ p < SpanEnd(s)
    BY <1>5, <1>13
  <2>2. \A p \in Int : Covers(back, p) <=> Covers(s, p) /\ p \notin lo .. hi - 1
    BY <1>1, <1>2, <1>13, <2>1
  <2>3. goal
    BY <1>9, <1>13, <2>1, <2>2
  <2> QED
    BY <2>3 DEF r
<1>14. CASE lo <= s.start /\ SpanEnd(s) <= hi /\ r = <<>>
  <2>1. r \in Seq(Spans) /\ Len(r) = 0 /\ DOMAIN r = {}
    BY <1>14
  <2>2. \A p \in Int : Covers(s, p) => p \in lo .. hi - 1
    BY <1>1, <1>2, <1>14
  <2>3. goal
    BY <2>1, <2>2 DEF InOrder
  <2> QED
    BY <2>3 DEF r
<1> QED
  BY <1>6, <1>10, <1>11, <1>12, <1>13, <1>14

(* Pieces of runs in order are in order.                                   *)
LEMMA PieceFollows ==
  ASSUME NEW s \in Spans, NEW t \in Spans, Follows(s, t),
         NEW r, NEW q, Piece(r, s), Piece(q, t)
  PROVE  Follows(r, q)
<1>1. r \in Spans /\ q \in Spans
  BY DEF Piece
<1>2. /\ s.start \in Nat /\ s.at \in Nat /\ s.len \in Nat /\ SpanEnd(s) = s.start + s.len
      /\ t.start \in Nat /\ t.at \in Nat /\ t.len \in Nat
      /\ r.start \in Nat /\ r.at \in Nat /\ r.len \in Nat /\ SpanEnd(r) = r.start + r.len
      /\ q.start \in Nat /\ q.at \in Nat /\ q.len \in Nat
  BY <1>1 DEF Spans, SpanEnd
<1>3. /\ SpanEnd(r) <= SpanEnd(s) /\ r.at + s.start = s.at + r.start
      /\ t.start <= q.start /\ q.at + t.start = t.at + q.start
  BY DEF Piece
<1>4. SpanEnd(s) < t.start /\ s.at + s.len <= t.at
  BY DEF Follows
<1>5. SpanEnd(r) < q.start
  BY <1>2, <1>3, <1>4
<1>6. r.at + r.len <= q.at
  <2>1. r.at + r.len <= s.at + s.len
    BY <1>2, <1>3
  <2>2. t.at <= q.at
    BY <1>2, <1>3
  <2> QED
    BY <1>2, <1>4, <2>1, <2>2
<1> QED
  BY <1>5, <1>6 DEF Follows

(* The elements of two sequences, one behind the other.                    *)
LEMMA BehindFrom ==
  ASSUME NEW Elem, NEW x \in Seq(Elem), NEW y \in Seq(Elem)
  PROVE  /\ DOMAIN (x \o y) = 1 .. Len(x) + Len(y)
         /\ \A m \in DOMAIN (x \o y) :
              \/ m \in DOMAIN x /\ (x \o y)[m] = x[m]
              \/ m - Len(x) \in DOMAIN y /\ (x \o y)[m] = y[m - Len(x)] /\ Len(x) < m
         /\ \A m \in DOMAIN x : m \in DOMAIN (x \o y) /\ (x \o y)[m] = x[m]
         /\ \A m \in DOMAIN y : Len(x) + m \in DOMAIN (x \o y)
                                /\ (x \o y)[Len(x) + m] = y[m]
<1> DEFINE z == x \o y
<1>1. /\ z \in Seq(Elem) /\ Len(z) = Len(x) + Len(y)
      /\ \A j \in 1 .. Len(x) : z[j] = x[j]
      /\ \A j \in 1 .. Len(y) : z[Len(x) + j] = y[j]
  BY Behind
<1>2. /\ Len(x) \in Nat /\ Len(y) \in Nat
      /\ DOMAIN x = 1 .. Len(x) /\ DOMAIN y = 1 .. Len(y)
  OBVIOUS
<1> HIDE DEF z
<1>3. DOMAIN z = 1 .. Len(x) + Len(y)
  BY <1>1
<1>4. ASSUME NEW m \in DOMAIN z
      PROVE  \/ m \in DOMAIN x /\ z[m] = x[m]
             \/ m - Len(x) \in DOMAIN y /\ z[m] = y[m - Len(x)] /\ Len(x) < m
  <2>1. CASE m <= Len(x)
    BY <1>1, <1>2, <1>3, <2>1
  <2>2. CASE ~(m <= Len(x))
    <3>1. m - Len(x) \in 1 .. Len(y) /\ Len(x) + (m - Len(x)) = m /\ Len(x) < m
      BY <1>2, <1>3, <2>2
    <3>2. z[Len(x) + (m - Len(x))] = y[m - Len(x)]
      BY <1>1, <3>1
    <3> QED
      BY <1>2, <3>1, <3>2
  <2> QED
    BY <2>1, <2>2
<1>5. \A m \in DOMAIN x : m \in DOMAIN z /\ z[m] = x[m]
  BY <1>1, <1>2, <1>3
<1>6. \A m \in DOMAIN y : Len(x) + m \in DOMAIN z /\ z[Len(x) + m] = y[m]
  BY <1>1, <1>2, <1>3
<1> QED
  BY <1>3, <1>4, <1>5, <1>6 DEF z

(* Spans put behind others that they follow stay in order.                 *)
LEMMA BehindInOrder ==
  ASSUME NEW x \in Seq(Spans), NEW y \in Seq(Spans), InOrder(x), InOrder(y),
         \A i \in DOMAIN x : \A j \in DOMAIN y : Follows(x[i], y[j])
  PROVE  InOrder(x \o y)
<1> DEFINE z == x \o y
<1>1. \A m \in DOMAIN z : \/ m \in DOMAIN x /\ z[m] = x[m]
                          \/ m - Len(x) \in DOMAIN y /\ z[m] = y[m - Len(x)] /\ Len(x) < m
  BY BehindFrom
<1>2. /\ Len(x) \in Nat /\ DOMAIN x = 1 .. Len(x) /\ DOMAIN z = 1 .. Len(x) + Len(y)
      /\ Len(y) \in Nat
  BY BehindFrom
<1> HIDE DEF z
<1>3. ASSUME NEW i \in DOMAIN z, NEW j \in DOMAIN z, i < j PROVE Follows(z[i], z[j])
  <2>0. i \in Int /\ j \in Int
    BY <1>2
  <2>1. CASE j \in DOMAIN x /\ z[j] = x[j]
    <3>1. i \in DOMAIN x /\ z[i] = x[i]
      BY <1>1, <1>2, <1>3, <2>0, <2>1
    <3> QED
      BY <1>3, <2>1, <3>1 DEF InOrder
  <2>2. CASE j - Len(x) \in DOMAIN y /\ z[j] = y[j - Len(x)]
    <3>1. CASE i \in DOMAIN x /\ z[i] = x[i]
      BY <2>2, <3>1
    <3>2. CASE i - Len(x) \in DOMAIN y /\ z[i] = y[i - Len(x)]
      <4>1. i - Len(x) < j - Len(x)
        BY <1>2, <1>3, <2>0
      <4> QED
        BY <2>2, <3>2, <4>1 DEF InOrder
    <3> QED
      BY <1>1, <3>1, <3>2
  <2> QED
    BY <1>1, <2>1, <2>2
<1> QED
  BY <1>3 DEF InOrder, z

(* What a release leaves of the first k spans.                             *)
Splits(spans, lo, hi, k) ==
  \E j \in 1 .. k : spans[j].start < lo /\ hi < SpanEnd(spans[j])

Leaves(rs, spans, lo, hi, k) ==
  /\ rs \in Seq(Spans)
  /\ \A i \in DOMAIN rs : \E j \in 1 .. k : Piece(rs[i], spans[j])
  /\ InOrder(rs)
  /\ \A p \in Int : (\E i \in DOMAIN rs : Covers(rs[i], p))
                      <=> (\E j \in 1 .. k : Covers(spans[j], p)) /\ p \notin lo .. hi - 1
  /\ Len(rs) <= k + 1
  /\ ~Splits(spans, lo, hi, k) => Len(rs) <= k

(* Cutting one span more leaves the pieces of one span more.               *)
LEMMA LeavesMore ==
  ASSUME NEW spans, Index(spans), Laid(spans), NEW lo \in Nat, NEW hi \in Nat, lo < hi,
         NEW k \in 1 .. Len(spans), NEW rs, Leaves(rs, spans, lo, hi, k - 1)
  PROVE  Leaves(rs \o Remains(spans[k], lo, hi), spans, lo, hi, k)
<1> DEFINE n == Len(spans)
           s == spans[k]
           r == Remains(s, lo, hi)
           z == rs \o r
<1>1. n \in Nat /\ DOMAIN spans = 1 .. n /\ k \in 1 .. n
  BY DEF Index
<1>2. \A i \in 1 .. n : spans[i] \in Spans /\ spans[i].len > 0
  BY <1>1 DEF Index
<1>3. /\ r \in Seq(Spans) /\ Len(r) \in 0 .. 2
      /\ \A i \in DOMAIN r : Piece(r[i], s)
      /\ InOrder(r)
      /\ Len(r) = 2 => s.start < lo /\ hi < SpanEnd(s)
      /\ \A p \in Int : (\E i \in DOMAIN r : Covers(r[i], p))
                          <=> Covers(s, p) /\ p \notin lo .. hi - 1
  <2>1. s \in Spans /\ s.len > 0
    BY <1>1, <1>2
  <2> HIDE DEF s
  <2> QED
    BY <2>1, RemainsIs
<1>4. /\ rs \in Seq(Spans)
      /\ \A i \in DOMAIN rs : \E j \in 1 .. k - 1 : Piece(rs[i], spans[j])
      /\ InOrder(rs)
      /\ \A p \in Int : (\E i \in DOMAIN rs : Covers(rs[i], p))
           <=> (\E j \in 1 .. k - 1 : Covers(spans[j], p)) /\ p \notin lo .. hi - 1
      /\ Len(rs) <= (k - 1) + 1
      /\ ~Splits(spans, lo, hi, k - 1) => Len(rs) <= k - 1
  BY DEF Leaves
<1> HIDE DEF r, n
<1>5. \A j \in 1 .. k - 1 : j \in 1 .. n /\ j \in 1 .. k /\ Follows(spans[j], s)
  <2> SUFFICES ASSUME NEW j \in 1 .. k - 1
               PROVE  j \in 1 .. n /\ j \in 1 .. k /\ Follows(spans[j], s)
    OBVIOUS
  <2>1. j \in 1 .. n /\ j \in 1 .. k /\ j < k
    BY <1>1
  <2>2. SpanEnd(spans[j]) < s.start
    BY <1>1, <2>1 DEF Index
  <2>3. spans[j].at + spans[j].len <= s.at
    BY <1>1, LaidInOrder
  <2> QED
    BY <2>1, <2>2, <2>3 DEF Follows
<1>6. /\ z \in Seq(Spans) /\ Len(z) = Len(rs) + Len(r)
      /\ Len(rs) \in Nat /\ Len(r) \in Nat
  BY <1>3, <1>4, Behind
<1>7. /\ \A m \in DOMAIN z : \/ m \in DOMAIN rs /\ z[m] = rs[m]
                             \/ m - Len(rs) \in DOMAIN r /\ z[m] = r[m - Len(rs)]
      /\ \A m \in DOMAIN rs : m \in DOMAIN z /\ z[m] = rs[m]
      /\ \A m \in DOMAIN r : Len(rs) + m \in DOMAIN z /\ z[Len(rs) + m] = r[m]
  BY <1>3, <1>4, BehindFrom
<1>8. \A i \in DOMAIN rs : \A j \in DOMAIN r : Follows(rs[i], r[j])
  <2> SUFFICES ASSUME NEW i \in DOMAIN rs, NEW j \in DOMAIN r PROVE Follows(rs[i], r[j])
    OBVIOUS
  <2>1. PICK m \in 1 .. k - 1 : Piece(rs[i], spans[m])
    BY <1>4
  <2>2. spans[m] \in Spans /\ s \in Spans /\ Follows(spans[m], s) /\ Piece(r[j], s)
    BY <1>1, <1>2, <1>3, <1>5
  <2> HIDE DEF s
  <2> QED
    BY <2>1, <2>2, PieceFollows
<1>9. InOrder(z)
  BY <1>3, <1>4, <1>8, BehindInOrder
<1>10. k \in 1 .. k /\ \A j \in 1 .. k : j = k \/ j \in 1 .. k - 1
  BY <1>1
<1> HIDE DEF z
<1>11. \A m \in DOMAIN z : \E j \in 1 .. k : Piece(z[m], spans[j])
  BY <1>3, <1>4, <1>5, <1>7, <1>10
<1>12. ASSUME NEW p \in Int
       PROVE  (\E i \in DOMAIN z : Covers(z[i], p))
                <=> (\E j \in 1 .. k : Covers(spans[j], p)) /\ p \notin lo .. hi - 1
  <2>1. (\E i \in DOMAIN z : Covers(z[i], p))
          <=> (\E i \in DOMAIN rs : Covers(rs[i], p)) \/ (\E i \in DOMAIN r : Covers(r[i], p))
    BY <1>7
  <2>2. (\E j \in 1 .. k : Covers(spans[j], p))
          <=> (\E j \in 1 .. k - 1 : Covers(spans[j], p)) \/ Covers(s, p)
    BY <1>5, <1>10
  <2> HIDE DEF s
  <2> QED
    BY <1>3, <1>4, <2>1, <2>2
<1>13. Splits(spans, lo, hi, k - 1) => Splits(spans, lo, hi, k)
  BY <1>5 DEF Splits
<1>14. Len(r) = 2 => Splits(spans, lo, hi, k) /\ ~Splits(spans, lo, hi, k - 1)
  <2> SUFFICES ASSUME Len(r) = 2
               PROVE  Splits(spans, lo, hi, k) /\ ~Splits(spans, lo, hi, k - 1)
    OBVIOUS
  <2>1. s.start < lo /\ hi < SpanEnd(s)
    BY <1>3
  <2>2. Splits(spans, lo, hi, k)
    BY <1>10, <2>1 DEF Splits
  <2>3. ASSUME NEW j \in 1 .. k - 1, spans[j].start < lo, hi < SpanEnd(spans[j]) PROVE FALSE
    <3>1. SpanEnd(spans[j]) < s.start
      BY <1>5 DEF Follows
    <3>2. s.start \in Nat /\ spans[j].start \in Nat /\ spans[j].len \in Nat
          /\ SpanEnd(spans[j]) = spans[j].start + spans[j].len
      BY <1>1, <1>2, <1>5 DEF Spans, SpanEnd
    <3> HIDE DEF s
    <3> QED
      BY <2>1, <2>3, <3>1, <3>2
  <2> QED
    BY <2>2, <2>3 DEF Splits
<1>15. Len(z) <= k + 1 /\ (~Splits(spans, lo, hi, k) => Len(z) <= k)
  <2>1. Len(r) = 0 \/ Len(r) = 1 \/ Len(r) = 2
    BY <1>3
  <2>2. CASE Len(r) = 2
    BY <1>1, <1>4, <1>6, <1>14, <2>2
  <2>3. CASE Len(r) # 2
    <3>0. /\ Len(r) <= 1 /\ Len(rs) <= k /\ Len(z) = Len(rs) + Len(r)
          /\ Len(rs) \in Nat /\ Len(r) \in Nat /\ k \in Nat
          /\ ~Splits(spans, lo, hi, k - 1) => Len(rs) <= k - 1
      <4>1. k \in Nat
        BY <1>1
      <4>2. Len(r) <= 1
        BY <2>1, <2>3
      <4>3. Len(rs) <= k
        BY <1>4, <4>1
      <4> QED
        BY <1>4, <1>6, <4>1, <4>2, <4>3
    <3>1. CASE Splits(spans, lo, hi, k - 1)
      <4>1. Splits(spans, lo, hi, k)
        BY <1>13, <3>1
      <4>2. Len(z) <= k + 1
        BY <3>0
      <4> QED
        BY <4>1, <4>2
    <3>2. CASE ~Splits(spans, lo, hi, k - 1)
      <4>1. Len(z) <= k
        BY <3>0, <3>2
      <4>2. Len(z) <= k + 1
        BY <3>0
      <4> QED
        BY <4>1, <4>2
    <3> QED
      BY <3>1, <3>2
  <2> QED
    BY <2>2, <2>3
<1> QED
  BY <1>6, <1>9, <1>11, <1>12, <1>15 DEF Leaves, z, r, s

(* What a release leaves of a whole index.                                 *)
LEMMA PiecesAre ==
  ASSUME NEW spans, Index(spans), Laid(spans), NEW lo \in Nat, NEW hi \in Nat, lo < hi
  PROVE  Leaves(FlattenSeq([i \in DOMAIN spans |-> Remains(spans[i], lo, hi)]),
                spans, lo, hi, Len(spans))
<1> DEFINE n == Len(spans)
           t == [i \in DOMAIN spans |-> Remains(spans[i], lo, hi)]
           S == {k \in 0 .. n : Leaves(Flat(t, k), spans, lo, hi, k)}
<1>1. n \in Nat /\ DOMAIN spans = 1 .. n
  BY DEF Index
<1>2. \A i \in 1 .. n : t[i] = Remains(spans[i], lo, hi) /\ t[i] \in Seq(Spans)
  <2> SUFFICES ASSUME NEW i \in 1 .. n PROVE Remains(spans[i], lo, hi) \in Seq(Spans)
    BY <1>1
  <2>1. spans[i] \in Spans /\ spans[i].len > 0
    BY <1>1 DEF Index
  <2> QED
    BY <2>1, RemainsIs
<1>3. t = [i \in 1 .. n |-> t[i]]
  BY <1>1
<1> HIDE DEF t, n
<1>4. Leaves(<<>>, spans, lo, hi, 0)
  <2>1. <<>> \in Seq(Spans) /\ Len(<<>>) = 0 /\ DOMAIN <<>> = {} /\ 1 .. 0 = {}
    OBVIOUS
  <2> QED
    BY <2>1 DEF Leaves, InOrder
<1>5. 0 \in S
  <2>1. Flat(t, 0) = <<>>
    BY FlatNone
  <2> QED
    BY <1>1, <1>4, <2>1
<1>6. ASSUME NEW k \in 1 .. n, k - 1 \in S PROVE k \in S
  <2>1. k \in Nat \ {0} /\ 1 \in 1 .. n
    BY <1>1
  <2>2. Flat(t, k) = Flat(t, k - 1) \o t[k]
    <3>1. t[1] \in Seq(Spans)
      BY <1>2, <2>1
    <3> QED
      BY <2>1, <3>1, FlatMore
  <2>3. Leaves(Flat(t, k - 1), spans, lo, hi, k - 1)
    BY <1>6
  <2>4. Leaves(Flat(t, k - 1) \o Remains(spans[k], lo, hi), spans, lo, hi, k)
    BY <2>3, LeavesMore DEF n
  <2>5. Leaves(Flat(t, k), spans, lo, hi, k)
    <3>1. t[k] = Remains(spans[k], lo, hi)
      BY <1>2
    <3> QED
      BY <2>2, <2>4, <3>1
  <2>6. k \in 0 .. n
    BY <1>1
  <2> QED
    BY <2>5, <2>6
<1> HIDE DEF S
<1>7. \A k \in 0 .. n : k \in S
  BY <1>1, <1>5, <1>6, Upwards
<1>8. Leaves(Flat(t, n), spans, lo, hi, n)
  <2>1. n \in 0 .. n
    BY <1>1
  <2> QED
    BY <1>7, <2>1 DEF S
<1>9. Flat(t, n) = FlattenSeq(t)
  BY <1>3 DEF Flat
<1> QED
  BY <1>8, <1>9 DEF t, n

(* The payloads of the first k spans, moved together.                      *)
Moved(data, rs, k) ==
  FlattenSeq([i \in 1 .. k |-> SubSeq(data, rs[i].at + 1, rs[i].at + rs[i].len)])

Part(data, rs, k) == SubSeq(data, rs[k].at + 1, rs[k].at + rs[k].len)

Within(data, rs) ==
  /\ data \in Seq(Bytes) /\ rs \in Seq(Spans) /\ InOrder(rs)
  /\ \A i \in DOMAIN rs : rs[i].at + rs[i].len <= Len(data)

(* Compaction lays the payloads of the pieces one behind the other.        *)
LEMMA MovedMore ==
  ASSUME NEW data, NEW rs, Within(data, rs)
  PROVE  /\ Moved(data, rs, 0) = <<>>
         /\ \A k \in 0 .. Len(rs) : Moved(data, rs, k) \in Seq(Bytes)
         /\ \A k \in 1 .. Len(rs) :
              /\ Moved(data, rs, k) = Moved(data, rs, k - 1) \o Part(data, rs, k)
              /\ Part(data, rs, k) \in Seq(Bytes) /\ Len(Part(data, rs, k)) = rs[k].len
              /\ \A j \in 1 .. rs[k].len : Part(data, rs, k)[j] = data[rs[k].at + j]
<1> DEFINE n == Len(rs)
           part(i) == SubSeq(data, rs[i].at + 1, rs[i].at + rs[i].len)
           t == [i \in 1 .. n |-> part(i)]
<1>1. n \in Nat /\ DOMAIN rs = 1 .. n /\ Len(data) \in Nat
  BY DEF Within
<1>2. \A i \in 1 .. n : /\ rs[i].at \in Nat /\ rs[i].len \in Nat
                        /\ rs[i].at + rs[i].len <= Len(data)
  <2>1. \A i \in 1 .. n : rs[i] \in Spans /\ rs[i].at + rs[i].len <= Len(data)
    BY <1>1 DEF Within
  <2> QED
    BY <2>1 DEF Spans
<1> HIDE DEF n
<1>3. ASSUME NEW i \in 1 .. n
      PROVE  /\ part(i) \in Seq(Bytes) /\ Len(part(i)) = rs[i].len
             /\ \A j \in 1 .. rs[i].len : part(i)[j] = data[rs[i].at + j]
  <2> DEFINE a == rs[i].at
             l == rs[i].len
  <2>1. a \in Nat /\ l \in Nat /\ a + l <= Len(data) /\ data \in Seq(Bytes)
    BY <1>2 DEF Within
  <2> HIDE DEF a, l
  <2>2. \A j \in a + 1 .. a + l : data[j] \in Bytes
    BY <1>1, <2>1
  <2> DEFINE c == SubSeq(data, a + 1, a + l)
  <2>3. /\ c \in Seq(Bytes)
        /\ Len(c) = IF a + 1 <= a + l THEN a + l - (a + 1) + 1 ELSE 0
        /\ \A j \in 1 .. a + l - (a + 1) + 1 : c[j] = data[(a + 1) + j - 1]
    BY SMTT(60), <2>1, <2>2, SubSeqProperties
  <2> HIDE DEF c
  <2>4. a + l - (a + 1) + 1 = l /\ \A j \in 1 .. l : (a + 1) + j - 1 = a + j
    BY <2>1
  <2>5. c \in Seq(Bytes) /\ Len(c) = l /\ \A j \in 1 .. l : c[j] = data[a + j]
    BY <2>1, <2>3, <2>4
  <2> QED
    BY <2>5 DEF a, l, c
<1>4. \A i \in 1 .. n : t[i] = part(i)
  OBVIOUS
<1>5. ASSUME NEW k \in 0 .. n PROVE Moved(data, rs, k) = Flat(t, k)
  <2>1. [i \in 1 .. k |-> t[i]] = [i \in 1 .. k |-> part(i)]
    <3>1. \A i \in 1 .. k : i \in 1 .. n
      BY <1>1
    <3> HIDE DEF part
    <3> QED
      BY <1>4, <3>1
  <2> HIDE DEF t
  <2> QED
    BY <2>1, Zenon DEF Moved, Flat
<1> HIDE DEF part, t
<1>6. \A i \in 1 .. n : t[i] \in Seq(Bytes)
  BY <1>3, <1>4
<1>7. Moved(data, rs, 0) = <<>>
  <2>1. 0 \in 0 .. n
    BY <1>1
  <2> QED
    BY <1>5, <2>1, FlatNone
<1>8. \A k \in 0 .. n : Flat(t, k) \in Seq(Bytes)
  BY <1>1, <1>6, FlatTyped
<1>9. ASSUME NEW k \in 1 .. n PROVE Moved(data, rs, k) = Moved(data, rs, k - 1) \o part(k)
  <2>1. k \in Nat \ {0} /\ 1 \in 1 .. n /\ k \in 0 .. n /\ k - 1 \in 0 .. n
    BY <1>1
  <2>2. t[1] \in Seq(Bytes)
    BY <1>6, <2>1
  <2>3. Flat(t, k) = Flat(t, k - 1) \o t[k]
    BY <2>1, <2>2, FlatMore
  <2> QED
    BY <1>4, <1>5, <2>1, <2>3
<1>10. \A k \in 0 .. n : Moved(data, rs, k) \in Seq(Bytes)
  BY <1>5, <1>8
<1> QED
  BY <1>3, <1>7, <1>9, <1>10 DEF n, part, Part

(* They move down, one behind the other, and keep their bytes.             *)
LEMMA MovedIs ==
  ASSUME NEW data, NEW rs, Within(data, rs)
  PROVE  /\ Moved(data, rs, 0) = <<>>
         /\ \A k \in 0 .. Len(rs) : Moved(data, rs, k) \in Seq(Bytes)
         /\ \A k \in 1 .. Len(rs) :
              /\ Len(Moved(data, rs, k)) = Len(Moved(data, rs, k - 1)) + rs[k].len
              /\ Len(Moved(data, rs, k)) <= rs[k].at + rs[k].len
         /\ \A k \in 1 .. Len(rs) : \A j \in 1 .. rs[k].len :
              Moved(data, rs, Len(rs))[Len(Moved(data, rs, k - 1)) + j] = data[rs[k].at + j]
<1> DEFINE n == Len(rs)
           M(k) == Moved(data, rs, k)
           part(k) == Part(data, rs, k)
<1>1. n \in Nat /\ DOMAIN rs = 1 .. n
  BY DEF Within
<1>2. \A i \in 1 .. n : rs[i].at \in Nat /\ rs[i].len \in Nat
  <2>1. \A i \in 1 .. n : rs[i] \in Spans
    BY <1>1 DEF Within
  <2> QED
    BY <2>1 DEF Spans
<1>3. M(0) = <<>> /\ \A k \in 0 .. n : M(k) \in Seq(Bytes)
  BY MovedMore
<1>4. \A k \in 1 .. n : /\ M(k) = M(k - 1) \o part(k)
                        /\ part(k) \in Seq(Bytes) /\ Len(part(k)) = rs[k].len
                        /\ \A j \in 1 .. rs[k].len : part(k)[j] = data[rs[k].at + j]
  BY MovedMore
<1> HIDE DEF n, M, part
<1>5. ASSUME NEW k \in 1 .. n
      PROVE  /\ k - 1 \in 0 .. n /\ k \in 0 .. n
             /\ Len(M(k)) = Len(M(k - 1)) + rs[k].len
             /\ Len(M(k)) \in Nat /\ Len(M(k - 1)) \in Nat
             /\ \A j \in 1 .. Len(M(k - 1)) : M(k)[j] = M(k - 1)[j]
             /\ \A j \in 1 .. rs[k].len : M(k)[Len(M(k - 1)) + j] = data[rs[k].at + j]
  <2>1. k - 1 \in 0 .. n /\ k \in 0 .. n
    BY <1>1
  <2>2. M(k - 1) \in Seq(Bytes) /\ part(k) \in Seq(Bytes) /\ M(k) \in Seq(Bytes)
    BY <1>3, <1>4, <2>1
  <2>3. /\ Len(M(k - 1) \o part(k)) = Len(M(k - 1)) + Len(part(k))
        /\ \A j \in 1 .. Len(M(k - 1)) : (M(k - 1) \o part(k))[j] = M(k - 1)[j]
        /\ \A j \in 1 .. Len(part(k)) :
             (M(k - 1) \o part(k))[Len(M(k - 1)) + j] = part(k)[j]
    BY <2>2, Behind
  <2>4. Len(M(k)) \in Nat /\ Len(M(k - 1)) \in Nat
    BY <2>2
  <2>5. /\ M(k) = M(k - 1) \o part(k) /\ Len(part(k)) = rs[k].len
        /\ \A j \in 1 .. rs[k].len : part(k)[j] = data[rs[k].at + j]
    BY <1>4
  <2> QED
    BY <2>1, <2>3, <2>4, <2>5
<1> DEFINE S == {k \in 0 .. n : k = 0 \/ Len(M(k)) <= rs[k].at + rs[k].len}
<1>6. 0 \in S
  BY <1>1
<1>7. ASSUME NEW k \in 1 .. n, k - 1 \in S PROVE k \in S
  <2>1. Len(M(k)) = Len(M(k - 1)) + rs[k].len /\ Len(M(k - 1)) \in Nat /\ k \in 0 .. n
    BY <1>5
  <2>2. Len(M(k - 1)) <= rs[k].at
    <3>1. CASE k = 1
      <4>1. Len(M(k - 1)) = 0
        BY <1>3, <3>1
      <4> QED
        BY <1>2, <4>1
    <3>2. CASE k # 1
      <4>1. k - 1 \in 1 .. n /\ k - 1 < k
        BY <1>1, <3>2
      <4>2. Len(M(k - 1)) <= rs[k - 1].at + rs[k - 1].len
        BY <1>7, <4>1
      <4>3. rs[k - 1].at + rs[k - 1].len <= rs[k].at
        <5>1. Follows(rs[k - 1], rs[k])
          BY <1>1, <4>1 DEF Within, InOrder
        <5> QED
          BY <5>1 DEF Follows
      <4>4. rs[k - 1].at \in Nat /\ rs[k - 1].len \in Nat /\ rs[k].at \in Nat
        BY <1>2, <4>1
      <4> QED
        BY <2>1, <4>2, <4>3, <4>4
    <3> QED
      BY <3>1, <3>2
  <2>3. rs[k].at \in Nat /\ rs[k].len \in Nat
    BY <1>2
  <2>4. Len(M(k)) <= rs[k].at + rs[k].len
    BY <2>1, <2>2, <2>3
  <2> QED
    BY <2>1, <2>4
<1> HIDE DEF S
<1>8. \A k \in 0 .. n : k \in S
  BY <1>1, <1>6, <1>7, Upwards
<1>9. \A k \in 1 .. n : Len(M(k)) <= rs[k].at + rs[k].len
  <2>1. \A k \in 1 .. n : k \in 0 .. n /\ k # 0
    BY <1>1
  <2> QED
    BY <1>8, <2>1 DEF S
<1> DEFINE Kept(m) == \A k \in 1 .. m : /\ Len(M(k)) <= Len(M(m))
                                        /\ \A j \in 1 .. rs[k].len :
                                             M(m)[Len(M(k - 1)) + j] = data[rs[k].at + j]
           T == {m \in 0 .. n : Kept(m)}
<1>10. 0 \in T
  BY <1>1
<1>11. ASSUME NEW m \in 1 .. n, m - 1 \in T PROVE m \in T
  <2>1. /\ m \in 0 .. n /\ Len(M(m)) = Len(M(m - 1)) + rs[m].len
        /\ Len(M(m - 1)) \in Nat /\ rs[m].len \in Nat /\ Len(M(m)) \in Nat
        /\ \A j \in 1 .. Len(M(m - 1)) : M(m)[j] = M(m - 1)[j]
        /\ \A j \in 1 .. rs[m].len : M(m)[Len(M(m - 1)) + j] = data[rs[m].at + j]
    BY <1>2, <1>5
  <2>2. Kept(m - 1)
    BY <1>11
  <2>3. ASSUME NEW k \in 1 .. m
        PROVE  /\ Len(M(k)) <= Len(M(m))
               /\ \A j \in 1 .. rs[k].len : M(m)[Len(M(k - 1)) + j] = data[rs[k].at + j]
    <3>1. CASE k = m
      BY <2>1, <3>1
    <3>2. CASE k # m
      <4>1. k \in 1 .. m - 1 /\ k \in 1 .. n
        BY <1>1, <3>2
      <4>2. /\ Len(M(k)) <= Len(M(m - 1))
            /\ \A j \in 1 .. rs[k].len : M(m - 1)[Len(M(k - 1)) + j] = data[rs[k].at + j]
        BY <2>2, <4>1
      <4>3. Len(M(k)) = Len(M(k - 1)) + rs[k].len /\ Len(M(k - 1)) \in Nat
            /\ rs[k].len \in Nat
        BY <1>2, <1>5, <4>1
      <4>4. ASSUME NEW j \in 1 .. rs[k].len
            PROVE  Len(M(k - 1)) + j \in 1 .. Len(M(m - 1))
        BY <2>1, <4>2, <4>3, SMTT(60)
      <4>5. Len(M(k)) <= Len(M(m))
        BY <2>1, <4>2, <4>3
      <4> QED
        BY <2>1, <4>2, <4>4, <4>5
    <3> QED
      BY <3>1, <3>2
  <2> HIDE DEF Kept
  <2>4. Kept(m)
    BY <2>3 DEF Kept
  <2> QED
    BY <2>1, <2>4
<1> HIDE DEF T, Kept
<1>12. \A m \in 0 .. n : m \in T
  BY <1>1, <1>10, <1>11, Upwards
<1>13. Kept(n)
  <2>1. n \in 0 .. n
    BY <1>1
  <2> QED
    BY <1>12, <2>1 DEF T
<1>14. \A k \in 1 .. n : \A j \in 1 .. rs[k].len :
         M(n)[Len(M(k - 1)) + j] = data[rs[k].at + j]
  BY <1>13 DEF Kept
<1> QED
  BY <1>3, <1>5, <1>9, <1>14 DEF n, M

(* The bytes of a piece are the bytes of its offsets.                      *)
LEMMA PieceCells ==
  ASSUME NEW st, Packed(st), NEW i \in DOMAIN st.spans, NEW r, Piece(r, st.spans[i]),
         NEW p \in Int, Covers(r, p)
  PROVE  /\ Covers(st.spans[i], p)
         /\ Cell(st, i, p) = st.data[r.at + (p - r.start) + 1]
<1> DEFINE s == st.spans[i]
<1>1. s \in Spans /\ r \in Spans
  BY DEF Packed, Index, Piece
<1>2. /\ s.start <= r.start /\ SpanEnd(r) <= SpanEnd(s) /\ r.at + s.start = s.at + r.start
      /\ r.start <= p /\ p < SpanEnd(r)
  BY DEF Piece, Covers
<1>3. /\ s.start \in Nat /\ s.at \in Nat /\ r.start \in Nat /\ r.at \in Nat
      /\ SpanEnd(r) \in Nat /\ SpanEnd(s) \in Nat
  BY <1>1 DEF Spans, SpanEnd
<1>4. s.start <= p /\ p < SpanEnd(s)
  BY <1>2, <1>3
<1>5. r.at + (p - r.start) + 1 = s.at + (p - s.start) + 1
  BY <1>1, <1>2, SamePlace
<1> QED
  BY <1>4, <1>5 DEF Covers, Cell

(* The payloads lie within data.                                           *)
LEMMA PiecesWithin ==
  ASSUME NEW st, Packed(st), NEW lo \in Nat, NEW hi \in Nat,
         NEW rs, Leaves(rs, st.spans, lo, hi, Len(st.spans))
  PROVE  /\ Within(st.data, rs)
         /\ \A i \in DOMAIN rs : /\ rs[i] \in Spans /\ rs[i].len > 0
                                 /\ SpanEnd(rs[i]) <= MaxAddr
                                 /\ \E j \in DOMAIN st.spans : Piece(rs[i], st.spans[j])
<1>1. /\ rs \in Seq(Spans) /\ InOrder(rs)
      /\ \A i \in DOMAIN rs : \E j \in 1 .. Len(st.spans) : Piece(rs[i], st.spans[j])
  BY DEF Leaves
<1>2. DOMAIN st.spans = 1 .. Len(st.spans) /\ st.data \in Seq(Bytes) /\ Len(st.data) \in Nat
  BY DEF Packed, Index
<1>3. ASSUME NEW i \in DOMAIN rs
      PROVE  /\ rs[i] \in Spans /\ rs[i].len > 0
             /\ SpanEnd(rs[i]) <= MaxAddr /\ rs[i].at + rs[i].len <= Len(st.data)
             /\ \E j \in DOMAIN st.spans : Piece(rs[i], st.spans[j])
  <2>1. PICK j \in DOMAIN st.spans : Piece(rs[i], st.spans[j])
    BY <1>1, <1>2
  <2> DEFINE r == rs[i]
             s == st.spans[j]
  <2>2. r \in Spans /\ r.len > 0 /\ s \in Spans
    BY <2>1 DEF Packed, Index, Piece
  <2>3. SpanEnd(s) <= MaxAddr /\ MaxAddr \in Nat
    <3>1. SpanEnd(s) <= MaxAddr
      BY DEF Packed, Index
    <3>2. MaxAddr \in Nat
      BY Addresses
    <3> QED
      BY <3>1, <3>2
  <2>4. s.at + s.len <= Len(st.data)
    BY LaidWithin
  <2>5. SpanEnd(r) <= SpanEnd(s) /\ r.at + s.start = s.at + r.start
    BY <2>1 DEF Piece
  <2>6. /\ s.start \in Nat /\ s.at \in Nat /\ s.len \in Nat
        /\ r.start \in Nat /\ r.at \in Nat /\ r.len \in Nat
        /\ SpanEnd(r) = r.start + r.len /\ SpanEnd(s) = s.start + s.len
    BY <2>2 DEF Spans, SpanEnd
  <2> HIDE DEF r, s
  <2>7. SpanEnd(r) <= MaxAddr /\ r.at + r.len <= Len(st.data)
    BY SMTT(60), <1>2, <2>3, <2>4, <2>5, <2>6
  <2> QED
    BY <2>1, <2>2, <2>7 DEF r
<1> QED
  BY <1>1, <1>2, <1>3 DEF Within

(* Compacting what a release left gives a packed store again, which holds  *)
(* what was held outside the cut.                                          *)
LEMMA CompactedPacked ==
  ASSUME NEW st, Packed(st), NEW lo \in Nat, NEW hi \in Nat,
         NEW rs, Leaves(rs, st.spans, lo, hi, Len(st.spans)), Len(rs) <= MaxSpans
  PROVE  /\ Packed(Compacted(st, rs))
         /\ \A p \in Int : PackedByte(Compacted(st, rs), p) =
              IF p \in lo .. hi - 1 THEN "none" ELSE PackedByte(st, p)
<1> DEFINE data == st.data
           m == Len(rs)
           M(k) == Moved(data, rs, k)
           q == [i \in DOMAIN rs |-> [rs[i] EXCEPT !.at = Len(M(i - 1))]]
           after == [data |-> M(m), spans |-> q]
<1>1. Compacted(st, rs) = after
  BY Zenon DEF Compacted, Moved
<1>2. /\ Within(data, rs)
      /\ \A i \in DOMAIN rs : /\ rs[i] \in Spans /\ rs[i].len > 0
                              /\ SpanEnd(rs[i]) <= MaxAddr
                              /\ \E j \in DOMAIN st.spans : Piece(rs[i], st.spans[j])
  BY PiecesWithin
<1>3. m \in Nat /\ DOMAIN rs = 1 .. m /\ data \in Seq(Bytes) /\ Len(data) \in Nat
      /\ rs \in Seq(Spans) /\ InOrder(rs)
  BY <1>2 DEF Within
<1>4. /\ M(0) = <<>>
      /\ \A k \in 0 .. m : M(k) \in Seq(Bytes)
      /\ \A k \in 1 .. m : /\ Len(M(k)) = Len(M(k - 1)) + rs[k].len
                           /\ Len(M(k)) <= rs[k].at + rs[k].len
      /\ \A k \in 1 .. m : \A j \in 1 .. rs[k].len :
           M(m)[Len(M(k - 1)) + j] = data[rs[k].at + j]
  BY <1>2, MovedIs
<1> HIDE DEF data, m, M
<1>5. \A k \in 0 .. m : Len(M(k)) \in Nat
  BY <1>4
<1>6. ASSUME NEW k \in 1 .. m
      PROVE  /\ q[k] = [start |-> rs[k].start, at |-> Len(M(k - 1)), len |-> rs[k].len]
             /\ q[k] \in Spans /\ q[k].start = rs[k].start /\ q[k].len = rs[k].len
             /\ q[k].at = Len(M(k - 1)) /\ SpanEnd(q[k]) = SpanEnd(rs[k])
             /\ rs[k].len \in Nat
  <2>1. rs[k] \in Spans /\ Len(M(k - 1)) \in Nat
    <3>1. k - 1 \in 0 .. m
      BY <1>3
    <3> QED
      BY <1>2, <1>3, <1>5, <3>1
  <2>2. q[k] = [rs[k] EXCEPT !.at = Len(M(k - 1))]
    BY <1>3
  <2>3. q[k] = [start |-> rs[k].start, at |-> Len(M(k - 1)), len |-> rs[k].len]
    BY <2>1, <2>2, FieldsSet
  <2> HIDE DEF q
  <2> QED
    BY <2>1, <2>3 DEF Spans, SpanEnd
<1>7. q \in Seq(Spans) /\ Len(q) = m /\ DOMAIN q = 1 .. m
  <2>1. DOMAIN q = 1 .. m /\ q = [k \in 1 .. m |-> q[k]]
    BY <1>3
  <2> HIDE DEF q
  <2>2. q \in [1 .. m -> Spans]
    BY <1>6, <2>1
  <2> QED
    BY <1>3, <2>1, <2>2
<1> HIDE DEF q
<1>8. Index(q)
  <2>1. \A i \in 1 .. m : q[i].len > 0 /\ SpanEnd(q[i]) <= MaxAddr
    BY <1>2, <1>3, <1>6
  <2>2. ASSUME NEW i \in 1 .. m, NEW j \in 1 .. m, i < j PROVE SpanEnd(q[i]) < q[j].start
    <3>1. Follows(rs[i], rs[j])
      BY <1>3, <2>2 DEF InOrder
    <3> QED
      BY <1>6, <3>1 DEF Follows
  <2> QED
    BY <1>7, <2>1, <2>2 DEF Index
<1>9. Laid(q)
  <2> SUFFICES ASSUME NEW k \in 1 .. m PROVE LaidAt(q, k)
    BY <1>7 DEF Laid
  <2>1. q[k].at = Len(M(k - 1))
    BY <1>6
  <2>2. CASE k = 1
    <3>1. Len(M(k - 1)) = 0
      BY <1>4, <2>2
    <3> QED
      BY <2>1, <2>2, <3>1 DEF LaidAt
  <2>3. CASE k # 1
    <3>1. k - 1 \in 1 .. m
      BY <1>3, <2>3
    <3>2. Len(M(k - 1)) = Len(M(k - 1 - 1)) + rs[k - 1].len
      BY <1>4, <3>1
    <3>3. q[k - 1].at = Len(M(k - 1 - 1)) /\ q[k - 1].len = rs[k - 1].len
      BY <1>6, <3>1
    <3> QED
      BY <2>1, <2>3, <3>2, <3>3 DEF LaidAt
  <2> QED
    BY <2>2, <2>3
<1>10. Len(M(m)) = IF q = <<>> THEN 0 ELSE q[Len(q)].at + q[Len(q)].len
  <2>1. q = <<>> <=> m = 0
    BY <1>3, <1>7
  <2>2. CASE m = 0
    <3>1. Len(M(m)) = 0
      BY <1>4, <2>2
    <3> QED
      BY <2>1, <2>2, <3>1
  <2>3. CASE m # 0
    <3>1. m \in 1 .. m
      BY <1>3, <2>3
    <3>2. Len(M(m)) = Len(M(m - 1)) + rs[m].len
      BY <1>4, <3>1
    <3>3. q[m].at = Len(M(m - 1)) /\ q[m].len = rs[m].len
      BY <1>6, <3>1
    <3> QED
      BY <1>7, <2>1, <2>3, <3>2, <3>3
  <2> QED
    BY <2>2, <2>3
<1>11. Len(M(m)) <= Cap /\ M(m) \in Seq(Bytes)
  <2>1. m \in 0 .. m
    BY <1>3
  <2>2. Len(M(m)) <= Len(data)
    <3>1. CASE m = 0
      BY <1>3, <1>4, <3>1
    <3>2. CASE m # 0
      <4>1. m \in 1 .. m
        BY <1>3, <3>2
      <4>2. Len(M(m)) <= rs[m].at + rs[m].len
        BY <1>4, <4>1
      <4>3. rs[m].at + rs[m].len <= Len(data)
        BY <1>2, <1>3, <4>1 DEF Within
      <4>4. rs[m].at \in Nat /\ rs[m].len \in Nat
        <5>1. rs[m] \in Spans
          BY <1>2, <1>3, <4>1
        <5> QED
          BY <5>1 DEF Spans
      <4> QED
        BY <1>3, <1>5, <2>1, <4>2, <4>3, <4>4
    <3> QED
      BY <3>1, <3>2
  <2>3. Len(data) <= Cap /\ Cap \in Nat
    <3>1. Cap \in Nat
      BY Addresses
    <3> QED
      BY <3>1 DEF Packed, data
  <2> QED
    BY <1>3, <1>4, <1>5, <2>1, <2>2, <2>3
<1>12. ASSUME NEW k \in 1 .. m, NEW p \in Int, Covers(q[k], p)
       PROVE  /\ Covers(rs[k], p)
              /\ \E i \in DOMAIN st.spans :
                   /\ Covers(st.spans[i], p)
                   /\ Cell(st, i, p) = M(m)[q[k].at + (p - q[k].start) + 1]
  <2>1. Covers(rs[k], p)
    BY <1>6, <1>12 DEF Covers
  <2>2. PICK i \in DOMAIN st.spans : Piece(rs[k], st.spans[i])
    BY <1>2, <1>3
  <2>3. Covers(st.spans[i], p) /\ Cell(st, i, p) = data[rs[k].at + (p - rs[k].start) + 1]
    BY <2>1, <2>2, PieceCells DEF data
  <2> DEFINE j == p - rs[k].start + 1
  <2>4. /\ rs[k].start \in Nat /\ rs[k].at \in Nat /\ rs[k].len \in Nat
        /\ SpanEnd(rs[k]) = rs[k].start + rs[k].len
    <3>1. rs[k] \in Spans
      BY <1>2, <1>3
    <3> QED
      BY <3>1 DEF Spans, SpanEnd
  <2>5. j \in 1 .. rs[k].len /\ rs[k].at + (p - rs[k].start) + 1 = rs[k].at + j
    <3>1. rs[k].start <= p /\ p < rs[k].start + rs[k].len
      BY <2>1, <2>4 DEF Covers
    <3>2. j \in 1 .. rs[k].len
      BY SMTT(60), <2>4, <3>1
    <3>3. rs[k].at + (p - rs[k].start) + 1 = rs[k].at + j
      <4>1. \A a, s, x \in Int : a + (x - s) + 1 = a + (x - s + 1)
        OBVIOUS
      <4>2. rs[k].at \in Int /\ rs[k].start \in Int /\ p \in Int
        BY <2>4
      <4> QED
        BY <4>1, <4>2
    <3> QED
      BY <3>2, <3>3
  <2>6. q[k].at + (p - q[k].start) + 1 = Len(M(k - 1)) + j
    <3>1. k - 1 \in 0 .. m
      BY <1>3
    <3>2. Len(M(k - 1)) \in Nat
      BY <1>5, <3>1
    <3>3. q[k].at = Len(M(k - 1)) /\ q[k].start = rs[k].start
      BY <1>6
    <3> QED
      BY <2>4, <3>2, <3>3
  <2> HIDE DEF j
  <2>7. M(m)[Len(M(k - 1)) + j] = data[rs[k].at + j]
    BY <1>4, <2>5
  <2> QED
    BY <2>1, <2>3, <2>5, <2>6, <2>7
<1>13. Placed(M(m), q)
  <2> SUFFICES ASSUME NEW k \in 1 .. m, NEW j \in 1 .. q[k].len
               PROVE  M(m)[q[k].at + j][1] = q[k].start + j - 1
    BY <1>7 DEF Placed
  <2> DEFINE p == q[k].start + j - 1
  <2>1. q[k].start \in Nat /\ q[k].at \in Nat /\ q[k].len \in Nat
        /\ SpanEnd(q[k]) = q[k].start + q[k].len
    BY <1>6 DEF Spans, SpanEnd
  <2>2. p \in Int /\ Covers(q[k], p) /\ q[k].at + (p - q[k].start) + 1 = q[k].at + j
    BY SMTT(60), <2>1 DEF Covers
  <2> HIDE DEF p
  <2>3. PICK i \in DOMAIN st.spans :
          /\ Covers(st.spans[i], p)
          /\ Cell(st, i, p) = M(m)[q[k].at + j]
    BY <1>12, <2>2
  <2>4. Cell(st, i, p)[1] = p
    BY <2>2, <2>3, CellIs
  <2> QED
    BY <2>3, <2>4 DEF p
<1>14. Packed(after)
  BY <1>7, <1>8, <1>9, <1>10, <1>11, <1>13 DEF Packed, m
<1>15. ASSUME NEW p \in Int
       PROVE  PackedByte(after, p) = IF p \in lo .. hi - 1 THEN "none" ELSE PackedByte(st, p)
  <2>1. after.spans = q /\ after.data = M(m)
    OBVIOUS
  <2> HIDE DEF after
  <2>2. (\E i \in 1 .. m : Covers(rs[i], p))
          <=> (\E j \in DOMAIN st.spans : Covers(st.spans[j], p)) /\ p \notin lo .. hi - 1
    <3>1. DOMAIN st.spans = 1 .. Len(st.spans)
      BY DEF Packed, Index
    <3> QED
      BY <1>3, <3>1 DEF Leaves
  <2>3. \A i \in 1 .. m : Covers(q[i], p) <=> Covers(rs[i], p)
    BY <1>6 DEF Covers
  <2>4. CASE \E k \in 1 .. m : Covers(q[k], p)
    <3>1. PICK k \in 1 .. m : Covers(q[k], p)
      BY <2>4
    <3>2. PackedByte(after, p) = Cell(after, k, p)[2]
      BY <1>7, <1>14, <2>1, <3>1, PackedByteIs
    <3>3. Cell(after, k, p) = M(m)[q[k].at + (p - q[k].start) + 1]
      BY <2>1 DEF Cell
    <3>4. PICK i \in DOMAIN st.spans :
            /\ Covers(st.spans[i], p)
            /\ Cell(st, i, p) = M(m)[q[k].at + (p - q[k].start) + 1]
      BY <1>12, <3>1
    <3>5. PackedByte(st, p) = Cell(st, i, p)[2]
      BY <3>4, PackedByteIs
    <3>6. p \notin lo .. hi - 1
      BY <2>2, <2>3, <3>1
    <3> QED
      BY <3>2, <3>3, <3>4, <3>5, <3>6
  <2>5. CASE ~\E k \in 1 .. m : Covers(q[k], p)
    <3>1. PackedByte(after, p) = "none"
      BY <1>7, <1>14, <2>1, <2>5, PackedByteIs
    <3>2. p \in lo .. hi - 1 \/ PackedByte(st, p) = "none"
      <4>1. p \in lo .. hi - 1 \/ ~\E j \in DOMAIN st.spans : Covers(st.spans[j], p)
        BY <2>2, <2>3, <2>5
      <4> QED
        BY <4>1, PackedByteIs
    <3> QED
      BY <3>1, <3>2
  <2> QED
    BY <2>4, <2>5
<1> HIDE DEF after
<1> QED
  BY <1>1, <1>14, <1>15

(* A release leaves the store packed.  It is refused when it would split a *)
(* span with the index full, or forgets what it names and nothing else.    *)
LEMMA ReleasePacked ==
  ASSUME NEW st, Packed(st), NEW lo \in Nat, NEW hi \in Nat
  PROVE  LET c == Release(st, lo, hi)
         IN \/ /\ c = [store |-> st, result |-> Refused("span_limit")] /\ lo # 0
               /\ lo < hi /\ Len(st.spans) = MaxSpans
               /\ Splits(st.spans, lo, hi, Len(st.spans))
            \/ /\ Packed(c.store) /\ c.result = Accepted(0)
               /\ \A p \in Int : PackedByte(c.store, p) =
                    IF p \in lo .. hi - 1 THEN "none" ELSE PackedByte(st, p)
<1> DEFINE n == Len(st.spans)
           pieces == FlattenSeq([i \in DOMAIN st.spans |-> Remains(st.spans[i], lo, hi)])
           splits == \E i \in DOMAIN st.spans :
                       st.spans[i].start < lo /\ hi < SpanEnd(st.spans[i])
           c == Release(st, lo, hi)
           done == /\ Packed(c.store) /\ c.result = Accepted(0)
                   /\ \A p \in Int : PackedByte(c.store, p) =
                        IF p \in lo .. hi - 1 THEN "none" ELSE PackedByte(st, p)
<1>1. c = IF lo >= hi THEN [store |-> st, result |-> Accepted(0)]
          ELSE IF splits /\ n = MaxSpans
          THEN [store |-> st, result |-> Refused("span_limit")]
          ELSE [store |-> Compacted(st, pieces), result |-> Accepted(0)]
  BY Zenon DEF Release
<1>2. Index(st.spans) /\ Laid(st.spans) /\ n \in Nat /\ DOMAIN st.spans = 1 .. n /\ n <= MaxSpans
  BY DEF Packed, Index
<1>3. splits => lo # 0
  <2> SUFFICES ASSUME NEW i \in DOMAIN st.spans, st.spans[i].start < lo PROVE lo # 0
    OBVIOUS
  <2>1. st.spans[i].start \in Nat
    BY <1>2, SpanFields
  <2> QED
    BY <2>1
<1>4. splits <=> Splits(st.spans, lo, hi, n)
  BY <1>2 DEF Splits
<1> HIDE DEF c, splits
<1>5. ASSUME lo >= hi PROVE done
  <2>1. c.store = st /\ c.result = Accepted(0)
    BY <1>1, <1>5
  <2>2. \A p \in Int : p \notin lo .. hi - 1
    BY <1>5
  <2> QED
    BY <2>1, <2>2
<1>6. ASSUME lo < hi, ~(splits /\ n = MaxSpans) PROVE done
  <2>1. ~(lo >= hi)
    BY <1>6
  <2>2. c.store = Compacted(st, pieces) /\ c.result = Accepted(0)
    BY <1>1, <1>6, <2>1
  <2>3. Leaves(pieces, st.spans, lo, hi, n)
    BY <1>2, <1>6, PiecesAre
  <2> HIDE DEF pieces
  <2>4. Len(pieces) <= MaxSpans
    <3>1. /\ Len(pieces) <= n + 1 /\ (~splits => Len(pieces) <= n)
          /\ pieces \in Seq(Spans)
      BY <1>4, <2>3 DEF Leaves
    <3>2. MaxSpans \in Nat
      BY Addresses
    <3>3. Len(pieces) \in Nat
      BY <3>1
    <3>4. CASE splits
      BY <1>2, <1>6, <3>1, <3>2, <3>3, <3>4
    <3>5. CASE ~splits
      BY <1>2, <3>1, <3>2, <3>3, <3>5
    <3> QED
      BY <3>4, <3>5
  <2>5. /\ Packed(Compacted(st, pieces))
        /\ \A p \in Int : PackedByte(Compacted(st, pieces), p) =
             IF p \in lo .. hi - 1 THEN "none" ELSE PackedByte(st, p)
    <3> HIDE DEF n
    <3>1. Leaves(pieces, st.spans, lo, hi, Len(st.spans))
      BY <2>3 DEF n
    <3> QED
      BY <2>4, <3>1, CompactedPacked
  <2> QED
    BY <2>2, <2>5
<1>7. ASSUME lo < hi, splits, n = MaxSpans
      PROVE  c = [store |-> st, result |-> Refused("span_limit")]
  <2>1. ~(lo >= hi)
    BY <1>7
  <2> QED
    BY <1>1, <1>7, <2>1
<1>8. lo >= hi \/ lo < hi
  OBVIOUS
<1> HIDE DEF done
<1>9. \/ /\ c = [store |-> st, result |-> Refused("span_limit")] /\ lo # 0
         /\ lo < hi /\ n = MaxSpans /\ Splits(st.spans, lo, hi, n)
      \/ done
  BY <1>3, <1>4, <1>5, <1>6, <1>7, <1>8
<1> QED
  BY <1>9 DEF c, done

-----------------------------------------------------------------------------
(* A segment map g.                                                        *)

EndIn(g, s) == s + Len(g[s])
InSegment(g, s, p) == s <= p /\ p < EndIn(g, s)

(* A segment: its bytes, none missing, each under its own offset.          *)
Filled(g, s) ==
  /\ s \in Nat /\ g[s] \in Seq(Bytes) /\ Len(g[s]) > 0
  /\ EndIn(g, s) <= MaxAddr
  /\ \A j \in 1 .. Len(g[s]) : g[s][j][1] = s + j - 1

(* A map of such segments that do not overlap.                             *)
Disjoint(g) ==
  /\ \A s \in DOMAIN g : Filled(g, s)
  /\ \A s, t \in DOMAIN g : s < t => EndIn(g, s) <= t

(* A segment's offsets are numbers within the address range.               *)
LEMMA SegmentFields ==
  ASSUME NEW g, NEW s, Filled(g, s)
  PROVE  /\ s \in Nat /\ Len(g[s]) \in Nat \ {0}
         /\ EndIn(g, s) = s + Len(g[s]) /\ EndIn(g, s) \in Nat
         /\ EndIn(g, s) <= MaxAddr /\ s \in Positions
<1>1. MaxAddr \in Nat
  BY Addresses
<1>2. s \in Nat /\ Len(g[s]) \in Nat \ {0} /\ EndIn(g, s) = s + Len(g[s])
      /\ EndIn(g, s) <= MaxAddr
  BY DEF Filled, EndIn
<1>3. EndIn(g, s) \in Nat /\ s < MaxAddr
  BY <1>1, <1>2
<1> QED
  BY <1>1, <1>2, <1>3 DEF Positions

(* HoldsSegment and SegmentAt of a map given as an argument.               *)
HoldsIn(g, p) ==
  LET below == {s \in DOMAIN g : s <= p}
  IN below # {} /\ p < EndIn(g, Max(below))

AtIn(g, p) == Max({s \in DOMAIN g : s <= p})

(* The segment that starts last at p or before it is the one that covers   *)
(* p, if any does: no other neighbour need be looked at.                   *)
LEMMA HolderIs ==
  ASSUME NEW g, Disjoint(g), NEW p \in Int
  PROVE  /\ \A s \in DOMAIN g : InSegment(g, s, p) => HoldsIn(g, p) /\ AtIn(g, p) = s
         /\ HoldsIn(g, p) => \E s \in DOMAIN g : InSegment(g, s, p)
<1> DEFINE below == {s \in DOMAIN g : s <= p}
<1>1. MaxAddr \in Nat
  BY Addresses
<1>2. \A s \in DOMAIN g : s \in Nat /\ s \in 0 .. MaxAddr /\ EndIn(g, s) \in Nat
  <2> SUFFICES ASSUME NEW s \in DOMAIN g
               PROVE s \in Nat /\ s \in 0 .. MaxAddr /\ EndIn(g, s) \in Nat
    OBVIOUS
  <2>1. Filled(g, s)
    BY DEF Disjoint
  <2>2. s \in Nat /\ EndIn(g, s) \in Nat /\ s \in Positions
    BY <2>1, SegmentFields
  <2> QED
    BY <1>1, <2>2 DEF Positions
<1>3. below \in SUBSET (0 .. MaxAddr)
  BY <1>2
<1>4. below # {} => Max(below) \in below /\ \A y \in below : y <= Max(below)
  <2> HIDE DEF below
  <2> QED
    BY <1>1, <1>3, GreatestIs
<1>5. HoldsIn(g, p) <=> below # {} /\ p < EndIn(g, Max(below))
  BY DEF HoldsIn
<1>6. AtIn(g, p) = Max(below)
  BY DEF AtIn
<1>7. ASSUME HoldsIn(g, p) PROVE \E s \in DOMAIN g : InSegment(g, s, p)
  <2>1. Max(below) \in DOMAIN g /\ Max(below) <= p
    BY <1>4, <1>5, <1>7
  <2> QED
    BY <1>5, <1>7, <2>1 DEF InSegment
<1>8. ASSUME NEW s \in DOMAIN g, InSegment(g, s, p) PROVE HoldsIn(g, p) /\ AtIn(g, p) = s
  <2>1. s \in below
    BY <1>8 DEF InSegment
  <2> DEFINE m == Max(below)
  <2>2. m \in below /\ s <= m
    BY <1>4, <2>1
  <2>3. m \in DOMAIN g /\ m <= p /\ m \in Nat /\ s \in Nat
    BY <1>2, <2>2
  <2> HIDE DEF m, below
  <2>4. ~(s < m)
    <3> SUFFICES ASSUME s < m PROVE FALSE
      OBVIOUS
    <3>1. EndIn(g, s) <= m
      BY <2>3 DEF Disjoint
    <3>2. p < EndIn(g, s) /\ EndIn(g, s) \in Nat
      BY <1>2, <1>8 DEF InSegment
    <3> QED
      BY <2>3, <3>1, <3>2
  <2>5. s = m
    BY <2>2, <2>3, <2>4
  <2> QED
    BY <1>5, <1>6, <1>8, <2>1, <2>5 DEF InSegment, m
<1> QED
  BY <1>7, <1>8

(* The byte a read finds at p.                                             *)
SegmentByte(g, p) ==
  IF ~HoldsIn(g, p) THEN "none"
  ELSE LET b == g[AtIn(g, p)][p - AtIn(g, p) + 1]
       IN IF b[1] = p THEN b[2] ELSE "misplaced"

(* It is the one fed for that offset.                                      *)
LEMMA SegmentByteIs ==
  ASSUME NEW g, Disjoint(g), NEW p \in Int
  PROVE  /\ HoldsIn(g, p) <=> \E s \in DOMAIN g : InSegment(g, s, p)
         /\ \A s \in DOMAIN g : InSegment(g, s, p) =>
              /\ AtIn(g, p) = s /\ p \in Positions
              /\ p - s + 1 \in 1 .. Len(g[s])
              /\ g[s][p - s + 1] = <<p, SegmentByte(g, p)>>
              /\ SegmentByte(g, p) = g[s][p - s + 1][2]
              /\ SegmentByte(g, p) \in Versions
         /\ ~HoldsIn(g, p) => SegmentByte(g, p) = "none"
         /\ HoldsIn(g, p) <=> SegmentByte(g, p) # "none"
<1>1. HoldsIn(g, p) <=> \E s \in DOMAIN g : InSegment(g, s, p)
  BY HolderIs
<1>2. ~HoldsIn(g, p) => SegmentByte(g, p) = "none"
  BY DEF SegmentByte
<1>3. ASSUME NEW s \in DOMAIN g, InSegment(g, s, p)
      PROVE  /\ AtIn(g, p) = s /\ p \in Positions
             /\ p - s + 1 \in 1 .. Len(g[s])
             /\ g[s][p - s + 1] = <<p, SegmentByte(g, p)>>
             /\ SegmentByte(g, p) = g[s][p - s + 1][2]
             /\ SegmentByte(g, p) \in Versions
  <2>1. HoldsIn(g, p) /\ AtIn(g, p) = s
    BY <1>3, HolderIs
  <2>2. Filled(g, s)
    BY DEF Disjoint
  <2>3. /\ s \in Nat /\ Len(g[s]) \in Nat /\ EndIn(g, s) = s + Len(g[s])
        /\ EndIn(g, s) <= MaxAddr /\ EndIn(g, s) \in Nat
    BY <2>2, SegmentFields
  <2>4. s <= p /\ p < EndIn(g, s)
    BY <1>3 DEF InSegment
  <2> DEFINE j == p - s + 1
             b == g[s][j]
  <2>5. j \in 1 .. Len(g[s]) /\ s + j - 1 = p
    BY <2>3, <2>4
  <2>6. p \in Positions
    <3>1. MaxAddr \in Nat
      BY Addresses
    <3> QED
      BY <2>3, <2>4, <3>1 DEF Positions
  <2>7. b \in Bytes /\ b[1] = p
    <3>1. g[s] \in Seq(Bytes)
      BY <2>2 DEF Filled
    <3>2. g[s][j] \in Bytes
      BY <2>5, <3>1
    <3>3. g[s][j][1] = s + j - 1
      BY <2>2, <2>5 DEF Filled
    <3> QED
      BY <2>5, <3>2, <3>3
  <2>8. b = <<p, b[2]>> /\ b[2] \in Versions
    BY <2>7 DEF Bytes
  <2>9. SegmentByte(g, p) = b[2]
    BY <2>1, <2>7 DEF SegmentByte
  <2> QED
    BY <2>1, <2>5, <2>6, <2>8, <2>9
<1>4. "none" \notin Versions
  BY Addresses
<1> QED
  BY <1>1, <1>2, <1>3, <1>4

(* The offsets that a map holds.                                           *)
Live(g) == UNION {s .. EndIn(g, s) - 1 : s \in DOMAIN g}

(* They are the ones that a lookup says are held.                          *)
LEMMA LiveIs ==
  ASSUME NEW g, Disjoint(g)
  PROVE  /\ Live(g) \in SUBSET Positions
         /\ \A p \in Int : p \in Live(g) <=> HoldsIn(g, p)
         /\ IsFiniteSet(Live(g)) /\ Cardinality(Live(g)) \in Nat
<1>1. ASSUME NEW s \in DOMAIN g, NEW p
      PROVE  p \in s .. EndIn(g, s) - 1 <=> p \in Int /\ InSegment(g, s, p)
  <2>1. s \in Nat /\ EndIn(g, s) \in Nat
    BY SegmentFields DEF Disjoint
  <2> QED
    BY <2>1 DEF InSegment
<1>2. \A p : p \in Live(g) <=> p \in Int /\ \E s \in DOMAIN g : InSegment(g, s, p)
  BY <1>1 DEF Live
<1>3. \A p \in Int : p \in Live(g) <=> HoldsIn(g, p)
  BY <1>2, SegmentByteIs
<1>4. Live(g) \in SUBSET Positions
  BY <1>2, SegmentByteIs
<1>5. IsFiniteSet(Positions)
  <2>1. MaxAddr \in Nat
    BY Addresses
  <2>2. 0 \in Int /\ MaxAddr - 1 \in Int
    BY <2>1
  <2> QED
    BY <2>2, FS_Interval DEF Positions
<1>6. IsFiniteSet(Live(g))
  BY <1>4, <1>5, FS_Subset
<1> QED
  BY <1>3, <1>4, <1>6, FS_CardinalityType

-----------------------------------------------------------------------------
(* Feeding the segment map.                                                *)

(* Bytes for start, start + 1, ..., all of them free.                      *)
Fresh(g, start, new, v) ==
  /\ start \in Nat /\ new \in Seq(Bytes) /\ Len(new) > 0
  /\ start + Len(new) <= MaxAddr
  /\ \A j \in 1 .. Len(new) : new[j] = <<start + j - 1, v>>
  /\ \A p \in start .. start + Len(new) - 1 : ~HoldsIn(g, p)

(* Joined of a map given as an argument.                                   *)
JoinedIn(g, start, bytes) ==
  LET below == {s \in DOMAIN g : s < start}
  IN IF below # {} /\ EndIn(g, Max(below)) = start
     THEN [g EXCEPT ![Max(below)] = @ \o bytes]
     ELSE Over(Segment(start, bytes), g)

(* No segment reaches into free bytes, and none starts in them.            *)
LEMMA FreshLies ==
  ASSUME NEW g, Disjoint(g), NEW start, NEW new, NEW v, Fresh(g, start, new, v),
         NEW s \in DOMAIN g
  PROVE  /\ s < start => EndIn(g, s) <= start
         /\ s >= start => s >= start + Len(new)
         /\ s # start
<1>1. start \in Nat /\ Len(new) \in Nat \ {0}
  BY DEF Fresh
<1>2. s \in Nat /\ Len(g[s]) \in Nat \ {0} /\ EndIn(g, s) = s + Len(g[s])
      /\ EndIn(g, s) \in Nat
  BY SegmentFields DEF Disjoint
<1>3. \A p \in start .. start + Len(new) - 1 : ~InSegment(g, s, p)
  <2> SUFFICES ASSUME NEW p \in start .. start + Len(new) - 1 PROVE ~InSegment(g, s, p)
    OBVIOUS
  <2>1. p \in Int /\ ~HoldsIn(g, p)
    BY <1>1 DEF Fresh
  <2> QED
    BY <2>1, SegmentByteIs
<1>4. s < start => EndIn(g, s) <= start
  <2> SUFFICES ASSUME s < start, ~(EndIn(g, s) <= start) PROVE FALSE
    OBVIOUS
  <2>1. InSegment(g, s, start)
    BY <1>1, <1>2 DEF InSegment
  <2>2. start \in start .. start + Len(new) - 1
    BY <1>1
  <2> QED
    BY <1>3, <2>1, <2>2
<1>5. s >= start => s >= start + Len(new)
  <2> SUFFICES ASSUME s >= start, ~(s >= start + Len(new)) PROVE FALSE
    OBVIOUS
  <2>1. InSegment(g, s, s)
    BY <1>2 DEF InSegment
  <2>2. s \in start .. start + Len(new) - 1
    BY <1>1, <1>2
  <2> QED
    BY <1>3, <2>1, <2>2
<1> QED
  BY <1>1, <1>2, <1>4, <1>5

(* One function over another.                                              *)
LEMMA OverIs ==
  ASSUME NEW f, NEW g
  PROVE  /\ DOMAIN Over(f, g) = DOMAIN f \cup DOMAIN g
         /\ \A s \in DOMAIN f : Over(f, g)[s] = f[s]
         /\ \A s \in DOMAIN g \ DOMAIN f : Over(f, g)[s] = g[s]
BY DEF Over

(* h is g with the bytes added as segment x, or to the end of segment x.   *)
AddedTo(g, h, x, start, new) ==
  /\ DOMAIN h = DOMAIN g \cup {x}
  /\ \A s \in DOMAIN g \ {x} : h[s] = g[s]
  /\ \/ x = start /\ h[x] = new
     \/ x \in DOMAIN g /\ x < start /\ EndIn(g, x) = start /\ h[x] = g[x] \o new

(* Joined adds them to one or the other.                                   *)
LEMMA JoinedAdds ==
  ASSUME NEW g, Disjoint(g), NEW start, NEW new, NEW v, Fresh(g, start, new, v)
  PROVE  \E x : AddedTo(g, JoinedIn(g, start, new), x, start, new)
<1> DEFINE below == {s \in DOMAIN g : s < start}
           b == Max(below)
           h == JoinedIn(g, start, new)
<1>1. start \in Nat
  BY DEF Fresh
<1>2. below # {} => b \in below
  <2>1. \A s \in DOMAIN g : s \in Nat
    BY SegmentFields DEF Disjoint
  <2>2. below \in SUBSET (0 .. start)
    BY <1>1, <2>1
  <2> HIDE DEF below
  <2> QED
    BY <1>1, <2>2, GreatestIs
<1>3. h = IF below # {} /\ EndIn(g, b) = start
          THEN [g EXCEPT ![b] = g[b] \o new]
          ELSE Over(Segment(start, new), g)
  BY DEF JoinedIn
<1>4. start \notin DOMAIN g
  BY FreshLies
<1>5. CASE below # {} /\ EndIn(g, b) = start
  <2>1. b \in DOMAIN g /\ b < start
    BY <1>2, <1>5
  <2> HIDE DEF h, b, below
  <2>2. h = [g EXCEPT ![b] = g[b] \o new]
    BY <1>3, <1>5
  <2>3. DOMAIN h = DOMAIN g /\ h[b] = g[b] \o new
        /\ \A s \in DOMAIN g \ {b} : h[s] = g[s]
    BY <2>1, <2>2
  <2>4. AddedTo(g, h, b, start, new)
    BY <1>5, <2>1, <2>3 DEF AddedTo
  <2> QED
    BY <2>4 DEF h
<1>6. CASE ~(below # {} /\ EndIn(g, b) = start)
  <2> HIDE DEF h, b, below
  <2>1. h = Over(Segment(start, new), g)
    BY <1>3, <1>6
  <2>2. DOMAIN Segment(start, new) = {start} /\ Segment(start, new)[start] = new
    BY DEF Segment
  <2>3. DOMAIN h = DOMAIN g \cup {start} /\ h[start] = new
        /\ \A s \in DOMAIN g \ {start} : h[s] = g[s]
    <3> DEFINE f == Segment(start, new)
    <3> HIDE DEF f
    <3>1. /\ DOMAIN Over(f, g) = DOMAIN f \cup DOMAIN g
          /\ \A s \in DOMAIN f : Over(f, g)[s] = f[s]
          /\ \A s \in DOMAIN g \ DOMAIN f : Over(f, g)[s] = g[s]
      BY OverIs
    <3>2. DOMAIN f = {start} /\ f[start] = new /\ h = Over(f, g)
      BY <2>1, <2>2 DEF f
    <3> QED
      BY <3>1, <3>2
  <2>4. AddedTo(g, h, start, start, new)
    BY <2>3 DEF AddedTo
  <2> QED
    BY <2>4 DEF h
<1> QED
  BY <1>5, <1>6

(* The segment that the bytes ended up in, byte by byte.                   *)
LEMMA AddedSegment ==
  ASSUME NEW g, Disjoint(g), NEW start, NEW new, NEW v, Fresh(g, start, new, v),
         NEW h, NEW x, AddedTo(g, h, x, start, new)
  PROVE  /\ Filled(h, x) /\ EndIn(h, x) = start + Len(new)
         /\ x < start \/ x = start
         /\ x < start => x \in DOMAIN g /\ EndIn(g, x) = start
         /\ \A p \in Int : InSegment(h, x, p) <=>
              \/ x \in DOMAIN g /\ InSegment(g, x, p)
              \/ p \in start .. start + Len(new) - 1
         /\ \A p \in start .. start + Len(new) - 1 : h[x][p - x + 1] = <<p, v>>
         /\ \A p \in Int : x \in DOMAIN g /\ InSegment(g, x, p) =>
              h[x][p - x + 1] = g[x][p - x + 1]
<1> DEFINE take == Len(new)
<1>1. start \in Nat /\ take \in Nat \ {0}
  BY DEF Fresh
<1>9. start + take <= MaxAddr /\ new \in Seq(Bytes) /\ \A j \in 1 .. take : new[j] = <<start + j - 1, v>>
  BY DEF Fresh
<1>2. CASE x = start /\ h[x] = new
  <2>1. x \notin DOMAIN g
    BY <1>2, FreshLies
  <2>2. EndIn(h, x) = start + take
    BY <1>2 DEF EndIn
  <2>3. Filled(h, x)
    <3>1. \A j \in 1 .. take : h[x][j][1] = x + j - 1
      BY <1>9, <1>2
    <3> QED
      BY <1>1, <1>9, <1>2, <2>2, <3>1 DEF Filled
  <2>4. \A p \in Int : InSegment(h, x, p) <=> p \in start .. start + take - 1
    BY <1>1, <1>2, <2>2 DEF InSegment
  <2>5. ASSUME NEW p \in start .. start + take - 1 PROVE h[x][p - x + 1] = <<p, v>>
    <3>1. p - start + 1 \in 1 .. take /\ start + (p - start + 1) - 1 = p
      BY <1>1
    <3> QED
      BY <1>9, <1>2, <3>1
  <2>6. ~(x < start)
    BY <1>1, <1>2
  <2> QED
    BY <1>2, <2>1, <2>2, <2>3, <2>4, <2>5, <2>6
<1>3. CASE x \in DOMAIN g /\ x < start /\ EndIn(g, x) = start /\ h[x] = g[x] \o new
  <2> DEFINE old == Len(g[x])
  <2>1. Filled(g, x)
    BY <1>3 DEF Disjoint
  <2>2. x \in Nat /\ old \in Nat \ {0} /\ x + old = start
    BY <1>3, <2>1, SegmentFields
  <2>3. g[x] \in Seq(Bytes) /\ \A j \in 1 .. old : g[x][j][1] = x + j - 1
    BY <2>1 DEF Filled
  <2>4. /\ h[x] \in Seq(Bytes) /\ Len(h[x]) = old + take
        /\ \A j \in 1 .. old : h[x][j] = g[x][j]
        /\ \A j \in 1 .. take : h[x][old + j] = new[j]
    BY <1>1, <1>9, <1>3, <2>2, <2>3
  <2>5. EndIn(h, x) = start + take
    <3>1. x + (old + take) = start + take
      BY <1>1, <2>2
    <3> QED
      BY <2>4, <3>1 DEF EndIn
  <2>6. ASSUME NEW p \in start .. start + take - 1 PROVE h[x][p - x + 1] = <<p, v>>
    <3> DEFINE j == p - start + 1
    <3> HIDE DEF take, old
    <3>1. j \in 1 .. take /\ start + j - 1 = p
      BY <1>1
    <3>2. p - x + 1 = old + j
      BY <1>1, <2>2
    <3> HIDE DEF j
    <3> QED
      BY <1>9, <2>4, <3>1, <3>2
  <2>7. ASSUME NEW p \in Int, InSegment(g, x, p)
        PROVE  h[x][p - x + 1] = g[x][p - x + 1] /\ p - x + 1 \in 1 .. old
    <3>1. x <= p /\ p < x + old
      BY <2>7 DEF InSegment, EndIn
    <3>2. p - x + 1 \in 1 .. old
      BY <2>2, <3>1
    <3> QED
      BY <2>4, <3>2
  <2>8. \A p \in Int : InSegment(h, x, p) <=>
          \/ InSegment(g, x, p)
          \/ p \in start .. start + take - 1
    BY <1>1, <1>3, <2>2, <2>5 DEF InSegment
  <2>9. ASSUME NEW j \in 1 .. Len(h[x]) PROVE h[x][j][1] = x + j - 1
    <3> HIDE DEF take, old
    <3>0. j \in Nat /\ j >= 1 /\ j <= old + take
      BY <1>1, <2>2, <2>4
    <3>1. CASE j <= old
      <4>1. j \in 1 .. old
        BY <2>2, <3>0, <3>1
      <4> QED
        BY <2>3, <2>4, <4>1
    <3>2. CASE ~(j <= old)
      <4>1. j - old \in 1 .. take /\ old + (j - old) = j
            /\ start + (j - old) - 1 = x + j - 1
        BY <1>1, <2>2, <3>0, <3>2
      <4>2. h[x][j] = new[j - old]
        BY <2>4, <4>1
      <4>3. new[j - old] = <<start + (j - old) - 1, v>>
        BY <1>9, <4>1
      <4> QED
        BY <4>1, <4>2, <4>3
    <3> QED
      BY <3>1, <3>2
  <2>10. Filled(h, x)
    <3>1. Len(h[x]) > 0
      BY <1>1, <2>2, <2>4
    <3> HIDE DEF take, old
    <3> QED
      BY <1>9, <2>2, <2>4, <2>5, <2>9, <3>1 DEF Filled
  <2> QED
    BY <1>3, <2>5, <2>6, <2>7, <2>8, <2>10
<1> QED
  BY <1>2, <1>3 DEF AddedTo

(* The same byte in segments of two maps.                                  *)
LEMMA SameByte ==
  ASSUME NEW g, Disjoint(g), NEW h, Disjoint(h), NEW p \in Int,
         NEW s \in DOMAIN g, InSegment(g, s, p),
         NEW t \in DOMAIN h, InSegment(h, t, p), h[t][p - t + 1] = g[s][p - s + 1]
  PROVE  SegmentByte(h, p) = SegmentByte(g, p)
<1>1. SegmentByte(g, p) = g[s][p - s + 1][2]
  BY SegmentByteIs
<1>2. SegmentByte(h, p) = h[t][p - t + 1][2]
  BY SegmentByteIs
<1> QED
  BY <1>1, <1>2

(* Free bytes that are joined to a map become the bytes held there.        *)
LEMMA JoinedGrows ==
  ASSUME NEW g, Disjoint(g), NEW start, NEW new, NEW v, Fresh(g, start, new, v)
  PROVE  LET h == JoinedIn(g, start, new)
         IN /\ Disjoint(h)
            /\ \A p \in Int : SegmentByte(h, p) =
                 IF p \in start .. start + Len(new) - 1 THEN v ELSE SegmentByte(g, p)
            /\ Cardinality(Live(h)) = Cardinality(Live(g)) + Len(new)
<1> DEFINE h == JoinedIn(g, start, new)
           range == start .. start + Len(new) - 1
<1>1. PICK x : AddedTo(g, h, x, start, new)
  BY JoinedAdds
<1> HIDE DEF h
<1>2. /\ DOMAIN h = DOMAIN g \cup {x} /\ x \in DOMAIN h
      /\ \A s \in DOMAIN g \ {x} : h[s] = g[s]
  BY <1>1 DEF AddedTo
<1>3. /\ Filled(h, x) /\ EndIn(h, x) = start + Len(new)
      /\ x < start \/ x = start
      /\ x < start => x \in DOMAIN g /\ EndIn(g, x) = start
  BY <1>1, AddedSegment
<1>4. /\ \A p \in Int : InSegment(h, x, p) <=>
           (x \in DOMAIN g /\ InSegment(g, x, p)) \/ p \in range
      /\ \A p \in range : h[x][p - x + 1] = <<p, v>>
      /\ \A p \in Int : x \in DOMAIN g /\ InSegment(g, x, p) =>
           h[x][p - x + 1] = g[x][p - x + 1]
  BY <1>1, AddedSegment
<1>5. start \in Nat /\ Len(new) \in Nat \ {0}
  BY DEF Fresh
<1>6. ASSUME NEW s \in DOMAIN g
      PROVE  /\ s < start => EndIn(g, s) <= start
             /\ s >= start => s >= start + Len(new)
             /\ s \in Nat /\ Filled(g, s) /\ EndIn(g, s) \in Nat
  BY FreshLies, SegmentFields DEF Disjoint
<1>7. ASSUME NEW s \in DOMAIN g, s # x
      PROVE  /\ h[s] = g[s] /\ EndIn(h, s) = EndIn(g, s) /\ Filled(h, s)
             /\ \A p : InSegment(h, s, p) <=> InSegment(g, s, p)
  <2>1. h[s] = g[s]
    BY <1>2, <1>7
  <2>2. EndIn(h, s) = EndIn(g, s)
    BY <2>1 DEF EndIn
  <2> QED
    BY <1>6, <2>1, <2>2 DEF Filled, InSegment
<1>8. x \in Nat
  BY <1>3 DEF Filled
<1>9. Disjoint(h)
  <2>1. ASSUME NEW s \in DOMAIN h PROVE Filled(h, s)
    BY <1>2, <1>3, <1>7
  <2>2. ASSUME NEW s \in DOMAIN h, NEW t \in DOMAIN h, s < t PROVE EndIn(h, s) <= t
    <3>1. CASE s # x /\ t # x
      <4>1. s \in DOMAIN g /\ t \in DOMAIN g
        BY <1>2, <3>1
      <4>2. EndIn(g, s) <= t
        BY <2>2, <4>1 DEF Disjoint
      <4> QED
        BY <1>7, <3>1, <4>1, <4>2
    <3>2. CASE s = x /\ t # x
      <4>1. t \in DOMAIN g /\ t \in Nat
        BY <1>2, <1>6, <3>2
      <4>2. t >= start
        <5>1. CASE x = start
          BY <1>5, <2>2, <3>2, <4>1, <5>1
        <5>2. CASE x < start
          <6>1. x \in DOMAIN g /\ EndIn(g, x) <= t
            BY <1>3, <2>2, <3>2, <4>1, <5>2 DEF Disjoint
          <6> QED
            BY <1>3, <5>2, <6>1
        <5> QED
          BY <1>3, <5>1, <5>2
      <4>3. t >= start + Len(new)
        BY <1>6, <4>1, <4>2
      <4> QED
        BY <1>3, <1>5, <3>2, <4>1, <4>3
    <3>3. CASE s # x /\ t = x
      <4>1. s \in DOMAIN g /\ s \in Nat
        BY <1>2, <1>6, <3>3
      <4>2. EndIn(g, s) <= x
        <5>1. CASE x = start
          BY <1>6, <2>2, <3>3, <4>1, <5>1
        <5>2. CASE x < start
          <6>1. x \in DOMAIN g
            BY <1>3, <5>2
          <6> QED
            BY <2>2, <3>3, <4>1, <6>1 DEF Disjoint
        <5> QED
          BY <1>3, <5>1, <5>2
      <4> QED
        BY <1>7, <3>3, <4>1, <4>2
    <3>4. CASE s = x /\ t = x
      BY <1>8, <2>2, <3>4
    <3> QED
      BY <3>1, <3>2, <3>3, <3>4
  <2> QED
    BY <2>1, <2>2 DEF Disjoint
<1>10. ASSUME NEW p \in Int
       PROVE  SegmentByte(h, p) = IF p \in range THEN v ELSE SegmentByte(g, p)
  <2>1. CASE p \in range
    <3>1. InSegment(h, x, p) /\ h[x][p - x + 1] = <<p, v>>
      BY <1>4, <2>1
    <3>2. SegmentByte(h, p) = h[x][p - x + 1][2]
      BY <1>2, <1>9, <3>1, SegmentByteIs
    <3> QED
      BY <2>1, <3>1, <3>2
  <2>2. CASE p \notin range /\ \E s \in DOMAIN g : InSegment(g, s, p)
    <3>1. PICK s \in DOMAIN g : InSegment(g, s, p)
      BY <2>2
    <3>2. s \in DOMAIN h /\ InSegment(h, s, p) /\ h[s][p - s + 1] = g[s][p - s + 1]
      <4>1. CASE s = x
        BY <1>2, <1>4, <3>1, <4>1
      <4>2. CASE s # x
        BY <1>2, <1>7, <3>1, <4>2
      <4> QED
        BY <4>1, <4>2
    <3>3. SegmentByte(h, p) = SegmentByte(g, p)
      BY <1>9, <3>1, <3>2, SameByte
    <3> QED
      BY <2>2, <3>3
  <2>3. CASE p \notin range /\ ~\E s \in DOMAIN g : InSegment(g, s, p)
    <3>1. ~\E s \in DOMAIN h : InSegment(h, s, p)
      <4> SUFFICES ASSUME NEW s \in DOMAIN h, InSegment(h, s, p) PROVE FALSE
        OBVIOUS
      <4>1. CASE s = x
        BY <1>4, <2>3, <4>1
      <4>2. CASE s # x
        BY <1>2, <1>7, <2>3, <4>2
      <4> QED
        BY <4>1, <4>2
    <3>2. SegmentByte(h, p) = "none"
      BY <1>9, <3>1, SegmentByteIs
    <3>3. SegmentByte(g, p) = "none"
      BY <2>3, SegmentByteIs
    <3> QED
      BY <2>3, <3>2, <3>3
  <2> QED
    BY <2>1, <2>2, <2>3
<1>11. Live(h) = Live(g) \cup range /\ Live(g) \cap range = {}
  <2>1. \A p \in range : p \in Int
    BY <1>5
  <2>2. v # "none"
    <3>1. start \in range /\ start \in Int
      BY <1>5
    <3>2. SegmentByte(h, start) = v /\ InSegment(h, x, start)
      BY <1>4, <1>10, <3>1
    <3>3. v \in Versions
      BY <1>2, <1>9, <3>1, <3>2, SegmentByteIs
    <3> QED
      BY <3>3, Addresses
  <2>3. \A p \in Int : p \in Live(h) <=> p \in Live(g) \/ p \in range
    <3> SUFFICES ASSUME NEW p \in Int
                 PROVE p \in Live(h) <=> p \in Live(g) \/ p \in range
      OBVIOUS
    <3>1. p \in Live(h) <=> SegmentByte(h, p) # "none"
      BY <1>9, LiveIs, SegmentByteIs
    <3>2. p \in Live(g) <=> SegmentByte(g, p) # "none"
      BY LiveIs, SegmentByteIs
    <3>3. SegmentByte(h, p) = IF p \in range THEN v ELSE SegmentByte(g, p)
      BY <1>10
    <3> QED
      BY <2>2, <3>1, <3>2, <3>3
  <2>4. Live(g) \in SUBSET Positions /\ Live(h) \in SUBSET Positions
    BY <1>9, LiveIs
  <2>5. Live(g) \in SUBSET Int /\ Live(h) \in SUBSET Int
    BY <2>4, PositionsAre
  <2>6. Live(g) \cap range = {}
    <3>1. \A p \in range : ~HoldsIn(g, p)
      BY DEF Fresh
    <3> QED
      BY <2>1, <3>1, LiveIs
  <2> QED
    BY <2>1, <2>3, <2>5, <2>6
<1>12. Cardinality(Live(h)) = Cardinality(Live(g)) + Len(new)
  <2>1. IsFiniteSet(range) /\ Cardinality(range) = Len(new)
    <3>1. start \in Int /\ start + Len(new) - 1 \in Int
          /\ ~(start > start + Len(new) - 1)
          /\ (start + Len(new) - 1) - start + 1 = Len(new)
      BY <1>5
    <3> QED
      BY <3>1, FS_Interval
  <2>2. IsFiniteSet(Live(g))
    BY LiveIs
  <2> HIDE DEF range
  <2>3. Cardinality(Live(g) \cup range) = Cardinality(Live(g)) + Cardinality(range)
          - Cardinality(Live(g) \cap range)
    BY <2>1, <2>2, FS_Union
  <2>4. Cardinality(Live(g) \cap range) = 0
    BY <1>11, FS_EmptySet
  <2>5. Cardinality(Live(g)) \in Nat
    BY LiveIs
  <2> QED
    BY <1>5, <1>11, <2>1, <2>3, <2>4, <2>5
<1> QED
  BY <1>9, <1>10, <1>12 DEF h

-----------------------------------------------------------------------------
(* A feed of a byte map, whatever the map is made of.                      *)

(* Every offset of G is behind one of T, and each of T below e is in G: T  *)
(* holds the starts of the runs of G.                                      *)
Begins(T, G, e) ==
  /\ T \in SUBSET Nat /\ G \in SUBSET Nat
  /\ \A q \in G : q < e /\ \E s \in T : s <= q
  /\ \A s \in T : s < e => s \in G

(* Then the least of T, up to e, is the least of G.                        *)
LEMMA RunBegins ==
  ASSUME NEW e \in Nat, NEW T, NEW G, Begins(T, G, e)
  PROVE  Least(LeastOr(T, e), e) = LeastOr(G, e)
<1>1. /\ T \in SUBSET Nat /\ G \in SUBSET Nat
      /\ \A q \in G : q < e /\ \E s \in T : s <= q
      /\ \A s \in T : s < e => s \in G
  BY DEF Begins
<1> DEFINE t == LeastOr(T, e)
           f == LeastOr(G, e)
<1>2. /\ T = {} => t = e
      /\ T # {} => t \in T /\ \A y \in T : t <= y
      /\ t \in Nat
  BY <1>1, LeastOrIs
<1>3. /\ G = {} => f = e
      /\ G # {} => f \in G /\ \A y \in G : f <= y
      /\ f \in Nat
  BY <1>1, LeastOrIs
<1> HIDE DEF t, f
<1>4. CASE G = {}
  <2>1. t >= e
    <3>1. CASE T = {}
      BY <1>2, <3>1
    <3>2. CASE T # {}
      <4>1. t \in T /\ ~(t < e)
        BY <1>1, <1>2, <1>4, <3>2
      <4> QED
        BY <1>2, <4>1
    <3> QED
      BY <3>1, <3>2
  <2>2. Least(t, e) = e
    BY <1>2, <2>1 DEF Least
  <2> QED
    BY <1>3, <1>4, <2>2 DEF t, f
<1>5. CASE G # {}
  <2>1. f \in G /\ f < e
    BY <1>1, <1>3, <1>5
  <2>2. PICK s \in T : s <= f
    BY <1>1, <2>1
  <2>3. t \in T /\ t <= s /\ s \in Nat
    BY <1>1, <1>2, <2>2
  <2>4. t <= f /\ t < e
    BY <1>2, <1>3, <2>1, <2>2, <2>3
  <2>5. f <= t
    BY <1>1, <1>3, <1>5, <2>3, <2>4
  <2>6. t = f /\ Least(t, e) = t
    BY <1>2, <1>3, <2>4, <2>5 DEF Least
  <2> QED
    BY <2>6 DEF t, f
<1> QED
  BY <1>4, <1>5

(* What a feed of o .. e - 1 stores in the map b.                          *)
FreeFrom(b, o, e) == LeastOr({p \in o .. e - 1 : b[p] = "none"}, e)
HeldFrom(b, start, e) == LeastOr({p \in start .. e - 1 : b[p] # "none"}, e)
Held(b) == {p \in Positions : b[p] # "none"}
Fill(b, start, e) == Least(HeldFrom(b, start, e) - start, Cap - Cardinality(Held(b)))

(* b becomes c in a feed that accepts `count` bytes.                       *)
Feeds(b, c, o, e, v, count) ==
  LET start == FreeFrom(b, o, e)
      take  == Fill(b, start, e)
  IN /\ take \in Nat /\ start + take <= e /\ count = start - o + take
     /\ c = [p \in Positions |-> IF p \in start .. start + take - 1 THEN v ELSE b[p]]

(* A map of bytes within the cap.                                          *)
ByteMap(b) ==
  /\ b \in [Positions -> Versions \cup {"none"}]
  /\ IsFiniteSet(Held(b)) /\ Cardinality(Held(b)) \in 0 .. Cap

(* Where a feed starts and where the bytes it may store end.               *)
LEMMA FillIs ==
  ASSUME NEW b, ByteMap(b), NEW o \in Nat, NEW e \in Nat, o <= e
  PROVE  LET start == FreeFrom(b, o, e)
             stop  == HeldFrom(b, start, e)
         IN /\ start \in Nat /\ o <= start /\ start <= e
            /\ start < e => b[start] = "none"
            /\ \A p \in o .. start - 1 : b[p] # "none"
            /\ stop \in Nat /\ start <= stop /\ stop <= e
            /\ start < e => start < stop
            /\ \A p \in start .. stop - 1 : b[p] = "none"
            /\ Fill(b, start, e) \in Nat /\ start + Fill(b, start, e) <= stop
<1> DEFINE F == {p \in o .. e - 1 : b[p] = "none"}
           start == FreeFrom(b, o, e)
           H == {p \in start .. e - 1 : b[p] # "none"}
           stop == HeldFrom(b, start, e)
           take == Fill(b, start, e)
<1>1. /\ F = {} => start = e
      /\ F # {} => start \in F /\ \A y \in F : start <= y
      /\ start \in Nat
  <2>1. F \in SUBSET Nat
    OBVIOUS
  <2>2. start = LeastOr(F, e)
    BY DEF FreeFrom
  <2> HIDE DEF F, start
  <2> QED
    BY <2>1, <2>2, LeastOrIs
<1> HIDE DEF start
<1>2. /\ start \in Nat /\ o <= start /\ start <= e
      /\ start < e => b[start] = "none"
  <2>1. CASE F = {}
    BY <1>1, <2>1
  <2>2. CASE F # {}
    <3>1. start \in F
      BY <1>1, <2>2
    <3>2. start \in o .. e - 1 /\ b[start] = "none"
      BY <3>1
    <3> QED
      BY <3>2
  <2> QED
    BY <2>1, <2>2
<1>3. ASSUME NEW p \in o .. start - 1 PROVE b[p] # "none"
  <2>1. p \in o .. e - 1 /\ ~(start <= p)
    BY <1>2
  <2>2. p \notin F
    BY <1>1, <2>1
  <2> QED
    BY <2>1, <2>2
<1>4. /\ H = {} => stop = e
      /\ H # {} => stop \in H /\ \A y \in H : stop <= y
      /\ stop \in Nat
  <2>1. H \in SUBSET Nat
    BY <1>2
  <2>2. stop = LeastOr(H, e)
    BY DEF HeldFrom
  <2> HIDE DEF H, stop
  <2> QED
    BY <2>1, <2>2, LeastOrIs
<1> HIDE DEF stop
<1>5. /\ stop \in Nat /\ start <= stop /\ stop <= e
      /\ start < e => start < stop
  <2>1. CASE H = {}
    BY <1>2, <1>4, <2>1
  <2>2. CASE H # {}
    <3>1. stop \in H
      BY <1>4, <2>2
    <3>2. stop \in start .. e - 1 /\ b[stop] # "none"
      BY <3>1
    <3>3. start # stop
      BY <1>2, <3>2
    <3> QED
      BY <1>2, <3>2, <3>3
  <2> QED
    BY <2>1, <2>2
<1>6. ASSUME NEW p \in start .. stop - 1 PROVE b[p] = "none"
  <2>1. p \in start .. e - 1 /\ ~(stop <= p)
    BY <1>2, <1>5
  <2>2. p \notin H
    BY <1>4, <2>1
  <2> QED
    BY <2>1, <2>2
<1>7. take \in Nat /\ start + take <= stop
  <2> DEFINE k == Cardinality(Held(b))
  <2>1. Cap \in Nat
    BY Addresses
  <2>2. k \in Nat /\ k <= Cap
    BY <2>1 DEF ByteMap
  <2>3. take = Least(stop - start, Cap - k)
    BY DEF Fill, stop
  <2> HIDE DEF k, take
  <2> QED
    BY <1>2, <1>5, <2>1, <2>2, <2>3 DEF Least
<1> HIDE DEF take
<1> QED
  BY <1>2, <1>3, <1>5, <1>6, <1>7 DEF start, stop, take

(* What a map of segments holds, as a byte map.                            *)
SegmentMap(g) == [p \in Positions |-> SegmentByte(g, p)]

(* Segments that do not overlap, counted, and within the cap.              *)
Counted(g, k) == Disjoint(g) /\ k = Cardinality(Live(g)) /\ k <= Cap

(* They make a byte map.                                                   *)
LEMMA SegmentMapIs ==
  ASSUME NEW g, NEW k, Counted(g, k)
  PROVE  /\ ByteMap(SegmentMap(g)) /\ Held(SegmentMap(g)) = Live(g)
         /\ k \in Nat /\ k = Cardinality(Held(SegmentMap(g))) /\ k <= Cap
         /\ \A p \in Positions : SegmentMap(g)[p] # "none" <=> HoldsIn(g, p)
<1> DEFINE b == SegmentMap(g)
<1>1. ASSUME NEW p \in Positions
      PROVE  /\ b[p] = SegmentByte(g, p) /\ b[p] \in Versions \cup {"none"}
             /\ b[p] # "none" <=> HoldsIn(g, p)
             /\ HoldsIn(g, p) <=> p \in Live(g)
  <2>1. p \in Int
    BY PositionsAre
  <2>2. b[p] = SegmentByte(g, p)
    BY DEF SegmentMap
  <2>3. SegmentByte(g, p) \in Versions \cup {"none"}
    <3>1. CASE HoldsIn(g, p)
      BY <2>1, <3>1, SegmentByteIs DEF Counted
    <3>2. CASE ~HoldsIn(g, p)
      BY <2>1, <3>2, SegmentByteIs DEF Counted
    <3> QED
      BY <3>1, <3>2
  <2>4. HoldsIn(g, p) <=> SegmentByte(g, p) # "none"
    BY <2>1, SegmentByteIs DEF Counted
  <2>5. HoldsIn(g, p) <=> p \in Live(g)
    BY <2>1, LiveIs DEF Counted
  <2> QED
    BY <2>2, <2>3, <2>4, <2>5
<1>2. b = [p \in Positions |-> b[p]]
  BY DEF SegmentMap
<1> HIDE DEF b
<1>3. b \in [Positions -> Versions \cup {"none"}]
  BY <1>1, <1>2
<1>4. Live(g) \in SUBSET Positions /\ IsFiniteSet(Live(g)) /\ Cardinality(Live(g)) \in Nat
  BY LiveIs DEF Counted
<1>5. Held(b) = Live(g)
  BY <1>1, <1>4 DEF Held
<1>6. ByteMap(b) /\ k \in Nat
  <2>1. Cap \in Nat
    BY Addresses
  <2> QED
    BY <1>3, <1>4, <1>5, <2>1 DEF ByteMap, Counted
<1> QED
  BY <1>1, <1>5, <1>6 DEF b, Counted

(* Where the feed of a segment map starts and where its chunk must end.    *)
LEMMA FeedBounds ==
  ASSUME NEW g, NEW k, Counted(g, k), NEW o \in Nat, NEW e \in Nat, o <= e, e <= MaxAddr
  PROVE  LET b     == SegmentMap(g)
             start == FreeFrom(b, o, e)
         IN /\ LeastOr({p \in o .. e - 1 : ~HoldsIn(g, p)}, e) = start
            /\ start < e =>
                 Least(LeastOr({s \in DOMAIN g : s >= start}, e), e) = HeldFrom(b, start, e)
<1> DEFINE b == SegmentMap(g)
           start == FreeFrom(b, o, e)
<1>1. ByteMap(b) /\ \A p \in Positions : b[p] # "none" <=> HoldsIn(g, p)
  BY SegmentMapIs
<1>2. /\ start \in Nat /\ o <= start /\ start <= e
      /\ start < e => b[start] = "none"
  BY <1>1, FillIs
<1>3. \A p \in o .. e - 1 : p \in Positions /\ p \in Int
  <2>1. MaxAddr \in Nat
    BY Addresses
  <2> QED
    BY <2>1 DEF Positions
<1> HIDE DEF b
<1>4. {p \in o .. e - 1 : ~HoldsIn(g, p)} = {p \in o .. e - 1 : b[p] = "none"}
  BY <1>1, <1>3
<1>5. LeastOr({p \in o .. e - 1 : ~HoldsIn(g, p)}, e) = start
  BY <1>4 DEF FreeFrom
<1> HIDE DEF start
<1>6. ASSUME start < e
      PROVE  Least(LeastOr({s \in DOMAIN g : s >= start}, e), e) = HeldFrom(b, start, e)
  <2> DEFINE T == {s \in DOMAIN g : s >= start}
             G == {p \in start .. e - 1 : b[p] # "none"}
  <2>1. \A s \in DOMAIN g : s \in Nat /\ EndIn(g, s) \in Nat /\ s < EndIn(g, s)
    <3> SUFFICES ASSUME NEW s \in DOMAIN g
                 PROVE s \in Nat /\ EndIn(g, s) \in Nat /\ s < EndIn(g, s)
      OBVIOUS
    <3>1. /\ s \in Nat /\ Len(g[s]) \in Nat \ {0} /\ EndIn(g, s) = s + Len(g[s])
          /\ EndIn(g, s) \in Nat
      BY SegmentFields DEF Disjoint, Counted
    <3> QED
      BY <3>1
  <2>2. T \in SUBSET Nat /\ G \in SUBSET Nat
    BY <1>2, <2>1
  <2>3. \A p \in start .. e - 1 : p \in o .. e - 1 /\ p \in Int
    BY <1>2
  <2>4. ASSUME NEW q \in G PROVE q < e /\ \E s \in T : s <= q
    <3>1. q \in start .. e - 1 /\ HoldsIn(g, q) /\ q \in Int
      BY <1>1, <1>3, <2>3
    <3>2. PICK s \in DOMAIN g : InSegment(g, s, q)
      BY <3>1, SegmentByteIs DEF Counted
    <3>3. s <= q /\ q < EndIn(g, s)
      BY <3>2 DEF InSegment
    <3>4. s >= start
      <4> SUFFICES ASSUME s < start PROVE FALSE
        BY <1>2, <2>1
      <4>1. InSegment(g, s, start)
        BY <1>2, <2>1, <3>1, <3>3 DEF InSegment
      <4>2. HoldsIn(g, start)
        BY <1>2, <4>1, SegmentByteIs DEF Counted
      <4>3. start \in o .. e - 1
        BY <1>2, <1>6
      <4> QED
        BY <1>1, <1>2, <1>3, <1>6, <4>2, <4>3
    <3> QED
      BY <1>2, <3>1, <3>3, <3>4
  <2>5. ASSUME NEW s \in T, s < e PROVE s \in G
    <3>1. s \in DOMAIN g /\ s >= start
      OBVIOUS
    <3>2. s \in Nat /\ s < EndIn(g, s) /\ s <= s
      BY <2>1, <3>1
    <3>3. InSegment(g, s, s)
      BY <3>2 DEF InSegment
    <3>4. HoldsIn(g, s)
      BY <3>1, <3>2, <3>3, SegmentByteIs DEF Counted
    <3>5. s \in start .. e - 1
      BY <1>2, <2>5, <3>1, <3>2
    <3> QED
      BY <1>1, <1>3, <2>3, <3>4, <3>5
  <2>6. HeldFrom(b, start, e) = LeastOr(G, e)
    BY DEF HeldFrom
  <2> HIDE DEF T, G
  <2>7. Begins(T, G, e)
    BY <2>2, <2>4, <2>5 DEF Begins
  <2>8. Least(LeastOr(T, e), e) = LeastOr(G, e)
    BY <2>7, RunBegins
  <2> QED
    BY <2>6, <2>8 DEF T
<1> QED
  BY <1>5, <1>6 DEF start, b

(* The bytes of a feed.                                                    *)
LEMMA PayloadBytes ==
  ASSUME NEW o \in Nat, NEW n \in Nat, o + n <= MaxAddr, NEW v \in Versions
  PROVE  /\ Payload(o, n, v) \in Seq(Bytes) /\ Len(Payload(o, n, v)) = n
         /\ \A j \in 1 .. n : Payload(o, n, v)[j] = <<o + j - 1, v>>
<1> DEFINE b == Payload(o, n, v)
<1>1. MaxAddr \in Nat
  BY Addresses
<1>2. \A j \in 1 .. n : b[j] = <<o + j - 1, v>> /\ b[j] \in Bytes
  BY <1>1 DEF Payload, Bytes, Positions
<1>3. b = [j \in 1 .. n |-> b[j]]
  BY DEF Payload
<1> HIDE DEF b
<1>4. b \in [1 .. n -> Bytes]
  BY <1>2, <1>3
<1>5. b \in Seq(Bytes) /\ Len(b) = n
  BY <1>4
<1> QED
  BY <1>2, <1>5 DEF b

(* A feed of the segment map stores what a feed of its byte map would.     *)
LEMMA FeedSegmentsFeeds ==
  ASSUME Counted(segments, retained), NEW o \in Nat, NEW n \in Nat, o + n <= MaxAddr,
         NEW v \in Versions, FeedSegments(o, n, v)
  PROVE  /\ Counted(segments', retained')
         /\ \E count \in Nat :
              /\ result' = Accepted(count)
              /\ Feeds(SegmentMap(segments), SegmentMap(segments'), o, o + n, v, count)
<1> DEFINE end   == o + n
           b     == SegmentMap(segments)
           start == FreeFrom(b, o, end)
           stop  == HeldFrom(b, start, end)
           fill  == Fill(b, start, end)
           from == LeastOr({p \in o .. end - 1 : ~HoldsSegment(p)}, end)
           taken == Least(Least(ChunkLimit(from, end), end) - from, Room)
<1>1. IF from = end \/ taken = 0
      THEN /\ result' = Accepted(from - o)
           /\ segments' = segments /\ retained' = retained
      ELSE /\ segments' = Joined(from, Payload(from, taken, v))
           /\ retained' = retained + taken
           /\ result' = Accepted(from - o + taken)
  BY Zenon DEF FeedSegments
<1>2. from = LeastOr({p \in o .. end - 1 : ~HoldsIn(segments, p)}, end)
  BY DEF HoldsSegment, HoldsIn, SegmentEnd, EndIn, Starts
<1>3. ChunkLimit(from, end) = LeastOr({s \in DOMAIN segments : s >= from}, end)
  BY DEF ChunkLimit, Starts
<1>4. end \in Nat /\ o <= end /\ end <= MaxAddr
  OBVIOUS
<1>5. ByteMap(b) /\ retained \in Nat /\ retained = Cardinality(Held(b)) /\ retained <= Cap
      /\ \A p \in Positions : b[p] # "none" <=> HoldsIn(segments, p)
  BY SegmentMapIs
<1> HIDE DEF from, taken, end
<1>6. /\ from = start
      /\ start < end => Least(ChunkLimit(from, end), end) = stop
  <2> DEFINE Edge(first) == LeastOr({s \in DOMAIN segments : s >= first}, end)
  <2>1. /\ LeastOr({p \in o .. end - 1 : ~HoldsIn(segments, p)}, end) = start
        /\ start < end => Least(Edge(start), end) = stop
    BY <1>4, FeedBounds
  <2>2. from = start
    BY <1>2, <2>1
  <2>3. ChunkLimit(from, end) = Edge(from)
    BY <1>3
  <2> HIDE DEF Edge, start, stop
  <2> QED
    BY <2>1, <2>2, <2>3
<1> HIDE DEF b
<1>7. /\ start \in Nat /\ o <= start /\ start <= end
      /\ stop \in Nat /\ start <= stop /\ stop <= end
      /\ \A p \in start .. stop - 1 : b[p] = "none"
      /\ fill \in Nat /\ start + fill <= stop
  BY <1>4, <1>5, FillIs
<1> HIDE DEF start
<1>8. start < end => taken = fill
  <2>1. Cap \in Nat
    BY Addresses
  <2>2. Room = Cap - retained
    BY <1>5, <2>1 DEF Room
  <2>3. fill = Least(stop - start, Cap - retained)
    BY <1>5 DEF Fill
  <2> HIDE DEF stop, fill
  <2> QED
    BY <1>6, <2>2, <2>3 DEF taken
<1> HIDE DEF stop, fill
<1>9. start = end => fill = 0
  BY <1>4, <1>7
<1>10. ASSUME NEW c,
              c = [p \in Positions |-> IF p \in start .. start + fill - 1 THEN v ELSE b[p]]
       PROVE  start - o + fill \in Nat /\ Feeds(b, c, o, end, v, start - o + fill)
  <2>1. start - o + fill \in Nat /\ start + fill <= end
    BY <1>4, <1>7
  <2> QED
    BY <1>7, <1>10, <2>1 DEF Feeds, start, fill
<1>11. CASE from = end \/ taken = 0
  <2>1. result' = Accepted(start - o) /\ segments' = segments /\ retained' = retained
    BY <1>1, <1>6, <1>11
  <2>2. fill = 0
    BY <1>4, <1>6, <1>7, <1>8, <1>9, <1>11
  <2>3. start - o + fill = start - o
    BY <1>7, <2>2
  <2>4. b = [p \in Positions |-> b[p]]
    BY DEF b, SegmentMap
  <2>5. \A p \in Positions : p \notin start .. start + fill - 1
    BY <1>7, <2>2
  <2>6. b = [p \in Positions |-> IF p \in start .. start + fill - 1 THEN v ELSE b[p]]
    BY <2>4, <2>5
  <2>7. start - o \in Nat /\ Feeds(b, b, o, end, v, start - o)
    BY <1>10, <2>3, <2>6
  <2> QED
    BY <2>1, <2>7 DEF b, end
<1>12. CASE ~(from = end \/ taken = 0)
  <2> DEFINE new == Payload(start, fill, v)
             h == JoinedIn(segments, start, new)
  <2>1. start < end /\ fill \in Nat \ {0} /\ taken = fill
    BY <1>4, <1>6, <1>7, <1>8, <1>12
  <2>2. /\ segments' = Joined(start, new) /\ retained' = retained + fill
        /\ result' = Accepted(start - o + fill)
    BY <1>1, <1>6, <1>12, <2>1
  <2>3. segments' = h
    BY <2>2 DEF Joined, JoinedIn, SegmentEnd, EndIn, Starts
  <2>4. start + fill <= MaxAddr
    <3>1. MaxAddr \in Nat
      BY Addresses
    <3> QED
      BY <1>4, <1>7, <3>1
  <2>5. /\ new \in Seq(Bytes) /\ Len(new) = fill
        /\ \A j \in 1 .. fill : new[j] = <<start + j - 1, v>>
    BY <1>7, <2>4, PayloadBytes
  <2>6. \A p \in start .. start + fill - 1 : p \in Positions /\ ~HoldsIn(segments, p)
    <3>1. MaxAddr \in Nat
      BY Addresses
    <3>2. \A p \in start .. start + fill - 1 : p \in start .. stop - 1
      BY <1>7
    <3>3. \A p \in start .. start + fill - 1 : p \in Positions
      BY <1>7, <2>4, <3>1 DEF Positions
    <3> QED
      BY <1>5, <1>7, <3>2, <3>3
  <2> HIDE DEF new
  <2>7. Fresh(segments, start, new, v)
    BY <1>7, <2>1, <2>4, <2>5, <2>6 DEF Fresh
  <2>8. /\ Disjoint(h)
        /\ \A p \in Int : SegmentByte(h, p) =
             IF p \in start .. start + fill - 1 THEN v ELSE SegmentByte(segments, p)
        /\ Cardinality(Live(h)) = retained + fill
    BY <2>5, <2>7, JoinedGrows DEF Counted
  <2> HIDE DEF h
  <2>9. retained + fill <= Cap
    <3>1. Cap \in Nat
      BY Addresses
    <3>2. fill = Least(stop - start, Cap - retained)
      BY <1>5 DEF Fill, fill, stop
    <3> QED
      BY <1>5, <1>7, <3>1, <3>2 DEF Least
  <2>10. Counted(segments', retained')
    BY <2>2, <2>3, <2>8, <2>9 DEF Counted
  <2>11. SegmentMap(h) = [p \in Positions |->
                            IF p \in start .. start + fill - 1 THEN v ELSE b[p]]
    <3>1. \A p \in Positions : SegmentByte(h, p) =
            IF p \in start .. start + fill - 1 THEN v ELSE b[p]
      BY <2>8, PositionsAre DEF b, SegmentMap
    <3> QED
      BY <3>1 DEF SegmentMap
  <2>12. start - o + fill \in Nat /\ Feeds(b, SegmentMap(h), o, end, v, start - o + fill)
    BY <1>10, <2>11
  <2> QED
    BY <2>2, <2>3, <2>10, <2>12 DEF b, end
<1> QED
  BY <1>11, <1>12

-----------------------------------------------------------------------------
(* Releasing lo .. hi - 1 from the segment map.                            *)

(* from .. to - 1 is what a segment s keeps on one side: all of it, what   *)
(* lies before lo or what lies from hi on.                                 *)
Keeps(g, s, from, to, lo, hi) ==
  \/ from = s /\ to = EndIn(g, s) /\ (hi <= s \/ EndIn(g, s) <= lo)
  \/ from = s /\ to = lo /\ s < lo /\ lo < EndIn(g, s)
  \/ from = hi /\ to = EndIn(g, s) /\ s < hi /\ hi < EndIn(g, s)

(* h holds from .. to - 1 of the segment s of g, as a segment.             *)
KeptIn(g, h, s, from, to) ==
  from \in DOMAIN h /\ h[from] = SubSeq(g[s], from - s + 1, to - s)

(* h is what g keeps.                                                      *)
LeftOf(g, h, lo, hi) ==
  /\ \A r \in DOMAIN h : \E s \in DOMAIN g, to \in Nat :
       Keeps(g, s, r, to, lo, hi) /\ KeptIn(g, h, s, r, to)
  /\ \A s \in DOMAIN g, from, to \in Nat :
       Keeps(g, s, from, to, lo, hi) => KeptIn(g, h, s, from, to)

(* A part of a segment is one.                                             *)
LEMMA PartIs ==
  ASSUME NEW g, NEW s \in DOMAIN g, Filled(g, s), NEW h, NEW from \in Nat, NEW to \in Nat,
         s <= from, from < to, to <= EndIn(g, s), KeptIn(g, h, s, from, to)
  PROVE  /\ Filled(h, from) /\ EndIn(h, from) = to
         /\ \A p \in Int : InSegment(h, from, p) <=> from <= p /\ p < to
         /\ \A p \in from .. to - 1 : h[from][p - from + 1] = g[s][p - s + 1]
<1> DEFINE all == g[s]
           m == from - s
           part == SubSeq(all, m + 1, to - s)
<1>1. s \in Nat /\ Len(all) \in Nat /\ EndIn(g, s) = s + Len(all)
  BY SegmentFields
<1>2. all \in Seq(Bytes) /\ \A j \in 1 .. Len(all) : all[j][1] = s + j - 1
  BY DEF Filled
<1> HIDE DEF all
<1>3. m \in Nat /\ to - s \in Nat /\ m < to - s /\ to - s <= Len(all)
      /\ (to - s) - m = to - from
  BY <1>1
<1>4. h[from] = part /\ from \in DOMAIN h
  BY DEF KeptIn, all
<1>5. \A j \in m + 1 .. to - s : all[j] \in Bytes
  BY <1>2, <1>3
<1>6. /\ part \in Seq(Bytes) /\ Len(part) = to - from
      /\ \A j \in 1 .. to - from : part[j] = all[m + j]
  <2> HIDE DEF m
  <2>1. m + 1 \in 1 .. Len(all) + 1 /\ to - s \in m .. Len(all)
    BY <1>1, <1>3
  <2>2. (to - s) - (m + 1) + 1 = to - from
    BY <1>1, <1>3
  <2> DEFINE u == m + 1
             w == to - s
  <2>3. u \in Int /\ w \in Int /\ u <= w /\ w - u + 1 = to - from
    BY <1>1, <1>3, <2>2
  <2>4. \A j \in u .. w : all[j] \in Bytes
    BY <1>5
  <2>5. \A j \in 1 .. to - from : u + j - 1 = m + j
    BY <1>3
  <2>6. part = SubSeq(all, u, w)
    OBVIOUS
  <2> HIDE DEF u, w, part
  <2>7. /\ SubSeq(all, u, w) \in Seq(Bytes)
        /\ Len(SubSeq(all, u, w)) = IF u <= w THEN w - u + 1 ELSE 0
        /\ \A j \in 1 .. w - u + 1 : SubSeq(all, u, w)[j] = all[u + j - 1]
    BY <2>3, <2>4, SubSeqProperties
  <2> QED
    BY <2>3, <2>5, <2>6, <2>7
<1> HIDE DEF part
<1>7. EndIn(h, from) = to
  BY <1>3, <1>4, <1>6 DEF EndIn
<1>8. ASSUME NEW j \in 1 .. Len(h[from]) PROVE h[from][j][1] = from + j - 1
  <2>1. j \in 1 .. to - from
    BY <1>4, <1>6
  <2>2. m + j \in 1 .. Len(all) /\ s + (m + j) - 1 = from + j - 1
    BY SMTT(60), <1>1, <1>3, <2>1
  <2>3. h[from][j] = all[m + j]
    BY <1>4, <1>6, <2>1
  <2>4. all[m + j][1] = s + (m + j) - 1
    BY <1>2, <2>2
  <2> QED
    BY <2>2, <2>3, <2>4
<1>9. Filled(h, from)
  <2>1. to <= MaxAddr /\ to - from > 0
    <3>1. EndIn(g, s) <= MaxAddr /\ EndIn(g, s) \in Nat
      BY SegmentFields
    <3>2. MaxAddr \in Nat
      BY Addresses
    <3> QED
      BY <3>1, <3>2
  <2> QED
    BY <1>4, <1>6, <1>7, <1>8, <2>1 DEF Filled
<1>10. \A p \in Int : InSegment(h, from, p) <=> from <= p /\ p < to
  BY <1>7 DEF InSegment
<1>11. ASSUME NEW p \in from .. to - 1 PROVE h[from][p - from + 1] = g[s][p - s + 1]
  <2>1. p - from + 1 \in 1 .. to - from /\ m + (p - from + 1) = p - s + 1
    BY <1>1
  <2>2. h[from][p - from + 1] = all[m + (p - from + 1)]
    BY <1>4, <1>6, <2>1
  <2> QED
    BY <2>1, <2>2 DEF all
<1> QED
  BY <1>7, <1>9, <1>10, <1>11

(* What is kept is a part of the segment, outside the cut.                 *)
LEMMA KeepsIs ==
  ASSUME NEW g, NEW s, Filled(g, s), NEW lo \in Nat, NEW hi \in Nat, lo < hi,
         NEW from, NEW to, Keeps(g, s, from, to, lo, hi)
  PROVE  /\ from \in Nat /\ to \in Nat
         /\ s <= from /\ from < to /\ to <= EndIn(g, s)
         /\ to <= lo \/ hi <= from
<1>1. s \in Nat /\ EndIn(g, s) \in Nat /\ s < EndIn(g, s)
  <2>1. s \in Nat /\ Len(g[s]) \in Nat \ {0} /\ EndIn(g, s) = s + Len(g[s])
    BY SegmentFields
  <2> QED
    BY <2>1
<1> QED
  BY <1>1 DEF Keeps

(* Of two parts, the one that starts first ends before the other starts.   *)
LEMMA KeptApart ==
  ASSUME NEW g, Disjoint(g), NEW lo \in Nat, NEW hi \in Nat, lo < hi,
         NEW s \in DOMAIN g, NEW r, NEW to, Keeps(g, s, r, to, lo, hi),
         NEW t \in DOMAIN g, NEW q, NEW end, Keeps(g, t, q, end, lo, hi), r < q
  PROVE  to <= q
<1>1. /\ s \in Nat /\ EndIn(g, s) \in Nat /\ Filled(g, s)
      /\ t \in Nat /\ EndIn(g, t) \in Nat /\ Filled(g, t)
  BY SegmentFields DEF Disjoint
<1>2. /\ r \in Nat /\ to \in Nat /\ s <= r /\ r < to /\ to <= EndIn(g, s)
      /\ to <= lo \/ hi <= r
  BY <1>1, KeepsIs
<1>3. /\ q \in Nat /\ end \in Nat /\ t <= q /\ q < end /\ end <= EndIn(g, t)
      /\ end <= lo \/ hi <= q
  BY <1>1, KeepsIs
<1>4. CASE s < t
  <2>1. EndIn(g, s) <= t
    BY <1>4 DEF Disjoint
  <2> QED
    BY <1>1, <1>2, <1>3, <2>1
<1>5. CASE t < s
  <2>1. EndIn(g, t) <= s
    BY <1>5 DEF Disjoint
  <2> QED
    BY <1>1, <1>2, <1>3, <2>1
<1>6. CASE s = t
  BY <1>1, <1>2, <1>3, <1>6 DEF Keeps
<1> QED
  BY <1>1, <1>4, <1>5, <1>6

(* Every byte outside the cut is in a part that is kept.                   *)
LEMMA KeepsRest ==
  ASSUME NEW g, NEW s \in DOMAIN g, Filled(g, s), NEW lo \in Nat, NEW hi \in Nat, lo < hi,
         NEW p \in Int, InSegment(g, s, p), p \notin lo .. hi - 1
  PROVE  \E from, to \in Nat : Keeps(g, s, from, to, lo, hi) /\ from <= p /\ p < to
<1>1. s \in Nat /\ EndIn(g, s) \in Nat /\ s <= p /\ p < EndIn(g, s)
  BY SegmentFields DEF InSegment
<1>2. p < lo \/ hi <= p
  OBVIOUS
<1>3. CASE hi <= s \/ EndIn(g, s) <= lo
  <2>1. Keeps(g, s, s, EndIn(g, s), lo, hi)
    BY <1>3 DEF Keeps
  <2> QED
    BY <1>1, <2>1
<1>4. CASE ~(hi <= s \/ EndIn(g, s) <= lo) /\ p < lo
  <2>1. Keeps(g, s, s, lo, lo, hi)
    BY <1>1, <1>4 DEF Keeps
  <2> QED
    BY <1>1, <1>4, <2>1
<1>5. CASE ~(hi <= s \/ EndIn(g, s) <= lo) /\ hi <= p
  <2>1. Keeps(g, s, hi, EndIn(g, s), lo, hi)
    BY <1>1, <1>5 DEF Keeps
  <2> QED
    BY <1>1, <1>5, <2>1
<1> QED
  BY <1>2, <1>3, <1>4, <1>5

(* What is left is a map of segments again, with the bytes outside the cut *)
(* and no others.                                                          *)
LEMMA LeftIs ==
  ASSUME NEW g, Disjoint(g), NEW lo \in Nat, NEW hi \in Nat, lo < hi,
         NEW h, LeftOf(g, h, lo, hi)
  PROVE  /\ Disjoint(h)
         /\ \A p \in Int : SegmentByte(h, p) =
              IF p \in lo .. hi - 1 THEN "none" ELSE SegmentByte(g, p)
<1>1. ASSUME NEW r \in DOMAIN h
      PROVE  \E s \in DOMAIN g, to \in Nat :
               /\ Keeps(g, s, r, to, lo, hi) /\ Filled(h, r) /\ EndIn(h, r) = to
               /\ r \in Nat /\ s <= r /\ to <= EndIn(g, s)
               /\ to <= lo \/ hi <= r
               /\ \A p \in Int : InSegment(h, r, p) <=> r <= p /\ p < to
  <2>1. PICK s \in DOMAIN g, to \in Nat :
          Keeps(g, s, r, to, lo, hi) /\ KeptIn(g, h, s, r, to)
    BY DEF LeftOf
  <2>2. Filled(g, s)
    BY DEF Disjoint
  <2>3. /\ r \in Nat /\ s <= r /\ r < to /\ to <= EndIn(g, s)
        /\ to <= lo \/ hi <= r
    BY <2>1, <2>2, KeepsIs
  <2>4. /\ Filled(h, r) /\ EndIn(h, r) = to
        /\ \A p \in Int : InSegment(h, r, p) <=> r <= p /\ p < to
    BY <2>1, <2>2, <2>3, PartIs
  <2> QED
    BY <2>1, <2>3, <2>4
<1>2. ASSUME NEW r \in DOMAIN h, NEW q \in DOMAIN h, r < q PROVE EndIn(h, r) <= q
  <2>1. PICK s \in DOMAIN g, to \in Nat : Keeps(g, s, r, to, lo, hi) /\ EndIn(h, r) = to
    BY <1>1
  <2>2. PICK t \in DOMAIN g, end \in Nat : Keeps(g, t, q, end, lo, hi)
    BY <1>1
  <2>3. to <= q
    BY <1>2, <2>1, <2>2, KeptApart
  <2> QED
    BY <2>1, <2>3
<1>3. Disjoint(h)
  <2>1. \A r \in DOMAIN h : Filled(h, r)
    BY <1>1
  <2> QED
    BY <1>2, <2>1 DEF Disjoint
<1>4. ASSUME NEW p \in Int, NEW s \in DOMAIN g, InSegment(g, s, p), p \notin lo .. hi - 1
      PROVE  SegmentByte(h, p) = SegmentByte(g, p)
  <2>1. Filled(g, s)
    BY DEF Disjoint
  <2>2. PICK from \in Nat, to \in Nat : Keeps(g, s, from, to, lo, hi) /\ from <= p /\ p < to
    BY <1>4, <2>1, KeepsRest
  <2>3. KeptIn(g, h, s, from, to)
    BY <2>2 DEF LeftOf
  <2>4. s <= from /\ from < to /\ to <= EndIn(g, s)
    BY <2>1, <2>2, KeepsIs
  <2>5. /\ \A x \in Int : InSegment(h, from, x) <=> from <= x /\ x < to
        /\ \A x \in from .. to - 1 : h[from][x - from + 1] = g[s][x - s + 1]
    BY <2>1, <2>3, <2>4, PartIs
  <2>6. from \in DOMAIN h
    BY <2>3 DEF KeptIn
  <2>7. InSegment(h, from, p)
    BY <2>2, <2>5
  <2>8. p \in from .. to - 1
    BY <2>2
  <2>9. h[from][p - from + 1] = g[s][p - s + 1]
    BY <2>5, <2>8
  <2> QED
    BY <1>3, <1>4, <2>6, <2>7, <2>9, SameByte
<1>5. ASSUME NEW p \in Int, NEW r \in DOMAIN h, InSegment(h, r, p)
      PROVE  p \notin lo .. hi - 1 /\ \E s \in DOMAIN g : InSegment(g, s, p)
  <2>1. PICK s \in DOMAIN g, to \in Nat :
               /\ EndIn(h, r) = to /\ r \in Nat /\ s <= r /\ to <= EndIn(g, s)
               /\ to <= lo \/ hi <= r
               /\ \A x \in Int : InSegment(h, r, x) <=> r <= x /\ x < to
    BY <1>1
  <2>2. r <= p /\ p < to
    BY <1>5, <2>1
  <2>3. p \notin lo .. hi - 1
    BY <2>1, <2>2
  <2>4. s \in Nat /\ EndIn(g, s) \in Nat
    BY SegmentFields DEF Disjoint
  <2>5. InSegment(g, s, p)
    BY <2>1, <2>2, <2>4 DEF InSegment
  <2> QED
    BY <2>3, <2>5
<1>6. ASSUME NEW p \in Int
      PROVE  SegmentByte(h, p) = IF p \in lo .. hi - 1 THEN "none" ELSE SegmentByte(g, p)
  <2>1. CASE p \in lo .. hi - 1
    <3>1. ~\E r \in DOMAIN h : InSegment(h, r, p)
      BY <1>5, <2>1
    <3>2. SegmentByte(h, p) = "none"
      BY <1>3, <3>1, SegmentByteIs
    <3> QED
      BY <2>1, <3>2
  <2>2. CASE p \notin lo .. hi - 1 /\ \E s \in DOMAIN g : InSegment(g, s, p)
    BY <1>4, <2>2
  <2>3. CASE p \notin lo .. hi - 1 /\ ~\E s \in DOMAIN g : InSegment(g, s, p)
    <3>1. ~\E r \in DOMAIN h : InSegment(h, r, p)
      BY <1>5, <2>3
    <3>2. SegmentByte(h, p) = "none" /\ SegmentByte(g, p) = "none"
      BY <1>3, <2>3, <3>1, SegmentByteIs
    <3> QED
      BY <2>3, <3>2
  <2> QED
    BY <2>1, <2>2, <2>3
<1> QED
  BY <1>3, <1>6

(* A sequence is a part of itself.                                         *)
LEMMA WholeSequence ==
  ASSUME NEW Elem, NEW q \in Seq(Elem)
  PROVE  SubSeq(q, 1, Len(q)) = q
<1> DEFINE m == Len(q)
           p == SubSeq(q, 1, m)
<1>1. m \in Nat /\ \A j \in 1 .. m : q[j] \in Elem
  OBVIOUS
<1>2. /\ p \in Seq(Elem) /\ Len(p) = IF 1 <= m THEN m - 1 + 1 ELSE 0
      /\ \A j \in 1 .. m - 1 + 1 : p[j] = q[1 + j - 1]
  <2> HIDE DEF m
  <2> QED
    BY <1>1, SubSeqProperties
<1> HIDE DEF p
<1>3. Len(p) = Len(q) /\ \A j \in 1 .. Len(q) : p[j] = q[j]
  BY <1>1, <1>2
<1>4. p = q
  BY <1>2, <1>3, SeqEqual
<1> QED
  BY <1>4 DEF p

(* A segment's own bounds, as a part of it.                                *)
LEMMA WholeIs ==
  ASSUME NEW g, NEW s, Filled(g, s)
  PROVE  /\ s - s + 1 = 1 /\ EndIn(g, s) - s = Len(g[s])
         /\ SubSeq(g[s], 1, Len(g[s])) = g[s]
<1>1. s \in Nat /\ Len(g[s]) \in Nat /\ EndIn(g, s) = s + Len(g[s])
  BY SegmentFields
<1>2. g[s] \in Seq(Bytes)
  BY DEF Filled
<1>3. SubSeq(g[s], 1, Len(g[s])) = g[s]
  BY <1>2, WholeSequence
<1> QED
  BY <1>1, <1>3

(* What ReleaseSegments leaves is what the segments keep.                  *)
LEMMA ReleaseLeaves ==
  ASSUME Disjoint(segments), NEW lo \in Nat, NEW hi \in Nat, lo < hi
  PROVE  LET touched == Touched(lo, hi)
         IN LeftOf(segments,
                   Over(Over(Fronts(touched, lo), Back(touched, hi)),
                        Restrict(segments, Starts \ touched)), lo, hi)
<1> DEFINE g == segments
           T == Touched(lo, hi)
           front == Fronts(T, lo)
           back == Back(T, hi)
           rest == Restrict(g, Starts \ T)
           h == Over(Over(front, back), rest)
           beyond == {s \in T : hi < SegmentEnd(s)}
           last == CHOOSE s \in beyond : TRUE
<1>1. ASSUME NEW s \in DOMAIN g
      PROVE  /\ s \in Nat /\ EndIn(g, s) \in Nat /\ s < EndIn(g, s) /\ Filled(g, s)
             /\ s \in T <=> s < hi /\ EndIn(g, s) > lo
  <2>1. /\ Filled(g, s) /\ s \in Nat /\ Len(g[s]) \in Nat \ {0}
        /\ EndIn(g, s) = s + Len(g[s]) /\ EndIn(g, s) \in Nat
    BY SegmentFields DEF Disjoint
  <2>2. s < EndIn(g, s)
    BY <2>1
  <2>3. s \in T <=> s < hi /\ EndIn(g, s) > lo
    BY DEF Touched, Starts, SegmentEnd, EndIn
  <2> QED
    BY <2>1, <2>2, <2>3
<1>2. T \in SUBSET DOMAIN g
  BY DEF Touched, Starts
<1> HIDE DEF T
<1>3. /\ DOMAIN front = {s \in T : s < lo}
      /\ \A s \in T : s < lo => front[s] = SubSeq(g[s], 1, lo - s)
  BY DEF Fronts
<1>4. DOMAIN rest = DOMAIN g \ T /\ \A s \in DOMAIN g \ T : rest[s] = g[s]
  BY DEF Restrict, Starts
<1>5. /\ beyond = {} => DOMAIN back = {}
      /\ beyond # {} =>
           /\ last \in beyond /\ DOMAIN back = {hi}
           /\ back[hi] = SubSeq(g[last], hi - last + 1, Len(g[last]))
  <2>1. back = IF beyond = {} THEN <<>>
               ELSE Segment(hi, SubSeq(g[last], hi - last + 1, Len(g[last])))
    BY Zenon DEF Back
  <2>2. beyond # {} => last \in beyond
    OBVIOUS
  <2> HIDE DEF back, beyond, last
  <2>3. CASE beyond = {}
    <3>1. back = <<>>
      BY <2>1, <2>3
    <3>2. DOMAIN <<>> = {}
      OBVIOUS
    <3> QED
      BY <2>3, <3>1, <3>2
  <2>4. CASE beyond # {}
    BY <2>1, <2>2, <2>4 DEF Segment
  <2> QED
    BY <2>3, <2>4
<1>6. \A s \in DOMAIN g : s \in beyond <=> s < hi /\ hi < EndIn(g, s)
  <2> SUFFICES ASSUME NEW s \in DOMAIN g
               PROVE s \in beyond <=> s < hi /\ hi < EndIn(g, s)
    OBVIOUS
  <2>1. s \in beyond <=> s \in T /\ hi < EndIn(g, s)
    BY DEF SegmentEnd, EndIn
  <2>2. /\ s \in Nat /\ EndIn(g, s) \in Nat
        /\ s \in T <=> s < hi /\ EndIn(g, s) > lo
    BY <1>1
  <2> HIDE DEF beyond
  <2> QED
    BY <2>1, <2>2
<1>7. beyond \in SUBSET DOMAIN g
  BY <1>2
<1> HIDE DEF front, back, rest, beyond, last
<1>8. ASSUME NEW s \in beyond, NEW t \in DOMAIN g, s # t
      PROVE  t # hi /\ t \notin beyond
  <2>1. s \in DOMAIN g /\ s < hi /\ hi < EndIn(g, s)
    BY <1>6, <1>7
  <2>2. s \in Nat /\ EndIn(g, s) \in Nat /\ t \in Nat /\ EndIn(g, t) \in Nat
        /\ t < EndIn(g, t)
    BY <1>1, <2>1
  <2>3. CASE s < t
    <3>1. EndIn(g, s) <= t
      BY <2>1, <2>3 DEF Disjoint
    <3> QED
      BY <1>6, <2>1, <2>2, <3>1
  <2>4. CASE t < s
    <3>1. EndIn(g, t) <= s
      BY <2>1, <2>4 DEF Disjoint
    <3> QED
      BY <1>6, <2>1, <2>2, <3>1
  <2> QED
    BY <1>8, <2>2, <2>3, <2>4
<1>9. /\ DOMAIN h = (DOMAIN front \cup DOMAIN back) \cup DOMAIN rest
      /\ \A x \in DOMAIN front : h[x] = front[x]
      /\ \A x \in DOMAIN back \ DOMAIN front : h[x] = back[x]
      /\ \A x \in DOMAIN rest \ (DOMAIN front \cup DOMAIN back) : h[x] = rest[x]
  <2> DEFINE f == Over(front, back)
  <2>1. /\ DOMAIN f = DOMAIN front \cup DOMAIN back
        /\ \A x \in DOMAIN front : f[x] = front[x]
        /\ \A x \in DOMAIN back \ DOMAIN front : f[x] = back[x]
    BY OverIs
  <2> HIDE DEF f
  <2>2. /\ DOMAIN Over(f, rest) = DOMAIN f \cup DOMAIN rest
        /\ \A x \in DOMAIN f : Over(f, rest)[x] = f[x]
        /\ \A x \in DOMAIN rest \ DOMAIN f : Over(f, rest)[x] = rest[x]
    BY OverIs
  <2>3. h = Over(f, rest)
    BY DEF f
  <2> HIDE DEF h
  <2> QED
    BY <2>1, <2>2, <2>3
<1> HIDE DEF h
<1>10. ASSUME NEW s \in DOMAIN g, s < lo, lo < EndIn(g, s)
       PROVE  KeptIn(g, h, s, s, lo)
  <2>1. s \in T
    BY <1>1, <1>10
  <2>2. s \in DOMAIN front /\ front[s] = SubSeq(g[s], 1, lo - s)
    BY <1>3, <1>10, <2>1
  <2>3. s - s + 1 = 1
    BY <1>1, WholeIs
  <2> QED
    BY <1>9, <2>2, <2>3 DEF KeptIn
<1>11. ASSUME NEW s \in DOMAIN g, s < hi, hi < EndIn(g, s)
       PROVE  KeptIn(g, h, s, hi, EndIn(g, s))
  <2>1. s \in beyond
    BY <1>6, <1>11
  <2>2. last \in beyond /\ DOMAIN back = {hi}
        /\ back[hi] = SubSeq(g[last], hi - last + 1, Len(g[last]))
    BY <1>5, <2>1
  <2>3. s = last
    BY <1>7, <1>8, <2>1, <2>2
  <2>4. hi \notin DOMAIN front
    BY <1>3
  <2>5. EndIn(g, s) - s = Len(g[s])
    BY <1>1, WholeIs
  <2> QED
    BY <1>9, <2>2, <2>3, <2>4, <2>5 DEF KeptIn
<1>12. ASSUME NEW s \in DOMAIN g, hi <= s \/ EndIn(g, s) <= lo
       PROVE  KeptIn(g, h, s, s, EndIn(g, s))
  <2>1. s \notin T
    BY <1>1, <1>12
  <2>2. s \in DOMAIN rest /\ rest[s] = g[s]
    BY <1>4, <2>1
  <2>3. s \notin DOMAIN front
    BY <1>3, <2>1
  <2>4. s \notin DOMAIN back
    <3> SUFFICES ASSUME s \in DOMAIN back PROVE FALSE
      OBVIOUS
    <3>1. last \in beyond /\ s = hi
      BY <1>5
    <3>2. s \notin beyond
      BY <1>6, <3>1
    <3> QED
      BY <1>8, <3>1, <3>2
  <2>5. h[s] = g[s] /\ s \in DOMAIN h
    BY <1>9, <2>2, <2>3, <2>4
  <2>6. /\ s - s + 1 = 1 /\ EndIn(g, s) - s = Len(g[s])
        /\ SubSeq(g[s], 1, Len(g[s])) = g[s]
    BY <1>1, WholeIs
  <2> QED
    BY <2>5, <2>6 DEF KeptIn
<1>13. ASSUME NEW s \in DOMAIN g, NEW from \in Nat, NEW to \in Nat,
              Keeps(g, s, from, to, lo, hi)
       PROVE  KeptIn(g, h, s, from, to)
  BY <1>10, <1>11, <1>12, <1>13 DEF Keeps
<1>14. ASSUME NEW r \in DOMAIN h
       PROVE  \E s \in DOMAIN g, to \in Nat :
                Keeps(g, s, r, to, lo, hi) /\ KeptIn(g, h, s, r, to)
  <2>1. CASE r \in DOMAIN front
    <3>1. r \in T /\ r < lo /\ r \in DOMAIN g
      BY <1>2, <1>3, <2>1
    <3>2. lo < EndIn(g, r)
      BY <1>1, <3>1
    <3>3. Keeps(g, r, r, lo, lo, hi) /\ KeptIn(g, h, r, r, lo)
      BY <1>10, <3>1, <3>2 DEF Keeps
    <3> QED
      BY <3>1, <3>3
  <2>2. CASE r \in DOMAIN back
    <3>1. last \in beyond /\ r = hi
      BY <1>5, <2>2
    <3>2. last \in DOMAIN g /\ last < hi /\ hi < EndIn(g, last)
      BY <1>6, <1>7, <3>1
    <3>3. Keeps(g, last, hi, EndIn(g, last), lo, hi) /\ KeptIn(g, h, last, hi, EndIn(g, last))
      BY <1>11, <3>2 DEF Keeps
    <3>4. EndIn(g, last) \in Nat
      BY <1>1, <3>2
    <3> QED
      BY <3>1, <3>2, <3>3, <3>4
  <2>3. CASE r \in DOMAIN rest
    <3>1. r \in DOMAIN g /\ r \notin T
      BY <1>4, <2>3
    <3>2. EndIn(g, r) \in Nat /\ (hi <= r \/ EndIn(g, r) <= lo)
      BY <1>1, <3>1
    <3>3. Keeps(g, r, r, EndIn(g, r), lo, hi) /\ KeptIn(g, h, r, r, EndIn(g, r))
      BY <1>12, <3>1, <3>2 DEF Keeps
    <3> QED
      BY <3>1, <3>2, <3>3
  <2> QED
    BY <1>9, <2>1, <2>2, <2>3
<1>15. LeftOf(g, h, lo, hi)
  BY <1>13, <1>14 DEF LeftOf
<1> QED
  BY <1>15 DEF h, front, back, rest, T

(* The bytes that a release counts are those it takes.                     *)
LEMMA CutCounts ==
  ASSUME Disjoint(segments), NEW lo \in Nat, NEW hi \in Nat, lo < hi
  PROVE  Cardinality(UNION {Cut(s, lo, hi) : s \in Touched(lo, hi)})
           = Cardinality(Live(segments) \cap (lo .. hi - 1))
<1> DEFINE g == segments
           T == Touched(lo, hi)
           Tokens == UNION {Cut(s, lo, hi) : s \in T}
           Taken == Live(g) \cap (lo .. hi - 1)
<1>1. ASSUME NEW s \in DOMAIN g
      PROVE  /\ s \in Nat /\ EndIn(g, s) \in Nat
             /\ s \in T <=> s < hi /\ EndIn(g, s) > lo
  BY SegmentFields DEF Disjoint, Touched, Starts, SegmentEnd, EndIn
<1>2. T \in SUBSET DOMAIN g
  BY DEF Touched, Starts
<1>3. ASSUME NEW s \in T, NEW p
      PROVE  p \in Max({lo, s}) .. Least(hi, SegmentEnd(s)) - 1
               <=> p \in lo .. hi - 1 /\ InSegment(g, s, p)
  <2> DEFINE m == Max({lo, s})
             e == EndIn(g, s)
  <2>1. s \in Nat /\ e \in Nat
    BY <1>1, <1>2
  <2>2. m \in {lo, s} /\ lo <= m /\ s <= m
    <3> DEFINE n == lo + s
               both == {lo, s}
    <3>1. n \in Nat /\ both \in SUBSET (0 .. n) /\ both # {}
      BY <2>1
    <3> HIDE DEF n, both
    <3>2. Max(both) \in both /\ \A y \in both : y <= Max(both)
      BY <3>1, GreatestIs
    <3> QED
      BY <3>2 DEF both
  <2>3. Least(hi, SegmentEnd(s)) = IF hi <= e THEN hi ELSE e
    BY DEF Least, SegmentEnd, EndIn
  <2> HIDE DEF m
  <2>4. InSegment(g, s, p) <=> s <= p /\ p < e
    BY DEF InSegment
  <2> HIDE DEF e
  <2> QED
    BY <2>1, <2>2, <2>3, <2>4 DEF m
<1>4. \A t : t \in Tokens <=>
        \E s \in T, p \in lo .. hi - 1 : InSegment(g, s, p) /\ t = <<s, p>>
  <2>1. \A s \in T : \A t : t \in Cut(s, lo, hi) <=>
          \E p \in lo .. hi - 1 : InSegment(g, s, p) /\ t = <<s, p>>
    <3> SUFFICES ASSUME NEW s \in T, NEW t
                 PROVE  t \in Cut(s, lo, hi) <=>
                          \E p \in lo .. hi - 1 : InSegment(g, s, p) /\ t = <<s, p>>
      OBVIOUS
    <3> DEFINE R == Max({lo, s}) .. Least(hi, SegmentEnd(s)) - 1
    <3>1. Cut(s, lo, hi) = {s} \X R
      BY DEF Cut
    <3>2. \A p : p \in R <=> p \in lo .. hi - 1 /\ InSegment(g, s, p)
      BY <1>3
    <3> HIDE DEF R
    <3>3. t \in {s} \X R <=> \E p \in R : t = <<s, p>>
      OBVIOUS
    <3> QED
      BY <3>1, <3>2, <3>3
  <2> QED
    BY <2>1
<1>5. \A p \in lo .. hi - 1 : p \in Int
  OBVIOUS
<1>6. \A p : p \in Taken <=> p \in lo .. hi - 1 /\ \E s \in DOMAIN g : InSegment(g, s, p)
  <2> SUFFICES ASSUME NEW p \in lo .. hi - 1
               PROVE p \in Live(g) <=> \E s \in DOMAIN g : InSegment(g, s, p)
    OBVIOUS
  <2>1. p \in Int
    BY <1>5
  <2> QED
    BY <2>1, LiveIs, SegmentByteIs
<1>7. IsFiniteSet(Taken)
  <2>1. IsFiniteSet(Live(g)) /\ Taken \in SUBSET Live(g)
    BY LiveIs
  <2> QED
    BY <2>1, FS_Subset
<1> DEFINE f == [t \in Tokens |-> t[2]]
<1> HIDE DEF Tokens, Taken
<1>8. f \in [Tokens -> Taken]
  <2> SUFFICES ASSUME NEW t \in Tokens PROVE t[2] \in Taken
    OBVIOUS
  <2>1. PICK s \in T, p \in lo .. hi - 1 : InSegment(g, s, p) /\ t = <<s, p>>
    BY <1>4
  <2> QED
    BY <1>2, <1>6, <2>1
<1>9. ASSUME NEW t \in Tokens, NEW u \in Tokens, f[t] = f[u] PROVE t = u
  <2>1. PICK s \in T, p \in lo .. hi - 1 : InSegment(g, s, p) /\ t = <<s, p>>
    BY <1>4
  <2>2. PICK r \in T, q \in lo .. hi - 1 : InSegment(g, r, q) /\ u = <<r, q>>
    BY <1>4
  <2>3. p = q
    BY <1>9, <2>1, <2>2
  <2>4. AtIn(g, p) = s /\ AtIn(g, p) = r
    BY <1>2, <1>5, <2>1, <2>2, <2>3, HolderIs
  <2> QED
    BY <2>1, <2>2, <2>3, <2>4
<1>10. ASSUME NEW p \in Taken PROVE \E t \in Tokens : f[t] = p
  <2>1. p \in lo .. hi - 1
    BY <1>6
  <2>2. PICK s \in DOMAIN g : InSegment(g, s, p)
    BY <1>6
  <2>3. s \in T
    <3>1. s <= p /\ p < EndIn(g, s) /\ lo <= p /\ p < hi /\ p \in Int
      BY <2>1, <2>2 DEF InSegment
    <3>2. s \in Nat /\ EndIn(g, s) \in Nat
      BY <1>1
    <3>3. s < hi /\ EndIn(g, s) > lo
      BY <3>1, <3>2
    <3> QED
      BY <1>1, <3>3
  <2>4. <<s, p>> \in Tokens
    BY <1>4, <2>1, <2>2, <2>3
  <2>5. f[<<s, p>>] = p
    BY <2>4
  <2> QED
    BY <2>4, <2>5
<1> HIDE DEF f
<1>11. f \in Injection(Tokens, Taken) /\ f \in Surjection(Tokens, Taken)
  BY <1>8, <1>9, <1>10 DEF Injection, Surjection, IsInjective
<1>12. Cardinality(Tokens) = Cardinality(Taken)
  BY <1>7, <1>11, FS_Injection
<1> QED
  BY <1>12 DEF Tokens, Taken

(* Maps with the same segments hold the same bytes.                        *)
LEMMA SameSegments ==
  ASSUME NEW g, Disjoint(g), NEW h, DOMAIN h = DOMAIN g, \A s \in DOMAIN g : h[s] = g[s]
  PROVE  /\ Disjoint(h) /\ Live(h) = Live(g)
         /\ \A p \in Int : SegmentByte(h, p) = SegmentByte(g, p)
<1>1. \A s \in DOMAIN g : h[s] = g[s] /\ EndIn(h, s) = EndIn(g, s)
  BY DEF EndIn
<1>2. \A s \in DOMAIN g : Filled(g, s) => Filled(h, s)
  BY <1>1 DEF Filled
<1>3. Disjoint(h)
  BY <1>1, <1>2 DEF Disjoint
<1>4. Live(h) = Live(g)
  BY <1>1 DEF Live
<1>5. ASSUME NEW p \in Int PROVE SegmentByte(h, p) = SegmentByte(g, p)
  <2>1. \A s \in DOMAIN g : InSegment(h, s, p) <=> InSegment(g, s, p)
    BY <1>1 DEF InSegment
  <2>2. CASE \E s \in DOMAIN g : InSegment(g, s, p)
    <3>1. PICK s \in DOMAIN g : InSegment(g, s, p)
      BY <2>2
    <3>2. s \in DOMAIN h /\ InSegment(h, s, p) /\ h[s][p - s + 1] = g[s][p - s + 1]
      BY <1>1, <2>1, <3>1
    <3> QED
      BY <1>3, <3>1, <3>2, SameByte
  <2>3. CASE ~\E s \in DOMAIN g : InSegment(g, s, p)
    <3>1. SegmentByte(g, p) = "none"
      BY <2>3, SegmentByteIs
    <3>2. ~\E s \in DOMAIN h : InSegment(h, s, p)
      BY <2>1, <2>3
    <3>3. SegmentByte(h, p) = "none"
      BY <1>3, <3>2, SegmentByteIs
    <3> QED
      BY <3>1, <3>3
  <2> QED
    BY <2>2, <2>3
<1> QED
  BY <1>3, <1>4, <1>5

(* b becomes c in a release of lo .. hi - 1.                               *)
Forgets(b, c, lo, hi) ==
  c = [p \in Positions |-> IF p \in lo .. hi - 1 THEN "none" ELSE b[p]]

(* A release of the segment map forgets what it names, and counts it.      *)
LEMMA ReleaseSegmentsForgets ==
  ASSUME Counted(segments, retained), NEW lo \in Nat, NEW hi \in Nat,
         ReleaseSegments(lo, hi)
  PROVE  /\ Counted(segments', retained') /\ result' = Accepted(0)
         /\ Forgets(SegmentMap(segments), SegmentMap(segments'), lo, hi)
<1> DEFINE g == segments
           T == IF lo < hi THEN Touched(lo, hi) ELSE {}
           h == Over(Over(Fronts(T, lo), Back(T, hi)), Restrict(g, Starts \ T))
           taken == Cardinality(UNION {Cut(s, lo, hi) : s \in T})
<1>1. segments' = h /\ retained' = retained - taken /\ result' = Accepted(0)
  BY Zenon DEF ReleaseSegments
<1>2. /\ Disjoint(g) /\ retained = Cardinality(Live(g)) /\ retained <= Cap
      /\ retained \in Nat
  BY SegmentMapIs DEF Counted
<1>3. ASSUME lo < hi
      PROVE  /\ Disjoint(h)
             /\ \A p \in Int : SegmentByte(h, p) =
                  IF p \in lo .. hi - 1 THEN "none" ELSE SegmentByte(g, p)
             /\ taken = Cardinality(Live(g) \cap (lo .. hi - 1))
  <2>1. T = Touched(lo, hi)
    BY <1>3
  <2>2. LeftOf(g, h, lo, hi)
    BY <1>2, <1>3, <2>1, ReleaseLeaves
  <2>3. taken = Cardinality(Live(g) \cap (lo .. hi - 1))
    BY <1>2, <1>3, <2>1, CutCounts
  <2> HIDE DEF h, taken
  <2> QED
    BY <1>2, <1>3, <2>2, <2>3, LeftIs
<1>4. ASSUME ~(lo < hi)
      PROVE  /\ Disjoint(h)
             /\ \A p \in Int : SegmentByte(h, p) = SegmentByte(g, p)
             /\ taken = 0 /\ Live(h) = Live(g)
  <2>1. T = {}
    BY <1>4
  <2>2. taken = 0
    <3>1. UNION {Cut(s, lo, hi) : s \in T} = {}
      BY <2>1
    <3> QED
      BY <3>1, FS_EmptySet
  <2>3. DOMAIN Fronts(T, lo) = {}
    BY <2>1 DEF Fronts
  <2>4. DOMAIN Back(T, hi) = {}
    <3>1. {s \in T : hi < SegmentEnd(s)} = {}
      BY <2>1
    <3>2. Back(T, hi) = <<>>
      BY <3>1, Zenon DEF Back
    <3>3. DOMAIN <<>> = {}
      OBVIOUS
    <3> QED
      BY <3>2, <3>3
  <2> DEFINE f == Over(Fronts(T, lo), Back(T, hi))
             rest == Restrict(g, Starts \ T)
  <2>5. DOMAIN f = {}
    <3> DEFINE a == Fronts(T, lo)
               b == Back(T, hi)
    <3> HIDE DEF a, b
    <3>1. DOMAIN Over(a, b) = DOMAIN a \cup DOMAIN b
      BY OverIs
    <3>2. DOMAIN Over(a, b) = {}
      BY <2>3, <2>4, <3>1 DEF a, b
    <3> QED
      BY <3>2 DEF a, b
  <2>6. DOMAIN rest = DOMAIN g /\ \A s \in DOMAIN g : rest[s] = g[s]
    BY <2>1 DEF Restrict, Starts
  <2>7. h = Over(f, rest)
    OBVIOUS
  <2> HIDE DEF h, f, rest
  <2>8. /\ DOMAIN Over(f, rest) = DOMAIN f \cup DOMAIN rest
        /\ \A s \in DOMAIN rest \ DOMAIN f : Over(f, rest)[s] = rest[s]
    BY OverIs
  <2>9. DOMAIN h = DOMAIN g /\ \A s \in DOMAIN g : h[s] = g[s]
    BY <2>5, <2>6, <2>7, <2>8
  <2> QED
    BY <1>2, <2>2, <2>9, SameSegments
<1> HIDE DEF h, taken, T
<1>5. CASE lo < hi
  <2>1. Live(h) = Live(g) \ (Live(g) \cap (lo .. hi - 1))
    <3>1. Live(h) \in SUBSET Int /\ Live(g) \in SUBSET Int
      BY <1>2, <1>3, <1>5, LiveIs, PositionsAre
    <3>2. \A p \in Int : p \in Live(h) <=> p \in Live(g) /\ p \notin lo .. hi - 1
      <4> SUFFICES ASSUME NEW p \in Int
                   PROVE p \in Live(h) <=> p \in Live(g) /\ p \notin lo .. hi - 1
        OBVIOUS
      <4>1. p \in Live(h) <=> SegmentByte(h, p) # "none"
        BY <1>3, <1>5, LiveIs, SegmentByteIs
      <4>2. p \in Live(g) <=> SegmentByte(g, p) # "none"
        BY <1>2, LiveIs, SegmentByteIs
      <4>3. SegmentByte(h, p) = IF p \in lo .. hi - 1 THEN "none" ELSE SegmentByte(g, p)
        BY <1>3, <1>5
      <4> QED
        BY <4>1, <4>2, <4>3
    <3> QED
      BY <3>1, <3>2
  <2> DEFINE gone == Live(g) \cap (lo .. hi - 1)
  <2>2. Cardinality(Live(g) \ gone) = Cardinality(Live(g)) - Cardinality(Live(g) \cap gone)
    <3>1. IsFiniteSet(Live(g))
      BY <1>2, LiveIs
    <3> QED
      BY <3>1, FS_Difference
  <2>3. Live(g) \cap gone = gone
    OBVIOUS
  <2>4. taken = Cardinality(gone)
    BY <1>3, <1>5
  <2>5. IsFiniteSet(gone) /\ Cardinality(gone) \in Nat
    <3>1. IsFiniteSet(Live(g)) /\ gone \in SUBSET Live(g)
      BY <1>2, LiveIs
    <3>2. IsFiniteSet(gone)
      BY <3>1, FS_Subset
    <3> QED
      BY <3>2, FS_CardinalityType
  <2> HIDE DEF gone
  <2>6. retained - taken = Cardinality(Live(h))
    BY <1>2, <2>1, <2>2, <2>3, <2>4 DEF gone
  <2>7. retained - taken <= Cap
    <3>1. Cap \in Nat
      BY Addresses
    <3> QED
      BY <1>2, <2>4, <2>5, <3>1
  <2>8. Counted(segments', retained')
    BY <1>1, <1>3, <1>5, <2>6, <2>7 DEF Counted
  <2>9. \A p \in Positions : SegmentByte(h, p) =
          IF p \in lo .. hi - 1 THEN "none" ELSE SegmentByte(g, p)
    BY <1>3, <1>5, PositionsAre
  <2>10. Forgets(SegmentMap(g), SegmentMap(h), lo, hi)
    BY <2>9 DEF Forgets, SegmentMap
  <2> QED
    BY <1>1, <2>8, <2>10
<1>6. CASE ~(lo < hi)
  <2>1. retained - taken = retained
    BY <1>2, <1>4, <1>6
  <2>2. Counted(segments', retained')
    BY <1>1, <1>2, <1>4, <1>6, <2>1 DEF Counted
  <2>3. \A p \in Positions : p \notin lo .. hi - 1
    BY <1>6
  <2>4. \A p \in Positions : SegmentByte(h, p) = SegmentByte(g, p)
    BY <1>4, <1>6, PositionsAre
  <2>5. Forgets(SegmentMap(g), SegmentMap(h), lo, hi)
    BY <2>3, <2>4 DEF Forgets, SegmentMap
  <2> QED
    BY <1>1, <2>2, <2>5
<1> QED
  BY <1>5, <1>6

-----------------------------------------------------------------------------
(* The packed store as a byte map.                                         *)

PackedMap(st) == [p \in Positions |-> PackedByte(st, p)]

(* It is one, as large as the payload.                                     *)
LEMMA PackedMapIs ==
  ASSUME NEW st, Packed(st)
  PROVE  /\ ByteMap(PackedMap(st)) /\ Cardinality(Held(PackedMap(st))) = Len(st.data)
         /\ \A p \in Positions : PackedMap(st)[p] # "none" <=> CoversAt(st, p)
<1> DEFINE b == PackedMap(st)
<1>1. ASSUME NEW p \in Positions
      PROVE  /\ b[p] = PackedByte(st, p) /\ b[p] \in Versions \cup {"none"}
             /\ b[p] # "none" <=> CoversAt(st, p)
  <2>1. p \in Int
    BY PositionsAre
  <2>2. b[p] = PackedByte(st, p)
    BY DEF PackedMap
  <2>3. CASE CoversAt(st, p)
    <3>1. PICK i \in DOMAIN st.spans : Covers(st.spans[i], p)
      BY <2>1, <2>3, PackedByteIs
    <3>2. PackedByte(st, p) \in Versions
      BY <2>1, <3>1, PackedByteIs
    <3> QED
      BY <2>2, <2>3, <3>2, Addresses
  <2>4. CASE ~CoversAt(st, p)
    <3>1. PackedByte(st, p) = "none"
      BY <2>1, <2>4, PackedByteIs
    <3> QED
      BY <2>2, <2>4, <3>1
  <2> QED
    BY <2>3, <2>4
<1>2. b = [p \in Positions |-> b[p]]
  BY DEF PackedMap
<1> HIDE DEF b
<1>3. b \in [Positions -> Versions \cup {"none"}]
  BY <1>1, <1>2
<1>4. Held(b) = {p \in Positions : CoversAt(st, p)}
  BY <1>1 DEF Held
<1>5. IsFiniteSet(Held(b)) /\ Cardinality(Held(b)) = Len(st.data)
  BY <1>4, PayloadCounts
<1>6. Len(st.data) \in 0 .. Cap
  <2>1. Len(st.data) \in Nat /\ Len(st.data) <= Cap
    BY DEF Packed
  <2>2. Cap \in Nat
    BY Addresses
  <2> QED
    BY <2>1, <2>2
<1>7. ByteMap(b)
  BY <1>3, <1>5, <1>6 DEF ByteMap
<1> QED
  BY <1>1, <1>5, <1>7 DEF b

(* Where the runs of held bytes start, and what is held after a feed and   *)
(* after a release.                                                        *)
Runs(b) == {p \in Positions : b[p] # "none" /\ (p = 0 \/ b[p - 1] = "none")}

FedMap(b, o, e, v) ==
  LET start == FreeFrom(b, o, e)
      take  == Fill(b, start, e)
  IN [p \in Positions |-> IF p \in start .. start + take - 1 THEN v ELSE b[p]]

ForgottenMap(b, lo, hi) ==
  [p \in Positions |-> IF p \in lo .. hi - 1 THEN "none" ELSE b[p]]

Overfull(b) == Cardinality(Runs(b)) > MaxSpans

(* Every span of the packed store is the start of a run.                   *)
LEMMA SpansAreRuns ==
  ASSUME NEW st, Packed(st), NEW i \in DOMAIN st.spans
  PROVE  /\ st.spans[i].start \in Positions
         /\ CoversAt(st, st.spans[i].start)
         /\ st.spans[i].start # 0 => ~CoversAt(st, st.spans[i].start - 1)
<1> DEFINE spans == st.spans
           q == spans[i].start
<1>1. Index(spans) /\ DOMAIN spans = 1 .. Len(spans) /\ Len(spans) \in Nat
  BY DEF Packed, Index
<1>2. ASSUME NEW j \in DOMAIN spans
      PROVE  /\ spans[j].start \in Nat /\ SpanEnd(spans[j]) \in Nat
             /\ spans[j].start < SpanEnd(spans[j]) /\ SpanEnd(spans[j]) <= MaxAddr
  BY <1>1, SpanFields
<1>3. q \in Nat /\ q \in Positions
  <2>1. MaxAddr \in Nat
    BY Addresses
  <2> QED
    BY <1>2, <2>1 DEF Positions
<1>4. CoversAt(st, q)
  <2>1. Covers(spans[i], q)
    BY <1>2 DEF Covers
  <2> QED
    BY <1>3, <2>1, PackedByteIs
<1>5. ASSUME q # 0, CoversAt(st, q - 1) PROVE FALSE
  <2>1. q - 1 \in Int
    BY <1>3
  <2>2. PICK j \in DOMAIN spans : Covers(spans[j], q - 1)
    BY <1>5, <2>1, PackedByteIs
  <2>3. spans[j].start <= q - 1 /\ q - 1 < SpanEnd(spans[j])
    BY <2>2 DEF Covers
  <2>4. CASE j < i
    <3>1. SpanEnd(spans[j]) < spans[i].start
      BY <1>1, <2>4 DEF Index
    <3> QED
      BY <1>2, <1>3, <2>3, <3>1
  <2>5. CASE i < j
    <3>1. SpanEnd(spans[i]) < spans[j].start
      BY <1>1, <2>5 DEF Index
    <3> QED
      BY <1>2, <1>3, <2>3, <3>1
  <2>6. CASE i = j
    BY <1>3, <2>3, <2>6
  <2> QED
    BY <1>1, <2>4, <2>5, <2>6
<1> QED
  BY <1>3, <1>4, <1>5

(* A map that keeps every run of a full index and starts another has too   *)
(* many.                                                                   *)
LEMMA OneRunMore ==
  ASSUME NEW st, Packed(st), Len(st.spans) = MaxSpans, NEW b, NEW x \in Runs(b),
         \A i \in DOMAIN st.spans : st.spans[i].start \in Runs(b) /\ st.spans[i].start # x
  PROVE  Overfull(b)
<1> DEFINE n == MaxSpans
           f == [k \in 1 .. n + 1 |-> IF k = n + 1 THEN x ELSE st.spans[k].start]
<1>1. n \in Nat /\ Index(st.spans) /\ DOMAIN st.spans = 1 .. n
  BY Addresses DEF Packed, Index
<1>2. IsFiniteSet(Runs(b))
  <2>1. MaxAddr \in Nat
    BY Addresses
  <2>2. 0 \in Int /\ MaxAddr - 1 \in Int
    BY <2>1
  <2>3. IsFiniteSet(Positions)
    BY <2>2, FS_Interval DEF Positions
  <2>4. Runs(b) \in SUBSET Positions
    BY DEF Runs
  <2> QED
    BY <2>3, <2>4, FS_Subset
<1> HIDE DEF n
<1>3. ASSUME NEW j \in 1 .. n, NEW k \in 1 .. n, j < k
      PROVE  st.spans[j].start # st.spans[k].start
  <2>1. j \in DOMAIN st.spans /\ k \in DOMAIN st.spans
    BY <1>1
  <2>2. SpanEnd(st.spans[j]) < st.spans[k].start
    BY <1>1, <1>3, <2>1 DEF Index
  <2>3. /\ st.spans[j].start \in Nat /\ st.spans[j].len \in Nat \ {0}
        /\ SpanEnd(st.spans[j]) = st.spans[j].start + st.spans[j].len
        /\ st.spans[k].start \in Nat
    BY <1>1, <2>1, SpanFields
  <2> QED
    BY <2>2, <2>3
<1>4. ASSUME NEW k \in 1 .. n + 1 PROVE f[k] \in Runs(b)
  <2>1. k = n + 1 \/ k \in DOMAIN st.spans
    BY <1>1
  <2> QED
    BY <2>1
<1>5. ASSUME NEW j \in 1 .. n + 1, NEW k \in 1 .. n + 1, f[j] = f[k] PROVE j = k
  <2>1. \A i \in 1 .. n + 1 : i = n + 1 \/ (i \in 1 .. n /\ i \in DOMAIN st.spans)
    BY <1>1
  <2>2. CASE j = n + 1 \/ k = n + 1
    BY <1>1, <1>5, <2>1, <2>2
  <2>3. CASE j # n + 1 /\ k # n + 1
    <3>1. j \in 1 .. n /\ k \in 1 .. n /\ st.spans[j].start = st.spans[k].start
      BY <1>5, <2>1, <2>3
    <3>2. ~(j < k) /\ ~(k < j)
      BY <1>3, <3>1
    <3> QED
      BY <3>1, <3>2
  <2> QED
    BY <2>2, <2>3
<1>6. f \in Injection(1 .. n + 1, Runs(b))
  <2>1. f \in [1 .. n + 1 -> Runs(b)]
    BY <1>4
  <2> HIDE DEF f
  <2> QED
    BY <1>5, <2>1 DEF Injection, IsInjective
<1> HIDE DEF f
<1>7. Cardinality(1 .. n + 1) <= Cardinality(Runs(b))
  BY <1>2, <1>6, FS_Injection
<1>8. Cardinality(1 .. n + 1) = n + 1
  <2>1. n + 1 \in Nat /\ 1 \in Int /\ n + 1 \in Int /\ ~(1 > n + 1)
    BY <1>1
  <2> DEFINE m == n + 1
  <2>2. Cardinality(1 .. m) = IF 1 > m THEN 0 ELSE m - 1 + 1
    <3> HIDE DEF m
    <3> QED
      BY <2>1, FS_Interval DEF m
  <2> QED
    BY <1>1, <2>2
<1>9. Cardinality(Runs(b)) \in Nat
  BY <1>2, FS_CardinalityType
<1> QED
  BY <1>1, <1>7, <1>8, <1>9 DEF Overfull, n

(* A feed refused for want of a slot would have started one more run.      *)
LEMMA NoSlotOverfills ==
  ASSUME NEW st, Packed(st), NEW o \in Nat, NEW e \in Nat, o <= e, e <= MaxAddr,
         NEW v \in Versions, NoSlot(st, o, e),
         FreeFrom(PackedMap(st), o, e) = FirstFree(st, o, e),
         Fill(PackedMap(st), FirstFree(st, o, e), e) = Takes(st, FirstFree(st, o, e), e)
  PROVE  Overfull(FedMap(PackedMap(st), o, e, v))
<1> DEFINE b == PackedMap(st)
           start == FirstFree(st, o, e)
           take == Takes(st, start, e)
           c == FedMap(b, o, e, v)
<1>1. /\ ByteMap(b) /\ \A p \in Positions : b[p] # "none" <=> CoversAt(st, p)
  BY PackedMapIs
<1>2. /\ Len(st.spans) = MaxSpans /\ take # 0
      /\ \A i \in DOMAIN st.spans : /\ SpanEnd(st.spans[i]) # start
                                    /\ st.spans[i].start # start + take
  BY DEF NoSlot
<1>3. c = [p \in Positions |-> IF p \in start .. start + take - 1 THEN v ELSE b[p]]
  BY DEF FedMap
<1> DEFINE stop == HeldFrom(b, start, e)
<1>4. /\ start \in Nat /\ o <= start /\ start <= e
      /\ stop \in Nat /\ start <= stop /\ stop <= e
      /\ take \in Nat /\ start + take <= stop
  BY <1>1, FillIs
<1>5. MaxAddr \in Nat /\ v # "none"
  BY Addresses
<1> HIDE DEF b, take, c
<1>6. ASSUME NEW p \in start .. start + take - 1
      PROVE  p \in Positions /\ p \in Int /\ b[p] = "none" /\ c[p] = v
  <2>1. p \in Positions /\ p \in start .. e - 1 /\ p \in Nat /\ p < stop
    <3> HIDE DEF start, stop
    <3> QED
      BY <1>4, <1>5 DEF Positions
  <2> DEFINE H == {q \in start .. e - 1 : b[q] # "none"}
  <2>2. H \in SUBSET Nat
    <3> HIDE DEF start
    <3> QED
      BY <1>4
  <2>3. \A y \in H : stop <= y
    BY <2>2, LeastOrIs DEF HeldFrom
  <2>4. p \notin H
    <3> HIDE DEF H, stop
    <3> QED
      BY <1>4, <2>1, <2>3
  <2>5. b[p] = "none"
    BY <2>1, <2>4
  <2> QED
    BY <1>3, <2>1, <2>5
<1> HIDE DEF start, stop
<1>7. \A p \in Positions : p \notin start .. start + take - 1 => c[p] = b[p]
  BY <1>3
<1>8. start \in start .. start + take - 1
  BY <1>2, <1>4
<1>9. ASSUME start # 0 PROVE start - 1 \in Positions /\ c[start - 1] = "none"
  <2>1. start - 1 \in Int /\ start - 1 \notin start .. start + take - 1
    BY <1>4
  <2>2. start - 1 \in Positions
    BY <1>4, <1>5, <1>9 DEF Positions
  <2>3. ~CoversAt(st, start - 1)
    <3> SUFFICES ASSUME CoversAt(st, start - 1) PROVE FALSE
      OBVIOUS
    <3>1. PICK i \in DOMAIN st.spans : Covers(st.spans[i], start - 1)
      BY <2>1, PackedByteIs
    <3>2. /\ st.spans[i].start <= start - 1 /\ start - 1 < SpanEnd(st.spans[i])
          /\ st.spans[i].start \in Nat /\ SpanEnd(st.spans[i]) \in Nat
      BY <3>1, SpanFields DEF Packed, Covers
    <3>3. ~CoversAt(st, start)
      BY <1>1, <1>6, <1>8
    <3>4. ~(start < SpanEnd(st.spans[i]))
      <4> SUFFICES ASSUME start < SpanEnd(st.spans[i]) PROVE FALSE
        OBVIOUS
      <4>1. st.spans[i].start <= start
        BY <1>4, <3>2
      <4>2. Covers(st.spans[i], start)
        BY <4>1 DEF Covers
      <4> QED
        BY <1>4, <3>3, <4>2, PackedByteIs
    <3> QED
      BY <1>2, <1>4, <3>2, <3>4
  <2> QED
    BY <1>1, <1>7, <2>1, <2>2, <2>3
<1>10. start \in Runs(c)
  BY <1>5, <1>6, <1>8, <1>9 DEF Runs
<1>11. ASSUME NEW i \in DOMAIN st.spans
       PROVE  st.spans[i].start \in Runs(c) /\ st.spans[i].start # start
  <2> DEFINE q == st.spans[i].start
  <2>1. q \in Positions /\ CoversAt(st, q) /\ (q # 0 => ~CoversAt(st, q - 1))
    BY SpansAreRuns
  <2>2. q \in Nat /\ q < MaxAddr /\ q # start + take
    BY <1>2, <2>1, PositionsAre
  <2> HIDE DEF q
  <2>3. b[q] # "none"
    BY <1>1, <2>1
  <2>4. q \notin start .. start + take - 1
    BY <1>6, <2>3
  <2>5. c[q] # "none" /\ q # start
    BY <1>7, <1>8, <2>1, <2>3, <2>4
  <2>6. ASSUME q # 0 PROVE c[q - 1] = "none"
    <3>1. q - 1 \in Positions /\ q - 1 \notin start .. start + take - 1
      BY <1>4, <1>5, <2>2, <2>4, <2>6 DEF Positions
    <3> QED
      BY <1>1, <1>7, <2>1, <2>6, <3>1
  <2>7. q \in Runs(c)
    BY <2>1, <2>5, <2>6 DEF Runs
  <2> QED
    BY <2>5, <2>7 DEF q
<1>12. Overfull(c)
  BY <1>2, <1>10, <1>11, OneRunMore
<1> QED
  BY <1>12 DEF c, b

(* So would a release refused because it cuts a span in two.               *)
LEMMA SplitOverfills ==
  ASSUME NEW st, Packed(st), NEW lo \in Nat, NEW hi \in Nat, lo < hi,
         Len(st.spans) = MaxSpans, Splits(st.spans, lo, hi, Len(st.spans))
  PROVE  Overfull(ForgottenMap(PackedMap(st), lo, hi))
<1> DEFINE b == PackedMap(st)
           c == ForgottenMap(b, lo, hi)
<1>1. /\ Index(st.spans) /\ Len(st.spans) \in Nat /\ DOMAIN st.spans = 1 .. Len(st.spans)
  BY DEF Packed, Index
<1>2. PICK j \in DOMAIN st.spans : st.spans[j].start < lo /\ hi < SpanEnd(st.spans[j])
  BY <1>1 DEF Splits
<1>3. /\ st.spans[j].start \in Nat /\ SpanEnd(st.spans[j]) \in Nat
      /\ SpanEnd(st.spans[j]) <= MaxAddr
  BY <1>1, SpanFields
<1>4. MaxAddr \in Nat
  BY Addresses
<1>5. \A p \in Positions : b[p] # "none" <=> CoversAt(st, p)
  BY PackedMapIs
<1>6. \A p \in Positions : c[p] = IF p \in lo .. hi - 1 THEN "none" ELSE b[p]
  BY DEF ForgottenMap
<1> HIDE DEF b, c
<1>7. ASSUME NEW p \in lo - 1 .. hi PROVE p \in Positions /\ CoversAt(st, p)
  <2>1. p \in Int /\ p \in Positions
    BY <1>2, <1>3, <1>4 DEF Positions
  <2>2. Covers(st.spans[j], p)
    BY <1>2, <1>3, <2>1 DEF Covers
  <2> QED
    BY <2>1, <2>2, PackedByteIs
<1>8. hi \in Runs(c)
  <2>1. hi \in lo - 1 .. hi /\ hi \notin lo .. hi - 1 /\ hi - 1 \in lo .. hi - 1
        /\ hi - 1 \in lo - 1 .. hi
    OBVIOUS
  <2>2. hi \in Positions /\ hi - 1 \in Positions /\ CoversAt(st, hi)
    BY <1>7, <2>1
  <2>3. c[hi] # "none" /\ c[hi - 1] = "none"
    BY <1>5, <1>6, <2>1, <2>2
  <2> QED
    BY <2>2, <2>3 DEF Runs
<1>9. ASSUME NEW i \in DOMAIN st.spans
      PROVE  st.spans[i].start \in Runs(c) /\ st.spans[i].start # hi
  <2> DEFINE q == st.spans[i].start
  <2>1. q \in Positions /\ CoversAt(st, q) /\ (q # 0 => ~CoversAt(st, q - 1))
    BY SpansAreRuns
  <2>2. q \in Nat
    BY <2>1, PositionsAre
  <2> HIDE DEF q
  <2>3. q \notin lo .. hi
    <3> SUFFICES ASSUME q \in lo .. hi PROVE FALSE
      OBVIOUS
    <3>1. q - 1 \in lo - 1 .. hi /\ q # 0
      BY <1>2, <1>3
    <3> QED
      BY <1>7, <2>1, <3>1
  <2>4. q \notin lo .. hi - 1 /\ q # hi
    BY <2>2, <2>3
  <2>5. c[q] # "none"
    BY <1>5, <1>6, <2>1, <2>4
  <2>6. ASSUME q # 0 PROVE c[q - 1] = "none"
    <3>1. q - 1 \in Positions
      BY <1>4, <2>1, <2>2, <2>6, PositionsAre DEF Positions
    <3> QED
      BY <1>5, <1>6, <2>1, <2>6, <3>1
  <2>7. q \in Runs(c)
    BY <2>1, <2>5, <2>6 DEF Runs
  <2> QED
    BY <2>4, <2>7 DEF q
<1>10. Overfull(c)
  BY <1>8, <1>9, OneRunMore
<1> QED
  BY <1>10 DEF c, b

(* A feed of the packed store stores what a feed of its byte map would, or *)
(* is refused one that would leave it too many runs.                       *)
LEMMA PackedFeeds ==
  ASSUME NEW st, Packed(st), NEW o \in Nat, NEW n \in Nat, o + n <= MaxAddr,
         NEW v \in Versions
  PROVE  LET f == Feed(st, o, Payload(o, n, v))
         IN \/ /\ f.store = st /\ f.result = Refused("span_limit")
               /\ Overfull(FedMap(PackedMap(st), o, o + n, v))
            \/ /\ Packed(f.store)
               /\ \E count \in Nat :
                    /\ f.result = Accepted(count)
                    /\ Feeds(PackedMap(st), PackedMap(f.store), o, o + n, v, count)
<1> DEFINE f     == Feed(st, o, Payload(o, n, v))
           end   == o + n
           b     == PackedMap(st)
           start == FirstFree(st, o, end)
           take  == Takes(st, start, end)
           stored == /\ Packed(f.store) /\ take \in Nat /\ start + take <= end
                     /\ f.result = Accepted(start - o + take)
                     /\ \A p \in Int : PackedByte(f.store, p) =
                          IF p \in start .. start + take - 1 THEN v ELSE PackedByte(st, p)
<1>1. (f = [store |-> st, result |-> Refused("span_limit")] /\ NoSlot(st, o, end)) \/ stored
  <2>1. \/ f = [store |-> st, result |-> Refused("span_limit")] /\ NoSlot(st, o, end)
        \/ Fills(st, f, o, end, v)
    BY FeedPacked
  <2> HIDE DEF f, end
  <2> QED
    BY <2>1 DEF Fills
<1>2. /\ ByteMap(b) /\ Cardinality(Held(b)) = Len(st.data)
      /\ \A p \in Positions : b[p] # "none" <=> CoversAt(st, p)
  BY PackedMapIs
<1>3. end \in Nat /\ o <= end /\ end <= MaxAddr
  OBVIOUS
<1>4. \A p \in o .. end - 1 : p \in Positions
  <2>1. MaxAddr \in Nat
    BY Addresses
  <2> QED
    BY <1>3, <2>1 DEF Positions
<1> HIDE DEF b, end, stored, f
<1>5. start = FreeFrom(b, o, end)
  <2>1. {p \in o .. end - 1 : ~CoversAt(st, p)} = {p \in o .. end - 1 : b[p] = "none"}
    BY <1>2, <1>4
  <2> QED
    BY <2>1 DEF FirstFree, FreeFrom
<1>6. start \in Nat /\ o <= start /\ start <= end
  BY <1>2, <1>3, <1>5, FillIs
<1> HIDE DEF start
<1>7. take = Fill(b, start, end)
  <2>1. \A p \in start .. end - 1 : p \in o .. end - 1
    BY <1>3, <1>6
  <2>2. {p \in start .. end - 1 : CoversAt(st, p)} = {p \in start .. end - 1 : b[p] # "none"}
    BY <1>2, <1>4, <2>1
  <2>3. NextHeld(st, start, end) = HeldFrom(b, start, end)
    BY <2>2 DEF NextHeld, HeldFrom
  <2> QED
    BY <1>2, <2>3 DEF Takes, Fill
<1>8. ASSUME stored
      PROVE  /\ Packed(f.store)
             /\ \E count \in Nat :
                  /\ f.result = Accepted(count)
                  /\ Feeds(b, PackedMap(f.store), o, end, v, count)
  <2>1. /\ Packed(f.store) /\ take \in Nat /\ start + take <= end
        /\ f.result = Accepted(start - o + take)
        /\ \A p \in Int : PackedByte(f.store, p) =
             IF p \in start .. start + take - 1 THEN v ELSE PackedByte(st, p)
    BY <1>8 DEF stored
  <2> HIDE DEF take
  <2>2. start - o + take \in Nat
    BY <1>6, <2>1
  <2>3. \A p \in Positions : PackedByte(f.store, p) =
             IF p \in start .. start + take - 1 THEN v ELSE b[p]
    BY <2>1, PositionsAre DEF b, PackedMap
  <2>4. PackedMap(f.store) = [p \in Positions |->
                                IF p \in start .. start + take - 1 THEN v ELSE b[p]]
    BY <2>3 DEF PackedMap
  <2>5. Feeds(b, PackedMap(f.store), o, end, v, start - o + take)
    BY <1>5, <1>7, <2>1, <2>4 DEF Feeds
  <2> QED
    BY <2>1, <2>2, <2>5
<1>9. CASE f = [store |-> st, result |-> Refused("span_limit")] /\ NoSlot(st, o, end)
  <2>1. f.store = st /\ f.result = Refused("span_limit")
    BY <1>9
  <2>2. Overfull(FedMap(b, o, end, v))
    BY <1>3, <1>5, <1>7, <1>9, NoSlotOverfills DEF b, start
  <2> QED
    BY <2>1, <2>2 DEF f, b, end
<1>10. CASE stored
  BY <1>8, <1>10 DEF f, b, end
<1> QED
  BY <1>1, <1>9, <1>10

(* A release of the packed store forgets what it names, or is refused      *)
(* because it would leave too many runs.                                   *)
LEMMA PackedForgets ==
  ASSUME NEW st, Packed(st), NEW lo \in Nat, NEW hi \in Nat
  PROVE  LET c == Release(st, lo, hi)
         IN \/ /\ c.store = st /\ c.result = Refused("span_limit") /\ lo # 0
               /\ Overfull(ForgottenMap(PackedMap(st), lo, hi))
            \/ /\ Packed(c.store) /\ c.result = Accepted(0)
               /\ Forgets(PackedMap(st), PackedMap(c.store), lo, hi)
<1> DEFINE c == Release(st, lo, hi)
           cut == /\ Packed(c.store) /\ c.result = Accepted(0)
                  /\ \A p \in Int : PackedByte(c.store, p) =
                       IF p \in lo .. hi - 1 THEN "none" ELSE PackedByte(st, p)
<1> DEFINE full == /\ c = [store |-> st, result |-> Refused("span_limit")] /\ lo # 0
                   /\ lo < hi /\ Len(st.spans) = MaxSpans
                   /\ Splits(st.spans, lo, hi, Len(st.spans))
<1>1. full \/ cut
  BY Zenon, ReleasePacked
<1> HIDE DEF c, cut
<1>2. ASSUME cut
      PROVE  /\ Packed(c.store) /\ c.result = Accepted(0)
             /\ Forgets(PackedMap(st), PackedMap(c.store), lo, hi)
  <2>1. /\ Packed(c.store) /\ c.result = Accepted(0)
        /\ \A p \in Int : PackedByte(c.store, p) =
             IF p \in lo .. hi - 1 THEN "none" ELSE PackedByte(st, p)
    BY <1>2 DEF cut
  <2>2. \A p \in Positions : PackedByte(c.store, p) =
             IF p \in lo .. hi - 1 THEN "none" ELSE PackedByte(st, p)
    BY <2>1, PositionsAre
  <2> QED
    BY <2>1, <2>2 DEF Forgets, PackedMap
<1>3. CASE full
  <2>1. c.store = st /\ c.result = Refused("span_limit") /\ lo # 0
    BY <1>3
  <2>2. Overfull(ForgottenMap(PackedMap(st), lo, hi))
    BY <1>3, SplitOverfills
  <2> QED
    BY <2>1, <2>2 DEF c
<1>4. CASE cut
  BY <1>2, <1>4 DEF c
<1> QED
  BY <1>1, <1>3, <1>4

-----------------------------------------------------------------------------
(* The operations of ByteStore.                                            *)

(* There are MaxAddr positions.                                            *)
LEMMA PositionsCount == Cardinality(Positions) = MaxAddr
<1>1. MaxAddr \in Nat
  BY Addresses
<1>2. 0 \in Int /\ MaxAddr - 1 \in Int
  BY <1>1
<1>3. Cardinality(0 .. MaxAddr - 1) = IF 0 > MaxAddr - 1 THEN 0 ELSE MaxAddr - 1 - 0 + 1
  BY <1>2, FS_Interval
<1> QED
  BY <1>1, <1>3 DEF Positions

(* ByteStore counts as this module does.                                   *)
LEMMA CardinalityIs == \A S : Abstract!Cardinality(S) = Cardinality(S)
BY DEF Abstract!Cardinality, Cardinality

(* What a feed stores is what ByteStore says it does.                      *)
LEMMA StoredIs ==
  ASSUME NEW b, ByteMap(b), NEW o \in Nat, NEW e \in Nat, o <= e, e <= MaxAddr
  PROVE  LET start == FreeFrom(b, o, e)
             take  == Fill(b, start, e)
         IN /\ Abstract!Stored(b, o, e) = start .. start + take - 1
            /\ Abstract!MinOr({p \in o .. e - 1 : b[p] = "none"}, e) = start
            /\ Cardinality(Abstract!Stored(b, o, e)) = take
<1> DEFINE start == FreeFrom(b, o, e)
           stop == HeldFrom(b, start, e)
           take == Fill(b, start, e)
           free == {p \in Positions : b[p] = "none"}
           room == Cap - Cardinality(Held(b))
           stored == Abstract!Stored(b, o, e)
<1>1. \A S : Abstract!MinOr(S, e) = LeastOr(S, e)
  BY DEF Abstract!MinOr, LeastOr, Min
<1>2. \A p \in o .. e - 1 : p \in Positions
  <2>1. MaxAddr \in Nat
    BY Addresses
  <2> QED
    BY <2>1 DEF Positions
<1>3. free \cap (o .. e - 1) = {p \in o .. e - 1 : b[p] = "none"}
  BY <1>2
<1>4. LeastOr(free \cap (o .. e - 1), e) = start
  BY <1>3 DEF FreeFrom
<1>5. /\ start \in Nat /\ o <= start /\ start <= e
      /\ stop \in Nat /\ start <= stop
      /\ take \in Nat /\ start + take <= stop
  BY FillIs
<1>6. Positions \ free = Held(b)
  BY DEF Held
<1>7. stored =
        LET first == Abstract!MinOr(free \cap (o .. e - 1), e)
            last  == Abstract!MinOr((first .. e - 1) \ free, e)
            left  == Cap - Abstract!Cardinality(Positions \ free)
        IN first .. (IF last - first <= left THEN last ELSE first + left) - 1
  BY Zenon DEF Abstract!Stored, Abstract!NoByte
<1>8. take = Least(stop - start, room)
  BY DEF Fill
<1> HIDE DEF start
<1>9. (start .. e - 1) \ free = {p \in start .. e - 1 : b[p] # "none"}
  <2>1. \A p \in start .. e - 1 : p \in o .. e - 1
    BY <1>5
  <2> QED
    BY <1>2, <2>1
<1>10. LeastOr((start .. e - 1) \ free, e) = stop
  BY <1>9 DEF HeldFrom
<1> HIDE DEF stop, take, room, free, stored
<1>11. stored = start .. (IF stop - start <= room THEN stop ELSE start + room) - 1
  <2> DEFINE Upto(first, last, left) ==
               first .. (IF last - first <= left THEN last ELSE first + left) - 1
  <2>1. Abstract!MinOr(free \cap (o .. e - 1), e) = start
    BY <1>1, <1>4
  <2>2. Abstract!MinOr((start .. e - 1) \ free, e) = stop
    BY <1>1, <1>10
  <2>3. Cap - Abstract!Cardinality(Positions \ free) = room
    BY <1>6, CardinalityIs DEF room
  <2>4. stored = Upto(Abstract!MinOr(free \cap (o .. e - 1), e),
                      Abstract!MinOr((Abstract!MinOr(free \cap (o .. e - 1), e) .. e - 1) \ free, e),
                      Cap - Abstract!Cardinality(Positions \ free))
    BY <1>7, Zenon
  <2> HIDE DEF Upto
  <2>5. stored = Upto(start, stop, room)
    BY <2>1, <2>2, <2>3, <2>4
  <2> QED
    BY <2>5 DEF Upto
<1>12. (IF stop - start <= room THEN stop ELSE start + room) = start + take
  <2>1. room \in Int
    <3>1. Cardinality(Held(b)) \in Int /\ Cap \in Int
      BY Addresses DEF ByteMap
    <3> QED
      BY <3>1 DEF room
  <2> QED
    BY <1>5, <1>8, <2>1 DEF Least
<1>13. stored = start .. start + take - 1
  <2> DEFINE top == IF stop - start <= room THEN stop ELSE start + room
  <2>1. stored = start .. top - 1 /\ top = start + take
    BY <1>11, <1>12
  <2> HIDE DEF top
  <2> QED
    BY <1>5, <2>1
<1>14. Cardinality(start .. start + take - 1) = take
  <2>1. start \in Int /\ start + take - 1 \in Int
    BY <1>5
  <2> DEFINE last == start + take - 1
  <2>2. Cardinality(start .. last) = IF start > last THEN 0 ELSE last - start + 1
    <3> HIDE DEF last
    <3> QED
      BY <2>1, FS_Interval DEF last
  <2> QED
    BY <1>5, <2>2
<1>15. Abstract!MinOr({p \in o .. e - 1 : b[p] = "none"}, e) = start
  BY <1>1, <1>3, <1>4
<1> QED
  BY <1>13, <1>14, <1>15 DEF stored, start, take

(* A range of offsets below MaxAddr.                                       *)
LEMMA InsideIs ==
  ASSUME NEW o \in Nat, NEW n \in Nat
  PROVE  o .. o + n - 1 \subseteq Positions <=> n = 0 \/ o + n <= MaxAddr
<1>1. MaxAddr \in Nat
  BY Addresses
<1>2. ASSUME n # 0, ~(o + n <= MaxAddr) PROVE ~(o .. o + n - 1 \subseteq Positions)
  <2>1. o + n - 1 \in o .. o + n - 1 /\ o + n - 1 \notin Positions
    BY <1>1, <1>2 DEF Positions
  <2> QED
    BY <2>1
<1>3. ASSUME n = 0 \/ o + n <= MaxAddr PROVE o .. o + n - 1 \subseteq Positions
  BY <1>1, <1>3 DEF Positions
<1> QED
  BY <1>2, <1>3

(* ByteStore has too many runs where this module finds too many.           *)
LEMMA TooManyIs == \A b : Abstract!TooManyRuns(b) <=> Overfull(b)
BY CardinalityIs DEF Abstract!TooManyRuns, Abstract!RunStarts, Abstract!NoByte, Overfull, Runs

(* What is held once a range has been fed is what ByteStore says.          *)
LEMMA FedIs ==
  ASSUME NEW b, ByteMap(b), NEW o \in Nat, NEW e \in Nat, o <= e, e <= MaxAddr,
         NEW v \in Versions
  PROVE  Abstract!Fed(b, o, e, v) = FedMap(b, o, e, v)
<1> DEFINE start == FreeFrom(b, o, e)
           take == Fill(b, start, e)
<1>1. Abstract!Stored(b, o, e) = start .. start + take - 1
  BY StoredIs
<1>2. FedMap(b, o, e, v) =
        [p \in Positions |-> IF p \in start .. start + take - 1 THEN v ELSE b[p]]
  BY DEF FedMap
<1> HIDE DEF start, take
<1> QED
  BY <1>1, <1>2 DEF Abstract!Fed

(* A feed of the byte map held is a step of ByteStore.                     *)
LEMMA FeedIsByteStep ==
  ASSUME ByteMap(HeldBytes), NEW o \in Nat, NEW n \in Nat, o + n <= MaxAddr,
         NEW v \in Versions, NEW count, result' = Accepted(count),
         call' = Called("feed", o, n, v),
         Feeds(HeldBytes, HeldBytes', o, o + n, v, count)
  PROVE  Abstract!ByteNext
<1> DEFINE b == HeldBytes
           c == HeldBytes'
           e == o + n
           start == FreeFrom(b, o, e)
           take == Fill(b, start, e)
           stored == Abstract!Stored(b, o, e)
<1>0. e \in Nat /\ o <= e /\ e <= MaxAddr /\ o .. e - 1 \subseteq Positions
  <2>1. o .. o + n - 1 \subseteq Positions
    BY InsideIs
  <2> QED
    BY <2>1
<1>1. /\ /\ take \in Nat /\ count = start - o + take
         /\ c = [p \in Positions |-> IF p \in start .. start + take - 1 THEN v ELSE b[p]]
      /\ ByteMap(b)
  BY DEF Feeds
<1> HIDE DEF b, c, e
<1>2. /\ stored = start .. start + take - 1
      /\ Abstract!MinOr({p \in o .. e - 1 : b[p] = "none"}, e) = start
      /\ Cardinality(stored) = take
      /\ Abstract!Fed(b, o, e, v) = FedMap(b, o, e, v)
  BY <1>0, <1>1, StoredIs, FedIs
<1>3. c = Abstract!Fed(b, o, e, v)
  BY <1>1, <1>2 DEF FedMap
<1> HIDE DEF start, take, stored
<1>4. result' = Abstract!Accepted(start - o + Abstract!Cardinality(stored))
  BY <1>1, <1>2, CardinalityIs DEF Accepted, Abstract!Accepted
<1>5. Abstract!ByteFeed(b, c, o, e, v)
  BY <1>2, <1>3, <1>4 DEF Abstract!ByteFeed, Abstract!NoByte, stored
<1>6. /\ call'.op = "feed" /\ call'.start = o /\ call'.len = n /\ call'.version = v
      /\ call'.start + call'.len = e
  BY DEF Called, e
<1>7. Abstract!ByteCall(b, c, call')
  BY <1>0, <1>5, <1>6 DEF Abstract!ByteCall
<1> QED
  BY <1>7 DEF Abstract!ByteNext, b, c

(* So is a release of it,                                                  *)
LEMMA ReleaseIsByteStep ==
  ASSUME NEW op \in {"release", "release_before", "clear"}, NEW o \in Nat, NEW n \in Nat,
         o + n <= MaxAddr, call' = Called(op, o, n, "none"), result' = Accepted(0),
         Forgets(HeldBytes, HeldBytes', o, o + n)
  PROVE  Abstract!ByteNext
<1> DEFINE e == o + n
<1>0. o .. e - 1 \subseteq Positions
  <2>1. o .. o + n - 1 \subseteq Positions
    BY InsideIs
  <2> QED
    BY <2>1
<1>1. Abstract!ByteRelease(HeldBytes, HeldBytes', o, e)
  BY DEF Abstract!ByteRelease, Abstract!Forgotten, Abstract!Accepted, Accepted, Forgets,
         Abstract!NoByte
<1>2. call'.op = op /\ call'.start = o /\ call'.start + call'.len = e
  BY DEF Called
<1> HIDE DEF e
<1>3. Abstract!ByteCall(HeldBytes, HeldBytes', call')
  BY <1>0, <1>1, <1>2 DEF Abstract!ByteCall
<1> QED
  BY <1>3 DEF Abstract!ByteNext

(* a call that is refused because it leaves the address space,             *)
LEMMA OverflowIsByteStep ==
  ASSUME NEW op \in {"feed", "release"}, NEW o \in 0 .. MaxAddr, NEW n \in 0 .. MaxAddr, NEW v,
         o + n > MaxAddr, call' = Called(op, o, n, v), result' = Refused("overflow"),
         HeldBytes' = HeldBytes
  PROVE  Abstract!ByteNext
<1> DEFINE e == o + n
<1>0. ~(o .. e - 1 \subseteq Positions)
  <2>1. o \in Nat /\ n \in Nat /\ ~(n = 0 \/ o + n <= MaxAddr)
    BY Addresses
  <2>2. ~(o .. o + n - 1 \subseteq Positions)
    BY <2>1, InsideIs
  <2> QED
    BY <2>2
<1>1. Abstract!ByteRefuse(HeldBytes, HeldBytes', "overflow")
  BY DEF Abstract!ByteRefuse, Refused
<1>2. call'.op = op /\ call'.start = o /\ call'.start + call'.len = e
  BY DEF Called
<1> HIDE DEF e
<1>3. Abstract!ByteCall(HeldBytes, HeldBytes', call')
  BY <1>0, <1>1, <1>2 DEF Abstract!ByteCall
<1> QED
  BY <1>3 DEF Abstract!ByteNext

(* a feed that is refused for the span limit,                              *)
LEMMA FullFeedIsByteStep ==
  ASSUME ByteMap(HeldBytes), NEW o \in Nat, NEW n \in Nat, o + n <= MaxAddr,
         NEW v \in Versions, call' = Called("feed", o, n, v),
         result' = Refused("span_limit"), HeldBytes' = HeldBytes,
         Overfull(FedMap(HeldBytes, o, o + n, v))
  PROVE  Abstract!ByteNext
<1> DEFINE e == o + n
<1>0. e \in Nat /\ o <= e /\ e <= MaxAddr /\ o .. e - 1 \subseteq Positions
  <2>1. o .. o + n - 1 \subseteq Positions
    BY InsideIs
  <2> QED
    BY <2>1
<1>1. Abstract!ByteRefuse(HeldBytes, HeldBytes', "span_limit")
  BY DEF Abstract!ByteRefuse, Refused
<1>2. /\ call'.op = "feed" /\ call'.start = o /\ call'.start + call'.len = e
      /\ call'.version = v
  BY DEF Called
<1>3. Overfull(FedMap(HeldBytes, o, e, v))
  OBVIOUS
<1> HIDE DEF e
<1>4. Abstract!TooManyRuns(Abstract!Fed(HeldBytes, o, e, v))
  BY <1>0, <1>3, FedIs, TooManyIs
<1>5. Abstract!ByteCall(HeldBytes, HeldBytes', call')
  BY <1>0, <1>1, <1>2, <1>4 DEF Abstract!ByteCall
<1> QED
  BY <1>5 DEF Abstract!ByteNext

(* and a release that is.                                                  *)
LEMMA FullReleaseIsByteStep ==
  ASSUME NEW o \in Nat, NEW n \in Nat, o + n <= MaxAddr,
         call' = Called("release", o, n, "none"),
         result' = Refused("span_limit"), HeldBytes' = HeldBytes,
         Overfull(ForgottenMap(HeldBytes, o, o + n))
  PROVE  Abstract!ByteNext
<1> DEFINE e == o + n
<1>0. o .. e - 1 \subseteq Positions
  <2>1. o .. o + n - 1 \subseteq Positions
    BY InsideIs
  <2> QED
    BY <2>1
<1>1. Abstract!ByteRefuse(HeldBytes, HeldBytes', "span_limit")
  BY DEF Abstract!ByteRefuse, Refused
<1>2. call'.op = "release" /\ call'.start = o /\ call'.start + call'.len = e
  BY DEF Called
<1>3. Overfull(ForgottenMap(HeldBytes, o, e))
  OBVIOUS
<1> HIDE DEF e
<1>4. Abstract!Forgotten(HeldBytes, o, e) = ForgottenMap(HeldBytes, o, e)
  BY DEF Abstract!Forgotten, Abstract!NoByte, ForgottenMap
<1>5. Abstract!TooManyRuns(Abstract!Forgotten(HeldBytes, o, e))
  BY <1>3, <1>4, TooManyIs
<1>6. Abstract!ByteCall(HeldBytes, HeldBytes', call')
  BY <1>0, <1>1, <1>2, <1>5 DEF Abstract!ByteCall
<1> QED
  BY <1>6 DEF Abstract!ByteNext

-----------------------------------------------------------------------------
(* The store.                                                              *)

(* What an operation may return.                                           *)
Results == [outcome : {"ok", "overflow", "span_limit"}, count : 0 .. MaxAddr]

(* The inductive invariant: each layout keeps its shape, in use or empty.  *)
IInv ==
  /\ admitted \in BOOLEAN
  /\ Packed(store)
  /\ Counted(segments, retained)
  /\ result \in Results

(* The byte map of the representation in use.                              *)
LEMMA HeldBytesAre ==
  ASSUME IInv
  PROVE  HeldBytes = IF admitted THEN PackedMap(store) ELSE SegmentMap(segments)
<1>1. CASE admitted
  <2>1. \A p \in Positions :
          (IF ~HoldsByte(p) THEN "none"
           ELSE LET b == TryReadInput(p, p + 1)[1]
                IN IF b[1] = p THEN b[2] ELSE "misplaced") = PackedByte(store, p)
    BY <1>1 DEF HoldsByte, TryReadInput, PackedByte
  <2> QED
    BY <1>1, <2>1 DEF HeldBytes, PackedMap
<1>2. CASE ~admitted
  <2> SUFFICES ASSUME NEW p \in Positions
               PROVE  (IF ~HoldsByte(p) THEN "none"
                       ELSE LET b == TryReadInput(p, p + 1)[1]
                            IN IF b[1] = p THEN b[2] ELSE "misplaced")
                        = SegmentByte(segments, p)
    BY <1>2 DEF HeldBytes, SegmentMap
  <2>1. HoldsByte(p) <=> HoldsIn(segments, p)
    BY <1>2 DEF HoldsByte, HoldsSegment, HoldsIn, Starts, SegmentEnd, EndIn
  <2>2. p \in Int
    BY PositionsAre
  <2>3. CASE ~HoldsIn(segments, p)
    BY <2>1, <2>3 DEF SegmentByte
  <2>4. CASE HoldsIn(segments, p)
    <3>1. p .. (p + 1) - 1 = {p} /\ 1 .. (p + 1) - p = {1} /\ p + (1 - 1) = p
      BY <2>2
    <3>2. HoldsSegment(p)
      BY <2>4 DEF HoldsSegment, HoldsIn, Starts, SegmentEnd, EndIn
    <3> DEFINE read == [i \in 1 .. (p + 1) - p |->
                          LET s == SegmentAt(p + i - 1) IN segments[s][p + i - s]]
    <3>3. TryReadInput(p, p + 1) = read
      <4>1. \A q \in p .. (p + 1) - 1 : HoldsSegment(q)
        BY <3>1, <3>2
      <4>2. TryReadInput(p, p + 1) =
              IF admitted THEN TryRead(store, p, p + 1)
              ELSE IF \A q \in p .. (p + 1) - 1 : HoldsSegment(q) THEN read ELSE <<>>
        BY Zenon DEF TryReadInput
      <4> HIDE DEF read
      <4> QED
        BY <1>2, <4>1, <4>2
    <3>4. read[1] = segments[SegmentAt(p + 1 - 1)][p + 1 - SegmentAt(p + 1 - 1)]
      BY <3>1
    <3>5. SegmentAt(p + 1 - 1) = AtIn(segments, p)
      BY <3>1 DEF SegmentAt, AtIn, Starts
    <3>6. AtIn(segments, p) \in Int
      <4>1. PICK s \in DOMAIN segments : InSegment(segments, s, p)
        BY <2>2, <2>4, SegmentByteIs DEF IInv, Counted
      <4>2. AtIn(segments, p) = s
        BY <2>2, <4>1, SegmentByteIs DEF IInv, Counted
      <4>3. s \in Nat
        BY SegmentFields DEF IInv, Counted, Disjoint
      <4> QED
        BY <4>2, <4>3
    <3>7. p + 1 - AtIn(segments, p) = p - AtIn(segments, p) + 1
      BY <2>2, <3>6
    <3>8. TryReadInput(p, p + 1)[1] = segments[AtIn(segments, p)][p - AtIn(segments, p) + 1]
      BY <3>3, <3>4, <3>5, <3>7
    <3> QED
      BY <2>1, <2>4, <3>8 DEF SegmentByte
  <2> QED
    BY <2>3, <2>4
<1> QED
  BY <1>1, <1>2 DEF IInv

(* What is held is a byte map within the cap.                              *)
LEMMA HeldIsByteMap ==
  ASSUME IInv PROVE ByteMap(HeldBytes)
<1>1. ByteMap(PackedMap(store)) /\ ByteMap(SegmentMap(segments))
  BY PackedMapIs, SegmentMapIs DEF IInv
<1> QED
  BY <1>1, HeldBytesAre

(* The empty store.                                                        *)
LEMMA EmptyIs ==
  /\ Packed(EmptyStore) /\ Counted(<<>>, 0)
  /\ \A p \in Int : PackedByte(EmptyStore, p) = "none" /\ SegmentByte(<<>>, p) = "none"
<1> DEFINE st == EmptyStore
<1>1. st.data = <<>> /\ st.spans = <<>> /\ Len(st.data) = 0 /\ Len(st.spans) = 0
      /\ DOMAIN st.spans = {} /\ st = [data |-> st.data, spans |-> st.spans]
  BY DEF EmptyStore
<1>2. Cap \in Nat /\ MaxSpans \in Nat
  BY Addresses
<1> HIDE DEF st
<1>3. st.data \in Seq(Bytes) /\ st.spans \in Seq(Spans)
  BY <1>1
<1>4. Packed(st)
  <2>1. Index(st.spans)
    BY <1>1, <1>3 DEF Index
  <2>2. Laid(st.spans) /\ Placed(st.data, st.spans)
    BY <1>1 DEF Laid, Placed
  <2> QED
    BY <1>1, <1>2, <1>3, <2>1, <2>2 DEF Packed
<1>5. \A p \in Int : PackedByte(st, p) = "none"
  BY <1>1, <1>4, PackedByteIs
<1> DEFINE g == <<>>
<1>6. DOMAIN g = {}
  OBVIOUS
<1> HIDE DEF g
<1>7. Disjoint(g) /\ Live(g) = {}
  BY <1>6 DEF Disjoint, Live
<1>8. Counted(g, 0)
  BY <1>2, <1>7, FS_EmptySet DEF Counted
<1>9. \A p \in Int : SegmentByte(g, p) = "none"
  BY <1>6, <1>7, SegmentByteIs
<1> QED
  BY <1>4, <1>5, <1>8, <1>9 DEF st, g

(* It holds at the start.                                                  *)
LEMMA InitIInv == Init => IInv
<1> SUFFICES ASSUME Init PROVE IInv
  OBVIOUS
<1>1. Accepted(0) \in Results
  <2>1. 0 \in 0 .. MaxAddr
    BY Addresses
  <2> QED
    BY <2>1 DEF Accepted, Results
<1> QED
  BY <1>1, EmptyIs DEF Init, IInv

(* A step of an operation: the invariant is kept, and ByteStore allows it. *)
Allowed == IInv' /\ Abstract!ByteNext

(* The counts that are returned.                                           *)
LEMMA ResultsAre ==
  /\ \A n \in 0 .. MaxAddr : Accepted(n) \in Results
  /\ \A why \in {"overflow", "span_limit"} : Refused(why) \in Results
<1>1. 0 \in 0 .. MaxAddr
  BY Addresses
<1> QED
  BY <1>1 DEF Accepted, Refused, Results

(* A feed's count is at most what was offered.                             *)
LEMMA CountFits ==
  ASSUME NEW b, ByteMap(b), NEW c, NEW o \in Nat, NEW e \in Nat, o <= e, e <= MaxAddr,
         NEW v, NEW count \in Nat, Feeds(b, c, o, e, v, count)
  PROVE  count \in 0 .. MaxAddr
<1> DEFINE start == FreeFrom(b, o, e)
           take == Fill(b, start, e)
<1>1. take \in Nat /\ start + take <= e /\ count = start - o + take
  BY DEF Feeds
<1>2. start \in Nat /\ o <= start
  BY FillIs
<1>3. MaxAddr \in Nat
  BY Addresses
<1> HIDE DEF start, take
<1> QED
  BY <1>1, <1>2, <1>3

(* A refusal before either representation is looked at.                    *)
LEMMA RefuseAllowed ==
  ASSUME IInv, Refuse, NEW op \in {"feed", "release"}, NEW o \in 0 .. MaxAddr,
         NEW n \in 0 .. MaxAddr, NEW v, o + n > MaxAddr, call' = Called(op, o, n, v)
  PROVE  Allowed
<1>1. /\ result' = Refused("overflow") /\ admitted' = admitted /\ store' = store
      /\ segments' = segments /\ retained' = retained
  BY DEF Refuse
<1>2. IInv'
  BY <1>1, ResultsAre DEF IInv
<1>3. HeldBytes' = HeldBytes
  BY <1>1 DEF HeldBytes, HoldsByte, TryReadInput, HoldsSegment, Starts, SegmentEnd,
              SegmentAt
<1>4. Abstract!ByteNext
  BY <1>1, <1>3, OverflowIsByteStep
<1> QED
  BY <1>2, <1>4 DEF Allowed

(* The packed store after a call, the segments as they were.               *)
LEMMA PackedBytesAre ==
  ASSUME IInv, IInv', admitted, admitted' = admitted
  PROVE  HeldBytes = PackedMap(store) /\ HeldBytes' = PackedMap(store')
<1>1. HeldBytes = IF admitted THEN PackedMap(store) ELSE SegmentMap(segments)
  BY HeldBytesAre
<1>2. (HeldBytes = IF admitted THEN PackedMap(store) ELSE SegmentMap(segments))'
  BY HeldBytesAre, PTL
<1>3. HeldBytes' = IF admitted' THEN PackedMap(store') ELSE SegmentMap(segments')
  BY <1>2 DEF PackedMap, SegmentMap
<1> QED
  BY <1>1, <1>3

(* The segments after a call, the packed store not in use.                 *)
LEMMA SegmentBytesAre ==
  ASSUME IInv, IInv', ~admitted, admitted' = admitted
  PROVE  HeldBytes = SegmentMap(segments) /\ HeldBytes' = SegmentMap(segments')
<1>1. HeldBytes = IF admitted THEN PackedMap(store) ELSE SegmentMap(segments)
  BY HeldBytesAre
<1>2. (HeldBytes = IF admitted THEN PackedMap(store) ELSE SegmentMap(segments))'
  BY HeldBytesAre, PTL
<1>3. HeldBytes' = IF admitted' THEN PackedMap(store') ELSE SegmentMap(segments')
  BY <1>2 DEF PackedMap, SegmentMap
<1> QED
  BY <1>1, <1>3

(* What a feed that fits the address range becomes, in either layout.      *)
LEMMA FedAllowed ==
  ASSUME IInv, IInv', NEW o \in Nat, NEW n \in Nat, o + n <= MaxAddr,
         NEW v \in Versions, NEW count, result' = Accepted(count),
         call' = Called("feed", o, n, v),
         Feeds(HeldBytes, HeldBytes', o, o + n, v, count)
  PROVE  Allowed
<1>1. ByteMap(HeldBytes)
  BY HeldIsByteMap
<1>2. Abstract!ByteNext
  BY <1>1, FeedIsByteStep
<1> QED
  BY <1>2 DEF Allowed

(* InputStore::feed.                                                       *)
LEMMA FeedAllowed ==
  ASSUME IInv, NEW o \in 0 .. MaxAddr, NEW n \in 0 .. MaxAddr, NEW v \in Versions,
         FeedInput(o, n, v)
  PROVE  Allowed
<1>1. o \in Nat /\ n \in Nat /\ call' = Called("feed", o, n, v)
  BY DEF FeedInput
<1>2. CASE o + n > MaxAddr /\ Refuse
  BY <1>1, <1>2, RefuseAllowed
<1>3. CASE /\ o + n <= MaxAddr /\ admitted
           /\ LET fed == Feed(store, o, Payload(o, n, v))
              IN store' = fed.store /\ result' = fed.result
           /\ UNCHANGED <<admitted, segments, retained>>
  <2> DEFINE f == Feed(store, o, Payload(o, n, v))
  <2>1. /\ o + n <= MaxAddr /\ admitted /\ store' = f.store /\ result' = f.result
        /\ admitted' = admitted /\ segments' = segments /\ retained' = retained
    BY <1>3
  <2>2. Packed(store)
    BY DEF IInv
  <2> DEFINE refused == /\ f.store = store /\ f.result = Refused("span_limit")
                        /\ Overfull(FedMap(PackedMap(store), o, o + n, v))
  <2>3. \/ refused
        \/ /\ Packed(f.store)
           /\ \E count \in Nat :
                /\ f.result = Accepted(count)
                /\ Feeds(PackedMap(store), PackedMap(f.store), o, o + n, v, count)
    BY <1>1, <2>1, <2>2, PackedFeeds
  <2> HIDE DEF f
  <2>4. CASE refused
    <3>1. IInv'
      BY <2>1, <2>4, ResultsAre DEF IInv
    <3>2. HeldBytes' = HeldBytes /\ HeldBytes = PackedMap(store)
      BY <2>1, <2>4, <3>1, PackedBytesAre
    <3>3. Abstract!ByteNext
      BY <1>1, <2>1, <2>4, <3>2, HeldIsByteMap, FullFeedIsByteStep
    <3> QED
      BY <3>1, <3>3 DEF Allowed
  <2>5. CASE ~refused
    <3>1. PICK count \in Nat :
            /\ f.result = Accepted(count)
            /\ Feeds(PackedMap(store), PackedMap(f.store), o, o + n, v, count)
      BY <2>3, <2>5
    <3>2. Packed(f.store)
      BY <2>3, <2>5
    <3>3. ByteMap(PackedMap(store))
      BY <2>2, PackedMapIs
    <3>4. count \in 0 .. MaxAddr
      BY <1>1, <2>1, <3>1, <3>3, CountFits
    <3>5. IInv'
      BY <2>1, <3>1, <3>2, <3>4, ResultsAre DEF IInv
    <3>6. HeldBytes = PackedMap(store) /\ HeldBytes' = PackedMap(f.store)
      BY <2>1, <3>5, PackedBytesAre
    <3> QED
      BY <1>1, <2>1, <3>1, <3>5, <3>6, FedAllowed
  <2> QED
    BY <2>4, <2>5
<1>4. CASE /\ o + n <= MaxAddr /\ ~admitted
           /\ FeedSegments(o, n, v)
           /\ UNCHANGED <<admitted, store>>
  <2>1. o + n <= MaxAddr /\ ~admitted /\ admitted' = admitted /\ store' = store
    BY <1>4
  <2>2. Counted(segments, retained)
    BY DEF IInv
  <2>3. /\ Counted(segments', retained')
        /\ \E count \in Nat :
             /\ result' = Accepted(count)
             /\ Feeds(SegmentMap(segments), SegmentMap(segments'), o, o + n, v, count)
    BY <1>1, <1>4, <2>1, <2>2, FeedSegmentsFeeds
  <2>4. PICK count \in Nat :
             /\ result' = Accepted(count)
             /\ Feeds(SegmentMap(segments), SegmentMap(segments'), o, o + n, v, count)
    BY <2>3
  <2>5. ByteMap(SegmentMap(segments))
    BY <2>2, SegmentMapIs
  <2>6. count \in 0 .. MaxAddr
    BY <1>1, <2>1, <2>4, <2>5, CountFits
  <2>7. IInv'
    BY <2>1, <2>3, <2>4, <2>6, ResultsAre DEF IInv
  <2>8. HeldBytes = SegmentMap(segments) /\ HeldBytes' = SegmentMap(segments')
    BY <2>1, <2>7, SegmentBytesAre
  <2> QED
    BY <1>1, <2>1, <2>4, <2>7, <2>8, FedAllowed
<1> QED
  BY <1>2, <1>3, <1>4 DEF FeedInput

(* A call of the packed store that forgets lo .. hi - 1.                   *)
LEMMA PackedReleaseAllowed ==
  ASSUME IInv, NEW lo \in Nat, NEW n \in Nat, lo + n <= MaxAddr,
         NEW op \in {"release", "release_before", "clear"}, call' = Called(op, lo, n, "none"),
         admitted, admitted' = admitted, segments' = segments, retained' = retained,
         Packed(store'), result' = Accepted(0),
         Forgets(PackedMap(store), PackedMap(store'), lo, lo + n)
  PROVE  Allowed
<1>1. IInv'
  <2>1. 0 \in 0 .. MaxAddr
    BY Addresses
  <2> QED
    BY <2>1, ResultsAre DEF IInv
<1>2. HeldBytes = PackedMap(store) /\ HeldBytes' = PackedMap(store')
  BY <1>1, PackedBytesAre
<1>3. Abstract!ByteNext
  BY <1>2, ReleaseIsByteStep
<1> QED
  BY <1>1, <1>3 DEF Allowed

(* A call of the segment map that does.                                    *)
LEMMA SegmentReleaseAllowed ==
  ASSUME IInv, NEW lo \in Nat, NEW n \in Nat, lo + n <= MaxAddr,
         NEW op \in {"release", "release_before", "clear"}, call' = Called(op, lo, n, "none"),
         ~admitted, admitted' = admitted, store' = store,
         Counted(segments', retained'), result' = Accepted(0),
         Forgets(SegmentMap(segments), SegmentMap(segments'), lo, lo + n)
  PROVE  Allowed
<1>1. IInv'
  <2>1. 0 \in 0 .. MaxAddr
    BY Addresses
  <2> QED
    BY <2>1, ResultsAre DEF IInv
<1>2. HeldBytes = SegmentMap(segments) /\ HeldBytes' = SegmentMap(segments')
  BY <1>1, SegmentBytesAre
<1>3. Abstract!ByteNext
  BY <1>2, ReleaseIsByteStep
<1> QED
  BY <1>1, <1>3 DEF Allowed

(* InputStore::release.                                                    *)
LEMMA ReleaseAllowed ==
  ASSUME IInv, NEW o \in 0 .. MaxAddr, NEW n \in 0 .. MaxAddr, ReleaseInput(o, n)
  PROVE  Allowed
<1> DEFINE e == o + n
<1>1. /\ o \in Nat /\ n \in Nat /\ e \in Nat /\ o <= e
      /\ call' = Called("release", o, n, "none")
  BY DEF ReleaseInput
<1>2. CASE o + n > MaxAddr /\ Refuse
  BY <1>1, <1>2, RefuseAllowed
<1>3. CASE /\ o + n <= MaxAddr /\ admitted
           /\ LET cut == Release(store, o, o + n)
              IN store' = cut.store /\ result' = cut.result
           /\ UNCHANGED <<admitted, segments, retained>>
  <2> DEFINE c == Release(store, o, e)
  <2>1. /\ e <= MaxAddr /\ admitted /\ store' = c.store /\ result' = c.result
        /\ admitted' = admitted /\ segments' = segments /\ retained' = retained
    BY <1>3
  <2>2. Packed(store)
    BY DEF IInv
  <2> DEFINE refused == /\ c.store = store /\ c.result = Refused("span_limit")
                        /\ Overfull(ForgottenMap(PackedMap(store), o, e))
  <2> HIDE DEF e
  <2>3. \/ refused
        \/ /\ Packed(c.store) /\ c.result = Accepted(0)
           /\ Forgets(PackedMap(store), PackedMap(c.store), o, e)
    BY <1>1, <2>2, PackedForgets
  <2> HIDE DEF c
  <2>4. CASE refused
    <3>1. IInv'
      BY <2>1, <2>4, ResultsAre DEF IInv
    <3>2. HeldBytes' = HeldBytes /\ HeldBytes = PackedMap(store)
      BY <2>1, <2>4, <3>1, PackedBytesAre
    <3>3. Abstract!ByteNext
      BY <1>1, <2>1, <2>4, <3>2, FullReleaseIsByteStep DEF e
    <3> QED
      BY <3>1, <3>3 DEF Allowed
  <2>5. CASE /\ Packed(c.store) /\ c.result = Accepted(0)
             /\ Forgets(PackedMap(store), PackedMap(c.store), o, e)
    BY <1>1, <2>1, <2>5, PackedReleaseAllowed DEF e
  <2> QED
    BY <2>3, <2>4, <2>5
<1>4. CASE /\ o + n <= MaxAddr /\ ~admitted
           /\ ReleaseSegments(o, o + n)
           /\ UNCHANGED <<admitted, store>>
  <2>1. /\ e <= MaxAddr /\ ~admitted /\ admitted' = admitted /\ store' = store
        /\ ReleaseSegments(o, e)
    BY <1>4
  <2>2. Counted(segments, retained)
    BY DEF IInv
  <2> HIDE DEF e
  <2>3. /\ Counted(segments', retained') /\ result' = Accepted(0)
        /\ Forgets(SegmentMap(segments), SegmentMap(segments'), o, e)
    BY <1>1, <2>1, <2>2, ReleaseSegmentsForgets
  <2> QED
    BY <1>1, <2>1, <2>3, SegmentReleaseAllowed DEF e
<1> QED
  BY <1>2, <1>3, <1>4 DEF ReleaseInput

(* InputStore::release_before: the packed store is released from 0, which  *)
(* splits no span, so the call that it expects to succeed does.            *)
LEMMA ReleaseBeforeAllowed ==
  ASSUME IInv, NEW o \in Positions, ReleaseBefore(o)
  PROVE  Allowed
<1>1. /\ o \in Nat /\ 0 \in Nat /\ 0 <= o /\ o <= MaxAddr /\ 0 + o = o
      /\ call' = Called("release_before", 0, o, "none")
  <2>1. MaxAddr \in Nat /\ o \in Nat /\ o < MaxAddr
    BY Addresses, PositionsAre
  <2> QED
    BY <2>1 DEF ReleaseBefore
<1>2. CASE /\ admitted
           /\ LET cut == Release(store, 0, o)
              IN /\ store' = cut.store
                 /\ result' = IF cut.result = Accepted(0) THEN Accepted(0) ELSE Refused("panic")
           /\ UNCHANGED <<admitted, segments, retained>>
  <2> DEFINE c == Release(store, 0, o)
  <2>1. /\ admitted /\ store' = c.store
        /\ result' = IF c.result = Accepted(0) THEN Accepted(0) ELSE Refused("panic")
        /\ admitted' = admitted /\ segments' = segments /\ retained' = retained
    BY <1>2
  <2>2. Packed(store)
    BY DEF IInv
  <2>3. /\ Packed(c.store) /\ c.result = Accepted(0)
        /\ Forgets(PackedMap(store), PackedMap(c.store), 0, o)
    BY <1>1, <2>2, PackedForgets
  <2> HIDE DEF c
  <2> QED
    BY <1>1, <2>1, <2>3, PackedReleaseAllowed
<1>3. CASE /\ ~admitted
           /\ IF Starts # {} /\ Min(Starts) < o
              THEN ReleaseSegments(Min(Starts), o)
              ELSE result' = Accepted(0) /\ UNCHANGED <<segments, retained>>
           /\ UNCHANGED <<admitted, store>>
  <2>1. ~admitted /\ admitted' = admitted /\ store' = store
    BY <1>3
  <2>2. Counted(segments, retained) /\ Disjoint(segments)
    BY DEF IInv, Counted
  <2>3. Starts \in SUBSET Nat
    <3>1. \A s \in DOMAIN segments : s \in Nat
      BY <2>2, SegmentFields DEF Disjoint
    <3> QED
      BY <3>1 DEF Starts
  <2> DEFINE low == Min(Starts)
  <2>4. Starts # {} => low \in Nat /\ \A s \in Starts : low <= s
    BY <2>3, LeastIs
  <2> HIDE DEF low
  <2>5. ASSUME NEW p \in Positions, Starts = {} \/ p < low
        PROVE  SegmentMap(segments)[p] = "none"
    <3>1. p \in Int
      BY PositionsAre
    <3>2. ~\E s \in DOMAIN segments : InSegment(segments, s, p)
      BY <2>3, <2>4, <2>5, <3>1 DEF InSegment, Starts
    <3>3. SegmentByte(segments, p) = "none"
      BY <2>2, <3>1, <3>2, SegmentByteIs
    <3> QED
      BY <3>3 DEF SegmentMap
  <2>6. CASE Starts # {} /\ low < o
    <3>1. ReleaseSegments(low, o)
      BY <1>3, <2>6 DEF low
    <3>2. /\ Counted(segments', retained') /\ result' = Accepted(0)
          /\ Forgets(SegmentMap(segments), SegmentMap(segments'), low, o)
      BY <1>1, <2>2, <2>4, <2>6, <3>1, ReleaseSegmentsForgets
    <3>3. \A p \in Positions :
            (IF p \in low .. o - 1 THEN "none" ELSE SegmentMap(segments)[p])
              = IF p \in 0 .. o - 1 THEN "none" ELSE SegmentMap(segments)[p]
      BY <1>1, <2>4, <2>5, <2>6, PositionsAre
    <3>4. Forgets(SegmentMap(segments), SegmentMap(segments'), 0, o)
      BY <3>2, <3>3 DEF Forgets
    <3> QED
      BY <1>1, <2>1, <3>2, <3>4, SegmentReleaseAllowed
  <2>7. CASE ~(Starts # {} /\ low < o)
    <3>1. result' = Accepted(0) /\ segments' = segments /\ retained' = retained
      BY <1>3, <2>7 DEF low
    <3>2. \A p \in Positions :
            SegmentMap(segments)[p] =
              IF p \in 0 .. o - 1 THEN "none" ELSE SegmentMap(segments)[p]
      BY <1>1, <2>4, <2>5, <2>7, PositionsAre
    <3>3. SegmentMap(segments) = [p \in Positions |-> SegmentMap(segments)[p]]
      BY DEF SegmentMap
    <3>4. Forgets(SegmentMap(segments), SegmentMap(segments'), 0, o)
      BY <3>1, <3>2, <3>3 DEF Forgets
    <3> QED
      BY <1>1, <2>1, <2>2, <3>1, <3>4, SegmentReleaseAllowed
  <2> QED
    BY <2>6, <2>7
<1> QED
  BY <1>2, <1>3 DEF ReleaseBefore

(* InputStore::clear forgets every byte.                                   *)
LEMMA ClearAllowed == IInv /\ Clear => Allowed
<1> SUFFICES ASSUME IInv, Clear PROVE Allowed
  OBVIOUS
<1>1. /\ admitted' = FALSE /\ store' = EmptyStore /\ segments' = <<>> /\ retained' = 0
      /\ result' = Accepted(0) /\ call' = Called("clear", 0, MaxAddr, "none")
  BY DEF Clear
<1>2. 0 \in 0 .. MaxAddr /\ MaxAddr \in Nat /\ 0 + MaxAddr = MaxAddr /\ MaxAddr <= MaxAddr
  BY Addresses
<1>3. IInv'
  BY <1>1, <1>2, EmptyIs, ResultsAre DEF IInv
<1>4. HeldBytes' = SegmentMap(segments')
  <2>1. (HeldBytes = IF admitted THEN PackedMap(store) ELSE SegmentMap(segments))'
    BY <1>3, HeldBytesAre, PTL
  <2>2. HeldBytes' = IF admitted' THEN PackedMap(store') ELSE SegmentMap(segments')
    BY <2>1 DEF PackedMap, SegmentMap
  <2> QED
    BY <1>1, <2>2
<1>5. \A p \in Positions : SegmentByte(segments', p) = "none" /\ p \in 0 .. MaxAddr - 1
  BY <1>1, <1>2, EmptyIs, PositionsAre
<1>6. Forgets(HeldBytes, HeldBytes', 0, MaxAddr)
  BY <1>4, <1>5 DEF Forgets, SegmentMap
<1>7. Abstract!ByteNext
  BY <1>1, <1>2, <1>6, ReleaseIsByteStep
<1> QED
  BY <1>3, <1>7 DEF Allowed

-----------------------------------------------------------------------------
(* The invariant and the refinement.                                       *)

(* Every step keeps the invariant and is one that ByteStore allows.        *)
LEMMA NextAllowed == IInv /\ Next => Allowed
<1> SUFFICES ASSUME IInv, Next PROVE Allowed
  OBVIOUS
<1>1. CASE \E o, n \in 0 .. MaxAddr, v \in Versions : FeedInput(o, n, v)
  BY <1>1, FeedAllowed
<1>2. CASE \E o, n \in 0 .. MaxAddr : ReleaseInput(o, n)
  BY <1>2, ReleaseAllowed
<1>3. CASE \E o \in Positions : ReleaseBefore(o)
  BY <1>3, ReleaseBeforeAllowed
<1>4. CASE Clear
  BY <1>4, ClearAllowed
<1> QED
  BY <1>1, <1>2, <1>3, <1>4 DEF Next

(* A step that changes no variable of the store changes no byte.           *)
LEMMA StutterAllowed ==
  UNCHANGED vars => /\ IInv => IInv'
                    /\ UNCHANGED <<HeldBytes, call, result>>
<1> SUFFICES ASSUME UNCHANGED vars
             PROVE  /\ IInv => IInv'
                    /\ UNCHANGED <<HeldBytes, call, result>>
  OBVIOUS
<1>1. /\ admitted' = admitted /\ store' = store /\ segments' = segments
      /\ retained' = retained /\ call' = call /\ result' = result
  BY DEF vars
<1>2. IInv => IInv'
  BY <1>1 DEF IInv
<1>3. HeldBytes' = HeldBytes
  BY <1>1 DEF HeldBytes, HoldsByte, TryReadInput, HoldsSegment, Starts, SegmentEnd,
              SegmentAt
<1> QED
  BY <1>1, <1>2, <1>3

(* Both layouts keep their shape (admitted_input.rs and input.rs): runs or *)
(* segments in order, each byte under its own offset, and as many of them  *)
(* as the counter says.                                                    *)
THEOREM StoreIsSound == Spec => []IInv
<1>1. Init => IInv
  BY InitIInv
<1>2. IInv /\ [Next]_vars => IInv'
  BY NextAllowed, StutterAllowed DEF Allowed
<1> QED
  BY <1>1, <1>2, PTL DEF Spec

(* The history variable records calls that are made.                       *)
CallTyped ==
  call \in [op : {"none", "feed", "release", "release_before", "clear"},
            start : 0 .. MaxAddr, len : 0 .. MaxAddr, version : Versions \cup {"none"}]

LEMMA CallStaysTyped == Spec => []CallTyped
<1>1. Init => CallTyped
  <2>1. 0 \in 0 .. MaxAddr
    BY Addresses
  <2> QED
    BY <2>1 DEF Init, CallTyped, Called
<1>2. CallTyped /\ [Next]_vars => CallTyped'
  <2> SUFFICES ASSUME CallTyped, [Next]_vars PROVE CallTyped'
    OBVIOUS
  <2>0. 0 \in 0 .. MaxAddr /\ MaxAddr \in 0 .. MaxAddr
    BY Addresses
  <2>1. ASSUME NEW o \in 0 .. MaxAddr, NEW n \in 0 .. MaxAddr, NEW v \in Versions,
               FeedInput(o, n, v)
        PROVE  CallTyped'
    BY <2>1 DEF FeedInput, CallTyped, Called
  <2>2. ASSUME NEW o \in 0 .. MaxAddr, NEW n \in 0 .. MaxAddr, ReleaseInput(o, n)
        PROVE  CallTyped'
    BY <2>2 DEF ReleaseInput, CallTyped, Called
  <2>3. ASSUME NEW o \in Positions, ReleaseBefore(o) PROVE CallTyped'
    <3>1. o \in 0 .. MaxAddr
      BY Addresses DEF Positions
    <3> QED
      BY <2>0, <2>3, <3>1 DEF ReleaseBefore, CallTyped, Called
  <2>4. CASE Clear
    BY <2>0, <2>4 DEF Clear, CallTyped, Called
  <2>5. CASE UNCHANGED vars
    BY <2>5 DEF vars, CallTyped
  <2> QED
    BY <2>1, <2>2, <2>3, <2>4, <2>5 DEF Next
<1> QED
  BY <1>1, <1>2, PTL DEF Spec

(* Type correctness of the store of input.rs, with the counter of the      *)
(* segment map within the cap.                                             *)
THEOREM StoreTyped == Spec => []TypeOK
<1>1. IInv /\ CallTyped => TypeOK
  <2> SUFFICES ASSUME IInv, CallTyped PROVE TypeOK
    OBVIOUS
  <2>1. store.data \in Seq(Bytes) /\ Index(store.spans)
    BY DEF IInv, Packed
  <2>2. ASSUME NEW i \in DOMAIN store.spans
        PROVE  store.spans[i] \in [start : Positions, at : Nat, len : Nat]
    <3> DEFINE s == store.spans[i]
    <3>1. /\ s = [start |-> s.start, at |-> s.at, len |-> s.len]
          /\ s.start \in Nat /\ s.at \in Nat /\ s.len \in Nat \ {0}
      BY <2>1, SpanFields
    <3>2. SpanEnd(s) <= MaxAddr
      BY <2>1 DEF Index
    <3>3. MaxAddr \in Nat
      BY Addresses
    <3> HIDE DEF s
    <3>4. s.start \in 0 .. MaxAddr - 1
      BY <3>1, <3>2, <3>3 DEF SpanEnd
    <3> QED
      BY <3>1, <3>4 DEF s, Positions
  <2>3. ASSUME NEW s \in Starts
        PROVE  s \in Positions /\ segments[s] \in Seq(Bytes)
    <3>1. Filled(segments, s)
      BY DEF IInv, Counted, Disjoint, Starts
    <3> QED
      BY <3>1, SegmentFields DEF Filled
  <2>4. retained \in 0 .. Cap
    <3>1. retained \in Nat /\ retained <= Cap
      BY SegmentMapIs DEF IInv
    <3>2. Cap \in Nat
      BY Addresses
    <3> QED
      BY <3>1, <3>2
  <2> QED
    BY <2>1, <2>2, <2>3, <2>4 DEF IInv, TypeOK, Results, CallTyped
<1> QED
  BY <1>1, StoreIsSound, CallStaysTyped, PTL

(* The spans of the packed store and the segments of the map stay in the   *)
(* form that their lookups rely on.                                        *)
LEMMA SoundIsWellFormed == IInv => WellFormed
<1> SUFFICES ASSUME IInv PROVE WellFormed
  OBVIOUS
<1>1. PackedSpans
  <2> DEFINE spans == store.spans
  <2>1. /\ Len(spans) <= MaxSpans /\ Len(store.data) <= Cap
        /\ spans \in Seq(Spans) /\ store.data \in Seq(Bytes)
        /\ Index(spans) /\ Laid(spans) /\ Placed(store.data, spans)
    BY DEF IInv, Packed, Index
  <2> HIDE DEF spans
  <2>2. ASSUME NEW i \in DOMAIN spans
        PROVE  /\ spans[i].len > 0
               /\ spans[i].at = IF i = 1 THEN 0 ELSE spans[i-1].at + spans[i-1].len
               /\ i > 1 => SpanEnd(spans[i-1]) < spans[i].start
    <3>1. i \in Int /\ (i > 1 => i - 1 \in DOMAIN spans /\ i - 1 < i)
      BY <2>1
    <3> QED
      BY <2>1, <3>1 DEF Index, Laid, LaidAt
  <2>3. Len(store.data) = IF spans = <<>> THEN 0 ELSE Last(spans).at + Last(spans).len
    BY DEF IInv, Packed, Last, spans
  <2> QED
    BY <2>1, <2>2, <2>3 DEF PackedSpans, spans
<1>2. SegmentsDisjoint
  <2>1. Disjoint(segments) /\ retained = Cardinality(Live(segments))
    BY DEF IInv, Counted
  <2>2. ASSUME NEW s \in Starts
        PROVE  segments[s] # <<>> /\ \A t \in Starts : s < t => SegmentEnd(s) <= t
    <3>1. segments[s] # <<>>
      BY <2>1 DEF Disjoint, Filled, Starts
    <3> QED
      BY <2>1, <3>1 DEF Disjoint, Starts, SegmentEnd, EndIn
  <2> QED
    BY <2>1, <2>2 DEF SegmentsDisjoint, Live, Starts, SegmentEnd, EndIn
<1> QED
  BY <1>1, <1>2 DEF WellFormed

(* The index of admitted_input.rs stays sorted, merged and without a hole, *)
(* and the segments of input.rs stay apart and counted.                    *)
THEOREM StoreWellFormed == Spec => []WellFormed
BY SoundIsWellFormed, StoreIsSound, PTL

(* Both layouts of input.rs are the byte map of ByteStore, call for call:  *)
(* what a call with its own offset, length and payload stores, forgets and *)
(* returns is what the byte map would, or it is refused for a reason the   *)
(* byte map gives.                                                         *)
THEOREM StoreIsByteStore == Spec => ImplementsByteStore
<1>1. Init => Abstract!ByteInit
  <2> SUFFICES ASSUME Init PROVE Abstract!ByteInit
    OBVIOUS
  <2>1. IInv
    BY InitIInv
  <2>2. \A p \in Positions : PackedByte(store, p) = "none" /\ SegmentByte(segments, p) = "none"
    BY EmptyIs, PositionsAre DEF Init
  <2>3. HeldBytes = [p \in Positions |-> "none"]
    BY <2>1, <2>2, HeldBytesAre DEF PackedMap, SegmentMap
  <2> QED
    BY <2>3 DEF Init, Abstract!ByteInit, Abstract!NoByte, Accepted, Abstract!Accepted,
                Called, Abstract!NoCall
<1>2. IInv /\ [Next]_vars => [Abstract!ByteNext]_<<HeldBytes, call, result>>
  BY NextAllowed, StutterAllowed DEF Allowed
<1> QED
  BY <1>1, <1>2, StoreIsSound, PTL DEF Spec, ImplementsByteStore, Abstract!ByteSpec

-----------------------------------------------------------------------------
(* Reading the store.                                                      *)

(* The maximal runs of a set U of offsets of o .. e - 1: where each one    *)
(* starts, where it stops, and the pairs that missing_into reports.        *)
Heads(U, o) == {p \in U : p = o \/ p - 1 \notin U}
StopOf(U, p, e) == LeastOr({q \in p .. e - 1 : q \notin U}, e)
Gaps(U, o, e) == {<<p, StopOf(U, p, e) - p>> : p \in Heads(U, o)}

(* A run stops behind its start, at an offset that is not in U.            *)
LEMMA StopIs ==
  ASSUME NEW o \in Nat, NEW e \in Nat, NEW U \in SUBSET (o .. e - 1), NEW p \in U
  PROVE  /\ StopOf(U, p, e) \in Nat /\ p < StopOf(U, p, e)
         /\ StopOf(U, p, e) \notin U
         /\ \A q \in p .. StopOf(U, p, e) - 1 : q \in U
<1> DEFINE F == {q \in p .. e - 1 : q \notin U}
           t == LeastOr(F, e)
<1>1. p \in Nat /\ p < e
  OBVIOUS
<1>2. F \in SUBSET Nat
  BY <1>1
<1>3. \A q : q \in F <=> q \in p .. e - 1 /\ q \notin U
  OBVIOUS
<1> HIDE DEF F
<1>4. /\ F = {} => t = e
      /\ F # {} => t \in F /\ \A y \in F : t <= y
      /\ t \in Nat
  BY <1>2, LeastOrIs
<1> HIDE DEF t
<1>5. CASE F = {}
  BY <1>1, <1>3, <1>4, <1>5 DEF StopOf, F, t
<1>6. CASE F # {}
  <2>1. t \in p .. e - 1 /\ t \notin U /\ t # p
    BY <1>3, <1>4, <1>6
  <2>2. ASSUME NEW q \in p .. t - 1 PROVE q \in U
    <3>1. q \in p .. e - 1 /\ ~(t <= q)
      BY <1>1, <1>4, <2>1
    <3> QED
      BY <1>3, <1>4, <1>6, <3>1
  <2> QED
    BY <1>1, <1>4, <2>1, <2>2 DEF StopOf, F, t
<1> QED
  BY <1>5, <1>6

(* The runs make up U, none is empty, and each is followed by an offset    *)
(* that is not in U.                                                       *)
LEMMA GapsAre ==
  ASSUME NEW o \in Nat, NEW e \in Nat, NEW U \in SUBSET (o .. e - 1)
  PROVE  /\ U = UNION {g[1] .. g[1] + g[2] - 1 : g \in Gaps(U, o, e)}
         /\ \A g \in Gaps(U, o, e) : g[2] > 0 /\ g[1] + g[2] \notin U
<1> DEFINE run(g) == g[1] .. g[1] + g[2] - 1
<1>1. ASSUME NEW p \in Heads(U, o)
      PROVE  LET g == <<p, StopOf(U, p, e) - p>>
             IN /\ g[2] > 0 /\ g[1] + g[2] \notin U
                /\ run(g) = p .. StopOf(U, p, e) - 1 /\ run(g) \in SUBSET U
  <2> DEFINE t == StopOf(U, p, e)
  <2>1. p \in U /\ p \in Nat
    BY DEF Heads
  <2>2. t \in Nat /\ p < t /\ t \notin U /\ \A q \in p .. t - 1 : q \in U
    BY <2>1, StopIs
  <2> HIDE DEF t
  <2>3. p + (t - p) = t /\ t - p > 0 /\ p + (t - p) - 1 = t - 1
    BY <2>1, <2>2
  <2> DEFINE g == <<p, t - p>>
  <2>4. g[1] = p /\ g[2] = t - p
    OBVIOUS
  <2> HIDE DEF g
  <2>5. /\ g[2] > 0 /\ g[1] + g[2] \notin U
        /\ run(g) = p .. t - 1 /\ run(g) \in SUBSET U
    BY <2>2, <2>3, <2>4
  <2> QED
    BY <2>5 DEF g, t
<1>2. ASSUME NEW g \in Gaps(U, o, e)
      PROVE  g[2] > 0 /\ g[1] + g[2] \notin U /\ run(g) \in SUBSET U
  <2>1. PICK p \in Heads(U, o) : g = <<p, StopOf(U, p, e) - p>>
    BY DEF Gaps
  <2> QED
    BY <1>1, <2>1
<1>3. ASSUME NEW q \in U PROVE \E g \in Gaps(U, o, e) : q \in run(g)
  <2> DEFINE B == {p \in o .. q : \A r \in p .. q : r \in U}
             h == Min(B)
  <2>1. q \in Nat /\ o <= q /\ q .. q = {q}
    OBVIOUS
  <2>2. B \in SUBSET Nat /\ q \in B
    BY <2>1
  <2>3. h \in B /\ \A p \in B : h <= p
    <3> HIDE DEF B
    <3> QED
      BY <2>2, LeastIs
  <2>4. /\ h \in Nat /\ o <= h /\ h <= q /\ h \in U
        /\ \A r \in h .. q : r \in U
    <3>1. h \in o .. q /\ \A r \in h .. q : r \in U
      BY <2>3
    <3> HIDE DEF h, B
    <3> QED
      BY <2>1, <3>1
  <2>5. h = o \/ h - 1 \notin U
    <3> SUFFICES ASSUME h # o, h - 1 \in U PROVE FALSE
      OBVIOUS
    <3>1. h - 1 \in o .. q /\ ~(h <= h - 1)
      <4> HIDE DEF h, B
      <4> QED
        BY <2>1, <2>4
    <3>2. \A r \in h - 1 .. q : r = h - 1 \/ r \in h .. q
      <4> HIDE DEF h, B
      <4> QED
        BY <2>1, <2>4
    <3>3. h - 1 \in B
      BY <2>4, <3>1, <3>2
    <3> QED
      BY <2>3, <3>1, <3>3
  <2> HIDE DEF h, B
  <2> DEFINE t == StopOf(U, h, e)
  <2>6. t \in Nat /\ h < t /\ t \notin U
    BY <2>4, StopIs
  <2>7. h \in Heads(U, o)
    BY <2>4, <2>5 DEF Heads
  <2>8. q \in h .. t - 1
    <3> HIDE DEF t
    <3> QED
      BY <2>1, <2>4, <2>6
  <2>9. <<h, t - h>> \in Gaps(U, o, e) /\ run(<<h, t - h>>) = h .. t - 1
    BY <1>1, <2>7 DEF Gaps
  <2> QED
    BY <2>8, <2>9
<1>4. U = UNION {run(g) : g \in Gaps(U, o, e)}
  <2> HIDE DEF run
  <2> QED
    BY <1>2, <1>3
<1> QED
  BY <1>2, <1>4

(* The heads of the runs that C does not hold, as the code finds them.     *)
LEMMA HeadsAre ==
  ASSUME NEW o \in Nat, NEW e \in Nat, NEW C, NEW U, U = (o .. e - 1) \ C
  PROVE  Heads(U, o) = {p \in o .. e - 1 : p \notin C /\ (p = o \/ p - 1 \in C)}
<1>1. ASSUME NEW p \in o .. e - 1
      PROVE  p = o \/ (p - 1 \notin U <=> p - 1 \in C)
  <2>1. p = o \/ p - 1 \in o .. e - 1
    OBVIOUS
  <2> QED
    BY <2>1
<1> QED
  BY <1>1 DEF Heads

(* missing_into of the packed store reports the runs it does not cover.    *)
LEMMA PackedMissingAre ==
  ASSUME NEW st, Packed(st), NEW o \in Nat, NEW e \in Nat
  PROVE  MissingInto(st, o, e) = Gaps({p \in o .. e - 1 : ~CoversAt(st, p)}, o, e)
<1> DEFINE U == {p \in o .. e - 1 : ~CoversAt(st, p)}
           C == {p \in Int : CoversAt(st, p)}
           heads == {p \in o .. e - 1 : ~CoversAt(st, p)
                        /\ (p = o \/ CoversAt(st, p - 1))}
           T(p) == {st.spans[i].start : i \in {j \in DOMAIN st.spans : st.spans[j].start > p}}
           G(p) == {q \in p .. e - 1 : q \notin U}
<1>1. heads = Heads(U, o)
  <2>1. U = (o .. e - 1) \ C
    OBVIOUS
  <2>2. \A p \in o .. e - 1 : p \in Int /\ p - 1 \in Int
    OBVIOUS
  <2>3. heads = {p \in o .. e - 1 : p \notin C /\ (p = o \/ p - 1 \in C)}
    BY <2>2
  <2> HIDE DEF U, C, heads
  <2> QED
    BY <2>1, <2>3, HeadsAre
<1>2. ASSUME NEW p \in heads
      PROVE  Least(LeastOr(T(p), e), e) = StopOf(U, p, e)
  <2>1. p \in Nat /\ p \in o .. e - 1 /\ ~CoversAt(st, p)
    OBVIOUS
  <2>2. Index(st.spans)
    BY DEF Packed
  <2>3. \A i \in DOMAIN st.spans :
          /\ st.spans[i].start \in Nat /\ st.spans[i].len \in Nat \ {0}
          /\ SpanEnd(st.spans[i]) = st.spans[i].start + st.spans[i].len
    BY <2>2, SpanFields
  <2>4. \A q \in p .. e - 1 : q \in Int /\ q \in o .. e - 1
    BY <2>1
  <2>5. T(p) \in SUBSET Nat /\ G(p) \in SUBSET Nat
    BY <2>1, <2>3
  <2>6. ASSUME NEW q \in G(p) PROVE q < e /\ \E s \in T(p) : s <= q
    <3>1. q \in p .. e - 1 /\ q \in Int /\ CoversAt(st, q)
      BY <2>4
    <3>2. PICK i \in DOMAIN st.spans : Covers(st.spans[i], q)
      BY <3>1, PackedByteIs
    <3>3. st.spans[i].start <= q /\ q < SpanEnd(st.spans[i])
      BY <3>2 DEF Covers
    <3>4. st.spans[i].start > p
      <4> SUFFICES ASSUME ~(st.spans[i].start > p) PROVE FALSE
        OBVIOUS
      <4>1. p <= q /\ st.spans[i].start \in Nat /\ SpanEnd(st.spans[i]) \in Nat
        BY <2>1, <2>3, <3>1
      <4>2. Covers(st.spans[i], p)
        BY <2>1, <3>1, <3>3, <4>1 DEF Covers
      <4> QED
        BY <2>1, <4>2, PackedByteIs
    <3>5. st.spans[i].start \in T(p)
      BY <3>4
    <3>6. q < e
      BY <2>1, <3>1
    <3> QED
      BY <3>3, <3>5, <3>6
  <2>7. ASSUME NEW s \in T(p), s < e PROVE s \in G(p)
    <3>1. PICK i \in DOMAIN st.spans : s = st.spans[i].start /\ st.spans[i].start > p
      OBVIOUS
    <3>2. s \in Nat /\ s > p /\ s <= s /\ s < SpanEnd(st.spans[i])
      BY <2>3, <3>1
    <3>3. CoversAt(st, s)
      <4>1. Covers(st.spans[i], s)
        BY <3>1, <3>2 DEF Covers
      <4> QED
        BY <3>2, <4>1, PackedByteIs
    <3>4. s \in p .. e - 1
      <4>1. p \in Nat /\ s \in Nat /\ p < s /\ s < e
        BY <2>1, <2>7, <3>2
      <4> QED
        BY <4>1
    <3> QED
      BY <3>3, <3>4
  <2> HIDE DEF T, G
  <2>8. Begins(T(p), G(p), e)
    BY <2>5, <2>6, <2>7 DEF Begins
  <2>9. Least(LeastOr(T(p), e), e) = LeastOr(G(p), e)
    BY <2>8, RunBegins
  <2> QED
    BY <2>9 DEF StopOf, G
<1>3. MissingInto(st, o, e) = {<<p, Least(LeastOr(T(p), e), e) - p>> : p \in heads}
  BY Zenon DEF MissingInto
<1> HIDE DEF U, heads, T
<1>4. {<<p, Least(LeastOr(T(p), e), e) - p>> : p \in heads}
        = {<<p, StopOf(U, p, e) - p>> : p \in heads}
  BY <1>2
<1> QED
  BY <1>1, <1>3, <1>4 DEF Gaps, U

(* So does that of the segment map.                                        *)
LEMMA SegmentMissingAre ==
  ASSUME Disjoint(segments), NEW o \in Nat, NEW e \in Nat
  PROVE  MissingSegments(o, e) = Gaps({p \in o .. e - 1 : ~HoldsSegment(p)}, o, e)
<1> DEFINE g == segments
           U == {p \in o .. e - 1 : ~HoldsSegment(p)}
           C == {p \in Int : HoldsSegment(p)}
           heads == {p \in o .. e - 1 : ~HoldsSegment(p)
                        /\ (p = o \/ HoldsSegment(p - 1))}
           T(p) == {s \in Starts : s >= p}
           G(p) == {q \in p .. e - 1 : q \notin U}
<1>1. heads = Heads(U, o)
  <2>1. U = (o .. e - 1) \ C
    OBVIOUS
  <2>2. \A p \in o .. e - 1 : p \in Int /\ p - 1 \in Int
    OBVIOUS
  <2>3. heads = {p \in o .. e - 1 : p \notin C /\ (p = o \/ p - 1 \in C)}
    BY <2>2
  <2> HIDE DEF U, C, heads
  <2> QED
    BY SMTT(60), <2>1, <2>3, HeadsAre
<1>2. ASSUME NEW p \in Int
      PROVE  HoldsSegment(p) <=> \E s \in Starts : InSegment(g, s, p)
  <2>1. HoldsSegment(p) <=> HoldsIn(g, p)
    BY DEF HoldsSegment, HoldsIn, Starts, SegmentEnd, EndIn
  <2> QED
    BY <2>1, SegmentByteIs DEF Starts
<1>3. \A s \in Starts : s \in Nat /\ EndIn(g, s) \in Nat /\ s < EndIn(g, s)
  <2> SUFFICES ASSUME NEW s \in Starts
               PROVE s \in Nat /\ EndIn(g, s) \in Nat /\ s < EndIn(g, s)
    OBVIOUS
  <2>1. /\ s \in Nat /\ Len(g[s]) \in Nat \ {0} /\ EndIn(g, s) = s + Len(g[s])
        /\ EndIn(g, s) \in Nat
    BY SegmentFields DEF Disjoint, Starts
  <2> QED
    BY <2>1
<1>4. ASSUME NEW p \in heads
      PROVE  Least(LeastOr(T(p), e), e) = StopOf(U, p, e)
  <2>1. p \in Nat /\ p \in o .. e - 1 /\ ~HoldsSegment(p)
    OBVIOUS
  <2>2. \A q \in p .. e - 1 : q \in Int /\ q \in o .. e - 1
    BY <2>1
  <2>3. T(p) \in SUBSET Nat /\ G(p) \in SUBSET Nat
    BY <1>3, <2>1
  <2>4. ASSUME NEW q \in G(p) PROVE q < e /\ \E s \in T(p) : s <= q
    <3>1. q \in p .. e - 1 /\ q \in Int /\ HoldsSegment(q)
      BY <2>2
    <3>2. PICK s \in Starts : InSegment(g, s, q)
      BY <1>2, <3>1
    <3>3. s <= q /\ q < EndIn(g, s)
      BY <3>2 DEF InSegment
    <3>4. s >= p
      <4> SUFFICES ASSUME ~(s >= p) PROVE FALSE
        OBVIOUS
      <4>1. p <= q /\ s \in Nat /\ EndIn(g, s) \in Nat
        BY <1>3, <2>1, <3>1
      <4>2. InSegment(g, s, p)
        BY <2>1, <3>1, <3>3, <4>1 DEF InSegment
      <4> QED
        BY <1>2, <2>1, <4>2
    <3>5. q < e
      BY <2>1, <3>1
    <3> QED
      BY <3>3, <3>4, <3>5
  <2>5. ASSUME NEW s \in T(p), s < e PROVE s \in G(p)
    <3>1. s \in Starts /\ s >= p /\ s \in Nat /\ s <= s /\ s < EndIn(g, s)
      BY <1>3
    <3>2. InSegment(g, s, s)
      BY <3>1 DEF InSegment
    <3>3. HoldsSegment(s)
      BY <1>2, <3>1, <3>2
    <3>4. s \in p .. e - 1
      BY <2>1, <2>5, <3>1
    <3> QED
      BY <3>3, <3>4
  <2> HIDE DEF T, G
  <2>6. Begins(T(p), G(p), e)
    BY <2>3, <2>4, <2>5 DEF Begins
  <2>7. Least(LeastOr(T(p), e), e) = LeastOr(G(p), e)
    BY <2>6, RunBegins
  <2> QED
    BY <2>7 DEF StopOf, G
<1>5. MissingSegments(o, e) = {<<p, Least(LeastOr(T(p), e), e) - p>> : p \in heads}
  BY Zenon DEF MissingSegments, ChunkLimit
<1> HIDE DEF U, heads, T
<1>6. {<<p, Least(LeastOr(T(p), e), e) - p>> : p \in heads}
        = {<<p, StopOf(U, p, e) - p>> : p \in heads}
  BY <1>4
<1> QED
  BY <1>1, <1>5, <1>6 DEF Gaps, U

(* A read of held bytes gives the bytes of those offsets.                  *)
LEMMA PackedRead ==
  ASSUME NEW st, Packed(st), NEW o \in Nat, NEW e \in Nat,
         \A p \in o .. e - 1 : CoversAt(st, p)
  PROVE  TryRead(st, o, e) = [i \in 1 .. e - o |-> <<o + i - 1, PackedByte(st, o + i - 1)>>]
<1> DEFINE place(i) == LET s == Covering(st, o + i - 1)
                       IN st.data[s.at + (o + i - 1 - s.start) + 1]
<1>1. TryRead(st, o, e) = [i \in 1 .. e - o |-> place(i)]
  <2>1. TryRead(st, o, e) =
          IF \A p \in o .. e - 1 : CoversAt(st, p)
          THEN [i \in 1 .. e - o |-> place(i)]
          ELSE <<>>
    BY Zenon DEF TryRead
  <2> HIDE DEF place
  <2> QED
    BY <2>1
<1>2. ASSUME NEW i \in 1 .. e - o
      PROVE  place(i) = <<o + i - 1, PackedByte(st, o + i - 1)>>
  <2> DEFINE p == o + i - 1
  <2>1. p \in Int /\ p \in o .. e - 1
    OBVIOUS
  <2>2. CoversAt(st, p)
    BY <2>1
  <2> HIDE DEF p
  <2>3. PICK k \in DOMAIN st.spans : Covers(st.spans[k], p)
    BY <2>1, <2>2, PackedByteIs
  <2>4. Covering(st, p) = st.spans[k] /\ Cell(st, k, p) = <<p, PackedByte(st, p)>>
    BY <2>1, <2>3, CellIs, PackedByteIs
  <2>5. place(i) = st.data[st.spans[k].at + (o + i - 1 - st.spans[k].start) + 1]
    BY <2>4 DEF p
  <2>6. o + i - 1 - st.spans[k].start = p - st.spans[k].start
    <3>1. st.spans[k].start \in Int
      BY SpanFields DEF Packed
    <3> QED
      BY <3>1 DEF p
  <2>7. place(i) = <<p, PackedByte(st, p)>>
    <3> HIDE DEF place
    <3> QED
      BY <2>4, <2>5, <2>6 DEF Cell
  <2> QED
    BY <2>7 DEF p
<1> HIDE DEF place
<1> QED
  BY <1>1, <1>2

(* What try_read answers, in either layout.                                *)
LEMMA ReadIs ==
  ASSUME IInv, NEW o \in 0 .. MaxAddr, NEW e \in 0 .. MaxAddr
  PROVE  TryReadInput(o, e) =
           IF \A p \in o .. e - 1 : HoldsByte(p)
           THEN [i \in 1 .. e - o |-> <<o + i - 1, HeldBytes[o + i - 1]>>]
           ELSE <<>>
<1>1. o \in Nat /\ e \in Nat
  OBVIOUS
<1>2. \A i \in 1 .. e - o : o + i - 1 \in Positions /\ o + i - 1 \in o .. e - 1
  <2>1. MaxAddr \in Nat
    BY Addresses
  <2> QED
    BY <2>1 DEF Positions
<1>3. CASE admitted
  <2>1. \A p : HoldsByte(p) <=> CoversAt(store, p)
    BY <1>3 DEF HoldsByte
  <2>2. TryReadInput(o, e) = TryRead(store, o, e)
    BY <1>3 DEF TryReadInput
  <2>3. HeldBytes = PackedMap(store)
    BY <1>3, HeldBytesAre
  <2>4. CASE \A p \in o .. e - 1 : CoversAt(store, p)
    <3>1. TryRead(store, o, e) =
            [i \in 1 .. e - o |-> <<o + i - 1, PackedByte(store, o + i - 1)>>]
      BY <1>1, <2>4, PackedRead DEF IInv
    <3>2. \A i \in 1 .. e - o : PackedByte(store, o + i - 1) = HeldBytes[o + i - 1]
      BY <1>2, <2>3 DEF PackedMap
    <3> QED
      BY <2>1, <2>2, <2>4, <3>1, <3>2
  <2>5. CASE ~\A p \in o .. e - 1 : CoversAt(store, p)
    BY <2>1, <2>2, <2>5 DEF TryRead
  <2> QED
    BY <2>4, <2>5
<1>4. CASE ~admitted
  <2> DEFINE place(p) == LET s == SegmentAt(p) IN segments[s][p + 1 - s]
             read == [i \in 1 .. e - o |->
                        LET s == SegmentAt(o + i - 1) IN segments[s][o + i - s]]
  <2>1. \A p : HoldsByte(p) <=> HoldsSegment(p)
    BY <1>4 DEF HoldsByte
  <2>2. TryReadInput(o, e) = IF \A p \in o .. e - 1 : HoldsSegment(p) THEN read ELSE <<>>
    BY <1>4, Zenon DEF TryReadInput
  <2>3. HeldBytes = SegmentMap(segments) /\ Disjoint(segments)
    BY <1>4, HeldBytesAre DEF IInv, Counted
  <2>4. ASSUME NEW i \in 1 .. e - o, HoldsSegment(o + i - 1)
        PROVE  read[i] = <<o + i - 1, HeldBytes[o + i - 1]>>
    <3> DEFINE p == o + i - 1
    <3>1. p \in Int /\ p \in Positions /\ o + i = p + 1
      BY <1>1, <1>2
    <3>2. HoldsIn(segments, p)
      BY <2>4 DEF HoldsSegment, HoldsIn, Starts, SegmentEnd, EndIn
    <3>3. read[i] = segments[SegmentAt(p)][o + i - SegmentAt(p)]
      OBVIOUS
    <3> HIDE DEF p, read
    <3>4. PICK s \in DOMAIN segments : InSegment(segments, s, p)
      BY <2>3, <3>1, <3>2, SegmentByteIs
    <3>5. /\ AtIn(segments, p) = s
          /\ segments[s][p - s + 1] = <<p, SegmentByte(segments, p)>>
      BY <2>3, <3>1, <3>4, SegmentByteIs
    <3>6. SegmentAt(p) = s
      BY <3>5 DEF SegmentAt, AtIn, Starts
    <3>7. s \in Int
      BY <2>3, SegmentFields DEF Disjoint
    <3>8. o + i - s = p - s + 1
      BY <1>1, <3>1, <3>7
    <3>9. HeldBytes[p] = SegmentByte(segments, p)
      BY <2>3, <3>1 DEF SegmentMap
    <3>10. read[i] = <<p, HeldBytes[p]>>
      BY <3>3, <3>5, <3>6, <3>8, <3>9
    <3> QED
      BY <3>10 DEF p
  <2>5. CASE \A p \in o .. e - 1 : HoldsSegment(p)
    <3>1. \A i \in 1 .. e - o : HoldsSegment(o + i - 1)
      BY <1>2, <2>5
    <3>2. read = [i \in 1 .. e - o |-> read[i]]
      OBVIOUS
    <3>3. \A i \in 1 .. e - o : read[i] = <<o + i - 1, HeldBytes[o + i - 1]>>
      <4> HIDE DEF read
      <4> QED
        BY <2>4, <3>1
    <3> HIDE DEF read
    <3>4. read = [i \in 1 .. e - o |-> <<o + i - 1, HeldBytes[o + i - 1]>>]
      BY <3>2, <3>3
    <3> QED
      BY <2>1, <2>2, <2>5, <3>4
  <2>6. CASE ~\A p \in o .. e - 1 : HoldsSegment(p)
    BY <2>1, <2>2, <2>6
  <2> QED
    BY <2>5, <2>6
<1> QED
  BY <1>3, <1>4

(* What a read sees and what missing_into reports agree with the bytes     *)
(* that are held, in either layout of input.rs: a read answers exactly     *)
(* when nothing is missing, and what is missing is reported as maximal     *)
(* runs.                                                                   *)
THEOREM StoreQueriesAgree == Spec => []QueriesAgree
<1>1. IInv => QueriesAgree
  <2> SUFFICES ASSUME IInv, NEW o \in 0 .. MaxAddr, NEW e \in 0 .. MaxAddr, o < e
               PROVE  LET gaps  == {p \in o .. e - 1 : ~HoldsByte(p)}
                          pairs == Missing(o, e)
                      IN /\ TryReadInput(o, e) =
                              IF gaps = {}
                              THEN [i \in 1 .. e - o |-> <<o + i - 1, HeldBytes[o + i - 1]>>]
                              ELSE <<>>
                         /\ gaps = UNION {g[1] .. g[1] + g[2] - 1 : g \in pairs}
                         /\ \A g \in pairs : g[2] > 0 /\ g[1] + g[2] \notin gaps
    BY Zenon DEF QueriesAgree
  <2> DEFINE gaps == {p \in o .. e - 1 : ~HoldsByte(p)}
  <2>1. o \in Nat /\ e \in Nat
    OBVIOUS
  <2>2. Missing(o, e) = Gaps(gaps, o, e)
    <3>1. CASE admitted
      <4>1. gaps = {p \in o .. e - 1 : ~CoversAt(store, p)}
        BY <3>1 DEF HoldsByte
      <4>2. Missing(o, e) = MissingInto(store, o, e)
        BY <3>1 DEF Missing
      <4> QED
        BY <2>1, <4>1, <4>2, PackedMissingAre DEF IInv
    <3>2. CASE ~admitted
      <4>1. gaps = {p \in o .. e - 1 : ~HoldsSegment(p)}
        BY <3>2 DEF HoldsByte
      <4>2. Missing(o, e) = MissingSegments(o, e)
        BY <3>2 DEF Missing
      <4> QED
        BY <2>1, <4>1, <4>2, SegmentMissingAre DEF IInv, Counted
    <3> QED
      BY <3>1, <3>2
  <2>3. gaps = {} <=> \A p \in o .. e - 1 : HoldsByte(p)
    OBVIOUS
  <2>4. gaps \in SUBSET (o .. e - 1)
    OBVIOUS
  <2>5. TryReadInput(o, e) =
          IF \A p \in o .. e - 1 : HoldsByte(p)
          THEN [i \in 1 .. e - o |-> <<o + i - 1, HeldBytes[o + i - 1]>>]
          ELSE <<>>
    BY ReadIs
  <2> HIDE DEF gaps
  <2>6. /\ gaps = UNION {g[1] .. g[1] + g[2] - 1 : g \in Gaps(gaps, o, e)}
        /\ \A g \in Gaps(gaps, o, e) : g[2] > 0 /\ g[1] + g[2] \notin gaps
    BY <2>1, <2>4, GapsAre
  <2>7. TryReadInput(o, e) =
          IF gaps = {} THEN [i \in 1 .. e - o |-> <<o + i - 1, HeldBytes[o + i - 1]>>]
          ELSE <<>>
    BY <2>3, <2>5
  <2>8. /\ gaps = UNION {g[1] .. g[1] + g[2] - 1 : g \in Missing(o, e)}
        /\ \A g \in Missing(o, e) : g[2] > 0 /\ g[1] + g[2] \notin gaps
    BY <2>2, <2>6
  <2> QED
    BY <2>7, <2>8 DEF gaps
<1> QED
  BY <1>1, StoreIsSound, PTL
=============================================================================
