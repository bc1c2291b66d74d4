---------------------------- MODULE AdmittedInput ----------------------------
(***************************************************************************)
(* The packed input store of src/zencodec-coroutine/src/admitted_input.rs: *)
(* one fixed payload allocation and a fixed index of spans, compacted in   *)
(* place.  A store is a record                                             *)
(*     data   the live payload, data[1 .. retained]                        *)
(*     spans  the live index: start (absolute offset), at (place in data), *)
(*            len                                                          *)
(* The bytes past `retained`, which copy_within leaves behind, are not     *)
(* part of the model: nothing reads them.  A byte is a pair of its offset  *)
(* and the version it was fed as, so a byte that ends up in the wrong      *)
(* place is visible.                                                       *)
(***************************************************************************)
EXTENDS Integers, Sequences, SequencesExt

CONSTANTS
  Cap,       (* capacity of the payload allocation                         *)
  MaxSpans   (* MAX_SPANS, the capacity of the index                       *)

EmptyStore == [data |-> <<>>, spans |-> <<>>]

(* What an operation returns: Ok with a count of bytes, or an error.       *)
Accepted(n) == [outcome |-> "ok", count |-> n]
Refused(why) == [outcome |-> why, count |-> 0]

SpanEnd(s) == s.start + s.len

(* The span that covers p is the first whose run contains it.              *)
CoversAt(store, p) ==
  \E i \in DOMAIN store.spans :
    store.spans[i].start <= p /\ p < SpanEnd(store.spans[i])

Covering(store, p) ==
  store.spans[CHOOSE i \in DOMAIN store.spans :
    /\ store.spans[i].start <= p /\ p < SpanEnd(store.spans[i])
    /\ \A j \in 1 .. i - 1 :
         ~(store.spans[j].start <= p /\ p < SpanEnd(store.spans[j]))]

LeastOr(S, d) == IF S = {} THEN d ELSE Min(S)
Least(x, y) == IF x <= y THEN x ELSE y

(* Seeded fault: the payload moves up and its spans stay.                  *)
ShiftNone(spans, index, take) == spans

(* The shift of every span behind the insertion point.                     *)
ShiftFrom(spans, index, take) ==
  [i \in DOMAIN spans |->
     IF i > index THEN [spans[i] EXCEPT !.at = @ + take] ELSE spans[i]]

(* The index after `take` bytes were inserted at `start`, behind `index`   *)
(* spans: joined to the previous one, to the next, to both, or new.        *)
Indexed(spans, index, start, at, take, mergePrevious, mergeNext) ==
  LET moved == ShiftFrom(spans, index, take)
      fresh == [start |-> start, at |-> at, len |-> take]
  IN CASE mergePrevious /\ mergeNext ->
            RemoveAt([moved EXCEPT ![index].len =
                        @ + take + moved[index + 1].len], index + 1)
       [] mergePrevious /\ ~mergeNext -> [moved EXCEPT ![index].len = @ + take]
       [] ~mergePrevious /\ mergeNext ->
            [moved EXCEPT ![index + 1] =
               [start |-> start, at |-> at, len |-> @.len + take]]
       [] OTHER -> InsertAt(moved, index + 1, fresh)

(* AdmittedInput::feed of `bytes`, whose first offset is o: the store      *)
(* after it and the number of bytes accepted, or a refusal.                *)
Feed(store, o, bytes) ==
  LET end      == o + Len(bytes)
      retained == Len(store.data)
      start    == LeastOr({p \in o .. end - 1 : ~CoversAt(store, p)}, end)
      skip     == start - o
      index    == Cardinality({i \in DOMAIN store.spans :
                                 store.spans[i].start < start})
      count    == Len(store.spans)
      gap      == IF index < count
                  THEN Least(store.spans[index + 1].start - start, end - start)
                  ELSE end - start
      take     == Least(gap, Cap - retained)
      mergePrevious == index > 0 /\ SpanEnd(store.spans[index]) = start
      mergeNext     == index < count /\ start + take = store.spans[index + 1].start
      at       == IF index < count THEN store.spans[index + 1].at ELSE retained
  IN IF start = end \/ take = 0
     THEN [store |-> store, result |-> Accepted(skip)]
     ELSE IF ~mergePrevious /\ ~mergeNext /\ count = MaxSpans
     THEN [store |-> store, result |-> Refused("span_limit")]
     ELSE [store |-> [data |-> SubSeq(store.data, 1, at)
                                 \o SubSeq(bytes, skip + 1, skip + take)
                                 \o SubSeq(store.data, at + 1, retained),
                      spans |-> Indexed(store.spans, index, start, at, take,
                                        mergePrevious, mergeNext)],
           result |-> Accepted(skip + take)]

(* Seeded fault: the piece behind a cut keeps its span's place in data.    *)
RemainsUnmoved(s, lo, hi) ==
  LET cutLo == IF s.start >= lo THEN s.start ELSE lo
      cutHi == Least(SpanEnd(s), hi)
  IN IF cutLo >= cutHi THEN <<s>>
     ELSE (IF s.start < cutLo THEN <<[s EXCEPT !.len = cutLo - s.start]>> ELSE <<>>)
          \o (IF cutHi < SpanEnd(s)
              THEN <<[s EXCEPT !.start = cutHi, !.len = SpanEnd(s) - cutHi]>> ELSE <<>>)

(* What is left of one span when lo .. hi - 1 is cut out of it.            *)
Remains(s, lo, hi) ==
  LET piece(from, to) == [start |-> from, at |-> s.at + (from - s.start),
                          len |-> to - from]
      cutLo == IF s.start >= lo THEN s.start ELSE lo
      cutHi == Least(SpanEnd(s), hi)
  IN IF cutLo >= cutHi THEN <<s>>
     ELSE (IF s.start < cutLo THEN <<piece(s.start, cutLo)>> ELSE <<>>)
          \o (IF cutHi < SpanEnd(s) THEN <<piece(cutHi, SpanEnd(s))>> ELSE <<>>)

(* The final loop of release: payloads move down over the holes.           *)
Compacted(store, spans) ==
  LET moved(n) == FlattenSeq([i \in 1 .. n |->
                    SubSeq(store.data, spans[i].at + 1, spans[i].at + spans[i].len)])
  IN [data  |-> moved(Len(spans)),
      spans |-> [i \in DOMAIN spans |-> [spans[i] EXCEPT !.at = Len(moved(i - 1))]]]

(* AdmittedInput::release of lo .. hi - 1.  The one cut that grows the     *)
(* index is refused, before anything changes, when the index is full.      *)
Release(store, lo, hi) ==
  LET splits == \E i \in DOMAIN store.spans :
                  store.spans[i].start < lo /\ hi < SpanEnd(store.spans[i])
  IN IF lo >= hi THEN [store |-> store, result |-> Accepted(0)]
     ELSE IF splits /\ Len(store.spans) = MaxSpans
     THEN [store |-> store, result |-> Refused("span_limit")]
     ELSE [store |-> Compacted(store, FlattenSeq([i \in DOMAIN store.spans |->
                                 Remains(store.spans[i], lo, hi)])),
           result |-> Accepted(0)]

(* AdmittedInput::try_read of o .. e - 1: the bytes, or <<>> when one of   *)
(* them is not held.                                                       *)
TryRead(store, o, e) ==
  IF \A p \in o .. e - 1 : CoversAt(store, p)
  THEN [i \in 1 .. e - o |->
          LET s == Covering(store, o + i - 1)
          IN store.data[s.at + (o + i - 1 - s.start) + 1]]
  ELSE <<>>

(* Seeded fault: a gap runs to the end of the range.                       *)
MissingToEnd(store, o, e) ==
  LET heads == {p \in o .. e - 1 : ~CoversAt(store, p)
                  /\ (p = o \/ CoversAt(store, p - 1))}
  IN {<<p, e - p>> : p \in heads}

(* AdmittedInput::missing_into: the gaps of o .. e - 1, as a set of pairs  *)
(* of an offset and a length.  A gap runs from an uncovered offset that    *)
(* follows the start or a span's end, to the next span's start.            *)
MissingInto(store, o, e) ==
  LET heads == {p \in o .. e - 1 : ~CoversAt(store, p)
                  /\ (p = o \/ CoversAt(store, p - 1))}
      next(p) == LeastOr({store.spans[i].start : i \in
                   {j \in DOMAIN store.spans : store.spans[j].start > p}}, e)
  IN {<<p, Least(next(p), e) - p>> : p \in heads}
=============================================================================
