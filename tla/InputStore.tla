----------------------------- MODULE InputStore -----------------------------
(***************************************************************************)
(* Bytes fed to the coroutine decoder and not yet read:                    *)
(* src/zencodec-coroutine/src/input.rs.  A decoder made with a storage     *)
(* budget keeps them packed in one allocation (AdmittedInput), any other   *)
(* in a map of segments; every operation dispatches on that, and the two   *)
(* must behave as the same partial map of bytes (ByteStore).               *)
(*                                                                         *)
(* Left out: Segment::head and the buffer kept for reuse, which decide     *)
(* where a live byte lies in memory and never which bytes are live.        *)
(***************************************************************************)
EXTENDS AdmittedInput

CONSTANTS
  MaxAddr,   (* u64::MAX: an end beyond it is an InputRangeOverflow        *)
  Versions   (* a feed's payload: what the source holds at that time       *)

ASSUME InputStoreAssumption ==
  /\ MaxAddr \in Nat /\ Cap \in Nat \ {0} /\ MaxSpans \in Nat \ {0}
  /\ "none" \notin Versions

VARIABLES
  admitted,  (* is the store AdmittedInput?                                *)
  store,     (* the packed store                                           *)
  segments,  (* the segment map: start offset -> the run's live bytes      *)
  retained,  (* the counter beside the segment map                         *)
  call,      (* the last operation and its arguments (a history variable)  *)
  result     (* what the last operation returned                           *)

vars == <<admitted, store, segments, retained, call, result>>

Positions == 0 .. MaxAddr - 1
Bytes == Positions \X Versions

Payload(o, n, v) == [i \in 1 .. n |-> <<o + i - 1, v>>]

-----------------------------------------------------------------------------
(* The segment map.                                                        *)

SegmentEnd(s) == s + Len(segments[s])

Starts == DOMAIN segments

(* The last segment that starts at p or before it holds p, or none does.   *)
HoldsSegment(p) ==
  LET below == {s \in Starts : s <= p}
  IN below # {} /\ p < SegmentEnd(Max(below))

SegmentAt(p) == Max({s \in Starts : s <= p})

(* Seeded fault: the chunk overruns the segment it meets.                  *)
ChunkOverruns(start, end) == end

(* A chunk may not run into a segment that starts inside it.               *)
ChunkLimit(start, end) == LeastOr({s \in Starts : s >= start}, end)

Segment(s, bytes) == [x \in {s} |-> bytes]

(* f where it is defined and g elsewhere.                                  *)
Over(f, g) == [x \in DOMAIN f \cup DOMAIN g |-> IF x \in DOMAIN f THEN f[x] ELSE g[x]]

(* Merge onto a segment that ends exactly at start, or insert one.         *)
Joined(start, bytes) ==
  LET below == {s \in Starts : s < start}
  IN IF below # {} /\ SegmentEnd(Max(below)) = start
     THEN [segments EXCEPT ![Max(below)] = @ \o bytes]
     ELSE Over(Segment(start, bytes), segments)

(* Seeded fault: what is already held is not counted.                      *)
RoomUncounted == Cap

(* Room for a chunk under the cap: cap.saturating_sub(retained).           *)
Room == IF retained < Cap THEN Cap - retained ELSE 0

(* The prefix already held is accepted and not stored; then bytes are      *)
(* stored up to the next segment, or until the store is full.              *)
FeedSegments(o, n, v) ==
  LET end   == o + n
      start == LeastOr({p \in o .. end - 1 : ~HoldsSegment(p)}, end)
      take  == Least(Least(ChunkLimit(start, end), end) - start, Room)
  IN IF start = end \/ take = 0
     THEN /\ result' = Accepted(start - o)
          /\ UNCHANGED <<segments, retained>>
     ELSE /\ segments' = Joined(start, Payload(start, take, v))
          /\ retained' = retained + take
          /\ result' = Accepted(start - o + take)

(* The segments that a release of lo .. hi - 1 touches, the bytes of each  *)
(* that it takes, and what stays: fronts, and the back of one that reaches *)
(* past hi (of disjoint segments at most one does).                        *)
Touched(lo, hi) == {s \in Starts : s < hi /\ SegmentEnd(s) > lo}

Cut(s, lo, hi) == {s} \X (Max({lo, s}) .. Least(hi, SegmentEnd(s)) - 1)

Fronts(touched, lo) ==
  [s \in {s \in touched : s < lo} |-> SubSeq(segments[s], 1, lo - s)]

Back(touched, hi) ==
  LET beyond == {s \in touched : hi < SegmentEnd(s)}
      last   == CHOOSE s \in beyond : TRUE
  IN IF beyond = {} THEN <<>>
     ELSE Segment(hi, SubSeq(segments[last], hi - last + 1, Len(segments[last])))

ReleaseSegments(lo, hi) ==
  LET touched == IF lo < hi THEN Touched(lo, hi) ELSE {}
      rest    == Restrict(segments, Starts \ touched)
  IN /\ segments' = Over(Over(Fronts(touched, lo), Back(touched, hi)), rest)
     /\ retained' = retained - Cardinality(UNION {Cut(s, lo, hi) : s \in touched})
     /\ result' = Accepted(0)

-----------------------------------------------------------------------------
(* The store's operations.                                                 *)

(* An operation on the n bytes at o; v is what a feed of them carries.     *)
Called(op, o, n, v) == [op |-> op, start |-> o, len |-> n, version |-> v]

Init ==
  /\ admitted \in BOOLEAN
  /\ store = EmptyStore
  /\ segments = <<>>
  /\ retained = 0
  /\ call = Called("none", 0, 0, "none")
  /\ result = Accepted(0)

(* An offset and a length whose sum is not a u64 is refused before either  *)
(* representation sees it.                                                 *)
Refuse ==
  /\ result' = Refused("overflow")
  /\ UNCHANGED <<admitted, store, segments, retained>>

(* InputStore::feed of n bytes at o.                                       *)
FeedInput(o, n, v) ==
  /\ call' = Called("feed", o, n, v)
  /\ \/ o + n > MaxAddr /\ Refuse
     \/ /\ o + n <= MaxAddr /\ admitted
        /\ LET fed == Feed(store, o, Payload(o, n, v))
           IN store' = fed.store /\ result' = fed.result
        /\ UNCHANGED <<admitted, segments, retained>>
     \/ /\ o + n <= MaxAddr /\ ~admitted
        /\ FeedSegments(o, n, v)
        /\ UNCHANGED <<admitted, store>>

(* InputStore::release of n bytes at o.                                    *)
ReleaseInput(o, n) ==
  /\ call' = Called("release", o, n, "none")
  /\ \/ o + n > MaxAddr /\ Refuse
     \/ /\ o + n <= MaxAddr /\ admitted
        /\ LET cut == Release(store, o, o + n)
           IN store' = cut.store /\ result' = cut.result
        /\ UNCHANGED <<admitted, segments, retained>>
     \/ /\ o + n <= MaxAddr /\ ~admitted
        /\ ReleaseSegments(o, o + n)
        /\ UNCHANGED <<admitted, store>>

(* InputStore::release_before.  The packed store is released from 0 with   *)
(* an expect(): a refusal would be a panic.  The segment map is released   *)
(* from its first segment on.                                              *)
ReleaseBefore(o) ==
  /\ call' = Called("release_before", 0, o, "none")
  /\ \/ /\ admitted
        /\ LET cut == Release(store, 0, o)
           IN /\ store' = cut.store
              /\ result' = IF cut.result = Accepted(0) THEN Accepted(0) ELSE Refused("panic")
        /\ UNCHANGED <<admitted, segments, retained>>
     \/ /\ ~admitted
        /\ IF Starts # {} /\ Min(Starts) < o
           THEN ReleaseSegments(Min(Starts), o)
           ELSE result' = Accepted(0) /\ UNCHANGED <<segments, retained>>
        /\ UNCHANGED <<admitted, store>>

(* InputStore::clear, when the decoder ends or fails: the packed storage   *)
(* goes back to its budget and what is left is an empty segment map.       *)
Clear ==
  /\ call' = Called("clear", 0, MaxAddr, "none")
  /\ admitted' = FALSE
  /\ store' = EmptyStore
  /\ segments' = <<>>
  /\ retained' = 0
  /\ result' = Accepted(0)

Next ==
  \/ \E o, n \in 0 .. MaxAddr, v \in Versions : FeedInput(o, n, v)
  \/ \E o, n \in 0 .. MaxAddr : ReleaseInput(o, n)
  \/ \E o \in Positions : ReleaseBefore(o)
  \/ Clear

Spec == Init /\ [][Next]_vars

-----------------------------------------------------------------------------
(* Reading the store.                                                      *)

Retained == IF admitted THEN Len(store.data) ELSE retained

HoldsByte(p) == IF admitted THEN CoversAt(store, p) ELSE HoldsSegment(p)

(* InputStore::try_read of o .. e - 1: the bytes, or none when one of them *)
(* is missing.                                                             *)
TryReadInput(o, e) ==
  IF admitted THEN TryRead(store, o, e)
  ELSE IF \A p \in o .. e - 1 : HoldsSegment(p)
       THEN [i \in 1 .. e - o |->
               LET s == SegmentAt(o + i - 1) IN segments[s][o + i - s]]
       ELSE <<>>

(* InputStore::missing_into over the segment map.                          *)
MissingSegments(o, e) ==
  LET heads == {p \in o .. e - 1 : ~HoldsSegment(p)
                  /\ (p = o \/ HoldsSegment(p - 1))}
  IN {<<p, Least(ChunkLimit(p, e), e) - p>> : p \in heads}

Missing(o, e) == IF admitted THEN MissingInto(store, o, e) ELSE MissingSegments(o, e)
-----------------------------------------------------------------------------
(* Properties.                                                             *)

(* The byte held at p, decoded from whichever representation is in use;    *)
(* one found under another offset than its own is "misplaced".             *)
HeldBytes ==
  [p \in Positions |->
     IF ~HoldsByte(p) THEN "none"
     ELSE LET b == TryReadInput(p, p + 1)[1]
          IN IF b[1] = p THEN b[2] ELSE "misplaced"]

(* Type correctness.  At the line that decides it, the segment map's       *)
(* counter stays within the cap (input.rs:135-136).                        *)
TypeOK ==
  /\ admitted \in BOOLEAN
  /\ store.data \in Seq(Bytes)
  /\ \A i \in DOMAIN store.spans :
       store.spans[i] \in [start : Positions, at : Nat, len : Nat]
  /\ \A s \in Starts : s \in Positions /\ segments[s] \in Seq(Bytes)
  /\ retained \in 0 .. Cap
  /\ call \in [op : {"none", "feed", "release", "release_before", "clear"},
               start : 0 .. MaxAddr, len : 0 .. MaxAddr, version : Versions \cup {"none"}]
  /\ result \in [outcome : {"ok", "overflow", "span_limit"}, count : 0 .. MaxAddr]

(* Both representations are the byte map of ByteStore, call for call: with *)
(* the call's own offset, length and payload, a feed stores and counts     *)
(* what the map would (the first-fed byte kept at every offset, nothing    *)
(* beyond the cap), a release forgets its range and no other byte, a merge,*)
(* a hole or a compaction moves none, a refused call changes nothing and   *)
(* is refused for no other reason; and the expect() of release_before      *)
(* never fires (ByteStore refuses no such call).                           *)
Abstract == INSTANCE ByteStore WITH held <- HeldBytes
ImplementsByteStore == Abstract!ByteSpec

(* The index of the packed store: runs sorted and never touching (a touch  *)
(* must have been merged, or the 64 slots run out early), laid end to end  *)
(* from 0 with no hole between them in the payload.                        *)
PackedSpans ==
  LET spans == store.spans
  IN /\ Len(spans) <= MaxSpans /\ Len(store.data) <= Cap
     /\ \A i \in DOMAIN spans :
          /\ spans[i].len > 0
          /\ spans[i].at = IF i = 1 THEN 0 ELSE spans[i-1].at + spans[i-1].len
          /\ i > 1 => SpanEnd(spans[i-1]) < spans[i].start
     /\ Len(store.data) = IF spans = <<>> THEN 0
                          ELSE Last(spans).at + Last(spans).len

(* No two segments share an offset, no segment is empty, and the counter   *)
(* is the number of live bytes: segment_at and release look at one         *)
(* neighbour only and rely on it, and an undercount underflows in release. *)
SegmentsDisjoint ==
  /\ \A s \in Starts :
       /\ segments[s] # <<>>
       /\ \A t \in Starts : s < t => SegmentEnd(s) <= t
  /\ retained = Cardinality(UNION {s .. SegmentEnd(s) - 1 : s \in Starts})

(* Each layout keeps the shape its own lookups rely on.                    *)
WellFormed == PackedSpans /\ SegmentsDisjoint

(* What a read sees is what a byte-by-byte reader would: try_read answers  *)
(* exactly when every byte is held, with the bytes of those offsets, and   *)
(* missing_into names exactly the offsets not held, as maximal runs (the   *)
(* driver refetches nothing and the future never waits for a held byte).   *)
QueriesAgree ==
  \A o, e \in 0 .. MaxAddr : o < e =>
    LET gaps  == {p \in o .. e - 1 : ~HoldsByte(p)}
        pairs == Missing(o, e)
    IN /\ TryReadInput(o, e) =
            IF gaps = {} THEN [i \in 1 .. e - o |-> <<o + i - 1, HeldBytes[o + i - 1]>>]
            ELSE <<>>
       /\ gaps = UNION {g[1] .. g[1] + g[2] - 1 : g \in pairs}
       /\ \A g \in pairs : g[2] > 0 /\ g[1] + g[2] \notin gaps
=============================================================================
