----------------------------- MODULE InputWindow -----------------------------
(***************************************************************************)
(* The driver-owned input buffer every driver of zencodec-io shares        *)
(* (window.rs), as operators on a record, and the checks on a request.     *)
(*                                                                         *)
(* A byte of the source is named by its offset, so a buffer shows at once  *)
(* whether it holds what its address says; Zero is a byte that was         *)
(* allocated and never read.  buf[head+1..end] starts at offset base; the  *)
(* cells behind end keep whatever an earlier read left there.              *)
(***************************************************************************)
EXTENDS Integers, SequencesExt, FiniteSetsExt

CONSTANTS
  Unknown,    \* a total length the driver has not learnt
  Zero        \* the content of memory no read has filled

Lesser(a, b)  == IF a < b THEN a ELSE b
Greater(a, b) == IF a < b THEN b ELSE a

Zeroed(n) == [i \in 1..n |-> Zero]

(***************************************************************************)
(* Window                                                                  *)
(***************************************************************************)
EmptyWindow == [buf |-> <<>>, cap |-> 0, head |-> 0, end |-> 0, base |-> 0,
                total |-> Unknown]

Held(w)  == w.end - w.head
EndOf(w) == w.base + Held(w)
Bytes(w) == SubSeq(w.buf, w.head + 1, w.end)

\* The allocation goes, the address stays.
Release(w) == [w EXCEPT !.buf = <<>>, !.cap = 0, !.head = 0, !.end = 0]

ResetTo(w, offset) == [w EXCEPT !.head = 0, !.end = 0, !.base = offset]

Consume(w, n) ==
  LET k       == Lesser(n, Held(w))
      emptied == w.head + k = w.end
  IN  [w EXCEPT !.base = @ + k,
                !.head = IF emptied THEN 0 ELSE @ + k,
                !.end  = IF emptied THEN 0 ELSE @]

Adopt(w, offset, range) ==
  [w EXCEPT !.buf = range.bytes, !.cap = range.cap, !.head = 0,
            !.end = Len(range.bytes), !.base = offset]

\* A range fetched for later: its bytes start at off, in cap allocated cells.
RangeEnd(range) == range.off + Len(range.bytes)

RemoveSwapping(s, i) ==
  [j \in 1..(Len(s) - 1) |-> IF j = i THEN s[Len(s)] ELSE s[j]]

(***************************************************************************)
(* Keep the longest prefix held at offset.  A fetched range that reaches   *)
(* further than the window becomes the window and leaves the cache.        *)
(***************************************************************************)
Position(w, fetched, offset) ==
  LET active    == offset >= w.base /\ offset < EndOf(w)
      activeEnd == IF active THEN EndOf(w) ELSE offset
      longer    == {i \in DOMAIN fetched :
                      /\ offset >= fetched[i].off
                      /\ RangeEnd(fetched[i]) > activeEnd}
      furthest  == {i \in longer : \A j \in longer :
                      RangeEnd(fetched[j]) <= RangeEnd(fetched[i])}
      best      == Max(furthest)
  IN  CASE longer # {} ->
             [win     |-> Consume(Adopt(w, fetched[best].off, fetched[best]),
                                  offset - fetched[best].off),
              fetched |-> RemoveSwapping(fetched, best),
              kept    |-> TRUE]
        [] longer = {} /\ active ->
             [win |-> Consume(w, offset - w.base), fetched |-> fetched,
              kept |-> TRUE]
        [] OTHER ->
             [win |-> ResetTo(w, offset), fetched |-> fetched,
              kept |-> FALSE]

(***************************************************************************)
(* Room for n bytes behind the held ones, within limit cells: move the     *)
(* held bytes to the front when the tail is short, then grow.  A window    *)
(* whose allocation already passes the limit is given up.                  *)
(***************************************************************************)
ToFrontUncopied(w, n) ==
  IF Len(w.buf) - w.end < n /\ w.head > 0
  THEN [w EXCEPT !.end = Held(w), !.head = 0]
  ELSE w

ToFront(w, n) ==
  IF Len(w.buf) - w.end < n /\ w.head > 0
  THEN [w EXCEPT !.buf  = Bytes(w) \o SubSeq(@, Held(w) + 1, Len(@)),
                 !.end  = Held(w),
                 !.head = 0]
  ELSE w

Grown(w, n, limit) ==
  LET want == Lesser(Greater(w.end + n, 2 * Len(w.buf)), limit)
  IN  IF Len(w.buf) - w.end < n
      THEN [w EXCEPT !.buf = @ \o Zeroed(want - Len(@)),
                     !.cap = Greater(@, want)]
      ELSE w

Spare(w, n, limit) ==
  LET moved == ToFront(w, n)
      grown == Grown(moved, n, limit)
      grows == Len(moved.buf) - moved.end < n
  IN  CASE Held(w) + n > limit          -> [ok |-> FALSE, win |-> w]
        [] Held(w) + n <= limit /\ grows /\ grown.cap > limit ->
                                            [ok |-> FALSE, win |-> Release(moved)]
        [] OTHER                        -> [ok |-> TRUE, win |-> grown]

\* A read put bytes behind the held ones.
Filled(w, bytes) ==
  [w EXCEPT !.buf = [i \in DOMAIN @ |->
                       IF i \in (w.end + 1)..(w.end + Len(bytes))
                       THEN bytes[i - w.end] ELSE @[i]]]

Commit(w, n) == [w EXCEPT !.end = @ + n]

ReadTargetFlat(min, size) == size

\* A whole number of requests, at least one read long.
ReadTarget(min, size) ==
  LET unit == Greater(min, 1)
  IN  ((Greater(size, unit) + unit - 1) \div unit) * unit

(***************************************************************************)
(* Requests, and the checks on them                                        *)
(***************************************************************************)
Requests(offsets, lengths) ==
  [kind : {"least", "range"}, off : offsets, len : lengths]
    \cup {[kind |-> "len", off |-> 0, len |-> 0]}

ReqEnd(r) == r.off + r.len

Satisfied(r, in) ==
  IF r.kind = "len" THEN in.total # Unknown
  ELSE /\ in.off = r.off
       /\ \/ Len(in.bytes) >= r.len
          \/ in.total # Unknown /\ in.total = in.off + Len(in.bytes)

PastEnd(r, total) ==
  CASE r.kind = "least" -> r.off > total
    [] r.kind = "range" -> ReqEnd(r) > total
    [] OTHER            -> FALSE

\* What a driver refuses to serve: nothing asked, bytes known not to exist,
\* or what the decoder was just offered and did not take from.
NeedAllowed(reqs, in, consumed) ==
  /\ reqs # <<>>
  /\ in.total # Unknown => \A i \in DOMAIN reqs : ~PastEnd(reqs[i], in.total)
  /\ consumed = 0 => \A i \in DOMAIN reqs : ~Satisfied(reqs[i], in)
==============================================================================
