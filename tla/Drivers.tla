------------------------------- MODULE Drivers -------------------------------
(***************************************************************************)
(* The drivers of zencodec-io: the loop that offers a stage bytes of a     *)
(* source, takes what it consumed and serves what it asks for next.  Four  *)
(* cursors share the loop: a slice cursor over bytes in memory, a          *)
(* random-access cursor over a ReadAt source with a window and a cache of  *)
(* fetched ranges, a stream cursor over a Read (stepper.rs), and an async  *)
(* cursor, which is the random-access one but takes a fetched range out of *)
(* the cache and reads as the stream cursor does (tokio_io.rs).            *)
(* "buffered" is the random-access cursor over a BufferedReadAt.  The      *)
(* image drives of drive.rs, pump.rs and decode_async are the same loop    *)
(* around the same cursors.                                                *)
(*                                                                         *)
(* The stage is any one: it may take any prefix, claim more than it was    *)
(* offered, and ask for anything in RequestLists.  A read may fail, or its *)
(* future be dropped, and the caller may then call the cursor again.       *)
(***************************************************************************)
EXTENDS Admission, BufferedSource

CONSTANTS
  ReadSize,      \* bytes to read at a time
  InFlights,     \* the values of IoLimits.in_flight; 0 disables reads
  MaxWindow,     \* contiguous bytes a stream cursor holds
  Buffered,      \* the BufferedReadAt a caller may build
  RequestLists,  \* what a stage may ask for
  None

\* A Read cursor reads at least 512 bytes at a time; to the others a read_size
\* of 0 is as good as 1.  A reader asked for bytes gives one at least.
ASSUME OptionsAreSizes ==
  Length \in Nat /\ ReadSize \in Nat \ {0} /\ MaxWindow \in Nat /\ InFlights \subseteq Nat

ASSUME CallersAreReal ==
  /\ RequestLists \subseteq Seq(Requests(Nat, Nat))
  /\ \A s \in Buffered : /\ s.policy \in {"window", "spool"} /\ s.cap \in Nat
                        /\ s.chunk \in Nat \ {0}
                        /\ s = NewSource(s.policy, s.cap, s.chunk)

ASSUME AbsentIsNothing == Unknown \notin Nat /\ None \notin Nat \X Nat

VARIABLES
  driver,    \* the cursor in use
  inFlight,  \* ranges of a round handed to the source at once
  win,       \* the window of a random-access or stream cursor
  fetched,   \* ranges fetched ahead, with their allocations
  using,     \* the fetched range on offer and how far into it, or None
  span,      \* start and end of a slice cursor's offer
  pos,       \* bytes the stream has delivered
  src,       \* the BufferedReadAt, or None
  reqs,      \* what the stage asked for, while it is served
  goal,      \* the request being served, and after success until the next step
  pc

vars == <<driver, inFlight, win, fetched, using, span, pos, src, reqs, goal, pc>>

Window == <<win, fetched, using>>

Init ==
  /\ driver \in {"slice", "random", "buffered", "stream", "async"}
  /\ src \in IF driver = "buffered" THEN Buffered ELSE {None}
  /\ inFlight \in IF driver \in {"random", "async"} THEN InFlights ELSE {1}
  /\ \E hint \in IF driver \in {"random", "async"} THEN {Unknown, Length} ELSE {Unknown} :
       win = [EmptyWindow EXCEPT !.total = hint]
  /\ fetched = <<>> /\ using = None
  /\ span = <<0, 0>> /\ pos = 0
  /\ reqs = <<>> /\ goal = None
  /\ pc = "step"

(***************************************************************************)
(* Offer and take                                                          *)
(***************************************************************************)
\* The clamps keep a past range or an overlong claim inside the bytes.
SliceEnd   == Lesser(span[2], Length)
SliceStart == Lesser(span[1], SliceEnd)

Offer ==
  CASE driver = "slice" ->
         [off |-> SliceStart, bytes |-> Source(SliceStart, SliceEnd),
          total |-> Length]
    [] driver # "slice" /\ using # None ->
         [off   |-> fetched[using[1]].off + using[2],
          bytes |-> SubSeq(fetched[using[1]].bytes, using[2] + 1,
                           Len(fetched[using[1]].bytes)),
          total |-> win.total]
    [] OTHER ->
         [off |-> win.base, bytes |-> Bytes(win), total |-> win.total]

Take(consumed) ==
  /\ span' = IF driver = "slice"
             THEN <<SliceStart + Lesser(consumed, SliceEnd - SliceStart), SliceEnd>>
             ELSE span
  /\ using' = IF using = None THEN None
              ELSE <<using[1], Lesser(using[2] + consumed,
                                      Len(fetched[using[1]].bytes))>>
  /\ win' = IF driver # "slice" /\ using = None THEN Consume(win, consumed) ELSE win
  /\ UNCHANGED fetched

\* A stage may claim one byte more than it was offered.
Claims == 0..(Len(Offer.bytes) + 1)

Outputs ==
  /\ pc = "step"
  /\ \E consumed \in Claims : Take(consumed)
  /\ goal' = None
  /\ UNCHANGED <<driver, src, inFlight, pos, reqs, pc>>

\* decode_async keeps a copy of a part, AsyncCursor borrows the list.
Kept(asked) ==
  IF driver = "async" /\ Select(asked) # 0 THEN {asked, CopyRequests(asked)} ELSE {asked}

Needs ==
  /\ pc = "step"
  /\ \E consumed \in Claims, asked \in RequestLists :
       /\ NeedAllowed(asked, Offer, consumed)
       /\ Take(consumed)
       /\ reqs' \in Kept(asked)
  /\ goal' = None
  /\ pc' = "serve"
  /\ UNCHANGED <<driver, src, inFlight, pos>>

\* The violation is reported before the window gives up what was taken; the
\* slice cursor takes first.
BreaksProtocol ==
  /\ pc = "step"
  /\ \E consumed \in Claims, asked \in RequestLists :
       /\ ~NeedAllowed(asked, Offer, consumed)
       /\ IF driver = "slice" THEN Take(consumed) ELSE UNCHANGED <<span, Window>>
  /\ goal' = None
  /\ UNCHANGED <<driver, src, inFlight, pos, reqs, pc>>

\* Control returns to the stage, with its request served or with an error.
Return(request) ==
  /\ goal' = request
  /\ reqs' = <<>>
  /\ pc' = "step"
  /\ UNCHANGED <<driver, inFlight, pos, span>>

(***************************************************************************)
(* Slice cursor                                                            *)
(***************************************************************************)
ServeSlice ==
  /\ pc = "serve" /\ driver = "slice"
  /\ LET r == reqs[1]
     IN  span' = CASE r.kind = "least" ->
                        <<r.off, Lesser(r.off + Greater(r.len, ReadSize), Length)>>
                   [] r.kind = "range" -> <<r.off, ReqEnd(r)>>
                   [] OTHER            -> span
  /\ goal' = reqs[1] /\ reqs' = <<>> /\ pc' = "step"
  /\ UNCHANGED <<driver, src, inFlight, pos, Window>>
------------------------------------------------------------------------------
(***************************************************************************)
(* Random-access cursor                                                    *)
(***************************************************************************)
StopsOfferingLate == UNCHANGED using

\* What is offered next is the window, until a fetched range is chosen.
StopsOffering == using' = None

RandomAccess == driver \in {"random", "buffered", "async"}

Serving(kind) ==
  /\ pc = "serve" /\ RandomAccess
  /\ Select(reqs) # 0
  /\ reqs[Select(reqs)].kind = kind

Chosen == reqs[Select(reqs)]

ReadsAllowed == inFlight > 0

\* No alternative fits the limits, or the source may not be read at all.
Refuse ==
  /\ pc = "serve" /\ RandomAccess /\ Select(reqs) = 0
  /\ UNCHANGED <<src, Window>>
  /\ Return(None)

\* What a read of the source may come to.
Fails == [src |-> src, ok |-> FALSE, bytes |-> <<>>]

Reads(offset, n, exact) ==
  IF driver = "buffered"
  THEN {IF exact THEN ReadExactAt(src, offset, n, calls) ELSE ReadAt(src, offset, n, calls) :
          calls \in 0..Plenty}
  ELSE {Fails} \cup
       LET got == Source(offset, Lesser(offset + n, Length))
       IN  IF exact /\ Len(got) < n THEN {}
           ELSE {[src |-> src, ok |-> TRUE, bytes |-> got]}

(***************************************************************************)
(* Read n bytes behind the held ones of w, the cache of later ranges being *)
(* cache.  Memory or the source may fail; what had been read stays.  A     *)
(* short read is the end of the source.                                    *)
(***************************************************************************)
ReadBehind(w, cache, want, exact) ==
  LET room == Spare(w, want, InputBytes - Capacity(cache))
      Behind(bytes) ==
        LET read == Commit(Filled(room.win, bytes), Len(bytes))
        IN  IF Len(bytes) < want
            THEN [read EXCEPT !.total = EndOf(w) + Len(bytes)] ELSE read
  IN  /\ fetched' = cache /\ StopsOffering
      /\ \/ /\ room.ok
            /\ \E o \in Reads(EndOf(w), want, exact) :
                 /\ src' = o.src
                 /\ \/ o.ok  /\ win' = Behind(o.bytes) /\ Return(Chosen)
                    \/ ~o.ok /\ win' = room.win /\ Return(None)
         \/ /\ win' \in IF room.ok THEN {ToFront(w, want)} ELSE {room.win}
            /\ UNCHANGED src /\ Return(None)

\* Enough is held: a hit in the cache is no reason to read again.
ServeHeld ==
  /\ Serving("least") /\ driver # "async"
  /\ LET at == Position(win, fetched, Chosen.off)
     IN  /\ Held(at.win) >= Greater(Chosen.len, 1)
         /\ win' = at.win /\ fetched' = at.fetched /\ StopsOffering
  /\ UNCHANGED src /\ Return(Chosen)

Target(r) == Lesser(ReadTarget(r.len, ReadSize), InputBytes)

ServeLeast ==
  /\ Serving("least") /\ driver # "async"
  /\ LET at   == Position(win, fetched, Chosen.off)
         want == Target(Chosen) - Held(at.win)
     IN  /\ Held(at.win) < Greater(Chosen.len, 1)
         /\ CASE ~ReadsAllowed ->
                   /\ win' = at.win /\ fetched' = at.fetched /\ StopsOffering
                   /\ UNCHANGED src /\ Return(None)
              [] ReadsAllowed /\ at.win.total = EndOf(at.win) ->
                   /\ win' = at.win /\ StopsOffering
                   /\ fetched' = MakeRoom(at.win, at.fetched, Target(Chosen))
                   /\ UNCHANGED src /\ Return(Chosen)
              [] OTHER ->
                   ReadBehind(at.win, MakeRoom(at.win, at.fetched, Target(Chosen)),
                              want, FALSE)

InWindow(r) == r.off >= win.base /\ ReqEnd(r) <= EndOf(win)

Holding(r, ranges) ==
  {i \in DOMAIN ranges : r.off >= ranges[i].off /\ ReqEnd(r) <= RangeEnd(ranges[i])}

ServeInWindow ==
  /\ Serving("range") /\ InWindow(Chosen)
  /\ win' = Consume(win, Chosen.off - win.base)
  /\ StopsOffering /\ UNCHANGED <<src, fetched>>
  /\ Return(Chosen)

\* The first of the ranges that holds the request is offered next: from the
\* cache, or, by the async cursor, as the window in place of w.
Hand(w, ranges) ==
  LET i    == Min(Holding(Chosen, ranges))
      into == Chosen.off - ranges[i].off
  IN  IF driver = "async"
      THEN /\ win' = Consume(Adopt(w, ranges[i].off, ranges[i]), into)
           /\ fetched' = RemoveSwapping(ranges, i) /\ StopsOffering
      ELSE win' = w /\ fetched' = ranges /\ using' = <<i, into>>

ServeFetched ==
  /\ Serving("range") /\ ~InWindow(Chosen)
  /\ Holding(Chosen, fetched) # {}
  /\ Hand(win, fetched)
  /\ UNCHANGED src
  /\ Return(Chosen)

Absent == Serving("range") /\ ~InWindow(Chosen) /\ Holding(Chosen, fetched) = {}

\* A prefix is held, so reads are allowed: read the missing tail only.
ServeTail ==
  /\ Absent
  /\ LET at == Position(win, fetched, Chosen.off)
     IN  /\ at.kept
         /\ ReadBehind(at.win, MakeRoom(at.win, at.fetched, Chosen.len),
                       ReqEnd(Chosen) - EndOf(at.win), TRUE)

(***************************************************************************)
(* A new round: the planned ranges are read in batches of InFlight.  Only  *)
(* a complete round is published; a failure leaves neither the old ranges  *)
(* nor the window.                                                         *)
(***************************************************************************)
FetchesAll(round) ==
  IF driver = "buffered"
  THEN {ReadManyAt(src, [i \in DOMAIN round |->
                           [off |-> round[i].off, len |-> Len(round[i].bytes)]], calls) :
          calls \in 0..Plenty}
  ELSE {Fails} \cup
       IF \E i \in DOMAIN round : RangeEnd(round[i]) > Length THEN {}
       ELSE {[src |-> src, ok |-> TRUE,
              bytes |-> [i \in DOMAIN round |-> Source(round[i].off, RangeEnd(round[i]))]]}

ServeRound ==
  /\ Absent
  /\ LET at == Position(win, fetched, Chosen.off)
     IN  /\ ~at.kept
         /\ \/ /\ ~ReadsAllowed
               /\ win' = at.win /\ fetched' = at.fetched /\ StopsOffering
               /\ UNCHANGED src /\ Return(None)
            \/ /\ ReadsAllowed
               /\ \E round \in {Allocated(Plan(Chosen, reqs), at.fetched)} :
                  \E o \in FetchesAll(round) :
                    /\ src' = o.src
                    /\ \/ /\ o.ok
                          /\ Hand(Release(at.win),
                                  [i \in DOMAIN round |->
                                     [round[i] EXCEPT !.bytes = o.bytes[i]]])
                          /\ Return(Chosen)
                       \/ /\ ~o.ok /\ win' = Release(at.win)
                          /\ fetched' = <<>> /\ StopsOffering /\ Return(None)

\* What asking the source for its length may come to.
Lengths ==
  IF driver = "buffered"
  THEN {LenOf(src, calls) : calls \in 0..Plenty}
  ELSE {[src |-> src, ok |-> ok, total |-> Length] : ok \in BOOLEAN}

ServeLen ==
  /\ Serving("len")
  /\ StopsOffering /\ UNCHANGED fetched
  /\ \/ win.total # Unknown /\ UNCHANGED <<src, win>> /\ Return(Chosen)
     \/ win.total = Unknown /\ ~ReadsAllowed /\ UNCHANGED <<src, win>> /\ Return(None)
     \/ /\ win.total = Unknown /\ ReadsAllowed
        /\ \E o \in Lengths :
             /\ src' = o.src
             /\ \/ o.ok  /\ win' = [win EXCEPT !.total = o.total] /\ Return(Chosen)
                \/ ~o.ok /\ UNCHANGED win /\ Return(None)
------------------------------------------------------------------------------
(***************************************************************************)
(* Stream cursor, and the reads of the async cursor                        *)
(***************************************************************************)
\* A request at or ahead of the window is preferred.
Ahead == {i \in DOMAIN reqs : reqs[i].kind # "len" /\ reqs[i].off >= win.base}

Preferred == IF Ahead = {} THEN reqs[1] ELSE reqs[Min(Ahead)]

NeedsRandomAccess(r) == r.kind = "len" \/ r.off < win.base

ServeStream ==
  /\ pc = "serve" /\ driver = "stream"
  /\ UNCHANGED <<src, Window>>
  /\ IF NeedsRandomAccess(Preferred) \/ Greater(Preferred.len, 1) > MaxWindow
     THEN Return(None)
     ELSE /\ goal' = Preferred /\ reqs' = <<>> /\ pc' = "skip"
          /\ UNCHANGED <<driver, inFlight, pos, span>>

\* The async cursor makes room, and reads as long as it must.
ServeAsync ==
  /\ Serving("least") /\ driver = "async"
  /\ LET at == Position(win, fetched, Chosen.off)
     IN  /\ win' = at.win
         /\ fetched' = MakeRoom(at.win, at.fetched, Target(Chosen))
  /\ goal' = Chosen /\ reqs' = <<>> /\ pc' = "fill"
  /\ UNCHANGED <<driver, src, inFlight, using, span, pos>>

AtEnd    == IF driver = "stream" THEN win.total # Unknown ELSE win.total = EndOf(win)
Skipping == pc = "skip" /\ goal.off > EndOf(win) /\ win.total = Unknown
Filling  == pc = "fill" /\ Held(win) < Greater(goal.len, 1) /\ ~AtEnd

Limit == IF driver = "stream" THEN MaxWindow ELSE InputBytes

\* One read into w: any number of bytes, none only at the end.
ReadSome(w, want) ==
  LET room == Spare(w, want, Limit - Capacity(fetched))
      from == IF driver = "stream" THEN pos ELSE EndOf(w)
      left == Greater(Length - from, 0)
  IN  /\ room.ok /\ ReadsAllowed
      /\ \E n \in IF left = 0 \/ want = 0 THEN {0} ELSE 1..Lesser(want, left) :
           /\ pos' = IF driver = "stream" THEN pos + n ELSE pos
           /\ win' = IF n = 0 THEN [room.win EXCEPT !.total = EndOf(w)]
                     ELSE Commit(Filled(room.win, Source(from, from + n)), n)
      /\ UNCHANGED <<driver, src, inFlight, fetched, using, span, reqs, goal, pc>>

SkipWant == Lesser(Lesser(goal.off - EndOf(win), ReadSize), MaxWindow)

FillWant ==
  LET target == Lesser(ReadTarget(goal.len, ReadSize), Limit)
  IN  target - Lesser(Held(win), target)

SkipRead == Skipping /\ ReadSome(ResetTo(win, EndOf(win)), SkipWant)
FillRead == Filling /\ ReadSome(win, FillWant)

\* The reader or the allocator fails, or the future is dropped: what is held
\* stays for another call.
ReadingFails ==
  /\ Skipping \/ Filling
  /\ \E w \in IF Skipping THEN {ResetTo(win, EndOf(win))} ELSE {win} :
       LET want == IF Skipping THEN SkipWant ELSE FillWant
           room == Spare(w, want, Limit - Capacity(fetched))
       IN  win' \in IF ReadsAllowed THEN {room.win, ToFront(w, want)} ELSE {w}
  /\ UNCHANGED <<src, fetched, using>>
  /\ Return(None)

SkipDone ==
  /\ pc = "skip" /\ ~Skipping
  /\ win' = IF goal.off <= EndOf(win) THEN Consume(win, goal.off - win.base) ELSE win
  /\ pc' = "fill"
  /\ UNCHANGED <<driver, src, inFlight, fetched, using, span, pos, reqs, goal>>

FillDone ==
  /\ pc = "fill" /\ ~Filling
  /\ UNCHANGED <<src, Window>>
  /\ Return(goal)

Next ==
  \/ Outputs \/ Needs \/ BreaksProtocol
  \/ ServeSlice
  \/ Refuse \/ ServeHeld \/ ServeLeast
  \/ ServeInWindow \/ ServeFetched \/ ServeTail \/ ServeRound \/ ServeLen
  \/ ServeStream \/ ServeAsync \/ SkipRead \/ FillRead \/ ReadingFails \/ SkipDone \/ FillDone

Spec == Init /\ [][Next]_vars
------------------------------------------------------------------------------
(***************************************************************************)
(* Properties                                                              *)
(***************************************************************************)
\* Every variable has the shape the code gives it, and a fetched range on
\* offer exists: clearing or swapping the cache must not leave an index
\* into it (stepper.rs, ReadAtCursor::from_fetched).
TypeOK ==
  /\ driver \in {"slice", "random", "buffered", "stream", "async"} /\ inFlight \in Nat
  /\ src # None => src.start + Len(src.buf) <= src.mark /\ src.mark <= Length
  /\ win.base \in Nat /\ win.total \in Nat \cup {Unknown}
  /\ 0 <= win.head /\ win.head <= win.end /\ win.end <= Len(win.buf)
  /\ Len(win.buf) <= win.cap
  /\ \A i \in DOMAIN fetched : Len(fetched[i].bytes) <= fetched[i].cap
  /\ using # None => /\ using[1] \in DOMAIN fetched
                     /\ using[2] \in 0..Len(fetched[using[1]].bytes)
  /\ span \in (Nat \X Nat) /\ pos \in 0..Length
  /\ goal = None \/ goal \in UNION {{a[i] : i \in DOMAIN a} : a \in RequestLists}
  /\ pc \in {"step", "serve", "skip", "fill"}

\* What the stage is offered is the source's bytes at the offset it is told:
\* through the window's compaction and growth, the adoption of a fetched
\* range, reuse of its memory, a failed read and a call again after it.  It
\* is never told the source ends before it does.
OfferIsSource ==
  /\ \A k \in DOMAIN Offer.bytes : Offer.bytes[k] = Offer.off + k - 1
  /\ Offer.total # Unknown => Offer.total >= Length

\* The driver retains at most what its limits allow, window and fetched
\* ranges together, a stream cursor at most its window (IoLimits), and a
\* BufferedReadAt at most its policy's cap, however far it is read ahead.
RetainedWithinLimits ==
  /\ win.cap + Capacity(fetched) <= IF driver = "stream" THEN MaxWindow ELSE InputBytes
  /\ src # None => Len(src.buf) <= src.cap

\* A request reported as served is: the next offer satisfies it.  A stream
\* that ended before the request is the one exception, and the stage is then
\* told the end it ran past.  Otherwise the stage would ask again for ever,
\* or be refused for making no progress (window.rs, check_need).
ServedIsOffered ==
  pc = "step" /\ goal # None =>
    \/ Satisfied(goal, Offer)
    \/ driver = "stream" /\ win.total # Unknown /\ goal.off > win.total

\* The total a stage is told is the length of the source (incremental.rs,
\* Input::total_len: "Total source length, once the driver knows it").
TotalIsLength == Offer.total # Unknown => Offer.total = Length
==============================================================================
