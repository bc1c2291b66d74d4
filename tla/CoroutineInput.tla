--------------------------- MODULE CoroutineInput ---------------------------
(***************************************************************************)
(* How a coroutine decoder gets its bytes: CoroutineDecoder::absorb and    *)
(* the Need branch of advance (src/zencodec-coroutine/src/decoder.rs), the *)
(* read futures (context.rs), and a driver that offers inputs by the rules *)
(* of src/src/traits/incremental.rs.  The store is ByteStore's: the set of *)
(* offsets held, at most Cap of them (InputStore implements it; its range  *)
(* index is not bounded here).                                             *)
(*                                                                         *)
(* A run has one of three uses.  In a "stream" the author uses read_exact  *)
(* and seeks forward, and the driver reads forward.  In a "random" one the *)
(* author uses read_exact_at and read_many_at, the spans of a call fitting *)
(* the cap together, and the driver offers any run of bytes.  In a "mixed" *)
(* one the author does both, seeks anywhere and asks for any spans.  An    *)
(* error ends the author, as `?` does.                                     *)
(***************************************************************************)
EXTENDS Integers, Sequences, FiniteSets, SequencesExt

CONSTANTS
  Size,        (* the source's length                                      *)
  Cap,         (* InputStore.cap                                           *)
  MaxLen,      (* bound: the bytes of one read, its spans together         *)
  MaxReads,    (* bound: spans read, seeks and len() calls of one author   *)
  Uses         (* those that are checked                                   *)

ASSUME CoroutineInputAssumption ==
  /\ Size \in Nat /\ Cap \in Nat \ {0}
  /\ MaxLen \in Nat /\ MaxReads \in Nat
  /\ Uses \subseteq {"stream", "random", "mixed"}

VARIABLES
  use,         (* of author and driver                                     *)
  cursor,      (* CoroutineContext.cursor                                  *)
  kind,        (* the read awaited: none, seq, at or len                   *)
  spans,       (* its spans, as <<offset, end>>                            *)
  reads,       (* of MaxReads, those made so far                           *)
  author,      (* running, failed or ended                                 *)
  held,        (* offsets whose byte the store holds                       *)
  total,       (* is the source's length known to the store?               *)
  need,        (* Shared.need: the outstanding requests                    *)
  input,       (* what the driver offered: offset, end, total              *)
  consumed,    (* bytes of it taken                                        *)
  pc,          (* idle, poll or need                                       *)
  front        (* history: where a stream's driver stands, past the bytes  *)
               (* consumed                                                 *)

vars == <<use, cursor, kind, spans, reads, author, held, total, need, input,
          consumed, pc, front>>

Offsets == 0 .. Size - 1
Lesser(x, y) == IF x <= y THEN x ELSE y
Greater(x, y) == IF x >= y THEN x ELSE y
SpanOf(s) == s[1] .. s[2] - 1
Inputs == {i \in [offset : 0 .. Size, end : 0 .. Size, total : BOOLEAN] :
             i.offset <= i.end}

Request(what, o, e) == [kind |-> what, offset |-> o, end |-> e]
Wanted == UNION {SpanOf(spans[i]) : i \in DOMAIN spans}

-----------------------------------------------------------------------------
(* Taking input.                                                           *)

(* InputStore::feed of lo .. hi - 1 to a store of h: where storing stops.  *)
(* What is already there is passed over; the next byte held, or a full     *)
(* store, ends it.                                                         *)
Reached(h, lo, hi) ==
  LET start == Min({p \in lo .. hi - 1 : p \notin h} \cup {hi})
      stop  == Min({p \in start .. hi - 1 : p \in h} \cup {hi})
  IN Lesser(stop, start + Cap - Cardinality(h))

(* An AtLeast takes whatever the input has from its offset on.             *)
EndIn(i, r) == IF r.kind = "AtLeast" THEN i.end ELSE Lesser(r.end, i.end)

(* Seeded fault: what did not fit counts as consumed.                      *)
ServeTakesAll(acc, lo, hi, ranged) ==
  {[held |-> acc.held \cup (lo .. upto - 1),
    taken |-> Greater(acc.taken, hi),
    full |-> FALSE] : upto \in {Reached(acc.held, lo, hi)}}

(* Bytes lo .. hi - 1 go to the store; a Range that did not fit ends the   *)
(* loop.                                                                   *)
Serve(acc, lo, hi, ranged) ==
  {[held |-> acc.held \cup (lo .. upto - 1),
    taken |-> Greater(acc.taken, upto),
    full |-> ranged /\ upto < hi] : upto \in {Reached(acc.held, lo, hi)}}

(* One round of absorb's loop.                                             *)
Round(i, begin, acc, r) ==
  LET lo == Greater(r.offset, begin)
      hi == EndIn(i, r)
  IN IF acc.full \/ r.kind = "Len" \/ lo >= hi THEN {acc}
     ELSE Serve(acc, lo, hi, r.kind = "Range")

(* absorb of input i from `from` on.  (Its one result is the element of a  *)
(* set, which is evaluated once wherever it is used.)                      *)
Absorbed(i, from) ==
  LET begin == i.offset + from
  IN FoldLeft(LAMBDA accs, r : UNION {Round(i, begin, acc, r) : acc \in accs},
              {[held |-> held, taken |-> begin, full |-> FALSE]}, need)

Init ==
  /\ use \in Uses
  /\ cursor = 0 /\ kind = "none" /\ spans = <<>> /\ reads = 0
  /\ author = "running"
  /\ held = {} /\ total = FALSE /\ need = <<>>
  /\ input = [offset |-> 0, end |-> 0, total |-> FALSE]
  /\ consumed = 0 /\ pc = "idle" /\ front = 0

-----------------------------------------------------------------------------
(* The driver.                                                             *)

(* Does input i satisfy request r?  (incremental.rs:40-45)                 *)
Satisfies(i, r) ==
  CASE r.kind = "AtLeast" -> /\ i.offset = r.offset
                             /\ i.end >= r.end \/ (i.end = Size /\ i.total)
    [] r.kind = "Range"   -> i.offset = r.offset /\ i.end >= r.end
    [] r.kind = "Len"     -> i.total

(* A request past the source's end can only be answered with the length.   *)
Serves(i, r) ==
  Satisfies(i, r) \/ (r.kind = "Range" /\ r.end > Size /\ i.total)

Waiting == pc = "idle" /\ author = "running" /\ kind # "none"

(* check_need: the check the drivers make of a Need for the input they     *)
(* offered last.                                                           *)
CheckNeed(requests, i, taken) ==
  /\ requests # <<>>
  /\ i.total => \A k \in DOMAIN requests :
       CASE requests[k].kind = "AtLeast" -> requests[k].offset <= Size
         [] requests[k].kind = "Range"   -> requests[k].end <= Size
         [] OTHER                        -> TRUE
  /\ taken = 0 => \A k \in DOMAIN requests : ~Satisfies(i, requests[k])

(* Where the driver of a stream stands once everything before `to` is its. *)
Advance(to) == front' = IF use = "stream" THEN Greater(front, to) ELSE front

(* A step with an input of S: absorb, then the first poll.  A driver that  *)
(* knows the length keeps giving it; a stream's offers the bytes that come *)
(* next, or skips to those that are asked for.                             *)
Offer(S) ==
  /\ pc = "idle" /\ author = "running"
  /\ input' \in S
  /\ pc' = "poll"
  /\ total => input'.total
  /\ total' = input'.total
  /\ use = "stream" => \/ input'.offset = front
                       \/ \E k \in DOMAIN need : need[k].kind = "AtLeast"
                                      /\ input'.offset = need[k].offset
  /\ \E got \in Absorbed(input', 0) :
       /\ held' = got.held
       /\ consumed' = got.taken - input'.offset
       /\ Advance(got.taken)
  /\ UNCHANGED <<use, cursor, kind, spans, reads, author, need>>

(* The driver serves a request, or offers something else.                  *)
Serving == {i \in Inputs : kind # "none" /\ \E k \in DOMAIN need : Serves(i, need[k])}
OfferServing == Offer(Serving)
OfferAny == Offer(Inputs \ Serving)

(* Need: the same input may hold what is asked for now.                    *)
NeedMore ==
  /\ pc = "need"
  /\ \E got \in Absorbed(input, consumed) :
       /\ held' = got.held
       /\ consumed' = got.taken - input.offset
       /\ pc' = IF consumed' > consumed THEN "poll" ELSE "idle"
       /\ Advance(got.taken)
  /\ UNCHANGED <<use, cursor, kind, spans, reads, author, total, need, input>>

-----------------------------------------------------------------------------
(* The author.                                                             *)

Calls(n) == pc = "poll" /\ author = "running" /\ kind = "none"
            /\ reads' = reads + n /\ reads' <= MaxReads
            /\ UNCHANGED <<use, author, total, need, input, consumed, pc, front>>

SpanSet == {<<o, o + n>> : o \in 0 .. Size, n \in 1 .. MaxLen}
Bytes(ss) == FoldLeft(LAMBDA n, s : n + s[2] - s[1], 0, ss)

(* read_exact at the cursor.                                               *)
ReadExact ==
  /\ Calls(1) /\ use # "random"
  /\ \E n \in 1 .. MaxLen : spans' = <<<<cursor, cursor + n>>>>
  /\ kind' = "seq"
  /\ UNCHANGED <<cursor, held>>

(* read_exact_at, or read_many_at of any list of spans.  Those of a        *)
(* "random" author fit the cap together.                                   *)
ReadAt ==
  /\ use # "stream"
  /\ \E n \in 0 .. MaxReads : Calls(Greater(1, n)) /\ spans' \in [1 .. n -> SpanSet]
  /\ Bytes(spans') <= MaxLen
  /\ use = "random" /\ Len(spans') > 1 => Cardinality(Wanted') <= Cap
  /\ kind' = "at"
  /\ UNCHANGED <<cursor, held>>

(* seek: bytes behind the new cursor are released.                         *)
Seek ==
  /\ Calls(1) /\ use # "random"
  /\ \E to \in 0 .. Size :
       /\ use = "stream" => to > cursor
       /\ cursor' = to
       /\ held' = held \ (0 .. to - 1)
  /\ UNCHANGED <<kind, spans>>

AskLen ==
  /\ Calls(1)
  /\ kind' = "len"
  /\ UNCHANGED <<cursor, spans, held>>

Missing(s) == SpanOf(s) \ held

(* Seeded faults: without one or the other check.                          *)
FailsByCap(s) == s[2] - s[1] > Cap
FailsByEnd(s) == Missing(s) # {} /\ total /\ s[2] > Size

(* What a read fails of, span by span in order: longer than the cap, or    *)
(* not held and past the known end.                                        *)
Fails(s) ==
  \/ s[2] - s[1] > Cap
  \/ Missing(s) # {} /\ total /\ s[2] > Size

(* Seeded fault: a span is asked for whole.                                *)
GapsWhole(s) == IF Missing(s) = {} THEN <<>> ELSE <<Request("Range", s[1], s[2])>>

(* The gaps of a span, in order: one Range each.                           *)
Gaps(s) ==
  LET heads == {p \in Missing(s) : p = s[1] \/ p - 1 \in held}
      end(p) == Min({q \in p .. s[2] - 1 : q \in held} \cup {s[2]})
  IN [k \in 1 .. Cardinality(heads) |->
        LET p == CHOOSE p \in heads : Cardinality({q \in heads : q < p}) = k - 1
        IN Request("Range", p, end(p))]

(* One request per gap; for a sequential read one, from the first missing  *)
(* byte to the end of the read.                                            *)
Requests ==
  CASE kind = "len" -> <<Request("Len", 0, 0)>>
    [] kind = "seq" -> <<Request("AtLeast", Min(Missing(spans[1])), spans[1][2])>>
    [] OTHER -> FlattenSeq([i \in DOMAIN spans |-> Gaps(spans[i])])

Polls == pc = "poll" /\ author = "running" /\ kind # "none"
         /\ UNCHANGED <<use, reads, total, input, consumed, front>>

Failing == kind # "len" /\ \E i \in DOMAIN spans : Fails(spans[i])
Satisfied == IF kind = "len" THEN total ELSE Wanted \subseteq held

(* The read completes and gives its bytes back; read_exact also moves the  *)
(* cursor and releases everything behind it.  Len leaves its request.      *)
ReadReady ==
  /\ Polls /\ ~Failing /\ Satisfied
  /\ cursor' = IF kind = "seq" THEN spans[1][2] ELSE cursor
  /\ held' = CASE kind = "len" -> held
               [] kind = "seq" -> held \ (0 .. spans[1][2] - 1)
               [] OTHER -> held \ Wanted
  /\ need' = IF kind = "len" THEN need ELSE <<>>
  /\ kind' = "none" /\ spans' = <<>>
  /\ UNCHANGED <<author, pc>>

(* Seeded fault: the spans that are there are released though others are   *)
(* missing.                                                                *)
ReadWaitsReleasing ==
  /\ Polls /\ ~Failing /\ ~Satisfied
  /\ need' = Requests
  /\ pc' = "need"
  /\ held' = held \ UNION {SpanOf(spans[i]) :
                             i \in {k \in DOMAIN spans : Missing(spans[k]) = {}}}
  /\ UNCHANGED <<cursor, kind, spans, author>>

ReadWaits ==
  /\ Polls /\ ~Failing /\ ~Satisfied
  /\ need' = Requests
  /\ pc' = "need"
  /\ UNCHANGED <<cursor, kind, spans, author, held>>

ReadFails ==
  /\ Polls /\ Failing
  /\ author' = "failed" /\ pc' = "idle"
  /\ UNCHANGED <<cursor, kind, spans, held, need>>

Return ==
  /\ pc = "poll" /\ author = "running" /\ kind = "none"
  /\ author' = "ended" /\ pc' = "idle"
  /\ held' = {}
  /\ UNCHANGED <<use, cursor, kind, spans, reads, total, need, input, consumed,
                 front>>

Next ==
  \/ OfferAny \/ OfferServing \/ NeedMore
  \/ ReadExact \/ ReadAt \/ Seek \/ AskLen
  \/ ReadReady \/ ReadWaits \/ ReadFails \/ Return

(* A step runs by itself once called.  Of the driver it is asked only that *)
(* it does not withhold for ever what was requested.                       *)
Fairness ==
  /\ WF_vars(NeedMore \/ ReadReady \/ ReadWaits \/ ReadFails)
  /\ SF_vars(OfferServing)

Spec == Init /\ [][Next]_vars
FairSpec == Spec /\ Fairness

-----------------------------------------------------------------------------
(* Properties.                                                             *)

(* "A decoder makes progress whenever its input satisfies one of its       *)
(* requests" (incremental.rs:49-52), and asks for nothing past an end it   *)
(* knows: no Need that the drivers' check_need reports as a violation.     *)
ProtocolKept == Waiting => CheckNeed(need, input, consumed)

(* A Need names what the read lacks, all of it and no more: bytes the      *)
(* store holds are not fetched again.  A sequential read's one request     *)
(* begins at its first missing byte.                                       *)
RequestsAreGaps ==
  Waiting /\ kind # "len" =>
    /\ \A i \in DOMAIN need : need[i].offset \in Wanted \ held
    /\ LET named == UNION {need[i].offset .. need[i].end - 1 : i \in DOMAIN need}
       IN /\ Wanted \ held \subseteq named
          /\ kind = "at" => named \subseteq Wanted \ held

(* A stream is never asked to go back: the store holds exactly what the    *)
(* driver has passed and the author has not, and the next request begins   *)
(* there or, after a seek, later.                                          *)
ForwardOnly ==
  use = "stream" /\ author = "running" =>
    /\ held = cursor .. front - 1
    /\ Waiting /\ kind = "seq" => need[1].offset = Greater(front, cursor)

(* Consumed bytes are never offered again (incremental.rs:31-33), so one   *)
(* that was asked for must be in the store from the moment it is consumed  *)
(* until its read completes.                                               *)
AskedIsKept ==
  LET from  == input'.offset + IF pc = "need" THEN consumed ELSE 0
      taken == IF pc = "poll" THEN {}
               ELSE from .. input'.offset + consumed' - 1
      asked == UNION {need[i].offset .. need[i].end - 1 :
                        i \in {k \in DOMAIN need : need[k].kind # "Len"}}
  IN asked \cap taken \subseteq held' /\ held \subseteq held'

(* No later span reaches into an earlier one from below.                   *)
InOrder ==
  \A i, j \in DOMAIN spans :
    i < j => spans[i][1] <= spans[j][1] \/ spans[j][2] <= spans[i][1]

(* So it is, unless reads are mixed, for a stream, for one span or two,    *)
(* and for any number of spans that come in order or do not overlap.       *)
TakenIsKept ==
  [][kind # "none" /\ kind' = kind /\ use # "mixed" /\ (Len(spans) <= 2 \/ InOrder)
       => AskedIsKept]_vars

(* A read ends: with its bytes, or with an error when it is longer than    *)
(* the cap ("an error, not a stall", zencodec-coroutine/src/lib.rs:36-38)  *)
(* or reaches past the source's end.                                       *)
ReadsComplete == kind # "none" ~> kind = "none" \/ author # "running"

(* The claim of the documentation that the code does not keep.             *)

(* "A decoder takes a prefix of the input and reports its length ...: the  *)
(* bytes it decoded in place or copied into its own state, plus any bytes  *)
(* before them it does not need" (incremental.rs:30-33).  Of three spans   *)
(* one may stop the loop of absorb where it meets a byte that an earlier   *)
(* one stored, before a third has stored a byte that is counted as taken.  *)
ConsumedIsKept ==
  [][kind # "none" /\ kind' = kind /\ use # "mixed" => AskedIsKept]_vars
=============================================================================
