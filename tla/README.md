# A TLA+ model of zencodec

zencodec is a Rust workspace that defines how image codecs, their callers and
byte sources talk to each other. Codecs are *incremental*: a decoder is stepped
with a run of input bytes, takes a prefix of it, and reports rows, metadata, a
request for other bytes, a pause for a decision, or the end. Around that
contract lie drivers that own the input, adapters that own the sink, a runtime
that lets a codec be written as an `async` block, and an allowance that bounds
what they allocate together.

The properties worth checking are about the contract: what survives a panic in
a callback, who may be called after an error, which bytes may be lost, whether
a stall is possible. They are spread over several parties that call each other
in orders no unit test enumerates.

## The system

| Part | State it keeps | Operations | Talks to | What makes it correct |
| --- | --- | --- | --- | --- |
| Storage budget (`src/src/storage.rs`) | byte and object counters, shared by all threads | `prepare_filled`, `allocate`, `freeze`, `clone`, `slice`, drop | every component that allocates | counters exact and within limits under every interleaving; charge outlives payload |
| Coroutine input store (`zencodec-coroutine/src/{input,admitted_input}.rs`) | byte ranges under a cap, as a map of segments or a packed index | `feed`, `release`, `release_before`, `clear`, `try_read`, `missing_into` | coroutine decoder | both layouts are one map from offsets to bytes; refusals change nothing |
| Coroutine decoder (`zencodec-coroutine/src/{decoder,context}.rs`) | state, pending rows, details, and `Shared`: boundary, reply, adopted facts, requests, rows, metadata, info | `step`, `step_controlled`, `resume`, `take_details`; the author's `CoroutineContext` calls | driver above, codec author inside, sink below | terminal ends, no poll of a finished future, adoption before output, rows complete and in order, details on success only |
| Boundaries (`src/src/traits/control.rs`) | process-wide identity counter, facts, guarded sink | `DecodeBoundary::new`, `permits`, sink calls | decoders, drivers | a reply fits one boundary once; a swallowed sink error surfaces |
| `Fused` (`src/src/traits/incremental.rs`) | Running, Suspended, Done, Failed around any native decoder | `step`, `step_controlled`, `resume`, `take_details` | drivers, native decoders | the termination rules hold for a decoder that breaks them |
| Blocking drivers (`zencodec-io/src/{stepper,drive,window,pump}.rs`) | window of unread bytes, prefetched ranges, position | one `ByteStepper` over `SliceCursor`, `ReadCursor`, `ReadAtCursor` | sources, decoders | every request is answered by the right bytes or an error; nothing consumed is offered again |
| Read admission (`zencodec-io/src/admission.rs`) | none: limits and operators | `select`, `plan`, `copy_requests`, `make_room`, `allocate_ranges` | drivers | what is retained stays within `IoLimits`, and no served range is given up |
| Buffered source (`zencodec-io/src/buffered.rs`) | window or spool over a stream, end probe | `read_at`, `len` | drivers | bytes returned are those of the source; the end is detected once |
| Async drivers (`zencodec-io/src/tokio_io.rs`) | a decode thread, two channels of capacity one, a completion one-shot | `decode_async`, `pull_decode_on_thread`, `ChannelRowSink` | executor, blocking threads | no side waits for ever; cancellation reaches both |
| Media sessions (`zencodec-media/src/session.rs`) | `failed` around a native decoder or encoder | `configure`, `send`, `receive`, `end_input`, `reset`, the pump loops | native codecs, applications | a failed session is reopened only by a reset that succeeds; backpressure loses nothing |
| Media staged output (`zencodec-media/src/{staged,staging,output}.rs`) | encoder, stored packets, prepared muxer and destination, bytes emitted | `push_converted`, `with_policy_set`, `finish`; `publish`, `send`, `finish` | sessions, destinations | nothing written before the encoder is done; what is written is the header and the packets in order; failures report what was written |
| Encoding, operations, image types, metadata parsing, rendering | values and plans | pure functions, mostly | everything | not modelled, see the end |

What is hard here: calls that unwind out of the middle of a step (author and
sink are foreign code, and a caller may catch the panic); state taken out of a
lock and put to use after a callback; a batch that takes several steps to
leave; facts set, adopted and changed by different parties; replies that are
stale or duplicated; a store at its cap; two counters raised by racing threads;
a cache of buffers that are swapped, adopted, reused and given up while an
index into them is live; a thread and a future that wait for each other.

## Modules

| Module | Models | Lines of the code |
| --- | --- | --- |
| `StorageBudget` | the budget, one atomic memory operation per step | `storage.rs` |
| `StorageBudgetProofs` | its theorems | |
| `ByteStore` | the promise of an input store: a partial map from offsets to bytes | (abstract) |
| `AdmittedInput` | the packed store, as operators on a record of spans and payload | `admitted_input.rs` |
| `InputStore` | the segment map, and both layouts driven by the same calls | `input.rs` |
| `InputStoreProofs` | the packed store, the segment map, and the store's theorems | |
| `CoroutineDecoder` | driver, author, sink and decoder | `decoder.rs`, `context.rs`, `control.rs` |
| `CoroutineDecoderProofs` | its theorems | |
| `CoroutineInput` | reads, absorption of input, and the rules drivers follow | `decoder.rs`, `context.rs`, `window.rs`, `incremental.rs` |
| `CoroutineInputProofs` | its theorems | |
| `DecodeContract` | what a controlled incremental decoder promises | (abstract; `incremental.rs`, `control.rs` rules) |
| `Fused` | `Fused`, its guarded sink, and a native decoder that breaks the rules | `incremental.rs`, `control.rs` |
| `FusedProofs` | its theorems | |
| `InputWindow` | the input buffer all drivers share, and the checks of a request, as operators | `window.rs` |
| `Admission` | limits, the plan of a round, its allocations, as operators | `admission.rs` |
| `BufferedSource` | random access over a stream, window and spool, as operators | `buffered.rs` |
| `Drivers` | the slice, random-access, stream and async cursors around any stage | `stepper.rs`, `tokio_io.rs` |
| `DriversProofs` | the theorems of `Drivers`, with what its windows, plans and buffered sources promise | |
| `PullBridge` | the decode thread, the bridge future, the strip channel, cancellation | `tokio_io.rs` |
| `PullBridgeProofs` | its theorems | |
| `MediaSession` | `FusedDecoder` and `FusedEncoder` around any native session, as operators | `session.rs` |
| `StagedEncode` | a finite encode: push, store, finish, publish | `staged.rs`, `staging.rs`, `output.rs` |
| `Transcode` | the pump loops, composed with a decoder and a staged encode | `session.rs` |
| `TranscodeProofs` | its theorems | |
| `MC...` | the instances TLC checks | |

### StorageBudget

A request is one `prepare_filled` and all that becomes of its result; its `pc`
is the place of its thread. `reserve` takes an object slot by a load and a
compare-exchange loop (`LoadObjects`, `SwapObjects`), then bytes in the same way
(`LoadBytes`, `SwapBytes`); a byte refusal goes through `Rollback`. The
`Reservation` then lives through `prepared`, `owned` and `shared`; the drop of
the last owner frees the payload first (`DropLast`: fields drop in declaration
order) and then the bytes and the slot, two atomic subtractions
(`ReleaseBytes`, `ReleaseObject`) that wrap as `usize` does.

### ByteStore, AdmittedInput, InputStore

`ByteStore` says what each call may do: `call` holds its name, offset, length and
version, and the step is determined by them (`ByteCall`). `InputStore` has both layouts, the map `segments` and the record `store`, and
`admitted` says which one is in use: `InputStore::new` or `with_storage` decides it,
and only `clear` goes back to segments, as in the code. Every call names an
offset, a length and a *version*: bytes fed again with another content tell the
copy kept from the copy refused. `ImplementsByteStore` is the refinement, call for call:
`call` and `result` are the same variables on both sides. A feed stores the first
contiguous piece of its own range that was missing, as far as there is room, never
overwrites, and counts what the map would; a release forgets every byte of its
range and no other; a refusal changes nothing, and comes only of a range beyond the
address space or of a call that would leave more runs than the index has slots.
`release_before` and `clear` are never refused. `call` is history: no action reads it. `WellFormed` is the shape each layout's lookups rely on.
The code's scan of a release, segment by segment from the last one down, is one
set comprehension (`Fronts`, `Back`): of disjoint segments it visits each one that
the release touches, once.

### CoroutineDecoder

A step is cut into actions wherever it calls foreign code: the author's future
(`pc = "poll"`), `sink.begin` (`"begin"`), `sink.accepts_provisional` right after it
(`"accepts"`; only when that has returned is `begun` set), the row buffers (`"deliver"`),
`sink.finish` (`"closing"`). Each such call may succeed, fail, or unwind to a
caller that catches the panic and calls again. Between two suspensions the
author may call anything `CoroutineContext` offers in any order, including
what its documentation warns of: a write that is polled once and dropped,
facts changed after adoption, a return with output left behind. `Settle...`
are the branches of `advance` after the poll, in the code's order: recorded
violation, the future's error, cancellation, then one event, boundary before
rows before metadata before requests. `Leave` is every exit with the cleanup
guard of `decoder.rs:70`. `sink`, `touched`, `written`, `delivered`,
`adoptedInfo`, `beganWith`, `issued`, `last` and `unwound` are history; `issued` is the set
of boundary identities given out, so that `BoundaryHolds` can say that none is given
out twice; `written` is the
sequence of all rows the author deposited.

Widths and heights are one number `size` (the code only compares them), a
colour stands for everything `ImageInfo` says beside it, and a batch is a count
of rows. Whether a read is satisfied is a Boolean here; the bytes are
`CoroutineInput`'s.

### CoroutineInput

The store is a set of held offsets under `Cap`. A driver offers any run of the
source; `Offer` is `absorb` before the first poll, `NeedMore` the absorption of
the same input again after a `Need`. A read has spans; `Requests` names their
gaps, or for a sequential read one request for its tail. `read_many_at` takes any
list of spans, overlapping or not and in any order. `CheckNeed` is the
check the real drivers make of a `Need` (`window.rs:228`). Three uses are told
apart: a stream read forward, random reads that fit the store together, and
anything else (`mixed`), of which the stall run shows that the code stalls.
In a random read the spans together fit the cap. `TakenIsKept` says that what was
asked for and counted as consumed is stored; of reads of three spans or more it
speaks only where none reaches into an earlier one from below (`InOrder`), as the
run `coroutine_lost` refutes the rest (`ConsumedIsKept`).
The absorption returns the one element of a set so that TLC evaluates it once.

### DecodeContract, Fused

`DecodeContract` says what stepping a controlled decoder may look like: open,
suspended, done, failed; output and success only after adopted facts, which are
final; a boundary that waits for a reply. Two modules implement it.
`CoroutineDecoder` does on its own, with `Phase` as the refinement mapping: a
call in progress is open. `Fused` does for a native decoder of which nothing is
assumed: between the entry of a call (`Enter`, state `Failed`, as the code sets
it before it delegates) and its return, the native decoder calls the sink in any
way, issues boundaries (`Issue`) or keeps copies of old ones (`DecodeBoundary`
is `Copy`, with private fields), and then returns anything, fails or panics.
`SinkForwards`, `SinkRefuses` are `GuardedSink`; the branches after the native
call are `GuardFails`, `NativeFails`, `RowsReturn`, `DoneReturns`,
`BoundaryReturns`, with the code's priority: the guard's refusal or retained
sink error, then the native error, cancellation, and the checks of the event. A
copied boundary keeps its identity, so one reply identity may be accepted twice
when a native decoder returns the same boundary twice: `AdoptsWhatWasNamed` says
what still holds then. `answer`, `ended`, `effects`, `hurt`, `asked` and `made`
are history.

### InputWindow, Admission, BufferedSource, Drivers

A byte of the source is named by its offset, so a buffer shows whether it holds
what its address says, and memory no read has filled is `Zero`. `InputWindow`
keeps the whole buffer of the code, the cells behind the held bytes included:
compaction, growth, and the reuse of an allocation leave old bytes there, and
`OfferIsSource` would see them. A capacity is exactly what was asked for. A
`BufferedReadAt` is a record; an operation on it is a fold over the calls its
reader serves, which may fail at any of them, and what it had read by then
stays.

`Drivers` runs one cursor, named by `driver`. `pc` is `step` while the stage
runs and `serve` while its requests are served; stream and async cursors read
in a loop (`skip`, `fill`), so that each read may fail, or the future be
dropped, with the bytes of the earlier ones in the window. `Needs` checks the
requests (`NeedAllowed`) against the offer before the bytes are taken, as the
code does; `ServeHeld` ... `ServeLen` are the branches of `ReadAtCursor::serve`.
The async cursor goes through the same branches, but adopts a fetched range as
its window (`Hand`), and `decode_async` serves a copied part of the list
(`Kept`). `goal` remembers a request reported as served until the next step. The
stage takes any prefix, may claim a byte too many, and asks for anything in
`RequestLists`; an image drive is one such stage.

### PullBridge

Each channel operation, and each check of the pulse, is an action. Requests are
numbered, so a reply that answers another request is visible. The decoder may
read or push rows in any order and go on after an error; `RunEnds` covers a
return, a panic and an executor that drops the job. `Collect` may happen in
both `select!`s and is preferred (`biased`): `Receive` and `Serve` require that
no result is there. `DropFuture` is the caller dropping the future at any await.
There are two pulses: `pulse` is the one the reads check, given to
`pull_decode_on_thread`; `stripPulse` is that of the `ChannelRowSink`, which has none
unless `with_pulse` gives it one. Without one, `send` is a `blocking_send`, which ends
only when the consumer makes room or goes. An application that passes one pulse to both
is the case where both are cancelled. `Released` says what frees whom: a hanging
source, the pulse of the reads or the drop of the future; a stalled consumer, the pulse
of the sink or the end of the consumer. A cancelled decode whose sink has no pulse and
whose consumer stalls keeps its thread, and its future, for ever; so does one whose
future was dropped keep its thread.

A pulse, once cancelled, is assumed to stay so: `Pulse` comes from the `how_far`
crate, outside the repository. With a pulse that recovers, a thread could take a
late reply to a read it gave up; that is not modelled.

### MediaSession, StagedEncode, Transcode

A native session keeps its items in order and may do anything else: answer
`ReceivePending` without reason, end early, fail or unwind at any call, after
which it is `dirty`, and `misused` records that it was called in that state.
`Guard` is the guard of both fused wrappers. `StagedEncode` is one actor, cut
where the code calls foreign code (policy, converter, encoder, store, muxer,
writer); any of these calls, and any check of the pulse, may fail, and the
encoder and the converter may unwind. `publish` is modelled to the byte the
destination takes: `Write` moves some bytes of what is pending, `Counts` the
output's statistics, `Written` the copy that `finish` keeps of them
(`staged.rs:477,480`). `Transcode` puts an application in front: it pumps
packets through a `FusedDecoder`, pushes every frame, retries what was not
accepted, resets the decoder at any time, and finishes. `kept` and `admitted`
are history: the packets the decoder took since it was last reset, and the
frames the encoder accepted.

## Runs

| Run | Expect | Shows |
| --- | --- | --- |
| `storage_budget` | pass | 107,686 states (up to symmetry): exact accounting and limits for three racing requests |
| `input_store` | pass | 9,120 states, 1.4 million calls: both layouts refine the byte map call for call, their queries agree |
| `coroutine_decoder` | pass | 2,050,832 states: the decoder's contract against a hostile author, driver and sink, and that it implements `DecodeContract` |
| `coroutine_panic` | violation | an unwinding `sink.begin` or `accepts_provisional` leaves a decoder that is not terminal and has lost a batch (`zencodec-coroutine/README.md:42-43`) |
| `coroutine_input` | pass | 71,381 states: reads, requests and the protocol check, and that every read ends |
| `coroutine_lost` | violation | `read_many_at` of three overlapping spans: a byte that was asked for is consumed and not stored (`incremental.rs:30-33`) |
| `coroutine_stall` | violation | `read_many_at` whose spans exceed the cap together: `Need` with nothing consumed for an input that satisfies a request (`incremental.rs:49-52`) |
| `fused` | pass | 18,054 states: the contract holds around a native decoder that breaks every rule |
| `drivers` | pass | 334,029 states: every cursor offers the source's bytes, keeps its limits and serves what it says it served |
| `drivers_total` | violation | a read past the end makes the driver tell a false total length (`incremental.rs:197`) |
| `pull_bridge` | pass | 414,408 states: replies match, strips arrive whole, and nobody waits for ever once what he waits for moves or its pulse is cancelled |
| `transcode` | pass | 8,879 states: nothing lost under backpressure, output whole and in order, failures report what was written, no failed session reused |

### Bounds, and why they are enough

- `storage_budget`: three requests, two slots, three bytes, a word of 0 to 7.
  Two requests can fill the budget while a third is refused for slots or for
  bytes; a size that never fits rolls back every time; the empty allocation
  takes a slot; a size above `isize::MAX` is refused before admission; any
  double release would wrap the small word. `MaxViews` bounds the clones of one
  allocation. Theorems cover all other values.
- `input_store`: six offsets, four bytes of room, two spans. Holes, merges on
  either side, refills inside a hole, splits, a full payload and a full index
  all occur; a third span would only repeat the shift of the second. States are told
apart without `call` (`StoreView`), which nothing but the refinement reads: every
state is still left by every call, and each such step is compared with `ByteStore`
under its own arguments.
- `coroutine_decoder`: two images of one size, results of two sizes, final and
  provisional facts, a batch of two rows delivered in two strips and a
  provisional batch of another size, four rows (`MaxWritten`, two batches), two identities
  before the counter is exhausted (`MaxId`), one byte per input (`MaxOffer`),
  one row per buffer (`MaxBuffer`). Two batches are needed for one to be
  replaced or left behind; two identities for a reply to a boundary that is gone.
- `coroutine_input`: four bytes, a cap of two, reads of up to four bytes, their
  spans together (longer than the cap, past the end; `MaxLen`). `MaxReads` bounds the
  author: it is what its spans, seeks and calls of `len` add up to, here three (a
  read, a seek, a read; a read of one span and one of two; one of three). An empty
  `read_many_at` costs one. The theorems have no bound on spans.
- `coroutine_lost`: the same with a cap of four, as the three spans of a lost byte fit
  the store; `coroutine_stall`: five bytes and two spans that do not fit it.
- `fused`: final facts of two heights and provisional ones, results and sink
  calls that fit one of them or none, two boundaries before the identities run
  out. Two kinds of final facts are needed for a later boundary to change what
  was adopted, two identities for a reply to name the wrong one.

- `drivers`: a source of five bytes, limits of four, a stream window of three,
  reads of two. Requests are shorter and longer than a read, than what is held
  and than the limits; ranges overlap, touch within the gap or are apart; one
  round fills the cache so that the next must give it up; lists name a second
  choice. Reads may be disabled (`InFlights` has 0), batches hold two ranges.
  One `BufferedReadAt` keeps a single byte, and one is a spool of exactly the
  source's size, where the probe for the end decides.
- `drivers_total`: the same instance.
- `pull_bridge`: three reads, two strips, a strip channel of one. A second read is
  needed for a late reply to reach the wrong one, a second strip for one to be
  lost between two others.
- `transcode`: three packets, sessions that hold two, a store of two, two bytes
  a packet. The store overflows, both sessions push back, and a write may stop
  inside a packet.

Deadlock is checked except where the system stops: in the `CoroutineInput` runs,
where an author that returned or failed is the end of the behaviour; in
`pull_bridge`, when the thread is gone and the future is over; in `transcode`,
where `finish` consumes the operation.

### Fairness

`coroutine_input` and `pull_bridge` assume some. In `coroutine_input`, `WF` of the steps inside a call: `step` is
an ordinary function that runs once called. `SF` of `OfferServing`: a driver may
offer other bytes as often as it likes, but again and again answers one of the
requests, as the loops of `stepper.rs` do (they fetch what `requested` names,
or end with an error, which ends the drive). Nothing is assumed of the author:
it may stop calling, and `ReadsComplete` speaks of a read that is outstanding.

In `pull_bridge`, `WF(Decode)` says that the operating system runs the decode
thread (its polling loops sleep at most 2 ms between attempts) and that the codec
between two calls goes on; its calls are finite. `WF(Drive)` says that the
executor polls the future when a channel wakes it. `WF(Serve)` and `WF(Consume)`
hold only in behaviours where the source does not hang and the consumer does
not stall (`hangs`, `stalls` are chosen at the start): `Released` must hold without the
first once the pulse of the reads is cancelled or the future dropped, and without the
second once the pulse of the sink is cancelled or the consumer gone.

## Proofs

`StorageBudgetProofs` proves, for any finite set of requests and any limits and
sizes that satisfy `BudgetAssumption`:

- `Typing`: `Spec => []TypeOK`;
- `ExactAccounting`: `Spec => []Accounting`;
- `LimitsHold`: `Spec => []WithinLimits`;
- `PayloadCharged`: `Spec => []PayloadWithinCharge`.

The inductive invariant `IInv` joins the type, the accounting, the limits and
where payloads may be (`PayloadPlaces`). None is inductive alone. A subtraction
keeps the counter exact only if it does not wrap, which needs the accounting
itself: the request that gives back is one of those counted. The limits follow
from the compare-exchange, which succeeds only on the value that was checked;
the payload property needs to know that a payload exists only where the
reservation is held. Sums over requests are cardinalities of a set of tokens
(one per byte), so that the lemmas `TokensOfAdd`, `GiveBackObject` and
`GiveBackBytes` rest on the library's facts about finite sets rather than on an
induction. TLC checks `IInv`'s parts first, on the small instance.

`FusedProofs` proves every property of the run `fused`, for any facts, results
and sink calls of the types the code gives them (`FusedAssumption`), any number of boundaries and any
behaviour of the native decoder: `Typing`, `OutputGated`, `FailureSurfaces`,
`AdoptionNamed`, `NativeStopped`, and `Implementation`:
`Spec => ImplementsContract`. Its `IInv` adds to the type invariant and
`SinkGated` what connects the parts: a boundary in hand is one that was issued
and repeats the adopted facts (`BoundaryIssued`), a call in progress keeps what
its entry checked (`CallAdmitted`), adopted facts are final (`AdoptedFinal`), a
failed sink call is latched in the guard and then in the state (`HurtLatched`),
and an end leaves the decoder idle (`EndedIdle`). One lemma per conjunct has one
step per action. The refinement needs them: adoption maps to the contract's
`Reply` only because the boundary taken out by `resume` is still the one its
entry checked, and `BoundaryReturns` to `SuspendAt` because facts do not change.

`CoroutineDecoderProofs` proves every property of the run `coroutine_decoder`,
for any image, facts, batches and number of boundaries that satisfy
`CoroutineAssumption`. Five inductive invariants share the work. `ControlInv`
adds to the type which places mean a live and which a finished future: without
it a poll in `Running` need not find one, so `Terminal` and `FutureNotRepolled`
do not follow. `AdoptionInv` says that adopted facts stand (a change since then
is recorded as a failure) and that what waits for the sink agrees with them:
`AdoptionGatesOutput` speaks only of what has arrived, and a batch is compared
when it is deposited, several steps before. `SinkInv` ties where the sink is to
where the call is: between `sink.begin` and the note of it, in `accepts`, the sink has
begun and the decoder does not know it, and a decoder that is past that place without
the note has seen an unwind, which is why `SinkProtocol` allows a second `begin` only
then. `BoundaryHolds` needs that every identity issued is below the counter.
`ResultInv` keeps what `finish` compared true until the sink was finished. `RowInv` accounts for every row: written is delivered and what is
still outstanding, which is in the author's slot, in hand or pending;
`StripsInOrder` is its shadow at the end. `Implementation` shows step by step that
`DecodeContract` is implemented under `Phase`.

`CoroutineInputProofs` proves the safety of `coroutine_input` for any source, cap and
lengths: `LackIsNamed` and `StreamGoesForward` for all uses, `ConsumedIsStored` under
the condition of `TakenIsKept`, since the run `coroutine_lost` refutes the rest, and
`NeedsAreAllowed` under `Uses \subseteq {"stream", "random"}`, since the run
`coroutine_stall` refutes it for the third. What a step takes from its input is a
fold over the requests, and no installed prover can instantiate the library's
induction theorems. `LeastNumber`, the least-number principle, is drawn from the
well-foundedness of `<` on `Nat` and has a set in the operator's place; a fold is
described by its `Course`, the sequence of its intermediate results, and a claim
about all of them is proved by looking at the least index where it fails.
`ConsumedIsStored` compares two such runs, the absorption before the first poll and the
one after a `Need`. The requests of a read are the gaps of its spans joined together,
for any number of spans: `FlattenSteps` gives the joined list span by span, and
`RequestsOwned` that each request belongs to a span and each gap of a span is among the
requests. Nothing asked for is lost as long as no `Range` ends the loop early, which
`InOrderKeepsTaken` shows when no span reaches into an earlier one from below: the next
byte held is then never met inside a request, and room for the rest of the read is left.
For two spans in any order (`TwoSpansKeepTaken`) the loop may end early in the second,
but what that still lacks then lies behind all that was taken.

The invariants: `InputInv` says what the requests are in terms of spans and store (they are computed once and used after the store has
changed), `StreamInv` and `RandomInv` what the store can hold, which is why what is
asked for fits, and `Fruitless` what an input that moved nothing failed to satisfy.

`PullBridgeProofs` proves `AnswersMatch` and `StripsDelivered` for any number of
reads and strips and any channel capacity. `OneInFlight` is the argument: while the pulse is live,
a waiting thread's request is in exactly one of the channels and the hands of the
bridge, and any other thread's in none. It does not hold after a cancellation, and
need not, as the thread then takes no reply.

`TranscodeProofs` proves the four properties of
`transcode` for any number and size of packets, sessions and stores and any
native sessions. `NativeNotReused` needs that a dirty session is a failed one
(`Trusted`); `NothingLost` that a frame taken out of its place is in exactly one
other (the stages of a push and the retry loops); `EmittedIsWritten` and
`OutputFollowsEncoder` that the destination, what it has not taken and what the
muxer holds are the header and the packets written so far (`StreamOf`). The last
is about concatenations of sequences whose length is arithmetic in the size of a
packet.

`InputStoreProofs` proves the four properties of
`input_store` for any cap, number of spans, address range and versions. The
inductive invariant `IInv` is the form of both layouts. `Packed` says that the spans
are sorted and apart, lie end to end in the payload, and that each byte is the
one of its offset; the last part is what `WellFormed` lacks, and what makes the
lookup of an offset by its span right after the payload has moved. `Counted` says
that segments are disjoint, filled with the bytes of their offsets and counted.
A feed of the packed store inserts a run and shifts, merges or extends spans in
four ways; all four are one shape (`Woven`: the spans below, one that holds the
new run, the spans above moved up), so the byte-for-byte argument is made once.
A release is a concatenation of the pieces of each span (`Leaves`, span by
span) and a compaction (`CompactedPacked`). Both layouts then become a byte map
(`PackedMap`, `SegmentMap`), where one account of a feed and one of a release
(`Feeds`, `Forgets`) are what `ByteStore` allows. `QueriesAgree` rests on `GapsAre`,
about the maximal runs of any set of offsets, and on `RunBegins`: the next start
behind an offset that is not held is the next offset held.

`DriversProofs` proves the four properties of `drivers` for any length of the source,
limits, stage and lists of requests, and any reads that answer short or fail:
`TypesOK`, `OfferedIsTheSource`, `RetentionIsLimited` and `ServedAsAsked`. It assumes
that an unknown length and an absent range are not numbers (`AbsentIsNothing`), that limits are natural
numbers (`LimitsAreNaturals`), that capacities and chunks are the sizes the
constructors accept (`OptionsAreSizes`), and that a request list is one a stage can
pass (`CallersAreReal`). The inductive invariant `IInv`:

- `Stored` says that the window and every fetched range hold the bytes of their own
  offsets. The offer is right only for that reason: a fetched range becomes the window
  (`AdoptOK`), a window is compacted, grown, cut and refilled (`ToFrontOK`, `GrownOK`,
  `ConsumeOK`, `ReadOK`), and a failed call leaves behind what the next starts from.
- `Backed` says the same of what a `BufferedReadAt` keeps, up to its mark, but for the
  one byte a spool has read and could not keep.
- `WithinLimits` is the sum of the allocations, of the window and of all ranges. It is
  kept because what a round allocates is planned before: the plan's lengths add up to
  no more than the limit through selection, insertion in order and merging
  (`AdmitOK`, `InsertOK`, `MergeOK`, `PlanOK`), and room is made for them first.
- `Reading` says that a request being read for fits the limit and that the window
  starts at it, is on the way to it, or can never get there; `Streaming` that a stream's
  window ends where the stream is and knows a total only at its end. `ServedIsOffered`
  follows from these and not from the last read: several fills may lie before it.
- `Asking` and `Offering` keep goal and offered range among those that exist.

The model's folds are shown to be runs of their steps (`FoldRuns`, then `MergeRuns`,
`FillRuns`, `ManyRuns` and so on); what holds after every step of a run is shown at the
least index where it would fail, as above. `Total` is the sum of a list, drawn from the same runs.

TLC checked each of these invariants on its run's instance before it was proved.

Only model-checked: the liveness properties `ReadsComplete` and `Released`, out of
the prover's reach as it has no rules for fairness. The four violation runs state
what is false, so nothing is proved of them.

## Disagreements found

Four violation runs show the code doing other than its documentation says; the
findings in `PROJECT.json` quote the lines. `drivers_total`: `ReadAtCursor` takes
every short read for the end of the source (`stepper.rs:432-434`), so a decoder
that asks past the end of a source of unknown length is told that offset as the
total length. `coroutine_lost`: `absorb` takes every request that is not stored whole
for a full store (`decoder.rs:232-238`), but storing also stops at a byte that is
already held. With `read_many_at` of the spans 2..3, 1..3 and 0..1 (ends excluded) and
an input of the bytes 0 to 2, the first round stores byte 2, the second stores byte 1
and meets byte 2, and the loop ends with room left: byte 0 is never stored, though the
input counts as consumed to 3, and consumed bytes are not offered again
(`incremental.rs:30-33`). A random-access driver reads the byte once more; a driver
that goes forward only reports an error.

Observations without a run. `decoder.rs:34-37` says of a future that returned while
rows or metadata were undelivered that "they go out first, then `Done`". One step takes
one event, rows before metadata (342-345), and the step after the rows goes to `finish`
(314-316), which does not look at `shared.metadata`: of a future that left both, the
announcement is lost. `SettleRows` and `StepFinishing` have this behaviour.
`resume` after `Done` (and a legacy `step` of a controlled decoder that is done)
turns a finished decoder into a failed one; a request list left by a satisfied
`len()` makes an author that awaits a foreign future look as if it needed input
rather than stalled.

## Plan

Done: 1. `StorageBudget` with proofs. 2. The input store with its refinement.
3. `CoroutineDecoder`. 4. `CoroutineInput`. 5. `Fused` with proofs, and
`DecodeContract`, which it and `CoroutineDecoder` implement.

6. The drivers: `InputWindow`, `Admission`, `BufferedSource` and `Drivers`.
7. `PullBridge`. 8. `MediaSession`, `StagedEncode` and their composition
`Transcode`.

Next: the row encoder with its two-phase destination, `adapt.rs`, `read_at_reader.rs`,
the output patches and pull encoding of `src/src`, and `transcode_async`, in place
of the shallower properties.

## Not modelled

Pixel data, strides and conversions; EXIF, ICC, XMP and gain-map parsing; codec
capability tables, policies and negotiation (pure selection, which the
repository's tests enumerate); cost estimates; the row encoder, encode plans and
sinks; `adapt.rs`, `read_at_reader.rs`, `AsyncReadSource` and `transcode_async`;
packet and container types; saturation at 2^64 and statistics in the drivers;
file and network I/O; the test kits and the performance workspace. The weak memory
orderings of the counters are taken as sequentially consistent: each property
concerns single atomic locations and the order of one thread's operations on
them. `InputStore` leaves out the head offset inside a segment, which only
delays compaction.
