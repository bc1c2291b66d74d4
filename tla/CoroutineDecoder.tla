-------------------------- MODULE CoroutineDecoder --------------------------
(***************************************************************************)
(* CoroutineDecoder (src/zencodec-coroutine/src/decoder.rs, context.rs): a *)
(* decoder written as an async block, polled behind the synchronous        *)
(* contract of IncrementalDecode and ControlledIncrementalDecode.          *)
(*                                                                         *)
(* Three parties share the state.  The driver steps the decoder, replies   *)
(* to its boundaries and takes the details.  The author is the codec's     *)
(* future: between two suspensions it may do anything CoroutineContext     *)
(* allows, in any order, including what its docs warn of (a write polled   *)
(* once and not awaited, facts changed after adoption).  The sink answers, *)
(* fails or unwinds at every call.  A step is cut where it calls one of    *)
(* them, so that a failure or a panic there is a step of its own.          *)
(*                                                                         *)
(* Input bytes are InputStore's; here a read is held or not.  `size`       *)
(* stands for width and height, which are only compared.  The cancelled    *)
(* flag is left out: it is set only with State::Failed, after which the    *)
(* futures that read it are never polled.                                  *)
(***************************************************************************)
EXTENDS Integers, Sequences

CONSTANTS
  Infos,      (* ImageInfo: [size, colour]                                 *)
  Outputs,    (* OutputInfo: [size, desc]                                  *)
  Facts,      (* InterpretationFacts: [size, desc, state, unavailable]     *)
  Batches,    (* PendingRows: [size, desc, rows, final]                    *)
  Descs,      (* PixelDescriptor                                           *)
  None,       (* Option::None                                              *)
  MaxId,      (* usize::MAX: boundary identities are 1 .. MaxId - 1        *)
  MaxOffer,   (* bytes in one offered input                                *)
  MaxBuffer,  (* the largest answer of sink.max_buffer_rows                *)
  MaxWritten  (* bound: rows the author may deposit                        *)

ASSUME CoroutineAssumption ==
  /\ None \notin Infos /\ None \notin Outputs /\ None \notin Facts
  /\ None \notin Batches /\ None \notin Descs
  /\ None # "FinalInterpretationChanged"
  /\ \A i \in Infos : {"size", "colour"} = DOMAIN i
  /\ \A o \in Outputs : {"size", "desc"} = DOMAIN o
  /\ \A b \in Batches : b.rows \in Nat \ {0} /\ b.final \in BOOLEAN
  /\ \A f \in Facts : f.unavailable \in BOOLEAN
  /\ MaxId \in Nat \ {0} /\ MaxOffer \in Nat
  /\ MaxBuffer \in Nat \ {0} /\ MaxWritten \in Nat

Notices == {"HeaderReady", "Other"}
Actions == {"ContinueReading", "AdoptInterpretation"}

VARIABLES
  controlled,  (* made by CoroutineDecoder::controlled?                    *)
  state,       (* State: Running, Finishing, Done or Failed                *)
  output,      (* the OutputInfo in Finishing and Done                     *)
  begun,       (* noted: sink.begin and accepts_provisional both returned  *)
  provisional, (* what the sink answered to accepts_provisional            *)
  pending,     (* pending_rows: a batch and the rows of it delivered       *)
  result,      (* details, the decoder's own                               *)
  (* Shared, beside the input store *)
  boundary, reply, adopted, failure, need, rows, metadata, info, details,
  descriptor,
  nextId,      (* the process-wide identity counter of DecodeBoundary      *)
  future,      (* the author's future: live, complete or panicked          *)
  awaits,      (* the context future it is suspended at                    *)
  arrived,     (* is the input it awaits held?                           *)
  pc,          (* where the driver's call is                               *)
  after,       (* what follows sink.begin: rows, metadata or finish        *)
  work,        (* deliver_rows: the batch in hand and rows already out     *)
  back,        (* deliver_rows: the state to restore                       *)
  consumed,    (* bytes of the offered input taken so far                  *)
  (* history *)
  last,        (* what the driver's last call returned                     *)
  sink,        (* what the sink has seen: untouched, begun or finished     *)
  touched,     (* a sink callback that has effects was ever called         *)
  adoptedInfo, (* the image information when its facts were adopted        *)
  beganWith,   (* the geometry and descriptor begin was called with        *)
  written,     (* single rows the author deposited, in order               *)
  delivered,   (* single rows copied into sink buffers, in order           *)
  unwound,     (* did a sink callback unwind?                              *)
  issued       (* the identities of the boundaries issued so far           *)

decoder == <<controlled, state, output, begun, provisional, pending, result>>
adoption == <<adopted, adoptedInfo>>
ids     == <<nextId, issued>>
control == <<boundary, reply, adoption, failure, ids>>
author  == <<future, awaits, arrived>>
local   == <<pc, after, work, back, consumed>>
history == <<last, sink, touched, beganWith, written, delivered, unwound>>
vars == <<decoder, control, need, rows, metadata, info, details, descriptor,
          author, local, history>>

(* No call has returned since the one in progress began.                   *)
InProgress == [outcome |-> "none", consumed |-> 0]

NoWork == [batch |-> None, offset |-> 0]

-----------------------------------------------------------------------------
(* What a call returns.                                                    *)

(* Seeded fault: only a return drops the details, a panic does not.        *)
LeaveOnReturn(s, outcome, taken) ==
  /\ pc' = "idle" /\ state' = s
  /\ last' = [outcome |-> outcome, consumed |-> taken]
  /\ after' = "none" /\ work' = NoWork /\ back' = "none" /\ consumed' = 0
  /\ details' = IF s = "Failed" /\ outcome # "panic" THEN None ELSE details
  /\ result' = IF s = "Failed" THEN None ELSE result
  /\ output' = IF s = "Failed" THEN None ELSE output

(* Leave the driver's call in state s.  DetailsCleanup runs on every exit, *)
(* unwinding ones included, and drops the details of a failed decoder.     *)
Leave(s, outcome, taken) ==
  /\ pc' = "idle" /\ state' = s
  /\ last' = [outcome |-> outcome, consumed |-> taken]
  /\ after' = "none" /\ work' = NoWork /\ back' = "none" /\ consumed' = 0
  /\ details' = IF s = "Failed" THEN None ELSE details
  /\ result' = IF s = "Failed" THEN None ELSE result
  /\ output' = IF s = "Failed" THEN None ELSE output

Fail(error) == Leave("Failed", error, 0)

(* BoundaryAction::permits.                                                *)
Permits(action, f) ==
  \/ action = "ContinueReading" /\ f.state \in {"Pending", "Provisional"}
  \/ /\ action = "AdoptInterpretation" /\ f.state = "Final"
     /\ f.desc # None /\ ~f.unavailable

(* Facts that differ from the image information or the descriptor set.     *)
Disagrees(f) == f.desc # descriptor \/ info = None \/ info.size # f.size

(* Seeded fault: an outstanding boundary forbids output, a missing         *)
(* adoption does not.                                                      *)
ForbiddenAtBoundary == failure # None \/ (controlled /\ boundary # None)

(* check_interpretation: may sink effects happen now?                      *)
Forbidden ==
  \/ failure # None
  \/ controlled /\ (boundary # None \/ adopted = None)

ForbiddenError == IF failure # None THEN failure ELSE "OutputBeforeInterpretation"

HeaderKnown == info # None /\ descriptor # None

(* absorb: how far into the offered input, from `from` on, the outstanding *)
(* requests take bytes, and whether the request awaited is then satisfied. *)
Absorb(from) ==
  /\ consumed' \in (IF need = "input" THEN from .. MaxOffer ELSE {from})
  /\ arrived' \in (IF need = "input" THEN {TRUE, arrived} ELSE {arrived})

Init ==
  /\ controlled \in BOOLEAN
  /\ state = "Running" /\ output = None
  /\ begun = FALSE /\ provisional = FALSE
  /\ pending = NoWork /\ result = None
  /\ boundary = None /\ reply = None /\ adopted = None /\ failure = None
  /\ need = "none" /\ rows = None /\ metadata = None
  /\ info = None /\ details = None /\ descriptor = None
  /\ nextId = 1
  /\ future = "live" /\ awaits = "none" /\ arrived = FALSE
  /\ pc = "idle" /\ after = "none" /\ work = NoWork /\ back = "none"
  /\ consumed = 0
  /\ last = InProgress
  /\ sink = "untouched" /\ touched = FALSE /\ adoptedInfo = None
  /\ beganWith = None
  /\ written = <<>> /\ delivered = <<>> /\ unwound = FALSE
  /\ issued = {}

-----------------------------------------------------------------------------
(* The driver.                                                             *)

Keep == UNCHANGED <<controlled, begun, provisional, need, rows, metadata, info,
                    descriptor, ids, author, sink, touched,
                    beganWith, written, delivered, unwound>>

(* What step (legacy) and step_controlled answer before they reach         *)
(* advance, and what advance answers before it takes input or polls.       *)
StepRefused(legacy) ==
  /\ pc = "idle"
  /\ \/ state = "Failed" /\ Fail("Finished")
     \/ state # "Failed" /\ legacy = controlled
        /\ Fail(IF legacy THEN "UnhandledBoundary" ELSE "NotControlled")
  /\ UNCHANGED <<pending, boundary, reply, adoption, failure>>
  /\ Keep

Advances(legacy) == pc = "idle" /\ legacy # controlled

StepDone(legacy) ==
  /\ Advances(legacy) /\ state = "Done"
  /\ Leave("Done", "Done", 0)
  /\ UNCHANGED <<pending, boundary, reply, adoption, failure>>
  /\ Keep

StepCancelled(legacy) ==
  /\ Advances(legacy) /\ state \in {"Running", "Finishing"}
  /\ pending' = NoWork
  /\ Fail("Cancelled")
  /\ UNCHANGED <<boundary, reply, adoption, failure>>
  /\ Keep

(* An outstanding boundary is answered again: no byte, no sink call.       *)
StepSuspended(legacy) ==
  /\ Advances(legacy) /\ state \in {"Running", "Finishing"} /\ boundary # None
  /\ Leave(state, "Suspended", 0)
  /\ UNCHANGED <<pending, boundary, reply, adoption, failure>>
  /\ Keep

(* Seeded fault: whatever the state.                                       *)
StepPendingAlways(legacy) ==
  /\ Advances(legacy) /\ pending # NoWork
  /\ pc' = "deliver" /\ work' = pending /\ pending' = NoWork
  /\ back' = state /\ state' = "Failed"
  /\ last' = InProgress
  /\ UNCHANGED <<output, result, details, after, consumed, control>>
  /\ Keep

(* The rest of a batch goes out before the producer is polled.             *)
StepPending(legacy) ==
  /\ Advances(legacy) /\ state \in {"Running", "Finishing"} /\ boundary = None
  /\ pending # NoWork
  /\ pc' = "deliver" /\ work' = pending /\ pending' = NoWork
  /\ back' = state /\ state' = "Failed"
  /\ last' = InProgress
  /\ UNCHANGED <<output, result, details, after, consumed, control>>
  /\ Keep

(* The future is complete.  Rows it left have gone out, but an announcement*)
(* beside them may not have: nothing looks at it any more.                 *)
StepFinishing(legacy) ==
  /\ Advances(legacy) /\ state = "Finishing" /\ boundary = None
  /\ pending = NoWork
  /\ pc' = "finish" /\ state' = "Failed"
  /\ last' = InProgress
  /\ UNCHANGED <<output, pending, result, details, after, work, back, consumed,
                 control>>
  /\ Keep

(* Seeded fault: the state stays Running during the poll.                  *)
StepPollRunning(legacy) ==
  /\ Advances(legacy) /\ state = "Running" /\ boundary = None
  /\ pending = NoWork
  /\ Absorb(0)
  /\ pc' = "poll" /\ state' = "Running"
  /\ last' = InProgress
  /\ UNCHANGED <<controlled, output, begun, provisional, pending, result,
                 control, need, rows, metadata, info, details, descriptor,
                 future, awaits, after, work, back, sink, touched,
                 beganWith, written, delivered, unwound>>

(* Take what the outstanding reads need of the input, then poll.  State is *)
(* Failed until the poll has returned, so that a panic there is terminal.  *)
StepPoll(legacy) ==
  /\ Advances(legacy) /\ state = "Running" /\ boundary = None
  /\ pending = NoWork
  /\ Absorb(0)
  /\ pc' = "poll" /\ state' = "Failed"
  /\ last' = InProgress
  /\ UNCHANGED <<controlled, output, begun, provisional, pending, result,
                 control, need, rows, metadata, info, details, descriptor,
                 future, awaits, after, work, back, sink, touched,
                 beganWith, written, delivered, unwound>>

(* The range index is full, or the input's end is not a u64.               *)
StepAbsorbFails(legacy) ==
  /\ Advances(legacy) /\ state = "Running" /\ boundary = None
  /\ pending = NoWork
  /\ Fail("Codec")
  /\ UNCHANGED <<pending, boundary, reply, adoption, failure>>
  /\ Keep

(* Seeded fault: any reply fits the boundary that is outstanding.          *)
ReplyErrorAnyId(id, action) ==
  IF state # "Running" THEN "Finished"
  ELSE IF ~controlled THEN "NotControlled"
  ELSE IF boundary = None THEN "InvalidReply"
  ELSE IF ~Permits(action, boundary.facts) \/ reply # None THEN "InvalidReply"
  ELSE IF Disagrees(boundary.facts) THEN "InconsistentFacts"
  ELSE "none"

(* What is wrong with a reply, in the order resume looks.                  *)
ReplyError(id, action) ==
  IF state # "Running" THEN "Finished"
  ELSE IF ~controlled THEN "NotControlled"
  ELSE IF boundary = None THEN "InvalidReply"
  ELSE IF boundary.id # id \/ ~Permits(action, boundary.facts) \/ reply # None
       THEN "InvalidReply"
  ELSE IF Disagrees(boundary.facts) THEN "InconsistentFacts"
  ELSE "none"

Resume(id, action) ==
  /\ pc = "idle" /\ ReplyError(id, action) = "none"
  /\ boundary' = None
  /\ reply' = [id |-> id, action |-> action]
  /\ IF action = "AdoptInterpretation"
     THEN adopted' = boundary.facts /\ adoptedInfo' = info
     ELSE UNCHANGED adoption
  /\ Leave("Running", "Resumed", 0)
  /\ UNCHANGED <<pending, failure>>
  /\ Keep

(* A stale, invalid or cancelled reply is terminal.                        *)
ResumeRefused(id, action) ==
  /\ pc = "idle"
  /\ \/ state = "Running" /\ Fail("Cancelled") /\ UNCHANGED boundary
     \/ /\ ReplyError(id, action) # "none"
        /\ Fail(ReplyError(id, action))
        /\ boundary' = IF state = "Running" /\ controlled THEN None ELSE boundary
  /\ UNCHANGED <<pending, reply, adoption, failure>>
  /\ Keep

(* take_details yields the details once, of a finished decode only.        *)
TakeDetails ==
  /\ pc = "idle" /\ state = "Done" /\ result # None
  /\ result' = None
  /\ last' = [outcome |-> "details", consumed |-> 0]
  /\ UNCHANGED <<state, output, pending, details, control, local>>
  /\ UNCHANGED <<controlled, begun, provisional, need, rows, metadata, info,
                 descriptor, author, sink, touched, beganWith, written,
                 delivered, unwound>>
-----------------------------------------------------------------------------
(* The author.  Between the start of a poll and the next suspension it may *)
(* call anything; a context future borrows the context, so it awaits one   *)
(* at a time, but may poll one once and drop it (`awaited` is FALSE).      *)

Polled == pc = "poll" /\ UNCHANGED <<controlled, state, output, begun,
            provisional, pending, result, adoption, after, work, back,
            consumed, last, sink, touched, beganWith, delivered, unwound>>

Free == Polled /\ awaits = "none"

(* Poll::Pending at `at`, or on with the poll.                             *)
Suspend(at, awaited) ==
  IF awaited THEN pc' = "suspended" /\ awaits' = at
  ELSE UNCHANGED <<pc, awaits>>

(* After adoption the facts may not change; a change is recorded here and  *)
(* fails the step when the poll returns.                                   *)
FailIf(changed) == failure' = IF changed THEN "FinalInterpretationChanged" ELSE failure

SetInfo(i) ==
  /\ Free
  /\ FailIf(adopted # None /\ info # None /\ info # i)
  /\ info' = i
  /\ UNCHANGED <<pc, awaits, future, arrived, boundary, reply, ids, need,
                 rows, metadata, details, descriptor, written>>

SetDetails(i) ==
  /\ Free
  /\ FailIf(adopted # None /\ info # None /\ info # i)
  /\ details' = i
  /\ UNCHANGED <<pc, awaits, future, arrived, boundary, reply, ids, need,
                 rows, metadata, info, descriptor, written>>

SetOutputDescriptor(d) ==
  /\ Free
  /\ FailIf(adopted # None /\ descriptor # d)
  /\ descriptor' = d
  /\ UNCHANGED <<pc, awaits, future, arrived, boundary, reply, ids, need,
                 rows, metadata, info, details, written>>

Rows(b) == [i \in 1 .. b.rows |-> [batch |-> b, row |-> i - 1]]

(* The rows that stay when another batch is deposited: the author did not  *)
(* let the one that waits go out, and it is replaced.                      *)
Kept == IF rows = None THEN written
            ELSE SubSeq(written, 1, Len(written) - rows.rows)

(* write_rows, polled: refused before adoption, else the batch waits in    *)
(* Shared.                                                                 *)
WriteRows(b, awaited) ==
  /\ Free /\ ~Forbidden
  /\ rows' = b
  /\ written' = Kept \o Rows(b)
  /\ Len(written') <= MaxWritten
  /\ Suspend("write", awaited)
  /\ UNCHANGED <<future, arrived, boundary, reply, failure, ids, need,
                 metadata, info, details, descriptor>>

Announce(update, awaited) ==
  /\ Free
  /\ metadata' = update
  /\ Suspend("announce", awaited)
  /\ UNCHANGED <<future, arrived, boundary, reply, failure, ids, need,
                 rows, info, details, descriptor, written>>

(* interpretation, polled first: a fresh boundary.  When it is refused, or *)
(* the facts are adopted already, it returns at once and changes nothing.  *)
Interpret(f, awaited) ==
  /\ Free /\ controlled /\ failure = None
  /\ boundary = None /\ reply = None /\ adopted = None /\ ~Disagrees(f)
  /\ nextId < MaxId
  /\ boundary' = [id |-> nextId, facts |-> f]
  /\ nextId' = nextId + 1 /\ issued' = issued \cup {nextId}
  /\ Suspend("reply", awaited)
  /\ UNCHANGED <<future, arrived, reply, failure, need, rows, metadata, info,
                 details, descriptor, written>>

(* A read, or len().  The bytes may lie in the store already: a sequential *)
(* read takes more than it asks for; and the length may be known.          *)
StartInput ==
  /\ Free
  /\ awaits' = "input" /\ arrived' \in BOOLEAN
  /\ UNCHANGED <<pc, future, boundary, reply, failure, ids, need, rows,
                 metadata, info, details, descriptor, written>>

(* A future of someone else's: pending, and no request recorded with it.   *)
AwaitForeign ==
  /\ Polled /\ awaits \in {"none", "foreign"}
  /\ Suspend("foreign", TRUE)
  /\ UNCHANGED <<future, arrived, boundary, reply, failure, ids, need,
                 rows, metadata, info, details, descriptor, written>>

(* ReadMany::poll and Len::poll.  A satisfied read clears the requests; a  *)
(* satisfied Len leaves its own behind, and a failed read (past the end,   *)
(* or released into a full index) may leave those of the spans before.     *)
InputReady ==
  /\ Polled /\ awaits = "input" /\ arrived
  /\ need' \in {"none", need} /\ arrived' = FALSE /\ awaits' = "none"
  /\ UNCHANGED <<pc, future, boundary, reply, failure, ids, rows, metadata,
                 info, details, descriptor, written>>

InputFails ==
  /\ Polled /\ awaits = "input"
  /\ need' \in {"none", "input"} /\ arrived' = FALSE /\ awaits' = "none"
  /\ UNCHANGED <<pc, future, boundary, reply, failure, ids, rows, metadata,
                 info, details, descriptor, written>>

(* The author may also give up on a read it polled.                        *)
InputWaits(awaited) ==
  /\ Polled /\ awaits = "input" /\ ~arrived
  /\ need' = "input"
  /\ IF awaited THEN pc' = "suspended" /\ UNCHANGED awaits
     ELSE awaits' = "none" /\ UNCHANGED pc
  /\ UNCHANGED <<future, arrived, boundary, reply, failure, ids, rows,
                 metadata, info, details, descriptor, written>>

(* What was awaited is ready: the rows or the update were taken, or the    *)
(* foreign future woke.                                                    *)
AwaitReady ==
  /\ Polled /\ awaits \in {"write", "announce", "foreign"}
  /\ awaits' = "none"
  /\ UNCHANGED <<pc, future, arrived, boundary, reply, failure, ids, need,
                 rows, metadata, info, details, descriptor, written>>

InterpretReady ==
  /\ Polled /\ awaits = "reply" /\ reply # None
  /\ awaits' = "none" /\ reply' = None
  /\ UNCHANGED <<pc, future, arrived, boundary, failure, ids, need, rows,
                 metadata, info, details, descriptor, written>>

(* The future returns: Ok(OutputInfo), whatever it is, or its error.       *)
ReturnOk(o) ==
  /\ pc = "poll" /\ awaits = "none"
  /\ pc' = "returned" /\ future' = "complete" /\ output' = o
  /\ UNCHANGED <<controlled, state, begun, provisional, pending, result,
                 control, need, rows, metadata, info, details, descriptor,
                 awaits, arrived, after, work, back, consumed, history>>

ReturnErr ==
  /\ Free
  /\ pc' = "raised" /\ future' = "complete"
  /\ UNCHANGED <<awaits, arrived, boundary, reply, failure, ids, need,
                 rows, metadata, info, details, descriptor, written>>

AuthorPanics ==
  /\ pc = "poll"
  /\ future' = "panicked"
  /\ Leave(state, "panic", 0)
  /\ UNCHANGED <<controlled, begun, provisional, pending, control,
                 need, rows, metadata, info, descriptor, awaits,
                 arrived, sink, touched, beganWith, written, delivered, unwound>>
-----------------------------------------------------------------------------
(* The poll has returned: recorded violations first, then the future's     *)
(* error, then cancellation, then the one event this step reports.         *)

Settling == pc \in {"suspended", "returned", "raised"}

Violation ==
  \/ failure # None
  \/ boundary # None /\ rows # None

Event ==
  CASE boundary # None -> "boundary"
    [] boundary = None /\ rows # None -> "rows"
    [] boundary = None /\ rows = None /\ metadata # None -> "metadata"
    [] OTHER -> IF need # "none" THEN "need" ELSE "stalled"

(* What the step takes out of Shared to report, even if it then fails.     *)
TakeEvent ==
  /\ rows' = IF ~Violation /\ Event = "rows" THEN None ELSE rows
  /\ metadata' = IF ~Violation /\ Event = "metadata" THEN None ELSE metadata

Settled == UNCHANGED <<controlled, begun, provisional, pending, control,
                       need, info, descriptor, author, sink, touched,
                       beganWith, written, delivered, unwound>>

SettleFails ==
  /\ Settling /\ TakeEvent /\ Settled
  /\ \/ Violation /\ Fail(IF failure # None THEN failure
                          ELSE "OutputBeforeInterpretation")
     \/ ~Violation /\ pc = "raised" /\ Fail("Codec")
     \/ ~Violation /\ pc # "raised" /\ Fail("Cancelled")
     \/ ~Violation /\ pc = "returned" /\ Event = "boundary"
        /\ Fail("InconsistentFacts")
     \/ ~Violation /\ pc = "suspended" /\ Event = "stalled" /\ Fail("Stalled")

Reports(event) ==
  /\ Settling /\ ~Violation /\ pc # "raised" /\ Event = event
  /\ TakeEvent

SettleBoundary ==
  /\ Reports("boundary") /\ pc = "suspended"
  /\ Leave("Running", "Suspended", consumed)
  /\ Settled

(* The future completed and left nothing: finish at once.                  *)
SettleComplete ==
  /\ Reports(Event) /\ pc = "returned" /\ Event \in {"need", "stalled"}
  /\ pc' = "finish"
  /\ UNCHANGED <<state, output, result, details, after, work, back, consumed,
                 last>>
  /\ Settled

(* Seeded fault: Running, although the future is complete.                 *)
RestingRunning == "Running"

(* State::Running again, or Finishing when the future is complete: what it *)
(* deposited goes out first.                                               *)
Resting == IF pc = "returned" THEN "Finishing" ELSE "Running"

(* Rows in a controlled decoder must have the adopted descriptor and the   *)
(* width of the image.                                                     *)
Inconsistent(b) ==
  controlled /\ (descriptor # b.desc \/ info = None \/ info.size # b.size)

SettleRows ==
  /\ Reports("rows") /\ Settled
  /\ IF Inconsistent(rows) THEN Fail("InconsistentFacts")
     ELSE IF Forbidden THEN Fail(ForbiddenError)
     ELSE IF ~begun /\ ~HeaderKnown THEN Fail("RowsBeforeHeader")
     ELSE /\ work' = [batch |-> rows, offset |-> 0]
          /\ UNCHANGED <<output, result, details, consumed, last>>
          /\ IF begun
             THEN pc' = "deliver" /\ back' = Resting /\ state' = "Failed"
                  /\ UNCHANGED after
             ELSE pc' = "begin" /\ after' = "rows" /\ state' = Resting
                  /\ UNCHANGED back

SettleMetadata ==
  /\ Reports("metadata") /\ Settled
  /\ IF ~controlled /\ metadata = "HeaderReady" /\ ~begun /\ HeaderKnown
     THEN /\ pc' = "begin" /\ after' = "metadata" /\ state' = Resting
          /\ UNCHANGED <<output, result, details, work, back, consumed, last>>
     ELSE Leave(Resting, "Metadata", consumed)

(* The same input may hold what is now asked for: take it and poll again   *)
(* rather than send the driver back for bytes it offered.                  *)
SettleNeed ==
  /\ Settling /\ ~Violation /\ pc = "suspended" /\ Event = "need"
  /\ UNCHANGED <<rows, metadata>>
  /\ \/ /\ Absorb(consumed) /\ consumed' > consumed
        /\ pc' = "poll" /\ state' = "Failed"
        /\ UNCHANGED <<output, result, details, after, work, back, last>>
     \/ Leave("Running", "Need", consumed) /\ UNCHANGED arrived
     \/ Fail("Codec") /\ UNCHANGED arrived
  /\ UNCHANGED <<controlled, begun, provisional, pending, control,
                 need, info, descriptor, future, awaits, sink, touched,
                 beganWith, written, delivered, unwound>>

-----------------------------------------------------------------------------
(* The sink.  Each call may succeed, fail or unwind.                       *)

Untouched == UNCHANGED <<controlled, control, need, rows, metadata, info,
                         descriptor, author, written>>

(* A sink error is terminal.  After an unwind the state is what it was.    *)
SinkRefuses == Fail("Sink") /\ UNCHANGED unwound
SinkUnwinds == Leave(state, "panic", 0) /\ unwound' = TRUE

(* sink.begin, from begin_if_ready.  The decoder does not note yet that it *)
(* returned.                                                               *)
Begin ==
  /\ pc = "begin"
  /\ pc' = "accepts" /\ sink' = "begun" /\ touched' = TRUE
  /\ beganWith' = [size |-> info.size, desc |-> descriptor]
  /\ UNCHANGED <<state, output, result, details, after, work, back, consumed,
                 last>>
  /\ UNCHANGED <<begun, provisional, pending, delivered, unwound>>
  /\ Untouched

BeginFails ==
  /\ pc = "begin"
  /\ touched' = TRUE
  /\ beganWith' = [size |-> info.size, desc |-> descriptor]
  /\ SinkRefuses \/ SinkUnwinds
  /\ UNCHANGED <<begun, provisional, pending, sink, delivered>>
  /\ Untouched

(* Seeded fault: the decoder does not note that begin has run.             *)
BeginForgotten == provisional' \in BOOLEAN /\ UNCHANGED begun

BeginNoted == provisional' \in BOOLEAN /\ begun' = TRUE

(* sink.accepts_provisional, the second call begin_if_ready makes; then    *)
(* the rows or the metadata begin was called for, or the rest of finish.   *)
Accepts ==
  /\ pc = "accepts"
  /\ BeginNoted
  /\ \/ /\ after = "rows"
        /\ pc' = "deliver" /\ after' = "none"
        /\ back' = state /\ state' = "Failed"
        /\ UNCHANGED <<output, result, details, work, consumed, last>>
     \/ after = "metadata" /\ Leave(state, "Metadata", consumed)
     \/ /\ after = "finish" /\ pc' = "closing" /\ after' = "none"
        /\ UNCHANGED <<state, output, result, details, work, back, consumed, last>>
  /\ UNCHANGED <<pending, sink, touched, beganWith, delivered, unwound>>
  /\ Untouched

(* When it unwinds, the sink has begun and the decoder does not know it.   *)
AcceptsUnwinds ==
  /\ pc = "accepts"
  /\ SinkUnwinds
  /\ UNCHANGED <<begun, provisional, pending, sink, touched, beganWith, delivered>>
  /\ Untouched

(* The rows one buffer of the sink takes.                                  *)
Strip(most) ==
  LET left == work.batch.rows - work.offset
  IN IF most <= left THEN most ELSE left

Copied(count) == [i \in 1 .. count |->
  [batch |-> work.batch, row |-> work.offset + i - 1]]

(* Seeded fault: one row is skipped between two strips.                    *)
RemainingSkips(count) ==
  IF work.offset + count < work.batch.rows
  THEN [work EXCEPT !.offset = @ + count + 1] ELSE NoWork

(* What is left of the batch stays with the decoder.                       *)
Remaining(count) ==
  IF work.offset + count < work.batch.rows
  THEN [work EXCEPT !.offset = @ + count] ELSE NoWork

(* deliver_rows: one strip of the batch into one buffer of the sink.       *)
Deliver(most) ==
  LET count == Strip(most)
  IN /\ pc = "deliver" /\ ~Forbidden
     /\ work.batch.final \/ provisional
     /\ touched' = TRUE
     /\ delivered' = delivered \o Copied(count)
     /\ pending' = Remaining(count)
     /\ Leave(back, "Rows", consumed)
     /\ UNCHANGED <<begun, provisional, sink, beganWith, unwound>>
     /\ Untouched

DeliverFails ==
  /\ pc = "deliver"
  /\ IF Forbidden THEN Fail(ForbiddenError) /\ UNCHANGED <<touched, unwound>>
     ELSE IF ~work.batch.final /\ ~provisional
     THEN Fail("Sink") /\ UNCHANGED <<touched, unwound>>
     ELSE touched' = TRUE /\ (SinkRefuses \/ SinkUnwinds)
  /\ UNCHANGED <<begun, provisional, pending, sink, beganWith, delivered>>
  /\ Untouched

(* Seeded fault: only the dimensions of the details are compared.          *)
SizeDisagrees ==
  \/ details # None /\ details.size # output.size
  \/ controlled /\ adopted # None
     /\ (adopted.size # output.size \/ adopted.desc # output.desc)

(* Seeded fault: the result is not compared with what was adopted.         *)
DetailsDisagree ==
  details # None /\ \/ details.size # output.size
                    \/ adopted # None /\ info # None
                       /\ info.colour # details.colour

(* finish: the result and the details must be the image that was adopted.  *)
ResultDisagrees ==
  \/ details # None /\ \/ details.size # output.size
                       \/ adopted # None /\ info # None
                          /\ info.colour # details.colour
  \/ controlled /\ adopted # None
     /\ (adopted.size # output.size \/ adopted.desc # output.desc)

Finish ==
  /\ pc = "finish"
  /\ IF ResultDisagrees THEN Fail("InconsistentFacts")
     ELSE IF Forbidden THEN Fail(ForbiddenError)
     ELSE /\ UNCHANGED <<state, output, result, details, work, back, consumed,
                         last>>
          /\ IF ~begun /\ HeaderKnown THEN pc' = "begin" /\ after' = "finish"
             ELSE pc' = "closing" /\ UNCHANGED after
  /\ UNCHANGED <<begun, provisional, pending, sink, touched, beganWith,
                 delivered, unwound>>
  /\ Untouched

(* The pulse is checked before sink.finish and after it.                   *)
CloseFails ==
  /\ pc = "closing"
  /\ \/ Fail("Cancelled") /\ UNCHANGED <<sink, touched, unwound>>
     \/ begun /\ touched' = TRUE /\ (SinkRefuses \/ SinkUnwinds) /\ UNCHANGED sink
     \/ begun /\ touched' = TRUE /\ sink' = "finished" /\ Fail("Cancelled")
        /\ UNCHANGED unwound
  /\ UNCHANGED <<begun, provisional, pending, beganWith, delivered>>
  /\ Untouched

(* Done: the details become the decoder's own, and supersede info.         *)
Close ==
  /\ pc = "closing"
  /\ touched' = (touched \/ begun)
  /\ sink' = IF begun THEN "finished" ELSE sink
  /\ state' = "Done" /\ pc' = "idle"
  /\ last' = [outcome |-> "Done", consumed |-> consumed]
  /\ after' = "none" /\ work' = NoWork /\ back' = "none" /\ consumed' = 0
  /\ result' = details /\ details' = None
  /\ info' = IF details # None THEN None ELSE info
  /\ UNCHANGED <<controlled, control, need, rows, metadata, descriptor,
                 author, written>>
  /\ UNCHANGED <<output, begun, provisional, pending, beganWith, delivered, unwound>>

-----------------------------------------------------------------------------
DriverNext ==
  \/ \E legacy \in BOOLEAN :
       \/ StepRefused(legacy) \/ StepDone(legacy) \/ StepCancelled(legacy)
       \/ StepSuspended(legacy) \/ StepPending(legacy)
       \/ StepFinishing(legacy) \/ StepPoll(legacy) \/ StepAbsorbFails(legacy)
  \/ \E id \in 1 .. MaxId, action \in Actions :
       Resume(id, action) \/ ResumeRefused(id, action)
  \/ TakeDetails

Deposits ==
  \/ \E i \in Infos : SetInfo(i) \/ SetDetails(i)
  \/ \E d \in Descs : SetOutputDescriptor(d)
  \/ \E b \in Batches, awaited \in BOOLEAN : WriteRows(b, awaited)
  \/ \E update \in Notices, awaited \in BOOLEAN : Announce(update, awaited)
  \/ \E f \in Facts, awaited \in BOOLEAN : Interpret(f, awaited)

Awaits ==
  \/ StartInput \/ AwaitForeign \/ InputReady \/ InputFails
  \/ \E awaited \in BOOLEAN : InputWaits(awaited)
  \/ AwaitReady \/ InterpretReady

Returns ==
  \/ \E o \in Outputs : ReturnOk(o)
  \/ ReturnErr \/ AuthorPanics

StepNext ==
  \/ SettleFails \/ SettleBoundary \/ SettleComplete \/ SettleRows
  \/ SettleMetadata \/ SettleNeed
  \/ Begin \/ BeginFails \/ Accepts \/ AcceptsUnwinds
  \/ \E most \in 1 .. MaxBuffer : Deliver(most)
  \/ DeliverFails \/ Finish \/ CloseFails \/ Close

Next == DriverNext \/ Deposits \/ Awaits \/ Returns \/ StepNext

Spec == Init /\ [][Next]_vars
-----------------------------------------------------------------------------
(* Properties.                                                             *)

IdleStates == {"Running", "Finishing", "Done", "Failed"}

Work == [batch : Batches \cup {None}, offset : Nat]

(* Where the decoder, the author and the driver's call are.                *)
Positions ==
  /\ controlled \in BOOLEAN /\ begun \in BOOLEAN /\ provisional \in BOOLEAN
  /\ state \in IdleStates
  /\ failure \in {None, "FinalInterpretationChanged"}
  /\ need \in {"none", "input"}
  /\ future \in {"live", "complete", "panicked"}
  /\ awaits \in {"none", "input", "write", "announce", "reply", "foreign"}
  /\ arrived \in BOOLEAN
  /\ pc \in {"idle", "poll", "suspended", "returned", "raised", "begin",
             "accepts", "deliver", "finish", "closing"}
  /\ after \in {"none", "rows", "metadata", "finish"}
  /\ back \in {"none", "Running", "Finishing"}
  /\ consumed \in 0 .. MaxOffer

(* What they hold for one another.                                         *)
Contents ==
  /\ output \in Outputs \cup {None}
  /\ pending \in Work /\ work \in Work
  /\ result \in Infos \cup {None} /\ details \in Infos \cup {None}
  /\ info \in Infos \cup {None} /\ adoptedInfo \in Infos \cup {None}
  /\ descriptor \in Descs \cup {None}
  /\ boundary \in [id : 1 .. MaxId, facts : Facts] \cup {None}
  /\ reply \in [id : 1 .. MaxId, action : Actions] \cup {None}
  /\ adopted \in Facts \cup {None}
  /\ nextId \in 1 .. MaxId /\ issued \subseteq 1 .. nextId - 1
  /\ rows \in Batches \cup {None} /\ metadata \in Notices \cup {None}

(* What each program point implies: the state is Failed wherever a         *)
(* callback may unwind into a half-done poll, delivery or finish           *)
(* (decoder.rs:317, 325, 658, 685), and only there.                        *)
Points ==
  /\ pc \in {"poll", "suspended", "returned", "raised", "deliver", "finish",
             "closing"} => state = "Failed"
  /\ pc \in {"begin", "accepts"} =>
       state = CASE after = "finish" -> "Failed"
                 [] after # "finish" /\ future = "complete" -> "Finishing"
                 [] OTHER -> "Running"

(* Type correctness, with the state that each program point implies.       *)
TypeOK == Positions /\ Contents /\ Points

(* Ends are final (incremental.rs:65-67, control.rs:234).  A failed        *)
(* decoder answers Finished to everything and touches nothing; a finished  *)
(* one answers Done with no byte taken and leaves the sink alone, until a  *)
(* misplaced reply or legacy step fails it.                                *)
Terminal ==
  [][/\ pc = "idle" /\ state = "Failed" =>
          /\ state' = "Failed" /\ pc' = "idle" /\ last'.outcome = "Finished"
          /\ UNCHANGED <<sink, touched, delivered, future>>
     /\ pc = "idle" /\ state = "Done" =>
          /\ state' \in {"Done", "Failed"} /\ pc' = "idle"
          /\ last'.outcome = "Done" => last'.consumed = 0 /\ output' = output
          /\ UNCHANGED <<sink, touched, delivered, future>>]_vars

(* A future that returned or panicked is never polled again, whatever was  *)
(* still to be delivered when it did, and whichever callback unwound.      *)
FutureNotRepolled ==
  [][pc # "poll" /\ pc' = "poll" => future = "live"]_vars

(* A controlled decoder has no effect on the sink before final facts are   *)
(* adopted, and begins and writes only what was adopted: even when the     *)
(* author deposits first and asks later, changes the facts in between, or  *)
(* leaves rows behind that go out steps after it returned.                 *)
AdoptionGatesOutput ==
  controlled /\ touched =>
    /\ adopted # None
    /\ beganWith # None =>
         beganWith.size = adopted.size /\ beganWith.desc = adopted.desc
    /\ \A i \in DOMAIN delivered :
         /\ delivered[i].batch.size = adopted.size
         /\ delivered[i].batch.desc = adopted.desc

(* A controlled Done is the image that was adopted: final facts, the sink  *)
(* begun and finished, the result equal to them, and details (whenever     *)
(* they were set, before adoption included) that agree with the image      *)
(* information they were adopted under.                                    *)
ResultIsAdopted ==
  controlled /\ state = "Done" =>
    /\ adopted # None /\ adopted.state = "Final" /\ sink = "finished"
    /\ output.size = adopted.size /\ output.desc = adopted.desc
    /\ info # None => info = adoptedInfo
    /\ result # None => /\ result.size = adopted.size
                        /\ result.colour = adoptedInfo.colour

(* begin returns once, before the first rows; finish comes after begin,    *)
(* once; Done comes after finish, with nothing left over to deliver.  Only *)
(* a sink that has unwound may be begun a second time: when the unwind was *)
(* out of accepts_provisional, begin had returned and is called again.     *)
SinkProtocol ==
  [][/\ sink' # sink => <<sink, sink'>> \in {<<"untouched", "begun">>,
                                             <<"begun", "finished">>}
     /\ pc = "begin" => sink = "untouched" \/ (sink = "begun" /\ unwound)
     /\ delivered' # delivered => sink = "begun"
     /\ state' = "Done" => /\ sink # "untouched" => sink' = "finished"
                           /\ pending = NoWork /\ rows = None]_vars

(* Row by row, the sink gets what the author deposited: in order, every    *)
(* row once, none skipped between strips or lost between the steps that    *)
(* deliver them, all of it before the decoder rests or is Done.  A batch   *)
(* whose sink.begin unwound is lost (see PanicIsTerminal).                 *)
Left(w) == IF w = NoWork THEN 0 ELSE w.batch.rows - w.offset

StripsInOrder ==
  ~unwound =>
    /\ delivered = SubSeq(written, 1, Len(delivered))
    /\ pc = "idle" /\ state # "Failed" =>
         Len(written) = Len(delivered) + Left(pending)

(* Details are extracted of a success only: nothing keeps them once the    *)
(* decoder has failed, by whatever exit, and none are the decoder's own    *)
(* before Done.                                                            *)
DetailsOnSuccessOnly ==
  /\ pc = "idle" /\ state = "Failed" => details = None /\ result = None
  /\ result # None => state = "Done"

(* A boundary stands until the reply that names it, with an action its     *)
(* facts permit: nothing is polled or delivered before, and facts become   *)
(* the adopted ones only then, once.  An identity is issued once, so a     *)
(* reply cannot authorize a later boundary than the one it names.          *)
BoundaryHolds ==
  [][/\ boundary # None /\ pc = "idle" =>
          /\ UNCHANGED <<future, touched, delivered>> /\ pc' = "idle"
          /\ \/ boundary' = boundary
             \/ state' = "Failed"
             \/ /\ reply'.id = boundary.id
                /\ Permits(reply'.action, boundary.facts)
                /\ last'.consumed = 0
     /\ adopted' # adopted =>
          /\ adopted = None /\ boundary # None /\ adopted' = boundary.facts
          /\ Permits("AdoptInterpretation", adopted')
     /\ boundary' # boundary /\ boundary' # None =>
          boundary'.id \notin issued /\ boundary'.id \in issued']_vars

(* Seen from outside, and whatever the author does, this is a controlled   *)
(* incremental decoder (control.rs:213-240): the contract Fused enforces   *)
(* around a native decoder is kept here by the coroutine itself.           *)
Phase ==
  CASE pc = "idle" /\ state = "Done" -> "done"
    [] pc = "idle" /\ state = "Failed" -> "failed"
    [] pc = "idle" /\ state \notin {"Done", "Failed"} /\ boundary # None ->
         "suspended"
    [] OTHER -> "open"

Adopts(f) == Permits("AdoptInterpretation", f)

Fits(o, f) == o.size = f.size /\ o.desc = f.desc

Contract == INSTANCE DecodeContract WITH
  Adoptable <- Adopts, Agrees <- Fits,
  gated <- controlled, phase <- Phase,
  boundary <- IF Phase = "suspended" THEN boundary ELSE None,
  result <- IF Phase = "done" THEN output ELSE None,
  output <- touched

ImplementsContract == Contract!ContractSpec

(* The claim of the documentation that the code does not keep.             *)

(* "A failure, cancellation or caught producer/sink panic discards pending *)
(* details.  The coroutine remains terminal" (README.md:42-43).            *)
PanicIsTerminal == pc = "idle" /\ last.outcome = "panic" => state = "Failed"
=============================================================================
