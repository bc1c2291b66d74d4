------------------------ MODULE CoroutineDecoderProofs ------------------------
(***************************************************************************)
(* The safety of the coroutine decoder as theorems: for any image, facts,  *)
(* batches and number of boundaries, whatever the author, the driver and   *)
(* the sink do.                                                            *)
(***************************************************************************)
EXTENDS CoroutineDecoder, SequenceTheorems, TLAPS

(* A future is polled only while it is live, and the states in which the   *)
(* decoder rests, or to which a delivery returns, say which it is.         *)
Futures ==
  /\ pc \in {"poll", "suspended"} => future = "live"
  /\ pc = "returned" => future = "complete"
  /\ state = "Running" => future = "live"
  /\ state = "Finishing" => future = "complete"
  /\ pc = "deliver" => /\ back \in {"Running", "Finishing"}
                       /\ back = "Running" => future = "live"
                       /\ back = "Finishing" => future = "complete"

(* A batch that is being delivered is one, and has rows left.              *)
RowsLeft(w) == w.batch \in Batches /\ w.offset < w.batch.rows

Batched ==
  /\ pending # NoWork => RowsLeft(pending)
  /\ pc = "deliver" => RowsLeft(work)
  /\ (pc \in {"begin", "accepts"} /\ after = "rows") => RowsLeft(work)

ControlInv == TypeOK /\ Futures /\ Batched

(* What was adopted stands: a boundary is outstanding only before, the     *)
(* facts were final and of the image, and a change since then is recorded. *)
(* The image information is gone only when a success took it.              *)
Standing ==
  /\ boundary # None => controlled /\ adopted = None
  /\ pc \in {"begin", "accepts", "deliver", "finish", "closing"} => boundary = None
  /\ adopted # None =>
       /\ Permits("AdoptInterpretation", adopted)
       /\ adoptedInfo # None /\ adoptedInfo.size = adopted.size
       /\ failure = None =>
            descriptor = adopted.desc /\ info \in {None, adoptedInfo}
       /\ info = None => pc = "idle" /\ state \in {"Done", "Failed"}

(* Whatever is on its way to the sink is of the image that was adopted.    *)
Gated ==
  /\ pc = "begin" => HeaderKnown
  /\ controlled =>
       /\ pc \in {"begin", "accepts", "closing"} => adopted # None /\ failure = None
       /\ \/ pc = "deliver"
          \/ pc \in {"begin", "accepts"} /\ after = "rows"
          => adopted # None /\ Fits(work.batch, adopted)
       /\ pending # NoWork => adopted # None /\ Fits(pending.batch, adopted)

(* What went to the sink, callback by callback.                            *)
Effects ==
  /\ delivered \in Seq([batch : Batches, row : Nat])
  /\ controlled =>
       /\ touched => adopted # None
       /\ beganWith # None => adopted # None /\ Fits(beganWith, adopted)
       /\ \A i \in DOMAIN delivered :
            adopted # None /\ Fits(delivered[i].batch, adopted)

AdoptionInv == ControlInv /\ Standing /\ Gated /\ Effects

(* Where the sink is follows from where the call is; it may have begun     *)
(* unnoticed only when a callback unwound.                                 *)
SinkPlaces ==
  /\ sink \in {"untouched", "begun", "finished"} /\ touched \in BOOLEAN
  /\ begun => sink # "untouched"
  /\ sink # "untouched" =>
       /\ touched
       /\ begun \/ pc = "accepts" \/ unwound
       /\ HeaderKnown \/ (pc = "idle" /\ state \in {"Done", "Failed"})
  /\ sink = "finished" => begun /\ pc = "idle" /\ state \in {"Done", "Failed"}
  /\ pc \in {"begin", "accepts"} => ~begun /\ HeaderKnown
  /\ pc = "accepts" => sink = "begun"
  /\ pc = "closing" => begun \/ sink = "untouched"
  /\ pc = "deliver" \/ pending # NoWork => begun

(* A future that is complete has left nothing behind once the decoder      *)
(* finishes, and its result is kept until then.                            *)
NothingLeft ==
  /\ pc # "idle" => pending = NoWork
  /\ future = "complete" =>
       \/ pc \in {"returned", "raised"}
       \/ pc = "idle" /\ state = "Failed"
       \/ rows = None
  /\ future = "complete" =>
       \/ pc = "raised"
       \/ pc = "idle" /\ state = "Failed"
       \/ output # None
  /\ \/ pc \in {"finish", "closing"}
     \/ pc \in {"begin", "accepts"} /\ after = "finish"
     => future = "complete"
  /\ state = "Done" => /\ pc = "idle" /\ future = "complete" /\ pending = NoWork
                       /\ sink # "untouched" => sink = "finished"

SinkInv == ControlInv /\ SinkPlaces /\ NothingLeft

(* What finish compared still holds when the sink has been finished.       *)
Compared ==
  /\ \/ pc = "closing"
     \/ pc \in {"begin", "accepts"} /\ after = "finish"
     => ~ResultDisagrees
  /\ controlled /\ pc = "closing" => begun
  /\ controlled /\ state = "Done" => failure = None

ResultInv == AdoptionInv /\ SinkInv /\ Compared /\ ResultIsAdopted

(* Every row the author deposited went to the sink, is in hand or waits.   *)
Line == [batch : Batches, row : Nat]

RowsFrom(w) ==
  IF w = NoWork THEN <<>>
  ELSE [i \in 1 .. w.batch.rows - w.offset |->
         [batch |-> w.batch, row |-> w.offset + i - 1]]

InHand == IF pc \in {"begin", "accepts", "deliver"} THEN work ELSE pending

Outstanding == IF rows # None THEN Rows(rows) ELSE RowsFrom(InHand)

Hands ==
  /\ \/ pc = "deliver"
     \/ pc \in {"begin", "accepts"} /\ after = "rows"
     \/ work = NoWork
  /\ rows # None => \/ pc \in {"poll", "suspended", "returned", "raised"}
                    \/ pc = "idle" /\ state = "Failed"

Accounted ==
  /\ written \in Seq(Line)
  /\ ~unwound =>
       IF pc = "idle" /\ state = "Failed"
       THEN \E rest \in Seq(Line) : written = delivered \o rest
       ELSE written = delivered \o Outstanding

RowInv == ControlInv /\ Effects /\ SinkInv /\ Hands /\ Accounted
-----------------------------------------------------------------------------
(* A fresh decoder holds nothing, and its future has not been polled.      *)
LEMMA InitControlInv == Init => ControlInv
<1> SUFFICES ASSUME Init PROVE ControlInv
  OBVIOUS
<1> USE DEF Init
<1>1. Positions
  <2>1. consumed \in 0 .. MaxOffer
    BY CoroutineAssumption
  <2> QED
    BY <2>1 DEF Positions, IdleStates
<1>2. NoWork \in Work
  BY DEF NoWork, Work
<1>3. Contents
  BY <1>2, CoroutineAssumption DEF Contents
<1>4. TypeOK
  BY <1>1, <1>3 DEF Init, TypeOK, Points
<1>5. Futures /\ Batched
  BY DEF Futures, Batched
<1> QED
  BY <1>4, <1>5 DEF ControlInv

(* Bytes are taken up to the end of the offer, and a request is satisfied  *)
(* or it is not.                                                           *)
LEMMA AbsorbTakes ==
  ASSUME Positions, NEW from \in 0 .. MaxOffer, Absorb(from)
  PROVE  consumed' \in 0 .. MaxOffer /\ arrived' \in BOOLEAN
<1>1. consumed' \in 0 .. MaxOffer
  BY CoroutineAssumption DEF Absorb
<1>2. arrived' \in BOOLEAN
  BY DEF Absorb, Positions
<1> QED
  BY <1>1, <1>2

(* Every step keeps the positions: a call ends in a state it names, and a   *)
(* read takes at most what was offered.                                    *)
LEMMA PositionsKept == ControlInv /\ [Next]_vars => Positions'
<1> SUFFICES ASSUME ControlInv, [Next]_vars PROVE Positions'
  OBVIOUS
<1> USE CoroutineAssumption DEF ControlInv, TypeOK, Points, Positions,
    Futures, IdleStates, Leave, Fail, Keep, Polled, Free, Suspend, FailIf,
    Advances, Settled, Settling, Reports, Untouched, SinkRefuses,
    SinkUnwinds, BeginNoted, Resting, control, ids, adoption, author, local,
    history, decoder
<1>1. CASE DriverNext
  <2>1. ASSUME NEW legacy \in BOOLEAN, StepRefused(legacy) PROVE Positions'
    BY <2>1 DEF StepRefused
  <2>2. ASSUME NEW legacy \in BOOLEAN, StepDone(legacy) PROVE Positions'
    BY <2>2 DEF StepDone
  <2>3. ASSUME NEW legacy \in BOOLEAN, StepCancelled(legacy) PROVE Positions'
    BY <2>3 DEF StepCancelled
  <2>4. ASSUME NEW legacy \in BOOLEAN, StepSuspended(legacy) PROVE Positions'
    BY <2>4 DEF StepSuspended
  <2>5. ASSUME NEW legacy \in BOOLEAN, StepPending(legacy) PROVE Positions'
    BY <2>5 DEF StepPending
  <2>6. ASSUME NEW legacy \in BOOLEAN, StepFinishing(legacy) PROVE Positions'
    BY <2>6 DEF StepFinishing
  <2>7. ASSUME NEW legacy \in BOOLEAN, StepPoll(legacy) PROVE Positions'
    <3>1. consumed' \in 0 .. MaxOffer /\ arrived' \in BOOLEAN
      BY <2>7, AbsorbTakes DEF StepPoll
    <3> QED
      BY <2>7, <3>1 DEF StepPoll
  <2>8. ASSUME NEW legacy \in BOOLEAN, StepAbsorbFails(legacy)
        PROVE  Positions'
    BY <2>8 DEF StepAbsorbFails
  <2>9. ASSUME NEW id \in 1 .. MaxId, NEW action \in Actions, Resume(id, action)
        PROVE  Positions'
    BY <2>9 DEF Resume
  <2>10. ASSUME NEW id \in 1 .. MaxId, NEW action \in Actions, ResumeRefused(id, action)
         PROVE  Positions'
    BY <2>10 DEF ResumeRefused
  <2>11. CASE TakeDetails
    BY <2>11 DEF TakeDetails
  <2> QED
    BY <1>1, <2>1, <2>2, <2>3, <2>4, <2>5, <2>6, <2>7, <2>8, <2>9, <2>10,
       <2>11
       DEF DriverNext
<1>2. CASE Deposits
  <2>1. ASSUME NEW i \in Infos, SetInfo(i) PROVE Positions'
    BY <2>1 DEF SetInfo
  <2>2. ASSUME NEW i \in Infos, SetDetails(i) PROVE Positions'
    BY <2>2 DEF SetDetails
  <2>3. ASSUME NEW d \in Descs, SetOutputDescriptor(d) PROVE Positions'
    BY <2>3 DEF SetOutputDescriptor
  <2>4. ASSUME NEW b \in Batches, NEW awaited \in BOOLEAN, WriteRows(b, awaited)
        PROVE  Positions'
    BY <2>4 DEF WriteRows
  <2>5. ASSUME NEW update \in Notices, NEW awaited \in BOOLEAN, Announce(update, awaited)
        PROVE  Positions'
    BY <2>5 DEF Announce
  <2>6. ASSUME NEW f \in Facts, NEW awaited \in BOOLEAN, Interpret(f, awaited)
        PROVE  Positions'
    BY <2>6 DEF Interpret
  <2> QED
    BY <1>2, <2>1, <2>2, <2>3, <2>4, <2>5, <2>6 DEF Deposits
<1>3. CASE Awaits
  <2>1. CASE StartInput
    BY <2>1 DEF StartInput
  <2>2. CASE AwaitForeign
    BY <2>2 DEF AwaitForeign
  <2>3. CASE InputReady
    BY <2>3 DEF InputReady
  <2>4. CASE InputFails
    BY <2>4 DEF InputFails
  <2>5. ASSUME NEW awaited \in BOOLEAN, InputWaits(awaited) PROVE Positions'
    BY <2>5 DEF InputWaits
  <2>6. CASE AwaitReady
    BY <2>6 DEF AwaitReady
  <2>7. CASE InterpretReady
    BY <2>7 DEF InterpretReady
  <2> QED
    BY <1>3, <2>1, <2>2, <2>3, <2>4, <2>5, <2>6, <2>7 DEF Awaits
<1>4. CASE Returns
  <2>1. ASSUME NEW o \in Outputs, ReturnOk(o) PROVE Positions'
    BY <2>1 DEF ReturnOk
  <2>2. CASE ReturnErr
    BY <2>2 DEF ReturnErr
  <2>3. CASE AuthorPanics
    BY <2>3 DEF AuthorPanics
  <2> QED
    BY <1>4, <2>1, <2>2, <2>3 DEF Returns
<1>5. CASE StepNext
  <2>1. CASE SettleFails
    BY <2>1 DEF SettleFails
  <2>2. CASE SettleBoundary
    BY <2>2 DEF SettleBoundary
  <2>3. CASE SettleComplete
    BY <2>3 DEF SettleComplete
  <2>4. CASE SettleRows
    BY <2>4 DEF SettleRows
  <2>5. CASE SettleMetadata
    BY <2>5 DEF SettleMetadata
  <2>6. CASE SettleNeed
    <3>1. CASE Absorb(consumed) /\ pc' = "poll"
      BY <2>6, <3>1, AbsorbTakes DEF SettleNeed
    <3>2. CASE ~(Absorb(consumed) /\ pc' = "poll")
      BY <2>6, <3>2 DEF SettleNeed
    <3> QED
      BY <3>1, <3>2
  <2>7. CASE Begin
    BY <2>7 DEF Begin
  <2>8. CASE BeginFails
    BY <2>8 DEF BeginFails
  <2>9. ASSUME NEW most \in 1 .. MaxBuffer, Deliver(most) PROVE Positions'
    BY <2>9 DEF Deliver
  <2>10. CASE DeliverFails
    BY <2>10 DEF DeliverFails
  <2>11. CASE Finish
    BY <2>11 DEF Finish
  <2>12. CASE CloseFails
    BY <2>12 DEF CloseFails
  <2>13. CASE Close
    BY <2>13 DEF Close
  <2>14. CASE Accepts
    BY <2>14 DEF Accepts
  <2>15. CASE AcceptsUnwinds
    BY <2>15 DEF AcceptsUnwinds
  <2> QED
    BY <1>5, <2>1, <2>2, <2>3, <2>4, <2>5, <2>6, <2>7, <2>8, <2>9, <2>10,
       <2>11, <2>12, <2>13, <2>14, <2>15
       DEF StepNext
<1>6. CASE UNCHANGED vars
  BY <1>6 DEF vars
<1> QED
  BY <1>1, <1>2, <1>3, <1>4, <1>5, <1>6 DEF Next

(* What a strip leaves of a batch is work on the same batch, or none.      *)
LEMMA RemainingIsWork ==
  ASSUME work \in Work, RowsLeft(work), NEW most \in 1 .. MaxBuffer
  PROVE  /\ Remaining(Strip(most)) \in Work
         /\ Remaining(Strip(most)) # NoWork =>
              /\ RowsLeft(Remaining(Strip(most)))
              /\ Remaining(Strip(most)).batch = work.batch
<1> DEFINE count == Strip(most)
<1>1. CASE work.offset + count < work.batch.rows
  <2>1. work.offset + count \in Nat
    BY <1>1, CoroutineAssumption DEF Strip, Work, RowsLeft
  <2>2. Remaining(count) = [work EXCEPT !.offset = work.offset + count]
    BY <1>1 DEF Remaining
  <2> QED
    BY <1>1, <2>1, <2>2 DEF Work, RowsLeft
<1>2. CASE ~(work.offset + count < work.batch.rows)
  BY <1>2 DEF Remaining, NoWork, Work
<1> QED
  BY <1>1, <1>2

(* The rows copied are rows of the batch in hand.                          *)
LEMMA CopiedAreRows ==
  ASSUME work \in Work, RowsLeft(work), NEW most \in 1 .. MaxBuffer
  PROVE  /\ Copied(Strip(most)) \in Seq([batch : Batches, row : Nat])
         /\ \A i \in DOMAIN Copied(Strip(most)) :
              Copied(Strip(most))[i].batch = work.batch
<1> DEFINE count == Strip(most)
<1>1. count \in Nat
  BY CoroutineAssumption DEF Strip, Work, RowsLeft
<1>2. \A i \in 1 .. count :
        [batch |-> work.batch, row |-> work.offset + i - 1]
          \in [batch : Batches, row : Nat]
  BY <1>1 DEF Work, RowsLeft
<1> HIDE DEF count
<1>3. Copied(count) \in [1 .. count -> [batch : Batches, row : Nat]]
  BY <1>2 DEF Copied
<1>4. \A i \in DOMAIN Copied(count) : Copied(count)[i].batch = work.batch
  BY DEF Copied
<1>5. Copied(count) \in Seq([batch : Batches, row : Nat])
  BY ZenonT(60), <1>1, <1>3, SeqDef
<1> QED
  BY <1>4, <1>5 DEF count

(* Every step keeps the contents: what is handed over is of its kind, and  *)
(* a batch is delivered from a row it has.                                 *)
LEMMA ContentsKept == ControlInv /\ [Next]_vars => Contents'
<1> SUFFICES ASSUME ControlInv, [Next]_vars PROVE Contents'
  OBVIOUS
<1>0. NoWork \in Work
  BY DEF NoWork, Work
<1> USE <1>0, CoroutineAssumption DEF ControlInv, TypeOK, Contents, Leave,
    Fail, Keep, Polled, Free, Suspend, FailIf, Settled, Reports, TakeEvent,
    Untouched, SinkRefuses, SinkUnwinds, BeginNoted, control, ids, adoption,
    author, local, history, decoder
<1>1. CASE DriverNext
  <2>1. ASSUME NEW legacy \in BOOLEAN, StepRefused(legacy) PROVE Contents'
    BY <2>1 DEF StepRefused
  <2>2. ASSUME NEW legacy \in BOOLEAN, StepDone(legacy) PROVE Contents'
    BY <2>2 DEF StepDone
  <2>3. ASSUME NEW legacy \in BOOLEAN, StepCancelled(legacy) PROVE Contents'
    BY <2>3 DEF StepCancelled
  <2>4. ASSUME NEW legacy \in BOOLEAN, StepSuspended(legacy) PROVE Contents'
    BY <2>4 DEF StepSuspended
  <2>5. ASSUME NEW legacy \in BOOLEAN, StepPending(legacy) PROVE Contents'
    BY <2>5 DEF StepPending
  <2>6. ASSUME NEW legacy \in BOOLEAN, StepFinishing(legacy) PROVE Contents'
    BY <2>6 DEF StepFinishing
  <2>7. ASSUME NEW legacy \in BOOLEAN, StepPoll(legacy) PROVE Contents'
    BY <2>7 DEF StepPoll
  <2>8. ASSUME NEW legacy \in BOOLEAN, StepAbsorbFails(legacy) PROVE Contents'
    BY <2>8 DEF StepAbsorbFails
  <2>9. ASSUME NEW id \in 1 .. MaxId, NEW action \in Actions, Resume(id, action)
        PROVE  Contents'
    <3>1. [id |-> id, action |-> action] \in [id : 1 .. MaxId, action : Actions]
      BY <2>9
    <3>2. boundary # None => boundary.facts \in Facts
      OBVIOUS
    <3> QED
      BY <2>9, <3>1, <3>2 DEF Resume, ReplyError
  <2>10. ASSUME NEW id \in 1 .. MaxId, NEW action \in Actions, ResumeRefused(id, action)
         PROVE  Contents'
    BY <2>10 DEF ResumeRefused
  <2>11. CASE TakeDetails
    BY <2>11 DEF TakeDetails
  <2> QED
    BY <1>1, <2>1, <2>2, <2>3, <2>4, <2>5, <2>6, <2>7, <2>8, <2>9, <2>10,
       <2>11
       DEF DriverNext
<1>2. CASE Deposits
  <2>1. ASSUME NEW i \in Infos, SetInfo(i) PROVE Contents'
    BY <2>1 DEF SetInfo
  <2>2. ASSUME NEW i \in Infos, SetDetails(i) PROVE Contents'
    BY <2>2 DEF SetDetails
  <2>3. ASSUME NEW d \in Descs, SetOutputDescriptor(d) PROVE Contents'
    BY <2>3 DEF SetOutputDescriptor
  <2>4. ASSUME NEW b \in Batches, NEW awaited \in BOOLEAN, WriteRows(b, awaited)
        PROVE  Contents'
    BY <2>4 DEF WriteRows
  <2>5. ASSUME NEW update \in Notices, NEW awaited \in BOOLEAN, Announce(update, awaited)
        PROVE  Contents'
    BY <2>5 DEF Announce
  <2>6. ASSUME NEW f \in Facts, NEW awaited \in BOOLEAN, Interpret(f, awaited)
        PROVE  Contents'
    BY <2>6 DEF Interpret
  <2> QED
    BY <1>2, <2>1, <2>2, <2>3, <2>4, <2>5, <2>6 DEF Deposits
<1>3. CASE Awaits
  <2>1. CASE StartInput
    BY <2>1 DEF StartInput
  <2>2. CASE AwaitForeign
    BY <2>2 DEF AwaitForeign
  <2>3. CASE InputReady
    BY <2>3 DEF InputReady
  <2>4. CASE InputFails
    BY <2>4 DEF InputFails
  <2>5. ASSUME NEW awaited \in BOOLEAN, InputWaits(awaited) PROVE Contents'
    BY <2>5 DEF InputWaits
  <2>6. CASE AwaitReady
    BY <2>6 DEF AwaitReady
  <2>7. CASE InterpretReady
    BY <2>7 DEF InterpretReady
  <2> QED
    BY <1>3, <2>1, <2>2, <2>3, <2>4, <2>5, <2>6, <2>7 DEF Awaits
<1>4. CASE Returns
  <2>1. ASSUME NEW o \in Outputs, ReturnOk(o) PROVE Contents'
    BY <2>1 DEF ReturnOk
  <2>2. CASE ReturnErr
    BY <2>2 DEF ReturnErr
  <2>3. CASE AuthorPanics
    BY <2>3 DEF AuthorPanics
  <2> QED
    BY <1>4, <2>1, <2>2, <2>3 DEF Returns
<1>5. CASE StepNext
  <2>1. CASE SettleFails
    BY <2>1 DEF SettleFails
  <2>2. CASE SettleBoundary
    BY <2>2 DEF SettleBoundary
  <2>3. CASE SettleComplete
    BY <2>3 DEF SettleComplete
  <2>4. CASE SettleRows
    <3>1. rows # None => [batch |-> rows, offset |-> 0] \in Work
      BY DEF Work
    <3> QED
      BY <2>4, <3>1 DEF SettleRows, Event
  <2>5. CASE SettleMetadata
    BY <2>5 DEF SettleMetadata
  <2>6. CASE SettleNeed
    BY <2>6 DEF SettleNeed
  <2>7. CASE Begin
    BY <2>7 DEF Begin
  <2>8. CASE BeginFails
    BY <2>8 DEF BeginFails
  <2>9. ASSUME NEW most \in 1 .. MaxBuffer, Deliver(most) PROVE Contents'
    BY <2>9, RemainingIsWork DEF Deliver, Batched
  <2>10. CASE DeliverFails
    BY <2>10 DEF DeliverFails
  <2>11. CASE Finish
    BY <2>11 DEF Finish
  <2>12. CASE CloseFails
    BY <2>12 DEF CloseFails
  <2>13. CASE Close
    BY <2>13 DEF Close
  <2>14. CASE Accepts
    BY <2>14 DEF Accepts
  <2>15. CASE AcceptsUnwinds
    BY <2>15 DEF AcceptsUnwinds
  <2> QED
    BY <1>5, <2>1, <2>2, <2>3, <2>4, <2>5, <2>6, <2>7, <2>8, <2>9, <2>10,
       <2>11, <2>12, <2>13, <2>14, <2>15
       DEF StepNext
<1>6. CASE UNCHANGED vars
  BY <1>6 DEF vars
<1> QED
  BY <1>1, <1>2, <1>3, <1>4, <1>5, <1>6 DEF Next

(* The state is Failed wherever a callback may unwind, and the future is   *)
(* complete or live as the state says.                                     *)
LEMMA PointsKept == ControlInv /\ [Next]_vars => Points' /\ Futures'
<1> DEFINE P == Points /\ Futures
<1> SUFFICES ASSUME ControlInv, [Next]_vars PROVE P'
  OBVIOUS
<1> USE DEF ControlInv, TypeOK, Points, Positions, Futures, IdleStates,
    Leave, Fail, Keep, Polled, Free, Suspend, FailIf, Advances, Settled,
    Settling, Reports, Untouched, SinkRefuses, SinkUnwinds, BeginNoted,
    Resting, control, ids, adoption, author, local, history, decoder
<1>1. CASE DriverNext
  <2>1. ASSUME NEW legacy \in BOOLEAN, StepRefused(legacy) PROVE P'
    BY <2>1 DEF StepRefused
  <2>2. ASSUME NEW legacy \in BOOLEAN, StepDone(legacy) PROVE P'
    BY <2>2 DEF StepDone
  <2>3. ASSUME NEW legacy \in BOOLEAN, StepCancelled(legacy) PROVE P'
    BY <2>3 DEF StepCancelled
  <2>4. ASSUME NEW legacy \in BOOLEAN, StepSuspended(legacy) PROVE P'
    BY <2>4 DEF StepSuspended
  <2>5. ASSUME NEW legacy \in BOOLEAN, StepPending(legacy) PROVE P'
    BY <2>5 DEF StepPending
  <2>6. ASSUME NEW legacy \in BOOLEAN, StepFinishing(legacy) PROVE P'
    BY <2>6 DEF StepFinishing
  <2>7. ASSUME NEW legacy \in BOOLEAN, StepPoll(legacy) PROVE P'
    BY <2>7 DEF StepPoll
  <2>8. ASSUME NEW legacy \in BOOLEAN, StepAbsorbFails(legacy) PROVE P'
    BY <2>8 DEF StepAbsorbFails
  <2>9. ASSUME NEW id \in 1 .. MaxId, NEW action \in Actions, Resume(id, action)
        PROVE  P'
    BY <2>9 DEF Resume, ReplyError
  <2>10. ASSUME NEW id \in 1 .. MaxId, NEW action \in Actions, ResumeRefused(id, action)
         PROVE  P'
    BY <2>10 DEF ResumeRefused
  <2>11. CASE TakeDetails
    BY <2>11 DEF TakeDetails
  <2> QED
    BY <1>1, <2>1, <2>2, <2>3, <2>4, <2>5, <2>6, <2>7, <2>8, <2>9, <2>10,
       <2>11
       DEF DriverNext
<1>2. CASE Deposits
  <2>1. ASSUME NEW i \in Infos, SetInfo(i) PROVE P'
    BY <2>1 DEF SetInfo
  <2>2. ASSUME NEW i \in Infos, SetDetails(i) PROVE P'
    BY <2>2 DEF SetDetails
  <2>3. ASSUME NEW d \in Descs, SetOutputDescriptor(d) PROVE P'
    BY <2>3 DEF SetOutputDescriptor
  <2>4. ASSUME NEW b \in Batches, NEW awaited \in BOOLEAN, WriteRows(b, awaited)
        PROVE  P'
    BY <2>4 DEF WriteRows
  <2>5. ASSUME NEW update \in Notices, NEW awaited \in BOOLEAN, Announce(update, awaited)
        PROVE  P'
    BY <2>5 DEF Announce
  <2>6. ASSUME NEW f \in Facts, NEW awaited \in BOOLEAN, Interpret(f, awaited)
        PROVE  P'
    BY <2>6 DEF Interpret
  <2> QED
    BY <1>2, <2>1, <2>2, <2>3, <2>4, <2>5, <2>6 DEF Deposits
<1>3. CASE Awaits
  <2>1. CASE StartInput
    BY <2>1 DEF StartInput
  <2>2. CASE AwaitForeign
    BY <2>2 DEF AwaitForeign
  <2>3. CASE InputReady
    BY <2>3 DEF InputReady
  <2>4. CASE InputFails
    BY <2>4 DEF InputFails
  <2>5. ASSUME NEW awaited \in BOOLEAN, InputWaits(awaited) PROVE P'
    BY <2>5 DEF InputWaits
  <2>6. CASE AwaitReady
    BY <2>6 DEF AwaitReady
  <2>7. CASE InterpretReady
    BY <2>7 DEF InterpretReady
  <2> QED
    BY <1>3, <2>1, <2>2, <2>3, <2>4, <2>5, <2>6, <2>7 DEF Awaits
<1>4. CASE Returns
  <2>1. ASSUME NEW o \in Outputs, ReturnOk(o) PROVE P'
    BY <2>1 DEF ReturnOk
  <2>2. CASE ReturnErr
    BY <2>2 DEF ReturnErr
  <2>3. CASE AuthorPanics
    BY <2>3 DEF AuthorPanics
  <2> QED
    BY <1>4, <2>1, <2>2, <2>3 DEF Returns
<1>5. CASE StepNext
  <2>1. CASE SettleFails
    BY <2>1 DEF SettleFails
  <2>2. CASE SettleBoundary
    BY <2>2 DEF SettleBoundary
  <2>3. CASE SettleComplete
    BY <2>3 DEF SettleComplete
  <2>4. CASE SettleRows
    BY <2>4 DEF SettleRows
  <2>5. CASE SettleMetadata
    BY <2>5 DEF SettleMetadata
  <2>6. CASE SettleNeed
    BY <2>6 DEF SettleNeed
  <2>7. CASE Begin
    BY <2>7 DEF Begin
  <2>8. CASE BeginFails
    BY <2>8 DEF BeginFails
  <2>9. ASSUME NEW most \in 1 .. MaxBuffer, Deliver(most) PROVE P'
    BY <2>9 DEF Deliver
  <2>10. CASE DeliverFails
    BY <2>10 DEF DeliverFails
  <2>11. CASE Finish
    BY <2>11 DEF Finish
  <2>12. CASE CloseFails
    BY <2>12 DEF CloseFails
  <2>13. CASE Close
    BY <2>13 DEF Close
  <2>14. CASE Accepts
    BY <2>14 DEF Accepts
  <2>15. CASE AcceptsUnwinds
    BY <2>15 DEF AcceptsUnwinds
  <2> QED
    BY <1>5, <2>1, <2>2, <2>3, <2>4, <2>5, <2>6, <2>7, <2>8, <2>9, <2>10,
       <2>11, <2>12, <2>13, <2>14, <2>15
       DEF StepNext
<1>6. CASE UNCHANGED vars
  BY <1>6 DEF vars
<1> QED
  BY <1>1, <1>2, <1>3, <1>4, <1>5, <1>6 DEF Next

(* Rows are only ever delivered of a batch that has rows left.             *)
LEMMA BatchedKept == ControlInv /\ [Next]_vars => Batched'
<1> SUFFICES ASSUME ControlInv, [Next]_vars PROVE Batched'
  OBVIOUS
<1> USE CoroutineAssumption DEF ControlInv, TypeOK, Batched, Contents, Leave,
    Fail, Keep, Polled, Free, Suspend, FailIf, Settled, Reports, Event,
    Untouched, SinkRefuses, SinkUnwinds, BeginNoted, control, ids, adoption,
    author, local, history, decoder
<1>1. CASE DriverNext
  <2>1. ASSUME NEW legacy \in BOOLEAN, StepRefused(legacy) PROVE Batched'
    BY <2>1 DEF StepRefused
  <2>2. ASSUME NEW legacy \in BOOLEAN, StepDone(legacy) PROVE Batched'
    BY <2>2 DEF StepDone
  <2>3. ASSUME NEW legacy \in BOOLEAN, StepCancelled(legacy) PROVE Batched'
    BY <2>3 DEF StepCancelled
  <2>4. ASSUME NEW legacy \in BOOLEAN, StepSuspended(legacy) PROVE Batched'
    BY <2>4 DEF StepSuspended
  <2>5. ASSUME NEW legacy \in BOOLEAN, StepPending(legacy) PROVE Batched'
    BY <2>5 DEF StepPending
  <2>6. ASSUME NEW legacy \in BOOLEAN, StepFinishing(legacy) PROVE Batched'
    BY <2>6 DEF StepFinishing
  <2>7. ASSUME NEW legacy \in BOOLEAN, StepPoll(legacy) PROVE Batched'
    BY <2>7 DEF StepPoll
  <2>8. ASSUME NEW legacy \in BOOLEAN, StepAbsorbFails(legacy) PROVE Batched'
    BY <2>8 DEF StepAbsorbFails
  <2>9. ASSUME NEW id \in 1 .. MaxId, NEW action \in Actions, Resume(id, action)
        PROVE  Batched'
    BY <2>9 DEF Resume
  <2>10. ASSUME NEW id \in 1 .. MaxId, NEW action \in Actions, ResumeRefused(id, action)
         PROVE  Batched'
    BY <2>10 DEF ResumeRefused
  <2>11. CASE TakeDetails
    BY <2>11 DEF TakeDetails
  <2> QED
    BY <1>1, <2>1, <2>2, <2>3, <2>4, <2>5, <2>6, <2>7, <2>8, <2>9, <2>10,
       <2>11
       DEF DriverNext
<1>2. CASE Deposits
  <2>1. ASSUME NEW i \in Infos, SetInfo(i) PROVE Batched'
    BY <2>1 DEF SetInfo
  <2>2. ASSUME NEW i \in Infos, SetDetails(i) PROVE Batched'
    BY <2>2 DEF SetDetails
  <2>3. ASSUME NEW d \in Descs, SetOutputDescriptor(d) PROVE Batched'
    BY <2>3 DEF SetOutputDescriptor
  <2>4. ASSUME NEW b \in Batches, NEW awaited \in BOOLEAN, WriteRows(b, awaited)
        PROVE  Batched'
    BY <2>4 DEF WriteRows
  <2>5. ASSUME NEW update \in Notices, NEW awaited \in BOOLEAN, Announce(update, awaited)
        PROVE  Batched'
    BY <2>5 DEF Announce
  <2>6. ASSUME NEW f \in Facts, NEW awaited \in BOOLEAN, Interpret(f, awaited)
        PROVE  Batched'
    BY <2>6 DEF Interpret
  <2> QED
    BY <1>2, <2>1, <2>2, <2>3, <2>4, <2>5, <2>6 DEF Deposits
<1>3. CASE Awaits
  <2>1. CASE StartInput
    BY <2>1 DEF StartInput
  <2>2. CASE AwaitForeign
    BY <2>2 DEF AwaitForeign
  <2>3. CASE InputReady
    BY <2>3 DEF InputReady
  <2>4. CASE InputFails
    BY <2>4 DEF InputFails
  <2>5. ASSUME NEW awaited \in BOOLEAN, InputWaits(awaited) PROVE Batched'
    BY <2>5 DEF InputWaits
  <2>6. CASE AwaitReady
    BY <2>6 DEF AwaitReady
  <2>7. CASE InterpretReady
    BY <2>7 DEF InterpretReady
  <2> QED
    BY <1>3, <2>1, <2>2, <2>3, <2>4, <2>5, <2>6, <2>7 DEF Awaits
<1>4. CASE Returns
  <2>1. ASSUME NEW o \in Outputs, ReturnOk(o) PROVE Batched'
    BY <2>1 DEF ReturnOk
  <2>2. CASE ReturnErr
    BY <2>2 DEF ReturnErr
  <2>3. CASE AuthorPanics
    BY <2>3 DEF AuthorPanics
  <2> QED
    BY <1>4, <2>1, <2>2, <2>3 DEF Returns
<1>5. CASE StepNext
  <2>1. CASE SettleFails
    BY <2>1 DEF SettleFails
  <2>2. CASE SettleBoundary
    BY <2>2 DEF SettleBoundary
  <2>3. CASE SettleComplete
    BY <2>3 DEF SettleComplete
  <2>4. CASE SettleRows
    <3>1. rows # None => RowsLeft([batch |-> rows, offset |-> 0])
      BY DEF RowsLeft
    <3> QED
      BY <2>4, <3>1 DEF SettleRows
  <2>5. CASE SettleMetadata
    BY <2>5 DEF SettleMetadata
  <2>6. CASE SettleNeed
    BY <2>6 DEF SettleNeed
  <2>7. CASE Begin
    BY <2>7 DEF Begin
  <2>8. CASE BeginFails
    BY <2>8 DEF BeginFails
  <2>9. ASSUME NEW most \in 1 .. MaxBuffer, Deliver(most) PROVE Batched'
    BY <2>9, RemainingIsWork DEF Deliver
  <2>10. CASE DeliverFails
    BY <2>10 DEF DeliverFails
  <2>11. CASE Finish
    BY <2>11 DEF Finish
  <2>12. CASE CloseFails
    BY <2>12 DEF CloseFails
  <2>13. CASE Close
    BY <2>13 DEF Close
  <2>14. CASE Accepts
    BY <2>14 DEF Accepts
  <2>15. CASE AcceptsUnwinds
    BY <2>15 DEF AcceptsUnwinds
  <2> QED
    BY <1>5, <2>1, <2>2, <2>3, <2>4, <2>5, <2>6, <2>7, <2>8, <2>9, <2>10,
       <2>11, <2>12, <2>13, <2>14, <2>15
       DEF StepNext
<1>6. CASE UNCHANGED vars
  BY <1>6 DEF vars
<1> QED
  BY <1>1, <1>2, <1>3, <1>4, <1>5, <1>6 DEF Next

(* Together: where the call is determines what it may be holding.          *)
LEMMA StepControlInv == ControlInv /\ [Next]_vars => ControlInv'
BY PositionsKept, ContentsKept, PointsKept, BatchedKept
   DEF ControlInv, TypeOK
-----------------------------------------------------------------------------
(* A step of the decoder keeps what was adopted, boundary by boundary.     *)
LEMMA StandingKept ==
  AdoptionInv /\ [Next]_vars => Standing'
<1> SUFFICES ASSUME AdoptionInv, [Next]_vars PROVE Standing'
  OBVIOUS
<1> USE CoroutineAssumption DEF AdoptionInv, Gated, ControlInv, TypeOK,
    Positions, Contents, Futures, Standing, Leave, Fail, Keep, Polled, Free,
    Suspend, FailIf, Advances, Settled, Settling, Reports, Untouched,
    SinkRefuses, SinkUnwinds, BeginNoted, Resting, control, ids, adoption, author,
    local, history, decoder
<1>1. CASE DriverNext
  <2>1. ASSUME NEW legacy \in BOOLEAN, StepRefused(legacy) PROVE Standing'
    BY <2>1 DEF StepRefused
  <2>2. ASSUME NEW legacy \in BOOLEAN, StepDone(legacy) PROVE Standing'
    BY <2>2 DEF StepDone
  <2>3. ASSUME NEW legacy \in BOOLEAN, StepCancelled(legacy) PROVE Standing'
    BY <2>3 DEF StepCancelled
  <2>4. ASSUME NEW legacy \in BOOLEAN, StepSuspended(legacy) PROVE Standing'
    BY <2>4 DEF StepSuspended
  <2>5. ASSUME NEW legacy \in BOOLEAN, StepPending(legacy) PROVE Standing'
    BY <2>5 DEF StepPending
  <2>6. ASSUME NEW legacy \in BOOLEAN, StepFinishing(legacy) PROVE Standing'
    BY <2>6 DEF StepFinishing
  <2>7. ASSUME NEW legacy \in BOOLEAN, StepPoll(legacy) PROVE Standing'
    BY <2>7 DEF StepPoll
  <2>8. ASSUME NEW legacy \in BOOLEAN, StepAbsorbFails(legacy) PROVE Standing'
    BY <2>8 DEF StepAbsorbFails
  <2>9. ASSUME NEW id \in 1 .. MaxId, NEW action \in Actions, Resume(id, action)
        PROVE  Standing'
    BY <2>9 DEF Resume, ReplyError, Disagrees, Permits
  <2>10. ASSUME NEW id \in 1 .. MaxId, NEW action \in Actions, ResumeRefused(id, action)
         PROVE  Standing'
    BY <2>10 DEF ResumeRefused, ReplyError
  <2>11. CASE TakeDetails
    BY <2>11 DEF TakeDetails
  <2> QED
    BY <1>1, <2>1, <2>2, <2>3, <2>4, <2>5, <2>6, <2>7, <2>8, <2>9, <2>10,
       <2>11
       DEF DriverNext
<1>2. CASE Deposits
  <2>1. ASSUME NEW i \in Infos, SetInfo(i) PROVE Standing'
    BY <2>1 DEF SetInfo
  <2>2. ASSUME NEW i \in Infos, SetDetails(i) PROVE Standing'
    BY <2>2 DEF SetDetails
  <2>3. ASSUME NEW d \in Descs, SetOutputDescriptor(d) PROVE Standing'
    BY <2>3 DEF SetOutputDescriptor
  <2>4. ASSUME NEW b \in Batches, NEW awaited \in BOOLEAN, WriteRows(b, awaited)
        PROVE  Standing'
    BY <2>4 DEF WriteRows
  <2>5. ASSUME NEW update \in Notices, NEW awaited \in BOOLEAN, Announce(update, awaited)
        PROVE  Standing'
    BY <2>5 DEF Announce
  <2>6. ASSUME NEW f \in Facts, NEW awaited \in BOOLEAN, Interpret(f, awaited)
        PROVE  Standing'
    BY <2>6 DEF Interpret, Disagrees
  <2> QED
    BY <1>2, <2>1, <2>2, <2>3, <2>4, <2>5, <2>6 DEF Deposits
<1>3. CASE Awaits
  <2>1. CASE StartInput
    BY <2>1 DEF StartInput
  <2>2. CASE AwaitForeign
    BY <2>2 DEF AwaitForeign
  <2>3. CASE InputReady
    BY <2>3 DEF InputReady
  <2>4. CASE InputFails
    BY <2>4 DEF InputFails
  <2>5. ASSUME NEW awaited \in BOOLEAN, InputWaits(awaited) PROVE Standing'
    BY <2>5 DEF InputWaits
  <2>6. CASE AwaitReady
    BY <2>6 DEF AwaitReady
  <2>7. CASE InterpretReady
    BY <2>7 DEF InterpretReady
  <2> QED
    BY <1>3, <2>1, <2>2, <2>3, <2>4, <2>5, <2>6, <2>7 DEF Awaits
<1>4. CASE Returns
  <2>1. ASSUME NEW o \in Outputs, ReturnOk(o) PROVE Standing'
    BY <2>1 DEF ReturnOk
  <2>2. CASE ReturnErr
    BY <2>2 DEF ReturnErr
  <2>3. CASE AuthorPanics
    BY <2>3 DEF AuthorPanics
  <2> QED
    BY <1>4, <2>1, <2>2, <2>3 DEF Returns
<1>5. CASE StepNext
  <2>1. CASE SettleFails
    BY <2>1 DEF SettleFails, Violation
  <2>2. CASE SettleBoundary
    BY <2>2 DEF SettleBoundary
  <2>3. CASE SettleComplete
    BY <2>3 DEF SettleComplete, Violation, Event
  <2>4. CASE SettleRows
    BY <2>4 DEF SettleRows, Violation, Event
  <2>5. CASE SettleMetadata
    BY <2>5 DEF SettleMetadata, Violation, Event
  <2>6. CASE SettleNeed
    BY <2>6 DEF SettleNeed, Violation, Event
  <2>7. CASE Begin
    BY <2>7 DEF Begin
  <2>8. CASE BeginFails
    BY <2>8 DEF BeginFails
  <2>9. ASSUME NEW most \in 1 .. MaxBuffer, Deliver(most) PROVE Standing'
    BY <2>9 DEF Deliver
  <2>10. CASE DeliverFails
    BY <2>10 DEF DeliverFails
  <2>11. CASE Finish
    BY <2>11 DEF Finish
  <2>12. CASE CloseFails
    BY <2>12 DEF CloseFails
  <2>13. CASE Close
    BY <2>13 DEF Close
  <2>14. CASE Accepts
    BY <2>14 DEF Accepts
  <2>15. CASE AcceptsUnwinds
    BY <2>15 DEF AcceptsUnwinds
  <2> QED
    BY <1>5, <2>1, <2>2, <2>3, <2>4, <2>5, <2>6, <2>7, <2>8, <2>9, <2>10,
       <2>11, <2>12, <2>13, <2>14, <2>15
       DEF StepNext
<1>6. CASE UNCHANGED vars
  BY <1>6 DEF vars
<1> QED
  BY <1>1, <1>2, <1>3, <1>4, <1>5, <1>6 DEF Next

(* What goes to the sink was compared with what was adopted.               *)
LEMMA GatedKept ==
  AdoptionInv /\ [Next]_vars => Gated'
<1> SUFFICES ASSUME AdoptionInv, [Next]_vars PROVE Gated'
  OBVIOUS
<1> USE CoroutineAssumption DEF AdoptionInv, Standing, ControlInv, TypeOK,
    Positions, Contents, Futures, Gated, HeaderKnown, Fits, Leave, Fail,
    Keep, Polled, Free, Suspend, FailIf, Advances, Settled, Settling,
    Reports, Untouched, SinkRefuses, SinkUnwinds, BeginNoted, Resting,
    control, ids, adoption, author, local, history, decoder
<1>1. CASE DriverNext
  <2>1. ASSUME NEW legacy \in BOOLEAN, StepRefused(legacy) PROVE Gated'
    BY <2>1 DEF StepRefused
  <2>2. ASSUME NEW legacy \in BOOLEAN, StepDone(legacy) PROVE Gated'
    BY <2>2 DEF StepDone
  <2>3. ASSUME NEW legacy \in BOOLEAN, StepCancelled(legacy) PROVE Gated'
    BY <2>3 DEF StepCancelled
  <2>4. ASSUME NEW legacy \in BOOLEAN, StepSuspended(legacy) PROVE Gated'
    BY <2>4 DEF StepSuspended
  <2>5. ASSUME NEW legacy \in BOOLEAN, StepPending(legacy) PROVE Gated'
    BY <2>5 DEF StepPending
  <2>6. ASSUME NEW legacy \in BOOLEAN, StepFinishing(legacy) PROVE Gated'
    BY <2>6 DEF StepFinishing
  <2>7. ASSUME NEW legacy \in BOOLEAN, StepPoll(legacy) PROVE Gated'
    BY <2>7 DEF StepPoll
  <2>8. ASSUME NEW legacy \in BOOLEAN, StepAbsorbFails(legacy) PROVE Gated'
    BY <2>8 DEF StepAbsorbFails
  <2>9. ASSUME NEW id \in 1 .. MaxId, NEW action \in Actions, Resume(id, action)
        PROVE  Gated'
    BY <2>9 DEF Resume, ReplyError, Disagrees, Permits
  <2>10. ASSUME NEW id \in 1 .. MaxId, NEW action \in Actions, ResumeRefused(id, action)
         PROVE  Gated'
    BY <2>10 DEF ResumeRefused, ReplyError
  <2>11. CASE TakeDetails
    BY <2>11 DEF TakeDetails
  <2> QED
    BY <1>1, <2>1, <2>2, <2>3, <2>4, <2>5, <2>6, <2>7, <2>8, <2>9, <2>10,
       <2>11
       DEF DriverNext
<1>2. CASE Deposits
  <2>1. ASSUME NEW i \in Infos, SetInfo(i) PROVE Gated'
    BY <2>1 DEF SetInfo
  <2>2. ASSUME NEW i \in Infos, SetDetails(i) PROVE Gated'
    BY <2>2 DEF SetDetails
  <2>3. ASSUME NEW d \in Descs, SetOutputDescriptor(d) PROVE Gated'
    BY <2>3 DEF SetOutputDescriptor
  <2>4. ASSUME NEW b \in Batches, NEW awaited \in BOOLEAN, WriteRows(b, awaited)
        PROVE  Gated'
    BY <2>4 DEF WriteRows
  <2>5. ASSUME NEW update \in Notices, NEW awaited \in BOOLEAN, Announce(update, awaited)
        PROVE  Gated'
    BY <2>5 DEF Announce
  <2>6. ASSUME NEW f \in Facts, NEW awaited \in BOOLEAN, Interpret(f, awaited)
        PROVE  Gated'
    BY <2>6 DEF Interpret
  <2> QED
    BY <1>2, <2>1, <2>2, <2>3, <2>4, <2>5, <2>6 DEF Deposits
<1>3. CASE Awaits
  <2>1. CASE StartInput
    BY <2>1 DEF StartInput
  <2>2. CASE AwaitForeign
    BY <2>2 DEF AwaitForeign
  <2>3. CASE InputReady
    BY <2>3 DEF InputReady
  <2>4. CASE InputFails
    BY <2>4 DEF InputFails
  <2>5. ASSUME NEW awaited \in BOOLEAN, InputWaits(awaited) PROVE Gated'
    BY <2>5 DEF InputWaits
  <2>6. CASE AwaitReady
    BY <2>6 DEF AwaitReady
  <2>7. CASE InterpretReady
    BY <2>7 DEF InterpretReady
  <2> QED
    BY <1>3, <2>1, <2>2, <2>3, <2>4, <2>5, <2>6, <2>7 DEF Awaits
<1>4. CASE Returns
  <2>1. ASSUME NEW o \in Outputs, ReturnOk(o) PROVE Gated'
    BY <2>1 DEF ReturnOk
  <2>2. CASE ReturnErr
    BY <2>2 DEF ReturnErr
  <2>3. CASE AuthorPanics
    BY <2>3 DEF AuthorPanics
  <2> QED
    BY <1>4, <2>1, <2>2, <2>3 DEF Returns
<1>5. CASE StepNext
  <2>1. CASE SettleFails
    BY <2>1 DEF SettleFails
  <2>2. CASE SettleBoundary
    BY <2>2 DEF SettleBoundary
  <2>3. CASE SettleComplete
    BY <2>3 DEF SettleComplete
  <2>4. CASE SettleRows
    BY <2>4 DEF SettleRows, Violation, Event, Forbidden, Inconsistent
  <2>5. CASE SettleMetadata
    BY <2>5 DEF SettleMetadata, Violation, Event
  <2>6. CASE SettleNeed
    BY <2>6 DEF SettleNeed
  <2>7. CASE Begin
    BY <2>7 DEF Begin
  <2>8. CASE BeginFails
    BY <2>8 DEF BeginFails
  <2>9. ASSUME NEW most \in 1 .. MaxBuffer, Deliver(most) PROVE Gated'
    BY <2>9, RemainingIsWork DEF Deliver, Batched
  <2>10. CASE DeliverFails
    BY <2>10 DEF DeliverFails
  <2>11. CASE Finish
    BY <2>11 DEF Finish, Forbidden
  <2>12. CASE CloseFails
    BY <2>12 DEF CloseFails
  <2>13. CASE Close
    BY <2>13 DEF Close
  <2>14. CASE Accepts
    BY <2>14 DEF Accepts
  <2>15. CASE AcceptsUnwinds
    BY <2>15 DEF AcceptsUnwinds
  <2> QED
    BY <1>5, <2>1, <2>2, <2>3, <2>4, <2>5, <2>6, <2>7, <2>8, <2>9, <2>10,
       <2>11, <2>12, <2>13, <2>14, <2>15
       DEF StepNext
<1>6. CASE UNCHANGED vars
  BY <1>6 DEF vars
<1> QED
  BY <1>1, <1>2, <1>3, <1>4, <1>5, <1>6 DEF Next

(* A sink callback is reached only past the checks.                        *)
LEMMA EffectsKept ==
  AdoptionInv /\ [Next]_vars => Effects'
<1> SUFFICES ASSUME AdoptionInv, [Next]_vars PROVE Effects'
  OBVIOUS
<1> USE DEF AdoptionInv, Standing, ControlInv, TypeOK, Points, Positions,
    Contents, Futures, Gated, Fits, Effects, Leave, Fail, Keep, Polled, Free,
    Suspend, FailIf, Advances, Settled, Settling, Reports, Untouched,
    SinkRefuses, SinkUnwinds, BeginNoted, Resting, control, ids, adoption, author,
    local, history, decoder
<1>1. CASE DriverNext
  <2>1. ASSUME NEW legacy \in BOOLEAN, StepRefused(legacy) PROVE Effects'
    BY <2>1 DEF StepRefused
  <2>2. ASSUME NEW legacy \in BOOLEAN, StepDone(legacy) PROVE Effects'
    BY <2>2 DEF StepDone
  <2>3. ASSUME NEW legacy \in BOOLEAN, StepCancelled(legacy) PROVE Effects'
    BY <2>3 DEF StepCancelled
  <2>4. ASSUME NEW legacy \in BOOLEAN, StepSuspended(legacy) PROVE Effects'
    BY <2>4 DEF StepSuspended
  <2>5. ASSUME NEW legacy \in BOOLEAN, StepPending(legacy) PROVE Effects'
    BY <2>5 DEF StepPending
  <2>6. ASSUME NEW legacy \in BOOLEAN, StepFinishing(legacy) PROVE Effects'
    BY <2>6 DEF StepFinishing
  <2>7. ASSUME NEW legacy \in BOOLEAN, StepPoll(legacy) PROVE Effects'
    BY <2>7 DEF StepPoll
  <2>8. ASSUME NEW legacy \in BOOLEAN, StepAbsorbFails(legacy) PROVE Effects'
    BY <2>8 DEF StepAbsorbFails
  <2>9. ASSUME NEW id \in 1 .. MaxId, NEW action \in Actions, Resume(id, action)
        PROVE  Effects'
    BY <2>9 DEF Resume, ReplyError
  <2>10. ASSUME NEW id \in 1 .. MaxId, NEW action \in Actions, ResumeRefused(id, action)
         PROVE  Effects'
    BY <2>10 DEF ResumeRefused
  <2>11. CASE TakeDetails
    BY <2>11 DEF TakeDetails
  <2> QED
    BY <1>1, <2>1, <2>2, <2>3, <2>4, <2>5, <2>6, <2>7, <2>8, <2>9, <2>10,
       <2>11
       DEF DriverNext
<1>2. CASE Deposits
  <2>1. ASSUME NEW i \in Infos, SetInfo(i) PROVE Effects'
    BY <2>1 DEF SetInfo
  <2>2. ASSUME NEW i \in Infos, SetDetails(i) PROVE Effects'
    BY <2>2 DEF SetDetails
  <2>3. ASSUME NEW d \in Descs, SetOutputDescriptor(d) PROVE Effects'
    BY <2>3 DEF SetOutputDescriptor
  <2>4. ASSUME NEW b \in Batches, NEW awaited \in BOOLEAN, WriteRows(b, awaited)
        PROVE  Effects'
    BY <2>4 DEF WriteRows
  <2>5. ASSUME NEW update \in Notices, NEW awaited \in BOOLEAN, Announce(update, awaited)
        PROVE  Effects'
    BY <2>5 DEF Announce
  <2>6. ASSUME NEW f \in Facts, NEW awaited \in BOOLEAN, Interpret(f, awaited)
        PROVE  Effects'
    BY <2>6 DEF Interpret
  <2> QED
    BY <1>2, <2>1, <2>2, <2>3, <2>4, <2>5, <2>6 DEF Deposits
<1>3. CASE Awaits
  <2>1. CASE StartInput
    BY <2>1 DEF StartInput
  <2>2. CASE AwaitForeign
    BY <2>2 DEF AwaitForeign
  <2>3. CASE InputReady
    BY <2>3 DEF InputReady
  <2>4. CASE InputFails
    BY <2>4 DEF InputFails
  <2>5. ASSUME NEW awaited \in BOOLEAN, InputWaits(awaited) PROVE Effects'
    BY <2>5 DEF InputWaits
  <2>6. CASE AwaitReady
    BY <2>6 DEF AwaitReady
  <2>7. CASE InterpretReady
    BY <2>7 DEF InterpretReady
  <2> QED
    BY <1>3, <2>1, <2>2, <2>3, <2>4, <2>5, <2>6, <2>7 DEF Awaits
<1>4. CASE Returns
  <2>1. ASSUME NEW o \in Outputs, ReturnOk(o) PROVE Effects'
    BY <2>1 DEF ReturnOk
  <2>2. CASE ReturnErr
    BY <2>2 DEF ReturnErr
  <2>3. CASE AuthorPanics
    BY <2>3 DEF AuthorPanics
  <2> QED
    BY <1>4, <2>1, <2>2, <2>3 DEF Returns
<1>5. CASE StepNext
  <2>1. CASE SettleFails
    BY <2>1 DEF SettleFails
  <2>2. CASE SettleBoundary
    BY <2>2 DEF SettleBoundary
  <2>3. CASE SettleComplete
    BY <2>3 DEF SettleComplete
  <2>4. CASE SettleRows
    BY <2>4 DEF SettleRows
  <2>5. CASE SettleMetadata
    BY <2>5 DEF SettleMetadata
  <2>6. CASE SettleNeed
    BY <2>6 DEF SettleNeed
  <2>7. CASE Begin
    BY <2>7 DEF Begin
  <2>8. CASE BeginFails
    BY <2>8 DEF BeginFails
  <2>9. ASSUME NEW most \in 1 .. MaxBuffer, Deliver(most) PROVE Effects'
    <3> DEFINE strip == Copied(Strip(most))
    <3>1. /\ strip \in Seq([batch : Batches, row : Nat])
          /\ \A i \in DOMAIN strip : strip[i].batch = work.batch
      BY <2>9, CopiedAreRows DEF Deliver, Batched
    <3> HIDE DEF strip
    <3>2. delivered' = delivered \o strip
      BY <2>9 DEF Deliver, strip
    <3>3. controlled => adopted # None /\ Fits(work.batch, adopted)
      BY <2>9 DEF Deliver
    <3>4. UNCHANGED <<controlled, adopted, beganWith>>
      BY <2>9 DEF Deliver
    <3>5. delivered' \in Seq([batch : Batches, row : Nat])
      BY <3>1, <3>2, ConcatProperties
    <3>6. controlled => \A i \in DOMAIN delivered' :
                          Fits(delivered'[i].batch, adopted)
      BY SMTT(60), <3>1, <3>2, <3>3, ConcatProperties
    <3> QED
      BY <3>3, <3>4, <3>5, <3>6
  <2>10. CASE DeliverFails
    BY <2>10 DEF DeliverFails, Forbidden
  <2>11. CASE Finish
    BY <2>11 DEF Finish
  <2>12. CASE CloseFails
    BY <2>12 DEF CloseFails
  <2>13. CASE Close
    BY <2>13 DEF Close
  <2>14. CASE Accepts
    BY <2>14 DEF Accepts
  <2>15. CASE AcceptsUnwinds
    BY <2>15 DEF AcceptsUnwinds
  <2> QED
    BY <1>5, <2>1, <2>2, <2>3, <2>4, <2>5, <2>6, <2>7, <2>8, <2>9, <2>10,
       <2>11, <2>12, <2>13, <2>14, <2>15
       DEF StepNext
<1>6. CASE UNCHANGED vars
  BY <1>6 DEF vars
<1> QED
  BY <1>1, <1>2, <1>3, <1>4, <1>5, <1>6 DEF Next

(* Nothing is adopted and nothing has gone out of a fresh decoder.         *)
LEMMA InitAdoptionInv == Init => AdoptionInv
<1> SUFFICES ASSUME Init PROVE AdoptionInv
  OBVIOUS
<1>1. ControlInv
  BY InitControlInv
<1>2. Standing /\ Gated
  BY DEF Init, Standing, Gated
<1>3. Effects
  BY DEF Init, Effects
<1> QED
  BY <1>1, <1>2, <1>3 DEF AdoptionInv

(* Together: what was adopted gates every sink callback.                   *)
LEMMA StepAdoptionInv == AdoptionInv /\ [Next]_vars => AdoptionInv'
BY StepControlInv, StandingKept, GatedKept, EffectsKept DEF AdoptionInv
-----------------------------------------------------------------------------
(* Every exit into Failed drops the details, a panic's too.                *)
LEMMA DetailsKept ==
  ControlInv /\ DetailsOnSuccessOnly /\ [Next]_vars => DetailsOnSuccessOnly'
<1> SUFFICES ASSUME ControlInv, DetailsOnSuccessOnly, [Next]_vars
             PROVE  DetailsOnSuccessOnly'
  OBVIOUS
<1> USE DEF ControlInv, TypeOK, Points, Positions, Futures,
    DetailsOnSuccessOnly, Leave, Fail, Keep, Polled, Free, Suspend, FailIf,
    Advances, Settled, Settling, Reports, Untouched, SinkRefuses,
    SinkUnwinds, BeginNoted, Resting, control, ids, adoption, author, local,
    history, decoder
<1>1. CASE DriverNext
  <2>1. ASSUME NEW legacy \in BOOLEAN, StepRefused(legacy)
        PROVE  DetailsOnSuccessOnly'
    BY <2>1 DEF StepRefused
  <2>2. ASSUME NEW legacy \in BOOLEAN, StepDone(legacy)
        PROVE  DetailsOnSuccessOnly'
    BY <2>2 DEF StepDone
  <2>3. ASSUME NEW legacy \in BOOLEAN, StepCancelled(legacy)
        PROVE  DetailsOnSuccessOnly'
    BY <2>3 DEF StepCancelled
  <2>4. ASSUME NEW legacy \in BOOLEAN, StepSuspended(legacy)
        PROVE  DetailsOnSuccessOnly'
    BY <2>4 DEF StepSuspended
  <2>5. ASSUME NEW legacy \in BOOLEAN, StepPending(legacy)
        PROVE  DetailsOnSuccessOnly'
    BY <2>5 DEF StepPending
  <2>6. ASSUME NEW legacy \in BOOLEAN, StepFinishing(legacy)
        PROVE  DetailsOnSuccessOnly'
    BY <2>6 DEF StepFinishing
  <2>7. ASSUME NEW legacy \in BOOLEAN, StepPoll(legacy)
        PROVE  DetailsOnSuccessOnly'
    BY <2>7 DEF StepPoll
  <2>8. ASSUME NEW legacy \in BOOLEAN, StepAbsorbFails(legacy)
        PROVE  DetailsOnSuccessOnly'
    BY <2>8 DEF StepAbsorbFails
  <2>9. ASSUME NEW id \in 1 .. MaxId, NEW action \in Actions, Resume(id, action)
        PROVE  DetailsOnSuccessOnly'
    BY <2>9 DEF Resume, ReplyError
  <2>10. ASSUME NEW id \in 1 .. MaxId, NEW action \in Actions, ResumeRefused(id, action)
         PROVE  DetailsOnSuccessOnly'
    BY <2>10 DEF ResumeRefused
  <2>11. CASE TakeDetails
    BY <2>11 DEF TakeDetails
  <2> QED
    BY <1>1, <2>1, <2>2, <2>3, <2>4, <2>5, <2>6, <2>7, <2>8, <2>9, <2>10,
       <2>11
       DEF DriverNext
<1>2. CASE Deposits
  <2>1. ASSUME NEW i \in Infos, SetInfo(i) PROVE DetailsOnSuccessOnly'
    BY <2>1 DEF SetInfo
  <2>2. ASSUME NEW i \in Infos, SetDetails(i) PROVE DetailsOnSuccessOnly'
    BY <2>2 DEF SetDetails
  <2>3. ASSUME NEW d \in Descs, SetOutputDescriptor(d)
        PROVE  DetailsOnSuccessOnly'
    BY <2>3 DEF SetOutputDescriptor
  <2>4. ASSUME NEW b \in Batches, NEW awaited \in BOOLEAN, WriteRows(b, awaited)
        PROVE  DetailsOnSuccessOnly'
    BY <2>4 DEF WriteRows
  <2>5. ASSUME NEW update \in Notices, NEW awaited \in BOOLEAN, Announce(update, awaited)
        PROVE  DetailsOnSuccessOnly'
    BY <2>5 DEF Announce
  <2>6. ASSUME NEW f \in Facts, NEW awaited \in BOOLEAN, Interpret(f, awaited)
        PROVE  DetailsOnSuccessOnly'
    BY <2>6 DEF Interpret
  <2> QED
    BY <1>2, <2>1, <2>2, <2>3, <2>4, <2>5, <2>6 DEF Deposits
<1>3. CASE Awaits
  <2>1. CASE StartInput
    BY <2>1 DEF StartInput
  <2>2. CASE AwaitForeign
    BY <2>2 DEF AwaitForeign
  <2>3. CASE InputReady
    BY <2>3 DEF InputReady
  <2>4. CASE InputFails
    BY <2>4 DEF InputFails
  <2>5. ASSUME NEW awaited \in BOOLEAN, InputWaits(awaited)
        PROVE  DetailsOnSuccessOnly'
    BY <2>5 DEF InputWaits
  <2>6. CASE AwaitReady
    BY <2>6 DEF AwaitReady
  <2>7. CASE InterpretReady
    BY <2>7 DEF InterpretReady
  <2> QED
    BY <1>3, <2>1, <2>2, <2>3, <2>4, <2>5, <2>6, <2>7 DEF Awaits
<1>4. CASE Returns
  <2>1. ASSUME NEW o \in Outputs, ReturnOk(o) PROVE DetailsOnSuccessOnly'
    BY <2>1 DEF ReturnOk
  <2>2. CASE ReturnErr
    BY <2>2 DEF ReturnErr
  <2>3. CASE AuthorPanics
    BY <2>3 DEF AuthorPanics
  <2> QED
    BY <1>4, <2>1, <2>2, <2>3 DEF Returns
<1>5. CASE StepNext
  <2>1. CASE SettleFails
    BY <2>1 DEF SettleFails
  <2>2. CASE SettleBoundary
    BY <2>2 DEF SettleBoundary
  <2>3. CASE SettleComplete
    BY <2>3 DEF SettleComplete
  <2>4. CASE SettleRows
    BY <2>4 DEF SettleRows
  <2>5. CASE SettleMetadata
    BY <2>5 DEF SettleMetadata
  <2>6. CASE SettleNeed
    BY <2>6 DEF SettleNeed
  <2>7. CASE Begin
    BY <2>7 DEF Begin
  <2>8. CASE BeginFails
    BY <2>8 DEF BeginFails
  <2>9. ASSUME NEW most \in 1 .. MaxBuffer, Deliver(most)
        PROVE  DetailsOnSuccessOnly'
    BY <2>9 DEF Deliver
  <2>10. CASE DeliverFails
    BY <2>10 DEF DeliverFails
  <2>11. CASE Finish
    BY <2>11 DEF Finish
  <2>12. CASE CloseFails
    BY <2>12 DEF CloseFails
  <2>13. CASE Close
    BY <2>13 DEF Close
  <2>14. CASE Accepts
    BY <2>14 DEF Accepts
  <2>15. CASE AcceptsUnwinds
    BY <2>15 DEF AcceptsUnwinds
  <2> QED
    BY <1>5, <2>1, <2>2, <2>3, <2>4, <2>5, <2>6, <2>7, <2>8, <2>9, <2>10,
       <2>11, <2>12, <2>13, <2>14, <2>15
       DEF StepNext
<1>6. CASE UNCHANGED vars
  BY <1>6 DEF vars
<1> QED
  BY <1>1, <1>2, <1>3, <1>4, <1>5, <1>6 DEF Next

(* The sink is begun and finished where the decoder says it is.            *)
LEMMA SinkPlacesKept == SinkInv /\ [Next]_vars => SinkPlaces'
<1> SUFFICES ASSUME SinkInv, [Next]_vars PROVE SinkPlaces'
  OBVIOUS
<1> USE DEF SinkInv, SinkPlaces, HeaderKnown, NothingLeft, ControlInv,
    TypeOK, Points, Positions, Futures, Leave, Fail, Keep, Polled, Free, Suspend, FailIf,
    Advances, Settled, Settling, Reports, Untouched, SinkRefuses,
    SinkUnwinds, BeginNoted, Resting, control, ids, adoption, author, local,
    history, decoder
<1>1. CASE DriverNext
  <2>1. ASSUME NEW legacy \in BOOLEAN, StepRefused(legacy) PROVE SinkPlaces'
    BY <2>1 DEF StepRefused
  <2>2. ASSUME NEW legacy \in BOOLEAN, StepDone(legacy) PROVE SinkPlaces'
    BY <2>2 DEF StepDone
  <2>3. ASSUME NEW legacy \in BOOLEAN, StepCancelled(legacy) PROVE SinkPlaces'
    BY <2>3 DEF StepCancelled
  <2>4. ASSUME NEW legacy \in BOOLEAN, StepSuspended(legacy) PROVE SinkPlaces'
    BY <2>4 DEF StepSuspended
  <2>5. ASSUME NEW legacy \in BOOLEAN, StepPending(legacy) PROVE SinkPlaces'
    BY <2>5 DEF StepPending
  <2>6. ASSUME NEW legacy \in BOOLEAN, StepFinishing(legacy) PROVE SinkPlaces'
    BY <2>6 DEF StepFinishing
  <2>7. ASSUME NEW legacy \in BOOLEAN, StepPoll(legacy) PROVE SinkPlaces'
    BY <2>7 DEF StepPoll
  <2>8. ASSUME NEW legacy \in BOOLEAN, StepAbsorbFails(legacy)
        PROVE  SinkPlaces'
    BY <2>8 DEF StepAbsorbFails
  <2>9. ASSUME NEW id \in 1 .. MaxId, NEW action \in Actions, Resume(id, action)
        PROVE  SinkPlaces'
    BY <2>9 DEF Resume, ReplyError
  <2>10. ASSUME NEW id \in 1 .. MaxId, NEW action \in Actions, ResumeRefused(id, action)
         PROVE  SinkPlaces'
    BY <2>10 DEF ResumeRefused
  <2>11. CASE TakeDetails
    BY <2>11 DEF TakeDetails
  <2> QED
    BY <1>1, <2>1, <2>2, <2>3, <2>4, <2>5, <2>6, <2>7, <2>8, <2>9, <2>10,
       <2>11
       DEF DriverNext
<1>2. CASE Deposits
  <2>1. ASSUME NEW i \in Infos, SetInfo(i) PROVE SinkPlaces'
    BY <2>1, CoroutineAssumption DEF SetInfo, Contents
  <2>2. ASSUME NEW i \in Infos, SetDetails(i) PROVE SinkPlaces'
    BY <2>2 DEF SetDetails
  <2>3. ASSUME NEW d \in Descs, SetOutputDescriptor(d) PROVE SinkPlaces'
    BY <2>3, CoroutineAssumption DEF SetOutputDescriptor
  <2>4. ASSUME NEW b \in Batches, NEW awaited \in BOOLEAN, WriteRows(b, awaited)
        PROVE  SinkPlaces'
    BY <2>4 DEF WriteRows
  <2>5. ASSUME NEW update \in Notices, NEW awaited \in BOOLEAN, Announce(update, awaited)
        PROVE  SinkPlaces'
    BY <2>5 DEF Announce
  <2>6. ASSUME NEW f \in Facts, NEW awaited \in BOOLEAN, Interpret(f, awaited)
        PROVE  SinkPlaces'
    BY <2>6 DEF Interpret
  <2> QED
    BY <1>2, <2>1, <2>2, <2>3, <2>4, <2>5, <2>6 DEF Deposits
<1>3. CASE Awaits
  <2>1. CASE StartInput
    BY <2>1 DEF StartInput
  <2>2. CASE AwaitForeign
    BY <2>2 DEF AwaitForeign
  <2>3. CASE InputReady
    BY <2>3 DEF InputReady
  <2>4. CASE InputFails
    BY <2>4 DEF InputFails
  <2>5. ASSUME NEW awaited \in BOOLEAN, InputWaits(awaited) PROVE SinkPlaces'
    BY <2>5 DEF InputWaits
  <2>6. CASE AwaitReady
    BY <2>6 DEF AwaitReady
  <2>7. CASE InterpretReady
    BY <2>7 DEF InterpretReady
  <2> QED
    BY <1>3, <2>1, <2>2, <2>3, <2>4, <2>5, <2>6, <2>7 DEF Awaits
<1>4. CASE Returns
  <2>1. ASSUME NEW o \in Outputs, ReturnOk(o) PROVE SinkPlaces'
    BY <2>1 DEF ReturnOk
  <2>2. CASE ReturnErr
    BY <2>2 DEF ReturnErr
  <2>3. CASE AuthorPanics
    BY <2>3 DEF AuthorPanics
  <2> QED
    BY <1>4, <2>1, <2>2, <2>3 DEF Returns
<1>5. CASE StepNext
  <2>1. CASE SettleFails
    BY <2>1 DEF SettleFails
  <2>2. CASE SettleBoundary
    BY <2>2 DEF SettleBoundary
  <2>3. CASE SettleComplete
    BY <2>3 DEF SettleComplete
  <2>4. CASE SettleRows
    BY <2>4 DEF SettleRows
  <2>5. CASE SettleMetadata
    BY <2>5 DEF SettleMetadata
  <2>6. CASE SettleNeed
    BY <2>6 DEF SettleNeed
  <2>7. CASE Begin
    BY <2>7 DEF Begin
  <2>8. CASE BeginFails
    BY <2>8 DEF BeginFails
  <2>9. ASSUME NEW most \in 1 .. MaxBuffer, Deliver(most) PROVE SinkPlaces'
    BY <2>9 DEF Deliver
  <2>10. CASE DeliverFails
    BY <2>10 DEF DeliverFails
  <2>11. CASE Finish
    BY <2>11 DEF Finish
  <2>12. CASE CloseFails
    BY <2>12 DEF CloseFails
  <2>13. CASE Close
    BY <2>13 DEF Close
  <2>14. CASE Accepts
    BY <2>14 DEF Accepts
  <2>15. CASE AcceptsUnwinds
    BY <2>15 DEF AcceptsUnwinds
  <2> QED
    BY <1>5, <2>1, <2>2, <2>3, <2>4, <2>5, <2>6, <2>7, <2>8, <2>9, <2>10,
       <2>11, <2>12, <2>13, <2>14, <2>15
       DEF StepNext
<1>6. CASE UNCHANGED vars
  BY <1>6 DEF vars
<1> QED
  BY <1>1, <1>2, <1>3, <1>4, <1>5, <1>6 DEF Next

(* A complete future's rows go out before the decoder finishes.            *)
LEMMA NothingLeftKept == SinkInv /\ [Next]_vars => NothingLeft'
<1> SUFFICES ASSUME SinkInv, [Next]_vars PROVE NothingLeft'
  OBVIOUS
<1> USE CoroutineAssumption DEF SinkInv, SinkPlaces, NothingLeft, ControlInv,
    TypeOK, Positions, Futures, Leave, Fail, Keep, Polled, Free, Suspend,
    FailIf, Advances, Settled, Settling, Reports, Untouched, SinkRefuses,
    SinkUnwinds, BeginNoted, Resting, control, ids, adoption, author, local,
    history, decoder
<1>1. CASE DriverNext
  <2>1. ASSUME NEW legacy \in BOOLEAN, StepRefused(legacy) PROVE NothingLeft'
    BY <2>1 DEF StepRefused
  <2>2. ASSUME NEW legacy \in BOOLEAN, StepDone(legacy) PROVE NothingLeft'
    BY <2>2 DEF StepDone
  <2>3. ASSUME NEW legacy \in BOOLEAN, StepCancelled(legacy)
        PROVE  NothingLeft'
    BY <2>3 DEF StepCancelled
  <2>4. ASSUME NEW legacy \in BOOLEAN, StepSuspended(legacy)
        PROVE  NothingLeft'
    BY <2>4 DEF StepSuspended
  <2>5. ASSUME NEW legacy \in BOOLEAN, StepPending(legacy) PROVE NothingLeft'
    BY <2>5 DEF StepPending
  <2>6. ASSUME NEW legacy \in BOOLEAN, StepFinishing(legacy)
        PROVE  NothingLeft'
    BY <2>6 DEF StepFinishing
  <2>7. ASSUME NEW legacy \in BOOLEAN, StepPoll(legacy) PROVE NothingLeft'
    BY <2>7 DEF StepPoll
  <2>8. ASSUME NEW legacy \in BOOLEAN, StepAbsorbFails(legacy)
        PROVE  NothingLeft'
    BY <2>8 DEF StepAbsorbFails
  <2>9. ASSUME NEW id \in 1 .. MaxId, NEW action \in Actions, Resume(id, action)
        PROVE  NothingLeft'
    BY <2>9 DEF Resume, ReplyError
  <2>10. ASSUME NEW id \in 1 .. MaxId, NEW action \in Actions, ResumeRefused(id, action)
         PROVE  NothingLeft'
    BY <2>10 DEF ResumeRefused
  <2>11. CASE TakeDetails
    BY <2>11 DEF TakeDetails
  <2> QED
    BY <1>1, <2>1, <2>2, <2>3, <2>4, <2>5, <2>6, <2>7, <2>8, <2>9, <2>10,
       <2>11
       DEF DriverNext
<1>2. CASE Deposits
  <2>1. ASSUME NEW i \in Infos, SetInfo(i) PROVE NothingLeft'
    BY <2>1 DEF SetInfo
  <2>2. ASSUME NEW i \in Infos, SetDetails(i) PROVE NothingLeft'
    BY <2>2 DEF SetDetails
  <2>3. ASSUME NEW d \in Descs, SetOutputDescriptor(d) PROVE NothingLeft'
    BY <2>3 DEF SetOutputDescriptor
  <2>4. ASSUME NEW b \in Batches, NEW awaited \in BOOLEAN, WriteRows(b, awaited)
        PROVE  NothingLeft'
    BY <2>4 DEF WriteRows
  <2>5. ASSUME NEW update \in Notices, NEW awaited \in BOOLEAN, Announce(update, awaited)
        PROVE  NothingLeft'
    BY <2>5 DEF Announce
  <2>6. ASSUME NEW f \in Facts, NEW awaited \in BOOLEAN, Interpret(f, awaited)
        PROVE  NothingLeft'
    BY <2>6 DEF Interpret
  <2> QED
    BY <1>2, <2>1, <2>2, <2>3, <2>4, <2>5, <2>6 DEF Deposits
<1>3. CASE Awaits
  <2>1. CASE StartInput
    BY <2>1 DEF StartInput
  <2>2. CASE AwaitForeign
    BY <2>2 DEF AwaitForeign
  <2>3. CASE InputReady
    BY <2>3 DEF InputReady
  <2>4. CASE InputFails
    BY <2>4 DEF InputFails
  <2>5. ASSUME NEW awaited \in BOOLEAN, InputWaits(awaited) PROVE NothingLeft'
    BY <2>5 DEF InputWaits
  <2>6. CASE AwaitReady
    BY <2>6 DEF AwaitReady
  <2>7. CASE InterpretReady
    BY <2>7 DEF InterpretReady
  <2> QED
    BY <1>3, <2>1, <2>2, <2>3, <2>4, <2>5, <2>6, <2>7 DEF Awaits
<1>4. CASE Returns
  <2>1. ASSUME NEW o \in Outputs, ReturnOk(o) PROVE NothingLeft'
    BY <2>1 DEF ReturnOk
  <2>2. CASE ReturnErr
    BY <2>2 DEF ReturnErr
  <2>3. CASE AuthorPanics
    BY <2>3 DEF AuthorPanics
  <2> QED
    BY <1>4, <2>1, <2>2, <2>3 DEF Returns
<1>5. CASE StepNext
  <2>1. CASE SettleFails
    BY <2>1 DEF SettleFails, TakeEvent
  <2>2. CASE SettleBoundary
    BY <2>2 DEF SettleBoundary
  <2>3. CASE SettleComplete
    BY <2>3 DEF SettleComplete, TakeEvent, Event, Violation
  <2>4. CASE SettleRows
    BY <2>4 DEF SettleRows, TakeEvent, Event, Violation
  <2>5. CASE SettleMetadata
    BY <2>5 DEF SettleMetadata, TakeEvent, Event, Violation
  <2>6. CASE SettleNeed
    BY <2>6 DEF SettleNeed
  <2>7. CASE Begin
    BY <2>7 DEF Begin
  <2>8. CASE BeginFails
    BY <2>8 DEF BeginFails
  <2>9. ASSUME NEW most \in 1 .. MaxBuffer, Deliver(most) PROVE NothingLeft'
    BY <2>9 DEF Deliver
  <2>10. CASE DeliverFails
    BY <2>10 DEF DeliverFails
  <2>11. CASE Finish
    BY <2>11 DEF Finish
  <2>12. CASE CloseFails
    BY <2>12 DEF CloseFails
  <2>13. CASE Close
    BY <2>13 DEF Close
  <2>14. CASE Accepts
    BY <2>14 DEF Accepts
  <2>15. CASE AcceptsUnwinds
    BY <2>15 DEF AcceptsUnwinds
  <2> QED
    BY <1>5, <2>1, <2>2, <2>3, <2>4, <2>5, <2>6, <2>7, <2>8, <2>9, <2>10,
       <2>11, <2>12, <2>13, <2>14, <2>15
       DEF StepNext
<1>6. CASE UNCHANGED vars
  BY <1>6 DEF vars
<1> QED
  BY <1>1, <1>2, <1>3, <1>4, <1>5, <1>6 DEF Next

(* Between the comparison in finish and Done, no compared value changes.   *)
LEMMA ComparedKept ==
  ResultInv /\ [Next]_vars => Compared'
<1> SUFFICES ASSUME ResultInv, [Next]_vars PROVE Compared'
  OBVIOUS
<1> USE CoroutineAssumption DEF ResultInv, SinkInv, SinkPlaces, NothingLeft,
    AdoptionInv, Standing, Gated, Compared, ResultDisagrees, ControlInv,
    TypeOK, Positions, Futures, Leave, Fail, Keep, Polled, Free, Suspend,
    FailIf, Advances, Settled, Settling, Reports, Untouched, SinkRefuses,
    SinkUnwinds, BeginNoted, Resting, control, ids, adoption, author, local,
    history, decoder
<1>1. CASE DriverNext
  <2>1. ASSUME NEW legacy \in BOOLEAN, StepRefused(legacy) PROVE Compared'
    BY <2>1 DEF StepRefused
  <2>2. ASSUME NEW legacy \in BOOLEAN, StepDone(legacy) PROVE Compared'
    BY <2>2 DEF StepDone
  <2>3. ASSUME NEW legacy \in BOOLEAN, StepCancelled(legacy) PROVE Compared'
    BY <2>3 DEF StepCancelled
  <2>4. ASSUME NEW legacy \in BOOLEAN, StepSuspended(legacy) PROVE Compared'
    BY <2>4 DEF StepSuspended
  <2>5. ASSUME NEW legacy \in BOOLEAN, StepPending(legacy) PROVE Compared'
    BY <2>5 DEF StepPending
  <2>6. ASSUME NEW legacy \in BOOLEAN, StepFinishing(legacy) PROVE Compared'
    BY <2>6 DEF StepFinishing
  <2>7. ASSUME NEW legacy \in BOOLEAN, StepPoll(legacy) PROVE Compared'
    BY <2>7 DEF StepPoll
  <2>8. ASSUME NEW legacy \in BOOLEAN, StepAbsorbFails(legacy) PROVE Compared'
    BY <2>8 DEF StepAbsorbFails
  <2>9. ASSUME NEW id \in 1 .. MaxId, NEW action \in Actions, Resume(id, action)
        PROVE  Compared'
    BY <2>9 DEF Resume, ReplyError
  <2>10. ASSUME NEW id \in 1 .. MaxId, NEW action \in Actions, ResumeRefused(id, action)
         PROVE  Compared'
    BY <2>10 DEF ResumeRefused
  <2>11. CASE TakeDetails
    BY <2>11 DEF TakeDetails
  <2> QED
    BY <1>1, <2>1, <2>2, <2>3, <2>4, <2>5, <2>6, <2>7, <2>8, <2>9, <2>10,
       <2>11
       DEF DriverNext
<1>2. CASE Deposits
  <2>1. ASSUME NEW i \in Infos, SetInfo(i) PROVE Compared'
    BY <2>1 DEF SetInfo
  <2>2. ASSUME NEW i \in Infos, SetDetails(i) PROVE Compared'
    BY <2>2 DEF SetDetails
  <2>3. ASSUME NEW d \in Descs, SetOutputDescriptor(d) PROVE Compared'
    BY <2>3 DEF SetOutputDescriptor
  <2>4. ASSUME NEW b \in Batches, NEW awaited \in BOOLEAN, WriteRows(b, awaited)
        PROVE  Compared'
    BY <2>4 DEF WriteRows
  <2>5. ASSUME NEW update \in Notices, NEW awaited \in BOOLEAN, Announce(update, awaited)
        PROVE  Compared'
    BY <2>5 DEF Announce
  <2>6. ASSUME NEW f \in Facts, NEW awaited \in BOOLEAN, Interpret(f, awaited)
        PROVE  Compared'
    BY <2>6 DEF Interpret
  <2> QED
    BY <1>2, <2>1, <2>2, <2>3, <2>4, <2>5, <2>6 DEF Deposits
<1>3. CASE Awaits
  <2>1. CASE StartInput
    BY <2>1 DEF StartInput
  <2>2. CASE AwaitForeign
    BY <2>2 DEF AwaitForeign
  <2>3. CASE InputReady
    BY <2>3 DEF InputReady
  <2>4. CASE InputFails
    BY <2>4 DEF InputFails
  <2>5. ASSUME NEW awaited \in BOOLEAN, InputWaits(awaited) PROVE Compared'
    BY <2>5 DEF InputWaits
  <2>6. CASE AwaitReady
    BY <2>6 DEF AwaitReady
  <2>7. CASE InterpretReady
    BY <2>7 DEF InterpretReady
  <2> QED
    BY <1>3, <2>1, <2>2, <2>3, <2>4, <2>5, <2>6, <2>7 DEF Awaits
<1>4. CASE Returns
  <2>1. ASSUME NEW o \in Outputs, ReturnOk(o) PROVE Compared'
    BY <2>1 DEF ReturnOk
  <2>2. CASE ReturnErr
    BY <2>2 DEF ReturnErr
  <2>3. CASE AuthorPanics
    BY <2>3 DEF AuthorPanics
  <2> QED
    BY <1>4, <2>1, <2>2, <2>3 DEF Returns
<1>5. CASE StepNext
  <2>1. CASE SettleFails
    BY <2>1 DEF SettleFails
  <2>2. CASE SettleBoundary
    BY <2>2 DEF SettleBoundary
  <2>3. CASE SettleComplete
    BY <2>3 DEF SettleComplete
  <2>4. CASE SettleRows
    BY <2>4 DEF SettleRows
  <2>5. CASE SettleMetadata
    BY <2>5 DEF SettleMetadata
  <2>6. CASE SettleNeed
    BY <2>6 DEF SettleNeed
  <2>7. CASE Begin
    BY <2>7 DEF Begin
  <2>8. CASE BeginFails
    BY <2>8 DEF BeginFails
  <2>9. ASSUME NEW most \in 1 .. MaxBuffer, Deliver(most) PROVE Compared'
    BY <2>9 DEF Deliver
  <2>10. CASE DeliverFails
    BY <2>10 DEF DeliverFails
  <2>11. CASE Finish
    BY <2>11 DEF Finish, Forbidden, Permits, HeaderKnown
  <2>12. CASE CloseFails
    BY <2>12 DEF CloseFails
  <2>13. CASE Close
    BY <2>13 DEF Close
  <2>14. CASE Accepts
    BY <2>14 DEF Accepts
  <2>15. CASE AcceptsUnwinds
    BY <2>15 DEF AcceptsUnwinds
  <2> QED
    BY <1>5, <2>1, <2>2, <2>3, <2>4, <2>5, <2>6, <2>7, <2>8, <2>9, <2>10,
       <2>11, <2>12, <2>13, <2>14, <2>15
       DEF StepNext
<1>6. CASE UNCHANGED vars
  BY <1>6 DEF vars
<1> QED
  BY <1>1, <1>2, <1>3, <1>4, <1>5, <1>6 DEF Next

(* So a controlled Done is what was adopted.                               *)
LEMMA ResultKept ==
  ResultInv /\ [Next]_vars => ResultIsAdopted'
<1> SUFFICES ASSUME ResultInv, [Next]_vars PROVE ResultIsAdopted'
  OBVIOUS
<1> USE CoroutineAssumption DEF ResultInv, SinkInv, SinkPlaces, NothingLeft,
    AdoptionInv, Standing, Gated, Compared, ResultIsAdopted, ControlInv,
    TypeOK, Positions, Futures, Leave, Fail, Keep, Polled, Free, Suspend,
    FailIf, Advances, Settled, Settling, Reports, Untouched, SinkRefuses,
    SinkUnwinds, BeginNoted, Resting, control, ids, adoption, author, local,
    history, decoder
<1>1. CASE DriverNext
  <2>1. ASSUME NEW legacy \in BOOLEAN, StepRefused(legacy)
        PROVE  ResultIsAdopted'
    BY <2>1 DEF StepRefused
  <2>2. ASSUME NEW legacy \in BOOLEAN, StepDone(legacy) PROVE ResultIsAdopted'
    BY <2>2 DEF StepDone
  <2>3. ASSUME NEW legacy \in BOOLEAN, StepCancelled(legacy)
        PROVE  ResultIsAdopted'
    BY <2>3 DEF StepCancelled
  <2>4. ASSUME NEW legacy \in BOOLEAN, StepSuspended(legacy)
        PROVE  ResultIsAdopted'
    BY <2>4 DEF StepSuspended
  <2>5. ASSUME NEW legacy \in BOOLEAN, StepPending(legacy)
        PROVE  ResultIsAdopted'
    BY <2>5 DEF StepPending
  <2>6. ASSUME NEW legacy \in BOOLEAN, StepFinishing(legacy)
        PROVE  ResultIsAdopted'
    BY <2>6 DEF StepFinishing
  <2>7. ASSUME NEW legacy \in BOOLEAN, StepPoll(legacy) PROVE ResultIsAdopted'
    BY <2>7 DEF StepPoll
  <2>8. ASSUME NEW legacy \in BOOLEAN, StepAbsorbFails(legacy)
        PROVE  ResultIsAdopted'
    BY <2>8 DEF StepAbsorbFails
  <2>9. ASSUME NEW id \in 1 .. MaxId, NEW action \in Actions, Resume(id, action)
        PROVE  ResultIsAdopted'
    BY <2>9 DEF Resume, ReplyError
  <2>10. ASSUME NEW id \in 1 .. MaxId, NEW action \in Actions, ResumeRefused(id, action)
         PROVE  ResultIsAdopted'
    BY <2>10 DEF ResumeRefused
  <2>11. CASE TakeDetails
    BY <2>11 DEF TakeDetails
  <2> QED
    BY <1>1, <2>1, <2>2, <2>3, <2>4, <2>5, <2>6, <2>7, <2>8, <2>9, <2>10,
       <2>11
       DEF DriverNext
<1>2. CASE Deposits
  <2>1. ASSUME NEW i \in Infos, SetInfo(i) PROVE ResultIsAdopted'
    BY <2>1 DEF SetInfo
  <2>2. ASSUME NEW i \in Infos, SetDetails(i) PROVE ResultIsAdopted'
    BY <2>2 DEF SetDetails
  <2>3. ASSUME NEW d \in Descs, SetOutputDescriptor(d) PROVE ResultIsAdopted'
    BY <2>3 DEF SetOutputDescriptor
  <2>4. ASSUME NEW b \in Batches, NEW awaited \in BOOLEAN, WriteRows(b, awaited)
        PROVE  ResultIsAdopted'
    BY <2>4 DEF WriteRows
  <2>5. ASSUME NEW update \in Notices, NEW awaited \in BOOLEAN, Announce(update, awaited)
        PROVE  ResultIsAdopted'
    BY <2>5 DEF Announce
  <2>6. ASSUME NEW f \in Facts, NEW awaited \in BOOLEAN, Interpret(f, awaited)
        PROVE  ResultIsAdopted'
    BY <2>6 DEF Interpret
  <2> QED
    BY <1>2, <2>1, <2>2, <2>3, <2>4, <2>5, <2>6 DEF Deposits
<1>3. CASE Awaits
  <2>1. CASE StartInput
    BY <2>1 DEF StartInput
  <2>2. CASE AwaitForeign
    BY <2>2 DEF AwaitForeign
  <2>3. CASE InputReady
    BY <2>3 DEF InputReady
  <2>4. CASE InputFails
    BY <2>4 DEF InputFails
  <2>5. ASSUME NEW awaited \in BOOLEAN, InputWaits(awaited)
        PROVE  ResultIsAdopted'
    BY <2>5 DEF InputWaits
  <2>6. CASE AwaitReady
    BY <2>6 DEF AwaitReady
  <2>7. CASE InterpretReady
    BY <2>7 DEF InterpretReady
  <2> QED
    BY <1>3, <2>1, <2>2, <2>3, <2>4, <2>5, <2>6, <2>7 DEF Awaits
<1>4. CASE Returns
  <2>1. ASSUME NEW o \in Outputs, ReturnOk(o) PROVE ResultIsAdopted'
    BY <2>1 DEF ReturnOk
  <2>2. CASE ReturnErr
    BY <2>2 DEF ReturnErr
  <2>3. CASE AuthorPanics
    BY <2>3 DEF AuthorPanics
  <2> QED
    BY <1>4, <2>1, <2>2, <2>3 DEF Returns
<1>5. CASE StepNext
  <2>1. CASE SettleFails
    BY <2>1 DEF SettleFails
  <2>2. CASE SettleBoundary
    BY <2>2 DEF SettleBoundary
  <2>3. CASE SettleComplete
    BY <2>3 DEF SettleComplete
  <2>4. CASE SettleRows
    BY <2>4 DEF SettleRows
  <2>5. CASE SettleMetadata
    BY <2>5 DEF SettleMetadata
  <2>6. CASE SettleNeed
    BY <2>6 DEF SettleNeed
  <2>7. CASE Begin
    BY <2>7 DEF Begin
  <2>8. CASE BeginFails
    BY <2>8 DEF BeginFails
  <2>9. ASSUME NEW most \in 1 .. MaxBuffer, Deliver(most)
        PROVE  ResultIsAdopted'
    BY <2>9 DEF Deliver
  <2>10. CASE DeliverFails
    BY <2>10 DEF DeliverFails
  <2>11. CASE Finish
    BY <2>11 DEF Finish
  <2>12. CASE CloseFails
    BY <2>12 DEF CloseFails
  <2>13. CASE Close
    BY <2>13 DEF Close, ResultDisagrees, Permits
  <2>14. CASE Accepts
    BY <2>14 DEF Accepts
  <2>15. CASE AcceptsUnwinds
    BY <2>15 DEF AcceptsUnwinds
  <2> QED
    BY <1>5, <2>1, <2>2, <2>3, <2>4, <2>5, <2>6, <2>7, <2>8, <2>9, <2>10,
       <2>11, <2>12, <2>13, <2>14, <2>15
       DEF StepNext
<1>6. CASE UNCHANGED vars
  BY <1>6 DEF vars
<1> QED
  BY <1>1, <1>2, <1>3, <1>4, <1>5, <1>6 DEF Next

(* A fresh decoder has compared nothing and is not done.                   *)
LEMMA InitResultInv == Init => ResultInv
<1> SUFFICES ASSUME Init PROVE ResultInv
  OBVIOUS
<1>1. AdoptionInv /\ ControlInv
  BY InitAdoptionInv DEF AdoptionInv
<1>2. SinkPlaces /\ NothingLeft
  BY DEF Init, SinkPlaces, NothingLeft
<1>3. Compared /\ ResultIsAdopted
  BY DEF Init, Compared, ResultIsAdopted
<1> QED
  BY <1>1, <1>2, <1>3 DEF ResultInv, SinkInv

(* Together: the invariant of the whole decoder.                           *)
LEMMA StepResultInv == ResultInv /\ [Next]_vars => ResultInv'
<1> SUFFICES ASSUME ResultInv, [Next]_vars PROVE ResultInv'
  OBVIOUS
<1>1. AdoptionInv' /\ ControlInv'
  BY StepAdoptionInv DEF ResultInv, AdoptionInv
<1>2. SinkPlaces' /\ NothingLeft'
  BY SinkPlacesKept, NothingLeftKept DEF ResultInv
<1>3. Compared' /\ ResultIsAdopted'
  BY ComparedKept, ResultKept
<1> QED
  BY <1>1, <1>2, <1>3 DEF ResultInv, SinkInv

(* The decoder is always in a state its code can be in, with the state     *)
(* Failed at every program point whose callback may unwind.                *)
THEOREM TypeCorrect == Spec => []TypeOK
<1>1. ControlInv => TypeOK
  BY DEF ControlInv
<1> QED
  BY <1>1, InitControlInv, StepControlInv, PTL DEF Spec

(* A controlled decoder has no effect on the sink before final facts are   *)
(* adopted, and begins and delivers only what was adopted: for any facts,  *)
(* batches and order of the author's deposits.                             *)
THEOREM OutputIsAdopted == Spec => []AdoptionGatesOutput
<1>1. AdoptionInv => AdoptionGatesOutput
  BY DEF AdoptionInv, Effects, Fits, AdoptionGatesOutput
<1> QED
  BY <1>1, InitAdoptionInv, StepAdoptionInv, PTL DEF Spec

(* A controlled Done is the image that was adopted, its sink finished and  *)
(* its result and details equal to what was adopted.                       *)
THEOREM DoneIsAdopted == Spec => []ResultIsAdopted
<1>1. ResultInv => ResultIsAdopted
  BY DEF ResultInv
<1> QED
  BY <1>1, InitResultInv, StepResultInv, PTL DEF Spec

(* A failed decoder keeps no details, by whatever exit it failed.          *)
THEOREM DetailsOfSuccess == Spec => []DetailsOnSuccessOnly
<1>1. Init => ControlInv /\ DetailsOnSuccessOnly
  BY InitControlInv DEF Init, DetailsOnSuccessOnly
<1>2. ControlInv /\ DetailsOnSuccessOnly /\ [Next]_vars =>
        (ControlInv /\ DetailsOnSuccessOnly)'
  BY StepControlInv, DetailsKept
<1> QED
  BY <1>1, <1>2, PTL DEF Spec

(* Only the driver moves a decoder that rests.                             *)
LEMMA OnlyTheDriver == Deposits \/ Awaits \/ Returns \/ StepNext => pc # "idle"
<1>1. Deposits \/ Awaits => pc = "poll"
  BY
     DEF Deposits, Awaits, SetInfo, SetDetails, SetOutputDescriptor,
       WriteRows, Announce, Interpret, StartInput, AwaitForeign, InputReady,
       InputFails, InputWaits, AwaitReady, InterpretReady, Free, Polled
<1>2. Returns => pc = "poll"
  BY DEF Returns, ReturnOk, ReturnErr, AuthorPanics, Free, Polled
<1>3. StepNext => pc # "idle"
  BY DEF StepNext, SettleFails, SettleBoundary, SettleComplete, SettleRows,
     SettleMetadata, SettleNeed, Begin, BeginFails, Accepts, AcceptsUnwinds,
     Deliver, DeliverFails, Finish, CloseFails, Close, Reports, Settling
<1> QED
  BY <1>1, <1>2, <1>3

(* Failed answers Finished to everything, Done answers Done, and neither   *)
(* touches the sink or the future.                                         *)
THEOREM EndsAreFinal == Spec => Terminal
<1> DEFINE A ==
      /\ pc = "idle" /\ state = "Failed" =>
           /\ state' = "Failed" /\ pc' = "idle" /\ last'.outcome = "Finished"
           /\ UNCHANGED <<sink, touched, delivered, future>>
      /\ pc = "idle" /\ state = "Done" =>
           /\ state' \in {"Done", "Failed"} /\ pc' = "idle"
           /\ last'.outcome = "Done" => last'.consumed = 0 /\ output' = output
           /\ UNCHANGED <<sink, touched, delivered, future>>
<1>1. Next => A
  <2> SUFFICES ASSUME Next PROVE A
    OBVIOUS
  <2> USE DEF Leave, Fail, Keep, Advances, ReplyError, control, ids, adoption,
      author, local
  <2>1. CASE DriverNext
    <3>1. ASSUME NEW legacy \in BOOLEAN, StepRefused(legacy) PROVE A
      BY <3>1 DEF StepRefused
    <3>2. ASSUME NEW legacy \in BOOLEAN, StepDone(legacy) PROVE A
      BY <3>2 DEF StepDone
    <3>3. ASSUME NEW legacy \in BOOLEAN, StepCancelled(legacy) PROVE A
      BY <3>3 DEF StepCancelled
    <3>4. ASSUME NEW legacy \in BOOLEAN, StepSuspended(legacy) PROVE A
      BY <3>4 DEF StepSuspended
    <3>5. ASSUME NEW legacy \in BOOLEAN, StepPending(legacy) PROVE A
      BY <3>5 DEF StepPending
    <3>6. ASSUME NEW legacy \in BOOLEAN, StepFinishing(legacy) PROVE A
      BY <3>6 DEF StepFinishing
    <3>7. ASSUME NEW legacy \in BOOLEAN, StepPoll(legacy) PROVE A
      BY <3>7 DEF StepPoll
    <3>8. ASSUME NEW legacy \in BOOLEAN, StepAbsorbFails(legacy) PROVE A
      BY <3>8 DEF StepAbsorbFails
    <3>9. ASSUME NEW id \in 1 .. MaxId, NEW action \in Actions, Resume(id, action)
          PROVE  A
      BY <3>9 DEF Resume
    <3>10. ASSUME NEW id \in 1 .. MaxId, NEW action \in Actions, ResumeRefused(id, action)
           PROVE  A
      BY <3>10 DEF ResumeRefused
    <3>11. CASE TakeDetails
      BY <3>11 DEF TakeDetails
    <3> QED
      BY <2>1, <3>1, <3>2, <3>3, <3>4, <3>5, <3>6, <3>7, <3>8, <3>9, <3>10,
         <3>11
         DEF DriverNext
  <2> HIDE DEF Leave, Fail, Keep, Advances, ReplyError, control, ids, adoption,
      author, local
  <2>2. CASE ~DriverNext
    BY <2>2, OnlyTheDriver DEF Next
  <2> QED
    BY <2>1, <2>2
<1> QED
  BY <1>1, PTL DEF Spec, Terminal

(* A future that returned or panicked is never polled again.               *)
THEOREM NotPolledAgain == Spec => FutureNotRepolled
<1> DEFINE A == pc # "poll" /\ pc' = "poll" => future = "live"
<1>1. ControlInv /\ Next => A
  <2> SUFFICES ASSUME ControlInv, Next PROVE A
    OBVIOUS
  <2> USE DEF ControlInv, Futures, Leave, Fail, Keep, Polled, Free, Suspend,
      FailIf, Advances, Settled, Settling, Reports, Untouched, SinkRefuses,
      SinkUnwinds, BeginNoted, Resting, control, ids, adoption, author, local,
      history, decoder
  <2>1. CASE DriverNext
    <3>1. ASSUME NEW legacy \in BOOLEAN, StepRefused(legacy) PROVE A
      BY <3>1 DEF StepRefused
    <3>2. ASSUME NEW legacy \in BOOLEAN, StepDone(legacy) PROVE A
      BY <3>2 DEF StepDone
    <3>3. ASSUME NEW legacy \in BOOLEAN, StepCancelled(legacy) PROVE A
      BY <3>3 DEF StepCancelled
    <3>4. ASSUME NEW legacy \in BOOLEAN, StepSuspended(legacy) PROVE A
      BY <3>4 DEF StepSuspended
    <3>5. ASSUME NEW legacy \in BOOLEAN, StepPending(legacy) PROVE A
      BY <3>5 DEF StepPending
    <3>6. ASSUME NEW legacy \in BOOLEAN, StepFinishing(legacy) PROVE A
      BY <3>6 DEF StepFinishing
    <3>7. ASSUME NEW legacy \in BOOLEAN, StepPoll(legacy) PROVE A
      BY <3>7 DEF StepPoll
    <3>8. ASSUME NEW legacy \in BOOLEAN, StepAbsorbFails(legacy) PROVE A
      BY <3>8 DEF StepAbsorbFails
    <3>9. ASSUME NEW id \in 1 .. MaxId, NEW action \in Actions, Resume(id, action)
          PROVE  A
      BY <3>9 DEF Resume
    <3>10. ASSUME NEW id \in 1 .. MaxId, NEW action \in Actions, ResumeRefused(id, action)
           PROVE  A
      BY <3>10 DEF ResumeRefused
    <3>11. CASE TakeDetails
      BY <3>11 DEF TakeDetails
    <3> QED
      BY <2>1, <3>1, <3>2, <3>3, <3>4, <3>5, <3>6, <3>7, <3>8, <3>9, <3>10,
         <3>11
         DEF DriverNext
  <2>2. CASE Deposits
    <3>1. ASSUME NEW i \in Infos, SetInfo(i) PROVE A
      BY <3>1 DEF SetInfo
    <3>2. ASSUME NEW i \in Infos, SetDetails(i) PROVE A
      BY <3>2 DEF SetDetails
    <3>3. ASSUME NEW d \in Descs, SetOutputDescriptor(d) PROVE A
      BY <3>3 DEF SetOutputDescriptor
    <3>4. ASSUME NEW b \in Batches, NEW awaited \in BOOLEAN, WriteRows(b, awaited)
          PROVE  A
      BY <3>4 DEF WriteRows
    <3>5. ASSUME NEW update \in Notices, NEW awaited \in BOOLEAN, Announce(update, awaited)
          PROVE  A
      BY <3>5 DEF Announce
    <3>6. ASSUME NEW f \in Facts, NEW awaited \in BOOLEAN, Interpret(f, awaited)
          PROVE  A
      BY <3>6 DEF Interpret
    <3> QED
      BY <2>2, <3>1, <3>2, <3>3, <3>4, <3>5, <3>6 DEF Deposits
  <2>3. CASE Awaits
    <3>1. CASE StartInput
      BY <3>1 DEF StartInput
    <3>2. CASE AwaitForeign
      BY <3>2 DEF AwaitForeign
    <3>3. CASE InputReady
      BY <3>3 DEF InputReady
    <3>4. CASE InputFails
      BY <3>4 DEF InputFails
    <3>5. ASSUME NEW awaited \in BOOLEAN, InputWaits(awaited) PROVE A
      BY <3>5 DEF InputWaits
    <3>6. CASE AwaitReady
      BY <3>6 DEF AwaitReady
    <3>7. CASE InterpretReady
      BY <3>7 DEF InterpretReady
    <3> QED
      BY <2>3, <3>1, <3>2, <3>3, <3>4, <3>5, <3>6, <3>7 DEF Awaits
  <2>4. CASE Returns
    <3>1. ASSUME NEW o \in Outputs, ReturnOk(o) PROVE A
      BY <3>1 DEF ReturnOk
    <3>2. CASE ReturnErr
      BY <3>2 DEF ReturnErr
    <3>3. CASE AuthorPanics
      BY <3>3 DEF AuthorPanics
    <3> QED
      BY <2>4, <3>1, <3>2, <3>3 DEF Returns
  <2>5. CASE StepNext
    <3>1. CASE SettleFails
      BY <3>1 DEF SettleFails
    <3>2. CASE SettleBoundary
      BY <3>2 DEF SettleBoundary
    <3>3. CASE SettleComplete
      BY <3>3 DEF SettleComplete
    <3>4. CASE SettleRows
      BY <3>4 DEF SettleRows
    <3>5. CASE SettleMetadata
      BY <3>5 DEF SettleMetadata
    <3>6. CASE SettleNeed
      BY <3>6 DEF SettleNeed
    <3>7. CASE Begin
      BY <3>7 DEF Begin
    <3>8. CASE BeginFails
      BY <3>8 DEF BeginFails
    <3>9. ASSUME NEW most \in 1 .. MaxBuffer, Deliver(most) PROVE A
      BY <3>9 DEF Deliver
    <3>10. CASE DeliverFails
      BY <3>10 DEF DeliverFails
    <3>11. CASE Finish
      BY <3>11 DEF Finish
    <3>12. CASE CloseFails
      BY <3>12 DEF CloseFails
    <3>13. CASE Close
      BY <3>13 DEF Close
    <3>14. CASE Accepts
      BY <3>14 DEF Accepts
    <3>15. CASE AcceptsUnwinds
      BY <3>15 DEF AcceptsUnwinds
    <3> QED
      BY <2>5, <3>1, <3>2, <3>3, <3>4, <3>5, <3>6, <3>7, <3>8, <3>9, <3>10,
         <3>11, <3>12, <3>13, <3>14, <3>15
         DEF StepNext
  <2> QED
    BY <2>1, <2>2, <2>3, <2>4, <2>5 DEF Next
<1> QED
  BY <1>1, InitControlInv, StepControlInv, PTL DEF Spec, FutureNotRepolled

(* The sink is begun once unless it unwound, before its first rows, and    *)
(* finished once, before Done and with nothing left to deliver.            *)
THEOREM SinkInOrder == Spec => SinkProtocol
<1> DEFINE A ==
      /\ sink' # sink => <<sink, sink'>> \in {<<"untouched", "begun">>,
                                              <<"begun", "finished">>}
      /\ pc = "begin" => sink = "untouched" \/ (sink = "begun" /\ unwound)
      /\ delivered' # delivered => sink = "begun"
      /\ state' = "Done" => /\ sink # "untouched" => sink' = "finished"
                            /\ pending = NoWork /\ rows = None
<1>1. SinkInv /\ Next => A
  <2> SUFFICES ASSUME SinkInv, Next PROVE A
    OBVIOUS
  <2> USE DEF SinkInv, SinkPlaces, NothingLeft, ControlInv, TypeOK, Points,
      Futures, Leave, Fail, Keep, Polled, Free, Suspend, FailIf, Advances,
      Settled, Settling, Reports, Untouched, SinkRefuses, SinkUnwinds,
      BeginNoted, Resting, control, ids, adoption, author, local, history, decoder
  <2>1. CASE DriverNext
    <3>1. ASSUME NEW legacy \in BOOLEAN, StepRefused(legacy) PROVE A
      BY <3>1 DEF StepRefused
    <3>2. ASSUME NEW legacy \in BOOLEAN, StepDone(legacy) PROVE A
      BY <3>2 DEF StepDone
    <3>3. ASSUME NEW legacy \in BOOLEAN, StepCancelled(legacy) PROVE A
      BY <3>3 DEF StepCancelled
    <3>4. ASSUME NEW legacy \in BOOLEAN, StepSuspended(legacy) PROVE A
      BY <3>4 DEF StepSuspended
    <3>5. ASSUME NEW legacy \in BOOLEAN, StepPending(legacy) PROVE A
      BY <3>5 DEF StepPending
    <3>6. ASSUME NEW legacy \in BOOLEAN, StepFinishing(legacy) PROVE A
      BY <3>6 DEF StepFinishing
    <3>7. ASSUME NEW legacy \in BOOLEAN, StepPoll(legacy) PROVE A
      BY <3>7 DEF StepPoll
    <3>8. ASSUME NEW legacy \in BOOLEAN, StepAbsorbFails(legacy) PROVE A
      BY <3>8 DEF StepAbsorbFails
    <3>9. ASSUME NEW id \in 1 .. MaxId, NEW action \in Actions, Resume(id, action)
          PROVE  A
      BY <3>9 DEF Resume, ReplyError
    <3>10. ASSUME NEW id \in 1 .. MaxId, NEW action \in Actions, ResumeRefused(id, action)
           PROVE  A
      BY <3>10 DEF ResumeRefused
    <3>11. CASE TakeDetails
      BY <3>11 DEF TakeDetails
    <3> QED
      BY <2>1, <3>1, <3>2, <3>3, <3>4, <3>5, <3>6, <3>7, <3>8, <3>9, <3>10,
         <3>11
         DEF DriverNext
  <2>2. CASE Deposits
    <3>1. ASSUME NEW i \in Infos, SetInfo(i) PROVE A
      BY <3>1 DEF SetInfo
    <3>2. ASSUME NEW i \in Infos, SetDetails(i) PROVE A
      BY <3>2 DEF SetDetails
    <3>3. ASSUME NEW d \in Descs, SetOutputDescriptor(d) PROVE A
      BY <3>3 DEF SetOutputDescriptor
    <3>4. ASSUME NEW b \in Batches, NEW awaited \in BOOLEAN, WriteRows(b, awaited)
          PROVE  A
      BY <3>4 DEF WriteRows
    <3>5. ASSUME NEW update \in Notices, NEW awaited \in BOOLEAN, Announce(update, awaited)
          PROVE  A
      BY <3>5 DEF Announce
    <3>6. ASSUME NEW f \in Facts, NEW awaited \in BOOLEAN, Interpret(f, awaited)
          PROVE  A
      BY <3>6 DEF Interpret
    <3> QED
      BY <2>2, <3>1, <3>2, <3>3, <3>4, <3>5, <3>6 DEF Deposits
  <2>3. CASE Awaits
    <3>1. CASE StartInput
      BY <3>1 DEF StartInput
    <3>2. CASE AwaitForeign
      BY <3>2 DEF AwaitForeign
    <3>3. CASE InputReady
      BY <3>3 DEF InputReady
    <3>4. CASE InputFails
      BY <3>4 DEF InputFails
    <3>5. ASSUME NEW awaited \in BOOLEAN, InputWaits(awaited) PROVE A
      BY <3>5 DEF InputWaits
    <3>6. CASE AwaitReady
      BY <3>6 DEF AwaitReady
    <3>7. CASE InterpretReady
      BY <3>7 DEF InterpretReady
    <3> QED
      BY <2>3, <3>1, <3>2, <3>3, <3>4, <3>5, <3>6, <3>7 DEF Awaits
  <2>4. CASE Returns
    <3>1. ASSUME NEW o \in Outputs, ReturnOk(o) PROVE A
      BY <3>1 DEF ReturnOk
    <3>2. CASE ReturnErr
      BY <3>2 DEF ReturnErr
    <3>3. CASE AuthorPanics
      BY <3>3 DEF AuthorPanics
    <3> QED
      BY <2>4, <3>1, <3>2, <3>3 DEF Returns
  <2>5. CASE StepNext
    <3>1. CASE SettleFails
      BY <3>1 DEF SettleFails
    <3>2. CASE SettleBoundary
      BY <3>2 DEF SettleBoundary
    <3>3. CASE SettleComplete
      BY <3>3 DEF SettleComplete
    <3>4. CASE SettleRows
      BY <3>4 DEF SettleRows
    <3>5. CASE SettleMetadata
      BY <3>5 DEF SettleMetadata
    <3>6. CASE SettleNeed
      BY <3>6 DEF SettleNeed
    <3>7. CASE Begin
      BY <3>7 DEF Begin
    <3>8. CASE BeginFails
      BY <3>8 DEF BeginFails
    <3>9. ASSUME NEW most \in 1 .. MaxBuffer, Deliver(most) PROVE A
      BY <3>9 DEF Deliver
    <3>10. CASE DeliverFails
      BY <3>10 DEF DeliverFails
    <3>11. CASE Finish
      BY <3>11 DEF Finish
    <3>12. CASE CloseFails
      BY <3>12 DEF CloseFails
    <3>13. CASE Close
      BY <3>13 DEF Close
    <3>14. CASE Accepts
      BY <3>14 DEF Accepts
    <3>15. CASE AcceptsUnwinds
      BY <3>15 DEF AcceptsUnwinds
    <3> QED
      BY <2>5, <3>1, <3>2, <3>3, <3>4, <3>5, <3>6, <3>7, <3>8, <3>9, <3>10,
         <3>11, <3>12, <3>13, <3>14, <3>15
         DEF StepNext
  <2> QED
    BY <2>1, <2>2, <2>3, <2>4, <2>5 DEF Next
<1>2. ResultInv => SinkInv
  BY DEF ResultInv
<1> QED
  BY <1>1, <1>2, InitResultInv, StepResultInv, PTL DEF Spec, SinkProtocol

(* A boundary stands until the reply that names it, facts are adopted by   *)
(* that reply alone, once, and no boundary is issued an identity that an   *)
(* earlier one had.                                                        *)
THEOREM BoundariesStand == Spec => BoundaryHolds
<1> DEFINE A ==
      /\ boundary # None /\ pc = "idle" =>
           /\ UNCHANGED <<future, touched, delivered>> /\ pc' = "idle"
           /\ \/ boundary' = boundary
              \/ state' = "Failed"
              \/ /\ reply'.id = boundary.id
                 /\ Permits(reply'.action, boundary.facts)
                 /\ last'.consumed = 0
      /\ adopted' # adopted =>
           /\ adopted = None /\ boundary # None /\ adopted' = boundary.facts
           /\ Permits("AdoptInterpretation", adopted')
      /\ boundary' # boundary /\ boundary' # None =>
           boundary'.id \notin issued /\ boundary'.id \in issued'
<1>1. AdoptionInv /\ Next => A
  <2> SUFFICES ASSUME AdoptionInv, Next PROVE A
    OBVIOUS
  <2> USE DEF AdoptionInv, Standing, ControlInv, TypeOK, Points, Futures,
      Leave, Fail, Keep, Polled, Free, Suspend, FailIf, Advances, Settled,
      Settling, Reports, Untouched, SinkRefuses, SinkUnwinds, BeginNoted,
      Resting, control, ids, adoption, author, local, history, decoder
  <2>1. CASE DriverNext
    <3>1. ASSUME NEW legacy \in BOOLEAN, StepRefused(legacy) PROVE A
      BY <3>1 DEF StepRefused
    <3>2. ASSUME NEW legacy \in BOOLEAN, StepDone(legacy) PROVE A
      BY <3>2 DEF StepDone
    <3>3. ASSUME NEW legacy \in BOOLEAN, StepCancelled(legacy) PROVE A
      BY <3>3 DEF StepCancelled
    <3>4. ASSUME NEW legacy \in BOOLEAN, StepSuspended(legacy) PROVE A
      BY <3>4 DEF StepSuspended
    <3>5. ASSUME NEW legacy \in BOOLEAN, StepPending(legacy) PROVE A
      BY <3>5 DEF StepPending
    <3>6. ASSUME NEW legacy \in BOOLEAN, StepFinishing(legacy) PROVE A
      BY <3>6 DEF StepFinishing
    <3>7. ASSUME NEW legacy \in BOOLEAN, StepPoll(legacy) PROVE A
      BY <3>7 DEF StepPoll
    <3>8. ASSUME NEW legacy \in BOOLEAN, StepAbsorbFails(legacy) PROVE A
      BY <3>8 DEF StepAbsorbFails
    <3>9. ASSUME NEW id \in 1 .. MaxId, NEW action \in Actions, Resume(id, action)
          PROVE  A
      BY <3>9 DEF Resume, ReplyError
    <3>10. ASSUME NEW id \in 1 .. MaxId, NEW action \in Actions, ResumeRefused(id, action)
           PROVE  A
      BY <3>10 DEF ResumeRefused
    <3>11. CASE TakeDetails
      BY <3>11 DEF TakeDetails
    <3> QED
      BY <2>1, <3>1, <3>2, <3>3, <3>4, <3>5, <3>6, <3>7, <3>8, <3>9, <3>10,
         <3>11
         DEF DriverNext
  <2>2. CASE Deposits
    <3>1. ASSUME NEW i \in Infos, SetInfo(i) PROVE A
      BY <3>1 DEF SetInfo
    <3>2. ASSUME NEW i \in Infos, SetDetails(i) PROVE A
      BY <3>2 DEF SetDetails
    <3>3. ASSUME NEW d \in Descs, SetOutputDescriptor(d) PROVE A
      BY <3>3 DEF SetOutputDescriptor
    <3>4. ASSUME NEW b \in Batches, NEW awaited \in BOOLEAN, WriteRows(b, awaited)
          PROVE  A
      BY <3>4 DEF WriteRows
    <3>5. ASSUME NEW update \in Notices, NEW awaited \in BOOLEAN, Announce(update, awaited)
          PROVE  A
      BY <3>5 DEF Announce
    <3>6. ASSUME NEW f \in Facts, NEW awaited \in BOOLEAN, Interpret(f, awaited)
          PROVE  A
      BY <3>6, CoroutineAssumption DEF Interpret, Contents
    <3> QED
      BY <2>2, <3>1, <3>2, <3>3, <3>4, <3>5, <3>6 DEF Deposits
  <2>3. CASE Awaits
    <3>1. CASE StartInput
      BY <3>1 DEF StartInput
    <3>2. CASE AwaitForeign
      BY <3>2 DEF AwaitForeign
    <3>3. CASE InputReady
      BY <3>3 DEF InputReady
    <3>4. CASE InputFails
      BY <3>4 DEF InputFails
    <3>5. ASSUME NEW awaited \in BOOLEAN, InputWaits(awaited) PROVE A
      BY <3>5 DEF InputWaits
    <3>6. CASE AwaitReady
      BY <3>6 DEF AwaitReady
    <3>7. CASE InterpretReady
      BY <3>7 DEF InterpretReady
    <3> QED
      BY <2>3, <3>1, <3>2, <3>3, <3>4, <3>5, <3>6, <3>7 DEF Awaits
  <2>4. CASE Returns
    <3>1. ASSUME NEW o \in Outputs, ReturnOk(o) PROVE A
      BY <3>1 DEF ReturnOk
    <3>2. CASE ReturnErr
      BY <3>2 DEF ReturnErr
    <3>3. CASE AuthorPanics
      BY <3>3 DEF AuthorPanics
    <3> QED
      BY <2>4, <3>1, <3>2, <3>3 DEF Returns
  <2>5. CASE StepNext
    <3>1. CASE SettleFails
      BY <3>1 DEF SettleFails
    <3>2. CASE SettleBoundary
      BY <3>2 DEF SettleBoundary
    <3>3. CASE SettleComplete
      BY <3>3 DEF SettleComplete
    <3>4. CASE SettleRows
      BY <3>4 DEF SettleRows
    <3>5. CASE SettleMetadata
      BY <3>5 DEF SettleMetadata
    <3>6. CASE SettleNeed
      BY <3>6 DEF SettleNeed
    <3>7. CASE Begin
      BY <3>7 DEF Begin
    <3>8. CASE BeginFails
      BY <3>8 DEF BeginFails
    <3>9. ASSUME NEW most \in 1 .. MaxBuffer, Deliver(most) PROVE A
      BY <3>9 DEF Deliver
    <3>10. CASE DeliverFails
      BY <3>10 DEF DeliverFails
    <3>11. CASE Finish
      BY <3>11 DEF Finish
    <3>12. CASE CloseFails
      BY <3>12 DEF CloseFails
    <3>13. CASE Close
      BY <3>13 DEF Close
    <3>14. CASE Accepts
      BY <3>14 DEF Accepts
    <3>15. CASE AcceptsUnwinds
      BY <3>15 DEF AcceptsUnwinds
    <3> QED
      BY <2>5, <3>1, <3>2, <3>3, <3>4, <3>5, <3>6, <3>7, <3>8, <3>9, <3>10,
         <3>11, <3>12, <3>13, <3>14, <3>15
         DEF StepNext
  <2> QED
    BY <2>1, <2>2, <2>3, <2>4, <2>5 DEF Next
<1> QED
  BY <1>1, InitAdoptionInv, StepAdoptionInv, PTL DEF Spec, BoundaryHolds
-----------------------------------------------------------------------------
(* Each step is one the contract allows, or changes nothing that the       *)
(* contract speaks of.                                                     *)
LEMMA StepImplements ==
  ResultInv /\ Next => Contract!ContractNext \/ UNCHANGED Contract!contract
<1> DEFINE C == Contract!ContractNext \/ UNCHANGED Contract!contract
<1> SUFFICES ASSUME ResultInv, Next PROVE C
  OBVIOUS
<1> USE CoroutineAssumption DEF Contract!ContractNext, Contract!contract,
    Contract!Continue, Contract!SuspendAt, Contract!Reply, Contract!Complete,
    Contract!Break, ResultInv, SinkInv, NothingLeft, AdoptionInv, Standing,
    Gated, Effects, ControlInv, TypeOK, Points, Positions, Contents, Futures,
    Phase, Adopts, Fits, Leave, Fail, Keep, Polled, Free, Suspend, FailIf,
    Advances, Settled, Settling, Reports, Untouched, SinkRefuses,
    SinkUnwinds, BeginNoted, Resting, control, ids, adoption, author, local,
    history, decoder
<1>1. CASE DriverNext
  <2>1. ASSUME NEW legacy \in BOOLEAN, StepRefused(legacy) PROVE C
    BY <2>1 DEF StepRefused
  <2>2. ASSUME NEW legacy \in BOOLEAN, StepDone(legacy) PROVE C
    BY <2>2 DEF StepDone
  <2>3. ASSUME NEW legacy \in BOOLEAN, StepCancelled(legacy) PROVE C
    BY <2>3 DEF StepCancelled
  <2>4. ASSUME NEW legacy \in BOOLEAN, StepSuspended(legacy) PROVE C
    BY <2>4 DEF StepSuspended
  <2>5. ASSUME NEW legacy \in BOOLEAN, StepPending(legacy) PROVE C
    BY <2>5 DEF StepPending
  <2>6. ASSUME NEW legacy \in BOOLEAN, StepFinishing(legacy) PROVE C
    BY <2>6 DEF StepFinishing
  <2>7. ASSUME NEW legacy \in BOOLEAN, StepPoll(legacy) PROVE C
    BY <2>7 DEF StepPoll
  <2>8. ASSUME NEW legacy \in BOOLEAN, StepAbsorbFails(legacy) PROVE C
    BY <2>8 DEF StepAbsorbFails
  <2>9. ASSUME NEW id \in 1 .. MaxId, NEW action \in Actions, Resume(id, action)
        PROVE  C
    BY <2>9 DEF Resume, ReplyError
  <2>10. ASSUME NEW id \in 1 .. MaxId, NEW action \in Actions, ResumeRefused(id, action)
         PROVE  C
    BY <2>10 DEF ResumeRefused, ReplyError
  <2>11. CASE TakeDetails
    BY <2>11 DEF TakeDetails
  <2> QED
    BY <1>1, <2>1, <2>2, <2>3, <2>4, <2>5, <2>6, <2>7, <2>8, <2>9, <2>10,
       <2>11
       DEF DriverNext
<1>2. CASE Deposits
  <2>1. ASSUME NEW i \in Infos, SetInfo(i) PROVE C
    BY <2>1 DEF SetInfo
  <2>2. ASSUME NEW i \in Infos, SetDetails(i) PROVE C
    BY <2>2 DEF SetDetails
  <2>3. ASSUME NEW d \in Descs, SetOutputDescriptor(d) PROVE C
    BY <2>3 DEF SetOutputDescriptor
  <2>4. ASSUME NEW b \in Batches, NEW awaited \in BOOLEAN, WriteRows(b, awaited)
        PROVE  C
    BY <2>4 DEF WriteRows
  <2>5. ASSUME NEW update \in Notices, NEW awaited \in BOOLEAN, Announce(update, awaited)
        PROVE  C
    BY <2>5 DEF Announce
  <2>6. ASSUME NEW f \in Facts, NEW awaited \in BOOLEAN, Interpret(f, awaited)
        PROVE  C
    BY <2>6 DEF Interpret
  <2> QED
    BY ZenonT(60), <1>2, <2>1, <2>2, <2>3, <2>4, <2>5, <2>6 DEF Deposits
<1>3. CASE Awaits
  <2>1. CASE StartInput
    BY <2>1 DEF StartInput
  <2>2. CASE AwaitForeign
    BY <2>2 DEF AwaitForeign
  <2>3. CASE InputReady
    BY <2>3 DEF InputReady
  <2>4. CASE InputFails
    BY <2>4 DEF InputFails
  <2>5. ASSUME NEW awaited \in BOOLEAN, InputWaits(awaited) PROVE C
    BY <2>5 DEF InputWaits
  <2>6. CASE AwaitReady
    BY <2>6 DEF AwaitReady
  <2>7. CASE InterpretReady
    BY <2>7 DEF InterpretReady
  <2> QED
    BY <1>3, <2>1, <2>2, <2>3, <2>4, <2>5, <2>6, <2>7 DEF Awaits
<1>4. CASE Returns
  <2>1. ASSUME NEW o \in Outputs, ReturnOk(o) PROVE C
    BY <2>1 DEF ReturnOk
  <2>2. CASE ReturnErr
    BY <2>2 DEF ReturnErr
  <2>3. CASE AuthorPanics
    BY <2>3 DEF AuthorPanics
  <2> QED
    BY <1>4, <2>1, <2>2, <2>3 DEF Returns
<1>5. CASE StepNext
  <2>1. CASE SettleFails
    BY <2>1 DEF SettleFails
  <2>2. CASE SettleBoundary
    BY <2>2 DEF SettleBoundary, Event
  <2>3. CASE SettleComplete
    BY <2>3 DEF SettleComplete, Violation, Event
  <2>4. CASE SettleRows
    BY <2>4 DEF SettleRows, Violation, Event
  <2>5. CASE SettleMetadata
    BY <2>5 DEF SettleMetadata, Violation, Event
  <2>6. CASE SettleNeed
    BY <2>6 DEF SettleNeed, Violation, Event
  <2>7. CASE Begin
    BY <2>7 DEF Begin
  <2>8. CASE BeginFails
    BY <2>8 DEF BeginFails
  <2>9. ASSUME NEW most \in 1 .. MaxBuffer, Deliver(most) PROVE C
    BY <2>9 DEF Deliver
  <2>10. CASE DeliverFails
    BY <2>10 DEF DeliverFails
  <2>11. CASE Finish
    BY <2>11 DEF Finish
  <2>12. CASE CloseFails
    BY <2>12 DEF CloseFails
  <2>13. CASE Close
    <3>1. pc = "closing" /\ pc' = "idle" /\ state' = "Done" /\ boundary = None
      BY <2>13 DEF Close
    <3>2. output # None /\ UNCHANGED <<controlled, boundary, adopted, output>>
      BY <2>13 DEF Close
    <3>3. controlled => adopted # None /\ Fits(output, adopted)
      BY <3>1 DEF Compared, ResultDisagrees
    <3>4. touched' # touched => touched'
      <4>1. touched' = (touched \/ begun) /\ touched \in BOOLEAN
        BY <2>13 DEF Close, SinkPlaces
      <4> QED
        BY ONLY <4>1, Zenon
    <3>5. Phase = "open" /\ Phase' = "done"
      BY <3>1
    <3> QED
      BY <3>2, <3>3, <3>4, <3>5
  <2>14. CASE Accepts
    BY <2>14 DEF Accepts
  <2>15. CASE AcceptsUnwinds
    BY <2>15 DEF AcceptsUnwinds
  <2> QED
    BY <1>5, <2>1, <2>2, <2>3, <2>4, <2>5, <2>6, <2>7, <2>8, <2>9, <2>10,
       <2>11, <2>12, <2>13, <2>14, <2>15
       DEF StepNext
<1> QED
  BY <1>1, <1>2, <1>3, <1>4, <1>5 DEF Next

(* Whatever the author and the sink do, the coroutine decoder is a         *)
(* controlled incremental decoder.                                         *)
THEOREM Implementation == Spec => ImplementsContract
<1>1. Init => Contract!ContractInit
  BY DEF Init, Contract!ContractInit, Phase
<1>2. ResultInv /\ [Next]_vars => [Contract!ContractNext]_(Contract!contract)
  <2>1. UNCHANGED vars => UNCHANGED Contract!contract
    BY DEF vars, control, ids, adoption, author, local, history, decoder,
       Contract!contract, Phase
  <2> QED
    BY <2>1, StepImplements
<1> QED
  BY <1>1, <1>2, InitResultInv, StepResultInv, PTL
     DEF Spec, ImplementsContract, Contract!ContractSpec
-----------------------------------------------------------------------------
(* A batch is in hand only while it goes out, and rows wait only while the *)
(* author's future is polled and its poll settled.                         *)
LEMMA HandsKept == RowInv /\ [Next]_vars => Hands'
<1> SUFFICES ASSUME RowInv, [Next]_vars PROVE Hands'
  OBVIOUS
<1> USE DEF RowInv, Hands, SinkInv, NothingLeft, ControlInv, TypeOK, Points,
    Positions, Futures, Leave, Fail, Keep, Polled, Free, Suspend, FailIf,
    Advances, Settled, Settling, Reports, Untouched, SinkRefuses,
    SinkUnwinds, BeginNoted, Resting, control, ids, adoption, author, local,
    history, decoder
<1>1. CASE DriverNext
  <2>1. ASSUME NEW legacy \in BOOLEAN, StepRefused(legacy) PROVE Hands'
    BY <2>1 DEF StepRefused
  <2>2. ASSUME NEW legacy \in BOOLEAN, StepDone(legacy) PROVE Hands'
    BY <2>2 DEF StepDone
  <2>3. ASSUME NEW legacy \in BOOLEAN, StepCancelled(legacy) PROVE Hands'
    BY <2>3 DEF StepCancelled
  <2>4. ASSUME NEW legacy \in BOOLEAN, StepSuspended(legacy) PROVE Hands'
    BY <2>4 DEF StepSuspended
  <2>5. ASSUME NEW legacy \in BOOLEAN, StepPending(legacy) PROVE Hands'
    BY <2>5 DEF StepPending
  <2>6. ASSUME NEW legacy \in BOOLEAN, StepFinishing(legacy) PROVE Hands'
    BY <2>6 DEF StepFinishing
  <2>7. ASSUME NEW legacy \in BOOLEAN, StepPoll(legacy) PROVE Hands'
    BY <2>7 DEF StepPoll
  <2>8. ASSUME NEW legacy \in BOOLEAN, StepAbsorbFails(legacy) PROVE Hands'
    BY <2>8 DEF StepAbsorbFails
  <2>9. ASSUME NEW id \in 1 .. MaxId, NEW action \in Actions, Resume(id, action) PROVE Hands'
    BY <2>9 DEF Resume, ReplyError
  <2>10. ASSUME NEW id \in 1 .. MaxId, NEW action \in Actions, ResumeRefused(id, action) PROVE Hands'
    BY <2>10 DEF ResumeRefused
  <2>11. CASE TakeDetails
    BY <2>11 DEF TakeDetails
  <2> QED
    BY <1>1, <2>1, <2>2, <2>3, <2>4, <2>5, <2>6, <2>7, <2>8, <2>9, <2>10,
       <2>11
       DEF DriverNext
<1>2. CASE Deposits
  <2>1. ASSUME NEW i \in Infos, SetInfo(i) PROVE Hands'
    BY <2>1 DEF SetInfo
  <2>2. ASSUME NEW i \in Infos, SetDetails(i) PROVE Hands'
    BY <2>2 DEF SetDetails
  <2>3. ASSUME NEW d \in Descs, SetOutputDescriptor(d) PROVE Hands'
    BY <2>3 DEF SetOutputDescriptor
  <2>4. ASSUME NEW b \in Batches, NEW awaited \in BOOLEAN, WriteRows(b, awaited) PROVE Hands'
    BY <2>4 DEF WriteRows
  <2>5. ASSUME NEW update \in Notices, NEW awaited \in BOOLEAN, Announce(update, awaited) PROVE Hands'
    BY <2>5 DEF Announce
  <2>6. ASSUME NEW f \in Facts, NEW awaited \in BOOLEAN, Interpret(f, awaited) PROVE Hands'
    BY <2>6 DEF Interpret
  <2> QED
    BY <1>2, <2>1, <2>2, <2>3, <2>4, <2>5, <2>6 DEF Deposits
<1>3. CASE Awaits
  <2>1. CASE StartInput
    BY <2>1 DEF StartInput
  <2>2. CASE AwaitForeign
    BY <2>2 DEF AwaitForeign
  <2>3. CASE InputReady
    BY <2>3 DEF InputReady
  <2>4. CASE InputFails
    BY <2>4 DEF InputFails
  <2>5. ASSUME NEW awaited \in BOOLEAN, InputWaits(awaited) PROVE Hands'
    BY <2>5 DEF InputWaits
  <2>6. CASE AwaitReady
    BY <2>6 DEF AwaitReady
  <2>7. CASE InterpretReady
    BY <2>7 DEF InterpretReady
  <2> QED
    BY <1>3, <2>1, <2>2, <2>3, <2>4, <2>5, <2>6, <2>7 DEF Awaits
<1>4. CASE Returns
  <2>1. ASSUME NEW o \in Outputs, ReturnOk(o) PROVE Hands'
    BY <2>1 DEF ReturnOk
  <2>2. CASE ReturnErr
    BY <2>2 DEF ReturnErr
  <2>3. CASE AuthorPanics
    BY <2>3 DEF AuthorPanics
  <2> QED
    BY <1>4, <2>1, <2>2, <2>3 DEF Returns
<1>5. CASE StepNext
  <2>1. CASE SettleFails
    BY <2>1 DEF SettleFails, TakeEvent
  <2>2. CASE SettleBoundary
    BY <2>2 DEF SettleBoundary, TakeEvent, Event, Violation
  <2>3. CASE SettleComplete
    BY <2>3 DEF SettleComplete, TakeEvent, Event, Violation
  <2>4. CASE SettleRows
    BY <2>4 DEF SettleRows, TakeEvent, Event, Violation
  <2>5. CASE SettleMetadata
    BY <2>5 DEF SettleMetadata, TakeEvent, Event, Violation
  <2>6. CASE SettleNeed
    BY <2>6 DEF SettleNeed, TakeEvent, Event, Violation
  <2>7. CASE Begin
    BY <2>7 DEF Begin
  <2>8. CASE BeginFails
    BY <2>8 DEF BeginFails
  <2>9. ASSUME NEW most \in 1 .. MaxBuffer, Deliver(most) PROVE Hands'
    BY <2>9 DEF Deliver
  <2>10. CASE DeliverFails
    BY <2>10 DEF DeliverFails
  <2>11. CASE Finish
    BY <2>11 DEF Finish
  <2>12. CASE CloseFails
    BY <2>12 DEF CloseFails
  <2>13. CASE Close
    BY <2>13 DEF Close
  <2>14. CASE Accepts
    BY <2>14 DEF Accepts
  <2>15. CASE AcceptsUnwinds
    BY <2>15 DEF AcceptsUnwinds
  <2> QED
    BY <1>5, <2>1, <2>2, <2>3, <2>4, <2>5, <2>6, <2>7, <2>8, <2>9, <2>10,
       <2>11, <2>12, <2>13, <2>14, <2>15
       DEF StepNext
<1>6. CASE UNCHANGED vars
  BY <1>6 DEF vars
<1> QED
  BY <1>1, <1>2, <1>3, <1>4, <1>5, <1>6 DEF Next

(* The rows of a batch, from one of them on, are single rows.              *)
LEMMA RowsAreLines ==
  /\ \A b \in Batches : Rows(b) \in Seq(Line) /\ Len(Rows(b)) = b.rows
  /\ \A w \in Work : RowsLeft(w) =>
       RowsFrom(w) \in Seq(Line) /\ Len(RowsFrom(w)) = w.batch.rows - w.offset
  /\ RowsFrom(NoWork) = <<>> /\ <<>> \in Seq(Line)
<1>1. ASSUME NEW b \in Batches
      PROVE  Rows(b) \in Seq(Line) /\ Len(Rows(b)) = b.rows
  <2>1. b.rows \in Nat
    BY CoroutineAssumption
  <2>2. Rows(b) \in [1 .. b.rows -> Line]
    BY <2>1 DEF Rows, Line
  <2> QED
    BY <2>1, <2>2, SeqDef
<1>2. ASSUME NEW w \in Work, RowsLeft(w)
      PROVE  /\ RowsFrom(w) \in Seq(Line)
             /\ Len(RowsFrom(w)) = w.batch.rows - w.offset
  <2> DEFINE n == w.batch.rows - w.offset
  <2>1. n \in Nat /\ w # NoWork /\ w.batch \in Batches /\ w.offset \in Nat
    BY <1>2, CoroutineAssumption DEF RowsLeft, Work, NoWork
  <2>2. RowsFrom(w) = [i \in 1 .. n |-> [batch |-> w.batch, row |-> w.offset + i - 1]]
    BY <2>1 DEF RowsFrom
  <2> HIDE DEF n
  <2>3. RowsFrom(w) \in [1 .. n -> Line]
    BY <2>1, <2>2 DEF Line
  <2>4. RowsFrom(w) \in Seq(Line) /\ Len(RowsFrom(w)) = n
    BY <2>1, <2>3, SeqDef
  <2> QED
    BY <2>4 DEF n
<1>3. RowsFrom(NoWork) = <<>> /\ <<>> \in Seq(Line)
  BY DEF RowsFrom
<1> QED
  BY <1>1, <1>2, <1>3

(* A batch just taken is all its rows.                                     *)
LEMMA FromTheFirst ==
  ASSUME NEW b \in Batches
  PROVE  RowsFrom([batch |-> b, offset |-> 0]) = Rows(b)
<1>1. [batch |-> b, offset |-> 0] # NoWork
  BY CoroutineAssumption DEF NoWork
<1>2. b.rows \in Nat
  BY CoroutineAssumption
<1>3. \A i \in 1 .. b.rows : 0 + i - 1 = i - 1
  BY <1>2
<1> QED
  BY <1>1, <1>2, <1>3 DEF RowsFrom, Rows

(* A strip and what remains of the batch are what was left of it.          *)
LEMMA StripAndRemains ==
  ASSUME work \in Work, RowsLeft(work), NEW most \in 1 .. MaxBuffer
  PROVE  /\ Copied(Strip(most)) \in Seq(Line)
         /\ RowsFrom(Remaining(Strip(most))) \in Seq(Line)
         /\ RowsFrom(work) =
              Copied(Strip(most)) \o RowsFrom(Remaining(Strip(most)))
<1> DEFINE count == Strip(most)
           rest == RowsFrom(Remaining(count))
           left == work.batch.rows - work.offset
<1>1. /\ count \in 1 .. left /\ left \in Nat /\ work.offset \in Nat
      /\ work.batch \in Batches /\ work # NoWork
  BY CoroutineAssumption DEF Strip, Work, RowsLeft, NoWork
<1>2. Copied(count) \in Seq(Line) /\ Len(Copied(count)) = count
  <2>1. Copied(count) \in [1 .. count -> Line]
    BY <1>1 DEF Copied, Line
  <2> HIDE DEF count
  <2> QED
    BY <1>1, <2>1, SeqDef
<1>3. /\ rest \in Seq(Line) /\ Len(rest) = left - count
      /\ \A i \in 1 .. left - count : rest[i] =
           [batch |-> work.batch, row |-> work.offset + count + i - 1]
  <2>1. CASE count < left
    <3>0. work.offset + count < work.batch.rows
      BY <1>1, <2>1, CoroutineAssumption
    <3> HIDE DEF count
    <3>1. Remaining(count) = [work EXCEPT !.offset = work.offset + count]
      BY <3>0 DEF Remaining
    <3>2. /\ Remaining(count).batch = work.batch
          /\ Remaining(count).offset = work.offset + count
          /\ Remaining(count) \in Work /\ Remaining(count) # NoWork
      BY <1>1, <3>1, CoroutineAssumption DEF Work, NoWork
    <3>3. RowsLeft(Remaining(count))
      BY <1>1, <2>1, <3>2, CoroutineAssumption DEF RowsLeft
    <3>4. left - count = Remaining(count).batch.rows - Remaining(count).offset
      BY <1>1, <3>2, CoroutineAssumption
    <3>5. rest \in Seq(Line) /\ Len(rest) = left - count
      BY <3>2, <3>3, <3>4, RowsAreLines
    <3>6. rest = [i \in 1 .. left - count |->
                   [batch |-> work.batch, row |-> work.offset + count + i - 1]]
      BY <3>2, <3>4 DEF RowsFrom
    <3> QED
      BY <3>5, <3>6
  <2>2. CASE ~(count < left)
    <3>1. Remaining(count) = NoWork
      BY <1>1, <2>2, CoroutineAssumption DEF Remaining
    <3> QED
      BY <1>1, <2>2, <3>1, RowsAreLines
  <2> QED
    BY <2>1, <2>2
<1>4. \A i \in 1 .. count : Copied(count)[i] =
        [batch |-> work.batch, row |-> work.offset + i - 1]
  BY DEF Copied
<1>5. /\ RowsFrom(work) \in Seq(Line) /\ Len(RowsFrom(work)) = left
      /\ \A i \in 1 .. left : RowsFrom(work)[i] =
           [batch |-> work.batch, row |-> work.offset + i - 1]
  BY <1>1, RowsAreLines DEF RowsFrom
<1> HIDE DEF count, rest, left
<1> DEFINE both == Copied(count) \o rest
<1>6. /\ both \in Seq(Line) /\ Len(both) = left
      /\ \A i \in 1 .. left : both[i] =
           IF i <= count THEN Copied(count)[i] ELSE rest[i - count]
  <2>1. count + (left - count) = left
    BY <1>1
  <2>2. Copied(count) \in Seq(Line) /\ rest \in Seq(Line)
    BY <1>2, <1>3
  <2>3. /\ both \in Seq(Line) /\ Len(both) = count + (left - count)
        /\ \A i \in 1 .. count + (left - count) : both[i] =
             IF i <= count THEN Copied(count)[i] ELSE rest[i - count]
    <3>1. /\ both \in Seq(Line) /\ Len(both) = Len(Copied(count)) + Len(rest)
          /\ \A i \in 1 .. Len(Copied(count)) + Len(rest) : both[i] =
               IF i <= Len(Copied(count)) THEN Copied(count)[i]
               ELSE rest[i - Len(Copied(count))]
      BY <2>2, ConcatProperties
    <3>2. Len(Copied(count)) = count /\ Len(rest) = left - count
      BY <1>2, <1>3
    <3> HIDE DEF both
    <3> QED
      BY <3>1, <3>2
  <2> QED
    BY <2>1, <2>3
<1> HIDE DEF both
<1>7. ASSUME NEW i \in 1 .. left PROVE both[i] = RowsFrom(work)[i]
  <2>1. CASE i <= count
    BY SMTT(60), <1>1, <1>4, <1>5, <1>6, <2>1
  <2>2. CASE ~(i <= count)
    <3>1. i - count \in 1 .. left - count
      BY <1>1, <2>2
    <3>2. work.offset + count + (i - count) - 1 = work.offset + i - 1
      BY <1>1
    <3> QED
      BY <1>3, <1>5, <1>6, <2>2, <3>1, <3>2
  <2> QED
    BY <2>1, <2>2
<1>8. both = RowsFrom(work)
  BY <1>5, <1>6, <1>7, SeqEqual
<1> QED
  BY <1>2, <1>3, <1>8 DEF both, rest, count


(* A sequence is the beginning of any that continues it.                   *)
LEMMA PrefixOfConcat ==
  ASSUME NEW S, NEW s \in Seq(S), NEW t \in Seq(S)
  PROVE  SubSeq(s \o t, 1, Len(s)) = s
<1> DEFINE u == SubSeq(s \o t, 1, Len(s))
<1>1. /\ s \o t \in Seq(S) /\ Len(s \o t) = Len(s) + Len(t)
      /\ \A i \in 1 .. Len(s) : (s \o t)[i] = s[i]
  BY ConcatProperties, LenProperties
<1>2. Len(s) \in Nat /\ Len(t) \in Nat
  BY LenProperties
<1>3. Len(s) \in 0 .. Len(s \o t)
  BY <1>1, <1>2
<1>4. /\ u \in Seq(S) /\ Len(u) = Len(s)
      /\ \A i \in 1 .. Len(s) : u[i] = (s \o t)[i]
  BY <1>1, <1>2, <1>3, SubSeqProperties
<1> HIDE DEF u
<1>5. u = s
  BY <1>1, <1>4, SeqEqual
<1> QED
  BY <1>5 DEF u

(* In every state in which rows may still go out, they account for what    *)
(* was deposited; in every other, what went out is a prefix of it.         *)
LEMMA OutstandingAreLines ==
  ASSUME RowInv
  PROVE  /\ Outstanding \in Seq(Line) /\ delivered \in Seq(Line)
         /\ ~unwound => \E rest \in Seq(Line) : written = delivered \o rest
<1>1. delivered \in Seq(Line)
  BY DEF RowInv, Effects, Line
<1>2. Outstanding \in Seq(Line)
  <2>1. CASE rows # None
    <3>1. rows \in Batches
      BY <2>1 DEF RowInv, ControlInv, TypeOK, Contents
    <3> QED
      BY <2>1, <3>1, RowsAreLines DEF Outstanding
  <2>2. CASE rows = None
    <3>1. InHand \in Work /\ (InHand = NoWork \/ RowsLeft(InHand))
      BY DEF RowInv, ControlInv, TypeOK, Contents, Batched, Hands, InHand
    <3> QED
      BY <2>2, <3>1, RowsAreLines DEF Outstanding
  <2> QED
    BY <2>1, <2>2
<1> QED
  BY <1>1, <1>2 DEF RowInv, Accounted

(* A batch that is replaced leaves what had been delivered.                *)
LEMMA KeptAreLines ==
  ASSUME RowInv PROVE Kept \in Seq(Line)
<1>1. CASE rows = None
  BY <1>1 DEF Kept, RowInv, Accounted
<1>2. CASE rows # None
  <2> DEFINE n == Len(written) - rows.rows
  <2>1. written \in Seq(Line) /\ n \in Int /\ n <= Len(written)
        /\ Kept = SubSeq(written, 1, n)
    BY <1>2, CoroutineAssumption, LenProperties
       DEF Kept, RowInv, Accounted, ControlInv, TypeOK, Contents
  <2> HIDE DEF n
  <2>2. CASE n >= 0
    BY <2>1, <2>2, SubSeqProperties
  <2>3. CASE n < 0
    <3>1. SubSeq(written, 1, n) = <<>>
      BY <2>1, <2>3
    <3> QED
      BY <2>1, <3>1
  <2> QED
    BY <2>1, <2>2, <2>3
<1> QED
  BY <1>1, <1>2

(* At a poll, what is kept of the history is what the sink has already.    *)
LEMMA KeptIsDelivered ==
  ASSUME RowInv, pc = "poll", ~unwound PROVE Kept = delivered
<1>1. InHand = NoWork
  BY DEF InHand, RowInv, SinkInv, NothingLeft
<1>2. written = delivered \o Outstanding /\ delivered \in Seq(Line)
  BY OutstandingAreLines DEF RowInv, Accounted
<1>3. CASE rows = None
  <2>1. Outstanding = <<>>
    BY <1>1, <1>3, RowsAreLines DEF Outstanding
  <2> QED
    BY <1>2, <1>3, <2>1, ConcatEmptySeq DEF Kept
<1>4. CASE rows # None
  <2>1. rows \in Batches
    BY <1>4 DEF RowInv, ControlInv, TypeOK, Contents
  <2>2. Rows(rows) \in Seq(Line) /\ Len(Rows(rows)) = rows.rows
    BY <2>1, RowsAreLines
  <2>3. written = delivered \o Rows(rows)
    BY <1>2, <1>4 DEF Outstanding
  <2>4. SubSeq(delivered \o Rows(rows), 1, Len(delivered)) = delivered
    BY <1>2, <2>2, PrefixOfConcat
  <2>5. Len(written) - rows.rows = Len(delivered)
    BY <1>2, <2>2, <2>3, ConcatProperties, LenProperties
  <2> QED
    BY <1>4, <2>3, <2>4, <2>5 DEF Kept
<1> QED
  BY <1>3, <1>4

(* Every step leaves what is written as delivered rows, then those in hand.*)
LEMMA AccountedKept == RowInv /\ [Next]_vars => Accounted'
<1> SUFFICES ASSUME RowInv, [Next]_vars PROVE Accounted'
  OBVIOUS
<1>0. /\ Outstanding \in Seq(Line) /\ delivered \in Seq(Line)
      /\ ~unwound => \E rest \in Seq(Line) : written = delivered \o rest
  BY OutstandingAreLines
<1> USE <1>0, FromTheFirst DEF RowInv, Accounted, Outstanding, InHand, Hands,
    SinkInv, SinkPlaces, NothingLeft, ControlInv, TypeOK, Points, Positions,
    Futures, Leave, Fail, Keep, Polled, Free, Suspend, FailIf, Advances,
    Settled, Settling, Reports, Untouched, SinkRefuses, SinkUnwinds,
    BeginNoted, Resting, control, ids, adoption, author, local, history, decoder
<1>1. CASE DriverNext
  <2>1. ASSUME NEW legacy \in BOOLEAN, StepRefused(legacy) PROVE Accounted'
    BY <2>1 DEF StepRefused
  <2>2. ASSUME NEW legacy \in BOOLEAN, StepDone(legacy) PROVE Accounted'
    BY <2>2 DEF StepDone
  <2>3. ASSUME NEW legacy \in BOOLEAN, StepCancelled(legacy) PROVE Accounted'
    BY <2>3 DEF StepCancelled
  <2>4. ASSUME NEW legacy \in BOOLEAN, StepSuspended(legacy) PROVE Accounted'
    BY <2>4 DEF StepSuspended
  <2>5. ASSUME NEW legacy \in BOOLEAN, StepPending(legacy) PROVE Accounted'
    BY <2>5 DEF StepPending
  <2>6. ASSUME NEW legacy \in BOOLEAN, StepFinishing(legacy) PROVE Accounted'
    BY <2>6 DEF StepFinishing
  <2>7. ASSUME NEW legacy \in BOOLEAN, StepPoll(legacy) PROVE Accounted'
    BY <2>7 DEF StepPoll
  <2>8. ASSUME NEW legacy \in BOOLEAN, StepAbsorbFails(legacy) PROVE Accounted'
    BY <2>8 DEF StepAbsorbFails
  <2>9. ASSUME NEW id \in 1 .. MaxId, NEW action \in Actions, Resume(id, action) PROVE Accounted'
    BY <2>9 DEF Resume, ReplyError
  <2>10. ASSUME NEW id \in 1 .. MaxId, NEW action \in Actions, ResumeRefused(id, action) PROVE Accounted'
    BY <2>10 DEF ResumeRefused
  <2>11. CASE TakeDetails
    BY <2>11 DEF TakeDetails
  <2> QED
    BY <1>1, <2>1, <2>2, <2>3, <2>4, <2>5, <2>6, <2>7, <2>8, <2>9, <2>10,
       <2>11
       DEF DriverNext
<1>2. CASE Deposits
  <2>1. ASSUME NEW i \in Infos, SetInfo(i) PROVE Accounted'
    BY <2>1 DEF SetInfo
  <2>2. ASSUME NEW i \in Infos, SetDetails(i) PROVE Accounted'
    BY <2>2 DEF SetDetails
  <2>3. ASSUME NEW d \in Descs, SetOutputDescriptor(d) PROVE Accounted'
    BY <2>3 DEF SetOutputDescriptor
  <2>4. ASSUME NEW b \in Batches, NEW awaited \in BOOLEAN, WriteRows(b, awaited) PROVE Accounted'
    <3>1. /\ pc = "poll" /\ pc' # "idle" /\ rows' = b /\ rows' # None
          /\ written' = Kept \o Rows(b) /\ UNCHANGED <<delivered, unwound>>
      BY <2>4, CoroutineAssumption DEF WriteRows
    <3>2. Rows(b) \in Seq(Line)
      BY RowsAreLines
    <3>3. Kept \in Seq(Line)
      BY KeptAreLines
    <3>4. ~unwound => Kept = delivered
      BY <3>1, KeptIsDelivered
    <3>5. written' \in Seq(Line)
      BY <3>1, <3>2, <3>3, ConcatProperties
    <3> QED
      BY <3>1, <3>4, <3>5
  <2>5. ASSUME NEW update \in Notices, NEW awaited \in BOOLEAN, Announce(update, awaited) PROVE Accounted'
    BY <2>5 DEF Announce
  <2>6. ASSUME NEW f \in Facts, NEW awaited \in BOOLEAN, Interpret(f, awaited) PROVE Accounted'
    BY <2>6 DEF Interpret
  <2> QED
    BY <1>2, <2>1, <2>2, <2>3, <2>4, <2>5, <2>6 DEF Deposits
<1>3. CASE Awaits
  <2>1. CASE StartInput
    BY <2>1 DEF StartInput
  <2>2. CASE AwaitForeign
    BY <2>2 DEF AwaitForeign
  <2>3. CASE InputReady
    BY <2>3 DEF InputReady
  <2>4. CASE InputFails
    BY <2>4 DEF InputFails
  <2>5. ASSUME NEW awaited \in BOOLEAN, InputWaits(awaited) PROVE Accounted'
    BY <2>5 DEF InputWaits
  <2>6. CASE AwaitReady
    BY <2>6 DEF AwaitReady
  <2>7. CASE InterpretReady
    BY <2>7 DEF InterpretReady
  <2> QED
    BY <1>3, <2>1, <2>2, <2>3, <2>4, <2>5, <2>6, <2>7 DEF Awaits
<1>4. CASE Returns
  <2>1. ASSUME NEW o \in Outputs, ReturnOk(o) PROVE Accounted'
    BY <2>1 DEF ReturnOk
  <2>2. CASE ReturnErr
    BY <2>2 DEF ReturnErr
  <2>3. CASE AuthorPanics
    BY <2>3 DEF AuthorPanics
  <2> QED
    BY <1>4, <2>1, <2>2, <2>3 DEF Returns
<1>5. CASE StepNext
  <2>1. CASE SettleFails
    BY <2>1 DEF SettleFails, TakeEvent
  <2>2. CASE SettleBoundary
    BY <2>2 DEF SettleBoundary, TakeEvent, Event, Violation
  <2>3. CASE SettleComplete
    BY <2>3 DEF SettleComplete, TakeEvent, Event, Violation
  <2>4. CASE SettleRows
    <3>1. /\ pc \in {"suspended", "returned"} /\ rows # None /\ rows' = None
          /\ UNCHANGED <<written, delivered, unwound, pending>>
          /\ ~unwound => written = delivered \o Rows(rows)
      BY <2>4 DEF SettleRows, TakeEvent, Event, Violation
    <3>2. CASE work' = [batch |-> rows, offset |-> 0]
               /\ pc' \in {"begin", "deliver"}
      <4>1. rows \in Batches
        BY <3>1 DEF Contents
      <4>2. Outstanding' = Rows(rows)
        BY <3>1, <3>2, <4>1
      <4> QED
        BY <3>1, <3>2, <4>2
    <3>3. CASE pc' = "idle" /\ state' = "Failed"
      BY <3>1, <3>3
    <3> QED
      BY <2>4, <3>2, <3>3 DEF SettleRows
  <2>5. CASE SettleMetadata
    BY <2>5 DEF SettleMetadata, TakeEvent, Event, Violation
  <2>6. CASE SettleNeed
    BY <2>6 DEF SettleNeed, TakeEvent, Event, Violation
  <2>7. CASE Begin
    BY <2>7 DEF Begin
  <2>8. CASE BeginFails
    BY <2>8 DEF BeginFails
  <2>9. ASSUME NEW most \in 1 .. MaxBuffer, Deliver(most) PROVE Accounted'
    <3> DEFINE strip == Copied(Strip(most))
               rest == RowsFrom(Remaining(Strip(most)))
    <3>1. work \in Work /\ RowsLeft(work) /\ pc = "deliver" /\ rows = None
      BY <2>9 DEF Deliver, Contents, Batched
    <3>2. /\ strip \in Seq(Line) /\ rest \in Seq(Line)
          /\ RowsFrom(work) = strip \o rest
      BY <3>1, StripAndRemains
    <3>3. /\ pc' = "idle" /\ state' = back /\ rows' = None
          /\ delivered' = delivered \o strip
          /\ pending' = Remaining(Strip(most))
          /\ UNCHANGED <<written, unwound>>
      BY <2>9, <3>1 DEF Deliver
    <3>4. Outstanding' = rest
      BY <3>3
    <3>5. state' # "Failed"
      BY <3>1, <3>3
    <3>6. Outstanding = RowsFrom(work)
      BY <3>1
    <3> HIDE DEF strip, rest
    <3>7. delivered \o (strip \o rest) = (delivered \o strip) \o rest
      <4>1. delivered \in Seq(Line) /\ strip \in Seq(Line) /\ rest \in Seq(Line)
        BY <1>0, <3>2
      <4> QED
        BY ONLY <4>1, ConcatAssociative
    <3> QED
      BY <3>1, <3>2, <3>3, <3>4, <3>5, <3>6, <3>7
  <2>10. CASE DeliverFails
    BY <2>10 DEF DeliverFails
  <2>11. CASE Finish
    BY <2>11 DEF Finish
  <2>12. CASE CloseFails
    BY <2>12 DEF CloseFails
  <2>13. CASE Close
    BY <2>13 DEF Close
  <2>14. CASE Accepts
    BY <2>14 DEF Accepts
  <2>15. CASE AcceptsUnwinds
    BY <2>15 DEF AcceptsUnwinds
  <2> QED
    BY <1>5, <2>1, <2>2, <2>3, <2>4, <2>5, <2>6, <2>7, <2>8, <2>9, <2>10,
       <2>11, <2>12, <2>13, <2>14, <2>15
       DEF StepNext
<1>6. CASE UNCHANGED vars
  BY <1>6 DEF vars
<1> QED
  BY <1>1, <1>2, <1>3, <1>4, <1>5, <1>6 DEF Next

(* Before the first step nothing is written.                               *)
LEMMA InitRowInv == Init => RowInv
<1> SUFFICES ASSUME Init PROVE RowInv
  OBVIOUS
<1>1. ControlInv /\ Effects /\ SinkInv
  BY InitResultInv DEF ResultInv, AdoptionInv, SinkInv
<1>2. Hands
  BY DEF Init, Hands
<1>3. Outstanding = <<>> /\ <<>> \in Seq(Line)
  BY RowsAreLines DEF Init, Outstanding, InHand
<1>4. Accounted
  BY <1>3 DEF Init, Accounted
<1> QED
  BY <1>1, <1>2, <1>4 DEF RowInv

(* Together: rows are accounted for from the deposit to the sink.          *)
LEMMA StepRowInv == ResultInv /\ RowInv /\ [Next]_vars => RowInv'
<1> SUFFICES ASSUME ResultInv, RowInv, [Next]_vars PROVE RowInv'
  OBVIOUS
<1>1. (ControlInv /\ Effects /\ SinkInv)'
  BY StepResultInv DEF ResultInv, AdoptionInv, SinkInv
<1> QED
  BY <1>1, HandsKept, AccountedKept DEF RowInv

(* The sink gets the deposited rows in order, each once, and all of them   *)
(* before the decoder rests or is Done.                                    *)
THEOREM RowsInOrder == Spec => []StripsInOrder
<1>1. RowInv => StripsInOrder
  <2> SUFFICES ASSUME RowInv, ~unwound PROVE StripsInOrder
    BY DEF StripsInOrder
  <2>1. PICK rest \in Seq(Line) : written = delivered \o rest
    BY OutstandingAreLines
  <2>2. delivered \in Seq(Line)
    BY OutstandingAreLines
  <2>3. delivered = SubSeq(written, 1, Len(delivered))
    BY <2>1, <2>2, PrefixOfConcat
  <2>4. ASSUME pc = "idle", state # "Failed"
        PROVE  Len(written) = Len(delivered) + Left(pending)
    <3>1. written = delivered \o RowsFrom(pending)
      BY <2>4 DEF RowInv, Accounted, Hands, Outstanding, InHand
    <3>2. pending \in Work /\ (pending = NoWork \/ RowsLeft(pending))
      BY DEF RowInv, ControlInv, TypeOK, Contents, Batched
    <3>3. RowsFrom(pending) \in Seq(Line) /\ Len(RowsFrom(pending)) = Left(pending)
      <4>1. CASE pending = NoWork
        BY <4>1, RowsAreLines DEF Left
      <4>2. CASE pending # NoWork
        BY <3>2, <4>2, RowsAreLines DEF Left
      <4> QED
        BY <4>1, <4>2
    <3> QED
      BY <2>2, <3>1, <3>3, ConcatProperties
  <2> QED
    BY <2>3, <2>4 DEF StripsInOrder
<1>2. Init => ResultInv /\ RowInv
  BY InitResultInv, InitRowInv
<1>3. ResultInv /\ RowInv /\ [Next]_vars => (ResultInv /\ RowInv)'
  BY StepResultInv, StepRowInv
<1> QED
  BY <1>1, <1>2, <1>3, PTL DEF Spec
=============================================================================
