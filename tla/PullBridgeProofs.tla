--------------------------- MODULE PullBridgeProofs --------------------------
(***************************************************************************)
(* The safety of the pull bridge for any number of reads and strips and    *)
(* any capacity of the strip channel: a read is never given the answer of  *)
(* another, and the consumer receives the start of the image in order.     *)
(***************************************************************************)
EXTENDS PullBridge, SequenceTheorems, TLAPS

Outcomes == {"ok", "error", "lost", None}

Sinks == [call     : {"begin", "next", "finish", None},
          outbox   : Seq(Nat),
          current  : Nat \cup {None},
          provided : Nat,
          phase    : {"new", "begun", "finished"},
          failed   : BOOLEAN]

(* The shape of the state.                                                 *)
Shapes ==
  /\ pulse \in {"none", "live", "cancelled"}
  /\ stripPulse \in {"none", "live", "cancelled"}
  /\ thread \in {"run", "send", "wait", "ship", "left", "gone"}
  /\ asked \in Nat /\ outcome \in Outcomes /\ sink \in Sinks
  /\ bridge \in {"select", "serve", "reply", "returned", "dropped"}
  /\ serving \in Nat \cup {None} /\ result \in Outcomes
  /\ requests \in Seq(Nat) /\ replies \in Seq(Nat) /\ done \in Outcomes
  /\ strips \in Seq(Nat) /\ got \in Seq(Nat) /\ consumer \in {"open", "closed"}

(* A result exists only when the thread is over, and is what it came to.   *)
ResultFollows ==
  /\ done # None => thread = "gone" /\ done = outcome
  /\ bridge = "returned" => thread = "gone"
  /\ result # None => thread = "gone" /\ result = outcome

(* Until the pulse trips, the request of a waiting thread is at one place  *)
(* at most, and of any other thread nowhere.                               *)
OneInFlight ==
  /\ bridge = "select" => serving = None
  /\ bridge \in {"serve", "reply"} => serving # None
  /\ bridge = "dropped" => requests = <<>> /\ serving = None
  /\ ~Cancelled =>
       /\ requests \in {<<>>, <<asked>>} /\ replies \in {<<>>, <<asked>>}
       /\ serving \in {None, asked}
       /\ thread # "wait" => requests = <<>> /\ replies = <<>> /\ serving = None
       /\ requests # <<>> => replies = <<>> /\ serving = None
       /\ replies # <<>> => serving = None

BridgeInv == Shapes /\ ResultFollows /\ OneInFlight

(* Sequences of numbers are closed under what the channels do.             *)
LEMMA SeqFacts ==
  /\ <<>> \in Seq(Nat)
  /\ \A n \in Nat : <<n>> \in Seq(Nat) /\ Tail(<<n>>) = <<>> /\ Head(<<n>>) = n
  /\ \A n, m \in Nat : <<n, m>> \in Seq(Nat)
  /\ \A s \in Seq(Nat) : s # <<>> => Head(s) \in Nat /\ Tail(s) \in Seq(Nat)
  /\ \A s \in Seq(Nat), n \in Nat : Append(s, n) \in Seq(Nat)
  /\ \A s, t \in Seq(Nat) : s \o t \in Seq(Nat)
OBVIOUS

(* The invariant holds at the start.                                       *)
LEMMA InitBridgeInv == Init => BridgeInv
<1> SUFFICES ASSUME Init PROVE BridgeInv
  OBVIOUS
<1> USE BridgeBounds, NoneIsNothing DEF Init
<1>1. Shapes
  BY DEF Shapes, Sinks, Outcomes, NewSink
<1>2. ResultFollows /\ OneInFlight
  BY DEF ResultFollows, OneInFlight
<1> QED
  BY <1>1, <1>2 DEF BridgeInv

(* Every step keeps the shapes of what the parties and channels hold.      *)
LEMMA ShapesKept == BridgeInv /\ Next => Shapes'
<1> SUFFICES ASSUME BridgeInv, Next PROVE Shapes'
  OBVIOUS
<1> USE BridgeBounds, NoneIsNothing DEF BridgeInv, Shapes, Outcomes, settings,
    threadVars, bridgeVars, channels, stripVars
<1>1. CASE Ask
  BY <1>1 DEF Ask
<1>2. CASE SendRequest
  <2>1. requests' \in Seq(Nat)
    BY <1>2, SeqFacts DEF SendRequest
  <2>2. thread' \in {"run", "wait"} /\ UNCHANGED <<outcome, sink>>
    BY <1>2 DEF SendRequest, Resumes
  <2> QED
    BY <1>2, <2>1, <2>2 DEF SendRequest
<1>3. CASE TakeReply
  <2>1. replies' \in Seq(Nat)
    BY <1>3, SeqFacts DEF TakeReply
  <2>2. thread' = "run" /\ UNCHANGED <<outcome, sink>>
    BY <1>3 DEF TakeReply, Resumes
  <2> QED
    BY <1>3, <2>1, <2>2 DEF TakeReply
<1>4. CASE BeginCall
  <2>1. sink' \in Sinks
    BY <1>4, SeqFacts DEF BeginCall, Calls, Sinks, Begin
  <2> QED
    BY <1>4, <2>1 DEF BeginCall, Calls
<1>5. CASE NextCall
  <2>1. sink' \in Sinks
    BY <1>5, SeqFacts DEF NextCall, Calls, Sinks, Pending
  <2> QED
    BY <1>5, <2>1 DEF NextCall, Calls
<1>6. CASE FinishCall
  <2>1. sink' \in Sinks
    <3>1. Pending \in Seq(Nat) /\ <<Finish>> \in Seq(Nat)
      BY SeqFacts DEF Pending, Sinks, Finish
    <3>2. Pending \o <<Finish>> \in Seq(Nat)
      BY <3>1, SeqFacts
    <3> QED
      BY <1>6, <3>2 DEF FinishCall, Calls, Sinks
  <2> QED
    BY <1>6, <2>1 DEF FinishCall, Calls
<1>7. CASE SendStrip
  <2>1. sink' \in Sinks
    <3>1. sink.outbox # <<>> /\ sink.outbox \in Seq(Nat) /\ <<>> \in Seq(Nat)
      BY <1>7, SeqFacts DEF SendStrip, Sinks
    <3>2. Tail(sink.outbox) \in Seq(Nat)
      BY <3>1, SeqFacts
    <3> QED
      BY <1>7, <3>1, <3>2 DEF SendStrip, Sinks
  <2>2. strips' \in Seq(Nat) /\ thread' \in {"run", "ship"}
    <3>1. Head(sink.outbox) \in Nat
      BY <1>7, SeqFacts DEF SendStrip, Sinks
    <3>2. Append(strips, Head(sink.outbox)) \in Seq(Nat)
      BY <3>1, SeqFacts
    <3> QED
      BY <1>7, <3>2 DEF SendStrip
  <2>3. UNCHANGED <<settings, asked, outcome, bridgeVars, channels, consumer, got>>
    BY <1>7 DEF SendStrip
  <2> QED
    BY <2>1, <2>2, <2>3
<1>8. CASE Shipped
  <2>1. sink' \in Sinks
    <3>1. sink.provided + 1 \in Nat /\ sink.call \in {"begin", "next", "finish", None}
      BY DEF Sinks
    <3>2. CASE sink.call = "next"
      BY <1>8, <3>1, <3>2 DEF Shipped, Sinks
    <3>3. CASE sink.call # "next"
      BY <1>8, <3>3 DEF Shipped, Sinks
    <3> QED
      BY <3>2, <3>3
  <2> QED
    BY <1>8, <2>1 DEF Shipped
<1>9. CASE RunEnds
  BY <1>9 DEF RunEnds
<1>10. CASE Report
  BY <1>10 DEF Report
<1>11. CASE Collect
  BY <1>11 DEF Collect
<1>12. CASE Receive
  <2>1. serving' \in Nat /\ requests' \in Seq(Nat)
    BY <1>12, SeqFacts DEF Receive
  <2> QED
    BY <1>12, <2>1 DEF Receive
<1>13. CASE NoMore
  BY <1>13 DEF NoMore
<1>14. CASE SendReply
  <2>1. replies' \in Seq(Nat)
    BY <1>14, SeqFacts DEF SendReply, OneInFlight
  <2> QED
    BY <1>14, <2>1 DEF SendReply
<1>15. CASE Serve
  BY <1>15 DEF Serve
<1>16. CASE Consume
  BY <1>16 DEF Consume
<1>17. CASE Cancel
  BY <1>17 DEF Cancel
<1>18. CASE DropFuture
  BY <1>18 DEF DropFuture
<1>19. CASE CloseConsumer
  BY <1>19 DEF CloseConsumer
<1>20. CASE CancelStrips
  BY <1>20 DEF CancelStrips
<1> QED
  BY <1>1, <1>2, <1>3, <1>4, <1>5, <1>6, <1>7, <1>8, <1>9, <1>10, <1>11,
      <1>12, <1>13, <1>14, <1>15, <1>16, <1>17, <1>18, <1>19, <1>20
      DEF Next, Decode, Drive
(* A result exists only once the thread is gone, and is its outcome.       *)
LEMMA ResultKept == BridgeInv /\ Next => ResultFollows'
<1> SUFFICES ASSUME BridgeInv, Next PROVE ResultFollows'
  OBVIOUS
<1> USE DEF BridgeInv, Shapes, ResultFollows, Racing, BridgeClosed, settings,
    threadVars, bridgeVars, channels, stripVars
<1>1. CASE Ask
  BY <1>1 DEF Ask
<1>2. CASE SendRequest
  BY <1>2 DEF SendRequest, Resumes
<1>3. CASE TakeReply
  BY <1>3 DEF TakeReply, Resumes
<1>4. CASE BeginCall
  BY <1>4 DEF BeginCall, Calls
<1>5. CASE NextCall
  BY <1>5 DEF NextCall, Calls
<1>6. CASE FinishCall
  BY <1>6 DEF FinishCall, Calls
<1>7. CASE SendStrip
  BY <1>7 DEF SendStrip
<1>8. CASE Shipped
  BY <1>8 DEF Shipped
<1>9. CASE RunEnds
  BY <1>9 DEF RunEnds
<1>10. CASE Report
  BY <1>10 DEF Report
<1>11. CASE Collect
  BY <1>11 DEF Collect
<1>12. CASE Receive
  BY <1>12 DEF Receive
<1>13. CASE NoMore
  BY <1>13 DEF NoMore
<1>14. CASE SendReply
  BY <1>14 DEF SendReply
<1>15. CASE Serve
  BY <1>15 DEF Serve
<1>16. CASE Consume
  BY <1>16 DEF Consume
<1>17. CASE Cancel
  BY <1>17 DEF Cancel
<1>18. CASE DropFuture
  BY <1>18 DEF DropFuture
<1>19. CASE CloseConsumer
  BY <1>19 DEF CloseConsumer
<1>20. CASE CancelStrips
  BY <1>20 DEF CancelStrips
<1> QED
  BY <1>1, <1>2, <1>3, <1>4, <1>5, <1>6, <1>7, <1>8, <1>9, <1>10,
      <1>11, <1>12, <1>13, <1>14, <1>15, <1>16, <1>17, <1>18, <1>19, <1>20
      DEF Next, Decode, Drive

(* There is one request or one reply at a time, and it carries the number  *)
(* Every step keeps the waiting thread's request at one place at most.     *)
LEMMA OneInFlightKept == BridgeInv /\ Next => OneInFlight'
<1> SUFFICES ASSUME BridgeInv, Next PROVE OneInFlight'
  OBVIOUS
<1> USE NoneIsNothing DEF BridgeInv, Shapes, ResultFollows, OneInFlight,
    Cancelled, Stops, Racing, BridgeClosed, settings,
    threadVars, bridgeVars, channels, stripVars
<1>1. CASE Ask
  BY <1>1 DEF Ask
<1>2. CASE SendRequest
  BY <1>2 DEF SendRequest, Resumes
<1>3. CASE TakeReply
  <2>1. CASE Cancelled
    BY <1>3, <2>1 DEF TakeReply, Resumes
  <2>2. CASE ~Cancelled /\ replies # <<>>
    <3>1. replies = <<asked>> /\ replies' = Tail(<<asked>>)
      BY <1>3, <2>2 DEF TakeReply
    <3>2. replies' = <<>>
      BY <3>1, SeqFacts
    <3> QED
      BY <1>3, <2>2, <3>2 DEF TakeReply, Resumes
  <2>3. CASE ~Cancelled /\ replies = <<>>
    BY <1>3, <2>3 DEF TakeReply, Resumes
  <2> QED
    BY <2>1, <2>2, <2>3
<1>4. CASE BeginCall
  BY <1>4 DEF BeginCall, Calls
<1>5. CASE NextCall
  BY <1>5 DEF NextCall, Calls
<1>6. CASE FinishCall
  BY <1>6 DEF FinishCall, Calls
<1>7. CASE SendStrip
  BY <1>7 DEF SendStrip
<1>8. CASE Shipped
  BY <1>8 DEF Shipped
<1>9. CASE RunEnds
  BY <1>9 DEF RunEnds
<1>10. CASE Report
  BY <1>10 DEF Report
<1>11. CASE Collect
  BY <1>11 DEF Collect
<1>12. CASE Receive
  <2>1. CASE Cancelled
    BY <1>12, <2>1, SeqFacts DEF Receive
  <2>2. CASE ~Cancelled
    <3>1. requests = <<asked>> /\ replies = <<>> /\ thread = "wait"
      BY <1>12, <2>2 DEF Receive
    <3>2. serving' = asked /\ requests' = <<>>
      BY <1>12, <3>1, SeqFacts DEF Receive
    <3> QED
      BY <1>12, <2>2, <3>1, <3>2 DEF Receive
  <2> QED
    BY <2>1, <2>2
<1>13. CASE NoMore
  BY <1>13 DEF NoMore
<1>14. CASE SendReply
  BY <1>14 DEF SendReply
<1>15. CASE Serve
  BY <1>15 DEF Serve
<1>16. CASE Consume
  BY <1>16 DEF Consume
<1>17. CASE Cancel
  BY <1>17 DEF Cancel
<1>18. CASE DropFuture
  BY <1>18 DEF DropFuture
<1>19. CASE CloseConsumer
  BY <1>19 DEF CloseConsumer
<1>20. CASE CancelStrips
  BY <1>20 DEF CancelStrips
<1> QED
  BY <1>1, <1>2, <1>3, <1>4, <1>5, <1>6, <1>7, <1>8, <1>9, <1>10,
      <1>11, <1>12, <1>13, <1>14, <1>15, <1>16, <1>17, <1>18, <1>19, <1>20
      DEF Next, Decode, Drive

(* The invariant holds throughout.                                         *)
LEMMA BridgeInvariance == Spec => []BridgeInv
<1>1. BridgeInv /\ Next => BridgeInv'
  BY ShapesKept, ResultKept, OneInFlightKept DEF BridgeInv
<1>2. BridgeInv /\ UNCHANGED vars => BridgeInv'
  BY DEF BridgeInv, Shapes, ResultFollows, OneInFlight, Cancelled, vars, settings,
      threadVars, bridgeVars, channels, stripVars
<1> QED
  BY <1>1, <1>2, InitBridgeInv, PTL DEF Spec

(* The decoder is handed the answer to the read it is blocked on           *)
(* (Links::ask, tokio_io.rs): of all steps, only TakeReply empties the     *)
(* channel, and it takes nothing once the pulse has tripped.               *)
THEOREM AnswersGoHome == Spec => AnswersMatch
<1> DEFINE A == replies # <<>> /\ replies' = <<>> /\ thread = "wait" =>
                  Head(replies) = asked
<1>1. BridgeInv /\ Next => A
  <2> SUFFICES ASSUME BridgeInv, Next PROVE A
    OBVIOUS
  <2> USE DEF BridgeInv, Shapes, OneInFlight, Cancelled, Stops, Racing, settings,
      threadVars, bridgeVars, channels, stripVars
  <2>1. CASE Ask
    BY <2>1 DEF Ask
  <2>2. CASE SendRequest
    BY <2>2 DEF SendRequest, Resumes
  <2>3. CASE TakeReply
    BY <2>3 DEF TakeReply, Resumes
  <2>4. CASE BeginCall
    BY <2>4 DEF BeginCall, Calls
  <2>5. CASE NextCall
    BY <2>5 DEF NextCall, Calls
  <2>6. CASE FinishCall
    BY <2>6 DEF FinishCall, Calls
  <2>7. CASE SendStrip
    BY <2>7 DEF SendStrip
  <2>8. CASE Shipped
    BY <2>8 DEF Shipped
  <2>9. CASE RunEnds
    BY <2>9 DEF RunEnds
  <2>10. CASE Report
    BY <2>10 DEF Report
  <2>11. CASE Collect
    BY <2>11 DEF Collect
  <2>12. CASE Receive
    BY <2>12 DEF Receive
  <2>13. CASE NoMore
    BY <2>13 DEF NoMore
  <2>14. CASE SendReply
    BY <2>14 DEF SendReply
  <2>15. CASE Serve
    BY <2>15 DEF Serve
  <2>16. CASE Consume
    BY <2>16 DEF Consume
  <2>17. CASE Cancel
    BY <2>17 DEF Cancel
  <2>18. CASE DropFuture
    BY <2>18 DEF DropFuture
  <2>19. CASE CloseConsumer
    BY <2>19 DEF CloseConsumer
  <2>20. CASE CancelStrips
    BY <2>20 DEF CancelStrips
  <2> QED
    BY <2>1, <2>2, <2>3, <2>4, <2>5, <2>6, <2>7, <2>8, <2>9, <2>10,
        <2>11, <2>12, <2>13, <2>14, <2>15, <2>16, <2>17, <2>18, <2>19, <2>20
        DEF Next, Decode, Drive
<1>2. BridgeInv /\ [Next]_vars => [A]_vars
  BY <1>1
<1> QED
  BY <1>2, BridgeInvariance, PTL DEF Spec, AnswersMatch
-----------------------------------------------------------------------------
(* The strips on their way are the image from its start; Finish is the     *)
(* last and follows every strip that the decoder provided.                 *)
InOrder ==
  \A i \in 1..Len(Sent) :
    \/ Sent[i] = i - 1 /\ Sent[i] # Finish
    \/ /\ Sent[i] = Finish /\ i = Len(Sent) /\ i = sink.provided + 2
       /\ sink.phase = "finished"

(* Where the sink stands between its calls and inside one.                 *)
SinkStands ==
  /\ sink.provided <= MaxStrips
  /\ sink.call = None <=> thread # "ship"
  /\ sink.call = None => sink.outbox = <<>>
  /\ sink.call = "begin" => sink.phase = "begun" /\ sink.provided = 0
  /\ sink.call = "next" => sink.phase = "begun" /\ sink.provided < MaxStrips
  /\ sink.call = "finish" => sink.phase = "finished"
  /\ sink.phase = "new" => sink.call = None /\ sink.provided = 0
  /\ sink.current # None =>
       sink.current = sink.provided /\ sink.call = None /\ sink.phase = "begun"
  /\ sink.failed => StripCancelled \/ consumer = "closed"
  /\ outcome = "ok" =>
       thread \in {"left", "gone"} /\ sink.phase = "finished" /\ ~sink.failed

(* What a sink that works has handed over so far, and has yet to.          *)
NothingSkipped ==
  ~sink.failed /\ consumer = "open" =>
    CASE sink.phase = "new" -> Len(Sent) = 0
      [] sink.phase = "begun" /\ sink.outbox # <<>> ->
           sink.outbox = <<sink.provided>> /\ Len(Sent) = sink.provided
      [] sink.phase = "begun" /\ sink.outbox = <<>> ->
           Len(Sent) = IF sink.current = None THEN sink.provided + 1 ELSE sink.provided
      [] sink.phase = "finished" ->
           \/ sink.outbox = <<sink.provided, Finish>> /\ Len(Sent) = sink.provided
           \/ sink.outbox = <<Finish>> /\ Len(Sent) = sink.provided + 1
           \/ /\ sink.outbox = <<>> /\ Len(Sent) = sink.provided + 2
              /\ Sent[Len(Sent)] = Finish

StripInv == BridgeInv /\ InOrder /\ SinkStands /\ NothingSkipped
(* What was sent to the consumer is a sequence of strips.                  *)
LEMMA SentIsSeq == ASSUME BridgeInv PROVE Sent \in Seq(Nat)
BY SeqFacts DEF BridgeInv, Shapes, Sent

(* Taking a strip from the channel into what is received moves nothing.    *)
LEMMA MoveHead ==
  ASSUME NEW s \in Seq(Nat), NEW t \in Seq(Nat), t # <<>>
  PROVE  Append(s, Head(t)) \o Tail(t) = s \o t
<1>1. Head(t) \in Nat /\ Tail(t) \in Seq(Nat) /\ Append(s, Head(t)) \in Seq(Nat)
  BY SeqFacts
<1>2. /\ Append(s, Head(t)) \o Tail(t) \in Seq(Nat)
      /\ s \o t \in Seq(Nat)
  BY <1>1, SeqFacts
<1>3. Len(Append(s, Head(t)) \o Tail(t)) = Len(s \o t)
  BY <1>1
<1>4. \A i \in 1..Len(s \o t) : (Append(s, Head(t)) \o Tail(t))[i] = (s \o t)[i]
  BY <1>1
<1> QED
  BY <1>2, <1>3, <1>4, SeqEqual

(* Only SendStrip lengthens what is on its way, and only CloseConsumer     *)
(* cuts it.                                                                *)
LEMMA SentMoves ==
  ASSUME BridgeInv, Next
  PROVE  \/ Sent' = Sent
         \/ SendStrip /\ Sent' = Append(Sent, Head(sink.outbox)) /\ sink.outbox # <<>>
         \/ CloseConsumer /\ Sent' = got
<1>1. CASE UNCHANGED <<strips, got>>
  BY <1>1 DEF Sent
<1>2. CASE SendStrip /\ strips' = Append(strips, Head(sink.outbox)) /\ sink.outbox # <<>>
  <2>1. Head(sink.outbox) \in Nat /\ got' = got
    BY <1>2, SeqFacts DEF BridgeInv, Shapes, Sinks, SendStrip
  <2>2. got \o Append(strips, Head(sink.outbox)) = Append(got \o strips, Head(sink.outbox))
    BY <2>1 DEF BridgeInv, Shapes
  <2> QED
    BY <1>2, <2>1, <2>2 DEF Sent
<1>3. CASE Consume
  <2>1. got \in Seq(Nat) /\ strips \in Seq(Nat) /\ strips # <<>>
    BY <1>3 DEF Consume, BridgeInv, Shapes
  <2> QED
    BY <1>3, <2>1, MoveHead DEF Consume, Sent
<1>4. CASE CloseConsumer
  BY <1>4, ConcatEmptySeq DEF CloseConsumer, Sent, BridgeInv, Shapes
<1>5. \/ UNCHANGED <<strips, got>> \/ Consume \/ CloseConsumer
      \/ SendStrip /\ strips' = Append(strips, Head(sink.outbox)) /\ sink.outbox # <<>>
  BY DEF Next, Decode, Drive, Ask, SendRequest, TakeReply, BeginCall, NextCall,
      FinishCall, Calls, SendStrip, Shipped, RunEnds, Report, Collect, Receive,
      NoMore, SendReply, Serve, Cancel, CancelStrips, DropFuture, stripVars
<1> QED
  BY <1>1, <1>2, <1>3, <1>4, <1>5
(* Every step keeps the sink's outbox what its phase allows.               *)
LEMMA SinkStandsKept == StripInv /\ Next => SinkStands'
<1> SUFFICES ASSUME StripInv, Next PROVE SinkStands'
  OBVIOUS
<1> USE BridgeBounds, NoneIsNothing DEF StripInv, BridgeInv, Shapes, Sinks, Outcomes,
    SinkStands, StripCancelled, Stops, settings, threadVars, bridgeVars, channels,
    stripVars
<1>1. CASE Ask
  BY <1>1 DEF Ask
<1>2. CASE SendRequest
  BY <1>2 DEF SendRequest, Resumes
<1>3. CASE TakeReply
  BY <1>3 DEF TakeReply, Resumes
<1>4. CASE BeginCall
  BY <1>4 DEF BeginCall, Calls
<1>5. CASE NextCall
  BY <1>5 DEF NextCall, Calls
<1>6. CASE FinishCall
  BY <1>6 DEF FinishCall, Calls
<1>7. CASE SendStrip
  BY <1>7 DEF SendStrip
<1>8. CASE Shipped
  BY <1>8 DEF Shipped
<1>9. CASE RunEnds
  BY <1>9 DEF RunEnds
<1>10. CASE Report
  BY <1>10 DEF Report
<1>11. CASE Collect
  BY <1>11 DEF Collect
<1>12. CASE Receive
  BY <1>12 DEF Receive
<1>13. CASE NoMore
  BY <1>13 DEF NoMore
<1>14. CASE SendReply
  BY <1>14 DEF SendReply
<1>15. CASE Serve
  BY <1>15 DEF Serve
<1>16. CASE Consume
  BY <1>16 DEF Consume
<1>17. CASE Cancel
  BY <1>17 DEF Cancel
<1>18. CASE DropFuture
  BY <1>18 DEF DropFuture
<1>19. CASE CloseConsumer
  BY <1>19 DEF CloseConsumer
<1>20. CASE CancelStrips
  BY <1>20 DEF CancelStrips
<1> QED
  BY <1>1, <1>2, <1>3, <1>4, <1>5, <1>6, <1>7, <1>8, <1>9, <1>10,
      <1>11, <1>12, <1>13, <1>14, <1>15, <1>16, <1>17, <1>18, <1>19, <1>20
      DEF Next, Decode, Drive

(* Steps of the others, of reads and of the end leave the stream alone.    *)
LEMMA StreamUntouched ==
  ASSUME BridgeInv, Next
  PROVE  \/ UNCHANGED <<sink, consumer>>
         \/ BeginCall \/ NextCall \/ FinishCall \/ SendStrip \/ Shipped \/ CloseConsumer
BY DEF Next, Decode, Drive, Ask, SendRequest, TakeReply, Resumes, RunEnds, Report,
    Collect, Receive, NoMore, SendReply, Serve, Consume, Cancel, CancelStrips,
    DropFuture, threadVars, stripVars

(* A strip is sent while the sink works, and is the next one due.          *)
LEMMA HeadDue ==
  ASSUME StripInv, SendStrip, sink.outbox # <<>>,
         Sent' = Append(Sent, Head(sink.outbox))
  PROVE  \/ /\ Len(Sent) = Head(sink.outbox) /\ Len(Sent) = sink.provided
            /\ \/ sink.phase = "begun" /\ sink.outbox = <<sink.provided>>
               \/ sink.phase = "finished" /\ sink.outbox = <<sink.provided, Finish>>
         \/ /\ Head(sink.outbox) = Finish /\ Len(Sent) = sink.provided + 1
            /\ sink.phase = "finished" /\ sink.outbox = <<Finish>>
<1>1. /\ Sent \in Seq(Nat) /\ sink \in Sinks /\ sink.provided \in Nat
      /\ Finish \in Nat /\ Head(sink.outbox) \in Nat
  BY SentIsSeq, BridgeBounds, SeqFacts DEF StripInv, BridgeInv, Shapes, Sinks, Finish
<1>2. Sent' # Sent
  BY <1>1
<1>3. ~StripCancelled /\ consumer = "open" /\ thread = "ship"
  BY <1>2 DEF SendStrip, Sent
<1>4. ~sink.failed /\ sink.phase # "new"
  BY <1>3 DEF StripInv, SinkStands
<1>5. sink.phase \in {"begun", "finished"}
  BY <1>1, <1>4 DEF Sinks
<1>6. CASE sink.phase = "begun"
  <2>1. sink.outbox = <<sink.provided>> /\ Len(Sent) = sink.provided
    BY <1>3, <1>4, <1>6 DEF StripInv, NothingSkipped
  <2> QED
    BY <1>1, <1>6, <2>1
<1>7. CASE sink.phase = "finished"
  <2>1. \/ sink.outbox = <<sink.provided, Finish>> /\ Len(Sent) = sink.provided
        \/ sink.outbox = <<Finish>> /\ Len(Sent) = sink.provided + 1
    BY <1>3, <1>4, <1>7 DEF StripInv, NothingSkipped
  <2> QED
    BY <1>1, <1>7, <2>1
<1> QED
  BY <1>5, <1>6, <1>7

(* Every step keeps the strips in order.                                   *)
LEMMA InOrderKept == StripInv /\ Next => InOrder'
<1> SUFFICES ASSUME StripInv, Next PROVE InOrder'
  OBVIOUS
<1>1. Sent \in Seq(Nat) /\ MaxStrips \in Nat /\ sink.provided \in Nat
  BY SentIsSeq, BridgeBounds DEF StripInv, BridgeInv, Shapes, Sinks
<1>2. CASE CloseConsumer /\ Sent' = got
  <2>1. /\ Len(got) <= Len(Sent) /\ got \in Seq(Nat) /\ Len(got) \in Nat /\ Len(Sent) \in Nat
        /\ \A i \in 1..Len(got) : got[i] = Sent[i]
    BY <1>1 DEF StripInv, BridgeInv, Shapes, Sent
  <2>2. sink' = sink
    BY <1>2 DEF CloseConsumer, threadVars
  <2> QED
    BY <1>2, <2>1, <2>2 DEF StripInv, InOrder
<1>3. CASE SendStrip /\ Sent' = Append(Sent, Head(sink.outbox)) /\ sink.outbox # <<>>
  <2>1. sink'.provided = sink.provided /\ sink'.phase = sink.phase
    BY <1>3 DEF SendStrip, StripInv, BridgeInv, Shapes, Sinks
  <2>2. /\ Len(Sent') = Len(Sent) + 1 /\ Len(Sent) \in Nat
        /\ \A i \in 1..Len(Sent) : Sent'[i] = Sent[i]
        /\ Sent'[Len(Sent) + 1] = Head(sink.outbox)
    BY <1>1, <1>3, SeqFacts DEF StripInv, BridgeInv, Shapes, Sinks
  <2>3. \/ Len(Sent) = Head(sink.outbox) /\ Len(Sent) <= sink.provided
        \/ /\ Head(sink.outbox) = Finish /\ Len(Sent) = sink.provided + 1
           /\ sink.phase = "finished"
    BY <1>1, <1>3, HeadDue
  <2>4. sink.provided <= MaxStrips
    BY DEF StripInv, SinkStands
  <2>5. ASSUME NEW i \in 1..Len(Sent)
        PROVE  Sent'[i] = i - 1 /\ Sent'[i] # Finish
    BY <1>1, <2>2, <2>3, <2>5 DEF StripInv, InOrder
  <2>6. Finish = MaxStrips + 1
    BY DEF Finish
  <2>7. \/ Sent'[Len(Sent) + 1] = Len(Sent) /\ Len(Sent) # Finish
        \/ /\ Sent'[Len(Sent) + 1] = Finish /\ Len(Sent) + 1 = sink'.provided + 2
           /\ sink'.phase = "finished"
    BY <1>1, <2>1, <2>2, <2>3, <2>4, <2>6
  <2> QED
    BY <2>2, <2>5, <2>7 DEF InOrder, Finish
<1>4. CASE Sent' = Sent /\ sink' = sink
  BY <1>4 DEF StripInv, InOrder
<1>5. CASE Sent' = Sent /\ sink' # sink
  <2>1. \/ sink'.provided = sink.provided /\ sink'.phase = sink.phase
        \/ sink.phase # "finished"
    BY <1>5, StreamUntouched DEF StripInv, BridgeInv, Shapes, Sinks, SinkStands,
        BeginCall, NextCall, FinishCall, Calls, SendStrip, Shipped, CloseConsumer,
        threadVars
  <2> QED
    BY <1>1, <1>5, <2>1 DEF StripInv, InOrder
<1> QED
  BY <1>2, <1>3, <1>4, <1>5, SentMoves DEF StripInv
(* Heads and tails of the short sequences an outbox holds.                 *)
LEMMA PairFacts ==
  \A n, m \in Nat :
    /\ <<>> \o <<m>> = <<m>> /\ <<n>> \o <<m>> = <<n, m>>
    /\ Tail(<<n, m>>) = <<m>> /\ Head(<<n, m>>) = n
<1> SUFFICES ASSUME NEW n \in Nat, NEW m \in Nat
             PROVE  /\ <<>> \o <<m>> = <<m>> /\ <<n>> \o <<m>> = <<n, m>>
                    /\ Tail(<<n, m>>) = <<m>> /\ Head(<<n, m>>) = n
  OBVIOUS
<1>1. <<n>> \in Seq(Nat) /\ <<m>> \in Seq(Nat) /\ <<n, m>> \in Seq(Nat)
  BY SeqFacts
<1>2. <<n>> \o <<m>> = <<n, m>>
  <2>1. <<n>> \o <<m>> \in Seq(Nat) /\ Len(<<n>> \o <<m>>) = Len(<<n, m>>)
    BY <1>1
  <2>2. \A i \in 1..2 : (<<n>> \o <<m>>)[i] = <<n, m>>[i]
    BY <1>1
  <2> QED
    BY <1>1, <2>1, <2>2, SeqEqual
<1>3. <<>> \o <<m>> = <<m>>
  BY <1>1, ConcatEmptySeq
<1> QED
  BY <1>2, <1>3

(* Every step keeps every strip provided either sent or in the outbox.     *)
LEMMA NothingSkippedKept == StripInv /\ Next => NothingSkipped'
<1> SUFFICES ASSUME StripInv, Next, ~sink.failed', consumer' = "open"
             PROVE  NothingSkipped'
  BY DEF NothingSkipped
<1>1. /\ Sent \in Seq(Nat) /\ sink \in Sinks /\ sink.provided \in Nat
      /\ thread # "ship" => sink.outbox = <<>> /\ sink.call = None
      /\ sink.phase = "new" => sink.provided = 0 /\ sink.current = None
      /\ sink.current # None => sink.current = sink.provided /\ sink.phase = "begun"
      /\ consumer = "open"
  BY SentIsSeq DEF StripInv, BridgeInv, Shapes, Sinks, SinkStands, Next, Decode, Drive,
      Ask, SendRequest, TakeReply, BeginCall, NextCall, FinishCall, Calls, SendStrip,
      Shipped, RunEnds, Report, Collect, Receive, NoMore, SendReply, Serve, Consume,
      Cancel, CancelStrips, DropFuture, CloseConsumer, stripVars
<1>2. CASE UNCHANGED <<sink, consumer>> /\ Sent' = Sent
  BY <1>2 DEF StripInv, NothingSkipped
<1>3. CASE BeginCall
  <2>1. /\ Sent' = Sent /\ sink.phase = "new" /\ ~sink.failed
        /\ sink'.phase = "begun" /\ sink'.outbox = <<0>> /\ sink'.provided = 0
    BY <1>1, <1>3, SentMoves DEF BeginCall, Calls, Begin, Sinks, StripInv, SendStrip, CloseConsumer
  <2>2. Len(Sent) = 0
    BY <1>1, <2>1 DEF StripInv, NothingSkipped
  <2> QED
    BY <2>1, <2>2 DEF NothingSkipped
<1>4. CASE NextCall
  <2>1. /\ Sent' = Sent /\ sink.phase = "begun" /\ ~sink.failed /\ sink.outbox = <<>>
        /\ sink'.phase = "begun" /\ sink'.outbox = Pending
        /\ sink'.provided = sink.provided /\ sink'.current = None
    BY <1>1, <1>4, SentMoves DEF NextCall, Calls, Sinks, StripInv, SendStrip, CloseConsumer
  <2>2. Len(Sent) = IF sink.current = None THEN sink.provided + 1 ELSE sink.provided
    BY <1>1, <2>1 DEF StripInv, NothingSkipped
  <2>3. CASE sink.current = None
    BY <2>1, <2>2, <2>3 DEF NothingSkipped, Pending
  <2>4. CASE sink.current # None
    BY <1>1, <2>1, <2>2, <2>4 DEF NothingSkipped, Pending
  <2> QED
    BY <2>3, <2>4
<1>5. CASE FinishCall
  <2>1. /\ Sent' = Sent /\ sink.phase = "begun" /\ ~sink.failed /\ sink.outbox = <<>>
        /\ sink'.phase = "finished" /\ sink'.outbox = Pending \o <<Finish>>
        /\ sink'.provided = sink.provided
    BY <1>1, <1>5, SentMoves DEF FinishCall, Calls, Sinks, StripInv, SendStrip, CloseConsumer
  <2>2. Len(Sent) = IF sink.current = None THEN sink.provided + 1 ELSE sink.provided
    BY <1>1, <2>1 DEF StripInv, NothingSkipped
  <2>3. CASE sink.current = None
    <3>1. Pending \o <<Finish>> = <<Finish>>
      BY <2>3, PairFacts, BridgeBounds DEF Pending, Finish
    <3> QED
      BY <2>1, <2>2, <2>3, <3>1 DEF NothingSkipped, Finish
  <2>4. CASE sink.current # None
    <3>1. Pending \o <<Finish>> = <<sink.provided, Finish>>
      BY <1>1, <2>4, PairFacts, BridgeBounds DEF Pending, Finish
    <3> QED
      BY <2>1, <2>2, <2>4, <3>1 DEF NothingSkipped, Finish
  <2> QED
    BY <2>3, <2>4
<1>6. CASE Shipped
  <2>1. /\ Sent' = Sent /\ ~sink.failed /\ sink.outbox = <<>> /\ sink'.outbox = <<>>
        /\ sink'.phase = sink.phase /\ thread = "ship"
    BY <1>1, <1>6, SentMoves DEF Shipped, Sinks, StripInv, SendStrip, CloseConsumer
  <2>2. CASE sink.call = "next"
    <3>1. sink.phase = "begun" /\ sink.current = None
      BY <2>2, NoneIsNothing DEF StripInv, SinkStands
    <3>2. Len(Sent) = sink.provided + 1
      BY <1>1, <2>1, <3>1 DEF StripInv, NothingSkipped
    <3>3. sink'.current = sink.provided + 1 /\ sink'.provided = sink.provided + 1
      BY <1>1, <1>6, <2>2 DEF Shipped, Sinks
    <3> QED
      BY <1>1, <2>1, <3>1, <3>2, <3>3, NoneIsNothing DEF NothingSkipped
  <2>3. CASE sink.call # "next"
    <3>1. sink'.current = sink.current /\ sink'.provided = sink.provided
      BY <1>1, <1>6, <2>3 DEF Shipped, Sinks
    <3>2. sink.phase # "new"
      BY <2>1 DEF StripInv, SinkStands
    <3> QED
      BY <1>1, <2>1, <3>1, <3>2 DEF NothingSkipped, StripInv, Finish
  <2> QED
    BY <2>2, <2>3
<1>7. CASE SendStrip
  <2>1. /\ thread = "ship" /\ sink.outbox # <<>> /\ sink.call # None
        /\ sink'.outbox = Tail(sink.outbox) /\ sink'.provided = sink.provided
        /\ sink'.phase = sink.phase /\ sink'.current = sink.current
    BY <1>1, <1>7 DEF SendStrip, Sinks, StripInv, SinkStands
  <2>2. Sent' = Append(Sent, Head(sink.outbox)) /\ sink.current = None
    <3>1. strips' = Append(strips, Head(sink.outbox)) /\ got' = got
      BY <1>1, <1>7 DEF SendStrip, Sinks
    <3>2. Head(sink.outbox) \in Nat /\ got \in Seq(Nat) /\ strips \in Seq(Nat)
      BY <1>1, <2>1, SeqFacts DEF StripInv, BridgeInv, Shapes, Sinks
    <3>3. got \o Append(strips, Head(sink.outbox)) = Append(got \o strips, Head(sink.outbox))
      BY <3>2
    <3> QED
      BY <2>1, <3>1, <3>3 DEF StripInv, SinkStands, Sent
  <2>3. /\ Len(Sent') = Len(Sent) + 1 /\ Len(Sent) \in Nat
        /\ Sent'[Len(Sent) + 1] = Head(sink.outbox)
    BY <1>1, <2>1, <2>2, SeqFacts DEF Sinks
  <2>4. CASE sink.phase = "begun" /\ sink.outbox = <<sink.provided>> /\ Len(Sent) = sink.provided
    <3>1. sink'.outbox = <<>>
      BY <1>1, <2>1, <2>4, SeqFacts
    <3> QED
      BY <1>1, <2>1, <2>2, <2>3, <2>4, <3>1 DEF NothingSkipped
  <2>5. CASE /\ sink.phase = "finished" /\ sink.outbox = <<sink.provided, Finish>>
             /\ Len(Sent) = sink.provided
    <3>1. sink'.outbox = <<Finish>>
      BY <1>1, <2>1, <2>5, PairFacts, BridgeBounds DEF Finish
    <3> QED
      BY <1>1, <2>1, <2>3, <2>5, <3>1 DEF NothingSkipped, Finish
  <2>6. CASE /\ sink.phase = "finished" /\ sink.outbox = <<Finish>>
             /\ Len(Sent) = sink.provided + 1
    <3>1. sink'.outbox = <<>> /\ Head(sink.outbox) = Finish
      BY <1>1, <2>1, <2>6, SeqFacts, BridgeBounds DEF Finish
    <3> QED
      BY <1>1, <2>1, <2>3, <2>6, <3>1 DEF NothingSkipped, Finish
  <2> QED
    BY <1>7, <2>1, <2>2, <2>4, <2>5, <2>6, HeadDue
<1>8. ~CloseConsumer
  BY DEF CloseConsumer
<1> QED
  BY <1>2, <1>3, <1>4, <1>5, <1>6, <1>7, <1>8, StreamUntouched, SentMoves DEF StripInv
(* The invariant holds throughout.                                         *)
LEMMA StripInvariance == Spec => []StripInv
<1>1. Init => StripInv
  <2> SUFFICES ASSUME Init PROVE StripInv
    OBVIOUS
  <2>1. Sent = <<>> /\ Len(Sent) = 0
    BY ConcatEmptySeq DEF Init, Sent
  <2>2. InOrder /\ NothingSkipped
    BY <2>1 DEF InOrder, NothingSkipped, Init, NewSink
  <2>3. SinkStands
    BY BridgeBounds, NoneIsNothing DEF SinkStands, Init, NewSink
  <2> QED
    BY <2>2, <2>3, InitBridgeInv DEF StripInv
<1>2. StripInv /\ Next => StripInv'
  BY ShapesKept, ResultKept, OneInFlightKept, InOrderKept, SinkStandsKept,
      NothingSkippedKept DEF StripInv, BridgeInv
<1>3. StripInv /\ UNCHANGED vars => StripInv'
  <2> SUFFICES ASSUME StripInv, UNCHANGED vars PROVE StripInv'
    OBVIOUS
  <2> USE DEF StripInv, vars, settings, threadVars, bridgeVars, channels, stripVars
  <2>1. BridgeInv'
    BY DEF BridgeInv, Shapes, ResultFollows, OneInFlight, Cancelled
  <2>2. InOrder' /\ NothingSkipped'
    BY DEF InOrder, NothingSkipped, Sent
  <2>3. SinkStands'
    BY DEF SinkStands, StripCancelled
  <2> QED
    BY <2>1, <2>2, <2>3
<1> QED
  BY <1>1, <1>2, <1>3, PTL DEF Spec

(* What reached the consumer is the start of the image with no strip       *)
(* missing, and all of it once the decode reports success                  *)
(* (ChannelRowSink::ship and finish, tokio_io.rs).                         *)
THEOREM Delivery == Spec => []StripsDelivered
<1>1. StripInv => StripsDelivered
  <2> SUFFICES ASSUME StripInv PROVE StripsDelivered
    OBVIOUS
  <2>1. Sent \in Seq(Nat) /\ DOMAIN Sent = 1..Len(Sent) /\ sink \in Sinks
    BY SentIsSeq DEF StripInv, BridgeInv, Shapes
  <2>2. ASSUME NEW i \in DOMAIN Sent
        PROVE  \/ Sent[i] = i - 1 /\ Sent[i] # Finish
               \/ Sent[i] = Finish /\ i = Len(Sent) /\ i = sink.provided + 2
    BY <2>1, <2>2 DEF StripInv, InOrder
  <2>3. ASSUME result = "ok", consumer = "open"
        PROVE  Sent # <<>> /\ Last(Sent) = Finish
    <3>1. thread = "gone" /\ outcome = "ok"
      BY <2>3, NoneIsNothing DEF StripInv, BridgeInv, ResultFollows
    <3>2. sink.phase = "finished" /\ ~sink.failed /\ sink.outbox = <<>>
      BY <3>1 DEF StripInv, SinkStands
    <3>3. Len(Sent) = sink.provided + 2 /\ Sent[Len(Sent)] = Finish
      BY <2>3, <3>2, SeqFacts, <2>1, BridgeBounds DEF StripInv, NothingSkipped, Finish
    <3> QED
      BY <2>1, <3>3 DEF Last, Sinks
  <2> QED
    BY <2>2, <2>3 DEF StripsDelivered
<1> QED
  BY <1>1, StripInvariance, PTL
=============================================================================
