----------------------------- MODULE PullBridge ------------------------------
(***************************************************************************)
(* A decoder that pulls its bytes, run on a thread of its own, between an  *)
(* async source and an async consumer (tokio_io.rs,                        *)
(* pull_decode_on_thread and ChannelRowSink).                              *)
(*                                                                         *)
(* Four actors: the decode thread, the bridge future that serves its reads *)
(* and collects its result, the consumer of the strips, and whoever raises *)
(* the pulse or drops the future.  They share a channel of one request, a  *)
(* channel of one reply, a one-shot for the result and a bounded channel   *)
(* of strips.  Requests are numbered: a reply carries the number of the    *)
(* request it answers, its kind and its bytes being those of that request. *)
(* The decoder is any that makes at most MaxAsks reads and MaxStrips       *)
(* strips, and it may go on after an error.                                *)
(***************************************************************************)
EXTENDS Naturals, SequencesExt

CONSTANTS
  MaxAsks,     \* reads of one decode
  MaxStrips,   \* strips of one image
  StripCap,    \* capacity of the strip channel
  None

ASSUME BridgeBounds == /\ MaxAsks \in Nat /\ MaxStrips \in Nat
                       /\ StripCap \in Nat \ {0}

ASSUME NoneIsNothing ==
  None \notin Nat \cup {"ok", "error", "lost", "begin", "next", "finish"}

VARIABLES
  pulse,      \* of the reads: "none", "live", or "cancelled", assumed for good
  stripPulse, \* of the strip sink, which has none unless with_pulse gives it one
  hangs,      \* the source may stop answering
  stalls,     \* the consumer may stop receiving
  thread,     \* the decode thread: "run", "send", "wait", "ship", "left", "gone"
  asked,      \* number of its latest request
  outcome,    \* what the decode came to
  sink,       \* its ChannelRowSink
  bridge,     \* the future: "select", "serve", "reply", "returned", "dropped"
  serving,    \* the request the bridge serves
  open,       \* requests_open: the request channel may still bring one
  result,     \* what the future returned
  requests, replies, done,
  strips,     \* the channel of strips
  consumer,   \* "open" or "closed"
  got         \* what the consumer received

threadVars == <<thread, asked, outcome, sink>>
bridgeVars == <<bridge, serving, open, result>>
channels   == <<requests, replies, done>>
stripVars  == <<strips, consumer, got>>
settings   == <<pulse, stripPulse, hangs, stalls>>
vars == <<settings, threadVars, bridgeVars, channels, stripVars>>

\* Strip events: Begin, strips 1..MaxStrips, Finish.
Begin  == 0
Finish == MaxStrips + 1

NewSink == [call |-> None, outbox |-> <<>>, current |-> None, provided |-> 0,
            phase |-> "new", failed |-> FALSE]

Init ==
  /\ pulse \in {"none", "live"} /\ stripPulse \in {"none", "live"}
  /\ hangs \in BOOLEAN /\ stalls \in BOOLEAN
  /\ thread = "run" /\ asked = 0 /\ outcome = None /\ sink = NewSink
  /\ bridge = "select" /\ serving = None /\ open = TRUE /\ result = None
  /\ requests = <<>> /\ replies = <<>> /\ done = None
  /\ strips = <<>> /\ consumer = "open" /\ got = <<>>

Cancelled      == pulse = "cancelled"
StripCancelled == stripPulse = "cancelled"

StopsBetween == Cancelled /\ thread = "wait" /\ replies = <<>>

\* The pulse is checked before every attempt of a read, so nothing is sent or
\* taken once it is cancelled.
Stops == Cancelled

RacingRequests == {"select"}

\* The bridge looks at completion where it waits for a request and where it
\* waits for the source.
Racing == {"select", "serve"}

StripRoom == Len(strips) < StripCap

PendingDropped == <<>>

\* A buffer is shipped when the next one is asked for, or at the end.
Pending == IF sink.current = None THEN <<>> ELSE <<sink.current>>

BridgeClosed == bridge \in {"returned", "dropped"}
ReaderGone   == thread \in {"left", "gone"}
------------------------------------------------------------------------------
(***************************************************************************)
(* The decode thread: reads                                                *)
(***************************************************************************)
\* The read returned to the decoder, with an error or a reply.
Resumes == thread' = "run" /\ UNCHANGED <<outcome, sink>>

Ask ==
  /\ thread = "run" /\ asked < MaxAsks
  /\ asked' = asked + 1
  /\ thread' = IF Stops THEN "run" ELSE "send"
  /\ UNCHANGED <<settings, outcome, sink, bridgeVars, channels, stripVars>>

SendRequest ==
  /\ thread = "send"
  /\ \/ Stops /\ Resumes /\ UNCHANGED requests
     \/ ~Stops /\ BridgeClosed /\ Resumes /\ UNCHANGED requests
     \/ /\ ~Stops /\ ~BridgeClosed /\ requests = <<>>
        /\ requests' = <<asked>>
        /\ thread' = "wait" /\ UNCHANGED <<outcome, sink>>
  /\ UNCHANGED <<settings, asked, bridgeVars, replies, done, stripVars>>

TakeReply ==
  /\ thread = "wait"
  /\ \/ Stops /\ UNCHANGED replies
     \/ ~Stops /\ replies # <<>> /\ replies' = Tail(replies)
     \/ ~Stops /\ replies = <<>> /\ BridgeClosed /\ UNCHANGED replies
  /\ Resumes
  /\ UNCHANGED <<settings, asked, bridgeVars, requests, done, stripVars>>
------------------------------------------------------------------------------
(***************************************************************************)
(* The decode thread: rows                                                 *)
(***************************************************************************)
Calls(name, events, phase) ==
  /\ thread = "run"
  /\ sink' = [sink EXCEPT !.call = name, !.outbox = events, !.current = None,
                          !.phase = phase]
  /\ thread' = "ship"
  /\ UNCHANGED <<settings, asked, outcome, bridgeVars, channels, stripVars>>

BeginCall  == sink.phase = "new" /\ Calls("begin", <<Begin>>, "begun")
NextCall   == /\ sink.phase = "begun" /\ sink.provided < MaxStrips
              /\ Calls("next", Pending, "begun")
FinishCall == sink.phase = "begun" /\ Calls("finish", Pending \o <<Finish>>, "finished")

\* The shipped strip is gone whether or not it was delivered.  A sink without
\* a pulse of its own waits for room or for the consumer to go, whatever
\* became of the pulse of the reads.
SendStrip ==
  /\ thread = "ship" /\ sink.outbox # <<>>
  /\ \/ /\ StripCancelled \/ consumer = "closed"
        /\ sink' = [sink EXCEPT !.call = None, !.outbox = <<>>, !.failed = TRUE]
        /\ thread' = "run"
        /\ UNCHANGED strips
     \/ /\ ~StripCancelled /\ consumer = "open" /\ StripRoom
        /\ strips' = Append(strips, Head(sink.outbox))
        /\ sink' = [sink EXCEPT !.outbox = Tail(@)]
        /\ UNCHANGED thread
  /\ UNCHANGED <<settings, asked, outcome, bridgeVars, channels, consumer, got>>

Shipped ==
  /\ thread = "ship" /\ sink.outbox = <<>>
  /\ sink' = IF sink.call = "next"
             THEN [sink EXCEPT !.call = None, !.current = sink.provided + 1,
                               !.provided = @ + 1]
             ELSE [sink EXCEPT !.call = None]
  /\ thread' = "run"
  /\ UNCHANGED <<settings, asked, outcome, bridgeVars, channels, stripVars>>

\* The decode returns and its reader is dropped; a panic, or an executor that
\* drops the job, leaves no result.
RunEnds ==
  /\ thread = "run"
  /\ \/ outcome' = "ok" /\ sink.phase = "finished" /\ ~sink.failed
     \/ outcome' \in {"error", "lost"}
  /\ thread' = "left"
  /\ UNCHANGED <<settings, asked, sink, bridgeVars, channels, stripVars>>

Report ==
  /\ thread = "left"
  /\ done' = outcome
  /\ thread' = "gone"
  /\ UNCHANGED <<settings, asked, outcome, sink, bridgeVars, requests, replies,
                 stripVars>>
------------------------------------------------------------------------------
(***************************************************************************)
(* The bridge future.  Completion is looked at before anything else.       *)
(***************************************************************************)
Collect ==
  /\ bridge \in Racing /\ done # None
  /\ bridge' = "returned" /\ result' = done
  /\ UNCHANGED <<settings, threadVars, serving, open, channels, stripVars>>

Receive ==
  /\ bridge = "select" /\ done = None /\ open /\ requests # <<>>
  /\ serving' = Head(requests) /\ requests' = Tail(requests)
  /\ bridge' = "serve"
  /\ UNCHANGED <<settings, threadVars, open, result, replies, done, stripVars>>

NoMore ==
  /\ bridge = "select" /\ done = None /\ open
  /\ requests = <<>> /\ ReaderGone
  /\ open' = FALSE
  /\ UNCHANGED <<settings, threadVars, bridge, serving, result, channels, stripVars>>

\* The source answers, with bytes or with an error.
Serve ==
  /\ bridge = "serve" /\ done = None
  /\ bridge' = "reply"
  /\ UNCHANGED <<settings, threadVars, serving, open, result, channels, stripVars>>

\* Waits for room alone: nothing races this send.
SendReply ==
  /\ bridge = "reply"
  /\ \/ ReaderGone /\ UNCHANGED replies
     \/ ~ReaderGone /\ replies = <<>> /\ replies' = <<serving>>
  /\ bridge' = "select" /\ serving' = None
  /\ UNCHANGED <<settings, threadVars, open, result, requests, done, stripVars>>
------------------------------------------------------------------------------
(***************************************************************************)
(* The others                                                              *)
(***************************************************************************)
Cancel ==
  /\ pulse = "live" /\ pulse' = "cancelled"
  /\ UNCHANGED <<stripPulse, hangs, stalls, threadVars, bridgeVars, channels,
                 stripVars>>

CancelStrips ==
  /\ stripPulse = "live" /\ stripPulse' = "cancelled"
  /\ UNCHANGED <<pulse, hangs, stalls, threadVars, bridgeVars, channels, stripVars>>

\* The caller drops the future, and its ends of the channels with it.
DropFuture ==
  /\ ~BridgeClosed
  /\ bridge' = "dropped" /\ serving' = None /\ requests' = <<>>
  /\ UNCHANGED <<settings, threadVars, open, result, replies, done, stripVars>>

Consume ==
  /\ consumer = "open" /\ strips # <<>>
  /\ got' = Append(got, Head(strips)) /\ strips' = Tail(strips)
  /\ UNCHANGED <<settings, threadVars, bridgeVars, channels, consumer>>

CloseConsumer ==
  /\ consumer = "open"
  /\ consumer' = "closed" /\ strips' = <<>>
  /\ UNCHANGED <<settings, threadVars, bridgeVars, channels, got>>

Decode == \/ Ask \/ SendRequest \/ TakeReply
          \/ BeginCall \/ NextCall \/ FinishCall \/ SendStrip \/ Shipped
          \/ RunEnds \/ Report
Drive  == Collect \/ Receive \/ NoMore \/ SendReply

Next == \/ Decode \/ Drive \/ Serve \/ Consume
        \/ Cancel \/ CancelStrips \/ DropFuture \/ CloseConsumer

(***************************************************************************)
(* The executor runs the decode thread and polls the future when it is     *)
(* woken.  A decode that is not waiting goes on and, its calls being       *)
(* finite, ends.  A source answers unless it hangs; a consumer receives    *)
(* unless it stalls.                                                       *)
(***************************************************************************)
Fairness == /\ WF_vars(Decode) /\ WF_vars(Drive)
            /\ WF_vars(~hangs /\ Serve) /\ WF_vars(~stalls /\ Consume)

Spec == Init /\ [][Next]_vars /\ Fairness
------------------------------------------------------------------------------
(***************************************************************************)
(* Properties                                                              *)
(***************************************************************************)
Results == {"ok", "error", "lost"}

\* The decoder is handed the answer to the request it is blocked on, never
\* one it gave up on when the pulse was cancelled (Links::ask): a late reply
\* taken for the next read would be other bytes of the source.
AnswersMatch ==
  [][replies # <<>> /\ replies' = <<>> /\ thread = "wait" =>
       Head(replies) = asked]_vars

\* What reached the consumer is the start of the image, strip after strip
\* with none missing, and Finish only behind the last; a decode whose result
\* was success has handed over all of it (ChannelRowSink::ship and finish).
Sent == got \o strips

StripsDelivered ==
  /\ \A i \in DOMAIN Sent :
       \/ Sent[i] = i - 1 /\ Sent[i] # Finish
       \/ Sent[i] = Finish /\ i = Len(Sent) /\ i = sink.provided + 2
  /\ result = "ok" /\ consumer = "open" =>
       Sent # <<>> /\ Last(Sent) = Finish

(***************************************************************************)
(* Nobody waits for ever.  The future is over and the thread released once *)
(* neither of the two things it can wait for holds it: the source answers, *)
(* or the pulse of the reads is cancelled, or the caller dropped the       *)
(* future; and the consumer receives, or has gone, or the sink was given a *)
(* pulse and it is cancelled.  Cancelling the reads does not free a thread *)
(* that blocks in a sink without a pulse.                                  *)
(***************************************************************************)
Over == BridgeClosed /\ thread = "gone"

ReadsFree  == Cancelled \/ ~hangs \/ bridge = "dropped"
StripsFree == StripCancelled \/ ~stalls \/ consumer = "closed"

Released == (ReadsFree /\ StripsFree) ~> Over
==============================================================================
