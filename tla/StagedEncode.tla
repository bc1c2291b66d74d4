---------------------------- MODULE StagedEncode -----------------------------
(***************************************************************************)
(* A finite encode of frames into a container (staged.rs), which owns its  *)
(* encoder, a store of staged packets (staging.rs) and a prepared muxer    *)
(* and destination (output.rs).  A frame is resolved through policy,       *)
(* converted and sent; the packets the encoder gives are staged.  finish   *)
(* drains the encoder, drops it, and only then writes: the header, the     *)
(* packets, the tail, final patches and a flush.                           *)
(*                                                                         *)
(* A frame, its packet and the bytes of that packet carry the frame's      *)
(* number.  Policy, conversion, validation, storage admission, the muxer   *)
(* and the writer may each refuse or fail, and the pulse of the call may   *)
(* trip at each of its checks: every step may fail, whatever it was given. *)
(***************************************************************************)
EXTENDS MediaSession

CONSTANTS
  MaxStaged,    \* packets the store admits
  PacketBytes   \* bytes of a packet in the container

ASSUME StagingBounds == MaxStaged \in Nat /\ PacketBytes \in Nat \ {0}

VARIABLES
  op,        \* the operation: "live", "taken" by a push, "failed", "consumed" by finish
  enc,       \* its FusedEncoder, None once dropped
  previous,  \* a frame has been admitted
  changed,   \* policy_changed_after_input
  staged,    \* packets in the store
  admitted,  \* frames the encoder accepted
  frame,     \* the frame being pushed
  out,       \* publication, see NoOutput
  report,    \* what the last call returned: None or [stage, emitted]
  pc,
  ret        \* where a push returns to

stagedVars == <<op, enc, previous, changed, staged, admitted, frame, out, report, pc, ret>>

NoOutput == [
  writing |-> None,   \* what publish is writing: "header", "packet", "tail", "patch"
  pending |-> <<>>,   \* bytes of it the destination has not taken
  held    |-> None,   \* the packet read back and not yet written
  muxed   |-> <<>>,   \* bytes the muxer holds until it finishes
  dest    |-> <<>>,   \* bytes appended to the destination
  stats   |-> 0,      \* Output's count of them
  emitted |-> 0]      \* finish's copy of that count

Header  == 0
Trailer == -1

StagedInit ==
  /\ op = "live" /\ enc = NewSession
  /\ previous = FALSE /\ changed = FALSE
  /\ staged = <<>> /\ admitted = <<>> /\ frame = None
  /\ out = NoOutput /\ report = None
  /\ pc = "idle" /\ ret = None

ReportedLast(inner) == out.emitted

\* Bytes a failure reports: the output's own count when the failure is the
\* output's (inner), and otherwise the count at the last step that succeeded.
Reported(inner) == IF inner = None THEN out.emitted ELSE inner

\* Encoder, store and preparation are dropped, on an error and on an unwind.
Drops ==
  /\ op' = IF op = "consumed" THEN op ELSE "failed"
  /\ enc' = None /\ staged' = <<>>
  /\ out' = [out EXCEPT !.writing = None, !.pending = <<>>, !.held = None, !.muxed = <<>>]
  /\ frame' = None /\ pc' = "idle" /\ ret' = None
  /\ UNCHANGED <<previous, changed, admitted>>

FailAfter(stage, inner) ==
  Drops /\ report' = [stage |-> stage, emitted |-> Reported(inner)]

Fail(stage) == FailAfter(stage, None)
Unwind      == Drops /\ UNCHANGED report

Encodes == UNCHANGED <<op, changed, previous, frame, out, report, ret>>
------------------------------------------------------------------------------
(***************************************************************************)
(* push_converted, with the frame a pump delivers                          *)
(***************************************************************************)
\* A preset changed after input, a changed fidelity, an offer that does not
\* match, and the application's policy all refuse.
Policy ==
  /\ pc = "policy"
  /\ \/ /\ op = "live" /\ ~changed
        /\ op' = "taken" /\ pc' = "convert"
        /\ UNCHANGED <<enc, previous, changed, staged, admitted, frame, out, report, ret>>
     \/ op = "live" /\ Fail("Policy")
     \/ op = "failed" /\ Fail("Terminal")

Convert ==
  /\ pc = "convert"
  /\ \/ pc' = "send" /\ UNCHANGED <<enc, staged, admitted>> /\ Encodes
     \/ Fail("Convert") \/ Unwind

\* stage_packet: a packet of the encoder goes to the store.
Stage(o, stage) ==
  \/ /\ Len(staged) < MaxStaged
     /\ enc' = o.s /\ staged' = Append(staged, o.out)
     /\ UNCHANGED <<pc, admitted>> /\ Encodes
  \/ Fail(stage)

EncoderBreaks(o, stage) == IF o.r = "unwound" THEN Unwind ELSE Fail(stage)

Send ==
  /\ pc = "send"
  /\ \E o \in Guard(enc, NativeSend(enc, frame)) :
       \/ /\ o.r = "accepted" /\ pc' = "drain"
          /\ enc' = o.s /\ admitted' = Append(admitted, frame)
          /\ UNCHANGED staged /\ Encodes
       \/ /\ o.r = "pending" /\ pc' = "full"
          /\ enc' = o.s /\ UNCHANGED <<staged, admitted>> /\ Encodes
       \/ o.r \in Failing /\ EncoderBreaks(o, "Encode")

\* The encoder promised a packet before it takes the frame.
Full ==
  /\ pc = "full"
  /\ \E o \in Guard(enc, NativeReceive(enc)) :
       \/ /\ o.r = "ready" /\ Len(staged) < MaxStaged /\ pc' = "send"
          /\ enc' = o.s /\ staged' = Append(staged, o.out)
          /\ UNCHANGED admitted /\ Encodes
       \/ o.r # "unwound" /\ Fail("Encode")
       \/ o.r = "unwound" /\ Unwind

Drain ==
  /\ pc = "drain"
  /\ \E o \in Guard(enc, NativeReceive(enc)) :
       \/ o.r = "ready" /\ Stage(o, "Encode")
       \/ /\ o.r = "need" /\ pc' = "admit"
          /\ enc' = o.s /\ UNCHANGED <<staged, admitted>> /\ Encodes
       \/ o.r = "end" /\ Fail("Encode")
       \/ o.r \in Failing /\ EncoderBreaks(o, "Encode")

\* The configuration and the fidelity must still be the prepared ones.
Admit ==
  /\ pc = "admit"
  /\ \/ /\ previous' = TRUE /\ op' = "live" /\ frame' = None
        /\ pc' = ret /\ ret' = None
        /\ UNCHANGED <<enc, changed, staged, admitted, out, report>>
     \/ Fail("Encode")
------------------------------------------------------------------------------
(***************************************************************************)
(* finish: drain the encoder and drop it                                   *)
(***************************************************************************)
Finish ==
  /\ pc = "idle" /\ op \in {"live", "failed"}
  /\ op' = "consumed"
  /\ \/ op = "live" /\ pc' = "end" /\ UNCHANGED report
     \/ op = "failed" /\ report' = [stage |-> "Terminal", emitted |-> 0] /\ UNCHANGED pc
  /\ UNCHANGED <<enc, previous, changed, staged, admitted, frame, out, ret>>

EndInput ==
  /\ pc = "end"
  /\ \/ /\ ~changed /\ previous
        /\ \E o \in GuardEnd(enc) :
             \/ /\ o.r = "ok" /\ pc' = "last"
                /\ enc' = o.s /\ UNCHANGED <<staged, admitted>> /\ Encodes
             \/ o.r \in Failing /\ EncoderBreaks(o, "Finish")
     \/ (changed \/ ~previous) /\ Fail("Finish")

DrainedEarly == {"end", "need"}

\* Only the end of the stream says that nothing is left inside.
Drained == {"end"}

Last ==
  /\ pc = "last"
  /\ \E o \in Guard(enc, NativeReceive(enc)) :
       \/ o.r = "ready" /\ Stage(o, "Finish")
       \/ /\ o.r \in Drained /\ pc' = "replay"
          /\ enc' = None /\ UNCHANGED <<staged, admitted>> /\ Encodes
       \/ o.r \in {"need", "end"} /\ Fail("Finish")
       \/ o.r \in Failing /\ EncoderBreaks(o, "Finish")
------------------------------------------------------------------------------
(***************************************************************************)
(* finish: publish                                                         *)
(***************************************************************************)
Publishes == UNCHANGED <<op, enc, previous, changed, admitted, frame, report, ret>>

PublishFails(inner) == FailAfter("Publish", inner)

\* The next packet leaves the store.
ReadsBack(o) ==
  /\ out' = [o EXCEPT !.held = IF staged = <<>> THEN None ELSE Head(staged)]
  /\ staged' = IF staged = <<>> THEN <<>> ELSE Tail(staged)

\* The first packet is read back before the destination is touched.
Replay ==
  /\ pc = "replay"
  /\ \/ /\ ReadsBack([out EXCEPT !.writing = "header", !.pending = <<Header>>])
        /\ pc' = "write" /\ Publishes
     \/ PublishFails(None)

\* A final patch overwrites what was appended, and does not count.
Counts(o, bytes) ==
  IF o.writing = "patch" THEN o
  ELSE [o EXCEPT !.dest = @ \o bytes, !.stats = @ + Len(bytes)]

\* write_all: the destination takes some of the bytes, or fails.
Write ==
  /\ pc = "write" /\ out.pending # <<>>
  /\ \/ /\ \E n \in 1..Len(out.pending) :
             out' = [Counts(out, SubSeq(out.pending, 1, n))
                       EXCEPT !.pending = SubSeq(@, n + 1, Len(@))]
        /\ UNCHANGED <<pc, staged>> /\ Publishes
     \/ PublishFails(out.stats)

\* The destination has taken what the muxer had to give.
Written ==
  /\ pc = "write" /\ out.pending = <<>>
  /\ \/ /\ out.writing \in {"header", "packet"}
        /\ out' = [out EXCEPT !.emitted = out.stats]
        /\ pc' = IF out.writing = "packet" THEN "read" ELSE "mux"
        /\ UNCHANGED staged /\ Publishes
     \/ /\ out.writing \in {"tail", "patch"}
        /\ pc' = IF out.writing = "tail" THEN "patch" ELSE "flush"
        /\ UNCHANGED <<staged, out>> /\ Publishes
     \/ PublishFails(out.stats)

\* Reading back a packet may fail, which is not a failure of the output.
ReadBack ==
  /\ pc = "read"
  /\ \/ ReadsBack(out) /\ pc' = "mux" /\ Publishes
     \/ PublishFails(None)

\* The muxer streams the bytes of a packet, or holds them until it finishes.
MuxPacket ==
  /\ pc = "mux" /\ out.held # None
  /\ \/ /\ LET bytes == out.muxed \o [i \in 1..PacketBytes |-> out.held] IN
           \E streams \in BOOLEAN :
             out' = [out EXCEPT !.writing = "packet",
                                !.pending = IF streams THEN bytes ELSE <<>>,
                                !.muxed   = IF streams THEN <<>> ELSE bytes]
        /\ pc' = "write" /\ UNCHANGED staged /\ Publishes
     \/ PublishFails(out.stats)

MuxFinish ==
  /\ pc = "mux" /\ out.held = None
  /\ \/ /\ out' = [out EXCEPT !.writing = "tail", !.muxed = <<>>,
                              !.pending = Append(out.muxed, Trailer)]
        /\ pc' = "write" /\ UNCHANGED staged /\ Publishes
     \/ PublishFails(out.stats)

\* A layout may have a field of the header to overwrite.
Patch ==
  /\ pc = "patch"
  /\ \/ /\ out' = [out EXCEPT !.writing = "patch", !.pending = <<Header>>]
        /\ pc' = "write" /\ UNCHANGED staged /\ Publishes
     \/ pc' = "flush" /\ UNCHANGED <<staged, out>> /\ Publishes
     \/ PublishFails(out.stats)

Flush ==
  /\ pc = "flush"
  /\ \/ /\ report' = [stage |-> "Completed", emitted |-> out.stats]
        /\ pc' = "idle"
        /\ UNCHANGED <<op, enc, previous, changed, staged, admitted, frame, out, ret>>
     \/ PublishFails(out.stats)

\* with_policy_set between two calls; too late once a frame was admitted.
ChangePolicy ==
  /\ pc = "idle" /\ op = "live" /\ previous
  /\ changed' = TRUE
  /\ UNCHANGED <<op, enc, previous, staged, admitted, frame, out, report, pc, ret>>

EncodeNext ==
  \/ Policy \/ Convert \/ Send \/ Full \/ Drain \/ Admit
  \/ Finish \/ EndInput \/ Last
  \/ Replay \/ Write \/ Written \/ ReadBack \/ MuxPacket \/ MuxFinish \/ Patch \/ Flush
  \/ ChangePolicy
==============================================================================
