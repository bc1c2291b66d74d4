------------------------------ MODULE Transcode ------------------------------
(***************************************************************************)
(* Packets in, a container out: an application pumps packets through a     *)
(* FusedDecoder (send_packet_until_accepted and drain_decoder of           *)
(* session.rs) whose every frame is pushed into a StagedEncode, and then   *)
(* finishes it.  Between its calls the application may reset the decoder,  *)
(* to seek or after a failure, and configure it again.                     *)
(*                                                                         *)
(* Packet number n decodes to frame n.                                     *)
(***************************************************************************)
EXTENDS StagedEncode

CONSTANT Packets   \* packets of the stream

ASSUME PacketsIsNat == Packets \in Nat

VARIABLES
  dec,   \* the FusedDecoder
  next,  \* the packet the application offers next
  kept   \* packets the decoder took, less those a reset made it forget

vars == <<stagedVars, dec, next, kept>>

Init == StagedInit /\ dec = NewSession /\ next = 1 /\ kept = <<>>
------------------------------------------------------------------------------
Encoding == UNCHANGED <<op, enc, previous, changed, staged, admitted, out, report>>

\* A frame of the decoder is pushed; the pump goes on at `back`.
Push(o, back) ==
  /\ dec' = o.s /\ frame' = o.out /\ pc' = "policy" /\ ret' = back
  /\ UNCHANGED <<next, kept>> /\ Encoding

\* The pump goes on, or returns.
Pumps(o, at) ==
  dec' = o.s /\ pc' = at /\ UNCHANGED <<frame, ret>> /\ Encoding

Calling == pc = "idle" /\ op # "consumed"

(***************************************************************************)
(* send_packet_until_accepted: what the decoder does not accept stays with *)
(* the application, which may offer it again.                              *)
(***************************************************************************)
Offer ==
  /\ Calling /\ next <= Packets
  /\ pc' = "psend" /\ UNCHANGED <<dec, next, kept, frame, ret>> /\ Encoding

PumpSend ==
  /\ pc = "psend"
  /\ \E o \in Guard(dec, NativeSend(dec, next)) :
       \/ /\ o.r = "accepted" /\ Pumps(o, "pdrain")
          /\ next' = next + 1 /\ kept' = Append(kept, next)
       \/ o.r = "pending" /\ Pumps(o, "pfull") /\ UNCHANGED <<next, kept>>
       \/ o.r \in Failing /\ Pumps(o, "idle") /\ UNCHANGED <<next, kept>>

PumpFullDiscards ==
  /\ pc = "pfull"
  /\ \E o \in Guard(dec, NativeReceive(dec)) :
       \/ o.r = "ready" /\ Pumps(o, "psend") /\ UNCHANGED <<next, kept>>
       \/ o.r # "ready" /\ Pumps(o, "idle") /\ UNCHANGED <<next, kept>>

PumpFull ==
  /\ pc = "pfull"
  /\ \E o \in Guard(dec, NativeReceive(dec)) :
       \/ o.r = "ready" /\ Push(o, "psend")
       \/ o.r # "ready" /\ Pumps(o, "idle") /\ UNCHANGED <<next, kept>>

\* NeedInput is the return; an early end is an error, and so is a failure.
PumpDrain ==
  /\ pc = "pdrain"
  /\ \E o \in Guard(dec, NativeReceive(dec)) :
       \/ o.r = "ready" /\ Push(o, "pdrain")
       \/ o.r # "ready" /\ Pumps(o, "idle") /\ UNCHANGED <<next, kept>>

(***************************************************************************)
(* drain_decoder: the same loop, after end_input, until the end.           *)
(***************************************************************************)
DrainDecoder ==
  /\ Calling
  /\ \E o \in GuardEnd(dec) :
       Pumps(o, IF o.r = "ok" THEN "pdrain" ELSE "idle") /\ UNCHANGED <<next, kept>>

Configure ==
  /\ Calling
  /\ \E o \in Guard(dec, NativeConfigure(dec)) : Pumps(o, "idle") /\ UNCHANGED <<next, kept>>

\* What the decoder held is forgotten; frames it gave stay valid.
Reset ==
  /\ Calling
  /\ \E o \in FusedReset(dec) :
       /\ Pumps(o, "idle") /\ UNCHANGED next
       /\ kept' = IF o.r = "ok" THEN admitted ELSE kept
------------------------------------------------------------------------------
Encode == EncodeNext /\ UNCHANGED <<dec, next, kept>>

Decode ==
  \/ Offer \/ PumpSend \/ PumpFull \/ PumpDrain
  \/ DrainDecoder \/ Configure \/ Reset

Next == Decode \/ Encode

Spec == Init /\ [][Next]_vars
------------------------------------------------------------------------------
(***************************************************************************)
(* Properties                                                              *)
(***************************************************************************)
\* While both halves work, every packet the decoder took is, in order, a
\* frame the encoder accepted, the frame in between, or still inside the
\* decoder: a retry after backpressure neither loses nor repeats one
\* (session.rs:590-640, staged.rs:373-402).
InBetween == IF frame # None /\ pc \in {"policy", "convert", "send", "full"}
             THEN <<frame>> ELSE <<>>
NothingLost ==
  (op \in {"live", "taken"} /\ ~dec.dirty) => kept = admitted \o InBetween \o dec.queue

\* Nothing reaches the destination while the encoder is alive, and what is
\* there is a prefix of the header and the packets of the accepted frames in
\* order; a completed operation wrote them all, and the trailer
\* (staged.rs:1-8, 425-486).
Body(frames) ==
  <<Header>> \o [i \in 1..(PacketBytes * Len(frames)) |-> frames[(i - 1) \div PacketBytes + 1]]
Whole == Append(Body(admitted), Trailer)
OutputFollowsEncoder ==
  /\ enc # None => out.dest = <<>>
  /\ Len(out.dest) <= Len(Whole) /\ out.dest = SubSeq(Whole, 1, Len(out.dest))
  /\ (report # None /\ report.stage = "Completed") => out.dest = Whole

\* What a call reports as emitted is what the destination holds, whether it
\* failed in the writer, in the muxer or in the store, and patches do not
\* count (staged.rs:66-75, 285-296, output.rs:60-68).
EmittedIsWritten == (report # None /\ pc = "idle") => report.emitted = Len(out.dest)

\* A native session that failed or unwound is not called again, except for
\* the decoder's reset, until a reset succeeded (session.rs:441-541).
NativeNotReused == ~dec.misused /\ (enc # None => ~enc.misused)
==============================================================================
