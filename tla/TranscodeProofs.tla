--------------------------- MODULE TranscodeProofs ---------------------------
(***************************************************************************)
(* The properties of the run `transcode` as theorems: for any number of    *)
(* packets, any size of the sessions, of the store and of a packet, and    *)
(* any native sessions.                                                    *)
(***************************************************************************)
EXTENDS Transcode, SequenceTheorems, TLAPS

(* A session is called again only if its last call left it clean.          *)
Trusted(s) == ~s.misused /\ (s.dirty => s.failed)

Stages == {"policy", "convert", "send", "full", "drain", "admit"}
Pumping == {"psend", "pfull", "pdrain"}
Writing == {"write", "read", "mux", "patch", "flush"}
Finishing == {"end", "last", "replay"} \cup Writing

Outputs == [writing : {"header", "packet", "tail", "patch", None},
            pending : Seq(Int), held : Nat \cup {None}, muxed : Seq(Int),
            dest : Seq(Int), stats : Nat, emitted : Nat]

Shapes ==
  /\ op \in {"live", "taken", "failed", "consumed"}
  /\ enc \in Sessions \cup {None} /\ dec \in Sessions
  /\ previous \in BOOLEAN /\ changed \in BOOLEAN
  /\ staged \in Seq(Nat) /\ admitted \in Seq(Nat) /\ kept \in Seq(Nat)
  /\ frame \in Nat \cup {None} /\ next \in Nat
  /\ out \in Outputs
  /\ pc \in {"idle"} \cup Pumping \cup Stages \cup Finishing
  /\ ret \in {"psend", "pdrain", None}

(* Which stage of the operation the caller can be at.                      *)
Control ==
  /\ pc \in {"policy", "convert", "send", "full"} => frame # None
  /\ pc \in Stages => ret \in {"psend", "pdrain"}
  /\ op = "taken" <=> pc \in Stages \ {"policy"}
  /\ pc \in Finishing => op = "consumed"
  /\ op = "consumed" => pc \in Finishing \cup {"idle"}
  /\ enc # None <=> op \in {"live", "taken"} \/ pc \in {"end", "last"}

(* Between the encoder and the store no frame is lost.                     *)
EncoderKeeps ==
  /\ Trusted(dec)
  /\ enc # None => Trusted(enc) /\ admitted = staged \o enc.queue
  /\ pc = "replay" => staged = admitted

SessionInv == Shapes /\ Control /\ EncoderKeeps
-----------------------------------------------------------------------------
(* Sequences of numbers are closed under what the pump and the store do.   *)
LEMMA SeqFacts ==
  /\ <<>> \in Seq(Nat)
  /\ \A n \in Nat : <<n>> \in Seq(Nat)
  /\ \A s \in Seq(Nat) : s # <<>> => Head(s) \in Nat /\ Tail(s) \in Seq(Nat)
  /\ \A s \in Seq(Nat), n \in Nat : Append(s, n) \in Seq(Nat)
  /\ \A s, t \in Seq(Nat) : s \o t \in Seq(Nat)
  /\ \A s \in Seq(Nat) : s \o <<>> = s /\ <<>> \o s = s
OBVIOUS

(* What a native call may come to: an outcome as the codec leaves it.      *)
Natives == [s : Sessions, r : {"error", "unwound", "pending", "accepted", "need",
                               "ready", "end", "ok"}, out : Nat \cup {None}]

NativeCall(s, o) ==
  /\ o \in Natives /\ o.s.misused = s.misused
  /\ IF o.r \in {"error", "unwound"} THEN o.s.dirty ELSE o.s.dirty = s.dirty

(* The session keeps its items, and the answer carries none.               *)
Unmoved(s, o) == o.s.queue = s.queue

(* A native call that breaks fails or unwinds and moves no item.           *)
LEMMA BreaksOutcome ==
  ASSUME NEW s \in Sessions, NEW o \in Breaks(s)
  PROVE  NativeCall(s, o) /\ Unmoved(s, o) /\ o.r \in {"error", "unwound"}
<1>1. PICK r \in {"error", "unwound"} : o = Answer([s EXCEPT !.dirty = TRUE], r)
  BY DEF Breaks
<1>2. [s EXCEPT !.dirty = TRUE] \in Sessions
  BY DEF Sessions
<1>3. /\ [s EXCEPT !.dirty = TRUE].dirty
      /\ [s EXCEPT !.dirty = TRUE].misused = s.misused
      /\ [s EXCEPT !.dirty = TRUE].queue = s.queue
  BY DEF Sessions
<1> QED
  BY <1>1, <1>2, <1>3 DEF Answer, NativeCall, Natives, Unmoved

(* A native call that only answers moves no item.                          *)
LEMMA AnswerOutcome ==
  ASSUME NEW s \in Sessions,
         NEW r \in {"pending", "need", "end", "ok"}
  PROVE  NativeCall(s, Answer(s, r)) /\ Unmoved(s, Answer(s, r)) /\ Answer(s, r).r = r
<1>1. Answer(s, r) = [s |-> s, r |-> r, out |-> None]
  BY DEF Answer
<1>2. Answer(s, r) \in Natives
  BY <1>1 DEF Natives
<1> QED
  BY <1>1, <1>2 DEF NativeCall, Unmoved

(* A native send takes the item, or leaves the queue as it was.            *)
LEMMA SendNative ==
  ASSUME NEW s \in Sessions, NEW item \in Nat, NEW o \in NativeSend(s, item)
  PROVE  /\ NativeCall(s, o)
         /\ \/ o.r = "accepted" /\ o.s.queue = Append(s.queue, item)
            \/ o.r \in {"error", "unwound", "pending"} /\ Unmoved(s, o)
<1>1. CASE o \in Breaks(s)
  BY <1>1, BreaksOutcome
<1>2. CASE o = Answer(s, "pending")
  BY <1>2, AnswerOutcome
<1>3. CASE o = Answer([s EXCEPT !.queue = Append(@, item)], "accepted")
  <2>1. s.queue \in Seq(Nat)
    BY DEF Sessions
  <2>2. Append(s.queue, item) \in Seq(Nat)
    BY <2>1, SeqFacts
  <2> QED
    BY <1>3, <2>2 DEF Answer, NativeCall, Natives, Sessions
<1> QED
  BY <1>1, <1>2, <1>3 DEF NativeSend

(* A native receive gives the oldest item, or leaves the queue; it ends    *)
(* only when the queue is empty.                                           *)
LEMMA ReceiveNative ==
  ASSUME NEW s \in Sessions, NEW o \in NativeReceive(s)
  PROVE  /\ NativeCall(s, o)
         /\ \/ /\ o.r = "ready" /\ s.queue # <<>> /\ o.out = Head(s.queue)
               /\ o.s.queue = Tail(s.queue)
            \/ /\ o.r \in {"error", "unwound", "need", "end"} /\ Unmoved(s, o)
               /\ o.r = "end" => s.queue = <<>>
<1>1. CASE o \in Breaks(s)
  BY <1>1, BreaksOutcome
<1>2. CASE o = Answer(s, "need")
  BY <1>2, AnswerOutcome
<1>3. CASE s.queue = <<>> /\ o = Answer(s, "end")
  BY <1>3, AnswerOutcome
<1>4. CASE /\ s.queue # <<>>
           /\ o = [s |-> [s EXCEPT !.queue = Tail(@)], r |-> "ready", out |-> Head(s.queue)]
  <2>1. s.queue \in Seq(Nat)
    BY DEF Sessions
  <2>2. Head(s.queue) \in Nat /\ Tail(s.queue) \in Seq(Nat)
    BY <1>4, <2>1, SeqFacts
  <2> QED
    BY <1>4, <2>2 DEF NativeCall, Natives, Sessions
<1> QED
  BY <1>1, <1>2, <1>3, <1>4 DEF NativeReceive

(* Ending the input moves no item.                                         *)
LEMMA EndNative ==
  ASSUME NEW s \in Sessions, NEW o \in NativeEnd(s)
  PROVE  NativeCall(s, o) /\ Unmoved(s, o) /\ o.r \in {"error", "unwound", "ok"}
<1>1. CASE o \in Breaks(s)
  BY <1>1, BreaksOutcome
<1>2. CASE o = Answer([s EXCEPT !.ended = TRUE], "ok")
  BY <1>2 DEF Answer, NativeCall, Natives, Unmoved, Sessions
<1> QED
  BY <1>1, <1>2 DEF NativeEnd

(* Configuring moves no item.                                              *)
LEMMA ConfigureNative ==
  ASSUME NEW s \in Sessions, NEW o \in NativeConfigure(s)
  PROVE  NativeCall(s, o) /\ Unmoved(s, o) /\ o.r \in {"error", "unwound", "ok"}
BY BreaksOutcome, AnswerOutcome DEF NativeConfigure

(* What the fused session makes of it: trusted still, and failed exactly   *)
(* when the call failed.                                                   *)
Fused(s, o) == o.s \in Sessions /\ Trusted(o.s) /\ (s.dirty => o.s.dirty)

(* settle marks the session failed exactly when the call failed, and       *)
(* changes nothing else.                                                   *)
LEMMA SettleValue ==
  ASSUME NEW m \in Natives
  PROVE  LET p == Settle(m) IN
           /\ p \in Natives /\ p.r = m.r /\ p.out = m.out /\ p.s.queue = m.s.queue
           /\ p.s.dirty = m.s.dirty /\ p.s.misused = m.s.misused
           /\ p.s.failed <=> m.r \in Failing
<1>1. ASSUME NEW b \in BOOLEAN
      PROVE  LET p == [m EXCEPT !.s.failed = b] IN
               /\ p \in Natives /\ p.r = m.r /\ p.out = m.out /\ p.s.queue = m.s.queue
               /\ p.s.dirty = m.s.dirty /\ p.s.misused = m.s.misused /\ p.s.failed = b
  BY DEF Natives, Sessions
<1>2. CASE m.r \in Failing
  <2>1. Settle(m) = [m EXCEPT !.s.failed = TRUE]
    BY <1>2, Zenon DEF Settle
  <2> QED
    BY <1>1, <1>2, <2>1
<1>3. CASE m.r \notin Failing
  <2>1. (m.r \in Failing) = FALSE
    BY <1>3
  <2>2. Settle(m) = [m EXCEPT !.s.failed = FALSE]
    BY <2>1, Zenon DEF Settle
  <2> QED
    BY <1>1, <1>3, <2>2
<1> QED
  BY <1>2, <1>3

(* A guarded call of a session that had not failed is settled by its       *)
(* outcome.                                                                *)
LEMMA SettledOutcome ==
  ASSUME NEW s \in Sessions, Trusted(s), ~s.failed, NEW o, NativeCall(s, o)
  PROVE  LET p == Settle(Made(s, o)) IN
           Fused(s, p) /\ p.r = o.r /\ p.out = o.out /\ p.s.queue = o.s.queue
<1> DEFINE m == Made(s, o)
           p == Settle(m)
<1>1. m \in Natives /\ m.r = o.r /\ m.out = o.out /\ m.s.queue = o.s.queue
      /\ m.s.dirty = o.s.dirty /\ ~m.s.misused
  BY DEF Made, NativeCall, Natives, Sessions, Trusted
<1>2. p \in Natives /\ p.r = o.r /\ p.out = o.out /\ p.s.queue = o.s.queue
      /\ p.s.dirty = o.s.dirty /\ ~p.s.misused /\ (p.s.failed <=> o.r \in Failing)
  BY <1>1, SettleValue
<1>3. p.s.dirty => p.s.failed
  BY <1>2 DEF NativeCall, Failing, Trusted
<1> QED
  BY <1>2, <1>3 DEF Fused, Trusted, NativeCall, Natives

(* A refusal or a tripped pulse moves nothing.                             *)
LEMMA RefusedOutcome ==
  ASSUME NEW s \in Sessions, Trusted(s)
  PROVE  /\ s.failed => Fused(s, Answer(s, "refused")) /\ Unmoved(s, Answer(s, "refused"))
         /\ Fused(s, Answer([s EXCEPT !.failed = TRUE], "error"))
         /\ Unmoved(s, Answer([s EXCEPT !.failed = TRUE], "error"))
BY DEF Answer, Fused, Unmoved, Trusted, Sessions

(* A guarded send takes the item or leaves the queue.                      *)
LEMMA SendOutcome ==
  ASSUME NEW s \in Sessions, Trusted(s), NEW item \in Nat,
         NEW o \in Guard(s, NativeSend(s, item))
  PROVE  /\ Fused(s, o)
         /\ \/ o.r = "accepted" /\ o.s.queue = Append(s.queue, item)
            \/ o.r \in {"pending"} \cup Failing /\ Unmoved(s, o)
<1>1. CASE o = Answer(s, "refused") /\ s.failed
  BY <1>1, RefusedOutcome DEF Answer, Failing
<1>2. CASE o = Answer([s EXCEPT !.failed = TRUE], "error")
  BY <1>2, RefusedOutcome DEF Answer, Failing
<1>3. ASSUME ~s.failed, NEW n \in NativeSend(s, item), o = Settle(Made(s, n))
      PROVE  /\ Fused(s, o)
             /\ \/ o.r = "accepted" /\ o.s.queue = Append(s.queue, item)
                \/ o.r \in {"pending"} \cup Failing /\ Unmoved(s, o)
  BY <1>3, SendNative, SettledOutcome DEF Unmoved, Failing
<1> QED
  BY <1>1, <1>2, <1>3 DEF Guard

(* A guarded receive gives the oldest item or leaves the queue.            *)
LEMMA ReceiveOutcome ==
  ASSUME NEW s \in Sessions, Trusted(s), NEW o \in Guard(s, NativeReceive(s))
  PROVE  /\ Fused(s, o)
         /\ \/ /\ o.r = "ready" /\ s.queue # <<>> /\ o.out = Head(s.queue)
               /\ o.s.queue = Tail(s.queue)
            \/ /\ o.r \in {"need", "end"} \cup Failing /\ Unmoved(s, o)
               /\ o.r = "end" => s.queue = <<>>
<1> DEFINE R == /\ Fused(s, o)
                /\ \/ /\ o.r = "ready" /\ s.queue # <<>> /\ o.out = Head(s.queue)
                      /\ o.s.queue = Tail(s.queue)
                   \/ /\ o.r \in {"need", "end"} \cup Failing /\ Unmoved(s, o)
                      /\ o.r = "end" => s.queue = <<>>
<1>1. CASE o = Answer(s, "refused") /\ s.failed
  BY <1>1, RefusedOutcome DEF Answer, Failing
<1>2. CASE o = Answer([s EXCEPT !.failed = TRUE], "error")
  BY <1>2, RefusedOutcome DEF Answer, Failing
<1>3. ASSUME ~s.failed, NEW n \in NativeReceive(s), o = Settle(Made(s, n))
      PROVE  R
  BY <1>3, ReceiveNative, SettledOutcome DEF Unmoved, Failing
<1> QED
  BY <1>1, <1>2, <1>3 DEF Guard

(* A guarded end of input moves no item.                                   *)
LEMMA EndOutcome ==
  ASSUME NEW s \in Sessions, Trusted(s), NEW o \in GuardEnd(s)
  PROVE  Fused(s, o) /\ Unmoved(s, o) /\ o.r \in {"ok"} \cup Failing
<1>1. CASE o = Answer(s, "refused") /\ s.failed
  BY <1>1, RefusedOutcome DEF Answer, Failing
<1>2. ASSUME ~s.failed, NEW n \in NativeEnd(s), o = Settle(Made(s, n))
      PROVE  Fused(s, o) /\ Unmoved(s, o) /\ o.r \in {"ok"} \cup Failing
  BY <1>2, EndNative, SettledOutcome DEF Unmoved, Failing
<1> QED
  BY <1>1, <1>2 DEF GuardEnd

(* A guarded configure moves no item.                                      *)
LEMMA ConfigureOutcome ==
  ASSUME NEW s \in Sessions, Trusted(s), NEW o \in Guard(s, NativeConfigure(s))
  PROVE  Fused(s, o) /\ Unmoved(s, o) /\ o.r \in {"ok"} \cup Failing
<1>1. CASE o = Answer(s, "refused") /\ s.failed
  BY <1>1, RefusedOutcome DEF Answer, Failing
<1>2. CASE o = Answer([s EXCEPT !.failed = TRUE], "error")
  BY <1>2, RefusedOutcome DEF Answer, Failing
<1>3. ASSUME ~s.failed, NEW n \in NativeConfigure(s), o = Settle(Made(s, n))
      PROVE  Fused(s, o) /\ Unmoved(s, o) /\ o.r \in {"ok"} \cup Failing
  BY <1>3, ConfigureNative, SettledOutcome DEF Unmoved, Failing
<1> QED
  BY <1>1, <1>2, <1>3 DEF Guard

(* Only a reset that succeeds forgets what a session holds.                *)
LEMMA ResetOutcome ==
  ASSUME NEW s \in Sessions, Trusted(s), NEW o \in FusedReset(s)
  PROVE  \/ o.r = "ok" /\ o.s \in Sessions /\ Trusted(o.s) /\ o.s.queue = <<>>
         \/ o.r # "ok" /\ Fused(s, o) /\ Unmoved(s, o)
<1>1. ASSUME NEW n \in Breaks(s), o = Settle(n)
      PROVE  o.r # "ok" /\ Fused(s, o) /\ Unmoved(s, o)
  BY <1>1, BreaksOutcome, SettleValue DEF Failing, Fused, Trusted, NativeCall, Natives, Unmoved
<1>2. ASSUME NEW n, o = Settle(n),
             n = Answer([s EXCEPT !.queue = <<>>, !.ended = FALSE, !.dirty = FALSE], "ok")
      PROVE  o.r = "ok" /\ o.s \in Sessions /\ Trusted(o.s) /\ o.s.queue = <<>>
  <2> DEFINE c == [s EXCEPT !.queue = <<>>, !.ended = FALSE, !.dirty = FALSE]
  <2>1. c \in Sessions /\ c.queue = <<>> /\ ~c.dirty /\ ~c.misused
    BY SeqFacts DEF Sessions, Trusted
  <2>2. n = [s |-> c, r |-> "ok", out |-> None]
    BY <1>2 DEF Answer
  <2>3. n \in Natives
    BY <2>1, <2>2 DEF Natives
  <2>4. n.r = "ok" /\ n.s.queue = <<>> /\ ~n.s.dirty /\ ~n.s.misused
    BY <2>1, <2>2
  <2> HIDE DEF c
  <2>5. /\ o \in Natives /\ o.r = "ok" /\ o.s.queue = <<>> /\ ~o.s.dirty
        /\ ~o.s.misused
    BY <1>2, <2>3, <2>4, SettleValue
  <2> QED
    BY <2>5 DEF Trusted, Natives
<1> QED
  BY <1>1, <1>2 DEF FusedReset, NativeReset
-----------------------------------------------------------------------------
DecoderStays == UNCHANGED <<dec, next, kept>>

(* A failure or an unwind drops the encoder and leaves the caller idle.    *)
LEMMA DropsKept ==
  ASSUME SessionInv, Drops, DecoderStays
  PROVE  SessionInv'
<1> USE NoneIsNothing DEF SessionInv, Drops, DecoderStays
<1>1. out' \in Outputs /\ staged' \in Seq(Nat)
  <2>1. <<>> \in Seq(Int) /\ <<>> \in Seq(Nat)
    OBVIOUS
  <2>2. out \in Outputs /\ out' = [out EXCEPT !.writing = None, !.pending = <<>>,
                                             !.held = None, !.muxed = <<>>]
    BY DEF Shapes
  <2>3. out' \in Outputs
    BY <2>1, <2>2 DEF Outputs
  <2> QED
    BY <2>1, <2>3
<1>2. Shapes'
  BY <1>1 DEF Shapes
<1>3. Control'
  BY DEF Shapes, Control, Stages, Finishing, Writing
<1>4. EncoderKeeps'
  BY DEF EncoderKeeps, Trusted
<1> QED
  BY <1>2, <1>3, <1>4

(* push_converted and the pump of packets.                                 *)
LEMMA PolicyKept ==
  ASSUME SessionInv, Policy, DecoderStays
  PROVE  SessionInv'
<1>1. CASE Drops
  BY <1>1, DropsKept
<1>2. CASE ~Drops
  BY <1>2 DEF Policy, Fail, FailAfter, SessionInv, Shapes, Control, EncoderKeeps, Trusted,
      Stages, Finishing, Writing, DecoderStays
<1> QED
  BY <1>1, <1>2

(* A conversion keeps the invariant: a refused frame is given back, an     *)
(* unwinding converter fails the operation.                                *)
LEMMA ConvertKept ==
  ASSUME SessionInv, Convert, DecoderStays
  PROVE  SessionInv'
<1>1. CASE Drops
  BY <1>1, DropsKept
<1>2. CASE ~Drops
  BY <1>2 DEF Convert, Encodes, Fail, FailAfter, Unwind, SessionInv, Shapes, Control,
      EncoderKeeps, Trusted, Stages, Finishing, Writing, DecoderStays
<1> QED
  BY <1>1, <1>2

(* An encoder that is called is the one of a live operation.               *)
LEMMA EncoderLives ==
  ASSUME SessionInv, pc \in {"send", "full", "drain", "end", "last"}
  PROVE  enc \in Sessions /\ Trusted(enc) /\ admitted = staged \o enc.queue
         /\ enc.queue \in Seq(Nat) /\ enc # None
BY DEF SessionInv, Shapes, Control, EncoderKeeps, Stages, Sessions

(* A packet moves from the encoder to the store.                           *)
LEMMA StagedMoves ==
  ASSUME NEW s \in Seq(Nat), NEW q \in Seq(Nat), q # <<>>
  PROVE  Append(s, Head(q)) \in Seq(Nat) /\ Append(s, Head(q)) \o Tail(q) = s \o q
<1>1. Head(q) \in Nat /\ Tail(q) \in Seq(Nat) /\ Append(s, Head(q)) \in Seq(Nat)
  BY SeqFacts
<1>2. Append(s, Head(q)) \o Tail(q) \in Seq(Nat) /\ s \o q \in Seq(Nat)
  BY <1>1, SeqFacts
<1>3. Len(Append(s, Head(q)) \o Tail(q)) = Len(s \o q)
  BY <1>1
<1>4. \A i \in 1..Len(s \o q) : (Append(s, Head(q)) \o Tail(q))[i] = (s \o q)[i]
  BY <1>1
<1> QED
  BY <1>1, <1>2, <1>3, <1>4, SeqEqual

(* An accepted frame is the last of what the encoder holds.                *)
LEMMA TakenLast ==
  ASSUME NEW s \in Seq(Nat), NEW q \in Seq(Nat), NEW n \in Nat
  PROVE  Append(s \o q, n) = s \o Append(q, n)
OBVIOUS

(* So does sending a frame: what the encoder takes is counted as admitted. *)
LEMMA SendKept ==
  ASSUME SessionInv, Send, DecoderStays
  PROVE  SessionInv'
<1>1. CASE Drops
  BY <1>1, DropsKept
<1>2. CASE ~Drops
  <2>1. enc \in Sessions /\ Trusted(enc) /\ admitted = staged \o enc.queue
        /\ enc.queue \in Seq(Nat) /\ enc # None
    BY EncoderLives DEF Send
  <2>2. frame \in Nat /\ staged \in Seq(Nat) /\ admitted \in Seq(Nat)
    BY DEF Send, SessionInv, Shapes, Control
  <2>3. PICK o \in Guard(enc, NativeSend(enc, frame)) :
          /\ enc' = o.s /\ UNCHANGED staged /\ Encodes
          /\ \/ o.r = "accepted" /\ pc' = "drain" /\ admitted' = Append(admitted, frame)
             \/ o.r = "pending" /\ pc' = "full" /\ admitted' = admitted
    BY <1>2, Zenon DEF Send, EncoderBreaks, Fail, FailAfter, Unwind
  <2>4. enc' \in Sessions /\ Trusted(enc') /\ enc' # None
    BY <2>1, <2>2, <2>3, SendOutcome, NoneIsNothing DEF Fused
  <2>5. admitted' \in Seq(Nat) /\ admitted' = staged \o enc'.queue
    <3>1. CASE o.r = "accepted"
      <4>1. enc'.queue = Append(enc.queue, frame)
        BY <2>1, <2>2, <2>3, <3>1, SendOutcome DEF Failing
      <4>2. admitted' = staged \o Append(enc.queue, frame) /\ admitted' \in Seq(Nat)
        <5>1. admitted' = Append(admitted, frame)
          BY <2>3, <3>1
        <5>2. Append(staged \o enc.queue, frame) = staged \o Append(enc.queue, frame)
          BY <2>1, <2>2, TakenLast
        <5>3. Append(admitted, frame) \in Seq(Nat)
          BY <2>2, SeqFacts
        <5> QED
          BY <2>1, <5>1, <5>2, <5>3
      <4> QED
        BY <2>3, <4>1, <4>2
    <3>2. CASE o.r = "pending"
      <4>1. enc'.queue = enc.queue
        BY <2>1, <2>2, <2>3, <3>2, SendOutcome DEF Unmoved
      <4> QED
        BY <2>1, <2>2, <2>3, <3>2, <4>1
    <3> QED
      BY <2>3, <3>1, <3>2
  <2>6. Shapes'
    BY <2>3, <2>4, <2>5 DEF SessionInv, Shapes, Encodes, DecoderStays, Stages
  <2>7. Control'
    BY <2>3, <2>4 DEF Send, SessionInv, Control, Encodes, DecoderStays, Stages, Finishing, Writing
  <2>8. EncoderKeeps'
    BY <2>3, <2>4, <2>5 DEF SessionInv, EncoderKeeps, DecoderStays, Trusted
  <2> QED
    BY <2>6, <2>7, <2>8 DEF SessionInv
<1> QED
  BY <1>1, <1>2

(* A packet the encoder gives reaches the store.                           *)
LEMMA StagedKept ==
  ASSUME SessionInv, DecoderStays, Encodes,
         (pc' = pc /\ pc \in {"drain", "last"}) \/ (pc = "full" /\ pc' = "send"),
         NEW o \in Guard(enc, NativeReceive(enc)), o.r = "ready",
         enc' = o.s, staged' = Append(staged, o.out), admitted' = admitted
  PROVE  SessionInv'
<1>1. enc \in Sessions /\ Trusted(enc) /\ admitted = staged \o enc.queue
      /\ enc.queue \in Seq(Nat) /\ staged \in Seq(Nat)
  BY EncoderLives DEF SessionInv, Shapes
<1>2. enc' \in Sessions /\ Trusted(enc') /\ enc' # None
      /\ enc.queue # <<>> /\ o.out = Head(enc.queue) /\ enc'.queue = Tail(enc.queue)
  BY <1>1, ReceiveOutcome, NoneIsNothing DEF Fused, Failing
<1>3. staged' \in Seq(Nat) /\ admitted' = staged' \o enc'.queue
  BY <1>1, <1>2, StagedMoves
<1>4. Shapes'
  BY <1>2, <1>3 DEF SessionInv, Shapes, Encodes, DecoderStays, Stages
<1>5. Control'
  BY <1>2 DEF SessionInv, Control, Encodes, DecoderStays, Stages, Finishing, Writing
<1>6. EncoderKeeps'
  BY <1>2, <1>3 DEF SessionInv, EncoderKeeps, DecoderStays, Trusted
<1> QED
  BY <1>4, <1>5, <1>6 DEF SessionInv

(* A call of the encoder that moves no packet.                             *)
LEMMA UnmovedKept ==
  ASSUME SessionInv, DecoderStays, Encodes, UNCHANGED <<staged, admitted>>,
         (pc = "drain" /\ pc' = "admit") \/ (pc = "end" /\ pc' = "last"),
         enc' \in Sessions, Trusted(enc'), enc'.queue = enc.queue
  PROVE  SessionInv'
<1>1. enc' # None /\ enc # None /\ admitted = staged \o enc.queue
  BY EncoderLives, NoneIsNothing
<1>2. Shapes'
  BY DEF SessionInv, Shapes, Encodes, DecoderStays, Stages, Finishing
<1>3. Control'
  BY <1>1 DEF SessionInv, Control, Encodes, DecoderStays, Stages, Finishing, Writing
<1>4. EncoderKeeps'
  BY <1>1 DEF SessionInv, EncoderKeeps, DecoderStays, Trusted
<1> QED
  BY <1>2, <1>3, <1>4 DEF SessionInv

(* So does making room in a full encoder, which stores its packet.         *)
LEMMA FullKept ==
  ASSUME SessionInv, Full, DecoderStays
  PROVE  SessionInv'
<1>1. CASE Drops
  BY <1>1, DropsKept
<1>2. CASE ~Drops
  <2>1. PICK o \in Guard(enc, NativeReceive(enc)) :
          o.r = "ready" /\ pc' = "send" /\ enc' = o.s /\ staged' = Append(staged, o.out)
          /\ UNCHANGED admitted /\ Encodes
    BY <1>2, Zenon DEF Full, Fail, FailAfter, Unwind
  <2> QED
    BY <2>1, StagedKept DEF Full
<1> QED
  BY <1>1, <1>2

(* So does draining after a frame was taken.                               *)
LEMMA DrainKept ==
  ASSUME SessionInv, Drain, DecoderStays
  PROVE  SessionInv'
<1>1. CASE Drops
  BY <1>1, DropsKept
<1>2. CASE ~Drops
  <2>1. PICK o \in Guard(enc, NativeReceive(enc)) :
          /\ enc' = o.s /\ UNCHANGED admitted /\ Encodes
          /\ \/ o.r = "ready" /\ UNCHANGED pc /\ staged' = Append(staged, o.out)
             \/ o.r = "need" /\ pc' = "admit" /\ UNCHANGED staged
    BY <1>2, Zenon DEF Drain, Stage, EncoderBreaks, Fail, FailAfter, Unwind
  <2>2. CASE o.r = "ready"
    <3>1. /\ pc = "drain" /\ pc' = pc /\ admitted' = admitted /\ Encodes
          /\ enc' = o.s /\ staged' = Append(staged, o.out)
      BY <2>1, <2>2 DEF Drain
    <3>2. (pc' = pc /\ pc \in {"drain", "last"}) \/ (pc = "full" /\ pc' = "send")
      BY <3>1
    <3> QED
      BY <2>2, <3>1, <3>2, StagedKept
  <2>3. CASE o.r = "need"
    <3>1. enc' \in Sessions /\ Trusted(enc') /\ enc'.queue = enc.queue
      BY <2>1, <2>3, EncoderLives, ReceiveOutcome DEF Drain, Fused, Unmoved, Failing
    <3>2. /\ pc = "drain" /\ pc' = "admit" /\ staged' = staged /\ admitted' = admitted
          /\ Encodes
      BY <2>1, <2>3 DEF Drain
    <3> QED
      BY <3>1, <3>2, UnmovedKept
  <2> QED
    BY <2>1, <2>2, <2>3
<1> QED
  BY <1>1, <1>2

(* So does the return of push.                                             *)
LEMMA AdmitKept ==
  ASSUME SessionInv, Admit, DecoderStays
  PROVE  SessionInv'
<1>1. CASE Drops
  BY <1>1, DropsKept
<1>2. CASE ~Drops
  BY <1>2 DEF Admit, Fail, FailAfter, SessionInv, Shapes, Control, EncoderKeeps, Trusted,
      Stages, Pumping, Finishing, Writing, DecoderStays
<1> QED
  BY <1>1, <1>2

(* So does the call of finish.                                             *)
LEMMA FinishKept ==
  ASSUME SessionInv, Finish, DecoderStays
  PROVE  SessionInv'
BY DEF Finish, SessionInv, Shapes, Control, EncoderKeeps, Trusted,
      Stages, Pumping, Finishing, Writing, DecoderStays

(* So does ending the encoder's input.                                     *)
LEMMA EndInputKept ==
  ASSUME SessionInv, EndInput, DecoderStays
  PROVE  SessionInv'
<1>1. CASE Drops
  BY <1>1, DropsKept
<1>2. CASE ~Drops
  <2>1. PICK o \in GuardEnd(enc) :
          pc' = "last" /\ enc' = o.s /\ UNCHANGED <<staged, admitted>> /\ Encodes
    BY <1>2, Zenon DEF EndInput, EncoderBreaks, Fail, FailAfter, Unwind
  <2>2. enc' \in Sessions /\ Trusted(enc') /\ enc'.queue = enc.queue
    BY <2>1, EncoderLives, EndOutcome DEF EndInput, Fused, Unmoved
  <2> QED
    BY <2>1, <2>2, UnmovedKept DEF EndInput
<1> QED
  BY <1>1, <1>2

(* The encoder says it has ended only once it holds nothing: every frame   *)
(* it accepted is in the store when it is dropped.                         *)
LEMMA LastKept ==
  ASSUME SessionInv, Last, DecoderStays
  PROVE  SessionInv'
<1>1. CASE Drops
  BY <1>1, DropsKept
<1>2. CASE ~Drops
  <2>1. PICK o \in Guard(enc, NativeReceive(enc)) :
          /\ UNCHANGED admitted /\ Encodes
          /\ \/ o.r = "ready" /\ UNCHANGED pc /\ enc' = o.s /\ staged' = Append(staged, o.out)
             \/ o.r = "end" /\ pc' = "replay" /\ enc' = None /\ UNCHANGED staged
    BY <1>2, Zenon DEF Last, Drained, Stage, EncoderBreaks, Fail, FailAfter, Unwind
  <2>2. CASE o.r = "ready"
    <3>1. /\ pc = "last" /\ pc' = pc /\ admitted' = admitted /\ Encodes
          /\ enc' = o.s /\ staged' = Append(staged, o.out)
      BY <2>1, <2>2 DEF Last
    <3>2. (pc' = pc /\ pc \in {"drain", "last"}) \/ (pc = "full" /\ pc' = "send")
      BY <3>1
    <3> QED
      BY <2>2, <3>1, <3>2, StagedKept
  <2>3. CASE o.r = "end"
    <3>1. enc.queue = <<>> /\ admitted = staged \o enc.queue /\ staged \in Seq(Nat)
      BY <2>1, <2>3, EncoderLives, ReceiveOutcome DEF Last, Failing, SessionInv, Shapes
    <3>2. staged = admitted
      BY <3>1, SeqFacts
    <3>3. pc' = "replay" /\ enc' = None /\ UNCHANGED <<staged, admitted>>
      BY <2>1, <2>3
    <3>4. Shapes'
      BY <2>1, <3>3 DEF SessionInv, Shapes, Encodes, DecoderStays, Finishing
    <3>5. Control'
      BY <2>1, <3>3 DEF Last, SessionInv, Control, Encodes, DecoderStays, Stages, Finishing,
          Writing
    <3>6. EncoderKeeps'
      BY <3>2, <3>3 DEF SessionInv, EncoderKeeps, DecoderStays, Trusted
    <3> QED
      BY <3>4, <3>5, <3>6 DEF SessionInv
  <2> QED
    BY <2>1, <2>2, <2>3
<1> QED
  BY <1>1, <1>2

(* Publication moves the store and the output only.                        *)
LEMMA PublicationKept ==
  ASSUME SessionInv, pc \in {"replay"} \cup Writing, Publishes, DecoderStays,
         pc' \in Writing, out' \in Outputs, staged' \in Seq(Nat)
  PROVE  SessionInv'
<1>1. Shapes'
  BY DEF SessionInv, Shapes, Publishes, DecoderStays, Finishing
<1>2. Control'
  BY DEF SessionInv, Control, Publishes, DecoderStays, Stages, Finishing, Writing
<1>3. enc = None /\ enc' = None
  BY DEF SessionInv, Control, Publishes, Stages, Finishing, Writing
<1>4. EncoderKeeps'
  BY <1>3 DEF SessionInv, EncoderKeeps, DecoderStays, Trusted, Writing
<1> QED
  BY <1>1, <1>2, <1>4 DEF SessionInv

(* Sequences of bytes are closed under what the output writes.             *)
LEMMA ByteFacts ==
  /\ <<>> \in Seq(Int) /\ <<Header>> \in Seq(Int)
  /\ \A n \in Nat : [i \in 1..PacketBytes |-> n] \in Seq(Int)
  /\ \A s, t \in Seq(Int) : s \o t \in Seq(Int)
  /\ \A s \in Seq(Int) : Append(s, Trailer) \in Seq(Int)
<1>1. \A n \in Nat : [i \in 1..PacketBytes |-> n] \in Seq(Int)
  BY StagingBounds
<1>2. Header \in Int /\ Trailer \in Int
  BY DEF Header, Trailer
<1>3. <<>> \in Seq(Int) /\ \A n \in Int : <<n>> \in Seq(Int)
  OBVIOUS
<1>4. \A s, t \in Seq(Int) : s \o t \in Seq(Int)
  OBVIOUS
<1>5. \A s \in Seq(Int), n \in Int : Append(s, n) \in Seq(Int)
  OBVIOUS
<1> QED
  BY <1>1, <1>2, <1>3, <1>4, <1>5

(* What the destination takes of the bytes, and what it leaves.            *)
LEMMA TakeFacts ==
  ASSUME NEW s \in Seq(Int), NEW n \in 1..Len(s)
  PROVE  /\ SubSeq(s, 1, n) \in Seq(Int) /\ Len(SubSeq(s, 1, n)) = n
         /\ SubSeq(s, n + 1, Len(s)) \in Seq(Int)
         /\ s = SubSeq(s, 1, n) \o SubSeq(s, n + 1, Len(s))
<1>1. /\ SubSeq(s, 1, n) \in Seq(Int) /\ Len(SubSeq(s, 1, n)) = n
      /\ \A i \in 1..n : SubSeq(s, 1, n)[i] = s[i]
  OBVIOUS
<1>2. /\ SubSeq(s, n + 1, Len(s)) \in Seq(Int)
      /\ Len(SubSeq(s, n + 1, Len(s))) = Len(s) - n
      /\ \A i \in 1..(Len(s) - n) : SubSeq(s, n + 1, Len(s))[i] = s[n + i]
  OBVIOUS
<1>3. SubSeq(s, 1, n) \o SubSeq(s, n + 1, Len(s)) = SubSeq(s, 1, Len(s))
  BY ConcatAdjacentSubSeq
<1>4. SubSeq(s, 1, Len(s)) = s
  BY SubSeqFull
<1> QED
  BY <1>1, <1>2, <1>3, <1>4

(* The next packet, or that there is none.                                 *)
LEMMA ReadsBackOutcome ==
  ASSUME SessionInv, NEW o \in Outputs, ReadsBack(o)
  PROVE  out' \in Outputs /\ staged' \in Seq(Nat)
<1>1. staged \in Seq(Nat)
  BY DEF SessionInv, Shapes
<1>2. CASE staged = <<>>
  <2>1. staged' = <<>> /\ out' = [o EXCEPT !.held = None]
    BY <1>2 DEF ReadsBack
  <2> QED
    BY <2>1, SeqFacts DEF Outputs
<1>3. CASE staged # <<>>
  <2>1. staged' = Tail(staged) /\ out' = [o EXCEPT !.held = Head(staged)]
    BY <1>3 DEF ReadsBack
  <2>2. Tail(staged) \in Seq(Nat) /\ Head(staged) \in Nat
    BY <1>1, <1>3, SeqFacts
  <2> QED
    BY <2>1, <2>2 DEF Outputs
<1> QED
  BY <1>2, <1>3

(* The replay of the store keeps the invariant.                            *)
LEMMA ReplayKept ==
  ASSUME SessionInv, Replay, DecoderStays
  PROVE  SessionInv'
<1>1. CASE Drops
  BY <1>1, DropsKept
<1>2. CASE ~Drops
  <2> DEFINE o == [out EXCEPT !.writing = "header", !.pending = <<Header>>]
  <2>1. pc = "replay" /\ ReadsBack(o) /\ pc' = "write" /\ Publishes
    BY <1>2 DEF Replay, PublishFails, FailAfter
  <2>2. o \in Outputs
    BY ByteFacts DEF SessionInv, Shapes, Outputs
  <2>3. out' \in Outputs /\ staged' \in Seq(Nat)
    BY <2>1, <2>2, ReadsBackOutcome
  <2> QED
    BY <2>1, <2>3, PublicationKept DEF Writing
<1> QED
  BY <1>1, <1>2

(* What a write leaves of the output.                                      *)
LEMMA WriteOutcome ==
  ASSUME NEW o \in Outputs, NEW n \in 1..Len(o.pending), NEW p,
         p = [Counts(o, SubSeq(o.pending, 1, n))
                EXCEPT !.pending = SubSeq(@, n + 1, Len(@))]
  PROVE  /\ p \in Outputs /\ p.pending = SubSeq(o.pending, n + 1, Len(o.pending))
         /\ p.held = o.held /\ p.muxed = o.muxed /\ p.writing = o.writing
         /\ p.emitted = o.emitted
         /\ \/ /\ o.writing = "patch" /\ p.dest = o.dest /\ p.stats = o.stats
            \/ /\ o.writing # "patch" /\ p.dest = o.dest \o SubSeq(o.pending, 1, n)
               /\ p.stats = o.stats + Len(SubSeq(o.pending, 1, n))
<1> DEFINE a == SubSeq(o.pending, 1, n)
           b == SubSeq(o.pending, n + 1, Len(o.pending))
<1>1. o.pending \in Seq(Int)
  BY DEF Outputs
<1>2. a \in Seq(Int) /\ b \in Seq(Int) /\ Len(a) \in Nat
  BY <1>1, TakeFacts
<1>3. CASE o.writing = "patch"
  <2>1. p = [o EXCEPT !.pending = b]
    BY <1>3 DEF Counts
  <2> HIDE DEF a, b
  <2>2. p \in Outputs
    BY <1>2, <2>1 DEF Outputs
  <2>3. /\ p.pending = b /\ p.held = o.held /\ p.muxed = o.muxed /\ p.writing = o.writing
        /\ p.emitted = o.emitted /\ p.dest = o.dest /\ p.stats = o.stats
    BY <2>1 DEF Outputs
  <2> QED
    BY <1>3, <2>2, <2>3 DEF a, b
<1>4. CASE o.writing # "patch"
  <2>1. p = [[o EXCEPT !.dest = @ \o a, !.stats = @ + Len(a)] EXCEPT !.pending = b]
    BY <1>4 DEF Counts, Outputs
  <2>2. o.dest \o a \in Seq(Int)
    BY <1>2, ByteFacts DEF Outputs
  <2> HIDE DEF a, b
  <2>3. p.dest = o.dest \o a /\ p.stats = o.stats + Len(a) /\ p.pending = b
        /\ p.held = o.held /\ p.muxed = o.muxed /\ p.writing = o.writing /\ p.emitted = o.emitted
    BY <2>1 DEF Outputs
  <2>4. p \in Outputs
    <3>1. o.stats + Len(a) \in Nat
      BY <1>2 DEF Outputs
    <3> QED
      BY <1>2, <2>1, <2>2, <3>1 DEF Outputs
  <2> QED
    BY <1>4, <2>3, <2>4 DEF a, b
<1> QED
  BY <1>3, <1>4

(* So does every partial write.                                            *)
LEMMA WriteKept ==
  ASSUME SessionInv, Write, DecoderStays
  PROVE  SessionInv'
<1>1. CASE Drops
  BY <1>1, DropsKept
<1>2. CASE ~Drops
  <2>1. pc = "write" /\ UNCHANGED <<pc, staged>> /\ Publishes
    BY <1>2 DEF Write, PublishFails, FailAfter
  <2>2. PICK n \in 1..Len(out.pending) :
          out' = [Counts(out, SubSeq(out.pending, 1, n))
                    EXCEPT !.pending = SubSeq(@, n + 1, Len(@))]
    BY <1>2 DEF Write, PublishFails, FailAfter
  <2>3. out \in Outputs /\ staged \in Seq(Nat)
    BY DEF SessionInv, Shapes
  <2>4. out' \in Outputs
    BY <2>2, <2>3, WriteOutcome
  <2> QED
    BY <2>1, <2>3, <2>4, PublicationKept DEF Writing
<1> QED
  BY <1>1, <1>2

(* So does the end of a write.                                             *)
LEMMA WrittenKept ==
  ASSUME SessionInv, Written, DecoderStays
  PROVE  SessionInv'
<1>1. CASE Drops
  BY <1>1, DropsKept
<1>2. CASE ~Drops
  <2>1. out \in Outputs /\ staged \in Seq(Nat)
    BY DEF SessionInv, Shapes
  <2>2. pc = "write" /\ pc' \in Writing /\ staged' = staged /\ Publishes
    BY <1>2 DEF Written, PublishFails, FailAfter, Writing
  <2>3. out' \in {out, [out EXCEPT !.emitted = out.stats]}
    BY <1>2 DEF Written, PublishFails, FailAfter
  <2>4. out' \in Outputs
    BY <2>1, <2>3 DEF Outputs
  <2> QED
    BY <2>1, <2>2, <2>4, PublicationKept DEF Writing
<1> QED
  BY <1>1, <1>2

(* So does reading the next packet back.                                   *)
LEMMA ReadBackKept ==
  ASSUME SessionInv, ReadBack, DecoderStays
  PROVE  SessionInv'
<1>1. CASE Drops
  BY <1>1, DropsKept
<1>2. CASE ~Drops
  <2>1. pc = "read" /\ ReadsBack(out) /\ pc' = "mux" /\ Publishes
    BY <1>2 DEF ReadBack, PublishFails, FailAfter
  <2>2. out' \in Outputs /\ staged' \in Seq(Nat)
    BY <2>1, ReadsBackOutcome DEF SessionInv, Shapes
  <2> QED
    BY <2>1, <2>2, PublicationKept DEF Writing
<1> QED
  BY <1>1, <1>2

(* The bytes of a packet.                                                  *)
Bytes(n) == [i \in 1..PacketBytes |-> n]

(* What MuxPacket makes of the output, streaming or holding.               *)
Streamed(o) == [o EXCEPT !.writing = "packet", !.pending = o.muxed \o Bytes(o.held),
                         !.muxed = <<>>]
Held(o) == [o EXCEPT !.writing = "packet", !.pending = <<>>,
                     !.muxed = o.muxed \o Bytes(o.held)]

(* A packet handed to the muxer streams to the destination or is held.     *)
LEMMA MuxPacketOutcome ==
  ASSUME SessionInv, MuxPacket, ~Drops
  PROVE  /\ out \in Outputs /\ out.held \in Nat /\ staged' = staged /\ Publishes
         /\ pc = "mux" /\ pc' = "write" /\ out' \in {Streamed(out), Held(out)}
         /\ out.muxed \o Bytes(out.held) \in Seq(Int) /\ out' \in Outputs
<1>1. PICK streams \in BOOLEAN :
        out' = [out EXCEPT !.writing = "packet",
                  !.pending = IF streams THEN out.muxed \o Bytes(out.held) ELSE <<>>,
                  !.muxed = IF streams THEN <<>> ELSE out.muxed \o Bytes(out.held)]
  BY DEF MuxPacket, PublishFails, FailAfter, Bytes
<1>2. out' \in {Streamed(out), Held(out)}
  <2>1. CASE streams = TRUE
    BY <1>1, <2>1 DEF Streamed
  <2>2. CASE streams = FALSE
    BY <1>1, <2>2 DEF Held
  <2> QED
    BY <2>1, <2>2
<1>3. out \in Outputs /\ out.held \in Nat /\ staged' = staged /\ Publishes
      /\ pc = "mux" /\ pc' = "write"
  BY DEF SessionInv, Shapes, MuxPacket, PublishFails, FailAfter, Outputs
<1>4. out.muxed \o Bytes(out.held) \in Seq(Int)
  BY <1>3, ByteFacts DEF Outputs, Bytes
<1>5. Streamed(out) \in Outputs
  BY <1>3, <1>4, ByteFacts DEF Streamed, Outputs
<1>6. Held(out) \in Outputs
  BY <1>3, <1>4, ByteFacts DEF Held, Outputs
<1> QED
  BY <1>2, <1>3, <1>4, <1>5, <1>6

(* Muxing a packet keeps the invariant.                                    *)
LEMMA MuxPacketKept ==
  ASSUME SessionInv, MuxPacket, DecoderStays
  PROVE  SessionInv'
<1>1. CASE Drops
  BY <1>1, DropsKept
<1>2. CASE ~Drops
  <2>1. staged \in Seq(Nat)
    BY DEF SessionInv, Shapes
  <2> QED
    BY <1>2, <2>1, MuxPacketOutcome, PublicationKept DEF Writing
<1> QED
  BY <1>1, <1>2

(* So does the muxer's end.                                                *)
LEMMA MuxFinishKept ==
  ASSUME SessionInv, MuxFinish, DecoderStays
  PROVE  SessionInv'
<1>1. CASE Drops
  BY <1>1, DropsKept
<1>2. CASE ~Drops
  <2>1. out \in Outputs /\ staged \in Seq(Nat)
    BY DEF SessionInv, Shapes
  <2>2. /\ pc = "mux" /\ pc' = "write" /\ staged' = staged /\ Publishes
        /\ out' = [out EXCEPT !.writing = "tail", !.muxed = <<>>,
                              !.pending = Append(out.muxed, Trailer)]
    BY <1>2 DEF MuxFinish, PublishFails, FailAfter
  <2>3. Append(out.muxed, Trailer) \in Seq(Int)
    BY <2>1, ByteFacts DEF Outputs
  <2>4. out' \in Outputs
    BY <2>1, <2>2, <2>3, ByteFacts DEF Outputs
  <2> QED
    BY <2>1, <2>2, <2>4, PublicationKept DEF Writing
<1> QED
  BY <1>1, <1>2

(* So does patching the header.                                            *)
LEMMA PatchKept ==
  ASSUME SessionInv, Patch, DecoderStays
  PROVE  SessionInv'
<1>1. CASE Drops
  BY <1>1, DropsKept
<1>2. CASE ~Drops
  <2>1. out \in Outputs /\ staged \in Seq(Nat)
    BY DEF SessionInv, Shapes
  <2>2. /\ pc = "patch" /\ pc' \in Writing /\ staged' = staged /\ Publishes
        /\ out' \in {out, [out EXCEPT !.writing = "patch", !.pending = <<Header>>]}
    BY <1>2 DEF Patch, PublishFails, FailAfter, Writing
  <2>3. out' \in Outputs
    BY <2>1, <2>2, ByteFacts DEF Outputs
  <2> QED
    BY <2>1, <2>2, <2>3, PublicationKept DEF Writing
<1> QED
  BY <1>1, <1>2

(* So does the final flush, after which the operation is over.             *)
LEMMA FlushKept ==
  ASSUME SessionInv, Flush, DecoderStays
  PROVE  SessionInv'
<1>1. CASE Drops
  BY <1>1, DropsKept
<1>2. CASE ~Drops
  BY <1>2 DEF Flush, PublishFails, FailAfter, SessionInv, Shapes, Control, EncoderKeeps,
      Trusted, Stages, Finishing, Writing, DecoderStays
<1> QED
  BY <1>1, <1>2

(* So does a change of policy, which only an idle operation takes.         *)
LEMMA ChangePolicyKept ==
  ASSUME SessionInv, ChangePolicy, DecoderStays
  PROVE  SessionInv'
BY DEF ChangePolicy, SessionInv, Shapes, Control, EncoderKeeps, Trusted, DecoderStays
-----------------------------------------------------------------------------
(* The pump returns or goes on; the encoder is not touched.                *)
LEMMA PumpsKept ==
  ASSUME SessionInv, Encoding, pc \in {"idle"} \cup Pumping, op # "consumed",
         NEW o, NEW at \in {"idle"} \cup Pumping, Pumps(o, at),
         Fused(dec, o) \/ (o.s \in Sessions /\ Trusted(o.s)),
         next' \in Nat, kept' \in Seq(Nat)
  PROVE  SessionInv'
<1>1. Shapes'
  BY DEF SessionInv, Shapes, Encoding, Pumps, Fused
<1>2. Control'
  BY DEF SessionInv, Control, Encoding, Pumps, Stages, Pumping, Finishing, Writing
<1>3. EncoderKeeps'
  BY DEF SessionInv, EncoderKeeps, Encoding, Pumps, Fused, Trusted, Pumping
<1> QED
  BY <1>1, <1>2, <1>3 DEF SessionInv

(* So does a frame on its way from the decoder into push.                  *)
LEMMA PushKept ==
  ASSUME SessionInv, pc \in Pumping, NEW back \in {"psend", "pdrain"},
         NEW o \in Guard(dec, NativeReceive(dec)), o.r = "ready", Push(o, back)
  PROVE  SessionInv'
<1>1. dec \in Sessions /\ Trusted(dec) /\ dec.queue \in Seq(Nat)
  BY DEF SessionInv, Shapes, EncoderKeeps, Sessions
<1>2. Fused(dec, o) /\ o.out \in Nat
  BY <1>1, ReceiveOutcome, SeqFacts DEF Failing
<1>3. Shapes'
  BY <1>2 DEF SessionInv, Shapes, Encoding, Push, Fused, Stages
<1>4. Control'
  BY <1>2, NoneIsNothing DEF SessionInv, Control, Encoding, Push, Stages, Pumping,
      Finishing, Writing
<1>5. EncoderKeeps'
  BY <1>2 DEF SessionInv, EncoderKeeps, Encoding, Push, Fused, Trusted, Pumping
<1> QED
  BY <1>3, <1>4, <1>5 DEF SessionInv

(* So does the offer of a packet by the application.                       *)
LEMMA OfferKept == ASSUME SessionInv, Offer PROVE SessionInv'
BY DEF Offer, Calling, SessionInv, Shapes, Control, EncoderKeeps, Encoding, Trusted,
      Stages, Pumping, Finishing, Writing

(* So does sending the packet to the decoder.                              *)
LEMMA PumpSendKept == ASSUME SessionInv, PumpSend PROVE SessionInv'
<1>1. /\ dec \in Sessions /\ Trusted(dec) /\ next \in Nat /\ kept \in Seq(Nat)
      /\ pc \in Pumping /\ op # "consumed"
  BY DEF PumpSend, SessionInv, Shapes, EncoderKeeps, Control, Pumping, Finishing, Writing
<1>2. PICK o \in Guard(dec, NativeSend(dec, next)) :
        \/ /\ o.r = "accepted" /\ Pumps(o, "pdrain")
           /\ next' = next + 1 /\ kept' = Append(kept, next)
        \/ o.r = "pending" /\ Pumps(o, "pfull") /\ UNCHANGED <<next, kept>>
        \/ o.r \in Failing /\ Pumps(o, "idle") /\ UNCHANGED <<next, kept>>
  BY DEF PumpSend
<1>3. Fused(dec, o)
  BY <1>1, SendOutcome
<1>4. next' \in Nat /\ kept' \in Seq(Nat)
  <2>1. Append(kept, next) \in Seq(Nat) /\ next + 1 \in Nat
    BY <1>1, AppendProperties
  <2> QED
    BY <1>1, <1>2, <2>1
<1>5. PICK at \in {"idle"} \cup Pumping : Pumps(o, at)
  BY <1>2 DEF Pumping
<1>6. Encoding
  BY <1>5 DEF Pumps
<1> QED
  BY <1>1, <1>3, <1>4, <1>5, <1>6, PumpsKept

(* A frame the decoder gives is pushed; anything else ends the pump.       *)
LEMMA PumpReceiveKept ==
  ASSUME SessionInv, pc \in Pumping, NEW back \in {"psend", "pdrain"},
         NEW o \in Guard(dec, NativeReceive(dec)),
         \/ o.r = "ready" /\ Push(o, back)
         \/ o.r # "ready" /\ Pumps(o, "idle") /\ UNCHANGED <<next, kept>>
  PROVE  SessionInv'
<1>1. CASE o.r = "ready"
  BY <1>1, PushKept
<1>2. CASE o.r # "ready"
  <2>1. Pumps(o, "idle") /\ Encoding /\ next' = next /\ kept' = kept
    BY <1>2 DEF Pumps
  <2>2. dec \in Sessions /\ Trusted(dec) /\ next \in Nat /\ kept \in Seq(Nat) /\ op # "consumed"
    BY DEF SessionInv, Shapes, EncoderKeeps, Control, Pumping, Finishing, Writing
  <2>3. Fused(dec, o)
    BY <2>2, ReceiveOutcome
  <2> QED
    BY <2>1, <2>2, <2>3, PumpsKept
<1> QED
  BY <1>1, <1>2

(* So does making room in a full decoder.                                  *)
LEMMA PumpFullKept == ASSUME SessionInv, PumpFull PROVE SessionInv'
<1>1. pc \in Pumping
  BY DEF PumpFull, Pumping
<1>2. PICK o \in Guard(dec, NativeReceive(dec)) :
        \/ o.r = "ready" /\ Push(o, "psend")
        \/ o.r # "ready" /\ Pumps(o, "idle") /\ UNCHANGED <<next, kept>>
  BY DEF PumpFull
<1> QED
  BY <1>1, <1>2, PumpReceiveKept

(* So does draining the decoder.                                           *)
LEMMA PumpDrainKept == ASSUME SessionInv, PumpDrain PROVE SessionInv'
<1>1. pc \in Pumping
  BY DEF PumpDrain, Pumping
<1>2. PICK o \in Guard(dec, NativeReceive(dec)) :
        \/ o.r = "ready" /\ Push(o, "pdrain")
        \/ o.r # "ready" /\ Pumps(o, "idle") /\ UNCHANGED <<next, kept>>
  BY DEF PumpDrain
<1> QED
  BY <1>1, <1>2, PumpReceiveKept

(* So do the calls of the application on the decoder.                      *)
LEMMA CallKept ==
  ASSUME SessionInv, DrainDecoder \/ Configure \/ Reset
  PROVE  SessionInv'
<1>1. /\ dec \in Sessions /\ Trusted(dec) /\ next \in Nat /\ kept \in Seq(Nat)
      /\ admitted \in Seq(Nat) /\ pc \in {"idle"} \cup Pumping /\ op # "consumed"
  BY DEF DrainDecoder, Configure, Reset, Calling, SessionInv, Shapes, EncoderKeeps
<1>2. CASE DrainDecoder
  <2>1. PICK o \in GuardEnd(dec) :
          Pumps(o, IF o.r = "ok" THEN "pdrain" ELSE "idle") /\ UNCHANGED <<next, kept>>
    BY <1>2 DEF DrainDecoder
  <2>2. PICK at \in {"idle"} \cup Pumping : Pumps(o, at)
    BY <2>1 DEF Pumping
  <2>3. Encoding /\ next' = next /\ kept' = kept /\ Fused(dec, o)
    BY <1>1, <2>1, EndOutcome DEF Pumps
  <2> QED
    BY <1>1, <2>2, <2>3, PumpsKept
<1>3. CASE Configure
  <2>1. PICK o \in Guard(dec, NativeConfigure(dec)) : Pumps(o, "idle") /\ UNCHANGED <<next, kept>>
    BY <1>3 DEF Configure
  <2>2. Encoding /\ next' = next /\ kept' = kept /\ Fused(dec, o)
    BY <1>1, <2>1, ConfigureOutcome DEF Pumps
  <2> QED
    BY <1>1, <2>1, <2>2, PumpsKept
<1>4. CASE Reset
  <2>1. PICK o \in FusedReset(dec) :
          /\ Pumps(o, "idle") /\ UNCHANGED next
          /\ kept' = IF o.r = "ok" THEN admitted ELSE kept
    BY <1>4 DEF Reset
  <2>2. o.s \in Sessions /\ Trusted(o.s)
    BY <1>1, ResetOutcome DEF Fused
  <2>3. Encoding /\ next' \in Nat /\ kept' \in Seq(Nat)
    BY <1>1, <2>1 DEF Pumps
  <2> QED
    BY <1>1, <2>1, <2>2, <2>3, PumpsKept
<1> QED
  BY <1>2, <1>3, <1>4
-----------------------------------------------------------------------------
(* The invariant holds at the start.                                       *)
LEMMA InitSessionInv == Init => SessionInv
<1> SUFFICES ASSUME Init PROVE SessionInv
  OBVIOUS
<1>1. NewSession \in Sessions /\ NewSession.queue = <<>> /\ ~NewSession.misused
      /\ ~NewSession.dirty
  BY SeqFacts DEF NewSession, Sessions
<1>2. NoOutput \in Outputs
  BY ByteFacts DEF NoOutput, Outputs
<1> USE <1>1, <1>2, NoneIsNothing, SeqFacts DEF Init, StagedInit
<1>3. Shapes
  BY DEF Shapes
<1>4. Control
  BY DEF Control, Stages, Finishing, Writing
<1>5. EncoderKeeps
  BY DEF EncoderKeeps, Trusted
<1> QED
  BY <1>3, <1>4, <1>5 DEF SessionInv

(* Every step keeps it.                                                    *)
LEMMA StepSessionInv == ASSUME SessionInv, [Next]_vars PROVE SessionInv'
<1>1. CASE Encode
  <2> USE <1>1 DEF Encode, DecoderStays
  <2>1. CASE Policy    BY <2>1, PolicyKept
  <2>2. CASE Convert   BY <2>2, ConvertKept
  <2>3. CASE Send      BY <2>3, SendKept
  <2>4. CASE Full      BY <2>4, FullKept
  <2>5. CASE Drain     BY <2>5, DrainKept
  <2>6. CASE Admit     BY <2>6, AdmitKept
  <2>7. CASE Finish    BY <2>7, FinishKept
  <2>8. CASE EndInput  BY <2>8, EndInputKept
  <2>9. CASE Last      BY <2>9, LastKept
  <2>10. CASE Replay   BY <2>10, ReplayKept
  <2>11. CASE Write    BY <2>11, WriteKept
  <2>12. CASE Written  BY <2>12, WrittenKept
  <2>13. CASE ReadBack BY <2>13, ReadBackKept
  <2>14. CASE MuxPacket BY <2>14, MuxPacketKept
  <2>15. CASE MuxFinish BY <2>15, MuxFinishKept
  <2>16. CASE Patch    BY <2>16, PatchKept
  <2>17. CASE Flush    BY <2>17, FlushKept
  <2>18. CASE ChangePolicy BY <2>18, ChangePolicyKept
  <2> QED
    BY <2>1, <2>2, <2>3, <2>4, <2>5, <2>6, <2>7, <2>8, <2>9, <2>10, <2>11, <2>12, <2>13,
       <2>14, <2>15, <2>16, <2>17, <2>18 DEF EncodeNext
<1>2. CASE Decode
  BY <1>2, OfferKept, PumpSendKept, PumpFullKept, PumpDrainKept, CallKept DEF Decode
<1>3. CASE UNCHANGED vars
  BY <1>3 DEF SessionInv, Shapes, Control, EncoderKeeps, Trusted, vars, stagedVars
<1> QED
  BY <1>1, <1>2, <1>3 DEF Next

(***************************************************************************)
(* A native session that failed or unwound is not called again until a     *)
(* reset succeeded, whatever the native sessions answer: FusedDecoder and  *)
(* FusedEncoder refuse it (session.rs:441-541).                            *)
(***************************************************************************)
THEOREM FailedSessionsRest == Spec => []NativeNotReused
<1>1. SessionInv => NativeNotReused
  BY DEF SessionInv, EncoderKeeps, Trusted, NativeNotReused
<1> QED
  BY <1>1, InitSessionInv, StepSessionInv, PTL DEF Spec
-----------------------------------------------------------------------------
(* Nothing is in between unless a push holds a frame.                      *)
Between == {"policy", "convert", "send", "full"}

(* A step of the encoder that moves no frame between the three places, or  *)
(* that ends the operation.                                                *)
LEMMA StaysInPlace ==
  ASSUME SessionInv, NothingLost, DecoderStays,
         \/ op' \notin {"live", "taken"}
         \/ /\ op \in {"live", "taken"} /\ admitted' = admitted
            /\ \/ pc \notin Between /\ pc' \notin Between
               \/ pc \in Between /\ pc' \in Between /\ frame' = frame
  PROVE  NothingLost'
BY DEF NothingLost, InBetween, Between, DecoderStays

(* The frame leaves the push as the encoder takes it.                      *)
LEMMA SendLosesNothing ==
  ASSUME SessionInv, NothingLost, Send, DecoderStays
  PROVE  NothingLost'
<1>1. CASE op' \notin {"live", "taken"}
  BY <1>1, StaysInPlace
<1>2. CASE op' \in {"live", "taken"}
  <2>1. PICK o \in Guard(enc, NativeSend(enc, frame)) :
          \/ /\ o.r = "accepted" /\ pc' = "drain" /\ Encodes
             /\ admitted' = Append(admitted, frame)
          \/ pc' = "full" /\ Encodes /\ admitted' = admitted
    BY <1>2, Zenon DEF Send, EncoderBreaks, Fail, FailAfter, Unwind, Drops
  <2>2. pc = "send" /\ frame \in Nat /\ admitted \in Seq(Nat) /\ op = op'
    BY <2>1 DEF Send, SessionInv, Shapes, Control, Encodes
  <2>3. CASE pc' = "full"
    <3>1. admitted' = admitted /\ frame' = frame /\ op \in {"live", "taken"}
      BY <1>2, <2>1, <2>2, <2>3 DEF Encodes
    <3> QED
      BY <2>2, <2>3, <3>1, StaysInPlace DEF Between
  <2>4. CASE pc' = "drain"
    <3>1. admitted' = Append(admitted, frame) /\ Append(admitted, frame) \in Seq(Nat)
          /\ Append(admitted, frame) = admitted \o <<frame>>
      BY <2>1, <2>2, <2>4, AppendIsConcat, AppendProperties
    <3>2. InBetween = <<frame>> /\ InBetween' = <<>>
      BY <2>2, <2>4, NoneIsNothing DEF InBetween
    <3>3. admitted' \o InBetween' = admitted \o InBetween
      BY <3>1, <3>2, SeqFacts
    <3> QED
      BY <1>2, <2>2, <3>3 DEF NothingLost, DecoderStays
  <2> QED
    BY <2>1, <2>3, <2>4
<1> QED
  BY <1>1, <1>2

(* No step of the staged encode loses a frame.                             *)
LEMMA EncodeLosesNothing ==
  ASSUME SessionInv, NothingLost, EncodeNext, DecoderStays
  PROVE  NothingLost'
<1>1. CASE Drops
  BY <1>1, StaysInPlace DEF Drops
<1>2. CASE Policy \/ Convert \/ Full
  <2>1. CASE ~Drops
    <3>1. /\ pc \in Between /\ pc' \in Between /\ frame' = frame /\ admitted' = admitted
          /\ op \in {"live", "taken"}
      <4>1. CASE Policy
        BY <2>1, <4>1 DEF Policy, Fail, FailAfter, Between
      <4>2. CASE Convert
        BY <2>1, <4>2 DEF Convert, Fail, FailAfter, Unwind, Between, Encodes, SessionInv,
            Control, Stages
      <4>3. CASE Full
        BY <2>1, <4>3 DEF Full, Fail, FailAfter, Unwind, Between, Encodes, SessionInv,
            Control, Stages
      <4> QED
        BY <1>2, <4>1, <4>2, <4>3
    <3> QED
      BY <3>1, StaysInPlace
  <2> QED
    BY <1>1, <2>1
<1>3. CASE Drain \/ Admit \/ ChangePolicy
  <2>1. CASE ~Drops
    <3>1. /\ pc \notin Between /\ pc' \notin Between /\ admitted' = admitted
          /\ op \in {"live", "taken"}
      <4>1. CASE Drain
        BY <2>1, <4>1 DEF Drain, Stage, EncoderBreaks, Fail, FailAfter, Unwind, Between,
            Encodes, SessionInv, Control, Stages
      <4>2. CASE Admit
        BY <2>1, <4>2 DEF Admit, Fail, FailAfter, Between, SessionInv, Control, Stages
      <4>3. CASE ChangePolicy
        BY <4>3 DEF ChangePolicy, Between
      <4> QED
        BY <1>3, <4>1, <4>2, <4>3
    <3> QED
      BY <3>1, StaysInPlace
  <2> QED
    BY <1>1, <2>1
<1>4. CASE Finish
  BY <1>4, StaysInPlace DEF Finish
<1>5. CASE EndInput \/ Last \/ Replay \/ Write \/ Written \/ ReadBack \/ MuxPacket
           \/ MuxFinish \/ Patch \/ Flush
  <2>1. CASE ~Drops
    <3>1. pc \in Finishing
      BY <1>5 DEF EndInput, Last, Replay, Write, Written, ReadBack, MuxPacket, MuxFinish,
          Patch, Flush, Finishing, Writing
    <3>2. op = "consumed"
      BY <3>1 DEF SessionInv, Control
    <3>3. op' = op
      <4>1. CASE EndInput \/ Last
        BY <2>1, <4>1, Zenon DEF EndInput, Last, Stage, EncoderBreaks, Fail, FailAfter,
            Unwind, Encodes
      <4>2. CASE Replay \/ Write \/ Written \/ ReadBack \/ MuxPacket \/ MuxFinish \/ Patch
                 \/ Flush
        BY <2>1, <4>2, Zenon DEF Replay, Write, Written, ReadBack, MuxPacket, MuxFinish,
            Patch, Flush, PublishFails, FailAfter, Publishes
      <4> QED
        BY <1>5, <4>1, <4>2
    <3> QED
      BY <3>2, <3>3, StaysInPlace
  <2> QED
    BY <1>1, <2>1
<1>6. CASE Send
  BY <1>6, SendLosesNothing
<1> QED
  BY <1>2, <1>3, <1>4, <1>5, <1>6 DEF EncodeNext

(* A pump that goes on or returns holds no frame.                          *)
LEMMA PumpsInBetween ==
  ASSUME NEW o, NEW at \in {"idle"} \cup Pumping, Pumps(o, at), pc \in {"idle"} \cup Pumping
  PROVE  /\ InBetween = <<>> /\ InBetween' = <<>> /\ dec' = o.s
         /\ admitted' = admitted /\ op' = op
BY DEF Pumps, Encoding, InBetween, Pumping

(* Until the decoder is called and comes to harm it holds what it held.    *)
LEMMA PumpsLoseNothing ==
  ASSUME SessionInv, NothingLost, pc \in {"idle"} \cup Pumping,
         NEW o, NEW at \in {"idle"} \cup Pumping, Pumps(o, at),
         Fused(dec, o), Unmoved(dec, o), kept' = kept
  PROVE  NothingLost'
BY PumpsInBetween DEF NothingLost, Fused, Unmoved

(* A packet is taken by the decoder as its number joins the packets kept.  *)
LEMMA PumpSendLosesNothing ==
  ASSUME SessionInv, NothingLost, PumpSend
  PROVE  NothingLost'
<1>1. /\ dec \in Sessions /\ Trusted(dec) /\ next \in Nat /\ kept \in Seq(Nat)
      /\ dec.queue \in Seq(Nat) /\ admitted \in Seq(Nat) /\ pc \in {"idle"} \cup Pumping
  BY DEF PumpSend, SessionInv, Shapes, EncoderKeeps, Sessions, Pumping
<1>2. PICK o \in Guard(dec, NativeSend(dec, next)) :
        \/ /\ o.r = "accepted" /\ Pumps(o, "pdrain")
           /\ next' = next + 1 /\ kept' = Append(kept, next)
        \/ o.r = "pending" /\ Pumps(o, "pfull") /\ UNCHANGED <<next, kept>>
        \/ o.r \in Failing /\ Pumps(o, "idle") /\ UNCHANGED <<next, kept>>
  BY DEF PumpSend
<1>3. PICK at \in {"idle"} \cup Pumping : Pumps(o, at)
  BY <1>2 DEF Pumping
<1>4. Fused(dec, o)
  BY <1>1, SendOutcome
<1>5. CASE o.r = "accepted"
  <2>1. o.s.queue = Append(dec.queue, next) /\ kept' = Append(kept, next)
    BY <1>1, <1>2, <1>5, SendOutcome DEF Failing
  <2>2. /\ InBetween = <<>> /\ InBetween' = <<>> /\ dec' = o.s /\ admitted' = admitted
        /\ op' = op
    BY <1>1, <1>3, PumpsInBetween
  <2>3. admitted \o <<>> \in Seq(Nat)
    BY <1>1, SeqFacts
  <2>4. Append((admitted \o <<>>) \o dec.queue, next) = (admitted \o <<>>) \o Append(dec.queue, next)
    BY <1>1, <2>3, TakenLast
  <2> QED
    BY <1>4, <2>1, <2>2, <2>4 DEF NothingLost, Fused
<1>6. CASE o.r # "accepted"
  <2>1. Unmoved(dec, o) /\ kept' = kept
    BY <1>1, <1>2, <1>6, SendOutcome DEF Failing
  <2> QED
    BY <1>1, <1>3, <1>4, <2>1, PumpsLoseNothing
<1> QED
  BY <1>5, <1>6

(* The frame the decoder gives is the one that is pushed next.             *)
LEMMA PumpReceiveLosesNothing ==
  ASSUME SessionInv, NothingLost, pc \in Pumping, NEW back \in {"psend", "pdrain"},
         NEW o \in Guard(dec, NativeReceive(dec)),
         \/ o.r = "ready" /\ Push(o, back)
         \/ o.r # "ready" /\ Pumps(o, "idle") /\ UNCHANGED <<next, kept>>
  PROVE  NothingLost'
<1>1. /\ dec \in Sessions /\ Trusted(dec) /\ dec.queue \in Seq(Nat) /\ admitted \in Seq(Nat)
  BY DEF SessionInv, Shapes, EncoderKeeps, Sessions
<1>2. CASE o.r = "ready"
  <2>1. /\ Fused(dec, o) /\ dec.queue # <<>> /\ o.out = Head(dec.queue)
        /\ o.s.queue = Tail(dec.queue)
    BY <1>1, <1>2, ReceiveOutcome DEF Failing
  <2>2. Head(dec.queue) \in Nat
    BY <1>1, <2>1, SeqFacts
  <2>3. /\ dec' = o.s /\ frame' = Head(dec.queue) /\ pc' = "policy" /\ kept' = kept
        /\ admitted' = admitted /\ op' = op
    BY <1>2, <2>1 DEF Push, Encoding
  <2>4. InBetween = <<>> /\ InBetween' = <<Head(dec.queue)>>
    BY <2>2, <2>3, NoneIsNothing DEF InBetween, Pumping
  <2>5. admitted \o <<Head(dec.queue)>> \o Tail(dec.queue) = admitted \o <<>> \o dec.queue
    <3>1. Append(admitted, Head(dec.queue)) = admitted \o <<Head(dec.queue)>>
      BY <1>1, <2>2, AppendIsConcat
    <3>2. Append(admitted, Head(dec.queue)) \o Tail(dec.queue) = admitted \o dec.queue
      BY <1>1, <2>1, StagedMoves
    <3>3. admitted \o <<>> = admitted
      BY <1>1, SeqFacts
    <3> QED
      BY <3>1, <3>2, <3>3
  <2> QED
    BY <2>1, <2>3, <2>4, <2>5 DEF NothingLost, Fused
<1>3. CASE o.r # "ready"
  <2>1. Fused(dec, o) /\ Unmoved(dec, o)
    BY <1>1, <1>3, ReceiveOutcome
  <2> QED
    BY <1>3, <2>1, PumpsLoseNothing
<1> QED
  BY <1>2, <1>3

(* A reset forgets what only the decoder held, and nothing else.           *)
LEMMA CallLosesNothing ==
  ASSUME SessionInv, NothingLost, DrainDecoder \/ Configure \/ Reset
  PROVE  NothingLost'
<1>1. /\ dec \in Sessions /\ Trusted(dec) /\ pc \in {"idle"} \cup Pumping
      /\ admitted \in Seq(Nat)
  BY DEF DrainDecoder, Configure, Reset, Calling, SessionInv, Shapes, EncoderKeeps
<1>2. CASE DrainDecoder
  <2>1. PICK o \in GuardEnd(dec) :
          Pumps(o, IF o.r = "ok" THEN "pdrain" ELSE "idle") /\ UNCHANGED <<next, kept>>
    BY <1>2 DEF DrainDecoder
  <2>2. PICK at \in {"idle"} \cup Pumping : Pumps(o, at)
    BY <2>1 DEF Pumping
  <2>3. kept' = kept /\ Fused(dec, o) /\ Unmoved(dec, o)
    BY <1>1, <2>1, EndOutcome
  <2> QED
    BY <1>1, <2>2, <2>3, PumpsLoseNothing
<1>3. CASE Configure
  <2>1. PICK o \in Guard(dec, NativeConfigure(dec)) : Pumps(o, "idle") /\ UNCHANGED <<next, kept>>
    BY <1>3 DEF Configure
  <2>2. kept' = kept /\ Fused(dec, o) /\ Unmoved(dec, o)
    BY <1>1, <2>1, ConfigureOutcome
  <2> QED
    BY <1>1, <2>1, <2>2, PumpsLoseNothing
<1>4. CASE Reset
  <2>1. PICK o \in FusedReset(dec) :
          /\ Pumps(o, "idle") /\ UNCHANGED next
          /\ kept' = IF o.r = "ok" THEN admitted ELSE kept
    BY <1>4 DEF Reset
  <2>2. CASE o.r = "ok"
    <3>1. o.s.queue = <<>> /\ kept' = admitted
      BY <1>1, <2>1, <2>2, ResetOutcome
    <3>2. InBetween' = <<>> /\ dec' = o.s /\ admitted' = admitted
      BY <1>1, <2>1, PumpsInBetween
    <3>3. admitted \o <<>> \o <<>> = admitted
      BY <1>1, SeqFacts
    <3> QED
      BY <3>1, <3>2, <3>3 DEF NothingLost
  <2>3. CASE o.r # "ok"
    <3>1. Fused(dec, o) /\ Unmoved(dec, o) /\ kept' = kept
      BY <1>1, <2>1, <2>3, ResetOutcome
    <3> QED
      BY <1>1, <2>1, <3>1, PumpsLoseNothing
  <2> QED
    BY <2>2, <2>3
<1> QED
  BY <1>2, <1>3, <1>4

(* No step of the pump, and no call on the decoder, loses one.             *)
LEMMA DecodeLosesNothing ==
  ASSUME SessionInv, NothingLost, Decode
  PROVE  NothingLost'
<1>1. CASE Offer
  BY <1>1 DEF Offer, Calling, NothingLost, InBetween, Encoding
<1>2. CASE PumpSend
  BY <1>2, PumpSendLosesNothing
<1>3. CASE PumpFull
  BY <1>3, PumpReceiveLosesNothing DEF PumpFull, Pumping
<1>4. CASE PumpDrain
  BY <1>4, PumpReceiveLosesNothing DEF PumpDrain, Pumping
<1>5. CASE DrainDecoder \/ Configure \/ Reset
  BY <1>5, CallLosesNothing
<1> QED
  BY <1>1, <1>2, <1>3, <1>4, <1>5 DEF Decode

(***************************************************************************)
(* A retry after backpressure neither loses nor repeats a packet: those    *)
(* the decoder took are, in order, the frames the encoder accepted, the    *)
(* one in between and those the decoder still holds (session.rs:590-640,   *)
(* staged.rs:373-402).                                                     *)
(***************************************************************************)
THEOREM RetriesLoseNothing == Spec => []NothingLost
<1>1. Init => NothingLost
  BY SeqFacts DEF Init, StagedInit, NewSession, NothingLost, InBetween
<1>2. ASSUME SessionInv, NothingLost, [Next]_vars PROVE NothingLost'
  <2>1. CASE Encode
    BY <1>2, <2>1, EncodeLosesNothing DEF Encode, DecoderStays
  <2>2. CASE Decode
    BY <1>2, <2>2, DecodeLosesNothing
  <2>3. CASE UNCHANGED vars
    BY <1>2, <2>3 DEF NothingLost, InBetween, vars, stagedVars
  <2> QED
    BY <1>2, <2>1, <2>2, <2>3 DEF Next
<1> QED
  BY <1>1, <1>2, InitSessionInv, StepSessionInv, PTL DEF Spec
-----------------------------------------------------------------------------
(* Nothing is published before the encoder is drained.                     *)
Unpublished ==
  pc \notin Writing /\ ~(op = "consumed" /\ pc = "idle") =>
    /\ out.dest = <<>> /\ out.stats = 0 /\ out.emitted = 0
    /\ out.pending = <<>> /\ out.muxed = <<>> /\ out.held = None

(* The counts agree with what the destination took, and only an operation  *)
(* that is over has returned one.                                          *)
Counted ==
  /\ out.stats = Len(out.dest)
  /\ pc \in {"read", "mux", "replay"} => out.emitted = out.stats
  /\ report # None =>
       /\ report.emitted = Len(out.dest)
       /\ op = "failed" \/ (op = "consumed" /\ pc = "idle")
  /\ pc = "write" => out.writing \in {"header", "packet", "tail", "patch"}

CountInv == SessionInv /\ Unpublished /\ Counted

(* A failure reports what the destination holds, from the count of the     *)
(* output or from the copy that finish keeps of it.                        *)
LEMMA FailureCounts ==
  ASSUME CountInv, NEW stage, NEW inner, FailAfter(stage, inner),
         \/ inner = out.stats
         \/ inner = None /\ pc \notin {"idle", "write", "patch", "flush"}
  PROVE  Unpublished' /\ Counted'
<1>1. out \in Outputs /\ out.stats # None
  BY NoneIsNothing DEF CountInv, SessionInv, Shapes, Outputs
<1>2. Reported(inner) = Len(out.dest)
  <2>1. CASE inner = None
    BY <1>1, <2>1 DEF Reported, CountInv, Unpublished, Counted, Writing
  <2>2. CASE inner = out.stats
    BY <1>1, <2>2 DEF Reported, CountInv, Counted
  <2> QED
    BY <2>1, <2>2
<1>3. /\ report'.emitted = Len(out.dest) /\ pc' = "idle" /\ op' \in {"failed", "consumed"}
      /\ op' = "failed" => op # "consumed"
  BY <1>2 DEF FailAfter, Drops, CountInv, SessionInv, Shapes
<1>4. /\ out'.dest = out.dest /\ out'.stats = out.stats /\ out'.emitted = out.emitted
      /\ out'.pending = <<>> /\ out'.muxed = <<>> /\ out'.held = None
  BY <1>1 DEF FailAfter, Drops, Outputs
<1>5. op # "consumed" => out.dest = <<>> /\ out.stats = 0 /\ out.emitted = 0
  BY DEF CountInv, Unpublished, SessionInv, Control, Finishing
<1> QED
  BY <1>3, <1>4, <1>5 DEF CountInv, Counted, Unpublished, Writing

(* An unwinding call ends the operation without a report.                  *)
LEMMA UnwindCounts ==
  ASSUME CountInv, Unwind
  PROVE  Unpublished' /\ Counted'
<1>1. out \in Outputs
  BY DEF CountInv, SessionInv, Shapes
<1>2. /\ report' = report /\ pc' = "idle" /\ op' \in {"failed", "consumed"}
      /\ op' = "failed" => op # "consumed"
  BY DEF Unwind, Drops, CountInv, SessionInv, Shapes
<1>3. /\ out'.dest = out.dest /\ out'.stats = out.stats /\ out'.emitted = out.emitted
      /\ out'.pending = <<>> /\ out'.muxed = <<>> /\ out'.held = None
  BY <1>1 DEF Unwind, Drops, Outputs
<1>4. op # "consumed" => out.dest = <<>> /\ out.stats = 0 /\ out.emitted = 0
  BY DEF CountInv, Unpublished, SessionInv, Control, Finishing
<1> QED
  BY <1>2, <1>3, <1>4 DEF CountInv, Counted, Unpublished, Writing

(* A step before publication, or between two calls.                        *)
LEMMA QuietCounts ==
  ASSUME CountInv, pc \notin Writing, pc' \notin Writing, UNCHANGED <<out, report>>,
         ~(op = "consumed" /\ pc = "idle"), ~(op' = "consumed" /\ pc' = "idle"),
         op' = op \/ op # "failed"
  PROVE  Unpublished' /\ Counted'
BY DEF CountInv, Counted, Unpublished, Writing

Before == Policy \/ Convert \/ Send \/ Full \/ Drain \/ Admit \/ EndInput \/ Last

Troubles == {"Policy", "Terminal", "Convert", "Encode", "Finish"}

(* Before publication, a step that does not fail leaves output and report  *)
(* alone.                                                                  *)
LEMMA BeforeIsQuiet ==
  ASSUME SessionInv, Before, ~(\E stage \in Troubles : Fail(stage)), ~Unwind
  PROVE  /\ UNCHANGED <<out, report>> /\ pc \notin Writing \cup {"idle"} /\ pc' \notin Writing
         /\ op' = op \/ op # "failed"
         /\ op' = "consumed" => pc' # "idle"
         /\ admitted' = admitted \/ op = "taken"
<1>1. UNCHANGED <<out, report>>
  BY Zenon DEF Before, Policy, Convert, Send, Full, Drain, Admit, EndInput, Last,
      Stage, EncoderBreaks, Encodes, Troubles
<1>2. pc \notin Writing \cup {"idle"}
  BY DEF Before, Policy, Convert, Send, Full, Drain, Admit, EndInput, Last, Writing
<1>3. pc' \notin Writing
  <2>1. CASE Policy \/ Convert \/ Send \/ Full \/ EndInput
    BY <2>1, Zenon DEF Policy, Convert, Send, Full, EndInput, EncoderBreaks, Writing, Troubles
  <2>2. CASE Drain
    BY <2>2, Zenon DEF Drain, Stage, EncoderBreaks, Writing, Troubles
  <2>3. CASE Last
    BY <2>3, Zenon DEF Last, Stage, EncoderBreaks, Writing, Troubles
  <2>4. CASE Admit
    BY <2>4 DEF Admit, Writing, SessionInv, Control, Stages, Troubles
  <2> QED
    BY <2>1, <2>2, <2>3, <2>4 DEF Before
<1>4. /\ op' = op \/ op # "failed"
      /\ op' = "consumed" => pc' # "idle"
  <2>1. CASE Policy \/ Admit
    BY <2>1 DEF Policy, Admit, SessionInv, Control, Stages, Troubles
  <2>2. CASE Convert \/ Send \/ Full \/ EndInput
    BY <2>2, Zenon DEF Convert, Send, Full, EndInput, EncoderBreaks, Encodes, Troubles
  <2>3. CASE Drain
    BY <2>3, Zenon DEF Drain, Stage, EncoderBreaks, Encodes, Troubles
  <2>4. CASE Last
    BY <2>4, Zenon DEF Last, Stage, EncoderBreaks, Encodes, Troubles
  <2> QED
    BY <2>1, <2>2, <2>3, <2>4 DEF Before
<1>5. admitted' = admitted \/ op = "taken"
  <2>1. CASE Send
    BY <2>1 DEF Send, SessionInv, Control, Stages
  <2>2. CASE ~Send
    BY <2>2, Zenon DEF Before, Policy, Convert, Full, Drain, Admit, EndInput, Last,
        Stage, EncoderBreaks, Encodes, Troubles
  <2> QED
    BY <2>1, <2>2
<1> QED
  BY <1>1, <1>2, <1>3, <1>4, <1>5

(* Before publication nothing is emitted.                                  *)
LEMMA BeforePublication ==
  ASSUME CountInv, Before
  PROVE  Unpublished' /\ Counted'
<1>1. CASE \E stage \in Troubles : Fail(stage)
  <2>1. PICK stage \in Troubles : FailAfter(stage, None)
    BY <1>1 DEF Fail
  <2>2. pc \notin {"idle", "write", "patch", "flush"}
    BY DEF Before, Policy, Convert, Send, Full, Drain, Admit, EndInput, Last
  <2> QED
    BY <2>1, <2>2, FailureCounts
<1>2. CASE Unwind
  BY <1>2, UnwindCounts
<1>3. CASE ~(\E stage \in Troubles : Fail(stage)) /\ ~Unwind
  BY <1>3, BeforeIsQuiet, QuietCounts DEF CountInv
<1> QED
  BY <1>1, <1>2, <1>3

(* The call of finish emits nothing.                                       *)
LEMMA FinishCounts ==
  ASSUME CountInv, Finish
  PROVE  Unpublished' /\ Counted'
<1>1. out.dest = <<>> /\ out.stats = 0 /\ out.emitted = 0 /\ out.pending = <<>>
      /\ out.muxed = <<>> /\ out.held = None
  BY DEF Finish, CountInv, Unpublished, Writing
<1> QED
  BY <1>1 DEF Finish, CountInv, Counted, Unpublished, Writing

(* The destination took the bytes that were counted.                       *)
LEMMA WriteCounts ==
  ASSUME CountInv, Write, ~Drops
  PROVE  Unpublished' /\ Counted'
<1>1. out \in Outputs /\ out.pending \in Seq(Int) /\ out.dest \in Seq(Int)
  BY DEF CountInv, SessionInv, Shapes, Outputs
<1>2. PICK n \in 1..Len(out.pending) :
        out' = [Counts(out, SubSeq(out.pending, 1, n))
                  EXCEPT !.pending = SubSeq(@, n + 1, Len(@))]
  BY DEF Write, PublishFails, FailAfter
<1>3. pc = "write" /\ pc' = pc /\ Publishes
  BY DEF Write, PublishFails, FailAfter
<1>4. out'.writing = out.writing /\ out'.stats = Len(out'.dest)
  <2>1. CASE out.writing = "patch"
    BY <1>1, <1>2, <2>1, WriteOutcome DEF CountInv, Counted
  <2>2. CASE out.writing # "patch"
    <3>1. SubSeq(out.pending, 1, n) \in Seq(Int)
      BY <1>1, TakeFacts
    <3>2. Len(out.dest \o SubSeq(out.pending, 1, n))
            = Len(out.dest) + Len(SubSeq(out.pending, 1, n))
      BY <1>1, <3>1, ConcatProperties
    <3> QED
      <4>1. /\ out'.writing = out.writing /\ out'.dest = out.dest \o SubSeq(out.pending, 1, n)
            /\ out'.stats = out.stats + Len(SubSeq(out.pending, 1, n))
        BY <1>1, <1>2, <2>2, WriteOutcome
      <4>2. out.stats = Len(out.dest)
        BY DEF CountInv, Counted
      <4> QED
        BY <3>2, <4>1, <4>2
  <2> QED
    BY <2>1, <2>2
<1>5. report' = None
  BY <1>3 DEF CountInv, SessionInv, Control, Counted, Finishing, Writing, Publishes
<1> QED
  BY <1>3, <1>4, <1>5 DEF CountInv, Counted, Unpublished, Writing

(* A step of the publication that writes nothing keeps the counts.         *)
LEMMA PublicationCounts ==
  ASSUME CountInv, Replay \/ Written \/ ReadBack \/ MuxPacket \/ MuxFinish \/ Patch, ~Drops
  PROVE  Unpublished' /\ Counted'
<1>1. out \in Outputs
  BY DEF CountInv, SessionInv, Shapes
<1>2. Publishes /\ pc' \in Writing /\ pc \in {"replay"} \cup Writing
  BY DEF Replay, Written, ReadBack, MuxPacket, MuxFinish, Patch, PublishFails, FailAfter, Writing
<1>3. /\ out'.dest = out.dest /\ out'.stats = out.stats
      /\ pc' \in {"read", "mux"} => out'.emitted = out'.stats
      /\ pc' = "write" => out'.writing \in {"header", "packet", "tail", "patch"}
  <2>1. CASE Replay
    BY <1>1, <2>1 DEF Replay, PublishFails, FailAfter, ReadsBack, Outputs
  <2>2. CASE Written
    BY <1>1, <2>2 DEF Written, PublishFails, FailAfter, Outputs
  <2>3. CASE ReadBack
    BY <1>1, <2>3 DEF ReadBack, PublishFails, FailAfter, ReadsBack, Outputs, CountInv, Counted
  <2>4. CASE MuxPacket
    BY <2>4, MuxPacketOutcome DEF CountInv, Streamed, Held, Outputs
  <2>5. CASE MuxFinish
    BY <1>1, <2>5 DEF MuxFinish, PublishFails, FailAfter, Outputs
  <2>6. CASE Patch
    BY <1>1, <2>6 DEF Patch, PublishFails, FailAfter, Outputs
  <2> QED
    BY <2>1, <2>2, <2>3, <2>4, <2>5, <2>6
<1>4. report' = None
  BY <1>2 DEF CountInv, SessionInv, Control, Counted, Finishing, Writing, Publishes
<1> QED
  BY <1>2, <1>3, <1>4 DEF CountInv, Counted, Unpublished, Writing

(* The final flush reports what was written.                               *)
LEMMA FlushCounts ==
  ASSUME CountInv, Flush, ~Drops
  PROVE  Unpublished' /\ Counted'
<1>1. /\ report' = [stage |-> "Completed", emitted |-> out.stats] /\ pc' = "idle"
      /\ pc = "flush" /\ UNCHANGED <<op, out>>
  BY DEF Flush, PublishFails, FailAfter
<1>2. op = "consumed"
  BY <1>1 DEF CountInv, SessionInv, Control, Finishing, Writing
<1> QED
  BY <1>1, <1>2 DEF CountInv, Counted, Unpublished, Writing

Publication == Replay \/ Write \/ Written \/ ReadBack \/ MuxPacket \/ MuxFinish \/ Patch \/ Flush

(* Every step of the staged encode keeps the counts.                       *)
LEMMA EncodeCounts ==
  ASSUME CountInv, EncodeNext
  PROVE  Unpublished' /\ Counted'
<1>1. CASE Before
  BY <1>1, BeforePublication
<1>2. CASE Finish
  BY <1>2, FinishCounts
<1>3. CASE ChangePolicy
  BY <1>3, QuietCounts DEF ChangePolicy, Writing
<1>4. CASE Publication
  <2>1. CASE Drops
    <3>1. \E stage, inner :
            /\ FailAfter(stage, inner)
            /\ \/ inner = out.stats
               \/ inner = None /\ pc \notin {"idle", "write", "patch", "flush"}
      <4> USE DEF PublishFails
      <4>1. CASE Flush
        <5>1. CASE report' = [stage |-> "Completed", emitted |-> out.stats]
          <6>1. Reported(out.stats) = out.stats
            BY NoneIsNothing DEF Reported, CountInv, SessionInv, Shapes, Outputs
          <6>2. FailAfter("Completed", out.stats)
            BY <2>1, <5>1, <6>1 DEF FailAfter
          <6> QED
            BY <6>2
        <5>2. CASE PublishFails(out.stats)
          BY <5>2
        <5> QED
          BY <4>1, <5>1, <5>2 DEF Flush
      <4>2. CASE Replay
        BY <2>1, <4>2 DEF Replay, Drops
      <4>3. CASE Write
        BY <2>1, <4>3 DEF Write, Drops
      <4>4. CASE Written
        BY <2>1, <4>4 DEF Written, Drops
      <4>5. CASE ReadBack
        BY <2>1, <4>5 DEF ReadBack, Drops
      <4>6. CASE MuxPacket
        BY <2>1, <4>6 DEF MuxPacket, Drops
      <4>7. CASE MuxFinish
        BY <2>1, <4>7 DEF MuxFinish, Drops
      <4>8. CASE Patch
        BY <2>1, <4>8 DEF Patch, Drops
      <4> QED
        BY <1>4, <4>1, <4>2, <4>3, <4>4, <4>5, <4>6, <4>7, <4>8 DEF Publication
    <3> QED
      BY <3>1, FailureCounts
  <2>2. CASE ~Drops
    BY <1>4, <2>2, WriteCounts, PublicationCounts, FlushCounts DEF Publication
  <2> QED
    BY <2>1, <2>2
<1> QED
  BY <1>1, <1>2, <1>3, <1>4 DEF EncodeNext, Before, Publication

(* A step of the pump touches no output.                                   *)
LEMMA DecodeCounts ==
  ASSUME CountInv, Decode
  PROVE  Unpublished' /\ Counted'
<1>1. /\ UNCHANGED <<op, out, report>> /\ op # "consumed" /\ pc \notin Writing
      /\ pc' \notin Writing
  <2>1. CASE Offer
    BY <2>1 DEF Offer, Calling, Encoding, Writing
  <2>2. CASE PumpSend
    BY <2>2 DEF PumpSend, Pumps, Encoding, Writing, CountInv, SessionInv, Control, Finishing
  <2>3. CASE PumpFull
    BY <2>3 DEF PumpFull, Pumps, Push, Encoding, Writing, CountInv, SessionInv, Control, Finishing
  <2>4. CASE PumpDrain
    BY <2>4 DEF PumpDrain, Pumps, Push, Encoding, Writing, CountInv, SessionInv, Control, Finishing
  <2>5. CASE DrainDecoder \/ Configure \/ Reset
    BY <2>5 DEF DrainDecoder, Configure, Reset, Calling, Pumps, Encoding, Writing
  <2> QED
    BY <2>1, <2>2, <2>3, <2>4, <2>5 DEF Decode
<1> QED
  BY <1>1, QuietCounts

(* The counts are right at the start.                                      *)
LEMMA InitCountInv == Init => CountInv
<1> SUFFICES ASSUME Init PROVE CountInv
  OBVIOUS
<1>1. SessionInv
  BY InitSessionInv
<1> QED
  BY <1>1 DEF CountInv, Unpublished, Counted, Init, StagedInit, NoOutput

(* Every step keeps them.                                                  *)
LEMMA StepCountInv == ASSUME CountInv, [Next]_vars PROVE CountInv'
<1>1. SessionInv'
  BY StepSessionInv DEF CountInv
<1>2. CASE Next
  <2>1. Unpublished' /\ Counted'
    BY <1>2, EncodeCounts, DecodeCounts DEF Next, Encode
  <2> QED
    BY <1>1, <2>1 DEF CountInv
<1>3. CASE UNCHANGED vars
  BY <1>1, <1>3 DEF CountInv, Unpublished, Counted, vars, stagedVars
<1> QED
  BY <1>2, <1>3

(***************************************************************************)
(* What a call reports as emitted is what the destination holds, in        *)
(* whatever stage it failed: the count of the output, or the copy that     *)
(* finish made of it after the last step that succeeded                    *)
(* (staged.rs:66-75, 285-296, output.rs:60-68).                            *)
(***************************************************************************)
THEOREM ReportsAreTrue == Spec => []EmittedIsWritten
<1>1. CountInv => EmittedIsWritten
  BY DEF CountInv, Counted, EmittedIsWritten
<1> QED
  BY <1>1, InitCountInv, StepCountInv, PTL DEF Spec

-----------------------------------------------------------------------------
(* What a finished encode has written: the header, the packets of the      *)
(* accepted frames in order and the trailer, for any number of packets of  *)
(* any size, however the muxer streams or holds them.                      *)

(* The packets that the muxer has not been given.                          *)
Fresh == pc = "mux" \/ (pc = "write" /\ out.writing = "header")
Unwritten == (IF Fresh /\ out.held # None THEN <<out.held>> ELSE <<>>) \o staged
Streaming == pc \in {"read", "mux"} \/ (pc = "write" /\ out.writing \in {"header", "packet"})

(* The destination, what it has not taken and what the muxer holds are the *)
(* header and the packets that were written; nothing else is left of the   *)
(* accepted frames than what was not.                                      *)
StreamOf(done) ==
  /\ admitted = done \o Unwritten
  /\ out.dest \o out.pending \o out.muxed = Body(done)

Streams ==
  /\ Streaming => \E done \in Seq(Nat) : StreamOf(done)
  /\ pc \in {"read", "mux"} => out.pending = <<>>
  /\ Fresh /\ out.held = None => staged = <<>>

Trails ==
  /\ pc = "write" /\ out.writing = "tail" =>
       out.dest \o out.pending = Whole /\ out.muxed = <<>>
  /\ pc \in {"patch", "flush"} \/ (pc = "write" /\ out.writing = "patch") => out.dest = Whole
  /\ report # None /\ report.stage = "Completed" => out.dest = Whole

Prefix == \E rest \in Seq(Int) : Whole = out.dest \o rest

OutputInv == CountInv /\ Streams /\ Trails /\ Prefix
-----------------------------------------------------------------------------
(* Division by the size of a packet.                                       *)
LEMMA Quotient ==
  ASSUME NEW b \in Nat \ {0}, NEW j \in Nat
  PROVE  j \div b \in Nat /\ b * (j \div b) <= j /\ j < b * (j \div b) + b
OBVIOUS

(* Multiples that overlap are of ordered factors.                          *)
LEMMA MultiplesOrdered ==
  ASSUME NEW b \in Nat \ {0}, NEW p \in Int, NEW q \in Int, b * p < b * q + b
  PROVE  p <= q
<1> SUFFICES ASSUME p >= q + 1 PROVE FALSE
  OBVIOUS
<1>1. b * (p - q - 1) >= 0
  OBVIOUS
<1>2. b * (p - q - 1) = b * p - b * q - b
  OBVIOUS
<1> QED
  BY <1>1, <1>2

(* Division passes over whole packets.                                     *)
LEMMA QuotientShifts ==
  ASSUME NEW b \in Nat \ {0}, NEW j \in Nat, NEW m \in Nat
  PROVE  (b * m + j) \div b = m + (j \div b)
<1> DEFINE p == (b * m + j) \div b
           q == m + (j \div b)
<1>1. b * m \in Nat /\ b * m + j \in Nat /\ b \in Int
  OBVIOUS
<1>2. p \in Nat /\ b * p <= b * m + j /\ b * m + j < b * p + b
  BY <1>1, Quotient
<1>3. j \div b \in Nat /\ b * (j \div b) <= j /\ j < b * (j \div b) + b
  BY Quotient
<1>4. q \in Nat /\ b * q = b * m + b * (j \div b)
  BY <1>3
<1> HIDE DEF p, q
<1>5. b * p \in Int /\ b * q \in Int
  BY <1>1, <1>2, <1>4
<1>6. b * p < b * q + b /\ b * q < b * p + b
  BY <1>1, <1>2, <1>3, <1>4, <1>5
<1>7. p <= q /\ q <= p
  BY <1>2, <1>4, <1>6, MultiplesOrdered
<1>8. p = q
  BY <1>2, <1>4, <1>7
<1> QED
  BY <1>8 DEF p, q

(* A byte of the first m packets lies in one of them.                      *)
LEMMA QuotientBelow ==
  ASSUME NEW b \in Nat \ {0}, NEW j \in Nat, NEW m \in Nat, j < b * m
  PROVE  j \div b \in 0..(m - 1)
<1> DEFINE q == j \div b
<1>1. q \in Nat /\ b * q <= j
  BY Quotient
<1> HIDE DEF q
<1>2. b * q < b * (m - 1) + b
  <2>1. b * (m - 1) + b = b * m /\ b * q \in Int /\ b * m \in Int
    BY <1>1
  <2> QED
    BY <1>1, <2>1
<1>3. q <= m - 1
  BY <1>1, <1>2, MultiplesOrdered
<1> QED
  BY <1>1, <1>3 DEF q

(* Concatenation of bytes is associative.                                  *)
LEMMA BytesAssociate ==
  \A s, t, u \in Seq(Int) : (s \o t) \o u = s \o (t \o u)
BY SMTT(60), ConcatAssociative

(* The bytes of packets, one after the other.                              *)
Payload(g) == [i \in 1..(PacketBytes * Len(g)) |-> g[(i - 1) \div PacketBytes + 1]]

(* The payload of frames is a sequence of bytes, each that of its frame.   *)
LEMMA PayloadIsSeq ==
  ASSUME NEW g \in Seq(Nat)
  PROVE  /\ Payload(g) \in Seq(Int) /\ Len(Payload(g)) = PacketBytes * Len(g)
         /\ PacketBytes * Len(g) \in Nat
         /\ \A i \in 1..(PacketBytes * Len(g)) :
              /\ (i - 1) \div PacketBytes + 1 \in 1..Len(g)
              /\ Payload(g)[i] = g[(i - 1) \div PacketBytes + 1]
<1>1. PacketBytes * Len(g) \in Nat
  BY StagingBounds
<1>2. ASSUME NEW i \in 1..(PacketBytes * Len(g))
      PROVE  (i - 1) \div PacketBytes + 1 \in 1..Len(g)
  <2>1. i - 1 \in Nat /\ i - 1 < PacketBytes * Len(g) /\ Len(g) \in Nat
    BY <1>1
  <2>2. (i - 1) \div PacketBytes \in 0..(Len(g) - 1)
    BY <2>1, QuotientBelow, StagingBounds
  <2> QED
    BY <2>1, <2>2
<1>3. \A i \in 1..(PacketBytes * Len(g)) : g[(i - 1) \div PacketBytes + 1] \in Int
  BY <1>2
<1> QED
  BY <1>1, <1>2, <1>3 DEF Payload

(* A byte of a concatenation is one of the first part or of the second.    *)
LEMMA ByteAt ==
  ASSUME NEW s \in Seq(Int), NEW t \in Seq(Int), NEW i \in 1..(Len(s) + Len(t))
  PROVE  /\ i <= Len(s) => (s \o t)[i] = s[i]
         /\ ~(i <= Len(s)) => (s \o t)[i] = t[i - Len(s)]
BY ConcatProperties

(* An index past the first part, counted from its end.                     *)
LEMMA PastShift ==
  ASSUME NEW p \in Nat, NEW q \in Nat, NEW i \in 1..(p + q), i > p
  PROVE  i - p \in 1..q /\ (i - p) - 1 \in Nat /\ i - 1 = p + ((i - p) - 1)
OBVIOUS

(* The packets of two sequences of frames, one after the other.            *)
LEMMA PayloadConcat ==
  ASSUME NEW f \in Seq(Nat), NEW g \in Seq(Nat)
  PROVE  Payload(f \o g) = Payload(f) \o Payload(g)
<1> DEFINE B == PacketBytes
<1>1. /\ B \in Nat \ {0} /\ Len(f) \in Nat /\ Len(g) \in Nat
      /\ f \o g \in Seq(Nat) /\ Len(f \o g) = Len(f) + Len(g)
  BY StagingBounds, ConcatProperties
<1>2. /\ Payload(f) \in Seq(Int) /\ Len(Payload(f)) = B * Len(f) /\ B * Len(f) \in Nat
      /\ Payload(g) \in Seq(Int) /\ Len(Payload(g)) = B * Len(g) /\ B * Len(g) \in Nat
      /\ Payload(f \o g) \in Seq(Int) /\ Len(Payload(f \o g)) = B * Len(f \o g)
  BY <1>1, PayloadIsSeq
<1>3. B * Len(f \o g) = B * Len(f) + B * Len(g)
  BY <1>1
<1>4. /\ Payload(f) \o Payload(g) \in Seq(Int)
      /\ Len(Payload(f) \o Payload(g)) = B * Len(f \o g)
  <2>1. /\ Payload(f) \o Payload(g) \in Seq(Int)
        /\ Len(Payload(f) \o Payload(g)) = Len(Payload(f)) + Len(Payload(g))
    BY <1>2, ConcatProperties
  <2> QED
    BY <1>2, <1>3, <2>1
<1>5. ASSUME NEW i \in 1..(B * Len(f \o g))
      PROVE  Payload(f \o g)[i] = (Payload(f) \o Payload(g))[i]
  <2>1. /\ Payload(f \o g)[i] = (f \o g)[(i - 1) \div B + 1]
        /\ (i - 1) \div B + 1 \in 1..Len(f \o g)
    BY <1>1, PayloadIsSeq
  <2>2. CASE i <= B * Len(f)
    <3>1. i \in 1..(B * Len(f))
      BY <1>2, <1>3, <2>2
    <3>2. /\ Payload(f)[i] = f[(i - 1) \div B + 1] /\ (i - 1) \div B + 1 \in 1..Len(f)
      BY <3>1, PayloadIsSeq
    <3>3. (f \o g)[(i - 1) \div B + 1] = f[(i - 1) \div B + 1]
      BY <1>1, <2>1, <3>2, ConcatProperties
    <3>4. (Payload(f) \o Payload(g))[i] = Payload(f)[i]
      BY <1>2, <1>3, <3>1, ByteAt
    <3> QED
      BY <2>1, <3>2, <3>3, <3>4
  <2>3. CASE i > B * Len(f)
    <3> DEFINE j == i - B * Len(f)
    <3>1. j \in 1..(B * Len(g)) /\ j - 1 \in Nat /\ i - 1 = B * Len(f) + (j - 1)
      BY <1>2, <1>3, <2>3, PastShift
    <3>2. Payload(g)[j] = g[(j - 1) \div B + 1] /\ (j - 1) \div B + 1 \in 1..Len(g)
      BY <3>1, PayloadIsSeq
    <3>3. (i - 1) \div B = Len(f) + ((j - 1) \div B)
      BY <1>1, <3>1, QuotientShifts
    <3>4. (f \o g)[Len(f) + ((j - 1) \div B + 1)] = g[(j - 1) \div B + 1]
      BY <1>1, <3>2, ConcatProperties
    <3>5. (Payload(f) \o Payload(g))[i] = Payload(g)[j]
      <4>1. /\ i \in 1..(Len(Payload(f)) + Len(Payload(g)))
            /\ ~(i <= Len(Payload(f))) /\ i - Len(Payload(f)) = j
        BY <1>2, <1>3, <2>3
      <4>2. /\ Payload(f) \in Seq(Int) /\ Payload(g) \in Seq(Int)
        BY <1>2
      <4> HIDE DEF j
      <4>3. (Payload(f) \o Payload(g))[i] = Payload(g)[i - Len(Payload(f))]
        BY <4>1, <4>2, ByteAt
      <4> QED
        BY <4>1, <4>3
    <3>6. (i - 1) \div B + 1 = Len(f) + ((j - 1) \div B + 1)
      <4>1. (j - 1) \div B \in Int
        BY <1>1, <3>1, Quotient
      <4> QED
        BY <1>1, <3>3, <4>1
    <3> QED
      BY <2>1, <3>2, <3>4, <3>5, <3>6
  <2>4. i <= B * Len(f) \/ i > B * Len(f)
    BY <1>2
  <2> QED
    BY <2>2, <2>3, <2>4
<1> QED
  BY <1>2, <1>4, <1>5, SeqEqual

(* A body is the header and the payload.                                   *)
LEMMA BodyFacts ==
  ASSUME NEW f \in Seq(Nat)
  PROVE  /\ Body(f) = <<Header>> \o Payload(f) /\ Body(f) \in Seq(Int)
         /\ Append(Body(f), Trailer) \in Seq(Int)
         /\ Append(Body(f), Trailer) = Body(f) \o <<Trailer>>
<1>1. Body(f) = <<Header>> \o Payload(f)
  BY DEF Body, Payload
<1>2. Body(f) \in Seq(Int)
  BY <1>1, PayloadIsSeq, ByteFacts
<1>3. Trailer \in Int
  BY DEF Trailer
<1> QED
  BY <1>1, <1>2, <1>3, AppendProperties, AppendIsConcat

(* The body of no frames is the header.                                    *)
LEMMA EmptyBody == Body(<<>>) = <<Header>>
<1>1. Payload(<<>>) \in Seq(Int) /\ Len(Payload(<<>>)) = PacketBytes * 0
  BY PayloadIsSeq, SeqFacts
<1>2. Len(Payload(<<>>)) = 0
  BY <1>1, StagingBounds
<1>3. Payload(<<>>) = <<>>
  BY <1>1, <1>2, EmptySeq
<1>4. <<Header>> \o <<>> = <<Header>>
  BY ByteFacts, ConcatEmptySeq
<1> QED
  BY <1>3, <1>4, BodyFacts, SeqFacts

(* One packet more.                                                        *)
LEMMA BodyGrows ==
  ASSUME NEW f \in Seq(Nat), NEW n \in Nat
  PROVE  Body(Append(f, n)) = Body(f) \o Bytes(n)
<1>1. <<n>> \in Seq(Nat) /\ Append(f, n) = f \o <<n>> /\ Append(f, n) \in Seq(Nat)
  BY SeqFacts, AppendIsConcat
<1>2. Payload(<<n>>) = Bytes(n)
  <2>1. Bytes(n) \in Seq(Int) /\ Len(Bytes(n)) = PacketBytes
        /\ \A i \in 1..PacketBytes : Bytes(n)[i] = n
    BY StagingBounds DEF Bytes
  <2>2. Len(<<n>>) = 1 /\ PacketBytes * 1 = PacketBytes /\ <<n>>[1] = n
    BY StagingBounds
  <2>3. Payload(<<n>>) \in Seq(Int) /\ Len(Payload(<<n>>)) = PacketBytes
    BY <1>1, <2>2, PayloadIsSeq
  <2>4. ASSUME NEW i \in 1..PacketBytes PROVE Payload(<<n>>)[i] = Bytes(n)[i]
    <3>1. /\ (i - 1) \div PacketBytes + 1 \in 1..1
          /\ Payload(<<n>>)[i] = <<n>>[(i - 1) \div PacketBytes + 1]
      BY <1>1, <2>2, PayloadIsSeq
    <3>2. (i - 1) \div PacketBytes + 1 = 1
      BY <3>1
    <3> QED
      BY <2>1, <2>2, <3>1, <3>2
  <2> QED
    BY <2>1, <2>3, <2>4, SeqEqual
<1>3. Payload(Append(f, n)) = Payload(f) \o Bytes(n)
  BY <1>1, <1>2, PayloadConcat
<1>4. <<Header>> \in Seq(Int) /\ Payload(f) \in Seq(Int) /\ Bytes(n) \in Seq(Int)
  BY ByteFacts, PayloadIsSeq DEF Bytes
<1>5. (<<Header>> \o Payload(f)) \o Bytes(n) = <<Header>> \o (Payload(f) \o Bytes(n))
  BY <1>4, ConcatAssociative
<1> QED
  BY <1>1, <1>3, <1>5, BodyFacts

(* What was written is a prefix of what will have been.                    *)
LEMMA BodyIsPrefix ==
  ASSUME NEW f \in Seq(Nat), NEW g \in Seq(Nat)
  PROVE  \E rest \in Seq(Int) : Append(Body(f \o g), Trailer) = Body(f) \o rest
<1>1. f \o g \in Seq(Nat) /\ Payload(f) \in Seq(Int) /\ Payload(g) \in Seq(Int)
  BY SeqFacts, PayloadIsSeq
<1>2. <<Header>> \in Seq(Int) /\ <<Trailer>> \in Seq(Int)
  BY ByteFacts DEF Trailer
<1>3. Body(f \o g) = Body(f) \o Payload(g)
  <2>1. Body(f \o g) = <<Header>> \o (Payload(f) \o Payload(g))
    BY <1>1, BodyFacts, PayloadConcat
  <2>2. (<<Header>> \o Payload(f)) \o Payload(g) = <<Header>> \o (Payload(f) \o Payload(g))
    BY <1>1, <1>2, ConcatAssociative
  <2> QED
    BY <2>1, <2>2, BodyFacts
<1>4. Append(Body(f \o g), Trailer) = (Body(f) \o Payload(g)) \o <<Trailer>>
  BY <1>1, <1>3, BodyFacts
<1>5. (Body(f) \o Payload(g)) \o <<Trailer>> = Body(f) \o (Payload(g) \o <<Trailer>>)
  <2>1. Body(f) \in Seq(Int)
    BY BodyFacts
  <2> QED
    BY <1>1, <1>2, <2>1, BytesAssociate
<1>6. Payload(g) \o <<Trailer>> \in Seq(Int)
  BY <1>1, <1>2, ByteFacts
<1> QED
  BY <1>4, <1>5, <1>6
-----------------------------------------------------------------------------
(* While it is published, the destination holds a prefix of the whole.     *)
LEMMA PrefixFollows ==
  ASSUME CountInv, Streams, Trails, pc \in Writing
  PROVE  Prefix
<1>1. /\ out.dest \in Seq(Int) /\ out.pending \in Seq(Int) /\ out.muxed \in Seq(Int)
      /\ admitted \in Seq(Nat) /\ staged \in Seq(Nat) /\ out.held \in Nat \cup {None}
  BY DEF CountInv, SessionInv, Shapes, Outputs
<1>2. CASE Streaming
  <2>1. PICK done \in Seq(Nat) : StreamOf(done)
    BY <1>2 DEF Streams
  <2>2. Unwritten \in Seq(Nat)
    <3>1. CASE Fresh /\ out.held # None
      <4>1. <<out.held>> \in Seq(Nat)
        BY <1>1, <3>1, SeqFacts
      <4> QED
        BY <1>1, <3>1, <4>1, SeqFacts DEF Unwritten
    <3>2. CASE ~(Fresh /\ out.held # None)
      BY <1>1, <3>2, SeqFacts DEF Unwritten
    <3> QED
      BY <3>1, <3>2
  <2>3. PICK rest \in Seq(Int) : Whole = Body(done) \o rest
    BY <2>1, <2>2, BodyIsPrefix DEF Whole, StreamOf
  <2>4. Body(done) = out.dest \o (out.pending \o out.muxed)
    BY <1>1, <2>1, BytesAssociate DEF StreamOf
  <2>5. out.pending \o out.muxed \in Seq(Int)
    BY <1>1, ByteFacts
  <2>6. (out.dest \o (out.pending \o out.muxed)) \o rest
          = out.dest \o ((out.pending \o out.muxed) \o rest)
    BY ZenonT(60), <1>1, <2>5, BytesAssociate
  <2>7. (out.pending \o out.muxed) \o rest \in Seq(Int)
    BY <2>5, ByteFacts
  <2> QED
    BY <2>3, <2>4, <2>6, <2>7 DEF Prefix
<1>3. CASE pc = "write" /\ out.writing = "tail"
  BY <1>1, <1>3 DEF Trails, Prefix
<1>4. CASE pc \in {"patch", "flush"} \/ (pc = "write" /\ out.writing = "patch")
  <2>1. Whole = out.dest \o <<>>
    BY <1>1, <1>4, ConcatEmptySeq DEF Trails
  <2> QED
    BY <2>1, ByteFacts DEF Prefix
<1> QED
  BY <1>2, <1>3, <1>4 DEF CountInv, Counted, Writing, Streaming

(* A step that ends publication, or is none of it, leaves the destination. *)
LEMMA DestinationStays ==
  ASSUME OutputInv, CountInv', pc' \notin Writing, out'.dest = out.dest,
         admitted' = admitted \/ (out.dest = <<>> /\ report = None),
         report' = report \/ report'.stage # "Completed"
           \/ (out.dest = Whole /\ admitted' = admitted)
  PROVE  Streams' /\ Trails' /\ Prefix'
<1>1. Streams'
  BY DEF Streams, Streaming, Fresh, Writing
<1>2. Trails'
  BY DEF Trails, Writing, OutputInv, Whole
<1>3. Prefix'
  <2>1. CASE admitted' = admitted
    BY <2>1 DEF OutputInv, Prefix, Whole
  <2>2. CASE out.dest = <<>>
    <3>1. admitted' \in Seq(Nat)
      BY DEF CountInv, SessionInv, Shapes
    <3>2. Whole' \in Seq(Int)
      BY <3>1, BodyFacts DEF Whole
    <3>3. Whole' = <<>> \o Whole'
      BY <3>2, ConcatEmptySeq
    <3> QED
      BY <2>2, <3>2, <3>3 DEF Prefix
  <2> QED
    BY <2>1, <2>2
<1> QED
  BY <1>1, <1>2, <1>3

(* While it publishes, the operation has returned nothing.                 *)
LEMMA NothingReturned ==
  ASSUME CountInv, pc \in {"replay"} \cup Writing
  PROVE  report = None
BY DEF CountInv, SessionInv, Control, Counted, Finishing, Writing

(* A failure drops what was not written and leaves what was.               *)
LEMMA DropLeaves ==
  ASSUME OutputInv, CountInv', Drops, report' = report \/ report'.stage # "Completed"
  PROVE  Streams' /\ Trails' /\ Prefix'
<1>1. out'.dest = out.dest
  BY DEF Drops, OutputInv, CountInv, SessionInv, Shapes, Outputs
<1> QED
  BY <1>1, DestinationStays DEF Drops, Writing

(* A step before the publication writes nothing.                           *)
LEMMA BeforeLeaves ==
  ASSUME OutputInv, CountInv', Before
  PROVE  Streams' /\ Trails' /\ Prefix'
<1>1. CASE \E stage \in Troubles : Fail(stage)
  BY <1>1, DropLeaves DEF Fail, FailAfter, Troubles
<1>2. CASE Unwind
  BY <1>2, DropLeaves DEF Unwind
<1>3. CASE ~(\E stage \in Troubles : Fail(stage)) /\ ~Unwind
  <2>1. /\ UNCHANGED <<out, report>> /\ pc \notin Writing \cup {"idle"} /\ pc' \notin Writing
        /\ admitted' = admitted \/ op = "taken"
    BY <1>3, BeforeIsQuiet DEF OutputInv, CountInv
  <2>2. out.dest = <<>> /\ (op = "taken" => report = None)
    BY <2>1 DEF OutputInv, CountInv, Unpublished, Counted
  <2> QED
    BY <2>1, <2>2, DestinationStays
<1> QED
  BY <1>1, <1>2, <1>3

(* The header is all that is written before the first packet.              *)
LEMMA ReadsBackMoves ==
  ASSUME CountInv, NEW o \in Outputs, ReadsBack(o)
  PROVE  /\ (IF out'.held # None THEN <<out'.held>> ELSE <<>>) \o staged' = staged
         /\ out'.held = None => staged' = <<>>
         /\ out'.dest = o.dest /\ out'.pending = o.pending /\ out'.muxed = o.muxed
         /\ out'.writing = o.writing
<1>1. staged \in Seq(Nat)
  BY DEF CountInv, SessionInv, Shapes
<1>2. CASE staged = <<>>
  <2>1. staged' = <<>> /\ out' = [o EXCEPT !.held = None]
    BY <1>2 DEF ReadsBack
  <2>2. <<>> \o <<>> = <<>>
    BY SeqFacts
  <2> QED
    BY <1>2, <2>1, <2>2 DEF Outputs
<1>3. CASE staged # <<>>
  <2>1. staged' = Tail(staged) /\ out' = [o EXCEPT !.held = Head(staged)]
    BY <1>3 DEF ReadsBack
  <2>2. Head(staged) \in Nat /\ Head(staged) # None
    BY <1>1, <1>3, SeqFacts, NoneIsNothing
  <2>3. /\ out'.held = Head(staged) /\ out'.dest = o.dest /\ out'.pending = o.pending
        /\ out'.muxed = o.muxed /\ out'.writing = o.writing
    BY <2>1 DEF Outputs
  <2>4. <<Head(staged)>> \o Tail(staged) = staged
    <3>1. Append(<<>>, Head(staged)) \o Tail(staged) = <<>> \o staged
      BY <1>1, <1>3, StagedMoves, SeqFacts
    <3>2. Append(<<>>, Head(staged)) = <<>> \o <<Head(staged)>>
      BY <2>2, SeqFacts, AppendIsConcat
    <3>3. <<>> \o staged = staged /\ <<>> \o <<Head(staged)>> = <<Head(staged)>>
      BY <1>1, <2>2, SeqFacts
    <3> QED
      BY <3>1, <3>2, <3>3
  <2> QED
    BY <2>1, <2>2, <2>3, <2>4
<1> QED
  BY <1>2, <1>3

(* The start of the replay: nothing is written and all is in the store.    *)
LEMMA ReplayStreams ==
  ASSUME OutputInv, CountInv', Replay, ~Drops
  PROVE  Streams' /\ Trails'
<1> DEFINE o == [out EXCEPT !.writing = "header", !.pending = <<Header>>]
<1>1. pc = "replay" /\ ReadsBack(o) /\ pc' = "write" /\ Publishes
  BY DEF Replay, PublishFails, FailAfter
<1>2. /\ out \in Outputs /\ out.dest = <<>> /\ out.muxed = <<>> /\ staged = admitted
      /\ report = None /\ admitted \in Seq(Nat)
  BY <1>1, NothingReturned DEF OutputInv, CountInv, SessionInv, Shapes, EncoderKeeps,
      Unpublished, Writing
<1>3. o \in Outputs /\ o.dest = <<>> /\ o.pending = <<Header>> /\ o.muxed = <<>>
      /\ o.writing = "header"
  BY <1>2, ByteFacts DEF Outputs
<1> HIDE DEF o
<1>4. /\ (IF out'.held # None THEN <<out'.held>> ELSE <<>>) \o staged' = staged
      /\ out'.held = None => staged' = <<>>
      /\ out'.dest = <<>> /\ out'.pending = <<Header>> /\ out'.muxed = <<>>
      /\ out'.writing = "header"
  BY <1>1, <1>3, ReadsBackMoves DEF OutputInv
<1>5. StreamOf(<<>>)'
  <2>1. Unwritten' = admitted /\ admitted' = admitted
    BY <1>1, <1>2, <1>4 DEF Unwritten, Fresh, Publishes
  <2>2. <<>> \o admitted = admitted
    BY <1>2, SeqFacts
  <2>3. <<>> \o <<Header>> \o <<>> = <<Header>>
    BY ByteFacts, ConcatEmptySeq
  <2>4. Body(<<>>) = <<Header>>
    BY EmptyBody
  <2> QED
    BY <1>4, <2>1, <2>2, <2>3, <2>4 DEF StreamOf, Body
<1>6. \E done \in Seq(Nat) : StreamOf(done)'
  BY <1>5, SeqFacts
<1>7. Streams'
  BY <1>1, <1>4, <1>6 DEF Streams, Fresh
<1>8. Trails'
  BY <1>1, <1>2, <1>4 DEF Trails, Publishes
<1> QED
  BY <1>7, <1>8

(* The packet read back is the next one of the store.                      *)
LEMMA ReadBackStreams ==
  ASSUME OutputInv, CountInv', ReadBack, ~Drops
  PROVE  Streams' /\ Trails'
<1>1. pc = "read" /\ ReadsBack(out) /\ pc' = "mux" /\ Publishes
  BY DEF ReadBack, PublishFails, FailAfter
<1>2. out \in Outputs /\ staged \in Seq(Nat) /\ out.pending = <<>> /\ report = None
  BY <1>1, NothingReturned DEF OutputInv, CountInv, SessionInv, Shapes, Streams, Writing
<1>3. /\ (IF out'.held # None THEN <<out'.held>> ELSE <<>>) \o staged' = staged
      /\ out'.held = None => staged' = <<>>
      /\ out'.dest = out.dest /\ out'.pending = out.pending /\ out'.muxed = out.muxed
  BY <1>1, <1>2, ReadsBackMoves DEF OutputInv
<1>4. PICK done \in Seq(Nat) : StreamOf(done)
  BY <1>1 DEF OutputInv, Streams, Streaming
<1>5. Unwritten = staged
  BY <1>1, <1>2, SeqFacts DEF Unwritten, Fresh
<1>6. Unwritten' = staged /\ admitted' = admitted
  BY <1>1, <1>3 DEF Unwritten, Fresh, Publishes
<1>7. StreamOf(done)'
  BY <1>3, <1>4, <1>5, <1>6 DEF StreamOf, Body
<1>8. Streams'
  BY <1>1, <1>2, <1>3, <1>7 DEF Streams, Fresh
<1>9. Trails'
  BY <1>1, <1>2 DEF Trails, Publishes
<1> QED
  BY <1>8, <1>9

(* The bytes move from what is pending to the destination, in order.       *)
LEMMA WriteStreams ==
  ASSUME OutputInv, CountInv', Write, ~Drops
  PROVE  Streams' /\ Trails'
<1>1. pc = "write" /\ pc' = pc /\ staged' = staged /\ Publishes
  BY DEF Write, PublishFails, FailAfter
<1>2. PICK n \in 1..Len(out.pending) :
        out' = [Counts(out, SubSeq(out.pending, 1, n))
                  EXCEPT !.pending = SubSeq(@, n + 1, Len(@))]
  BY DEF Write, PublishFails, FailAfter
<1>3. /\ out \in Outputs /\ out.pending \in Seq(Int) /\ out.dest \in Seq(Int)
      /\ out.muxed \in Seq(Int) /\ report = None
  BY <1>1, NothingReturned DEF OutputInv, CountInv, SessionInv, Shapes, Outputs, Writing
<1> DEFINE a == SubSeq(out.pending, 1, n)
           b == SubSeq(out.pending, n + 1, Len(out.pending))
<1>4. a \in Seq(Int) /\ b \in Seq(Int) /\ out.pending = a \o b
  BY <1>3, TakeFacts
<1>5. /\ out'.pending = b /\ out'.held = out.held /\ out'.muxed = out.muxed
      /\ out'.writing = out.writing
      /\ out.writing # "patch" => out'.dest = out.dest \o a
      /\ out.writing = "patch" => out'.dest = out.dest
  BY ZenonT(60), <1>2, <1>3, WriteOutcome
<1> HIDE DEF a, b
<1>6. out.writing # "patch" => out'.dest \o out'.pending = out.dest \o out.pending
  <2>1. out.dest \o (a \o b) = (out.dest \o a) \o b
    BY <1>3, <1>4, BytesAssociate
  <2> QED
    BY <1>4, <1>5, <2>1
<1>7. /\ Streaming' <=> Streaming
      /\ Fresh' <=> Fresh
      /\ Unwritten' = Unwritten
  BY <1>1, <1>5 DEF Streaming, Fresh, Unwritten
<1>8. Streams'
  <2>1. ASSUME Streaming, NEW done \in Seq(Nat), StreamOf(done)
        PROVE  StreamOf(done)'
    BY <1>1, <1>5, <1>6, <1>7, <2>1 DEF StreamOf, Streaming, Publishes, Body
  <2>2. Streaming' => \E done \in Seq(Nat) : StreamOf(done)'
    BY <1>7, <2>1 DEF OutputInv, Streams
  <2>3. Fresh' /\ out'.held = None => staged' = <<>>
    BY <1>1, <1>5, <1>7 DEF OutputInv, Streams
  <2> QED
    BY <1>1, <2>2, <2>3 DEF Streams
<1>9. Trails'
  <2>1. Whole' = Whole /\ report' = None
    BY <1>1, <1>3 DEF Whole, Body, Publishes
  <2>2. out.writing = "tail" => out'.dest \o out'.pending = Whole /\ out'.muxed = <<>>
    BY <1>1, <1>5, <1>6 DEF OutputInv, Trails
  <2>3. out.writing = "patch" => out'.dest = Whole
    BY <1>1, <1>5 DEF OutputInv, Trails
  <2> QED
    BY <1>1, <1>5, <2>1, <2>2, <2>3 DEF Trails
<1> QED
  BY <1>8, <1>9

(* The end of a write: what was muxed is written.                          *)
LEMMA WrittenStreams ==
  ASSUME OutputInv, CountInv', Written, ~Drops
  PROVE  Streams' /\ Trails'
<1>1. pc = "write" /\ out.pending = <<>> /\ staged' = staged /\ Publishes
  BY DEF Written, PublishFails, FailAfter
<1>2. /\ out \in Outputs /\ report = None /\ out.dest \in Seq(Int)
  BY <1>1, NothingReturned DEF OutputInv, CountInv, SessionInv, Shapes, Outputs, Writing
<1>3. Whole' = Whole /\ report' = None /\ admitted' = admitted
  BY <1>1, <1>2 DEF Whole, Body, Publishes
<1>4. CASE out.writing \in {"header", "packet"}
  <2>1. /\ out' = [out EXCEPT !.emitted = out.stats]
        /\ pc' = IF out.writing = "packet" THEN "read" ELSE "mux"
    BY <1>4 DEF Written, PublishFails, FailAfter
  <2>2. /\ out'.dest = out.dest /\ out'.pending = <<>> /\ out'.muxed = out.muxed
        /\ out'.held = out.held /\ out'.writing = out.writing
    BY <1>1, <1>2, <2>1 DEF Outputs
  <2>3. (Fresh' <=> Fresh) /\ Unwritten' = Unwritten
    BY <1>1, <1>4, <2>1, <2>2 DEF Fresh, Unwritten
  <2>4. PICK done \in Seq(Nat) : StreamOf(done)
    BY <1>1, <1>4 DEF OutputInv, Streams, Streaming
  <2>5. StreamOf(done)'
    BY <1>1, <1>3, <2>2, <2>3, <2>4 DEF StreamOf, Body
  <2>6. Streams'
    BY <1>1, <2>2, <2>3, <2>5 DEF Streams, OutputInv
  <2>7. Trails'
    BY <1>3, <2>1 DEF Trails
  <2> QED
    BY <2>6, <2>7
<1>5. CASE out.writing \in {"tail", "patch"}
  <2>1. out' = out /\ pc' = IF out.writing = "tail" THEN "patch" ELSE "flush"
    BY <1>5 DEF Written, PublishFails, FailAfter
  <2>2. out.dest = Whole
    <3>1. out.dest \o <<>> = out.dest
      BY <1>2, ConcatEmptySeq
    <3> QED
      BY <1>1, <1>5, <3>1 DEF OutputInv, Trails
  <2>3. Streams'
    BY <2>1 DEF Streams, Streaming, Fresh
  <2>4. Trails'
    BY <1>3, <2>1, <2>2 DEF Trails
  <2> QED
    BY <2>3, <2>4
<1> QED
  BY <1>1, <1>4, <1>5 DEF OutputInv, CountInv, Counted

(* A packet is written, or held, after all that was written before it.     *)
LEMMA MuxPacketStreams ==
  ASSUME OutputInv, CountInv', MuxPacket, ~Drops
  PROVE  Streams' /\ Trails'
<1>1. /\ out \in Outputs /\ out.held \in Nat /\ staged' = staged /\ Publishes
      /\ pc = "mux" /\ pc' = "write" /\ out' \in {Streamed(out), Held(out)}
      /\ out.muxed \o Bytes(out.held) \in Seq(Int)
  BY MuxPacketOutcome DEF OutputInv, CountInv
<1>2. /\ out.pending = <<>> /\ out.dest \in Seq(Int) /\ out.muxed \in Seq(Int)
      /\ staged \in Seq(Nat) /\ report = None
  BY <1>1, NothingReturned DEF OutputInv, CountInv, SessionInv, Shapes, Outputs, Writing, Streams
<1>3. Bytes(out.held) \in Seq(Int)
  BY <1>1, ByteFacts DEF Bytes
<1>4. PICK done \in Seq(Nat) : StreamOf(done)
  BY <1>1 DEF OutputInv, Streams, Streaming
<1>5. out'.writing = "packet" /\ out'.dest = out.dest
  BY <1>1 DEF Streamed, Held, Outputs
<1>more. PICK more \in Seq(Nat) : more = Append(done, out.held)
  BY <1>1, SeqFacts
<1>6. admitted = more \o staged
  <2>1. admitted = done \o (<<out.held>> \o staged)
    BY <1>1, <1>4, NoneIsNothing DEF StreamOf, Unwritten, Fresh
  <2>2. <<out.held>> \in Seq(Nat) /\ more = done \o <<out.held>>
    BY <1>more, <1>1, SeqFacts, AppendIsConcat
  <2>3. (done \o <<out.held>>) \o staged = done \o (<<out.held>> \o staged)
    BY <1>2, <2>2, ConcatAssociative
  <2> QED
    BY <2>1, <2>2, <2>3
<1>7. Unwritten' = staged
  BY <1>1, <1>2, <1>5, SeqFacts DEF Unwritten, Fresh
<1>8. out'.dest \o out'.pending \o out'.muxed = Body(more)
  <2>1. out.dest \o <<>> = out.dest
    BY <1>2, ConcatEmptySeq
  <2>2. (out.dest \o out.muxed) \o Bytes(out.held) = Body(more)
    BY <1>more, <1>1, <1>2, <1>4, <2>1, BodyGrows DEF StreamOf
  <2>3. (out.dest \o out.muxed) \o Bytes(out.held) = out.dest \o (out.muxed \o Bytes(out.held))
    BY <1>2, <1>3, BytesAssociate
  <2>4. out.dest \o (out.muxed \o Bytes(out.held)) \in Seq(Int)
    BY <1>1, <1>2, ByteFacts
  <2>5. CASE out' = Streamed(out)
    <3>1. out'.pending = out.muxed \o Bytes(out.held) /\ out'.muxed = <<>>
      BY <1>1, <2>5 DEF Streamed, Outputs
    <3>2. (out.dest \o (out.muxed \o Bytes(out.held))) \o <<>>
            = out.dest \o (out.muxed \o Bytes(out.held))
      BY <2>4, ConcatEmptySeq
    <3> QED
      BY <1>5, <2>2, <2>3, <3>1, <3>2
  <2>6. CASE out' = Held(out)
    <3>1. out'.pending = <<>> /\ out'.muxed = out.muxed \o Bytes(out.held)
      BY <1>1, <2>6 DEF Held, Outputs
    <3> QED
      BY <1>5, <2>1, <2>2, <2>3, <3>1
  <2> QED
    BY <1>1, <2>5, <2>6
<1>9. StreamOf(more)'
  BY <1>1, <1>6, <1>7, <1>8 DEF StreamOf, Publishes, Body
<1>10. Streams'
  BY <1>1, <1>5, <1>6, <1>9 DEF Streams, Fresh
<1>11. Trails'
  BY <1>1, <1>2, <1>5 DEF Trails, Publishes
<1> QED
  BY <1>10, <1>11

(* Nothing is left to write but the trailer and what the muxer holds.      *)
LEMMA MuxFinishStreams ==
  ASSUME OutputInv, CountInv', MuxFinish, ~Drops
  PROVE  Streams' /\ Trails'
<1>1. /\ pc = "mux" /\ pc' = "write" /\ out.held = None /\ staged' = staged /\ Publishes
      /\ out' = [out EXCEPT !.writing = "tail", !.muxed = <<>>,
                            !.pending = Append(out.muxed, Trailer)]
  BY DEF MuxFinish, PublishFails, FailAfter
<1>2. /\ out \in Outputs /\ out.pending = <<>> /\ out.dest \in Seq(Int)
      /\ out.muxed \in Seq(Int) /\ staged = <<>> /\ report = None
  BY <1>1, NothingReturned DEF OutputInv, CountInv, SessionInv, Shapes, Outputs, Writing,
      Streams, Fresh
<1>3. PICK done \in Seq(Nat) : StreamOf(done)
  BY <1>1 DEF OutputInv, Streams, Streaming
<1>4. admitted = done
  <2>1. Unwritten = <<>>
    BY <1>1, <1>2, SeqFacts DEF Unwritten
  <2>2. done \o <<>> = done
    BY SeqFacts
  <2> QED
    BY <1>3, <2>1, <2>2 DEF StreamOf
<1>5. /\ out'.writing = "tail" /\ out'.muxed = <<>> /\ out'.dest = out.dest
      /\ out'.pending = Append(out.muxed, Trailer)
  BY <1>1, <1>2 DEF Outputs
<1>6. out.dest \o Append(out.muxed, Trailer) = Whole
  <2>1. Trailer \in Int /\ <<Trailer>> \in Seq(Int)
    BY DEF Trailer
  <2>2. Append(out.muxed, Trailer) = out.muxed \o <<Trailer>>
    BY <1>2, <2>1, AppendIsConcat
  <2>3. out.dest \o (out.muxed \o <<Trailer>>) = (out.dest \o out.muxed) \o <<Trailer>>
    BY <1>2, <2>1, BytesAssociate
  <2>4. out.dest \o <<>> = out.dest
    BY <1>2, ConcatEmptySeq
  <2>5. out.dest \o out.muxed = Body(admitted)
    BY <1>2, <1>3, <1>4, <2>4 DEF StreamOf
  <2>6. Append(Body(admitted), Trailer) = Body(admitted) \o <<Trailer>>
    BY <1>4, BodyFacts
  <2> QED
    BY <2>2, <2>3, <2>5, <2>6 DEF Whole
<1>7. Streams'
  BY <1>1, <1>5 DEF Streams, Streaming, Fresh
<1>8. Trails'
  BY <1>1, <1>2, <1>5, <1>6 DEF Trails, Publishes, Whole, Body
<1> QED
  BY <1>7, <1>8

(* Patching rewrites the header in place.                                  *)
LEMMA PatchStreams ==
  ASSUME OutputInv, CountInv', Patch, ~Drops
  PROVE  Streams' /\ Trails'
<1>1. /\ pc = "patch" /\ Publishes
      /\ \/ pc' = "flush" /\ out' = out
         \/ pc' = "write" /\ out' = [out EXCEPT !.writing = "patch", !.pending = <<Header>>]
  BY DEF Patch, PublishFails, FailAfter
<1>2. out \in Outputs /\ report = None /\ out.dest = Whole
  BY <1>1, NothingReturned DEF OutputInv, CountInv, SessionInv, Shapes, Writing, Trails
<1>3. /\ out'.dest = out.dest /\ pc' \in {"flush", "write"}
      /\ pc' = "write" => out'.writing = "patch"
  BY <1>1, <1>2 DEF Outputs
<1>4. Streams'
  BY <1>3 DEF Streams, Streaming, Fresh
<1>5. Trails'
  BY <1>1, <1>2, <1>3 DEF Trails, Publishes, Whole, Body
<1> QED
  BY <1>4, <1>5

(* The final flush writes nothing more.                                    *)
LEMMA FlushLeaves ==
  ASSUME OutputInv, CountInv', Flush
  PROVE  Streams' /\ Trails' /\ Prefix'
<1>1. CASE PublishFails(out.stats)
  BY <1>1, DropLeaves DEF PublishFails, FailAfter
<1>2. CASE ~PublishFails(out.stats)
  <2>1. pc = "flush" /\ pc' = "idle" /\ out' = out /\ admitted' = admitted
    BY <1>2 DEF Flush
  <2>2. out.dest = Whole
    BY <2>1 DEF OutputInv, Trails
  <2> QED
    BY <2>1, <2>2, DestinationStays DEF Writing
<1> QED
  BY <1>1, <1>2

(* Every step of the publication keeps the destination a prefix of the     *)
(* whole.                                                                  *)
LEMMA PublicationLeaves ==
  ASSUME OutputInv, CountInv',
         Replay \/ Write \/ Written \/ ReadBack \/ MuxPacket \/ MuxFinish \/ Patch
  PROVE  Streams' /\ Trails' /\ Prefix'
<1>1. CASE Drops
  <2>1. report' = report \/ report'.stage # "Completed"
    <3>1. CASE \E inner : PublishFails(inner)
      <4>1. report'.stage = "Publish"
        BY <3>1 DEF PublishFails, FailAfter
      <4> QED
        BY <4>1
    <3>2. CASE ~\E inner : PublishFails(inner)
      BY <3>2, Zenon DEF Replay, Write, Written, ReadBack, MuxPacket, MuxFinish, Patch, Publishes
    <3> QED
      BY <3>1, <3>2
  <2> QED
    BY <1>1, <2>1, DropLeaves
<1>2. CASE ~Drops
  <2>1. Streams' /\ Trails'
    BY <1>2, ReplayStreams, WriteStreams, WrittenStreams, ReadBackStreams, MuxPacketStreams,
       MuxFinishStreams, PatchStreams
  <2>2. pc' \in Writing
    BY <1>2 DEF Replay, Write, Written, ReadBack, MuxPacket, MuxFinish, Patch, PublishFails,
        FailAfter, Writing
  <2>3. CountInv' /\ Streams' /\ Trails' /\ (pc \in Writing)' => Prefix'
    BY PrefixFollows, PTL
  <2> QED
    BY <2>1, <2>2, <2>3
<1> QED
  BY <1>1, <1>2

(* Calls from outside write nothing.                                       *)
LEMMA CallsLeave ==
  ASSUME OutputInv, CountInv', Finish \/ ChangePolicy \/ Decode
  PROVE  Streams' /\ Trails' /\ Prefix'
<1>1. CASE Finish
  <2>1. out' = out /\ admitted' = admitted /\ pc' \notin Writing
        /\ (report' = report \/ report'.stage # "Completed")
    BY <1>1 DEF Finish, Writing
  <2> QED
    BY <2>1, DestinationStays
<1>2. CASE ChangePolicy
  BY <1>2, DestinationStays DEF ChangePolicy, Writing
<1>3. CASE Decode
  <2>1. UNCHANGED <<admitted, out, report>> /\ pc' \notin Writing
    BY <1>3 DEF Decode, Offer, PumpSend, PumpFull, PumpDrain, DrainDecoder, Configure, Reset,
        Pumps, Push, Encoding, Writing
  <2> QED
    BY <2>1, DestinationStays
<1> QED
  BY <1>1, <1>2, <1>3

(* Every step keeps the invariant.                                         *)
LEMMA StepOutputInv == ASSUME OutputInv, [Next]_vars PROVE OutputInv'
<1>1. CountInv'
  BY StepCountInv DEF OutputInv
<1>2. CASE Next
  <2>1. Streams' /\ Trails' /\ Prefix'
    BY <1>1, <1>2, BeforeLeaves, FlushLeaves, PublicationLeaves, CallsLeave
       DEF Next, Encode, EncodeNext, Before
  <2> QED
    BY <1>1, <2>1 DEF OutputInv
<1>3. CASE UNCHANGED vars
  BY <1>1, <1>3 DEF OutputInv, Streams, Trails, Prefix, Streaming, StreamOf, Unwritten, Fresh,
      Whole, Body, vars, stagedVars
<1> QED
  BY <1>2, <1>3

(***************************************************************************)
(* The destination is never touched while the encoder is alive; it always  *)
(* holds a prefix of the header, the packets of the accepted frames in     *)
(* order and the trailer, and all of it once the operation says it has     *)
(* completed, whether the muxer streamed its packets or held them, whatever *)
(* the writer took of each call, wherever it failed                        *)
(* (staged.rs:1-8, 425-486).                                               *)
(***************************************************************************)
THEOREM OutputIsWhole == Spec => []OutputFollowsEncoder
<1>1. Init => OutputInv
  <2> SUFFICES ASSUME Init PROVE OutputInv
    OBVIOUS
  <2>1. CountInv
    BY InitCountInv
  <2>2. out.dest = <<>> /\ pc = "idle" /\ report = None /\ admitted = <<>>
    BY DEF Init, StagedInit, NoOutput
  <2>3. Whole \in Seq(Int)
    BY <2>2, SeqFacts, BodyFacts DEF Whole
  <2>4. Whole = out.dest \o Whole
    BY <2>2, <2>3, ConcatEmptySeq
  <2>5. Prefix
    BY <2>3, <2>4 DEF Prefix
  <2> QED
    BY <2>1, <2>2, <2>5 DEF OutputInv, Streams, Trails, Streaming, Fresh
<1>2. ASSUME OutputInv PROVE OutputFollowsEncoder
  <2>1. out.dest \in Seq(Int)
    BY <1>2 DEF OutputInv, CountInv, SessionInv, Shapes, Outputs
  <2>2. enc # None => out.dest = <<>>
    BY <1>2 DEF OutputInv, CountInv, SessionInv, Control, Unpublished, Finishing, Writing
  <2>3. Len(out.dest) <= Len(Whole) /\ out.dest = SubSeq(Whole, 1, Len(out.dest))
    <3>1. PICK rest \in Seq(Int) : Whole = out.dest \o rest
      BY <1>2 DEF OutputInv, Prefix
    <3>2. Len(out.dest \o rest) = Len(out.dest) + Len(rest) /\ Len(rest) \in Nat
          /\ Len(out.dest) \in Nat
      BY <2>1, ConcatProperties, LenProperties
    <3>3. Len(out.dest) <= Len(Whole)
      BY <3>1, <3>2
    <3>4. out.dest = SubSeq(out.dest \o rest, 1, Len(out.dest))
      <4>1. CASE out.dest = <<>>
        <5>1. Len(out.dest) = 0
          BY <4>1
        <5>2. SubSeq(out.dest \o rest, 1, 0) = <<>>
          BY SubSeqEmpty
        <5> QED
          BY <4>1, <5>1, <5>2
      <4>2. CASE out.dest # <<>>
        <5>1. 1 \in 1..Len(out.dest) /\ Len(out.dest) \in 1..Len(out.dest)
          BY <2>1, <4>2, EmptySeq
        <5>2. SubSeq(out.dest \o rest, 1, Len(out.dest)) = SubSeq(out.dest, 1, Len(out.dest))
          BY <2>1, <5>1, SubSeqOfConcat1
        <5> QED
          BY <2>1, <5>2, SubSeqFull
      <4> QED
        BY <4>1, <4>2
    <3> QED
      BY <3>1, <3>3, <3>4
  <2>4. report # None /\ report.stage = "Completed" => out.dest = Whole
    BY <1>2 DEF OutputInv, Trails
  <2> QED
    BY <2>2, <2>3, <2>4 DEF OutputFollowsEncoder
<1> QED
  BY <1>1, <1>2, StepOutputInv, PTL DEF Spec
=============================================================================
