---------------------------- MODULE MediaSession -----------------------------
(***************************************************************************)
(* Codec sessions of zencodec-media (session.rs): a native session behind  *)
(* FusedDecoder or FusedEncoder, as operators on a record.  A call yields  *)
(* a set of outcomes [s, r, out]: the session after it, what it answered   *)
(* and the item it gave, if any.                                           *)
(*                                                                         *)
(* The native session is any that keeps its items in order: it takes one   *)
(* per accepted send, gives one per Ready, and may fail or unwind at any   *)
(* call, which leaves it dirty: what it holds is no longer to be trusted   *)
(* until a reset succeeds.  It may break the answers it promised.          *)
(***************************************************************************)
EXTENDS Integers, Sequences

CONSTANTS
  Cap,    \* items a native session holds
  None

ASSUME CapIsPositive == Cap \in Nat \ {0}

\* The values a fused session takes.
Sessions == [failed : BOOLEAN, dirty : BOOLEAN, misused : BOOLEAN,
             queue : Seq(Nat), ended : BOOLEAN]

ASSUME NoneIsNothing == None \notin Nat \cup Sessions

\* misused: a native call was made while dirty.
NewSession == [failed |-> FALSE, dirty |-> FALSE, misused |-> FALSE,
               queue |-> <<>>, ended |-> FALSE]

Answer(s, r) == [s |-> s, r |-> r, out |-> None]

\* An error returned, or an unwind the application catches.
Breaks(s) == {Answer([s EXCEPT !.dirty = TRUE], r) : r \in {"error", "unwound"}}

NativeSend(s, item) ==
  Breaks(s) \cup {Answer(s, "pending")}
    \cup IF Len(s.queue) < Cap /\ ~s.ended
         THEN {Answer([s EXCEPT !.queue = Append(@, item)], "accepted")}
         ELSE {}

\* The end comes only once everything is drained.
NativeReceive(s) ==
  Breaks(s) \cup {Answer(s, "need")}
    \cup IF s.queue = <<>>
         THEN {Answer(s, "end")}
         ELSE {[s |-> [s EXCEPT !.queue = Tail(@)], r |-> "ready",
                out |-> Head(s.queue)]}

NativeEnd(s)       == Breaks(s) \cup {Answer([s EXCEPT !.ended = TRUE], "ok")}
NativeConfigure(s) == Breaks(s) \cup {Answer(s, "ok")}

\* Queued input, output and references are discarded.
NativeReset(s) ==
  Breaks(s)
    \cup {Answer([s EXCEPT !.queue = <<>>, !.ended = FALSE, !.dirty = FALSE], "ok")}

Failing == {"error", "unwound", "refused"}

Made(s, o) == [o EXCEPT !.s.misused = s.misused \/ s.dirty]

(***************************************************************************)
(* guard: refuse after a failure; fail before entering the pulse or the    *)
(* native session, and reopen only when that returns success.              *)
(***************************************************************************)
Settle(o) == [o EXCEPT !.s.failed = o.r \in Failing]

\* end_input has no pulse to check.
GuardEnd(s) ==
  IF s.failed THEN {Answer(s, "refused")} ELSE {Settle(Made(s, o)) : o \in NativeEnd(s)}

\* natives are the outcomes of the native call, should it be made.
Guard(s, natives) ==
  IF s.failed
  THEN {Answer(s, "refused")}
  ELSE {Answer([s EXCEPT !.failed = TRUE], "error")}   \* the pulse tripped
         \cup {Settle(Made(s, o)) : o \in natives}

FusedResetAlways(s) ==
  {[o EXCEPT !.s.failed = FALSE] : o \in NativeReset(s)}

\* A reset is allowed after a failure, and reopens only if it succeeds.
FusedReset(s) == {Settle(o) : o \in NativeReset(s)}
==============================================================================
