-------------------------------- MODULE Fused --------------------------------
(***************************************************************************)
(* Fused (src/src/traits/incremental.rs) around a native decoder, and the  *)
(* GuardedSink (control.rs) it hands to it.  The native decoder is foreign *)
(* code that may break every rule: it writes before adoption, with other   *)
(* geometry, after a refusal; it swallows the sink's errors; it succeeds,  *)
(* fails or panics when it likes; it returns a boundary it returned        *)
(* before.  The caller may catch the panic and call again, with any call.  *)
(*                                                                         *)
(* A call runs from `idle` to `idle`; in between, `native` or `resuming`,  *)
(* control is with the native decoder.  DecodeBoundary has private fields: *)
(* a native decoder can return a fresh one or a copy, but not forge one.   *)
(***************************************************************************)
EXTENDS Integers, Sequences

CONSTANTS
  Facts,      (* InterpretationFacts: [width, height, desc, state,         *)
              (* unavailable]                                              *)
  Outputs,    (* OutputInfo: [width, height, desc]                         *)
  SinkCalls,  (* calls of the sink: [what, width, y, rows, desc]           *)
  None,       (* Option::None                                              *)
  MaxId       (* usize::MAX: boundary identities are 1 .. MaxId - 1        *)

ASSUME FusedAssumption ==
  /\ None \notin Facts /\ None \notin Outputs
  /\ None \notin [id : Nat, facts : Facts]
  /\ \A f \in Facts : f.height \in Nat
  /\ \A c \in SinkCalls :
       /\ c.what \in {"begin", "rows", "finish"}
       /\ c.y \in Nat /\ c.rows \in Nat
       /\ c.what # "rows" => c.y = 0
  /\ MaxId \in Nat \ {0}

Actions == {"ContinueReading", "AdoptInterpretation"}

VARIABLES
  controlled,      (* Fused.controlled                                     *)
  state,           (* FusedState                                           *)
  boundary,        (* the boundary in Suspended, or taken out by resume    *)
  result,          (* the OutputInfo in Done                               *)
  interpretation,  (* the facts adopted                                    *)
  detailsTaken,    (* Fused.details_taken                                  *)
  refused,         (* GuardedSink.refused                                  *)
  sinkError,       (* GuardedSink.sink_error is retained                   *)
  pc,              (* idle, native or resuming                             *)
  call,            (* the call in progress: step, controlled, or the reply *)
  issued,          (* facts of the boundaries issued, by identity          *)
  (* history *)
  made,            (* controlled from the start (Fused::controlled)        *)
  answer,          (* what the caller's last step or resume returned       *)
  ended,           (* a call returned an error or Done, or unwound         *)
  effects,         (* the calls that reached the sink, and rows reported   *)
  hurt,            (* a call of a guarded sink failed or was refused       *)
  asked            (* times the native decoder was asked for its details   *)

guard == <<refused, sinkError>>
history == <<made, answer, ended, effects, hurt, asked>>
vars == <<controlled, state, boundary, result, interpretation, detailsTaken,
          guard, pc, call, issued, history>>

Call(kind, id, action) == [kind |-> kind, id |-> id, action |-> action]

NoCall == Call("none", 0, "none")

Init ==
  /\ made \in BOOLEAN /\ controlled = made
  /\ state = "Running" /\ boundary = None /\ result = None
  /\ interpretation = None /\ detailsTaken = FALSE
  /\ refused = "none" /\ sinkError = FALSE
  /\ pc = "idle" /\ call = NoCall /\ issued = <<>>
  /\ answer = "none" /\ ended = FALSE
  /\ effects = {} /\ hurt = FALSE /\ asked = 0

(* BoundaryAction::permits.                                                *)
Permits(action, f) ==
  \/ action = "ContinueReading" /\ f.state \in {"Pending", "Provisional"}
  \/ /\ action = "AdoptInterpretation" /\ f.state = "Final"
     /\ f.desc # None /\ ~f.unavailable

-----------------------------------------------------------------------------
(* How a call begins and ends.                                             *)

Errors == {"Finished", "Cancelled", "Codec", "Sink", "panic",
           "UnhandledBoundary", "InvalidReply", "OutputBeforeInterpretation",
           "InconsistentFacts", "FinalInterpretationChanged"}

(* The call returns a, in state s; the guard goes with it.                 *)
Leave(s, a) ==
  /\ pc' = "idle" /\ call' = NoCall
  /\ state' = s /\ answer' = a
  /\ ended' = (ended \/ a \in Errors \cup {"Done"})
  /\ refused' = "none" /\ sinkError' = FALSE

(* ... with the boundary and the result that s carries left behind.        *)
Goes(s, a) ==
  /\ Leave(s, a)
  /\ boundary' = IF s = "Suspended" THEN boundary ELSE None
  /\ result' = IF s = "Done" THEN result ELSE None

Fails(error) == Goes("Failed", error)

(* Seeded fault: a native call is made in the state it was called in.      *)
EnterInState(where, c) ==
  /\ pc' = where /\ call' = c /\ answer' = "none"
  /\ UNCHANGED <<state, boundary, result, guard, ended>>

(* Control passes to the native decoder; a panic there finds Failed.       *)
Enter(where, c) ==
  /\ pc' = where /\ call' = c /\ answer' = "none"
  /\ state' = "Failed"
  /\ UNCHANGED <<boundary, result, guard, ended>>

Keep == UNCHANGED <<interpretation, detailsTaken, issued, made, effects, hurt,
                    asked>>

-----------------------------------------------------------------------------
(* The caller.                                                             *)

(* step of a decoder that is done or failed.                               *)
StepEnded ==
  /\ pc = "idle"
  /\ \/ state = "Done" /\ Goes("Done", "Done")
     \/ state = "Failed" /\ Fails("Finished")
  /\ UNCHANGED controlled /\ Keep

(* step of a controlled decoder, or at a boundary.                         *)
StepUnhandled ==
  /\ pc = "idle" /\ \/ state = "Suspended"
                    \/ state = "Running" /\ controlled
  /\ Fails("UnhandledBoundary")
  /\ UNCHANGED controlled /\ Keep

Step ==
  /\ pc = "idle" /\ state = "Running" /\ ~controlled
  /\ Fails("Cancelled") \/ Enter("native", Call("step", 0, "none"))
  /\ UNCHANGED controlled /\ Keep

(* step_controlled: an outstanding boundary is answered again.             *)
StepControlled ==
  /\ pc = "idle" /\ controlled' = TRUE
  /\ \/ state = "Done" /\ Goes("Done", "Done")
     \/ state = "Failed" /\ Fails("Finished")
     \/ state \in {"Running", "Suspended"} /\ Fails("Cancelled")
     \/ state = "Suspended" /\ Goes("Suspended", "Suspended")
     \/ state = "Running" /\ Enter("native", Call("controlled", 0, "none"))
  /\ Keep

(* Seeded fault: a reply is not compared with the boundary's identity.     *)
ReplyFitsAny(id, action) == Permits(action, boundary.facts)

ReplyFits(id, action) == boundary.id = id /\ Permits(action, boundary.facts)

(* resume takes the boundary out: only the reply that fits it goes on.     *)
Resume(id, action) ==
  /\ pc = "idle"
  /\ IF state # "Suspended" THEN Fails("Finished")
     ELSE \/ Fails("Cancelled")
          \/ IF ReplyFits(id, action)
             THEN Enter("resuming", Call("resume", id, action))
             ELSE Fails("InvalidReply")
  /\ UNCHANGED controlled /\ Keep

(* Seeded fault: marked only when the native decoder had details.          *)
TakeDetailsIfAny ==
  /\ pc = "idle" /\ state = "Done" /\ ~detailsTaken
  /\ detailsTaken' \in BOOLEAN /\ asked' = asked + 1
  /\ UNCHANGED <<controlled, state, boundary, result, interpretation, guard, pc,
                 call, issued, made, answer, ended, effects, hurt>>

(* Marked before delegation, which may find nothing or panic.              *)
TakeDetails ==
  /\ pc = "idle" /\ state = "Done" /\ ~detailsTaken
  /\ detailsTaken' = TRUE /\ asked' = asked + 1
  /\ UNCHANGED <<controlled, state, boundary, result, interpretation, guard, pc,
                 call, issued, made, answer, ended, effects, hurt>>

-----------------------------------------------------------------------------
(* The sink, as the native decoder sees it.                                *)

(* Seeded fault: extents are compared at begin only.                       *)
ForbidsAtBegin(c) ==
  IF interpretation = None THEN "OutputBeforeInterpretation"
  ELSE IF c.what = "begin" /\ \/ c.width # interpretation.width
                              \/ c.desc # interpretation.desc
                              \/ c.rows # interpretation.height
  THEN "InconsistentFacts" ELSE "none"

(* What the guard finds wrong with call c (check, begin).                  *)
Forbids(c) ==
  IF interpretation = None THEN "OutputBeforeInterpretation"
  ELSE IF c.what # "finish" /\
          \/ c.width # interpretation.width
          \/ c.desc # interpretation.desc
          \/ c.y + c.rows > interpretation.height
          \/ c.what = "begin" /\ c.rows # interpretation.height
  THEN "InconsistentFacts" ELSE "none"

InSink == UNCHANGED <<controlled, state, boundary, result, interpretation,
                      detailsTaken, pc, call, issued, made, answer, ended,
                      asked>>

(* The legacy step hands its sink out as it is.                            *)
SinkUnguarded(c) ==
  /\ pc = "native" /\ call.kind = "step"
  /\ effects' = effects \cup {c}
  /\ UNCHANGED <<guard, hurt>> /\ InSink

(* A failure or a refusal stands for the rest of the native call.          *)
Admissible == refused = "none" /\ ~sinkError

(* Seeded fault: a failure of the sink is not retained.                    *)
SinkForwardsForgets(c) ==
  /\ pc = "native" /\ call.kind = "controlled"
  /\ Admissible /\ Forbids(c) = "none"
  /\ effects' = effects \cup {c}
  /\ hurt' \in {hurt, TRUE}
  /\ UNCHANGED guard /\ InSink

(* The inner sink takes the call, or fails it and the guard retains that.  *)
SinkForwards(c) ==
  /\ pc = "native" /\ call.kind = "controlled"
  /\ Admissible /\ Forbids(c) = "none"
  /\ effects' = effects \cup {c}
  /\ sinkError' \in BOOLEAN
  /\ hurt' = (hurt \/ sinkError')
  /\ UNCHANGED refused /\ InSink

SinkRefuses(c) ==
  /\ pc = "native" /\ call.kind = "controlled"
  /\ Admissible /\ Forbids(c) # "none"
  /\ refused' = Forbids(c) /\ hurt' = TRUE
  /\ UNCHANGED <<sinkError, effects>> /\ InSink

-----------------------------------------------------------------------------
(* The native decoder, and what Fused makes of what it returns.            *)

(* DecodeBoundary::new; a boundary once issued may be returned again.      *)
Issue(f) ==
  /\ pc # "idle" /\ Len(issued) < MaxId - 1
  /\ issued' = Append(issued, f)
  /\ UNCHANGED <<controlled, state, boundary, result, interpretation,
                 detailsTaken, guard, pc, call, history>>

Untouched == UNCHANGED <<controlled, detailsTaken, issued, made, hurt, asked>>

(* It, or the sink within it, unwinds to a caller that catches the panic.  *)
NativePanics ==
  /\ pc # "idle"
  /\ Leave(state, "panic")
  /\ boundary' = None /\ result' = None
  /\ UNCHANGED <<interpretation, effects>> /\ Untouched

Returns(kind) == pc = "native" /\ call.kind = kind /\ UNCHANGED interpretation
                 /\ Untouched

StepReturns ==
  /\ Returns("step") /\ UNCHANGED effects
  /\ \/ Goes("Running", "Progress")
     \/ \E o \in Outputs : /\ Leave("Done", "Done")
                           /\ result' = o /\ UNCHANGED boundary
     \/ Fails("Codec") \/ Fails("Cancelled")

(* The guard's findings come before all that the native decoder says.      *)
GuardFails ==
  /\ Returns("controlled") /\ UNCHANGED effects
  /\ ~Admissible
  /\ Fails(IF refused # "none" THEN refused ELSE "Sink")

NativeFails ==
  /\ Returns("controlled") /\ UNCHANGED effects
  /\ Admissible
  /\ Fails("Codec") \/ Fails("Cancelled")

(* Metadata, or a request for input.                                       *)
ProgressReturns ==
  /\ Returns("controlled") /\ UNCHANGED effects
  /\ Admissible /\ Goes("Running", "Progress")

RowsReturn ==
  /\ Returns("controlled") /\ Admissible
  /\ IF interpretation = None
     THEN Fails("OutputBeforeInterpretation") /\ UNCHANGED effects
     ELSE /\ Goes("Running", "Rows")
          /\ effects' = effects \cup {[what |-> "reported"]}

(* Seeded fault: the size of the result is not compared.                   *)
MismatchDescriptor(o) == interpretation.desc # o.desc

Mismatch(o) ==
  \/ interpretation.width # o.width \/ interpretation.height # o.height
  \/ interpretation.desc # o.desc

DoneReturns(o) ==
  /\ Returns("controlled") /\ UNCHANGED effects
  /\ Admissible
  /\ IF interpretation = None THEN Fails("OutputBeforeInterpretation")
     ELSE IF Mismatch(o) THEN Fails("InconsistentFacts")
     ELSE Leave("Done", "Done") /\ result' = o /\ UNCHANGED boundary

(* Facts once adopted may not change: a later boundary repeats them.       *)
BoundaryReturns(id) ==
  /\ Returns("controlled") /\ UNCHANGED effects
  /\ Admissible
  /\ IF interpretation \notin {None, issued[id]}
     THEN Fails("FinalInterpretationChanged")
     ELSE /\ Leave("Suspended", "Suspended")
          /\ boundary' = [id |-> id, facts |-> issued[id]]
          /\ UNCHANGED result

(* The native decoder's resume accepts or fails; the pulse comes after.    *)
ResumeReturns ==
  /\ pc = "resuming" /\ UNCHANGED effects /\ Untouched
  /\ \/ /\ Goes("Running", "Resumed")
        /\ interpretation' = IF call.action = "AdoptInterpretation"
                             THEN boundary.facts ELSE interpretation
     \/ /\ Fails("Codec") \/ Fails("Cancelled")
        /\ UNCHANGED interpretation

Next ==
  \/ StepEnded \/ StepUnhandled \/ Step \/ StepControlled
  \/ \E id \in 1 .. MaxId, action \in Actions : Resume(id, action)
  \/ TakeDetails
  \/ \E c \in SinkCalls : SinkUnguarded(c) \/ SinkForwards(c) \/ SinkRefuses(c)
  \/ \E f \in Facts : Issue(f)
  \/ NativePanics \/ StepReturns \/ GuardFails \/ NativeFails
  \/ ProgressReturns \/ RowsReturn
  \/ \E o \in Outputs : DoneReturns(o)
  \/ \E id \in DOMAIN issued : BoundaryReturns(id)
  \/ ResumeReturns

Spec == Init /\ [][Next]_vars
-----------------------------------------------------------------------------
(* Properties.                                                             *)

Flags ==
  /\ made \in BOOLEAN /\ controlled \in BOOLEAN /\ detailsTaken \in BOOLEAN
  /\ sinkError \in BOOLEAN /\ ended \in BOOLEAN /\ hurt \in BOOLEAN

Values ==
  /\ state \in {"Running", "Suspended", "Done", "Failed"}
  /\ boundary \in [id : 1 .. MaxId, facts : Facts] \cup {None}
  /\ result \in Outputs \cup {None}
  /\ interpretation \in Facts \cup {None}
  /\ refused \in {"none", "OutputBeforeInterpretation", "InconsistentFacts"}
  /\ pc \in {"idle", "native", "resuming"}
  /\ call \in [kind : {"none", "step", "controlled", "resume"},
              id : 0 .. MaxId, action : Actions \cup {"none"}]
  /\ issued \in Seq(Facts) /\ Len(issued) < MaxId
  /\ answer \in Errors \cup {"none", "Progress", "Rows", "Suspended", "Resumed",
                             "Done"}
  /\ effects \subseteq SinkCalls \cup {[what |-> "reported"]}
  /\ asked \in Nat

(* Type correctness; the guard lives as long as a call, the state is       *)
(* Failed while the native decoder may unwind (incremental.rs:682, 752),   *)
(* and a boundary or a result exists only in the state that carries it.    *)
TypeOK ==
  /\ Flags /\ Values
  /\ made => controlled
  /\ pc # "native" => Admissible
  /\ pc # "idle" => state = "Failed"
  /\ pc = "idle" => /\ boundary # None <=> state = "Suspended"
                    /\ result # None <=> state = "Done"

(* A decoder made for control has no effect on the sink that the adopted   *)
(* facts do not describe, before adoption or after it, in whatever step    *)
(* and whatever the native decoder tries (control.rs:338).                 *)
SinkGated ==
  made => \A c \in effects :
    /\ interpretation # None /\ interpretation.state = "Final"
    /\ c.what \in {"begin", "rows"} =>
         /\ c.width = interpretation.width /\ c.desc = interpretation.desc
         /\ c.y + c.rows <= interpretation.height
    /\ c.what = "begin" => c.rows = interpretation.height

(* A sink call that failed or was refused is the last one with an effect,  *)
(* and the caller hears of it, even when the native decoder ignores it and *)
(* goes on to succeed, or fails for a reason of its own (control.rs:312,   *)
(* incremental.rs:756-761).                                                *)
SinkFailureSurfaces ==
  [][hurt =>
       /\ effects' = effects
       /\ pc = "native" /\ pc' = "idle" =>
            /\ state' = "Failed"
            /\ answer' \in {"Sink", "OutputBeforeInterpretation",
                            "InconsistentFacts", "panic"}]_vars

(* What is adopted, once, are the facts the native decoder issued under    *)
(* the identity the caller named, whichever copies of earlier boundaries   *)
(* the native decoder returned since (control.rs:89).                      *)
AdoptsWhatWasNamed ==
  [][interpretation' # interpretation =>
       /\ interpretation = None
       /\ call.id \in DOMAIN issued /\ interpretation' = issued[call.id]
       /\ Permits("AdoptInterpretation", interpretation')]_vars

(* After an end (Done, any error, a caught panic) the native decoder is    *)
(* not stepped or resumed again by any call; only its details are asked    *)
(* for, once, and of a decode that is Done (incremental.rs:597-603, 716).  *)
NativeStops ==
  [][/\ ended /\ pc = "idle" => pc' = "idle"
     /\ asked' # asked => asked = 0 /\ state = "Done" /\ answer = "Done"]_vars

(* The decoder inside may break every rule; Fused around it keeps the      *)
(* contract: output and Done need adopted facts and agree with them, facts *)
(* are final, a boundary waits for its reply, failure is final.            *)
Phase ==
  CASE pc = "idle" ->
         (CASE state = "Running" -> "open" [] state = "Suspended" -> "suspended"
            [] state = "Done" -> "done" [] state = "Failed" -> "failed")
    [] pc = "resuming" -> "suspended"
    [] pc = "native" -> "open"

Adopts(f) == Permits("AdoptInterpretation", f)

Fits(o, f) == o.width = f.width /\ o.height = f.height /\ o.desc = f.desc

Contract == INSTANCE DecodeContract WITH
  Adoptable <- Adopts, Agrees <- Fits,
  gated <- made, phase <- Phase, adopted <- interpretation,
  output <- effects # {}

ImplementsContract == Contract!ContractSpec
=============================================================================
