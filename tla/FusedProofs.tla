----------------------------- MODULE FusedProofs -----------------------------
(***************************************************************************)
(* What Fused promises holds for any facts, results and sink calls, any    *)
(* number of boundaries and any native decoder: the properties of the run  *)
(* `fused` as theorems, and that it implements DecodeContract.             *)
(***************************************************************************)
EXTENDS Fused, TLAPS

(* A boundary in hand is one the native decoder issued, unchanged.         *)
BoundaryIssued ==
  boundary # None =>
    /\ boundary.id \in DOMAIN issued /\ boundary.facts = issued[boundary.id]
    /\ interpretation \in {None, boundary.facts}

(* What an entered call has established.                                   *)
CallAdmitted ==
  /\ pc = "native" =>
       /\ call.kind \in {"step", "controlled"}
       /\ call.kind = "step" => ~controlled
       /\ boundary = None /\ result = None
  /\ pc = "resuming" =>
       /\ boundary # None /\ result = None
       /\ call.id = boundary.id /\ Permits(call.action, boundary.facts)

AdoptedFinal ==
  interpretation # None => Permits("AdoptInterpretation", interpretation)

(* A failed sink call leaves its trace in the guard, then in the state.    *)
HurtLatched ==
  hurt => /\ state = "Failed" /\ pc # "resuming"
          /\ pc = "native" => call.kind = "controlled" /\ ~Admissible

EndedIdle ==
  /\ ended => pc = "idle" /\ state \in {"Done", "Failed"}
  /\ pc = "idle" /\ state = "Done" => answer = "Done"
  /\ pc = "idle" /\ state \in {"Done", "Failed"} => ended
  /\ detailsTaken \/ asked = 0

IInv ==
  /\ TypeOK /\ BoundaryIssued /\ CallAdmitted /\ AdoptedFinal
  /\ SinkGated /\ HurtLatched /\ EndedIdle

-----------------------------------------------------------------------------
(* A new decoder, or one made for control, starts within the invariant.    *)
LEMMA InitIInv == Init => IInv
<1> SUFFICES ASSUME Init PROVE IInv
  OBVIOUS
<1> USE DEF Init
<1>1. Flags
  BY Zenon DEF Flags
<1>2. Values
  BY FusedAssumption DEF Values, NoCall, Call, Actions
<1>3. TypeOK
  BY <1>1, <1>2 DEF TypeOK, Admissible
<1>4. BoundaryIssued /\ CallAdmitted /\ AdoptedFinal
  BY DEF BoundaryIssued, CallAdmitted, AdoptedFinal
<1>5. SinkGated /\ HurtLatched /\ EndedIdle
  BY DEF SinkGated, HurtLatched, EndedIdle
<1> QED
  BY <1>3, <1>4, <1>5 DEF IInv

(* Flags stay Booleans: the one that is computed, ended, from Booleans.    *)
LEMMA FlagsKept == IInv /\ Next => Flags'
<1> SUFFICES ASSUME IInv, Next PROVE Flags'
  OBVIOUS
<1> USE DEF Flags, IInv, TypeOK, Admissible, Leave, Goes, Fails, Enter, Keep,
    InSink, Untouched, Returns, guard, history
<1>1. CASE StepEnded
  BY <1>1 DEF StepEnded
<1>2. CASE StepUnhandled
  BY <1>2 DEF StepUnhandled
<1>3. CASE Step
  BY <1>3 DEF Step
<1>4. CASE StepControlled
  BY <1>4 DEF StepControlled
<1>5. ASSUME NEW id \in 1 .. MaxId, NEW action \in Actions, Resume(id, action)
      PROVE  Flags'
  BY <1>5 DEF Resume
<1>6. CASE TakeDetails
  BY <1>6 DEF TakeDetails
<1>7. ASSUME NEW c \in SinkCalls, SinkUnguarded(c)
      PROVE  Flags'
  BY <1>7 DEF SinkUnguarded
<1>8. ASSUME NEW c \in SinkCalls, SinkForwards(c)
      PROVE  Flags'
  BY <1>8 DEF SinkForwards
<1>9. ASSUME NEW c \in SinkCalls, SinkRefuses(c)
      PROVE  Flags'
  BY <1>9 DEF SinkRefuses
<1>10. ASSUME NEW f \in Facts, Issue(f)
      PROVE  Flags'
  BY <1>10 DEF Issue
<1>11. CASE NativePanics
  BY <1>11 DEF NativePanics
<1>12. CASE StepReturns
  BY <1>12 DEF StepReturns
<1>13. CASE GuardFails
  BY <1>13 DEF GuardFails
<1>14. CASE NativeFails
  BY <1>14 DEF NativeFails
<1>15. CASE ProgressReturns
  BY <1>15 DEF ProgressReturns
<1>16. CASE RowsReturn
  BY <1>16 DEF RowsReturn
<1>17. ASSUME NEW o \in Outputs, DoneReturns(o)
      PROVE  Flags'
  BY <1>17 DEF DoneReturns
<1>18. ASSUME NEW id \in DOMAIN issued, BoundaryReturns(id)
      PROVE  Flags'
  BY <1>18 DEF BoundaryReturns
<1>19. CASE ResumeReturns
  BY <1>19 DEF ResumeReturns
<1> HIDE DEF Flags, IInv, TypeOK, Admissible, Leave, Goes, Fails, Enter, Keep,
    InSink, Untouched, Returns, guard, history
<1> QED
  BY <1>1, <1>2, <1>3, <1>4, <1>5, <1>6, <1>7, <1>8, <1>9, <1>10, <1>11,
      <1>12, <1>13, <1>14, <1>15, <1>16, <1>17, <1>18, <1>19 DEF Next

(* Every other variable keeps its type. Adoption takes the facts of the    *)
(* boundary in hand, and an identity is issued only while there is room.   *)
LEMMA ValuesKept == IInv /\ Next => Values'
<1> SUFFICES ASSUME IInv, Next PROVE Values'
  OBVIOUS
<1> USE FusedAssumption DEF Values, IInv, TypeOK, NoCall, Call, Errors,
    Actions, Forbids, Leave, Goes, Fails, Enter, Keep, InSink, Untouched,
    Returns, guard, history
<1>1. CASE StepEnded
  BY <1>1 DEF StepEnded
<1>2. CASE StepUnhandled
  BY <1>2 DEF StepUnhandled
<1>3. CASE Step
  BY <1>3 DEF Step
<1>4. CASE StepControlled
  BY <1>4 DEF StepControlled
<1>5. ASSUME NEW id \in 1 .. MaxId, NEW action \in Actions, Resume(id, action)
      PROVE  Values'
  BY <1>5 DEF Resume
<1>6. CASE TakeDetails
  BY <1>6 DEF TakeDetails
<1>7. ASSUME NEW c \in SinkCalls, SinkUnguarded(c)
      PROVE  Values'
  BY <1>7 DEF SinkUnguarded
<1>8. ASSUME NEW c \in SinkCalls, SinkForwards(c)
      PROVE  Values'
  BY <1>8 DEF SinkForwards
<1>9. ASSUME NEW c \in SinkCalls, SinkRefuses(c)
      PROVE  Values'
  BY <1>9 DEF SinkRefuses
<1>10. ASSUME NEW f \in Facts, Issue(f)
      PROVE  Values'
  BY <1>10 DEF Issue
<1>11. CASE NativePanics
  BY <1>11 DEF NativePanics
<1>12. CASE StepReturns
  BY <1>12 DEF StepReturns
<1>13. CASE GuardFails
  BY <1>13 DEF GuardFails
<1>14. CASE NativeFails
  BY <1>14 DEF NativeFails
<1>15. CASE ProgressReturns
  BY <1>15 DEF ProgressReturns
<1>16. CASE RowsReturn
  BY <1>16 DEF RowsReturn
<1>17. ASSUME NEW o \in Outputs, DoneReturns(o)
      PROVE  Values'
  BY <1>17 DEF DoneReturns
<1>18. ASSUME NEW id \in DOMAIN issued, BoundaryReturns(id)
      PROVE  Values'
  BY <1>18 DEF BoundaryReturns
<1>19. CASE ResumeReturns
  BY <1>19 DEF ResumeReturns, CallAdmitted
<1> HIDE DEF Values, IInv, TypeOK, NoCall, Call, Errors, Actions, Forbids,
    Leave, Goes, Fails, Enter, Keep, InSink, Untouched, Returns, guard,
    history
<1> QED
  BY <1>1, <1>2, <1>3, <1>4, <1>5, <1>6, <1>7, <1>8, <1>9, <1>10, <1>11,
      <1>12, <1>13, <1>14, <1>15, <1>16, <1>17, <1>18, <1>19 DEF Next

(* The rest of the type invariant: which state a program point implies.    *)
LEMMA TypeOKKept == IInv /\ Next => TypeOK'
<1> SUFFICES ASSUME IInv, Next PROVE TypeOK'
  OBVIOUS
<1> USE FlagsKept, ValuesKept, FusedAssumption DEF IInv, TypeOK, Values,
    CallAdmitted, Admissible, NoCall, Call, Leave, Goes, Fails, Enter, Keep,
    InSink, Untouched, Returns, guard, history
<1>1. CASE StepEnded
  BY <1>1 DEF StepEnded
<1>2. CASE StepUnhandled
  BY <1>2 DEF StepUnhandled
<1>3. CASE Step
  BY <1>3 DEF Step
<1>4. CASE StepControlled
  BY <1>4 DEF StepControlled
<1>5. ASSUME NEW id \in 1 .. MaxId, NEW action \in Actions, Resume(id, action)
      PROVE  TypeOK'
  BY <1>5 DEF Resume
<1>6. CASE TakeDetails
  BY <1>6 DEF TakeDetails
<1>7. ASSUME NEW c \in SinkCalls, SinkUnguarded(c)
      PROVE  TypeOK'
  BY <1>7 DEF SinkUnguarded
<1>8. ASSUME NEW c \in SinkCalls, SinkForwards(c)
      PROVE  TypeOK'
  BY <1>8 DEF SinkForwards
<1>9. ASSUME NEW c \in SinkCalls, SinkRefuses(c)
      PROVE  TypeOK'
  BY <1>9 DEF SinkRefuses
<1>10. ASSUME NEW f \in Facts, Issue(f)
      PROVE  TypeOK'
  BY <1>10 DEF Issue
<1>11. CASE NativePanics
  BY <1>11 DEF NativePanics
<1>12. CASE StepReturns
  BY <1>12 DEF StepReturns
<1>13. CASE GuardFails
  BY <1>13 DEF GuardFails
<1>14. CASE NativeFails
  BY <1>14 DEF NativeFails
<1>15. CASE ProgressReturns
  BY <1>15 DEF ProgressReturns
<1>16. CASE RowsReturn
  BY <1>16 DEF RowsReturn
<1>17. ASSUME NEW o \in Outputs, DoneReturns(o)
      PROVE  TypeOK'
  BY <1>17 DEF DoneReturns
<1>18. ASSUME NEW id \in DOMAIN issued, BoundaryReturns(id)
      PROVE  TypeOK'
  BY <1>18 DEF BoundaryReturns
<1>19. CASE ResumeReturns
  <2> USE <1>19 DEF ResumeReturns
  <2>1. state' \in {"Running", "Failed"} /\ pc' = "idle"
    OBVIOUS
  <2>2. boundary' = None /\ result' = None
    BY <2>1
  <2> QED
    BY <2>1, <2>2
<1> HIDE DEF IInv, TypeOK, Values, CallAdmitted, Admissible, NoCall, Call,
    Leave, Goes, Fails, Enter, Keep, InSink, Untouched, Returns, guard,
    history
<1> QED
  BY <1>1, <1>2, <1>3, <1>4, <1>5, <1>6, <1>7, <1>8, <1>9, <1>10, <1>11,
      <1>12, <1>13, <1>14, <1>15, <1>16, <1>17, <1>18, <1>19 DEF Next

(* A boundary taken over from the native decoder is issued and repeats     *)
(* what was adopted; a call keeps what its entry checked.                  *)
LEMMA BoundaryKept == IInv /\ Next => (BoundaryIssued /\ CallAdmitted)'
<1> SUFFICES ASSUME IInv, Next PROVE (BoundaryIssued /\ CallAdmitted)'
  OBVIOUS
<1> USE FusedAssumption DEF IInv, TypeOK, Values, BoundaryIssued,
    CallAdmitted, Admissible, NoCall, Call, Leave, Goes, Fails, Enter, Keep,
    InSink, Untouched, Returns, guard, history
<1>1. CASE StepEnded
  BY <1>1 DEF StepEnded
<1>2. CASE StepUnhandled
  BY <1>2 DEF StepUnhandled
<1>3. CASE Step
  BY <1>3 DEF Step
<1>4. CASE StepControlled
  BY <1>4 DEF StepControlled
<1>5. ASSUME NEW id \in 1 .. MaxId, NEW action \in Actions, Resume(id, action)
      PROVE  (BoundaryIssued /\ CallAdmitted)'
  BY <1>5 DEF Resume, ReplyFits
<1>6. CASE TakeDetails
  BY <1>6 DEF TakeDetails
<1>7. ASSUME NEW c \in SinkCalls, SinkUnguarded(c)
      PROVE  (BoundaryIssued /\ CallAdmitted)'
  BY <1>7 DEF SinkUnguarded
<1>8. ASSUME NEW c \in SinkCalls, SinkForwards(c)
      PROVE  (BoundaryIssued /\ CallAdmitted)'
  BY <1>8 DEF SinkForwards
<1>9. ASSUME NEW c \in SinkCalls, SinkRefuses(c)
      PROVE  (BoundaryIssued /\ CallAdmitted)'
  BY <1>9 DEF SinkRefuses
<1>10. ASSUME NEW f \in Facts, Issue(f)
      PROVE  (BoundaryIssued /\ CallAdmitted)'
  BY <1>10 DEF Issue
<1>11. CASE NativePanics
  BY <1>11 DEF NativePanics
<1>12. CASE StepReturns
  BY <1>12 DEF StepReturns
<1>13. CASE GuardFails
  BY <1>13 DEF GuardFails
<1>14. CASE NativeFails
  BY <1>14 DEF NativeFails
<1>15. CASE ProgressReturns
  BY <1>15 DEF ProgressReturns
<1>16. CASE RowsReturn
  BY <1>16 DEF RowsReturn
<1>17. ASSUME NEW o \in Outputs, DoneReturns(o)
      PROVE  (BoundaryIssued /\ CallAdmitted)'
  BY <1>17 DEF DoneReturns
<1>18. ASSUME NEW id \in DOMAIN issued, BoundaryReturns(id)
      PROVE  (BoundaryIssued /\ CallAdmitted)'
  <2>1. CASE state' = "Failed"
    BY <1>18, <2>1 DEF BoundaryReturns
  <2>2. CASE state' # "Failed"
    <3>1. /\ boundary' = [id |-> id, facts |-> issued[id]]
          /\ issued' = issued /\ interpretation' = interpretation
          /\ interpretation \in {None, issued[id]} /\ pc' = "idle"
      BY <1>18, <2>2 DEF BoundaryReturns
    <3> QED
      BY <1>18, <3>1
  <2> QED
    BY <2>1, <2>2
<1>19. CASE ResumeReturns
  BY <1>19 DEF ResumeReturns
<1> HIDE DEF IInv, TypeOK, Values, BoundaryIssued, CallAdmitted, Admissible,
    NoCall, Call, Leave, Goes, Fails, Enter, Keep, InSink, Untouched, Returns,
    guard, history
<1> QED
  BY <1>1, <1>2, <1>3, <1>4, <1>5, <1>6, <1>7, <1>8, <1>9, <1>10, <1>11,
      <1>12, <1>13, <1>14, <1>15, <1>16, <1>17, <1>18, <1>19 DEF Next

(* Facts are adopted by a reply they permit, hence final.                  *)
LEMMA AdoptedFinalKept == IInv /\ Next => AdoptedFinal'
<1> SUFFICES ASSUME IInv, Next PROVE AdoptedFinal'
  OBVIOUS
<1> USE FusedAssumption DEF IInv, TypeOK, Values, BoundaryIssued,
    CallAdmitted, AdoptedFinal, Leave, Goes, Fails, Enter, Keep, InSink,
    Untouched, Returns, guard, history
<1>1. CASE StepEnded
  BY <1>1 DEF StepEnded
<1>2. CASE StepUnhandled
  BY <1>2 DEF StepUnhandled
<1>3. CASE Step
  BY <1>3 DEF Step
<1>4. CASE StepControlled
  BY <1>4 DEF StepControlled
<1>5. ASSUME NEW id \in 1 .. MaxId, NEW action \in Actions, Resume(id, action)
      PROVE  AdoptedFinal'
  BY <1>5 DEF Resume
<1>6. CASE TakeDetails
  BY <1>6 DEF TakeDetails
<1>7. ASSUME NEW c \in SinkCalls, SinkUnguarded(c)
      PROVE  AdoptedFinal'
  BY <1>7 DEF SinkUnguarded
<1>8. ASSUME NEW c \in SinkCalls, SinkForwards(c)
      PROVE  AdoptedFinal'
  BY <1>8 DEF SinkForwards
<1>9. ASSUME NEW c \in SinkCalls, SinkRefuses(c)
      PROVE  AdoptedFinal'
  BY <1>9 DEF SinkRefuses
<1>10. ASSUME NEW f \in Facts, Issue(f)
      PROVE  AdoptedFinal'
  BY <1>10 DEF Issue
<1>11. CASE NativePanics
  BY <1>11 DEF NativePanics
<1>12. CASE StepReturns
  BY <1>12 DEF StepReturns
<1>13. CASE GuardFails
  BY <1>13 DEF GuardFails
<1>14. CASE NativeFails
  BY <1>14 DEF NativeFails
<1>15. CASE ProgressReturns
  BY <1>15 DEF ProgressReturns
<1>16. CASE RowsReturn
  BY <1>16 DEF RowsReturn
<1>17. ASSUME NEW o \in Outputs, DoneReturns(o)
      PROVE  AdoptedFinal'
  BY <1>17 DEF DoneReturns
<1>18. ASSUME NEW id \in DOMAIN issued, BoundaryReturns(id)
      PROVE  AdoptedFinal'
  BY <1>18 DEF BoundaryReturns
<1>19. CASE ResumeReturns
  BY <1>19 DEF ResumeReturns
<1> HIDE DEF IInv, TypeOK, Values, BoundaryIssued, CallAdmitted, AdoptedFinal,
    Leave, Goes, Fails, Enter, Keep, InSink, Untouched, Returns, guard,
    history
<1> QED
  BY <1>1, <1>2, <1>3, <1>4, <1>5, <1>6, <1>7, <1>8, <1>9, <1>10, <1>11,
      <1>12, <1>13, <1>14, <1>15, <1>16, <1>17, <1>18, <1>19 DEF Next

(* A forwarded call fits the adopted facts, which only change from None; a *)
(* decoder made for control never takes the unguarded path.                *)
LEMMA SinkGatedKept == IInv /\ Next => SinkGated'
<1> SUFFICES ASSUME IInv, Next PROVE SinkGated'
  OBVIOUS
<1> USE FusedAssumption DEF IInv, TypeOK, Values, BoundaryIssued,
    CallAdmitted, AdoptedFinal, SinkGated, Permits, Forbids, Leave, Goes,
    Fails, Enter, Keep, InSink, Untouched, Returns, guard, history
<1>1. CASE StepEnded
  BY <1>1 DEF StepEnded
<1>2. CASE StepUnhandled
  BY <1>2 DEF StepUnhandled
<1>3. CASE Step
  BY <1>3 DEF Step
<1>4. CASE StepControlled
  BY <1>4 DEF StepControlled
<1>5. ASSUME NEW id \in 1 .. MaxId, NEW action \in Actions, Resume(id, action)
      PROVE  SinkGated'
  BY <1>5 DEF Resume
<1>6. CASE TakeDetails
  BY <1>6 DEF TakeDetails
<1>7. ASSUME NEW c \in SinkCalls, SinkUnguarded(c)
      PROVE  SinkGated'
  BY <1>7 DEF SinkUnguarded
<1>8. ASSUME NEW c \in SinkCalls, SinkForwards(c)
      PROVE  SinkGated'
  <2>1. /\ effects' = effects \cup {c} /\ Forbids(c) = "none"
        /\ UNCHANGED <<made, interpretation>>
    BY <1>8 DEF SinkForwards
  <2>2. interpretation # None /\ interpretation.state = "Final"
    BY <2>1
  <2>3. /\ c.what \in {"begin", "rows"} =>
             /\ c.width = interpretation.width /\ c.desc = interpretation.desc
             /\ ~(c.y + c.rows > interpretation.height)
        /\ c.what = "begin" => c.rows = interpretation.height
    BY <2>1
  <2> QED
    BY <2>1, <2>2, <2>3
<1>9. ASSUME NEW c \in SinkCalls, SinkRefuses(c)
      PROVE  SinkGated'
  BY <1>9 DEF SinkRefuses
<1>10. ASSUME NEW f \in Facts, Issue(f)
      PROVE  SinkGated'
  BY <1>10 DEF Issue
<1>11. CASE NativePanics
  BY <1>11 DEF NativePanics
<1>12. CASE StepReturns
  BY <1>12 DEF StepReturns
<1>13. CASE GuardFails
  BY <1>13 DEF GuardFails
<1>14. CASE NativeFails
  BY <1>14 DEF NativeFails
<1>15. CASE ProgressReturns
  BY <1>15 DEF ProgressReturns
<1>16. CASE RowsReturn
  BY <1>16 DEF RowsReturn
<1>17. ASSUME NEW o \in Outputs, DoneReturns(o)
      PROVE  SinkGated'
  BY <1>17 DEF DoneReturns
<1>18. ASSUME NEW id \in DOMAIN issued, BoundaryReturns(id)
      PROVE  SinkGated'
  BY <1>18 DEF BoundaryReturns
<1>19. CASE ResumeReturns
  BY <1>19 DEF ResumeReturns
<1> HIDE DEF IInv, TypeOK, Values, BoundaryIssued, CallAdmitted, AdoptedFinal,
    SinkGated, Permits, Forbids, Leave, Goes, Fails, Enter, Keep, InSink,
    Untouched, Returns, guard, history
<1> QED
  BY <1>1, <1>2, <1>3, <1>4, <1>5, <1>6, <1>7, <1>8, <1>9, <1>10, <1>11,
      <1>12, <1>13, <1>14, <1>15, <1>16, <1>17, <1>18, <1>19 DEF Next

(* Once a sink call failed, the guard admits none, and what returns from   *)
(* the native decoder leaves Failed behind.                                *)
LEMMA HurtLatchedKept == IInv /\ Next => HurtLatched'
<1> SUFFICES ASSUME IInv, Next PROVE HurtLatched'
  OBVIOUS
<1> USE DEF IInv, TypeOK, Values, HurtLatched, CallAdmitted, Admissible,
    Forbids, NoCall, Call, Leave, Goes, Fails, Enter, Keep, InSink, Untouched,
    Returns, guard, history
<1>1. CASE StepEnded
  BY <1>1 DEF StepEnded
<1>2. CASE StepUnhandled
  BY <1>2 DEF StepUnhandled
<1>3. CASE Step
  BY <1>3 DEF Step
<1>4. CASE StepControlled
  BY <1>4 DEF StepControlled
<1>5. ASSUME NEW id \in 1 .. MaxId, NEW action \in Actions, Resume(id, action)
      PROVE  HurtLatched'
  BY <1>5 DEF Resume
<1>6. CASE TakeDetails
  BY <1>6 DEF TakeDetails
<1>7. ASSUME NEW c \in SinkCalls, SinkUnguarded(c)
      PROVE  HurtLatched'
  BY <1>7 DEF SinkUnguarded
<1>8. ASSUME NEW c \in SinkCalls, SinkForwards(c)
      PROVE  HurtLatched'
  BY <1>8 DEF SinkForwards
<1>9. ASSUME NEW c \in SinkCalls, SinkRefuses(c)
      PROVE  HurtLatched'
  BY <1>9 DEF SinkRefuses
<1>10. ASSUME NEW f \in Facts, Issue(f)
      PROVE  HurtLatched'
  BY <1>10 DEF Issue
<1>11. CASE NativePanics
  BY <1>11 DEF NativePanics
<1>12. CASE StepReturns
  BY <1>12 DEF StepReturns
<1>13. CASE GuardFails
  BY <1>13 DEF GuardFails
<1>14. CASE NativeFails
  BY <1>14 DEF NativeFails
<1>15. CASE ProgressReturns
  BY <1>15 DEF ProgressReturns
<1>16. CASE RowsReturn
  BY <1>16 DEF RowsReturn
<1>17. ASSUME NEW o \in Outputs, DoneReturns(o)
      PROVE  HurtLatched'
  BY <1>17 DEF DoneReturns
<1>18. ASSUME NEW id \in DOMAIN issued, BoundaryReturns(id)
      PROVE  HurtLatched'
  BY <1>18 DEF BoundaryReturns
<1>19. CASE ResumeReturns
  BY <1>19 DEF ResumeReturns
<1> HIDE DEF IInv, TypeOK, Values, HurtLatched, CallAdmitted, Admissible,
    Forbids, NoCall, Call, Leave, Goes, Fails, Enter, Keep, InSink, Untouched,
    Returns, guard, history
<1> QED
  BY <1>1, <1>2, <1>3, <1>4, <1>5, <1>6, <1>7, <1>8, <1>9, <1>10, <1>11,
      <1>12, <1>13, <1>14, <1>15, <1>16, <1>17, <1>18, <1>19 DEF Next

(* An end leaves Done or Failed, from which no call is entered.            *)
LEMMA EndedIdleKept == IInv /\ Next => EndedIdle'
<1> SUFFICES ASSUME IInv, Next PROVE EndedIdle'
  OBVIOUS
<1> USE DEF IInv, TypeOK, Flags, Values, EndedIdle, Errors, Leave, Goes,
    Fails, Enter, Keep, InSink, Untouched, Returns, guard, history
<1>1. CASE StepEnded
  BY <1>1 DEF StepEnded
<1>2. CASE StepUnhandled
  BY <1>2 DEF StepUnhandled
<1>3. CASE Step
  <2>1. CASE Fails("Cancelled")
    BY <1>3, <2>1 DEF Step
  <2>2. CASE Enter("native", Call("step", 0, "none"))
    <3>1. ~ended
      BY <1>3 DEF Step
    <3>2. ~ended' /\ pc' = "native"
      BY <2>2, <3>1
    <3>3. UNCHANGED <<detailsTaken, asked>>
      BY <1>3 DEF Step
    <3> QED
      BY <3>2, <3>3
  <2> QED
    BY <1>3, <2>1, <2>2 DEF Step
<1>4. CASE StepControlled
  <2>1. CASE state = "Running" /\ Enter("native", Call("controlled", 0, "none"))
    <3>1. ~ended
      BY <1>4, <2>1 DEF StepControlled
    <3>2. ~ended' /\ pc' = "native"
      BY <2>1, <3>1
    <3>3. UNCHANGED <<detailsTaken, asked>>
      BY <1>4 DEF StepControlled
    <3> QED
      BY <3>2, <3>3
  <2>2. CASE ~(/\ state = "Running"
               /\ Enter("native", Call("controlled", 0, "none")))
    BY <1>4, <2>2 DEF StepControlled
  <2> QED
    BY <2>1, <2>2
<1>5. ASSUME NEW id \in 1 .. MaxId, NEW action \in Actions, Resume(id, action)
      PROVE  EndedIdle'
  BY <1>5 DEF Resume
<1>6. CASE TakeDetails
  BY <1>6 DEF TakeDetails
<1>7. ASSUME NEW c \in SinkCalls, SinkUnguarded(c)
      PROVE  EndedIdle'
  BY <1>7 DEF SinkUnguarded
<1>8. ASSUME NEW c \in SinkCalls, SinkForwards(c)
      PROVE  EndedIdle'
  BY <1>8 DEF SinkForwards
<1>9. ASSUME NEW c \in SinkCalls, SinkRefuses(c)
      PROVE  EndedIdle'
  BY <1>9 DEF SinkRefuses
<1>10. ASSUME NEW f \in Facts, Issue(f)
      PROVE  EndedIdle'
  BY <1>10 DEF Issue
<1>11. CASE NativePanics
  BY <1>11 DEF NativePanics
<1>12. CASE StepReturns
  BY <1>12 DEF StepReturns
<1>13. CASE GuardFails
  BY <1>13 DEF GuardFails
<1>14. CASE NativeFails
  BY <1>14 DEF NativeFails
<1>15. CASE ProgressReturns
  BY <1>15 DEF ProgressReturns
<1>16. CASE RowsReturn
  BY <1>16 DEF RowsReturn
<1>17. ASSUME NEW o \in Outputs, DoneReturns(o)
      PROVE  EndedIdle'
  BY <1>17 DEF DoneReturns
<1>18. ASSUME NEW id \in DOMAIN issued, BoundaryReturns(id)
      PROVE  EndedIdle'
  BY <1>18 DEF BoundaryReturns
<1>19. CASE ResumeReturns
  BY <1>19 DEF ResumeReturns
<1> HIDE DEF IInv, TypeOK, Flags, Values, EndedIdle, Errors, Leave, Goes,
    Fails, Enter, Keep, InSink, Untouched, Returns, guard, history
<1> QED
  BY <1>1, <1>2, <1>3, <1>4, <1>5, <1>6, <1>7, <1>8, <1>9, <1>10, <1>11,
      <1>12, <1>13, <1>14, <1>15, <1>16, <1>17, <1>18, <1>19 DEF Next

(* Nothing in the invariant depends on more than the variables.            *)
LEMMA StutterIInv == IInv /\ UNCHANGED vars => IInv'
  BY DEF IInv, TypeOK, Flags, Values, Admissible, BoundaryIssued, CallAdmitted,
         AdoptedFinal, SinkGated, HurtLatched, EndedIdle, vars, guard, history

-----------------------------------------------------------------------------
(* Theorems.                                                               *)

(* The strengthened invariant holds throughout.                            *)
THEOREM Invariance == Spec => []IInv
<1>1. Init => IInv
  BY InitIInv
<1>2. IInv /\ [Next]_vars => IInv'
  <2>1. IInv /\ Next => IInv'
    BY TypeOKKept, BoundaryKept, AdoptedFinalKept, SinkGatedKept,
       HurtLatchedKept, EndedIdleKept DEF IInv
  <2> QED
    BY <2>1, StutterIInv
<1> QED
  BY <1>1, <1>2, PTL DEF Spec

(* Whatever the native decoder does and wherever it unwinds, the state is  *)
(* Failed while it runs, and the guard dies with its call.                 *)
THEOREM Typing == Spec => []TypeOK
<1>1. IInv => TypeOK
  BY DEF IInv
<1> QED
  BY <1>1, Invariance, PTL

(* Every effect of a decoder made for control is one that adopted, final   *)
(* facts describe.                                                         *)
THEOREM OutputGated == Spec => []SinkGated
<1>1. IInv => SinkGated
  BY DEF IInv
<1> QED
  BY <1>1, Invariance, PTL

(* A sink call that failed or was refused is the last effect, and what the *)
(* call in progress returns, success swallowed by the codec or not.        *)
THEOREM FailureSurfaces == Spec => SinkFailureSurfaces
<1> DEFINE A ==
           hurt =>
           /\ effects' = effects
           /\ pc = "native" /\ pc' = "idle" =>
                /\ state' = "Failed"
                /\ answer' \in {"Sink", "OutputBeforeInterpretation",
                                "InconsistentFacts", "panic"}
<1>1. IInv /\ Next => A
  <2> SUFFICES ASSUME IInv, Next PROVE A
    OBVIOUS
  <2> USE DEF IInv, TypeOK, Values, HurtLatched, CallAdmitted, Admissible,
      Forbids, Leave, Goes, Fails, Enter, Keep, InSink, Untouched, Returns,
      guard, history
  <2>1. CASE StepEnded
    BY <2>1 DEF StepEnded
  <2>2. CASE StepUnhandled
    BY <2>2 DEF StepUnhandled
  <2>3. CASE Step
    BY <2>3 DEF Step
  <2>4. CASE StepControlled
    BY <2>4 DEF StepControlled
  <2>5. ASSUME NEW id \in 1 .. MaxId, NEW action \in Actions, Resume(id, action)
        PROVE  A
    BY <2>5 DEF Resume
  <2>6. CASE TakeDetails
    BY <2>6 DEF TakeDetails
  <2>7. ASSUME NEW c \in SinkCalls, SinkUnguarded(c)
        PROVE  A
    BY <2>7 DEF SinkUnguarded
  <2>8. ASSUME NEW c \in SinkCalls, SinkForwards(c)
        PROVE  A
    BY <2>8 DEF SinkForwards
  <2>9. ASSUME NEW c \in SinkCalls, SinkRefuses(c)
        PROVE  A
    BY <2>9 DEF SinkRefuses
  <2>10. ASSUME NEW f \in Facts, Issue(f)
        PROVE  A
    BY <2>10 DEF Issue
  <2>11. CASE NativePanics
    BY <2>11 DEF NativePanics
  <2>12. CASE StepReturns
    BY <2>12 DEF StepReturns
  <2>13. CASE GuardFails
    BY <2>13 DEF GuardFails
  <2>14. CASE NativeFails
    BY <2>14 DEF NativeFails
  <2>15. CASE ProgressReturns
    BY <2>15 DEF ProgressReturns
  <2>16. CASE RowsReturn
    BY <2>16 DEF RowsReturn
  <2>17. ASSUME NEW o \in Outputs, DoneReturns(o)
        PROVE  A
    BY <2>17 DEF DoneReturns
  <2>18. ASSUME NEW id \in DOMAIN issued, BoundaryReturns(id)
        PROVE  A
    BY <2>18 DEF BoundaryReturns
  <2>19. CASE ResumeReturns
    BY <2>19 DEF ResumeReturns
  <2> HIDE DEF A, IInv, TypeOK, Values, HurtLatched, CallAdmitted, Admissible,
      Forbids, Leave, Goes, Fails, Enter, Keep, InSink, Untouched, Returns,
      guard, history
  <2> QED
    BY <2>1, <2>2, <2>3, <2>4, <2>5, <2>6, <2>7, <2>8, <2>9, <2>10, <2>11,
        <2>12, <2>13, <2>14, <2>15, <2>16, <2>17, <2>18, <2>19 DEF Next
<1>2. IInv /\ [Next]_vars => [A]_vars
  BY <1>1
<1> QED
  BY <1>2, Invariance, PTL DEF Spec, SinkFailureSurfaces

(* The facts adopted are those issued under the identity the caller named. *)
THEOREM AdoptionNamed == Spec => AdoptsWhatWasNamed
<1> DEFINE A ==
           interpretation' # interpretation =>
           /\ interpretation = None
           /\ call.id \in DOMAIN issued /\ interpretation' = issued[call.id]
           /\ Permits("AdoptInterpretation", interpretation')
<1>1. IInv /\ Next => A
  <2> SUFFICES ASSUME IInv, Next PROVE A
    OBVIOUS
  <2> USE DEF IInv, TypeOK, Values, BoundaryIssued, CallAdmitted, Leave, Goes,
      Fails, Enter, Keep, InSink, Untouched, Returns, guard, history
  <2>1. CASE StepEnded
    BY <2>1 DEF StepEnded
  <2>2. CASE StepUnhandled
    BY <2>2 DEF StepUnhandled
  <2>3. CASE Step
    BY <2>3 DEF Step
  <2>4. CASE StepControlled
    BY <2>4 DEF StepControlled
  <2>5. ASSUME NEW id \in 1 .. MaxId, NEW action \in Actions, Resume(id, action)
        PROVE  A
    BY <2>5 DEF Resume
  <2>6. CASE TakeDetails
    BY <2>6 DEF TakeDetails
  <2>7. ASSUME NEW c \in SinkCalls, SinkUnguarded(c)
        PROVE  A
    BY <2>7 DEF SinkUnguarded
  <2>8. ASSUME NEW c \in SinkCalls, SinkForwards(c)
        PROVE  A
    BY <2>8 DEF SinkForwards
  <2>9. ASSUME NEW c \in SinkCalls, SinkRefuses(c)
        PROVE  A
    BY <2>9 DEF SinkRefuses
  <2>10. ASSUME NEW f \in Facts, Issue(f)
        PROVE  A
    BY <2>10 DEF Issue
  <2>11. CASE NativePanics
    BY <2>11 DEF NativePanics
  <2>12. CASE StepReturns
    BY <2>12 DEF StepReturns
  <2>13. CASE GuardFails
    BY <2>13 DEF GuardFails
  <2>14. CASE NativeFails
    BY <2>14 DEF NativeFails
  <2>15. CASE ProgressReturns
    BY <2>15 DEF ProgressReturns
  <2>16. CASE RowsReturn
    BY <2>16 DEF RowsReturn
  <2>17. ASSUME NEW o \in Outputs, DoneReturns(o)
        PROVE  A
    BY <2>17 DEF DoneReturns
  <2>18. ASSUME NEW id \in DOMAIN issued, BoundaryReturns(id)
        PROVE  A
    BY <2>18 DEF BoundaryReturns
  <2>19. CASE ResumeReturns
    BY <2>19 DEF ResumeReturns
  <2> HIDE DEF A, IInv, TypeOK, Values, BoundaryIssued, CallAdmitted, Leave,
      Goes, Fails, Enter, Keep, InSink, Untouched, Returns, guard, history
  <2> QED
    BY <2>1, <2>2, <2>3, <2>4, <2>5, <2>6, <2>7, <2>8, <2>9, <2>10, <2>11,
        <2>12, <2>13, <2>14, <2>15, <2>16, <2>17, <2>18, <2>19 DEF Next
<1>2. IInv /\ [Next]_vars => [A]_vars
  BY <1>1
<1> QED
  BY <1>2, Invariance, PTL DEF Spec, AdoptsWhatWasNamed

(* After an end the native decoder is not entered again, and it is asked   *)
(* once for details of a decode that is Done.                              *)
THEOREM NativeStopped == Spec => NativeStops
<1> DEFINE A ==
           /\ ended /\ pc = "idle" => pc' = "idle"
           /\ asked' # asked => asked = 0 /\ state = "Done" /\ answer = "Done"
<1>1. IInv /\ Next => A
  <2> SUFFICES ASSUME IInv, Next PROVE A
    OBVIOUS
  <2> USE DEF IInv, TypeOK, Flags, Values, EndedIdle, Leave, Goes, Fails,
      Enter, Keep, InSink, Untouched, Returns, guard, history
  <2>1. CASE StepEnded
    BY <2>1 DEF StepEnded
  <2>2. CASE StepUnhandled
    BY <2>2 DEF StepUnhandled
  <2>3. CASE Step
    BY <2>3 DEF Step
  <2>4. CASE StepControlled
    BY <2>4 DEF StepControlled
  <2>5. ASSUME NEW id \in 1 .. MaxId, NEW action \in Actions, Resume(id, action)
        PROVE  A
    BY <2>5 DEF Resume
  <2>6. CASE TakeDetails
    BY <2>6 DEF TakeDetails
  <2>7. ASSUME NEW c \in SinkCalls, SinkUnguarded(c)
        PROVE  A
    BY <2>7 DEF SinkUnguarded
  <2>8. ASSUME NEW c \in SinkCalls, SinkForwards(c)
        PROVE  A
    BY <2>8 DEF SinkForwards
  <2>9. ASSUME NEW c \in SinkCalls, SinkRefuses(c)
        PROVE  A
    BY <2>9 DEF SinkRefuses
  <2>10. ASSUME NEW f \in Facts, Issue(f)
        PROVE  A
    BY <2>10 DEF Issue
  <2>11. CASE NativePanics
    BY <2>11 DEF NativePanics
  <2>12. CASE StepReturns
    BY <2>12 DEF StepReturns
  <2>13. CASE GuardFails
    BY <2>13 DEF GuardFails
  <2>14. CASE NativeFails
    BY <2>14 DEF NativeFails
  <2>15. CASE ProgressReturns
    BY <2>15 DEF ProgressReturns
  <2>16. CASE RowsReturn
    BY <2>16 DEF RowsReturn
  <2>17. ASSUME NEW o \in Outputs, DoneReturns(o)
        PROVE  A
    BY <2>17 DEF DoneReturns
  <2>18. ASSUME NEW id \in DOMAIN issued, BoundaryReturns(id)
        PROVE  A
    BY <2>18 DEF BoundaryReturns
  <2>19. CASE ResumeReturns
    BY <2>19 DEF ResumeReturns
  <2> HIDE DEF A, IInv, TypeOK, Flags, Values, EndedIdle, Leave, Goes, Fails,
      Enter, Keep, InSink, Untouched, Returns, guard, history
  <2> QED
    BY <2>1, <2>2, <2>3, <2>4, <2>5, <2>6, <2>7, <2>8, <2>9, <2>10, <2>11,
        <2>12, <2>13, <2>14, <2>15, <2>16, <2>17, <2>18, <2>19 DEF Next
<1>2. IInv /\ [Next]_vars => [A]_vars
  BY <1>1
<1> QED
  BY <1>2, Invariance, PTL DEF Spec, NativeStops

(* Each step of Fused is one the contract allows, or changes nothing that  *)
(* the contract speaks of.                                                 *)
LEMMA StepImplements ==
  IInv /\ Next => Contract!ContractNext \/ UNCHANGED Contract!contract
<1> DEFINE C == Contract!ContractNext \/ UNCHANGED Contract!contract
<1> SUFFICES ASSUME IInv, Next PROVE C
  OBVIOUS
<1> USE FusedAssumption DEF Forbids, Contract!ContractNext, Contract!contract,
    Contract!Continue, Contract!SuspendAt, Contract!Reply, Contract!Complete,
    Contract!Break, IInv, TypeOK, Values, BoundaryIssued, CallAdmitted,
    AdoptedFinal, Phase, Adopts, Fits, Leave, Goes, Fails, Enter, Keep,
    InSink, Untouched, Returns, guard, history
<1>1. CASE StepEnded
  BY <1>1 DEF StepEnded
<1>2. CASE StepUnhandled
  BY <1>2 DEF StepUnhandled
<1>3. CASE Step
  BY <1>3 DEF Step
<1>4. CASE StepControlled
  BY <1>4 DEF StepControlled
<1>5. ASSUME NEW id \in 1 .. MaxId, NEW action \in Actions, Resume(id, action)
      PROVE  C
  BY <1>5 DEF Resume
<1>6. CASE TakeDetails
  BY <1>6 DEF TakeDetails
<1>7. ASSUME NEW c \in SinkCalls, SinkUnguarded(c)
      PROVE  C
  BY <1>7 DEF SinkUnguarded
<1>8. ASSUME NEW c \in SinkCalls, SinkForwards(c)
      PROVE  C
  BY <1>8 DEF SinkForwards
<1>9. ASSUME NEW c \in SinkCalls, SinkRefuses(c)
      PROVE  C
  BY <1>9 DEF SinkRefuses
<1>10. ASSUME NEW f \in Facts, Issue(f)
      PROVE  C
  BY <1>10 DEF Issue
<1>11. CASE NativePanics
  BY <1>11 DEF NativePanics
<1>12. CASE StepReturns
  BY <1>12 DEF StepReturns
<1>13. CASE GuardFails
  BY <1>13 DEF GuardFails
<1>14. CASE NativeFails
  BY <1>14 DEF NativeFails
<1>15. CASE ProgressReturns
  BY <1>15 DEF ProgressReturns
<1>16. CASE RowsReturn
  BY <1>16 DEF RowsReturn
<1>17. ASSUME NEW o \in Outputs, DoneReturns(o)
      PROVE  C
  BY <1>17 DEF DoneReturns, Mismatch
<1>18. ASSUME NEW id \in DOMAIN issued, BoundaryReturns(id)
      PROVE  C
  BY <1>18 DEF BoundaryReturns
<1>19. CASE ResumeReturns
  BY <1>19 DEF ResumeReturns
<1> HIDE DEF C, Forbids, Contract!ContractNext, Contract!contract,
    Contract!Continue, Contract!SuspendAt, Contract!Reply, Contract!Complete,
    Contract!Break, IInv, TypeOK, Values, BoundaryIssued, CallAdmitted,
    AdoptedFinal, Phase, Adopts, Fits, Leave, Goes, Fails, Enter, Keep,
    InSink, Untouched, Returns, guard, history
<1> QED
  BY <1>1, <1>2, <1>3, <1>4, <1>5, <1>6, <1>7, <1>8, <1>9, <1>10, <1>11,
      <1>12, <1>13, <1>14, <1>15, <1>16, <1>17, <1>18, <1>19 DEF Next

(* A native decoder that breaks every rule, inside Fused, is a controlled  *)
(* incremental decoder.                                                    *)
THEOREM Implementation == Spec => ImplementsContract
<1>1. Init => Contract!ContractInit
  BY DEF Init, Contract!ContractInit, Phase
<1>2. IInv /\ [Next]_vars => [Contract!ContractNext]_(Contract!contract)
  <2>1. UNCHANGED vars => UNCHANGED Contract!contract
    BY DEF vars, guard, history, Contract!contract, Phase
  <2> QED
    BY <2>1, StepImplements
<1> QED
  BY <1>1, <1>2, Invariance, PTL
     DEF Spec, ImplementsContract, Contract!ContractSpec
=============================================================================
