--------------------------- MODULE DecodeContract ---------------------------
(***************************************************************************)
(* What a controlled incremental decoder promises to the one that steps    *)
(* it (the rules of src/src/traits/incremental.rs and control.rs), without *)
(* how: a decode is open, suspended at a boundary, done or failed; output  *)
(* and success need adopted facts; adopted facts and ends are final.       *)
(* CoroutineDecoder implements it on its own; Fused does around a native   *)
(* decoder that may break every rule.                                      *)
(***************************************************************************)
CONSTANTS
  None,
  Adoptable(_),  (* may these facts be adopted?                            *)
  Agrees(_, _)   (* is this result the image of these facts?               *)

VARIABLES
  gated,     (* is the decoder controlled from the start?                  *)
  phase,     (* open, suspended, done or failed                            *)
  boundary,  (* the boundary it is suspended at: [id, facts]               *)
  adopted,   (* the facts adopted                                          *)
  result,    (* the result of a decode that is done                        *)
  output     (* has there been any effect on the sink?                     *)

contract == <<gated, phase, boundary, adopted, result, output>>

ContractInit ==
  /\ gated \in BOOLEAN
  /\ phase = "open" /\ boundary = None /\ adopted = None /\ result = None
  /\ output = FALSE

(* Rows, metadata, a request: the sink is left alone before adoption.      *)
Continue ==
  /\ phase = "open"
  /\ output' # output => output' /\ (gated => adopted # None)
  /\ UNCHANGED <<gated, phase, boundary, adopted, result>>

(* Later boundaries may repeat the adopted facts, never change them.       *)
SuspendAt ==
  /\ phase = "open" /\ phase' = "suspended"
  /\ boundary' # None
  /\ adopted \in {None, boundary'.facts}
  /\ UNCHANGED <<gated, adopted, result, output>>

Reply ==
  /\ phase = "suspended" /\ phase' = "open" /\ boundary' = None
  /\ \/ UNCHANGED adopted
     \/ Adoptable(boundary.facts) /\ adopted' = boundary.facts
  /\ UNCHANGED <<gated, result, output>>

Complete ==
  /\ phase = "open" /\ phase' = "done"
  /\ result' # None
  /\ gated => adopted # None /\ Agrees(result', adopted)
  /\ output' # output => output'
  /\ UNCHANGED <<gated, boundary, adopted>>

(* Any error, cancellation or panic, at any time.  Done is left only for a *)
(* call that does not belong there.                                        *)
Break ==
  /\ phase # "failed" /\ phase' = "failed"
  /\ boundary' = None /\ result' = None
  /\ output' # output => output' /\ phase = "open" /\ (gated => adopted # None)
  /\ UNCHANGED <<gated, adopted>>

ContractNext == Continue \/ SuspendAt \/ Reply \/ Complete \/ Break

ContractSpec == ContractInit /\ [][ContractNext]_contract
=============================================================================
