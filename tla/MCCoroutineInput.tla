-------------------------- MODULE MCCoroutineInput --------------------------
(***************************************************************************)
(* Four bytes of source under a cap of two; reads of up to four bytes,     *)
(* so longer than the cap too, and past the end; three spans or calls of   *)
(* the author.  The run of lost bytes has a cap of four, so that three     *)
(* spans of a random read may overlap and still fit.  The stall run has    *)
(* the authors whose reads do not fit the store together.                  *)
(***************************************************************************)
EXTENDS CoroutineInput

SafeUses == {"stream", "random"}
RandomUse == {"random"}
MixedUse == {"mixed"}
=============================================================================
