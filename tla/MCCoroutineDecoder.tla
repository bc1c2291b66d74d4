------------------------- MODULE MCCoroutineDecoder -------------------------
(***************************************************************************)
(* Two images of one size that differ in colour, results of two sizes, and *)
(* two kinds of facts: a batch of two final rows fits the image and leaves *)
(* in two strips, one provisional row does not fit it.  Two boundaries can *)
(* be issued before the identities run out, so a reply to the first may be *)
(* given to the second.  Four rows per image are two batches of two, enough*)
(* for one to be left behind, replaced, or delivered while the future is   *)
(* complete.                                                               *)
(***************************************************************************)
EXTENDS CoroutineDecoder

InfosMC == {[size |-> 1, colour |-> 1], [size |-> 1, colour |-> 2]}

OutputsMC == {[size |-> s, desc |-> "rgb"] : s \in {1, 2}}

FactsMC == {[size |-> 1, desc |-> "rgb", state |-> s, unavailable |-> FALSE] :
              s \in {"Final", "Provisional"}}

BatchesMC == {[size |-> 1, desc |-> "rgb", rows |-> 2, final |-> TRUE],
              [size |-> 2, desc |-> "rgb", rows |-> 1, final |-> FALSE]}
=============================================================================
