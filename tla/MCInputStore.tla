---------------------------- MODULE MCInputStore ----------------------------
(***************************************************************************)
(* Six offsets, four bytes of room, two spans: holes, refills, merges on *)
(* either side, a full payload and a full index all occur.  Two versions   *)
(* of the source tell the byte fed first from one fed later.               *)
(***************************************************************************)
EXTENDS InputStore

(* The states are told apart without the call that led to them, which no   *)
(* action and no invariant reads; every step out of every state is still   *)
(* taken with every call, and checked against ByteStore with it.           *)
StoreView == <<admitted, store, segments, retained, result>>
=============================================================================
