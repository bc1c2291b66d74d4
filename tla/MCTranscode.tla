----------------------------- MODULE MCTranscode -----------------------------
(***************************************************************************)
(* Three packets through sessions that hold two items, into a store of two *)
(* packets of two bytes each.                                              *)
(***************************************************************************)
EXTENDS Transcode
==============================================================================
