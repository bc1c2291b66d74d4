--------------------------- MODULE MCStorageBudget ---------------------------
(***************************************************************************)
(* Three concurrent requests on a budget of two slots and three bytes.     *)
(* Sizes 1 and 2 compete for the bytes, 4 is admissible to the counter's   *)
(* word but not to the budget (it always rolls back), 0 is the empty       *)
(* allocation that still takes a slot, and 6 exceeds isize::MAX.           *)
(***************************************************************************)
EXTENDS StorageBudget, TLC

Symmetry == Permutations(Requests)
=============================================================================
