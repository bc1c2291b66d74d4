------------------------------- MODULE MCFused -------------------------------
(***************************************************************************)
(* Final facts of two heights and provisional ones, so that a later        *)
(* boundary can change what was adopted; results and sink calls that agree *)
(* with the taller image, with the shorter one, or with none.  Two         *)
(* boundaries before the identities run out: a copy of the first may be    *)
(* returned, or replied to, when the second is outstanding.                *)
(***************************************************************************)
EXTENDS Fused

FactsMC ==
  {[width |-> 1, height |-> h, desc |-> "rgb", state |-> "Final",
    unavailable |-> FALSE] : h \in {1, 2}}
  \cup {[width |-> 1, height |-> 2, desc |-> None, state |-> "Provisional",
         unavailable |-> FALSE]}

OutputsMC == [width : {1}, height : {1, 2}, desc : {"rgb"}]

SinkCallsMC ==
  {[what |-> "begin", width |-> 1, y |-> 0, rows |-> 2, desc |-> "rgb"],
   [what |-> "rows", width |-> 1, y |-> 1, rows |-> 1, desc |-> "rgb"],
   [what |-> "rows", width |-> 1, y |-> 0, rows |-> 1, desc |-> "gray"],
   [what |-> "finish", width |-> 0, y |-> 0, rows |-> 0, desc |-> "rgb"]}
=============================================================================
