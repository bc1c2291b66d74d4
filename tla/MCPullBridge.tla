---------------------------- MODULE MCPullBridge -----------------------------
(***************************************************************************)
(* Three reads, so that a late answer to one can meet the next; two        *)
(* strips over a channel of one, so that the decode thread has to wait.    *)
(***************************************************************************)
EXTENDS PullBridge
==============================================================================
