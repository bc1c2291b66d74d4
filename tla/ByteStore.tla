------------------------------ MODULE ByteStore ------------------------------
(***************************************************************************)
(* What the coroutine's input store promises, whatever it is made of: a    *)
(* partial map from absolute offsets to bytes, never holding more than Cap *)
(* of them.  This is the "independent byte map" the unit test of           *)
(* src/zencodec-coroutine/src/admitted_input.rs compares the packed store  *)
(* with; InputStore implements it in both of its representations.          *)
(***************************************************************************)
EXTENDS Integers, FiniteSets

CONSTANTS
  Positions,  (* the offsets a byte can be stored at, 0 .. MaxAddr - 1     *)
  Versions,   (* what may be read at one offset by different feeds         *)
  Cap,        (* InputStore.cap                                            *)
  MaxSpans    (* the runs of bytes an index may describe                   *)

VARIABLES
  held,       (* held[p]: the byte stored at p, or NoByte                  *)
  call,       (* the last call and its arguments: its op, the first offset *)
              (* and the length it names, and the version fed              *)
  result      (* what the last call returned                               *)

NoByte == "none"

Accepted(n) == [outcome |-> "ok", count |-> n]

(* The smallest element of S, or d when S is empty.                        *)
MinOr(S, d) == IF S = {} THEN d ELSE CHOOSE x \in S : \A y \in S : x <= y

NoCall == [op |-> "none", start |-> 0, len |-> 0, version |-> NoByte]

ByteInit ==
  /\ held = [p \in Positions |-> NoByte]
  /\ call = NoCall
  /\ result = Accepted(0)

(* Bytes o .. e - 1, all read as version v, are offered to a store that    *)
(* holds `bytes`: the offsets they are stored at.  A prefix that is        *)
(* already held is accepted without being stored again; then bytes are     *)
(* stored up to the next held one, or until the store is full.             *)
Stored(bytes, o, e) ==
  LET free  == {p \in Positions : bytes[p] = NoByte}
      start == MinOr(free \cap (o .. e - 1), e)
      stop  == MinOr((start .. e - 1) \ free, e)
      room  == Cap - Cardinality(Positions \ free)
  IN start .. (IF stop - start <= room THEN stop ELSE start + room) - 1

(* What is held once o .. e - 1 has been fed, and once it is forgotten:    *)
(* every held byte of the range, and no other.                             *)
Fed(bytes, o, e, v) ==
  LET stored == Stored(bytes, o, e)
  IN [p \in Positions |-> IF p \in stored THEN v ELSE bytes[p]]

Forgotten(bytes, o, e) ==
  [p \in Positions |-> IF p \in o .. e - 1 THEN NoByte ELSE bytes[p]]

ByteFeed(before, after, o, e, v) ==
  LET prefix == MinOr({p \in o .. e - 1 : before[p] = NoByte}, e) - o
  IN /\ result' = Accepted(prefix + Cardinality(Stored(before, o, e)))
     /\ after = Fed(before, o, e, v)

ByteRelease(before, after, o, e) ==
  /\ result' = Accepted(0)
  /\ after = Forgotten(before, o, e)

(* A call that fails stores and forgets nothing.                           *)
ByteRefuse(before, after, why) ==
  /\ result' = [outcome |-> why, count |-> 0]
  /\ after = before

(* Where the runs of held bytes start: a call may be refused for the span  *)
(* limit when it would have left more of them than an index describes.     *)
RunStarts(bytes) ==
  {p \in Positions : bytes[p] # NoByte /\ (p = 0 \/ bytes[p - 1] = NoByte)}

TooManyRuns(bytes) == Cardinality(RunStarts(bytes)) > MaxSpans

(* The step of one call: c is the call made, and its own arguments say     *)
(* what it may do.                                                         *)
ByteCall(before, after, c) ==
  LET o == c.start
      e == c.start + c.len
      inside == o .. e - 1 \subseteq Positions
  IN \/ /\ c.op = "feed" /\ inside
        /\ \/ ByteFeed(before, after, o, e, c.version)
           \/ /\ TooManyRuns(Fed(before, o, e, c.version))
              /\ ByteRefuse(before, after, "span_limit")
     \/ /\ c.op = "release" /\ inside
        /\ \/ ByteRelease(before, after, o, e)
           \/ /\ TooManyRuns(Forgotten(before, o, e))
              /\ ByteRefuse(before, after, "span_limit")
     \/ c.op \in {"feed", "release"} /\ ~inside /\ ByteRefuse(before, after, "overflow")
     \/ c.op \in {"release_before", "clear"} /\ ByteRelease(before, after, o, e)

(* The map before and after a call are bound once: what implements `held`  *)
(* is a computed value, and this is what keeps checking a step cheap.      *)
ByteNext == \E before \in {held}, after \in {held'} : ByteCall(before, after, call')

ByteSpec == ByteInit /\ [][ByteNext]_<<held, call, result>>
=============================================================================
