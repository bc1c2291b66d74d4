---------------------------- MODULE StorageBudget ----------------------------
(***************************************************************************)
(* The managed storage allowance of src/src/storage.rs: a byte counter and *)
(* an allocation counter, shared by every thread that holds a clone of the *)
(* StorageBudget.  Admission is two bounded compare-and-swap loops, object *)
(* slot first; a byte refusal gives the slot back.  The charge then lives  *)
(* in a Reservation and is returned by its drop.                           *)
(*                                                                         *)
(* One element of Requests is one call of prepare_filled and everything    *)
(* that becomes of its result.  Each atomic memory operation of the code   *)
(* is one step, so the steps of different requests interleave as threads   *)
(* would.  A spurious failure of compare_exchange_weak reloads the value   *)
(* that is already in `seen`, which is a stuttering step.                  *)
(***************************************************************************)
EXTENDS Integers, FiniteSets

CONSTANTS
  Requests,    (* calls that may be in progress at the same time           *)
  Sizes,       (* byte sizes a caller may ask for                          *)
  MaxBytes,    (* byte allowance of the budget                             *)
  MaxObjects,  (* allocation slots of the budget                           *)
  MaxSize,     (* isize::MAX: larger sizes are refused before admission    *)
  MaxWord,     (* usize::MAX: the counters are modulo MaxWord + 1          *)
  MaxViews     (* bound on the clones and subviews of one allocation       *)

ASSUME BudgetAssumption ==
  /\ IsFiniteSet(Requests)
  /\ Sizes \subseteq Nat
  /\ {MaxBytes, MaxObjects, MaxSize, MaxWord} \subseteq Nat
  /\ MaxBytes <= MaxWord /\ MaxObjects <= MaxWord /\ MaxSize <= MaxWord
  /\ MaxViews \in Nat \ {0}

VARIABLES
  bytes,    (* State.bytes                                                 *)
  objects,  (* State.objects                                               *)
  pc,       (* where each request is                                       *)
  amount,   (* the bytes each request asked for: Reservation.bytes         *)
  seen,     (* the counter value its compare-and-swap loop last loaded     *)
  payload,  (* the requests whose published vector is allocated            *)
  views     (* strong count of each shared allocation                      *)

vars == <<bytes, objects, pc, amount, seen, payload, views>>

Locations == {"idle", "objectsLoad", "objectsSwap", "bytesLoad", "bytesSwap",
              "rollback", "prepared", "owned", "shared", "freeBytes",
              "freeObject"}

(* Requests that hold an object slot, and requests that hold their bytes.  *)
HoldsObject == {r \in Requests : pc[r] \in
  {"bytesLoad", "bytesSwap", "rollback", "prepared", "owned", "shared",
   "freeBytes", "freeObject"}}
HoldsBytes == {r \in Requests : pc[r] \in
  {"prepared", "owned", "shared", "freeBytes"}}

(* fetch_sub on a usize wraps below zero.                                  *)
WrapSub(x, y) == IF y <= x THEN x - y ELSE (x + MaxWord + 1) - y

(* Seeded fault: the limit is compared with the old value of the counter.  *)
AdmitsCurrent(current, n, limit) == current + n <= MaxWord /\ current <= limit

(* checked_add(amount).filter(|n| *n <= limit)                             *)
Admits(current, n, limit) == current + n <= MaxWord /\ current + n <= limit

Goto(r, l) == pc' = [pc EXCEPT ![r] = l]

-----------------------------------------------------------------------------
Init ==
  /\ bytes = 0
  /\ objects = 0
  /\ pc = [r \in Requests |-> "idle"]
  /\ amount = [r \in Requests |-> 0]
  /\ seen = [r \in Requests |-> 0]
  /\ payload = {}
  /\ views = [r \in Requests |-> 0]

(* Seeded fault: the isize::MAX filter of prepare_filled is dropped.       *)
PrepareUnfiltered(r, n) ==
  /\ pc[r] = "idle"
  /\ amount' = [amount EXCEPT ![r] = n]
  /\ Goto(r, "objectsLoad")
  /\ UNCHANGED <<bytes, objects, seen, payload, views>>

(* prepare_filled: a size past isize::MAX is refused with SizeOverflow and *)
(* nothing is touched; any other size starts reserve.                      *)
Prepare(r, n) ==
  /\ pc[r] = "idle"
  /\ n <= MaxSize
  /\ amount' = [amount EXCEPT ![r] = n]
  /\ Goto(r, "objectsLoad")
  /\ UNCHANGED <<bytes, objects, seen, payload, views>>

(* add_bounded(objects, 1, max_objects): the load before the loop.         *)
LoadObjects(r) ==
  /\ pc[r] = "objectsLoad"
  /\ seen' = [seen EXCEPT ![r] = objects]
  /\ Goto(r, "objectsSwap")
  /\ UNCHANGED <<bytes, objects, amount, payload, views>>

(* One turn of that loop: refuse, swap, or reload and try again.           *)
SwapObjects(r) ==
  /\ pc[r] = "objectsSwap"
  /\ \/ /\ ~Admits(seen[r], 1, MaxObjects)
        /\ Goto(r, "idle")
        /\ UNCHANGED <<objects, seen>>
     \/ /\ Admits(seen[r], 1, MaxObjects)
        /\ objects = seen[r]
        /\ objects' = objects + 1
        /\ Goto(r, "bytesLoad")
        /\ UNCHANGED seen
     \/ /\ Admits(seen[r], 1, MaxObjects)
        /\ objects # seen[r]
        /\ seen' = [seen EXCEPT ![r] = objects]
        /\ UNCHANGED <<objects, pc>>
  /\ UNCHANGED <<bytes, amount, payload, views>>

(* add_bounded(bytes, n, max_bytes): the load before the loop.             *)
LoadBytes(r) ==
  /\ pc[r] = "bytesLoad"
  /\ seen' = [seen EXCEPT ![r] = bytes]
  /\ Goto(r, "bytesSwap")
  /\ UNCHANGED <<bytes, objects, amount, payload, views>>

(* Seeded fault: a byte refusal returns without giving the slot back.      *)
SwapBytesKeepsSlot(r) ==
  /\ pc[r] = "bytesSwap"
  /\ IF Admits(seen[r], amount[r], MaxBytes) /\ bytes = seen[r]
     THEN bytes' = bytes + amount[r] /\ Goto(r, "prepared")
     ELSE Goto(r, "idle") /\ UNCHANGED bytes
  /\ UNCHANGED <<objects, amount, seen, payload, views>>

(* One turn of that loop; a refusal goes on to return the object slot.     *)
SwapBytes(r) ==
  /\ pc[r] = "bytesSwap"
  /\ \/ /\ ~Admits(seen[r], amount[r], MaxBytes)
        /\ Goto(r, "rollback")
        /\ UNCHANGED <<bytes, seen>>
     \/ /\ Admits(seen[r], amount[r], MaxBytes)
        /\ bytes = seen[r]
        /\ bytes' = bytes + amount[r]
        /\ Goto(r, "prepared")
        /\ UNCHANGED seen
     \/ /\ Admits(seen[r], amount[r], MaxBytes)
        /\ bytes # seen[r]
        /\ seen' = [seen EXCEPT ![r] = bytes]
        /\ UNCHANGED <<bytes, pc>>
  /\ UNCHANGED <<objects, amount, payload, views>>

(* reserve, after a byte refusal: the slot goes back, StorageError::Bytes. *)
Rollback(r) ==
  /\ pc[r] = "rollback"
  /\ objects' = WrapSub(objects, 1)
  /\ Goto(r, "idle")
  /\ UNCHANGED <<bytes, amount, seen, payload, views>>

(* PreparedStorage::allocate: the vector is published only when the        *)
(* allocator delivered it within the admitted capacity; otherwise, as when *)
(* an unselected PreparedStorage is dropped, the reservation is released.  *)
Allocate(r) ==
  /\ pc[r] = "prepared"
  /\ payload' = payload \cup {r}
  /\ Goto(r, "owned")
  /\ UNCHANGED <<bytes, objects, amount, seen, views>>

AllocateFails(r) ==
  /\ pc[r] = "prepared"
  /\ Goto(r, "freeBytes")
  /\ UNCHANGED <<bytes, objects, amount, seen, payload, views>>

(* OwnedStorage::freeze moves the allocation into an Arc.                  *)
Freeze(r) ==
  /\ pc[r] = "owned"
  /\ views' = [views EXCEPT ![r] = 1]
  /\ Goto(r, "shared")
  /\ UNCHANGED <<bytes, objects, amount, seen, payload>>

(* SharedStorage::clone and SharedStorage::slice share the allocation.     *)
Share(r) ==
  /\ pc[r] = "shared"
  /\ views[r] < MaxViews
  /\ views' = [views EXCEPT ![r] = @ + 1]
  /\ UNCHANGED <<bytes, objects, pc, amount, seen, payload>>

(* A view goes away that is not the last one.                              *)
DropView(r) ==
  /\ pc[r] = "shared"
  /\ views[r] > 1
  /\ views' = [views EXCEPT ![r] = @ - 1]
  /\ UNCHANGED <<bytes, objects, pc, amount, seen, payload>>

(* Seeded fault: the reservation is released before the vector is freed.   *)
DropLastChargeFirst(r) ==
  /\ pc[r] = "owned" \/ (pc[r] = "shared" /\ views[r] = 1)
  /\ views' = [views EXCEPT ![r] = 0]
  /\ Goto(r, "freeBytes")
  /\ UNCHANGED <<bytes, objects, amount, seen, payload>>

(* The last owner goes away: Allocation drops `data` first, then the       *)
(* reservation (field order).                                              *)
DropLast(r) ==
  /\ pc[r] = "owned" \/ (pc[r] = "shared" /\ views[r] = 1)
  /\ payload' = payload \ {r}
  /\ views' = [views EXCEPT ![r] = 0]
  /\ Goto(r, "freeBytes")
  /\ UNCHANGED <<bytes, objects, amount, seen>>

(* Reservation::drop: bytes, then the object slot.                         *)
ReleaseBytes(r) ==
  /\ pc[r] = "freeBytes"
  /\ bytes' = WrapSub(bytes, amount[r])
  /\ Goto(r, "freeObject")
  /\ UNCHANGED <<objects, amount, seen, payload, views>>

ReleaseObject(r) ==
  /\ pc[r] = "freeObject"
  /\ objects' = WrapSub(objects, 1)
  /\ Goto(r, "idle")
  /\ UNCHANGED <<bytes, amount, seen, payload, views>>

Next == \E r \in Requests :
  \/ \E n \in Sizes : Prepare(r, n)
  \/ LoadObjects(r) \/ SwapObjects(r)
  \/ LoadBytes(r) \/ SwapBytes(r) \/ Rollback(r)
  \/ Allocate(r) \/ AllocateFails(r)
  \/ Freeze(r) \/ Share(r) \/ DropView(r) \/ DropLast(r)
  \/ ReleaseBytes(r) \/ ReleaseObject(r)

Spec == Init /\ [][Next]_vars

-----------------------------------------------------------------------------
(* The bytes held by a set of requests, one token per byte, so that their  *)
(* number is a cardinality.                                                *)
Tokens(R) == {t \in R \X (1 .. MaxSize) : t[2] <= amount[t[1]]}

(* Types: the counters stay in a machine word and no request carries more  *)
(* than isize::MAX bytes (prepare_filled filters before reserve).          *)
TypeOK ==
  /\ bytes \in 0 .. MaxWord
  /\ objects \in 0 .. MaxWord
  /\ pc \in [Requests -> Locations]
  /\ amount \in [Requests -> 0 .. MaxSize]
  /\ seen \in [Requests -> 0 .. MaxWord]
  /\ payload \subseteq Requests
  /\ views \in [Requests -> 0 .. MaxViews]

(* The counters are exact whatever the interleaving: the object counter    *)
(* counts the requests between a successful slot swap and its give-back,   *)
(* the byte counter the bytes of those that were admitted.  So nothing is  *)
(* leaked by a refusal, released twice, or wrapped below zero (reserve,    *)
(* add_bounded and Reservation::drop).                                     *)
Accounting ==
  /\ objects = Cardinality(HoldsObject)
  /\ bytes = Cardinality(Tokens(HoldsBytes))

(* Neither counter ever passes its allowance, even while several threads   *)
(* race through add_bounded.                                               *)
WithinLimits == bytes <= MaxBytes /\ objects <= MaxObjects

(* Memory that exists is always covered by the counters: the published     *)
(* vectors never hold more bytes, nor are they more numerous, than what is *)
(* charged at that moment (Allocation frees `data` before its              *)
(* reservation; a refused allocation publishes nothing).                   *)
PayloadWithinCharge ==
  /\ Cardinality(Tokens(payload)) <= bytes
  /\ Cardinality(payload) <= objects
=============================================================================
