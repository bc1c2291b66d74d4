------------------------------ MODULE Admission ------------------------------
(***************************************************************************)
(* What a driver may hold and ask for (admission.rs): the choice of an     *)
(* affordable request, the plan of one round of range reads, and the       *)
(* allocations of that round.  Sizes stay below the 64-bit boundary.       *)
(***************************************************************************)
EXTENDS InputWindow

CONSTANTS
  InputBytes,   \* IoLimits.input_bytes: payload the driver may retain
  Ranges,       \* IoLimits.ranges: ranges in one plan
  MaxGap        \* DriveOptions.max_gap: ranges this close are read as one

ASSUME LimitsAreNaturals ==
  InputBytes \in Nat /\ Ranges \in Nat /\ MaxGap \in Nat

Capacity(fetched) == FoldLeft(LAMBDA sum, f : sum + f.cap, 0, fetched)

Affordable(r) ==
  CASE r.kind = "least" -> Greater(r.len, 1) <= InputBytes
    [] r.kind = "range" -> r.len <= InputBytes /\ Ranges > 0
    [] OTHER            -> TRUE

\* The decoder's order of preference holds among what fits: 0 for none.
Select(reqs) ==
  LET fits == {i \in DOMAIN reqs : Affordable(reqs[i])}
  IN  IF fits = {} THEN 0 ELSE Min(fits)

\* decode_async keeps the choice and, beside a range, a bounded number of the
\* others that fit (copy_requests).
Copy(first, count, out, r) ==
  IF Len(out) < count /\ r # first /\ r.kind = "range" /\ r.len <= InputBytes
  THEN Append(out, r) ELSE out

CopyRequests(reqs) ==
  LET first == reqs[Select(reqs)]
      count == IF first.kind = "range" THEN Lesser(Len(reqs), Ranges) ELSE 1
  IN  FoldLeft(LAMBDA out, r : Copy(first, count, out, r), <<first>>, reqs)

(***************************************************************************)
(* The plan of a round: the first range, then the alternatives that fit    *)
(* beside it, in offset order, near neighbours merged while the gap fits.  *)
(***************************************************************************)
Admit(first, plan, r) ==
  IF /\ r.kind = "range" /\ r.len > 0 /\ r # first
     /\ Len(plan.out) < Ranges
     /\ plan.bytes + r.len <= InputBytes
  THEN [out |-> Append(plan.out, r), bytes |-> plan.bytes + r.len]
  ELSE plan

Admitted(first, reqs) ==
  FoldLeft(LAMBDA plan, r : Admit(first, plan, r),
           [out |-> <<first>>, bytes |-> first.len], reqs)

After(a, b) == a.off > b.off \/ (a.off = b.off /\ a.len > b.len)

\* r goes before the first range of a sorted list that is to come after it.
Place(sorted, r) ==
  Min({j \in 1..(Len(sorted) + 1) : j \in DOMAIN sorted => After(sorted[j], r)})

InOrder(out) ==
  FoldLeft(LAMBDA sorted, r : InsertAt(sorted, Place(sorted, r), r), <<>>, out)

Merge(plan, r) ==
  LET last   == plan.out[Len(plan.out)]
      merged == Greater(ReqEnd(last), ReqEnd(r)) - last.off
      extra  == Greater(r.off - ReqEnd(last), 0)
  IN  IF /\ r.off <= ReqEnd(last) + MaxGap
         /\ extra <= Greater(InputBytes - plan.bytes, 0)
      THEN [out   |-> [plan.out EXCEPT ![Len(plan.out)].len = merged],
            bytes |-> plan.bytes - last.len - r.len + merged]
      ELSE [plan EXCEPT !.out = Append(@, r)]

Plan(first, reqs) ==
  LET admitted == Admitted(first, reqs)
      sorted   == InOrder(admitted.out)
  IN  FoldLeft(Merge, [out |-> <<Head(sorted)>>, bytes |-> admitted.bytes],
               Tail(sorted)).out

\* The ranges fetched for later give way when the window needs their room.
MakeRoom(w, fetched, target) ==
  IF Capacity(fetched) + Greater(w.cap, target) > InputBytes
  THEN <<>> ELSE fetched

(***************************************************************************)
(* The buffers of a round reuse the last round's allocations, in order,    *)
(* unless they would not fit together.                                     *)
(***************************************************************************)
OldCap(fetched, i) == IF i \in DOMAIN fetched THEN fetched[i].cap ELSE 0

ReusableAlways(plan, fetched) == TRUE

Reusable(plan, fetched) ==
  FoldLeftDomain(LAMBDA sum, i : sum + Greater(OldCap(fetched, i), plan[i].len),
                 0, plan)
    <= InputBytes

Allocated(plan, fetched) ==
  LET old == IF Reusable(plan, fetched) THEN fetched ELSE <<>>
  IN  [i \in DOMAIN plan |->
         [off   |-> plan[i].off,
          cap   |-> Greater(OldCap(old, i), plan[i].len),
          bytes |-> Zeroed(plan[i].len)]]
==============================================================================
