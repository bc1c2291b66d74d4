------------------------- MODULE StorageBudgetProofs -------------------------
(***************************************************************************)
(* The storage allowance, proved for every set of requests, every limit    *)
(* and every interleaving of the atomic operations of storage.rs.          *)
(*                                                                         *)
(* IInv adds to the checked invariants only where the published payload    *)
(* may be; everything else follows from the exactness of the counters: a   *)
(* reservation being dropped is one of those counted, so neither fetch_sub *)
(* can wrap.                                                               *)
(***************************************************************************)
EXTENDS StorageBudget, FiniteSetTheorems, TLAPS

(* Payload exists only between publication and the drop of its last owner. *)
PayloadPlaces == payload = {r \in Requests : pc[r] \in {"owned", "shared"}}

IInv == TypeOK /\ Accounting /\ WithinLimits /\ PayloadPlaces

-----------------------------------------------------------------------------
(* The byte tokens of R under the amounts f, as a constant expression, so  *)
(* that one lemma serves a state and its successor.                        *)
TokensOf(f, R) == {t \in R \X (1 .. MaxSize) : t[2] <= f[t[1]]}

(* One request holds as many tokens as it has bytes.                       *)
LEMMA TokensOfOne ==
  ASSUME NEW f \in [Requests -> 0 .. MaxSize], NEW r \in Requests
  PROVE  /\ TokensOf(f, {r}) = {r} \X (1 .. f[r])
         /\ IsFiniteSet(TokensOf(f, {r}))
         /\ Cardinality(TokensOf(f, {r})) = f[r]
<1>1. f[r] \in 0 .. MaxSize /\ MaxSize \in Nat
  BY BudgetAssumption
<1>2. TokensOf(f, {r}) = {r} \X (1 .. f[r])
  BY <1>1 DEF TokensOf
<1>3. IsFiniteSet({r}) /\ Cardinality({r}) = 1
  BY FS_Singleton
<1>4. IsFiniteSet(1 .. f[r]) /\ Cardinality(1 .. f[r]) = f[r]
  BY <1>1, FS_Interval
<1>5. /\ IsFiniteSet({r} \X (1 .. f[r]))
      /\ Cardinality({r} \X (1 .. f[r]))
           = Cardinality({r}) * Cardinality(1 .. f[r])
  BY <1>3, <1>4, FS_Product, Zenon
<1>6. Cardinality({r}) * Cardinality(1 .. f[r]) = f[r]
  BY <1>1, <1>3, <1>4
<1>7. QED
  BY <1>2, <1>5, <1>6, Zenon

(* The tokens of finitely many requests are finitely many.                 *)
LEMMA TokensOfFinite ==
  ASSUME NEW f \in [Requests -> 0 .. MaxSize], NEW R \in SUBSET Requests
  PROVE  /\ IsFiniteSet(TokensOf(f, R))
         /\ Cardinality(TokensOf(f, R)) \in Nat
<1>1. IsFiniteSet(R)
  BY BudgetAssumption, FS_Subset
<1>2. IsFiniteSet(1 .. MaxSize)
  BY BudgetAssumption, FS_Interval
<1>3. IsFiniteSet(R \X (1 .. MaxSize))
  BY <1>1, <1>2, FS_Product
<1>4. IsFiniteSet(TokensOf(f, R))
  BY <1>3, FS_Subset DEF TokensOf
<1>5. QED
  BY <1>4, FS_CardinalityType

(* Admitting one more request adds exactly its bytes.                      *)
LEMMA TokensOfAdd ==
  ASSUME NEW f \in [Requests -> 0 .. MaxSize], NEW R \in SUBSET Requests,
         NEW r \in Requests, r \notin R
  PROVE  Cardinality(TokensOf(f, R \cup {r}))
           = Cardinality(TokensOf(f, R)) + f[r]
<1>1. TokensOf(f, R \cup {r}) = TokensOf(f, R) \cup TokensOf(f, {r})
  BY DEF TokensOf
<1>2. TokensOf(f, R) \cap TokensOf(f, {r}) = {}
  BY DEF TokensOf
<1>3. /\ IsFiniteSet(TokensOf(f, R)) /\ IsFiniteSet(TokensOf(f, {r}))
      /\ Cardinality(TokensOf(f, {r})) = f[r]
      /\ Cardinality(TokensOf(f, R)) \in Nat
      /\ f[r] \in Nat
  BY TokensOfOne, TokensOfFinite, BudgetAssumption
<1>4. Cardinality(TokensOf(f, R) \cup TokensOf(f, {r}))
        = Cardinality(TokensOf(f, R)) + Cardinality(TokensOf(f, {r}))
          - Cardinality(TokensOf(f, R) \cap TokensOf(f, {r}))
  BY <1>3, FS_Union
<1>5. Cardinality(TokensOf(f, R) \cap TokensOf(f, {r})) = 0
  BY <1>2, FS_EmptySet
<1>6. Cardinality(TokensOf(f, R)) + Cardinality(TokensOf(f, {r}))
        - Cardinality(TokensOf(f, R) \cap TokensOf(f, {r}))
        = Cardinality(TokensOf(f, R)) + f[r]
  BY <1>3, <1>5
<1>7. QED
  BY <1>1, <1>4, <1>6, Zenon

(* Tokens depend only on the amounts of the requests that hold them.       *)
LEMMA TokensOfAgree ==
  ASSUME NEW f, NEW g, NEW R, \A r \in R : f[r] = g[r]
  PROVE  TokensOf(f, R) = TokensOf(g, R)
BY DEF TokensOf

(* A set of requests gains or loses a member: its count follows.           *)
LEMMA CountAdd ==
  ASSUME NEW R \in SUBSET Requests, NEW r \in Requests, r \notin R
  PROVE  /\ Cardinality(R) \in Nat
         /\ Cardinality(R \cup {r}) = Cardinality(R) + 1
<1>1. IsFiniteSet(R)
  BY BudgetAssumption, FS_Subset
<1>2. QED
  BY <1>1, FS_AddElement, FS_CardinalityType

-----------------------------------------------------------------------------
(* Accounting in terms of TokensOf, in a state and in its successor.       *)
LEMMA AccountingTokens ==
  /\ Accounting <=> /\ objects = Cardinality(HoldsObject)
                    /\ bytes = Cardinality(TokensOf(amount, HoldsBytes))
  /\ Accounting' <=> /\ objects' = Cardinality(HoldsObject')
                     /\ bytes' = Cardinality(TokensOf(amount', HoldsBytes'))
BY DEF Accounting, Tokens, TokensOf

(* A step that keeps the counters, who holds what, and the amounts of the  *)
(* holders keeps the counters exact.                                       *)
LEMMA SameHolders ==
  ASSUME Accounting, UNCHANGED <<bytes, objects>>,
         HoldsObject' = HoldsObject, HoldsBytes' = HoldsBytes,
         \A q \in HoldsBytes : amount'[q] = amount[q]
  PROVE  Accounting'
<1>1. TokensOf(amount', HoldsBytes) = TokensOf(amount, HoldsBytes)
  BY TokensOfAgree
<1>2. QED
  BY <1>1, AccountingTokens

(* A request that holds an object slot is counted: giving the slot back    *)
(* cannot wrap, and leaves the count of the others.                        *)
LEMMA GiveBackObject ==
  ASSUME TypeOK, Accounting, NEW r \in HoldsObject,
         objects' = WrapSub(objects, 1), UNCHANGED <<bytes, amount>>,
         HoldsObject' = HoldsObject \ {r}, HoldsBytes' = HoldsBytes
  PROVE  Accounting' /\ objects' \in 0 .. MaxWord /\ objects' <= objects
<1>1. /\ HoldsObject' \in SUBSET Requests /\ r \in Requests
      /\ r \notin HoldsObject' /\ HoldsObject = HoldsObject' \cup {r}
  BY DEF HoldsObject
<1>2. /\ Cardinality(HoldsObject') \in Nat
      /\ Cardinality(HoldsObject) = Cardinality(HoldsObject') + 1
  BY <1>1, CountAdd
<1>3. objects = Cardinality(HoldsObject') + 1
  BY <1>2, AccountingTokens
<1>4. objects' = Cardinality(HoldsObject')
  BY <1>2, <1>3 DEF WrapSub
<1>5. bytes' = Cardinality(TokensOf(amount', HoldsBytes'))
  BY AccountingTokens
<1>6. QED
  BY <1>2, <1>3, <1>4, <1>5, AccountingTokens, BudgetAssumption DEF TypeOK

(* The same for the bytes of an admitted request.                          *)
LEMMA GiveBackBytes ==
  ASSUME TypeOK, Accounting, NEW r \in HoldsBytes,
         bytes' = WrapSub(bytes, amount[r]), UNCHANGED <<objects, amount>>,
         HoldsBytes' = HoldsBytes \ {r}, HoldsObject' = HoldsObject
  PROVE  Accounting' /\ bytes' \in 0 .. MaxWord /\ bytes' <= bytes
<1>1. /\ HoldsBytes' \in SUBSET Requests /\ r \in Requests
      /\ r \notin HoldsBytes' /\ HoldsBytes = HoldsBytes' \cup {r}
  BY DEF HoldsBytes
<1>2. /\ amount \in [Requests -> 0 .. MaxSize]
      /\ amount[r] \in Nat
  BY <1>1, BudgetAssumption DEF TypeOK
<1>3. Cardinality(TokensOf(amount, HoldsBytes))
        = Cardinality(TokensOf(amount, HoldsBytes')) + amount[r]
  BY <1>1, <1>2, TokensOfAdd
<1>4. Cardinality(TokensOf(amount, HoldsBytes')) \in Nat
  BY <1>1, <1>2, TokensOfFinite
<1>5. bytes = Cardinality(TokensOf(amount, HoldsBytes')) + amount[r]
  BY <1>3, AccountingTokens
<1>6. bytes' = Cardinality(TokensOf(amount, HoldsBytes'))
  BY <1>2, <1>4, <1>5 DEF WrapSub
<1>7. objects' = Cardinality(HoldsObject')
  BY AccountingTokens
<1>8. QED
  BY <1>2, <1>4, <1>5, <1>6, <1>7, AccountingTokens, BudgetAssumption DEF TypeOK

-----------------------------------------------------------------------------
(* Every step preserves the inductive invariant.                           *)
LEMMA NextPreservesIInv == IInv /\ [Next]_vars => IInv'
<1> SUFFICES ASSUME IInv, [Next]_vars
             PROVE  IInv'
  OBVIOUS
<1> USE DEF IInv
<1>1. ASSUME NEW r \in Requests, NEW n \in Sizes, Prepare(r, n)
      PROVE  IInv'
  <2> USE <1>1 DEF Prepare
  <2>1. HoldsObject' = HoldsObject /\ HoldsBytes' = HoldsBytes
    BY DEF TypeOK, Goto, HoldsObject, HoldsBytes
  <2>2. \A q \in HoldsBytes : amount'[q] = amount[q]
    BY DEF TypeOK, HoldsBytes
  <2>3. Accounting'
    BY <2>1, <2>2, SameHolders
  <2>4. TypeOK'
    BY BudgetAssumption DEF TypeOK, Goto, Locations
  <2>5. WithinLimits' /\ PayloadPlaces'
    BY DEF TypeOK, Goto, WithinLimits, PayloadPlaces
  <2>6. QED
    BY <2>3, <2>4, <2>5
<1>2. ASSUME NEW r \in Requests, LoadObjects(r)
      PROVE  IInv'
  <2> USE <1>2 DEF LoadObjects
  <2>1. HoldsObject' = HoldsObject /\ HoldsBytes' = HoldsBytes
    BY DEF TypeOK, Goto, HoldsObject, HoldsBytes
  <2>2. \A q \in HoldsBytes : amount'[q] = amount[q]
    BY DEF TypeOK, HoldsBytes
  <2>3. Accounting'
    BY <2>1, <2>2, SameHolders
  <2>4. TypeOK'
    BY BudgetAssumption DEF TypeOK, Goto, Locations
  <2>5. WithinLimits' /\ PayloadPlaces'
    BY DEF TypeOK, Goto, WithinLimits, PayloadPlaces
  <2>6. QED
    BY <2>3, <2>4, <2>5
<1>3. ASSUME NEW r \in Requests, LoadBytes(r)
      PROVE  IInv'
  <2> USE <1>3 DEF LoadBytes
  <2>1. HoldsObject' = HoldsObject /\ HoldsBytes' = HoldsBytes
    BY DEF TypeOK, Goto, HoldsObject, HoldsBytes
  <2>2. \A q \in HoldsBytes : amount'[q] = amount[q]
    BY DEF TypeOK, HoldsBytes
  <2>3. Accounting'
    BY <2>1, <2>2, SameHolders
  <2>4. TypeOK'
    BY BudgetAssumption DEF TypeOK, Goto, Locations
  <2>5. WithinLimits' /\ PayloadPlaces'
    BY DEF TypeOK, Goto, WithinLimits, PayloadPlaces
  <2>6. QED
    BY <2>3, <2>4, <2>5
<1>4. ASSUME NEW r \in Requests, Allocate(r)
      PROVE  IInv'
  <2> USE <1>4 DEF Allocate
  <2>1. HoldsObject' = HoldsObject /\ HoldsBytes' = HoldsBytes
    BY DEF TypeOK, Goto, HoldsObject, HoldsBytes
  <2>2. \A q \in HoldsBytes : amount'[q] = amount[q]
    BY DEF TypeOK, HoldsBytes
  <2>3. Accounting'
    BY <2>1, <2>2, SameHolders
  <2>4. TypeOK'
    BY BudgetAssumption DEF TypeOK, Goto, Locations
  <2>5. WithinLimits' /\ PayloadPlaces'
    BY DEF TypeOK, Goto, WithinLimits, PayloadPlaces
  <2>6. QED
    BY <2>3, <2>4, <2>5
<1>5. ASSUME NEW r \in Requests, AllocateFails(r)
      PROVE  IInv'
  <2> USE <1>5 DEF AllocateFails
  <2>1. HoldsObject' = HoldsObject /\ HoldsBytes' = HoldsBytes
    BY DEF TypeOK, Goto, HoldsObject, HoldsBytes
  <2>2. \A q \in HoldsBytes : amount'[q] = amount[q]
    BY DEF TypeOK, HoldsBytes
  <2>3. Accounting'
    BY <2>1, <2>2, SameHolders
  <2>4. TypeOK'
    BY BudgetAssumption DEF TypeOK, Goto, Locations
  <2>5. WithinLimits' /\ PayloadPlaces'
    BY DEF TypeOK, Goto, WithinLimits, PayloadPlaces
  <2>6. QED
    BY <2>3, <2>4, <2>5
<1>6. ASSUME NEW r \in Requests, Freeze(r)
      PROVE  IInv'
  <2> USE <1>6 DEF Freeze
  <2>1. HoldsObject' = HoldsObject /\ HoldsBytes' = HoldsBytes
    BY DEF TypeOK, Goto, HoldsObject, HoldsBytes
  <2>2. \A q \in HoldsBytes : amount'[q] = amount[q]
    BY DEF TypeOK, HoldsBytes
  <2>3. Accounting'
    BY <2>1, <2>2, SameHolders
  <2>4. TypeOK'
    BY BudgetAssumption DEF TypeOK, Goto, Locations
  <2>5. WithinLimits' /\ PayloadPlaces'
    BY DEF TypeOK, Goto, WithinLimits, PayloadPlaces
  <2>6. QED
    BY <2>3, <2>4, <2>5
<1>7. ASSUME NEW r \in Requests, Share(r)
      PROVE  IInv'
  <2> USE <1>7 DEF Share
  <2>1. HoldsObject' = HoldsObject /\ HoldsBytes' = HoldsBytes
    BY DEF TypeOK, Goto, HoldsObject, HoldsBytes
  <2>2. \A q \in HoldsBytes : amount'[q] = amount[q]
    BY DEF TypeOK, HoldsBytes
  <2>3. Accounting'
    BY <2>1, <2>2, SameHolders
  <2>4. TypeOK'
    BY BudgetAssumption DEF TypeOK, Goto, Locations
  <2>5. WithinLimits' /\ PayloadPlaces'
    BY DEF TypeOK, Goto, WithinLimits, PayloadPlaces
  <2>6. QED
    BY <2>3, <2>4, <2>5
<1>8. ASSUME NEW r \in Requests, DropView(r)
      PROVE  IInv'
  <2> USE <1>8 DEF DropView
  <2>1. HoldsObject' = HoldsObject /\ HoldsBytes' = HoldsBytes
    BY DEF TypeOK, Goto, HoldsObject, HoldsBytes
  <2>2. \A q \in HoldsBytes : amount'[q] = amount[q]
    BY DEF TypeOK, HoldsBytes
  <2>3. Accounting'
    BY <2>1, <2>2, SameHolders
  <2>4. TypeOK'
    BY BudgetAssumption DEF TypeOK, Goto, Locations
  <2>5. WithinLimits' /\ PayloadPlaces'
    BY DEF TypeOK, Goto, WithinLimits, PayloadPlaces
  <2>6. QED
    BY <2>3, <2>4, <2>5
<1>9. ASSUME NEW r \in Requests, DropLast(r)
      PROVE  IInv'
  <2> USE <1>9 DEF DropLast
  <2>1. HoldsObject' = HoldsObject /\ HoldsBytes' = HoldsBytes
    BY DEF TypeOK, Goto, HoldsObject, HoldsBytes
  <2>2. \A q \in HoldsBytes : amount'[q] = amount[q]
    BY DEF TypeOK, HoldsBytes
  <2>3. Accounting'
    BY <2>1, <2>2, SameHolders
  <2>4. TypeOK'
    BY BudgetAssumption DEF TypeOK, Goto, Locations
  <2>5. WithinLimits' /\ PayloadPlaces'
    BY DEF TypeOK, Goto, WithinLimits, PayloadPlaces
  <2>6. QED
    BY <2>3, <2>4, <2>5
<1>10. ASSUME NEW r \in Requests, SwapObjects(r)
      PROVE  IInv'
  <2>1. CASE objects' = objects
    <3>1. HoldsObject' = HoldsObject /\ HoldsBytes' = HoldsBytes
      BY <1>10, <2>1, BudgetAssumption
         DEF SwapObjects, TypeOK, Goto, HoldsObject, HoldsBytes
    <3>2. Accounting'
      BY <1>10, <2>1, <3>1, SameHolders DEF SwapObjects
    <3>3. TypeOK' /\ WithinLimits' /\ PayloadPlaces'
      BY <1>10, <2>1, BudgetAssumption
         DEF SwapObjects, TypeOK, Goto, Locations, WithinLimits, PayloadPlaces
    <3>4. QED
      BY <3>2, <3>3
  <2>2. CASE objects' # objects
    <3>1. /\ pc[r] = "objectsSwap" /\ pc' = [pc EXCEPT ![r] = "bytesLoad"]
          /\ objects' = objects + 1 /\ objects' <= MaxWord /\ objects' <= MaxObjects
          /\ UNCHANGED <<bytes, amount, seen, payload, views>>
      BY <1>10, <2>2 DEF SwapObjects, Admits, Goto
    <3>2. r \notin HoldsObject /\ HoldsObject \in SUBSET Requests
      BY <3>1 DEF HoldsObject
    <3>3. HoldsObject' = HoldsObject \cup {r} /\ HoldsBytes' = HoldsBytes
      BY <3>1 DEF TypeOK, HoldsObject, HoldsBytes
    <3>4. Accounting'
      BY <3>1, <3>2, <3>3, CountAdd, AccountingTokens DEF TypeOK
    <3>5. TypeOK' /\ WithinLimits' /\ PayloadPlaces'
      BY <3>1, BudgetAssumption
         DEF TypeOK, Locations, WithinLimits, PayloadPlaces
    <3>6. QED
      BY <3>4, <3>5
  <2>3. QED
    BY <2>1, <2>2
<1>11. ASSUME NEW r \in Requests, SwapBytes(r)
      PROVE  IInv'
  <2>1. CASE pc' # [pc EXCEPT ![r] = "prepared"]
    <3>1. HoldsObject' = HoldsObject /\ HoldsBytes' = HoldsBytes
      BY <1>11, <2>1, BudgetAssumption
         DEF SwapBytes, TypeOK, Goto, HoldsObject, HoldsBytes
    <3>2. Accounting'
      BY <1>11, <2>1, <3>1, SameHolders DEF SwapBytes, Goto
    <3>3. TypeOK' /\ WithinLimits' /\ PayloadPlaces'
      BY <1>11, <2>1, BudgetAssumption
         DEF SwapBytes, TypeOK, Goto, Locations, WithinLimits, PayloadPlaces
    <3>4. QED
      BY <3>2, <3>3
  <2>2. CASE pc' = [pc EXCEPT ![r] = "prepared"]
    <3>1. /\ pc[r] = "bytesSwap" /\ pc' = [pc EXCEPT ![r] = "prepared"]
          /\ bytes' = bytes + amount[r] /\ bytes' <= MaxWord /\ bytes' <= MaxBytes
          /\ UNCHANGED <<objects, amount, seen, payload, views>>
      BY <1>11, <2>2 DEF SwapBytes, Admits, Goto, TypeOK
    <3>2. r \notin HoldsBytes /\ HoldsBytes \in SUBSET Requests
      BY <3>1 DEF HoldsBytes
    <3>3. HoldsBytes' = HoldsBytes \cup {r} /\ HoldsObject' = HoldsObject
      BY <3>1 DEF TypeOK, HoldsObject, HoldsBytes
    <3>4. Accounting'
      BY <3>1, <3>2, <3>3, TokensOfAdd, AccountingTokens DEF TypeOK
    <3>5. TypeOK' /\ WithinLimits' /\ PayloadPlaces'
      BY <3>1, BudgetAssumption
         DEF TypeOK, Locations, WithinLimits, PayloadPlaces
    <3>6. QED
      BY <3>4, <3>5
  <2>3. QED
    BY <2>1, <2>2
<1>12. ASSUME NEW r \in Requests, Rollback(r)
      PROVE  IInv'
  <2> USE <1>12 DEF Rollback
  <2>1. /\ r \in HoldsObject /\ HoldsObject' = HoldsObject \ {r}
        /\ HoldsBytes' = HoldsBytes
    BY DEF TypeOK, Goto, HoldsObject, HoldsBytes
  <2>2. Accounting' /\ objects' \in 0 .. MaxWord
        /\ objects' <= objects
    BY <2>1, GiveBackObject
  <2>3. TypeOK' /\ WithinLimits' /\ PayloadPlaces'
    BY <2>2, BudgetAssumption
       DEF TypeOK, Goto, Locations, WithinLimits, PayloadPlaces
  <2>4. QED
    BY <2>2, <2>3
<1>13. ASSUME NEW r \in Requests, ReleaseObject(r)
      PROVE  IInv'
  <2> USE <1>13 DEF ReleaseObject
  <2>1. /\ r \in HoldsObject /\ HoldsObject' = HoldsObject \ {r}
        /\ HoldsBytes' = HoldsBytes
    BY DEF TypeOK, Goto, HoldsObject, HoldsBytes
  <2>2. Accounting' /\ objects' \in 0 .. MaxWord
        /\ objects' <= objects
    BY <2>1, GiveBackObject
  <2>3. TypeOK' /\ WithinLimits' /\ PayloadPlaces'
    BY <2>2, BudgetAssumption
       DEF TypeOK, Goto, Locations, WithinLimits, PayloadPlaces
  <2>4. QED
    BY <2>2, <2>3
<1>14. ASSUME NEW r \in Requests, ReleaseBytes(r)
      PROVE  IInv'
  <2> USE <1>14 DEF ReleaseBytes
  <2>1. /\ r \in HoldsBytes /\ HoldsBytes' = HoldsBytes \ {r}
        /\ HoldsObject' = HoldsObject
    BY DEF TypeOK, Goto, HoldsObject, HoldsBytes
  <2>2. Accounting' /\ bytes' \in 0 .. MaxWord
        /\ bytes' <= bytes
    BY <2>1, GiveBackBytes
  <2>3. TypeOK' /\ WithinLimits' /\ PayloadPlaces'
    BY <2>2, BudgetAssumption
       DEF TypeOK, Goto, Locations, WithinLimits, PayloadPlaces
  <2>4. QED
    BY <2>2, <2>3
<1>15. CASE UNCHANGED vars
  <2>1. HoldsObject' = HoldsObject /\ HoldsBytes' = HoldsBytes
    BY <1>15 DEF vars, HoldsObject, HoldsBytes
  <2>2. Accounting'
    BY <1>15, <2>1, SameHolders DEF vars
  <2>3. QED
    BY <1>15, <2>2 DEF vars, TypeOK, WithinLimits, PayloadPlaces
<1>16. QED
  BY <1>1, <1>2, <1>3, <1>4, <1>5, <1>6, <1>7, <1>8, <1>9, <1>10, <1>11, <1>12, <1>13, <1>14, <1>15 DEF Next

(* The initial budget is empty.                                            *)
LEMMA InitIInv == Init => IInv
<1> SUFFICES ASSUME Init PROVE IInv
  OBVIOUS
<1>1. HoldsObject = {} /\ HoldsBytes = {} /\ TokensOf(amount, HoldsBytes) = {}
  BY DEF Init, HoldsObject, HoldsBytes, TokensOf
<1>2. Accounting
  BY <1>1, FS_EmptySet, AccountingTokens DEF Init
<1>3. TypeOK /\ WithinLimits /\ PayloadPlaces
  BY BudgetAssumption DEF Init, TypeOK, Locations, WithinLimits, PayloadPlaces
<1>4. QED
  BY <1>2, <1>3 DEF IInv

(* The invariant holds throughout.                                         *)
LEMMA SpecIInv == Spec => []IInv
BY InitIInv, NextPreservesIInv, PTL DEF Spec

-----------------------------------------------------------------------------
(* Types hold for every budget (storage.rs: the counters never leave the   *)
(* machine word, no request exceeds isize::MAX).                           *)
THEOREM Typing == Spec => []TypeOK
<1>1. IInv => TypeOK
  BY DEF IInv
<1>2. QED
  BY <1>1, SpecIInv, PTL

(* The counters are exact in every interleaving of reserve, rollback and   *)
(* Reservation::drop: nothing leaks, nothing is released twice.            *)
THEOREM ExactAccounting == Spec => []Accounting
<1>1. IInv => Accounting
  BY DEF IInv
<1>2. QED
  BY <1>1, SpecIInv, PTL

(* The allowances are never exceeded (add_bounded under races).            *)
THEOREM LimitsHold == Spec => []WithinLimits
<1>1. IInv => WithinLimits
  BY DEF IInv
<1>2. QED
  BY <1>1, SpecIInv, PTL

(* Every published vector is charged while it exists (Allocation's field   *)
(* order): payload is within the counters, whatever the other threads do.  *)
THEOREM PayloadCharged == Spec => []PayloadWithinCharge
<1>1. ASSUME IInv PROVE PayloadWithinCharge
  <2>1. /\ payload \subseteq HoldsBytes /\ payload \subseteq HoldsObject
        /\ HoldsBytes \in SUBSET Requests /\ HoldsObject \in SUBSET Requests
    BY <1>1 DEF IInv, PayloadPlaces, HoldsBytes, HoldsObject
  <2>2. TokensOf(amount, payload) \subseteq TokensOf(amount, HoldsBytes)
    BY <2>1 DEF TokensOf
  <2>3. IsFiniteSet(TokensOf(amount, HoldsBytes)) /\ IsFiniteSet(HoldsObject)
    BY <1>1, <2>1, TokensOfFinite, BudgetAssumption, FS_Subset DEF IInv, TypeOK
  <2>4. /\ Cardinality(TokensOf(amount, payload))
             <= Cardinality(TokensOf(amount, HoldsBytes))
        /\ Cardinality(payload) <= Cardinality(HoldsObject)
    BY <2>1, <2>2, <2>3, FS_Subset
  <2>5. QED
    BY <1>1, <2>4, AccountingTokens DEF IInv, PayloadWithinCharge, Tokens, TokensOf
<1>2. QED
  BY <1>1, SpecIInv, PTL
=============================================================================
