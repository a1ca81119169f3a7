------------------------ MODULE EventCollectionProofs ------------------------
(***************************************************************************)
(* Proofs about EventCollection, for any number of handlers and events,    *)
(* any plan limit, batch size and number of requests, and any number of    *)
(* faults.                                                                 *)
(***************************************************************************)
EXTENDS EventCollection, FiniteSetTheorems, TLAPS

(* What a handler can do.                                                  *)
Act(r) ==
    \/ Submit(r) \/ Die(r) \/ Count(r) \/ CountFails(r) \/ Refund(r) \/ RefundFails(r)
    \/ Dedupe(r) \/ DedupeFails(r) \/ Push(r) \/ PushFails(r) \/ Finish(r)

(* A handler has events to append only between the two loops, and no more  *)
(* events than a request may have.                                         *)
Shape ==
    \A r \in Requests :
        /\ pc[r] # "push" => fresh[r] = {}
        /\ Size(r) <= MaxBatch

(* Requests have a size.                                                   *)
LEMMA SizeType ==
    ASSUME TypeOK, NEW r \in Requests
    PROVE  Size(r) \in Nat /\ Cardinality(body[r]) \in Nat
<1>1. body[r] \subseteq Events /\ extra[r] \in Nat
  BY DEF TypeOK
<1>2. Cardinality(body[r]) \in Nat
  BY <1>1, FiniteAssumption, FS_Subset, FS_CardinalityType
<1>3. QED
  BY <1>1, <1>2 DEF Size

-----------------------------------------------------------------------------
(* Types.                                                                  *)

(* The initial state is well-typed.                                        *)
LEMMA InitTypeOK == Init => TypeOK /\ Shape
BY BoundAssumption, FS_EmptySet DEF Init, TypeOK, Shape, Size, Places

(* Each step of a handler keeps the types.                                 *)
LEMMA ActTypeOK ==
    ASSUME TypeOK, NEW r \in Requests, Act(r)
    PROVE  TypeOK'
<1> USE DEF Goto, Respond, shared, mishap, Places
<1>1. ASSUME Fault
      PROVE  /\ faults' \in 0 .. MaxFaults
             /\ deaths' \in 0 .. MaxDeaths
             /\ expiries' \in 0 .. MaxExpiries
  BY <1>1, BoundAssumption DEF Fault, TypeOK
<1>2. CASE Submit(r)
  <2>1. submissions' \in 0 .. MaxSubmissions
    BY <1>2, BoundAssumption DEF Submit, TypeOK
  <2>2. QED
    BY <1>2, <2>1 DEF Submit, TypeOK
<1>3. CASE Die(r)
  <2>1. deaths' \in 0 .. MaxDeaths
    BY <1>3, BoundAssumption DEF Die, TypeOK
  <2>2. QED
    BY <1>3, <2>1, BoundAssumption DEF Die, TypeOK
<1>4. CASE Count(r) \/ CountFails(r) \/ Refund(r) \/ RefundFails(r)
  <2>1. counter' \in Int /\ admitted' \in Nat
    BY <1>4, SizeType DEF Count, CountFails, Refund, RefundFails, TypeOK
  <2>2. QED
    BY <1>1, <1>4, <2>1, BoundAssumption
       DEF Count, CountFails, Refund, RefundFails, TypeOK
<1>5. CASE Dedupe(r) \/ DedupeFails(r)
  BY <1>1, <1>5, BoundAssumption DEF Dedupe, DedupeFails, TypeOK
<1>6. CASE Push(r) \/ PushFails(r)
  <2>1. PICK e \in fresh[r] :
           /\ fresh' = [fresh EXCEPT ![r] = @ \ {e}]
           /\ stream' = stream \/ stream' = [stream EXCEPT ![e] = @ + 1]
    BY <1>6 DEF Push, PushFails
  <2>2. e \in Events /\ stream \in [Events -> Nat]
    BY DEF TypeOK
  <2>3. stream' \in [Events -> Nat]
    BY <2>1, <2>2
  <2>4. QED
    BY <1>1, <1>6, <2>1, <2>3 DEF Push, PushFails, TypeOK
<1>7. CASE Finish(r)
  BY <1>7, BoundAssumption DEF Finish, TypeOK
<1>8. QED
  BY <1>2, <1>3, <1>4, <1>5, <1>6, <1>7 DEF Act

(* No handler touches another one's request.                               *)
LEMMA OthersKeepRequest ==
    ASSUME TypeOK, NEW r \in Requests, NEW q \in Requests, q # r, Act(r)
    PROVE  /\ pc'[q] = pc[q]
           /\ body'[q] = body[q]
           /\ extra'[q] = extra[q]
           /\ fresh'[q] = fresh[q]
<1> USE DEF TypeOK, Goto, Respond
<1>1. CASE Submit(r) \/ Die(r) \/ Finish(r)
  BY <1>1 DEF Submit, Die, Finish
<1>2. CASE Count(r) \/ CountFails(r) \/ Refund(r) \/ RefundFails(r)
  BY <1>2 DEF Count, CountFails, Refund, RefundFails
<1>3. CASE Dedupe(r) \/ DedupeFails(r) \/ Push(r) \/ PushFails(r)
  BY <1>3 DEF Dedupe, DedupeFails, Push, PushFails
<1>4. QED
  BY <1>1, <1>2, <1>3 DEF Act

(* Each step of a handler keeps the shape of the requests.                 *)
LEMMA ActShape ==
    ASSUME TypeOK, Shape, NEW r \in Requests, Act(r)
    PROVE  Shape'
<1> USE DEF TypeOK, Goto
<1>1. ASSUME NEW q \in Requests, q # r
      PROVE  (pc'[q] # "push" => fresh'[q] = {}) /\ Size(q)' <= MaxBatch
  BY <1>1, OthersKeepRequest DEF Shape, Size
<1>2. pc'[r] # "push" => fresh'[r] = {}
  BY DEF Act, Respond, Shape, Submit, Die, Count, CountFails, Refund, RefundFails,
     Dedupe, DedupeFails, Push, PushFails, Finish
<1>3. Size(r)' <= MaxBatch
  <2>1. CASE Submit(r)
    BY <2>1 DEF Submit, Size
  <2>2. CASE Die(r) \/ Refund(r) \/ RefundFails(r) \/ DedupeFails(r) \/ Finish(r)
    <3>1. body'[r] = {} /\ extra'[r] = 0
      BY <2>2 DEF Die, Refund, RefundFails, DedupeFails, Finish, Respond
    <3>2. QED
      BY <3>1, FS_EmptySet, BoundAssumption DEF Size
  <2>3. CASE Count(r) \/ CountFails(r) \/ Dedupe(r) \/ Push(r) \/ PushFails(r)
    BY <2>3 DEF Count, CountFails, Dedupe, Push, PushFails, Shape, Size
  <2>4. QED
    BY <2>1, <2>2, <2>3 DEF Act
<1>4. QED
  BY <1>1, <1>2, <1>3 DEF Shape

(* Every step keeps the types and the shape.                               *)
LEMMA NextTypeOK == TypeOK /\ Shape /\ [Next]_vars => TypeOK' /\ Shape'
<1> SUFFICES ASSUME TypeOK, Shape, [Next]_vars PROVE TypeOK' /\ Shape'
  OBVIOUS
<1>1. CASE Expire
  <2>1. expiries' \in 0 .. MaxExpiries
    BY <1>1, BoundAssumption DEF Expire, TypeOK
  <2>2. QED
    BY <1>1, <2>1 DEF Expire, request, TypeOK, Shape, Size
<1>2. CASE UNCHANGED vars
  BY <1>2 DEF vars, shared, request, mishap, TypeOK, Shape, Size
<1>3. ASSUME NEW r \in Requests, Act(r) PROVE TypeOK' /\ Shape'
  BY <1>3, ActTypeOK, ActShape
<1>4. QED
  BY <1>1, <1>2, <1>3 DEF Next, Act

(* Both hold in every reachable state.                                     *)
LEMMA ShapeCorrect == Spec => [](TypeOK /\ Shape)
BY InitTypeOK, NextTypeOK, PTL DEF Spec

(* The counter, the keys, the stream and the handlers' requests are well   *)
(* typed in every reachable state.                                         *)
THEOREM TypeCorrect == Spec => []TypeOK
BY ShapeCorrect, PTL

-----------------------------------------------------------------------------
(* The quota.                                                              *)

(* What handler r is about to give back.                                   *)
Due(r) == IF pc[r] = "refund" THEN Size(r) ELSE 0

(* Counting a set of pairs that has n pairs of handler r.                  *)
LEMMA SplitCount ==
    ASSUME NEW O \in SUBSET (Requests \X (1 .. MaxBatch)), NEW r \in Requests,
           NEW n \in 0 .. MaxBatch,
           \A i \in 1 .. MaxBatch : <<r, i>> \in O <=> i <= n
    PROVE  /\ IsFiniteSet(O)
           /\ Cardinality({p \in O : p[1] # r}) \in Nat
           /\ Cardinality(O) = Cardinality({p \in O : p[1] # r}) + n
<1> DEFINE Rest == {p \in O : p[1] # r}
           Own == {r} \X (1 .. n)
<1>1. IsFiniteSet(1 .. n) /\ Cardinality(1 .. n) = n
  BY FS_Interval
<1>2. IsFiniteSet({r}) /\ Cardinality({r}) = 1
  BY FS_Singleton
<1>3. IsFiniteSet(Own) /\ Cardinality(Own) = n
  <2>1. IsFiniteSet(Own) /\ Cardinality(Own) = 1 * n
    <3>1. /\ IsFiniteSet(Own)
          /\ Cardinality(Own) = Cardinality({r}) * Cardinality(1 .. n)
      BY <1>1, <1>2, FS_Product
    <3>2. QED
      BY <1>1, <1>2, <3>1
  <2>2. 1 * n = n
    <3>1. n \in Nat
      OBVIOUS
    <3>2. \A k \in Nat : 1 * k = k
      OBVIOUS
    <3>3. QED
      BY <3>1, <3>2
  <2>3. QED
    BY <2>1, <2>2
<1>4. IsFiniteSet(O)
  <2>1. IsFiniteSet(1 .. MaxBatch)
    BY BoundAssumption, FS_Interval
  <2>2. IsFiniteSet(Requests \X (1 .. MaxBatch))
    BY <2>1, FiniteAssumption, FS_Product
  <2>3. QED
    BY <2>2, FS_Subset
<1>5. IsFiniteSet(Rest) /\ Cardinality(Rest) \in Nat
  BY <1>4, FS_Subset, FS_CardinalityType
<1>6. O = Rest \cup Own
  <2>1. ASSUME NEW p \in O PROVE p \in Rest \cup Own
    <3>1. PICK q \in Requests, i \in 1 .. MaxBatch : p = <<q, i>>
      BY <2>1
    <3>2. CASE q = r
      BY <2>1, <3>1, <3>2
    <3>3. CASE q # r
      BY <2>1, <3>1, <3>3
    <3>4. QED
      BY <3>2, <3>3
  <2>2. ASSUME NEW i \in 1 .. n PROVE <<r, i>> \in O
    BY BoundAssumption
  <2>3. QED
    BY <2>1, <2>2
<1>7. Rest \cap Own = {}
  OBVIOUS
<1>8. Cardinality(O) = Cardinality(Rest) + Cardinality(Own) - Cardinality(Rest \cap Own)
  BY <1>3, <1>5, <1>6, FS_Union
<1>9. QED
  BY <1>3, <1>4, <1>5, <1>7, <1>8, FS_EmptySet

(* A step of handler r changes what is owed by its own part.               *)
LEMMA OwedStep ==
    ASSUME TypeOK, Shape, NEW r \in Requests, Act(r)
    PROVE  /\ Cardinality(Owed) \in Nat
           /\ Due(r) \in 0 .. Cardinality(Owed)
           /\ Due(r)' \in Nat
           /\ Cardinality(Owed') = Cardinality(Owed) - Due(r) + Due(r)'
<1> DEFINE Rest == {p \in Owed : p[1] # r}
           RestAfter == {p \in Owed' : p[1] # r}
<1>1. TypeOK' /\ Shape'
  BY ActTypeOK, ActShape
<1>2. Due(r) \in 0 .. MaxBatch
  BY SizeType, BoundAssumption DEF Due, Shape
<1>3. Due(r)' \in 0 .. MaxBatch
  <2>1. /\ body'[r] \subseteq Events /\ extra'[r] \in Nat
    BY <1>1 DEF TypeOK
  <2>2. Cardinality(body'[r]) \in Nat
    BY <2>1, FiniteAssumption, FS_Subset, FS_CardinalityType
  <2>3. QED
    BY <1>1, <2>1, <2>2, BoundAssumption DEF Due, Shape, Size
<1>4. /\ Cardinality(Rest) \in Nat
      /\ Cardinality(Owed) = Cardinality(Rest) + Due(r)
  <2>1. \A i \in 1 .. MaxBatch : <<r, i>> \in Owed <=> i <= Due(r)
    BY DEF Owed, Due
  <2>2. Owed \in SUBSET (Requests \X (1 .. MaxBatch))
    BY DEF Owed
  <2>3. QED
    BY <1>2, <2>1, <2>2, SplitCount
<1>5. Cardinality(Owed') = Cardinality(RestAfter) + Due(r)'
  <2>1. \A i \in 1 .. MaxBatch : <<r, i>> \in Owed' <=> i <= Due(r)'
    BY DEF Owed, Due
  <2>2. Owed' \in SUBSET (Requests \X (1 .. MaxBatch))
    BY DEF Owed
  <2>3. QED
    BY <1>3, <2>1, <2>2, SplitCount
<1>6. RestAfter = Rest
  <2>1. ASSUME NEW q \in Requests, q # r
        PROVE  pc'[q] = pc[q] /\ Size(q)' = Size(q)
    BY <2>1, OthersKeepRequest DEF Size
  <2>2. ASSUME NEW q \in Requests, q # r, NEW i \in 1 .. MaxBatch
        PROVE  <<q, i>> \in Owed' <=> <<q, i>> \in Owed
    BY <2>1, <2>2 DEF Owed
  <2>3. ASSUME NEW p \in Requests \X (1 .. MaxBatch), p[1] # r
        PROVE  p \in Owed' <=> p \in Owed
    <3>1. p[1] \in Requests /\ p[2] \in 1 .. MaxBatch /\ p = <<p[1], p[2]>>
      BY <2>3
    <3>2. QED
      BY <2>2, <2>3, <3>1
  <2>4. Owed \subseteq Requests \X (1 .. MaxBatch) /\ Owed' \subseteq Requests \X (1 .. MaxBatch)
    BY DEF Owed
  <2>5. QED
    BY <2>3, <2>4
<1> HIDE DEF Rest, RestAfter
<1>7. Due(r) \in Nat /\ Due(r)' \in Nat
  BY <1>2, <1>3, BoundAssumption
<1>8. Cardinality(Owed') = Cardinality(Rest) + Due(r)'
  BY <1>5, <1>6
<1>9. QED
  BY <1>4, <1>7, <1>8

(* The inductive invariant of the counter: it covers what was let in and   *)
(* what is to be given back, and a request is let in only while that stays *)
(* within the limit.                                                       *)
QuotaInv == QuotaHolds /\ RefundsBalance

(* Each step of a handler keeps what the counter covers.                   *)
LEMMA ActQuota ==
    ASSUME TypeOK, Shape, QuotaInv, NEW r \in Requests, Act(r)
    PROVE  QuotaInv'
<1> DEFINE owed == Cardinality(Owed)
           size == Size(r)
<1>1. /\ counter \in Int /\ admitted \in Nat /\ EventLimit \in Nat
      /\ faults \in Nat /\ deaths \in Nat
      /\ owed \in Nat /\ size \in Nat
  BY OwedStep, SizeType, LimitAssumption, BoundAssumption DEF TypeOK
<1>2. /\ admitted <= EventLimit
      /\ counter >= admitted + owed
      /\ faults + deaths = 0 => counter = admitted + owed
  BY DEF QuotaInv, QuotaHolds, RefundsBalance
<1>3. /\ Due(r) \in 0 .. owed
      /\ Due(r)' \in Nat
      /\ Cardinality(Owed') = owed - Due(r) + Due(r)'
  BY OwedStep
<1> HIDE DEF owed, size
<1>4. SUFFICES /\ admitted' <= EventLimit
               /\ counter' >= admitted' + Cardinality(Owed')
               /\ faults' + deaths' = 0 => counter' = admitted' + Cardinality(Owed')
  BY DEF QuotaInv, QuotaHolds, RefundsBalance
<1>5. CASE \/ Submit(r) \/ Dedupe(r) \/ DedupeFails(r)
           \/ Push(r) \/ PushFails(r) \/ Finish(r)
  <2>1. Due(r) = 0 /\ Due(r)' = 0
    BY <1>5 DEF Due, Goto, Respond, TypeOK, Submit, Dedupe, DedupeFails, Push,
         PushFails, Finish
  <2>2. UNCHANGED <<counter, admitted>>
    BY <1>5 DEF Submit, Dedupe, DedupeFails, Push, PushFails, Finish, shared
  <2>3. faults' + deaths' = 0 => faults + deaths = 0
    BY <1>1, <1>5 DEF Submit, Dedupe, DedupeFails, Push, PushFails, Finish, mishap, Fault
  <2>4. QED
    BY <1>1, <1>2, <1>3, <2>1, <2>2, <2>3
<1>6. CASE Die(r)
  <2>1. Due(r)' = 0
    BY <1>6 DEF Due, Die, Goto, Respond, TypeOK
  <2>2. UNCHANGED <<counter, admitted, faults>> /\ deaths' = deaths + 1
    BY <1>6 DEF Die, shared
  <2>3. QED
    BY <1>1, <1>2, <1>3, <2>1, <2>2
<1>7. CASE Count(r)
  <2>1. /\ Due(r) = 0
        /\ counter' = counter + size
        /\ UNCHANGED <<faults, deaths>>
    BY <1>7 DEF Due, Count, mishap, size
  <2>2. CASE counter + size > EventLimit
    <3>1. Due(r)' = size /\ admitted' = admitted
      BY <1>7, <2>2 DEF Due, Count, Goto, TypeOK, size, Size
    <3>2. QED
      BY <1>1, <1>2, <1>3, <2>1, <3>1
  <2>3. CASE ~(counter + size > EventLimit)
    <3>1. Due(r)' = 0 /\ admitted' = admitted + size
      BY <1>7, <2>3 DEF Due, Count, Goto, TypeOK, size
    <3>2. QED
      BY <1>1, <1>2, <1>3, <2>1, <2>3, <3>1
  <2>4. QED
    BY <2>2, <2>3
<1>8. CASE CountFails(r)
  <2>1. /\ Due(r) = 0 /\ Due(r)' = 0
        /\ counter' = counter \/ counter' = counter + size
        /\ admitted' = admitted
        /\ faults' = faults + 1 /\ deaths' = deaths
    BY <1>8 DEF Due, CountFails, Fault, Goto, TypeOK, size
  <2>2. QED
    BY <1>1, <1>2, <1>3, <2>1
<1>9. CASE Refund(r)
  <2>1. /\ Due(r) = size /\ Due(r)' = 0
        /\ counter' = counter - size
        /\ UNCHANGED <<admitted, faults, deaths>>
    BY <1>9 DEF Due, Refund, Respond, Goto, TypeOK, mishap, size
  <2>2. QED
    BY <1>1, <1>2, <1>3, <2>1
<1>10. CASE RefundFails(r)
  <2>1. /\ Due(r) = size /\ Due(r)' = 0
        /\ counter' = counter \/ counter' = counter - size
        /\ admitted' = admitted
        /\ faults' = faults + 1 /\ deaths' = deaths
    BY <1>10 DEF Due, RefundFails, Fault, Respond, Goto, TypeOK, size
  <2>2. QED
    BY <1>1, <1>2, <1>3, <2>1
<1>11. QED
  BY <1>5, <1>6, <1>7, <1>8, <1>9, <1>10 DEF Act

(* So does every step.                                                     *)
LEMMA NextQuota == TypeOK /\ Shape /\ QuotaInv /\ [Next]_vars => QuotaInv'
<1> SUFFICES ASSUME TypeOK, Shape, QuotaInv, [Next]_vars PROVE QuotaInv'
  OBVIOUS
<1>1. CASE Expire \/ UNCHANGED vars
  BY <1>1 DEF Expire, vars, shared, request, mishap, QuotaInv, QuotaHolds,
       RefundsBalance, Owed, Size
<1>2. ASSUME NEW r \in Requests, Act(r) PROVE QuotaInv'
  BY <1>2, ActQuota
<1>3. QED
  BY <1>1, <1>2 DEF Next, Act

(* The counter covers what was let in, in every reachable state.           *)
LEMMA QuotaCorrect == Spec => []QuotaInv
<1>1. Init => QuotaInv
  <2> SUFFICES ASSUME Init PROVE QuotaInv
    OBVIOUS
  <2>1. Owed = {} /\ counter = 0 /\ admitted = 0
    BY DEF Init, Owed
  <2>2. QED
    BY <2>1, FS_EmptySet, LimitAssumption DEF QuotaInv, QuotaHolds, RefundsBalance
<1>2. QED
  BY <1>1, NextQuota, ShapeCorrect, PTL DEF Spec

(* However requests overlap, the events that a working check let in never  *)
(* exceed the plan's limit.                                                *)
THEOREM QuotaSafe == Spec => []QuotaHolds
<1>1. QuotaInv => QuotaHolds
  BY DEF QuotaInv
<1>2. QED
  BY <1>1, QuotaCorrect, PTL

(* The counter is what was let in and what is about to be given back, and  *)
(* a failure leaves more in it, never less.                                *)
THEOREM RefundsSafe == Spec => []RefundsBalance
<1>1. QuotaInv => RefundsBalance
  BY DEF QuotaInv
<1>2. QED
  BY <1>1, QuotaCorrect, PTL

-----------------------------------------------------------------------------
(* How often an event is appended.                                         *)

(* The handlers that still have to append e.                               *)
Holders(e) == {r \in Requests : e \in fresh[r]}

FreeKeys(e) == IF e \in dedupe THEN 0 ELSE 1

(* An entry of the stream, a handler about to append one and a key that is *)
(* free each stand for one use of the key of the event.                    *)
OnceInv ==
    \A e \in Events :
        stream[e] + Cardinality(Holders(e)) + FreeKeys(e) <= 1 + expiries

(* The handlers about to append an event can be counted.                   *)
LEMMA HoldersFinite ==
    ASSUME NEW e
    PROVE  IsFiniteSet(Holders(e)) /\ Cardinality(Holders(e)) \in Nat
<1>1. Holders(e) \subseteq Requests
  BY DEF Holders
<1>2. IsFiniteSet(Holders(e))
  BY <1>1, FiniteAssumption, FS_Subset
<1>3. QED
  BY <1>2, FS_CardinalityType

(* A step of handler r changes the holders by r at most.                   *)
LEMMA HoldersStep ==
    ASSUME TypeOK, NEW r \in Requests, Act(r), NEW e
    PROVE  /\ Cardinality(Holders(e)') \in Nat
           /\ Cardinality(Holders(e)') <= Cardinality(Holders(e)) + 1
           /\ (e \in fresh'[r] => e \in fresh[r]) =>
                 Cardinality(Holders(e)') <= Cardinality(Holders(e))
           /\ e \in fresh[r] /\ e \notin fresh'[r] =>
                 Cardinality(Holders(e)') = Cardinality(Holders(e)) - 1
<1> DEFINE C == Holders(e)
           D == Holders(e)'
<1>1. /\ D \subseteq C \cup {r}
      /\ C \subseteq D \cup {r}
      /\ r \in C <=> e \in fresh[r]
      /\ r \in D <=> e \in fresh'[r]
  <2>1. ASSUME NEW q \in Requests, q # r PROVE fresh'[q] = fresh[q]
    BY <2>1, OthersKeepRequest
  <2>2. QED
    BY <2>1 DEF Holders
<1>2. IsFiniteSet(C) /\ Cardinality(C) \in Nat
  BY HoldersFinite
<1> HIDE DEF C, D
<1>3. /\ IsFiniteSet(C \cup {r})
      /\ Cardinality(C \cup {r}) <= Cardinality(C) + 1
  <2>1. /\ IsFiniteSet(C \cup {r})
        /\ Cardinality(C \cup {r}) =
              IF r \in C THEN Cardinality(C) ELSE Cardinality(C) + 1
    BY <1>2, FS_AddElement
  <2>2. QED
    BY <1>2, <2>1
<1>4. IsFiniteSet(D) /\ Cardinality(D) <= Cardinality(C \cup {r})
  BY <1>1, <1>3, FS_Subset
<1>5. Cardinality(D) \in Nat /\ Cardinality(C \cup {r}) \in Nat
  BY <1>3, <1>4, FS_CardinalityType
<1>6. (r \in D => r \in C) => Cardinality(D) <= Cardinality(C)
  <2>1. (r \in D => r \in C) => D \subseteq C
    BY <1>1
  <2>2. QED
    BY <1>2, <2>1, FS_Subset
<1>7. r \in C /\ r \notin D => Cardinality(D) = Cardinality(C) - 1
  <2>1. r \in C /\ r \notin D => D = C \ {r}
    BY <1>1
  <2>2. QED
    BY <1>2, <2>1, FS_RemoveElement
<1>8. Cardinality(D) <= Cardinality(C) + 1
  BY <1>2, <1>3, <1>4, <1>5
<1>9. QED
  BY <1>1, <1>5, <1>6, <1>7, <1>8 DEF C, D

(* No step of a handler makes a use of the key out of nothing.             *)
LEMMA ActOnce ==
    ASSUME TypeOK, OnceInv, NEW r \in Requests, Act(r)
    PROVE  OnceInv'
<1> SUFFICES ASSUME NEW e \in Events
             PROVE  stream'[e] + Cardinality(Holders(e)') + FreeKeys(e)' <= 1 + expiries'
  BY DEF OnceInv
<1> DEFINE c == Cardinality(Holders(e))
           d == Cardinality(Holders(e)')
<1>1. /\ c \in Nat /\ d \in Nat
      /\ stream[e] \in Nat
      /\ expiries \in Nat
      /\ stream[e] + c + FreeKeys(e) <= 1 + expiries
  BY HoldersFinite, HoldersStep, BoundAssumption DEF OnceInv, TypeOK
<1>2. FreeKeys(e) \in 0 .. 1 /\ FreeKeys(e)' \in 0 .. 1
  BY DEF FreeKeys
<1>3. expiries' = expiries /\ dedupe \subseteq dedupe'
  BY DEF Act, Submit, Die, Count, CountFails, Refund, RefundFails, Dedupe, DedupeFails,
     Push, PushFails, Finish, Fault, shared, mishap
<1>4. FreeKeys(e)' <= FreeKeys(e)
  BY <1>3 DEF FreeKeys
<1>5. /\ d <= c + 1
      /\ (e \in fresh'[r] => e \in fresh[r]) => d <= c
      /\ e \in fresh[r] /\ e \notin fresh'[r] => d = c - 1
  BY HoldersStep
<1> HIDE DEF c, d
<1>6. CASE Dedupe(r)
  <2>1. /\ stream' = stream
        /\ dedupe' = dedupe \cup body[r]
        /\ fresh'[r] = body[r] \ dedupe
    BY <1>6 DEF Dedupe, TypeOK
  <2>2. CASE e \in body[r] \ dedupe
    <3>1. FreeKeys(e) = 1 /\ FreeKeys(e)' = 0
      BY <2>1, <2>2 DEF FreeKeys
    <3>2. QED
      BY <1>1, <1>3, <1>5, <2>1, <3>1 DEF d
  <2>3. CASE e \notin body[r] \ dedupe
    <3>1. d <= c
      BY <1>5, <2>1, <2>3
    <3>2. QED
      BY <1>1, <1>2, <1>3, <1>4, <2>1, <3>1 DEF d
  <2>4. QED
    BY <2>2, <2>3
<1>7. CASE Push(r) \/ PushFails(r)
  <2>1. PICK x \in fresh[r] :
           /\ fresh' = [fresh EXCEPT ![r] = @ \ {x}]
           /\ stream' = stream \/ stream' = [stream EXCEPT ![x] = @ + 1]
    BY <1>7 DEF Push, PushFails
  <2>2. fresh'[r] = fresh[r] \ {x}
    BY <2>1 DEF TypeOK
  <2>3. CASE e = x
    <3>1. d = c - 1
      BY <1>5, <2>1, <2>2, <2>3
    <3>2. stream'[e] \in Nat /\ stream'[e] <= stream[e] + 1
      BY <1>1, <2>1, <2>3 DEF TypeOK
    <3>3. QED
      BY <1>1, <1>2, <1>3, <1>4, <3>1, <3>2 DEF d
  <2>4. CASE e # x
    <3>1. d <= c
      BY <1>5, <2>2
    <3>2. stream'[e] = stream[e]
      BY <2>1, <2>4 DEF TypeOK
    <3>3. QED
      BY <1>1, <1>2, <1>3, <1>4, <3>1, <3>2 DEF d
  <2>5. QED
    BY <2>3, <2>4
<1>8. CASE ~(Dedupe(r) \/ Push(r) \/ PushFails(r))
  <2>1. stream' = stream /\ fresh'[r] \subseteq fresh[r]
    BY <1>8 DEF Act, Submit, Die, Count, CountFails, Refund, RefundFails, DedupeFails,
       Finish, Respond, shared, TypeOK
  <2>2. d <= c
    BY <1>5, <2>1
  <2>3. QED
    BY <1>1, <1>2, <1>3, <1>4, <2>1, <2>2 DEF d
<1>9. QED
  BY <1>6, <1>7, <1>8

(* Every step keeps the balance.                                           *)
LEMMA NextOnce == TypeOK /\ Shape /\ OnceInv /\ [Next]_vars => OnceInv'
<1> SUFFICES ASSUME TypeOK, Shape, OnceInv, [Next]_vars PROVE OnceInv'
  OBVIOUS
<1>1. CASE Expire \/ UNCHANGED vars
  <2>1. UNCHANGED <<stream, fresh>>
    BY <1>1 DEF Expire, vars, shared, request
  <2>2. \A e : Holders(e)' = Holders(e)
    BY <2>1 DEF Holders
  <2>3. ASSUME NEW e \in Events
        PROVE  FreeKeys(e)' + expiries <= FreeKeys(e) + expiries'
    BY <1>1, BoundAssumption DEF Expire, vars, shared, mishap, FreeKeys, TypeOK
  <2>4. ASSUME NEW e \in Events
        PROVE  /\ stream[e] \in Nat /\ Cardinality(Holders(e)) \in Nat
               /\ FreeKeys(e) \in Nat /\ FreeKeys(e)' \in Nat
               /\ expiries \in Nat /\ expiries' \in Nat
    BY HoldersFinite, NextTypeOK, BoundAssumption DEF TypeOK, FreeKeys
  <2>5. QED
    BY <2>1, <2>2, <2>3, <2>4 DEF OnceInv
<1>2. ASSUME NEW r \in Requests, Act(r) PROVE OnceInv'
  BY <1>2, ActOnce
<1>3. QED
  BY <1>1, <1>2 DEF Next, Act

(* An event is appended to the stream at most once for every time its      *)
(* dedupe key can be taken.                                                *)
THEOREM OnceSafe == Spec => []OncePerKey
<1>1. Init => OnceInv
  <2> SUFFICES ASSUME Init, NEW e \in Events
               PROVE  stream[e] + Cardinality(Holders(e)) + FreeKeys(e) <= 1 + expiries
    BY DEF OnceInv
  <2>1. Holders(e) = {} /\ stream[e] = 0 /\ FreeKeys(e) = 1 /\ expiries = 0
    BY DEF Init, Holders, FreeKeys
  <2>2. QED
    BY <2>1, FS_EmptySet
<1>2. TypeOK /\ OnceInv => OncePerKey
  <2> SUFFICES ASSUME TypeOK, OnceInv, NEW e \in Events
               PROVE  stream[e] <= 1 + expiries
    BY DEF OncePerKey
  <2>1. /\ stream[e] + Cardinality(Holders(e)) + FreeKeys(e) <= 1 + expiries
        /\ stream[e] \in Nat /\ Cardinality(Holders(e)) \in Nat
        /\ FreeKeys(e) \in Nat /\ expiries \in Nat
    BY HoldersFinite, BoundAssumption DEF OnceInv, TypeOK, FreeKeys
  <2>2. QED
    BY <2>1
<1>3. QED
  BY <1>1, <1>2, NextOnce, ShapeCorrect, PTL DEF Spec

-----------------------------------------------------------------------------
(* When an event is lost.                                                  *)

(* While no call fails and no process dies, a handler that holds an event  *)
(* appends it.                                                             *)
LEMMA HeldIsPushed ==
    ASSUME TypeOK, Shape, NEW r \in Requests, Act(r), faults' + deaths' = 0,
           NEW e \in Events, stream[e] > 0 \/ Pending(e)
    PROVE  stream'[e] > 0 \/ Pending(e)'
<1>1. /\ faults \in Nat /\ deaths \in Nat
      /\ stream \in [Events -> Nat]
  BY BoundAssumption DEF TypeOK
<1>2. ~Fault /\ ~Die(r)
  BY <1>1 DEF Fault, Die
<1>3. CASE Push(r)
  <2>1. PICK x \in fresh[r] :
           /\ fresh' = [fresh EXCEPT ![r] = @ \ {x}]
           /\ stream' = [stream EXCEPT ![x] = @ + 1]
    BY <1>3 DEF Push
  <2>2. CASE stream[e] > 0 \/ e = x
    BY <1>1, <2>1, <2>2
  <2>3. CASE ~(stream[e] > 0 \/ e = x)
    <3>1. PICK q \in Requests : e \in fresh[q]
      BY <2>3 DEF Pending
    <3>2. e \in fresh'[q]
      BY <2>1, <2>3, <3>1 DEF TypeOK
    <3>3. QED
      BY <3>2 DEF Pending
  <2>4. QED
    BY <2>2, <2>3
<1>4. CASE ~Push(r)
  <2>1. stream' = stream
    BY <1>2, <1>4 DEF Act, Submit, Count, CountFails, Refund, RefundFails, Dedupe,
       DedupeFails, PushFails, Finish, shared
  <2>2. fresh[r] \subseteq fresh'[r]
    <3>1. fresh[r] = {} \/ fresh'[r] = fresh[r]
      BY <1>2, <1>4 DEF Act, Shape, Submit, Count, CountFails, Refund, RefundFails,
         Dedupe, DedupeFails, PushFails, Finish
    <3>2. QED
      BY <3>1
  <2>3. \A q \in Requests : e \in fresh[q] => e \in fresh'[q]
    BY <2>2, OthersKeepRequest
  <2>4. QED
    BY <2>1, <2>3 DEF Pending
<1>5. QED
  BY <1>3, <1>4

(* Two counters that add up to nothing.                                    *)
LEMMA NoneOfBoth ==
    ASSUME NEW x \in Nat, NEW y \in Nat
    PROVE  ~(x + y > 0) => x = 0 /\ y = 0
OBVIOUS

(* Each step of a handler that goes well keeps or appends what it holds.   *)
LEMMA ActLoss ==
    ASSUME TypeOK, Shape, LossExplained, NEW r \in Requests, Act(r)
    PROVE  LossExplained'
<1>1. TypeOK'
  BY ActTypeOK
<1>2. /\ faults \in Nat /\ deaths \in Nat
      /\ faults' \in Nat /\ deaths' \in Nat
  BY <1>1, BoundAssumption DEF TypeOK
<1>3. ~(faults' + deaths' > 0) => faults' = 0 /\ deaths' = 0
  BY <1>2, NoneOfBoth
<1> SUFFICES ASSUME NEW e \in dedupe', faults' = 0 /\ deaths' = 0
             PROVE  stream'[e] > 0 \/ Pending(e)'
  BY <1>3 DEF LossExplained
<1>4. e \in Events
  BY <1>1 DEF TypeOK
<1>5. ~Fault /\ ~Die(r) /\ faults + deaths = 0
  <2>1. ~Fault /\ ~Die(r)
    <3>1. faults' # faults + 1 /\ deaths' # deaths + 1
      BY <1>2
    <3>2. QED
      BY <3>1 DEF Fault, Die
  <2>2. UNCHANGED <<faults, deaths>>
    BY <2>1 DEF Act, Submit, Count, CountFails, Refund, RefundFails, Dedupe,
       DedupeFails, Push, PushFails, Finish, mishap
  <2>3. QED
    BY <2>2, <2>1
<1>6. CASE e \in dedupe
  <2>1. stream[e] > 0 \/ Pending(e)
    BY <1>5, <1>6 DEF LossExplained
  <2>2. QED
    BY <1>4, <2>1, HeldIsPushed
<1>7. CASE e \notin dedupe
  <2>1. Dedupe(r)
    BY <1>5, <1>7 DEF Act, Submit, Die, Count, CountFails, Refund, RefundFails,
       DedupeFails, Push, PushFails, Finish, shared
  <2>2. e \in fresh'[r]
    BY <1>7, <2>1 DEF Dedupe, TypeOK
  <2>3. QED
    BY <2>2 DEF Pending
<1>8. QED
  BY <1>6, <1>7

(* Every step keeps the account of keys without entries.                   *)
LEMMA NextLoss == TypeOK /\ Shape /\ LossExplained /\ [Next]_vars => LossExplained'
<1> SUFFICES ASSUME TypeOK, Shape, LossExplained, [Next]_vars PROVE LossExplained'
  OBVIOUS
<1>1. CASE Expire \/ UNCHANGED vars
  BY <1>1 DEF Expire, vars, shared, request, mishap, LossExplained, Pending
<1>2. ASSUME NEW r \in Requests, Act(r) PROVE LossExplained'
  BY <1>2, ActLoss
<1>3. QED
  BY <1>1, <1>2 DEF Next, Act

(* A key without an entry in the stream has a handler that is about to     *)
(* append it, or a failed call or a dead process behind it.                *)
THEOREM LossSafe == Spec => []LossExplained
<1>1. Init => LossExplained
  BY DEF Init, LossExplained
<1>2. QED
  BY <1>1, NextLoss, ShapeCorrect, PTL DEF Spec

=============================================================================
