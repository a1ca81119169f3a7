-------------------------- MODULE OrderConsumerProofs --------------------------
(***************************************************************************)
(* Proofs about OrderConsumer, for any number of workers, orders and       *)
(* messages, any batch size and retry limit, and any number of faults.     *)
(***************************************************************************)
EXTENDS OrderConsumer, FiniteSetTheorems, TLAPS

(* What a worker holds has been delivered to it.                           *)
InHand ==
    \A w \in Workers :
        /\ inbox[w] \subseteq Delivered
        /\ pc[w] \notin {"off", "run"} => current[w] \in Delivered

(* The elements of a sequence.                                             *)
LEMMA ElementType ==
    ASSUME NEW S, NEW s \in Seq(S), NEW i \in 1 .. Len(s)
    PROVE  s[i] \in S
OBVIOUS

(* A delivered message is one of the stream, with an order and a kind.     *)
LEMMA MessageOfStream ==
    ASSUME TypeOK, NEW m \in Delivered
    PROVE  /\ m \in Ids
           /\ m \in 1 .. Len(messages)
           /\ messages[m].order \in Orders
           /\ messages[m].kind \in Kinds
<1>1. /\ cursor \in Nat /\ Len(messages) \in Nat
      /\ cursor <= Len(messages) /\ Len(messages) <= MaxMessages
  BY DEF TypeOK
<1>2. m \in Ids /\ m \in 1 .. Len(messages)
  BY <1>1, BoundAssumption DEF Delivered, Ids
<1>3. messages[m] \in [order : Orders, kind : Kinds]
  <2>1. messages \in Seq([order : Orders, kind : Kinds])
    BY DEF TypeOK
  <2>2. QED
    BY <1>2, <2>1, ElementType
<1>4. QED
  BY <1>2, <1>3

(* So is the one a worker is at work on.                                   *)
LEMMA OrderInHand ==
    ASSUME TypeOK, InHand, NEW w \in Workers, pc[w] \notin {"off", "run"}
    PROVE  /\ current[w] \in Ids
           /\ current[w] \in 1 .. Len(messages)
           /\ Order(w) \in Orders
           /\ messages[current[w]].kind \in Kinds
BY MessageOfStream DEF InHand, Order

-----------------------------------------------------------------------------
(* Types.                                                                  *)

(* The initial state is well-typed.                                        *)
LEMMA InitTypeOK == Init => TypeOK /\ InHand
BY BoundAssumption
   DEF Init, TypeOK, InHand, Ids, Places, NoMessage, Delivered

(* A reported error leaves the counters in their bounds.                   *)
LEMMA FaultType ==
    ASSUME TypeOK, Fault
    PROVE  /\ faults' \in 0 .. MaxFaults
           /\ stops' \in 0 .. MaxStops
           /\ expiries' \in 0 .. MaxExpiries
BY BoundAssumption DEF TypeOK, Fault

(* Counters that go up by one or back to zero stay counters.               *)
LEMMA CounterType ==
    ASSUME NEW S, NEW f \in [S -> Nat], NEW x \in S
    PROVE  /\ [f EXCEPT ![x] = @ + 1] \in [S -> Nat]
           /\ [f EXCEPT ![x] = 0] \in [S -> Nat]
OBVIOUS

(* Each step of a worker keeps the types.                                  *)
LEMMA StepTypeOK ==
    ASSUME TypeOK, InHand, NEW w \in Workers, Step(w)
    PROVE  TypeOK'
<1> USE DEF Calm, Goto, Done, stream, postgres, bridge, Places, NoMessage, Delivered
<1>1. CASE Read(w)
  <2>1. PICK n \in 1 .. BatchSize :
           /\ cursor + n <= Len(messages)
           /\ cursor' = cursor + n
           /\ pel' = pel \cup (cursor + 1 .. cursor + n)
           /\ \/ /\ inbox' = [inbox EXCEPT ![w] = cursor + 1 .. cursor + n]
                 /\ Calm
              \/ /\ Fault
                 /\ UNCHANGED inbox
    BY <1>1 DEF Read
  <2>2. /\ cursor' \in 0 .. Len(messages)
        /\ cursor + 1 .. cursor + n \subseteq Ids
        /\ pel' \subseteq 1 .. cursor'
    BY <2>1, ConfigAssumption, BoundAssumption DEF TypeOK, Ids
  <2>3. QED
    BY <1>1, <2>1, <2>2, FaultType DEF Read, TypeOK
<1>2. CASE Take(w)
  <2>1. PICK m \in inbox[w] :
           /\ inbox' = [inbox EXCEPT ![w] = @ \ {m}]
           /\ current' = [current EXCEPT ![w] = m]
           /\ pc' = [pc EXCEPT ![w] = IF messages[m].kind = "bad" THEN "bury" ELSE "upsert"]
    BY <1>2 DEF Take
  <2>2. inbox \in [Workers -> SUBSET Ids] /\ m \in Ids
    BY DEF TypeOK
  <2>3. /\ inbox' \in [Workers -> SUBSET Ids]
        /\ current' \in [Workers -> Ids \cup {NoMessage}]
        /\ pc' \in [Workers -> Places]
    BY <2>1, <2>2 DEF TypeOK
  <2>4. QED
    BY <1>2, <2>3 DEF Take, TypeOK
<1>3. CASE Upsert(w) \/ UpsertFails(w) \/ Reject(w)
  BY <1>3, OrderInHand, FaultType DEF Upsert, UpsertFails, Reject, Failed, TypeOK
<1>4. CASE Prepare(w) \/ PrepareFails(w)
  BY <1>4, FaultType DEF Prepare, PrepareFails, Failed, TypeOK
<1>5. CASE Dedupe(w) \/ DedupeFails(w)
  BY <1>5, OrderInHand, FaultType DEF Dedupe, DedupeFails, Failed, TypeOK
<1>6. CASE Collect(w) \/ CollectFails(w)
  <2>1. purchases' \in [Orders -> Nat]
    <3>1. purchases \in [Orders -> Nat] /\ Order(w) \in Orders
      BY <1>6, OrderInHand DEF TypeOK, Collect, CollectFails
    <3>2. \/ purchases' = purchases
          \/ purchases' = [purchases EXCEPT ![Order(w)] = @ + 1]
      BY <1>6 DEF Collect, CollectFails
    <3>3. QED
      BY <3>1, <3>2, CounterType
  <2>2. QED
    BY <1>6, <2>1, FaultType DEF Collect, CollectFails, Failed, TypeOK
<1>7. CASE Track(w) \/ TrackFails(w)
  BY <1>7, OrderInHand, FaultType DEF Track, TrackFails, Failed, TypeOK
<1>8. ASSUME pc[w] \in {"ack", "retry", "bury", "buryack"}
      PROVE  /\ current[w] \in Ids
             /\ [attempts EXCEPT ![current[w]] = @ + 1] \in [Ids -> Nat]
             /\ [attempts EXCEPT ![current[w]] = 0] \in [Ids -> Nat]
             /\ [dead EXCEPT ![current[w]] = @ + 1] \in [Ids -> Nat]
  <2>1. current[w] \in Ids /\ attempts \in [Ids -> Nat] /\ dead \in [Ids -> Nat]
    BY <1>8, OrderInHand DEF TypeOK
  <2>2. QED
    BY <2>1, CounterType
<1>9. CASE Ack(w) \/ AckFails(w) \/ BuryAck(w) \/ BuryAckFails(w)
  <2>1. /\ attempts' \in [Ids -> Nat]
        /\ pel' \subseteq pel
        /\ faults' \in 0 .. MaxFaults /\ stops' \in 0 .. MaxStops
        /\ expiries' \in 0 .. MaxExpiries
        /\ UNCHANGED <<messages, cursor, dead, postgres, bridge, inbox>>
        /\ pc' = [pc EXCEPT ![w] = "run"]
        /\ current' = [current EXCEPT ![w] = NoMessage]
    BY <1>8, <1>9, FaultType DEF Ack, AckFails, BuryAck, BuryAckFails, TypeOK
  <2>2. QED
    BY <2>1 DEF TypeOK
<1>10. CASE Retry(w) \/ RetryFails(w) \/ Bury(w) \/ BuryFails(w)
  <2>1. /\ attempts' \in [Ids -> Nat]
        /\ dead' \in [Ids -> Nat]
        /\ faults' \in 0 .. MaxFaults /\ stops' \in 0 .. MaxStops
        /\ expiries' \in 0 .. MaxExpiries
        /\ UNCHANGED <<messages, cursor, pel, postgres, bridge, inbox>>
    BY <1>8, <1>10, FaultType DEF Retry, RetryFails, Bury, BuryFails, TypeOK
  <2>2. /\ pc' \in [Workers -> Places]
        /\ current' \in [Workers -> Ids \cup {NoMessage}]
    BY <1>10 DEF Retry, RetryFails, Bury, BuryFails, TypeOK
  <2>3. QED
    BY <2>1, <2>2 DEF TypeOK
<1>11. QED
  BY <1>1, <1>2, <1>3, <1>4, <1>5, <1>6, <1>7, <1>9, <1>10 DEF Step

(* So do the steps of the client, the clock and the processes.             *)
LEMMA NextTypeOK == TypeOK /\ InHand /\ [Next]_vars => TypeOK'
<1> SUFFICES ASSUME TypeOK, InHand, [Next]_vars PROVE TypeOK'
  OBVIOUS
<1> USE DEF Calm, Goto, stream, postgres, bridge, memory, Places, NoMessage, Delivered
<1>1. CASE Enqueue
  <2>1. PICK o \in Orders, k \in Kinds :
           messages' = Append(messages, [order |-> o, kind |-> k])
    BY <1>1 DEF Enqueue
  <2>2. /\ messages' \in Seq([order : Orders, kind : Kinds])
        /\ Len(messages') = Len(messages) + 1
    BY <2>1 DEF TypeOK
  <2>3. Len(messages') <= MaxMessages /\ cursor' \in 0 .. Len(messages')
    BY <1>1, <2>2, BoundAssumption DEF Enqueue, TypeOK
  <2>4. QED
    <3>1. UNCHANGED <<cursor, pel, attempts, dead, saved, tracked, syncStatus,
                      dedupe, purchases, pc, inbox, current,
                      faults, stops, expiries>>
      BY <1>1 DEF Enqueue
    <3>2. QED
      BY <2>2, <2>3, <3>1 DEF TypeOK
<1>2. CASE Expire
  BY <1>2, BoundAssumption DEF Expire, TypeOK
<1>3. ASSUME NEW w \in Workers, Start(w) PROVE TypeOK'
  BY <1>3 DEF Start, TypeOK
<1>4. ASSUME NEW w \in Workers, Crash(w) PROVE TypeOK'
  <2>1. stops' \in 0 .. MaxStops
    BY <1>4, BoundAssumption DEF Crash, TypeOK
  <2>2. QED
    BY <1>4, <2>1 DEF Crash, TypeOK
<1>5. CASE UNCHANGED vars
  BY <1>5 DEF vars, TypeOK
<1>6. QED
  BY <1>1, <1>2, <1>3, <1>4, <1>5, StepTypeOK DEF Next

-----------------------------------------------------------------------------
(* Who holds what.                                                         *)

(* What the process of worker w can do.                                    *)
Act(w) == Start(w) \/ Crash(w) \/ Step(w)

(* No process touches another one's memory.                                *)
LEMMA OthersKeepMemory ==
    ASSUME TypeOK, NEW w \in Workers, NEW v \in Workers, v # w, Act(w)
    PROVE  /\ pc'[v] = pc[v]
           /\ inbox'[v] = inbox[v]
           /\ current'[v] = current[v]
<1> USE DEF TypeOK, Goto, Done, Failed
<1>1. CASE Start(w) \/ Crash(w)
  BY <1>1 DEF Start, Crash
<1>2. CASE Read(w) \/ Take(w)
  BY <1>2 DEF Read, Take
<1>3. CASE Upsert(w) \/ UpsertFails(w) \/ Reject(w)
  BY <1>3 DEF Upsert, UpsertFails, Reject
<1>4. CASE Prepare(w) \/ PrepareFails(w) \/ Dedupe(w) \/ DedupeFails(w)
  BY <1>4 DEF Prepare, PrepareFails, Dedupe, DedupeFails
<1>5. CASE Collect(w) \/ CollectFails(w) \/ Track(w) \/ TrackFails(w)
  BY <1>5 DEF Collect, CollectFails, Track, TrackFails
<1>6. CASE Ack(w) \/ AckFails(w) \/ Retry(w) \/ RetryFails(w)
  BY <1>6 DEF Ack, AckFails, Retry, RetryFails
<1>7. CASE Bury(w) \/ BuryFails(w) \/ BuryAck(w) \/ BuryAckFails(w)
  BY <1>7 DEF Bury, BuryFails, BuryAck, BuryAckFails
<1>8. QED
  BY <1>1, <1>2, <1>3, <1>4, <1>5, <1>6, <1>7 DEF Act, Step

(* A worker's message changes only when it takes the next one or is done.  *)
LEMMA CurrentStays ==
    ASSUME TypeOK, NEW w \in Workers, Act(w),
           pc[w] \notin {"off", "run"}, pc'[w] \notin {"off", "run"}
    PROVE  current'[w] = current[w]
<1> USE DEF TypeOK, Goto, Done, Failed
<1>1. CASE Start(w) \/ Crash(w) \/ Read(w) \/ Take(w)
  BY <1>1 DEF Start, Crash, Read, Take
<1>2. CASE Upsert(w) \/ UpsertFails(w) \/ Reject(w)
  BY <1>2 DEF Upsert, UpsertFails, Reject
<1>3. CASE Prepare(w) \/ PrepareFails(w) \/ Dedupe(w) \/ DedupeFails(w)
  BY <1>3 DEF Prepare, PrepareFails, Dedupe, DedupeFails
<1>4. CASE Collect(w) \/ CollectFails(w) \/ Track(w) \/ TrackFails(w)
  BY <1>4 DEF Collect, CollectFails, Track, TrackFails
<1>5. CASE Ack(w) \/ AckFails(w) \/ Retry(w) \/ RetryFails(w)
  BY <1>5 DEF Ack, AckFails, Retry, RetryFails
<1>6. CASE Bury(w) \/ BuryFails(w) \/ BuryAck(w) \/ BuryAckFails(w)
  BY <1>6 DEF Bury, BuryFails, BuryAck, BuryAckFails
<1>7. QED
  BY <1>1, <1>2, <1>3, <1>4, <1>5, <1>6 DEF Act, Step

(* Workers do not write the stream; they only deliver more of it.          *)
LEMMA ActDelivers ==
    ASSUME TypeOK, NEW w \in Workers, Act(w)
    PROVE  /\ messages' = messages
           /\ Delivered \subseteq Delivered'
           /\ ~Read(w) => cursor' = cursor
<1> USE DEF stream
<1>1. CASE Read(w)
  <2>1. messages' = messages /\ cursor' \in Nat /\ cursor' >= cursor /\ cursor \in Nat
    BY <1>1 DEF Read, TypeOK
  <2>2. QED
    BY <1>1, <2>1 DEF Delivered
<1>2. CASE ~Read(w)
  <2>1. messages' = messages /\ cursor' = cursor
    BY <1>2 DEF Act, Step, Start, Crash, Take, Upsert, UpsertFails, Reject, Prepare,
         PrepareFails, Dedupe, DedupeFails, Collect, CollectFails, Track, TrackFails,
         Ack, AckFails, Retry, RetryFails, Bury, BuryFails, BuryAck, BuryAckFails
  <2>2. QED
    BY <1>2, <2>1 DEF Delivered
<1>3. QED
  BY <1>1, <1>2

(* The messages of the stream never change.                                *)
LEMMA MessagesStay ==
    ASSUME TypeOK, [Next]_vars
    PROVE  /\ Delivered \subseteq Delivered'
           /\ \A m \in 1 .. Len(messages) : messages'[m] = messages[m]
<1>1. CASE Enqueue
  <2>1. PICK o \in Orders, k \in Kinds :
           messages' = Append(messages, [order |-> o, kind |-> k])
    BY <1>1 DEF Enqueue
  <2>2. \A m \in 1 .. Len(messages) : messages'[m] = messages[m]
    <3>1. messages \in Seq([order : Orders, kind : Kinds])
      BY DEF TypeOK
    <3>2. QED
      BY <2>1, <3>1
  <2>3. QED
    BY <1>1, <2>2 DEF Enqueue, Delivered
<1>2. CASE Expire \/ UNCHANGED vars
  BY <1>2 DEF Expire, vars, stream, Delivered
<1>3. ASSUME NEW w \in Workers, Act(w)
      PROVE  /\ Delivered \subseteq Delivered'
             /\ messages' = messages
  BY <1>3, ActDelivers
<1>4. QED
  BY <1>1, <1>2, <1>3 DEF Next, Act

(* What a worker holds was delivered, now and later.                       *)
LEMMA ActInHand ==
    ASSUME TypeOK, InHand, NEW w \in Workers, Act(w)
    PROVE  InHand'
<1>1. ASSUME NEW v \in Workers
      PROVE  /\ inbox'[v] \subseteq Delivered'
             /\ pc'[v] \notin {"off", "run"} => current'[v] \in Delivered'
  <2>1. CASE v # w
    BY <2>1, OthersKeepMemory, ActDelivers DEF InHand
  <2>2. CASE v = w
    <3>1. CASE Read(w)
      <4>1. inbox'[w] \subseteq Delivered'
        BY <3>1, ActDelivers DEF Read, InHand, TypeOK, Delivered
      <4>2. pc'[w] = "run"
        BY <3>1 DEF Read
      <4>3. QED
        BY <2>2, <4>1, <4>2
    <3>2. CASE Take(w)
      BY <2>2, <3>2, ActDelivers DEF Take, InHand, TypeOK
    <3>3. CASE ~Read(w) /\ ~Take(w)
      <4>1. inbox'[w] = inbox[w] \/ inbox'[w] = {}
        BY <3>3 DEF TypeOK, Act, Step, Done, Failed, Start, Crash, Upsert, UpsertFails,
             Reject, Prepare, PrepareFails, Dedupe, DedupeFails, Collect, CollectFails,
             Track, TrackFails, Ack, AckFails, Retry, RetryFails, Bury, BuryFails,
             BuryAck, BuryAckFails
      <4>2. pc'[w] \notin {"off", "run"} => pc[w] \notin {"off", "run"}
        BY <3>3 DEF TypeOK, Act, Step, Done, Goto, Failed, Start, Crash, Upsert,
             UpsertFails, Reject, Prepare, PrepareFails, Dedupe, DedupeFails, Collect,
             CollectFails, Track, TrackFails, Ack, AckFails, Retry, RetryFails, Bury,
             BuryFails, BuryAck, BuryAckFails
      <4>3. QED
        BY <2>2, <4>1, <4>2, CurrentStays, ActDelivers DEF InHand
    <3>4. QED
      BY <3>1, <3>2, <3>3
  <2>3. QED
    BY <2>1, <2>2
<1>2. QED
  BY <1>1 DEF InHand

(* Every step keeps the types and what is in hand.                         *)
LEMMA NextInHand == TypeOK /\ InHand /\ [Next]_vars => InHand'
<1> SUFFICES ASSUME TypeOK, InHand, [Next]_vars PROVE InHand'
  OBVIOUS
<1>1. CASE Enqueue \/ Expire \/ UNCHANGED vars
  BY <1>1 DEF Enqueue, Expire, vars, stream, memory, InHand, Delivered
<1>2. ASSUME NEW w \in Workers, Act(w) PROVE InHand'
  BY <1>2, ActInHand
<1>3. QED
  BY <1>1, <1>2 DEF Next, Act

(* The types and what is in hand hold in every reachable state.            *)
LEMMA InHandCorrect == Spec => [](TypeOK /\ InHand)
BY InitTypeOK, NextTypeOK, NextInHand, PTL DEF Spec

(* The stream, the tables, the keys and the workers' memory are well typed *)
(* in every reachable state.                                               *)
THEOREM TypeCorrect == Spec => []TypeOK
BY InHandCorrect, PTL

-----------------------------------------------------------------------------
(* What an acknowledged message stands for.                                *)

(* From its place in the handler one can tell what has been done for the   *)
(* message in hand.                                                        *)
Progress(w) ==
    /\ pc[w] \in {"prepare", "dedupe", "collect", "track", "ack"} =>
          Order(w) \in saved
    /\ pc[w] = "ack" /\ messages[current[w]].kind = "paid" => Order(w) \in tracked
    /\ pc[w] = "buryack" => dead[current[w]] > 0

(* A message that is in hand for good: nothing is left to be done for it.  *)
Settled(m) ==
    \/ dead[m] > 0
    \/ /\ messages[m].order \in saved
       /\ messages[m].kind = "paid" => messages[m].order \in tracked

SettledInv ==
    /\ \A w \in Workers : Progress(w)
    /\ AckedOrderSettled

(* Rows are never deleted, nor are dead letters.                           *)
LEMMA RecordsGrow ==
    ASSUME TypeOK, InHand, [Next]_vars
    PROVE  /\ saved \subseteq saved'
           /\ tracked \subseteq tracked'
           /\ \A m \in Ids : dead[m] > 0 => dead'[m] > 0
<1> USE DEF stream, postgres
<1>1. CASE Enqueue \/ Expire \/ UNCHANGED vars
  BY <1>1 DEF Enqueue, Expire, vars
<1>2. ASSUME NEW w \in Workers, Act(w)
      PROVE  /\ saved \subseteq saved'
             /\ tracked \subseteq tracked'
  BY <1>2 DEF Act, Step, Start, Crash, Read, Take, Upsert, UpsertFails, Reject, Prepare,
       PrepareFails, Dedupe, DedupeFails, Collect, CollectFails, Track, TrackFails,
       Ack, AckFails, Retry, RetryFails, Bury, BuryFails, BuryAck, BuryAckFails, Failed
<1>3. ASSUME NEW w \in Workers, Act(w), NEW m \in Ids, dead[m] > 0
      PROVE  dead'[m] > 0
  <2>1. dead' = dead \/ dead' = [dead EXCEPT ![current[w]] = @ + 1]
    BY <1>3 DEF Act, Step, Start, Crash, Read, Take, Upsert, UpsertFails, Reject,
         Prepare, PrepareFails, Dedupe, DedupeFails, Collect, CollectFails, Track,
         TrackFails, Ack, AckFails, Retry, RetryFails, Bury, BuryFails, BuryAck,
         BuryAckFails
  <2>2. dead \in [Ids -> Nat]
    BY DEF TypeOK
  <2>3. QED
    BY <1>3, <2>1, <2>2
<1>4. QED
  BY <1>1, <1>2, <1>3 DEF Next, Act

(* The step of its own worker keeps what a message's place says of it.     *)
LEMMA OwnProgress ==
    ASSUME TypeOK, InHand, NEW w \in Workers, Act(w), Progress(w)
    PROVE  Progress(w)'
<1> DEFINE Kind == messages[current[w]].kind
<1>1. messages' = messages
  BY ActDelivers
<1> USE DEF TypeOK, Goto, Done, stream, postgres, bridge
<1>2. CASE Start(w) \/ Crash(w) \/ Read(w) \/ Take(w)
  <2>1. pc'[w] \in {"off", "run", "bury", "upsert"}
    BY <1>2 DEF Start, Crash, Read, Take
  <2>2. QED
    BY <2>1 DEF Progress
<1>3. CASE Upsert(w)
  BY <1>1, <1>3 DEF Upsert, Progress, Order
<1>4. CASE Prepare(w)
  BY <1>1, <1>4 DEF Prepare, Progress, Order
<1>5. CASE Dedupe(w)
  BY <1>1, <1>5 DEF Dedupe, Progress, Order
<1>6. CASE Collect(w)
  BY <1>1, <1>6 DEF Collect, Progress, Order
<1>7. CASE Track(w)
  BY <1>1, <1>7 DEF Track, Progress, Order
<1>8. CASE Bury(w)
  <2>1. current[w] \in Ids
    BY <1>8, OrderInHand DEF Bury
  <2>2. dead'[current[w]] > 0 /\ pc'[w] = "buryack" /\ current' = current
    BY <1>8, <2>1 DEF Bury
  <2>3. QED
    BY <2>2 DEF Progress
<1>9. CASE \/ UpsertFails(w) \/ Reject(w) \/ PrepareFails(w) \/ DedupeFails(w)
           \/ CollectFails(w) \/ TrackFails(w)
  <2>1. pc'[w] = "retry"
    BY <1>9 DEF UpsertFails, Reject, PrepareFails, DedupeFails, CollectFails,
         TrackFails, Failed
  <2>2. QED
    BY <2>1 DEF Progress
<1>10. CASE \/ Ack(w) \/ AckFails(w) \/ Retry(w) \/ RetryFails(w)
            \/ BuryFails(w) \/ BuryAck(w) \/ BuryAckFails(w)
  <2>1. pc'[w] \in {"run", "bury"}
    BY <1>10 DEF Ack, AckFails, Retry, RetryFails, BuryFails, BuryAck, BuryAckFails
  <2>2. QED
    BY <2>1 DEF Progress
<1>11. QED
  BY <1>2, <1>3, <1>4, <1>5, <1>6, <1>7, <1>8, <1>9, <1>10 DEF Act, Step

(* No step of somebody else takes it back.                                 *)
LEMMA KeptProgress ==
    ASSUME TypeOK, InHand, [Next]_vars, NEW v \in Workers, Progress(v),
           pc'[v] = pc[v], current'[v] = current[v]
    PROVE  Progress(v)'
<1>1. CASE pc[v] \in {"off", "run"}
  BY <1>1 DEF Progress
<1>2. CASE pc[v] \notin {"off", "run"}
  <2>1. current[v] \in Ids /\ messages'[current[v]] = messages[current[v]]
    BY <1>2, OrderInHand, MessagesStay
  <2>2. QED
    BY <2>1, RecordsGrow DEF Progress, Order
<1>3. QED
  BY <1>1, <1>2

(* Every step keeps what the places of the handlers say.                   *)
LEMMA NextProgress ==
    ASSUME TypeOK, InHand, [Next]_vars, \A v \in Workers : Progress(v)
    PROVE  \A v \in Workers : Progress(v)'
<1>1. CASE Enqueue \/ Expire \/ UNCHANGED vars
  <2>1. UNCHANGED <<pc, current>>
    BY <1>1 DEF Enqueue, Expire, vars, memory
  <2>2. QED
    BY <2>1, KeptProgress
<1>2. ASSUME NEW w \in Workers, Act(w), NEW v \in Workers
      PROVE  Progress(v)'
  <2>1. CASE v = w
    BY <1>2, <2>1, OwnProgress
  <2>2. CASE v # w
    BY <1>2, <2>2, OthersKeepMemory, KeptProgress
  <2>3. QED
    BY <2>1, <2>2
<1>3. QED
  BY <1>1, <1>2 DEF Next, Act

(* Only the message that a worker has finished with leaves the pending     *)
(* entries list.                                                           *)
LEMMA AckedByWorker ==
    ASSUME TypeOK, [Next]_vars, NEW m \in Acked', m \notin Acked
    PROVE  \E w \in Workers :
              pc[w] \in {"ack", "buryack"} /\ current[w] = m
<1> USE DEF stream
<1>1. ASSUME UNCHANGED <<cursor, pel>> PROVE FALSE
  BY <1>1 DEF Acked, Delivered
<1>2. CASE Enqueue \/ Expire \/ UNCHANGED vars
  BY <1>1, <1>2 DEF Enqueue, Expire, vars
<1>3. ASSUME NEW w \in Workers, Act(w)
      PROVE  pc[w] \in {"ack", "buryack"} /\ current[w] = m
  <2>1. CASE Read(w)
    <3>1. PICK n \in 1 .. BatchSize : /\ cursor' = cursor + n
                                      /\ pel' = pel \cup (cursor + 1 .. cursor + n)
      BY <2>1 DEF Read
    <3>2. cursor \in Nat /\ n \in Nat
      BY ConfigAssumption DEF TypeOK
    <3>3. m \in 1 .. cursor + n /\ m \notin cursor + 1 .. cursor + n /\ m \notin pel
      BY <3>1 DEF Acked, Delivered
    <3>4. m \in 1 .. cursor /\ m \notin pel
      BY <3>2, <3>3
    <3>5. QED
      BY <3>4 DEF Acked, Delivered
  <2>2. CASE Ack(w) \/ AckFails(w) \/ BuryAck(w) \/ BuryAckFails(w)
    <3>1. pc[w] \in {"ack", "buryack"} /\ cursor' = cursor /\ pel \ {current[w]} \subseteq pel'
      BY <2>2 DEF Ack, AckFails, BuryAck, BuryAckFails
    <3>2. QED
      BY <3>1 DEF Acked, Delivered
  <2>3. CASE ~(Read(w) \/ Ack(w) \/ AckFails(w) \/ BuryAck(w) \/ BuryAckFails(w))
    <3>1. UNCHANGED <<cursor, pel>>
      BY <1>3, <2>3 DEF Act, Step, Start, Crash, Take, Upsert, UpsertFails, Reject,
           Prepare, PrepareFails, Dedupe, DedupeFails, Collect, CollectFails, Track,
           TrackFails, Retry, RetryFails, Bury, BuryFails
    <3>2. QED
      BY <1>1, <3>1
  <2>4. QED
    BY <2>1, <2>2, <2>3
<1>4. QED
  BY <1>2, <1>3 DEF Next, Act

(* What is settled stays settled.                                          *)
LEMMA SettledStays ==
    ASSUME TypeOK, InHand, [Next]_vars, NEW m \in Delivered, Settled(m)
    PROVE  Settled(m)'
<1>1. m \in Ids /\ messages'[m] = messages[m]
  BY MessageOfStream, MessagesStay
<1>2. QED
  BY <1>1, RecordsGrow DEF Settled

(* What leaves the pending entries list is settled.                        *)
LEMMA NextAcked ==
    ASSUME TypeOK, InHand, [Next]_vars, SettledInv
    PROVE  AckedOrderSettled'
<1>1. ASSUME NEW m \in Acked' PROVE Settled(m)'
  <2>1. m \in Delivered /\ Settled(m)
    <3>1. CASE m \in Acked
      BY <3>1 DEF Acked, SettledInv, AckedOrderSettled, Settled
    <3>2. CASE m \notin Acked
      <4>1. PICK w \in Workers : pc[w] \in {"ack", "buryack"} /\ current[w] = m
        BY <3>2, AckedByWorker
      <4>2. QED
        BY <4>1 DEF SettledInv, Progress, Settled, InHand, Order
    <3>3. QED
      BY <3>1, <3>2
  <2>2. QED
    BY <2>1, SettledStays
<1>2. QED
  BY <1>1 DEF AckedOrderSettled, Settled

(* What the handlers' places say and what is acknowledged is so in every   *)
(* reachable state.                                                        *)
LEMMA SettledCorrect == Spec => []SettledInv
<1>1. Init => SettledInv
  BY DEF Init, SettledInv, Progress, AckedOrderSettled, Acked, Delivered
<1>2. TypeOK /\ InHand /\ SettledInv /\ [Next]_vars => SettledInv'
  BY NextProgress, NextAcked DEF SettledInv
<1>3. QED
  BY <1>1, <1>2, InHandCorrect, PTL DEF Spec

(* A snapshot is acknowledged only when its order is in PostgreSQL and, if *)
(* it is paid, marked as tracked, or when the message is in orders:dead.   *)
THEOREM AckSafe == Spec => []AckedOrderSettled
<1>1. SettledInv => AckedOrderSettled
  BY DEF SettledInv
<1>2. QED
  BY <1>1, SettledCorrect, PTL

-----------------------------------------------------------------------------
(* Refinement of MessageDelivery.  Two parts of its state, as functions of *)
(* this one.                                                               *)
Accepted == 1 .. Len(messages)
Buried   == {m \in Ids : dead[m] > 0}

(* Delivered messages are accepted, and they are entries.                  *)
LEMMA AcceptedEntries ==
    ASSUME TypeOK
    PROVE  /\ Delivered \subseteq Accepted /\ Accepted \subseteq Ids
           /\ Stored \subseteq Delivered /\ Acked \subseteq Delivered
<1>1. /\ cursor \in Nat /\ Len(messages) \in Nat
      /\ cursor <= Len(messages) /\ Len(messages) <= MaxMessages
  BY DEF TypeOK
<1>2. QED
  BY <1>1, BoundAssumption DEF Delivered, Accepted, Ids, Stored, Acked

(* What has its row and its mark keeps them.                               *)
LEMMA StoredGrows ==
    ASSUME TypeOK, InHand, [Next]_vars
    PROVE  Stored \subseteq Stored'
<1> SUFFICES ASSUME NEW m \in Stored PROVE m \in Stored'
  OBVIOUS
<1>1. m \in Delivered /\ m \in Delivered' /\ messages'[m] = messages[m]
  BY MessageOfStream, MessagesStay DEF Stored
<1>2. QED
  BY <1>1, RecordsGrow DEF Stored

(* A new snapshot is accepted, and has no outcome.                         *)
LEMMA EnqueueAccepts ==
    ASSUME TypeOK, Enqueue
    PROVE  \E m \in Ids : Delivery!Accept(m)
<1>1. PICK o \in Orders, k \in Kinds :
         messages' = Append(messages, [order |-> o, kind |-> k])
  BY DEF Enqueue
<1>2. messages \in Seq([order : Orders, kind : Kinds]) /\ Len(messages) \in Nat
  BY DEF TypeOK
<1>3. Len(messages') = Len(messages) + 1 /\ Len(messages) + 1 <= MaxMessages
  BY <1>1, <1>2, BoundAssumption DEF Enqueue
<1>4. PICK m : m = Len(messages) + 1
  OBVIOUS
<1>5. m \in Ids \ Accepted /\ Accepted' = Accepted \cup {m}
  BY <1>2, <1>3, <1>4, BoundAssumption DEF Ids, Accepted
<1>6. \A n \in 1 .. Len(messages) : messages'[n] = messages[n]
  BY <1>1, <1>2
<1>7. Stored' = Stored
  <2>1. UNCHANGED <<cursor, saved, tracked>>
    BY DEF Enqueue, postgres
  <2>2. \A n \in Delivered : messages'[n] = messages[n]
    BY <1>6, AcceptedEntries DEF Accepted
  <2>3. QED
    BY <2>1, <2>2 DEF Stored, Delivered
<1>8. Buried' = Buried /\ Acked' = Acked
  BY DEF Enqueue, Buried, Acked, Delivered
<1>9. QED
  BY <1>5, <1>7, <1>8 DEF Delivery!Accept, Accepted, Buried

(* Only these steps acknowledge or bury; the others can only store.        *)
Acking(w)  == Ack(w) \/ AckFails(w) \/ BuryAck(w) \/ BuryAckFails(w)
Burying(w) == Bury(w) \/ BuryFails(w)

(* An acknowledgement discharges a message that has its outcome.           *)
LEMMA AckingDischarges ==
    ASSUME TypeOK, TypeOK', SettledInv', NEW w \in Workers, Acking(w)
    PROVE  \E S \in SUBSET Ids : Delivery!Discharge(S)
<1>1. UNCHANGED <<messages, cursor, dead, saved, tracked>> /\ pel' \subseteq pel
  BY DEF Acking, Ack, AckFails, BuryAck, BuryAckFails, postgres
<1>2. Accepted' = Accepted /\ Stored' = Stored /\ Buried' = Buried /\ Delivered' = Delivered
  BY <1>1 DEF Accepted, Stored, Buried, Delivered
<1>3. Acked \subseteq Acked'
  BY <1>1, <1>2 DEF Acked
<1>4. Acked' \subseteq Stored \cup Buried
  <2> SUFFICES ASSUME NEW m \in Acked' PROVE m \in Stored' \cup Buried'
    BY <1>2
  <2>1. m \in Ids /\ m \in Delivered'
    BY <1>2, AcceptedEntries DEF Acked
  <2>2. \/ dead'[m] > 0
        \/ /\ messages'[m].order \in saved'
           /\ messages'[m].kind = "paid" => messages'[m].order \in tracked'
    BY DEF SettledInv, AckedOrderSettled
  <2>3. QED
    BY <2>1, <2>2 DEF Stored, Buried
<1>5. PICK S : S = Acked'
  OBVIOUS
<1>6. S \in SUBSET Ids /\ S \subseteq Stored \cup Buried /\ Acked' = Acked \cup S
  BY <1>2, <1>3, <1>4, <1>5, AcceptedEntries DEF Acked
<1>7. Delivery!Discharge(S)
  BY <1>2, <1>6 DEF Delivery!Discharge, Accepted, Buried
<1>8. QED
  BY <1>6, <1>7

(* A copy in orders:dead buries the message in hand, or one buried before. *)
LEMMA BuryingBuries ==
    ASSUME TypeOK, InHand, NEW w \in Workers, Burying(w)
    PROVE  \/ UNCHANGED <<Accepted, Stored, Buried, Acked>>
           \/ \E m \in Ids : Delivery!Bury(m)
<1>1. /\ UNCHANGED <<messages, cursor, pel, saved, tracked>>
      /\ dead' = dead \/ dead' = [dead EXCEPT ![current[w]] = @ + 1]
      /\ pc[w] = "bury"
  BY DEF Burying, Bury, BuryFails, postgres
<1>2. UNCHANGED <<Accepted, Stored, Acked>>
  BY <1>1 DEF Accepted, Stored, Acked, Delivered
<1>3. PICK m \in Ids : m = current[w]
  BY <1>1, OrderInHand
<1>4. m \in Accepted
  BY <1>1, <1>3, OrderInHand DEF Accepted
<1>5. CASE dead' = dead
  BY <1>2, <1>5 DEF Buried
<1>6. CASE dead' = [dead EXCEPT ![current[w]] = @ + 1]
  <2>1. \A k \in Ids : /\ dead[k] \in Nat
                       /\ dead'[k] = IF k = m THEN dead[k] + 1 ELSE dead[k]
    BY <1>3, <1>6 DEF TypeOK
  <2>2. Buried' = Buried \cup {m}
    BY <1>3, <2>1 DEF Buried
  <2>3. Delivery!Bury(m)
    BY <1>2, <1>4, <2>2 DEF Delivery!Bury, Accepted, Buried
  <2>4. QED
    BY <2>3
<1>7. QED
  BY <1>1, <1>5, <1>6

(* Any other step of a worker stores what it stores.                       *)
LEMMA OthersStore ==
    ASSUME TypeOK, TypeOK', InHand, NEW w \in Workers, Act(w), ~Acking(w), ~Burying(w)
    PROVE  \E S \in SUBSET Ids : Delivery!Store(S)
<1>1. messages' = messages
  BY ActDelivers
<1>2. dead' = dead
  BY DEF Acking, Burying, Act, Step, Start, Crash, Read, Take, Upsert, UpsertFails,
     Reject, Prepare, PrepareFails, Dedupe, DedupeFails, Collect, CollectFails, Track,
     TrackFails, Retry, RetryFails, stream
<1>3. Acked' = Acked
  <2>1. CASE Read(w)
    <3>1. PICK n \in 1 .. BatchSize : /\ cursor' = cursor + n
                                      /\ pel' = pel \cup (cursor + 1 .. cursor + n)
      BY <2>1 DEF Read
    <3>2. cursor \in Nat /\ n \in Nat /\ pel \subseteq 1 .. cursor
      BY ConfigAssumption DEF TypeOK, Delivered
    <3>3. (1 .. cursor + n) \ (pel \cup (cursor + 1 .. cursor + n)) = (1 .. cursor) \ pel
      BY <3>2
    <3>4. QED
      BY <3>1, <3>3 DEF Acked, Delivered
  <2>2. CASE ~Read(w)
    <3>1. UNCHANGED <<cursor, pel>>
      BY <2>2 DEF Acking, Burying, Act, Step, Start, Crash, Take, Upsert, UpsertFails,
         Reject, Prepare, PrepareFails, Dedupe, DedupeFails, Collect, CollectFails,
         Track, TrackFails, Retry, RetryFails, stream
    <3>2. QED
      BY <3>1 DEF Acked, Delivered
  <2>3. QED
    BY <2>1, <2>2
<1>4. Accepted' = Accepted /\ Buried' = Buried
  BY <1>1, <1>2 DEF Accepted, Buried
<1>5. Stored \subseteq Stored'
  BY StoredGrows DEF Next, Act
<1>6. Stored' \subseteq Accepted' /\ Stored' \subseteq Ids
  <2>1. /\ cursor' \in Nat /\ Len(messages') \in Nat
        /\ cursor' <= Len(messages') /\ Len(messages') <= MaxMessages
    BY DEF TypeOK
  <2>2. QED
    BY <2>1, BoundAssumption DEF Delivered, Accepted, Ids, Stored
<1>7. PICK S : S = Stored'
  OBVIOUS
<1>8. S \in SUBSET Ids /\ S \subseteq Accepted /\ Stored' = Stored \cup S
  BY <1>4, <1>5, <1>6, <1>7
<1>9. Delivery!Store(S)
  BY <1>3, <1>4, <1>8 DEF Delivery!Store, Accepted, Buried
<1>10. QED
  BY <1>8, <1>9

(* Each step of the consumer is one step of the abstract consumer, or none.*)
LEMMA StepRefines ==
    ASSUME TypeOK, InHand, SettledInv, TypeOK', SettledInv', [Next]_vars
    PROVE  [Delivery!Next]_(Delivery!vars)
<1>1. ASSUME UNCHANGED <<Accepted, Stored, Buried, Acked>>
      PROVE  [Delivery!Next]_(Delivery!vars)
  BY <1>1 DEF Delivery!vars, Accepted, Buried
<1>2. CASE Enqueue
  BY <1>2, EnqueueAccepts DEF Delivery!Next
<1>3. CASE Expire \/ UNCHANGED vars
  <2>1. UNCHANGED <<messages, cursor, pel, dead, saved, tracked>>
    BY <1>3 DEF Expire, vars, stream, postgres
  <2>2. QED
    BY <1>1, <2>1 DEF Accepted, Stored, Buried, Acked, Delivered
<1>4. ASSUME NEW w \in Workers, Act(w)
      PROVE  [Delivery!Next]_(Delivery!vars)
  <2>1. CASE Acking(w)
    BY <2>1, AckingDischarges DEF Delivery!Next
  <2>2. CASE Burying(w)
    BY <1>1, <2>2, BuryingBuries DEF Delivery!Next
  <2>3. CASE ~Acking(w) /\ ~Burying(w)
    BY <1>4, <2>3, OthersStore DEF Delivery!Next
  <2>4. QED
    BY <2>1, <2>2, <2>3
<1>5. QED
  BY <1>2, <1>3, <1>4 DEF Next, Act

(* Initial states map to initial states of MessageDelivery.                *)
LEMMA InitRefines == Init => Delivery!Init
<1> SUFFICES ASSUME Init PROVE Delivery!Init
  OBVIOUS
<1>1. cursor = 0 /\ Len(messages) = 0 /\ \A m \in Ids : dead[m] = 0
  BY DEF Init
<1>2. Delivered = {} /\ 1 .. Len(messages) = {}
  BY <1>1 DEF Delivered
<1>3. Stored = {} /\ Acked = {} /\ {m \in Ids : dead[m] > 0} = {}
  BY <1>1, <1>2 DEF Stored, Acked
<1>4. QED
  BY <1>2, <1>3 DEF Delivery!Init

(* The order consumer keeps the promise of MessageDelivery: a snapshot is  *)
(* acknowledged only after its order was stored (and marked as tracked, if *)
(* it is paid) or the message was moved to orders:dead, and no outcome is  *)
(* ever taken back.                                                        *)
THEOREM DeliveryImplemented == Spec => Implements
<1>1. /\ TypeOK /\ InHand /\ SettledInv /\ TypeOK' /\ SettledInv' /\ [Next]_vars
      => [Delivery!Next]_(Delivery!vars)
  BY StepRefines
<1>2. QED
  BY <1>1, InitRefines, InHandCorrect, SettledCorrect, PTL
     DEF Spec, Implements, Delivery!Spec

-----------------------------------------------------------------------------
(* When an order is marked as tracked and not counted.                     *)

(* The workers that are about to queue the purchase of o.                  *)
Collecting(o) == {w \in Workers : pc[w] = "collect" /\ Order(w) = o}

Accounted(o) == purchases[o] > 0 \/ Collecting(o) # {}

(* While nothing has gone wrong, whoever finds the key of an order may     *)
(* take its purchase for counted.                                          *)
CountedInv ==
    \/ faults + stops > 0
    \/ /\ \A o \in dedupe \cup tracked : Accounted(o)
       /\ \A w \in Workers : pc[w] = "track" => Accounted(Order(w))

(* A step that reports no error and stops no process, by a worker.         *)
GoodStep(w) ==
    \/ Start(w) \/ Read(w) \/ Take(w) \/ Upsert(w) \/ Reject(w) \/ Prepare(w)
    \/ Dedupe(w) \/ Collect(w) \/ Track(w) \/ Ack(w) \/ Retry(w) \/ Bury(w)
    \/ BuryAck(w)

(* While nothing has gone wrong every step is a good one.                  *)
LEMMA FaultsCount ==
    ASSUME TypeOK, NEW w \in Workers, Act(w), faults' + stops' = 0
    PROVE  faults + stops = 0 /\ GoodStep(w)
<1>1. /\ faults \in Nat /\ stops \in Nat
  BY BoundAssumption DEF TypeOK
<1>2. \/ Fault
      \/ stops' = stops + 1 /\ faults' = faults
      \/ GoodStep(w) /\ UNCHANGED <<faults, stops>>
  <2>1. CASE Start(w) \/ Read(w) \/ Take(w)
    BY <2>1 DEF Start, Read, Take, Calm, GoodStep
  <2>2. CASE Crash(w)
    BY <2>2 DEF Crash
  <2>3. CASE Upsert(w) \/ Reject(w) \/ Prepare(w) \/ Dedupe(w)
    BY <2>3 DEF Upsert, Reject, Prepare, Dedupe, Calm, GoodStep
  <2>4. CASE Collect(w) \/ Track(w) \/ Ack(w)
    BY <2>4 DEF Collect, Track, Ack, Calm, GoodStep
  <2>5. CASE Retry(w) \/ Bury(w) \/ BuryAck(w)
    BY <2>5 DEF Retry, Bury, BuryAck, Calm, GoodStep
  <2>6. CASE \/ UpsertFails(w) \/ PrepareFails(w) \/ DedupeFails(w)
             \/ CollectFails(w) \/ TrackFails(w)
    BY <2>6 DEF UpsertFails, PrepareFails, DedupeFails, CollectFails, TrackFails, Failed
  <2>7. CASE AckFails(w) \/ RetryFails(w) \/ BuryFails(w) \/ BuryAckFails(w)
    BY <2>7 DEF AckFails, RetryFails, BuryFails, BuryAckFails
  <2>8. QED
    BY <2>1, <2>2, <2>3, <2>4, <2>5, <2>6, <2>7 DEF Act, Step
<1>3. ~Fault
  BY <1>1 DEF Fault
<1>4. CASE stops' = stops + 1 /\ faults' = faults
  BY <1>1, <1>4
<1>5. CASE GoodStep(w) /\ UNCHANGED <<faults, stops>>
  BY <1>5
<1>6. QED
  BY <1>2, <1>3, <1>4, <1>5

(* The worker that has to queue the purchase of an order does so unless    *)
(* something goes wrong.                                                   *)
LEMMA AccountedStays ==
    ASSUME TypeOK, InHand, [Next]_vars, faults' + stops' = 0,
           NEW o \in Orders, Accounted(o)
    PROVE  Accounted(o)'
<1>1. purchases \in [Orders -> Nat]
  BY DEF TypeOK
<1>2. CASE Enqueue \/ Expire \/ UNCHANGED vars
  <2>1. UNCHANGED <<pc, current, purchases>>
    BY <1>2 DEF Enqueue, Expire, vars, memory, bridge
  <2>2. ASSUME NEW v \in Collecting(o) PROVE v \in Collecting(o)'
    BY <2>1, <2>2, OrderInHand, MessagesStay DEF Collecting, Order
  <2>3. QED
    BY <2>1, <2>2 DEF Accounted
<1>3. ASSUME NEW w \in Workers, Act(w) PROVE Accounted(o)'
  <2>1. GoodStep(w)
    BY <1>3, FaultsCount
  <2>2. CASE Collect(w)
    <3>1. Order(w) \in Orders
      BY <2>2, OrderInHand DEF Collect
    <3>2. purchases'[Order(w)] > 0 /\ \A p \in Orders : purchases[p] > 0 => purchases'[p] > 0
      BY <1>1, <2>2, <3>1 DEF Collect
    <3>3. CASE purchases[o] > 0 \/ Order(w) = o
      BY <3>2, <3>3 DEF Accounted
    <3>4. CASE ~(purchases[o] > 0 \/ Order(w) = o)
      <4>1. PICK v \in Workers : pc[v] = "collect" /\ Order(v) = o
        BY <3>4 DEF Accounted, Collecting
      <4>2. v # w
        BY <3>4, <4>1
      <4>3. v \in Collecting(o)'
        BY <1>3, <4>1, <4>2, OthersKeepMemory, ActDelivers DEF Collecting, Order
      <4>4. QED
        BY <4>3 DEF Accounted
    <3>5. QED
      BY <3>3, <3>4
  <2>3. CASE ~Collect(w)
    <3>1. purchases' = purchases
      BY <2>1, <2>3 DEF GoodStep, Start, Read, Take, Upsert, Reject, Prepare, Dedupe,
           Track, Ack, Retry, Bury, BuryAck, bridge
    <3>2. pc[w] # "collect"
      BY <2>1, <2>3 DEF GoodStep, Start, Read, Take, Upsert, Reject, Prepare, Dedupe,
           Track, Ack, Retry, Bury, BuryAck
    <3>3. ASSUME NEW v \in Collecting(o) PROVE v \in Collecting(o)'
      BY <1>3, <3>2, <3>3, OthersKeepMemory, ActDelivers DEF Collecting, Order
    <3>4. QED
      BY <3>1, <3>3 DEF Accounted
  <2>4. QED
    BY <2>2, <2>3
<1>4. QED
  BY <1>2, <1>3 DEF Next, Act

(* Every step keeps the account of tracked orders.                         *)
LEMMA NextCounted ==
    TypeOK /\ InHand /\ CountedInv /\ [Next]_vars => CountedInv'
<1> SUFFICES ASSUME TypeOK, InHand, CountedInv, [Next]_vars, ~(faults' + stops' > 0)
             PROVE  /\ \A o \in (dedupe \cup tracked)' : Accounted(o)'
                    /\ \A w \in Workers : (pc[w] = "track")' => Accounted(Order(w))'
  BY DEF CountedInv
<1>1. faults' + stops' = 0
  BY NextTypeOK, BoundAssumption DEF TypeOK
<1>2. /\ \A o \in dedupe \cup tracked : Accounted(o)
      /\ \A w \in Workers : pc[w] = "track" => Accounted(Order(w))
  <2>1. CASE Enqueue \/ Expire \/ UNCHANGED vars
    <3>1. UNCHANGED <<faults, stops>>
      BY <2>1 DEF Enqueue, Expire, vars, Calm
    <3>2. QED
      BY <1>1, <3>1 DEF CountedInv
  <2>2. QED
    BY <1>1, <2>1, FaultsCount DEF CountedInv, Next, Act
<1>3. dedupe \cup tracked \subseteq Orders
  BY DEF TypeOK
<1>4. CASE Enqueue \/ Expire \/ UNCHANGED vars
  <2>1. /\ (dedupe \cup tracked)' \subseteq dedupe \cup tracked
        /\ UNCHANGED <<pc, current>>
    BY <1>4 DEF Enqueue, Expire, vars, memory, bridge, postgres
  <2>2. ASSUME NEW v \in Workers, pc[v] = "track" PROVE Accounted(Order(v))'
    <3>1. Order(v) \in Orders /\ Order(v)' = Order(v)
      BY <2>1, <2>2, OrderInHand, MessagesStay DEF Order
    <3>2. QED
      BY <1>1, <1>2, <2>2, <3>1, AccountedStays DEF Accounted, Collecting
  <2>3. QED
    BY <1>1, <1>2, <1>3, <2>1, <2>2, AccountedStays
<1>5. ASSUME NEW w \in Workers, Act(w)
      PROVE  /\ \A o \in (dedupe \cup tracked)' : Accounted(o)'
             /\ \A v \in Workers : (pc[v] = "track")' => Accounted(Order(v))'
  <2>1. GoodStep(w) /\ messages' = messages
    BY <1>1, <1>5, FaultsCount, ActDelivers
  <2>2. \A o \in dedupe \cup tracked : Accounted(o)'
    BY <1>1, <1>2, <1>3, AccountedStays
  <2>3. ASSUME NEW v \in Workers, pc[v] = "track", (pc[v] = "track")'
        PROVE  Accounted(Order(v))'
    <3>1. current'[v] = current[v]
      BY <1>5, <2>3, OthersKeepMemory, CurrentStays
    <3>2. Order(v) \in Orders /\ Order(v)' = Order(v)
      BY <2>1, <2>3, <3>1, OrderInHand DEF Order
    <3>3. QED
      BY <1>1, <1>2, <2>3, <3>2, AccountedStays DEF Accounted, Collecting
  <2>4. ASSUME NEW v \in Workers, pc[v] # "track", (pc[v] = "track")'
        PROVE  v = w /\ (Dedupe(w) \/ Collect(w))
    <3>1. v = w
      BY <1>5, <2>4, OthersKeepMemory
    <3>2. QED
      BY <2>1, <2>4, <3>1 DEF TypeOK, Goto, Done, GoodStep, Start, Read, Take, Upsert,
           Reject, Prepare, Track, Ack, Retry, Bury, BuryAck
  <2>5. CASE Dedupe(w)
    <3>1. /\ dedupe' = dedupe \cup {Order(w)} /\ tracked' = tracked
          /\ Order(w)' = Order(w) /\ Order(w) \in Orders
          /\ pc'[w] = IF Order(w) \in dedupe THEN "track" ELSE "collect"
      BY <2>1, <2>5, OrderInHand DEF Dedupe, Goto, Order, TypeOK, postgres
    <3>2. Accounted(Order(w))'
      <4>1. CASE Order(w) \in dedupe
        BY <2>2, <3>1, <4>1 DEF Accounted, Collecting
      <4>2. CASE Order(w) \notin dedupe
        <5>1. w \in Collecting(Order(w))'
          BY <3>1, <4>2 DEF Collecting
        <5>2. QED
          BY <5>1 DEF Accounted
      <4>3. QED
        BY <4>1, <4>2
    <3>3. \A o \in (dedupe \cup tracked)' : Accounted(o)'
      <4>1. Accounted(Order(w))' => \A o : o = Order(w) => Accounted(o)'
        BY <3>1 DEF Accounted, Collecting
      <4>2. QED
        BY <2>2, <3>1, <3>2, <4>1
    <3>4. QED
      BY <2>3, <2>4, <3>2, <3>3
  <2>6. CASE Collect(w)
    <3>1. /\ UNCHANGED <<dedupe, tracked>>
          /\ Order(w)' = Order(w) /\ Order(w) \in Orders
      BY <2>1, <2>6, OrderInHand DEF Collect, Order, postgres
    <3>2. Accounted(Order(w))'
      BY <2>6, <3>1 DEF Collect, TypeOK, Accounted
    <3>3. QED
      BY <2>2, <2>3, <2>4, <3>1, <3>2
  <2>7. CASE Track(w)
    <3>1. /\ dedupe' = dedupe /\ tracked' = tracked \cup {Order(w)}
          /\ Order(w) \in Orders /\ pc[w] = "track"
      BY <2>7, OrderInHand DEF Track, bridge
    <3>2. ASSUME NEW o, o = Order(w) PROVE Accounted(o)'
      <4>1. Accounted(o) /\ o \in Orders
        BY <1>2, <3>1, <3>2
      <4>2. QED
        BY <1>1, <4>1, AccountedStays
    <3>3. QED
      BY <2>2, <2>3, <2>4, <2>7, <3>1, <3>2 DEF Track, Dedupe, Collect
  <2>8. CASE ~(Dedupe(w) \/ Collect(w) \/ Track(w))
    <3>1. UNCHANGED <<dedupe, tracked>>
      BY <2>1, <2>8 DEF GoodStep, Start, Read, Take, Upsert, Reject, Prepare, Ack,
           Retry, Bury, BuryAck, bridge, postgres
    <3>2. QED
      BY <2>2, <2>3, <2>4, <2>8, <3>1
  <2>9. QED
    BY <2>5, <2>6, <2>7, <2>8
<1>6. QED
  BY <1>4, <1>5 DEF Next, Act

(* An order is marked as tracked without a purchase in events:stream only  *)
(* while its purchase is about to be queued, or after a call failed or a   *)
(* process stopped.                                                        *)
THEOREM UncountedSafe == Spec => []UncountedExplained
<1>1. Init => CountedInv
  BY DEF Init, CountedInv
<1>2. TypeOK /\ CountedInv => UncountedExplained
  BY DEF CountedInv, UncountedExplained, Accounted, Collecting
<1>3. QED
  BY <1>1, <1>2, NextCounted, InHandCorrect, PTL DEF Spec

-----------------------------------------------------------------------------
(* How often a purchase is queued.                                         *)

(* The key of an order that is there to be taken.                          *)
FreeKeys(o) == IF o \in dedupe THEN 0 ELSE 1

(* A purchase that was queued, one that is about to be queued and a key    *)
(* that is free each stand for one use of the key; only a key that expires *)
(* adds to their number.                                                   *)
OnceInv ==
    \A o \in Orders :
        purchases[o] + Cardinality(Collecting(o)) + FreeKeys(o) <= 1 + expiries

(* The workers about to queue a purchase can be counted.                   *)
LEMMA CollectingFinite ==
    ASSUME NEW o
    PROVE  IsFiniteSet(Collecting(o)) /\ Cardinality(Collecting(o)) \in Nat
<1>1. Collecting(o) \subseteq Workers
  BY DEF Collecting
<1>2. IsFiniteSet(Collecting(o))
  BY <1>1, WorkersAssumption, FS_Subset
<1>3. QED
  BY <1>2, FS_CardinalityType

(* A step of worker w changes Collecting by w at most.                     *)
LEMMA CollectingStep ==
    ASSUME TypeOK, InHand, NEW w \in Workers, Act(w), NEW o
    PROVE  /\ Collecting(o)' \subseteq Collecting(o) \cup {w}
           /\ Collecting(o) \subseteq Collecting(o)' \cup {w}
<1>1. ASSUME NEW v \in Workers, v # w
      PROVE  v \in Collecting(o)' <=> v \in Collecting(o)
  BY <1>1, OthersKeepMemory, ActDelivers DEF Collecting, Order
<1>2. QED
  BY <1>1 DEF Collecting

(* It enters the set when it takes the key and leaves it at the next step. *)
LEMMA CollectingCount ==
    ASSUME TypeOK, InHand, NEW w \in Workers, Act(w), NEW o
    PROVE  /\ w \notin Collecting(o)' =>
                 Cardinality(Collecting(o)') <= Cardinality(Collecting(o))
           /\ w \in Collecting(o) \ Collecting(o)' =>
                 Cardinality(Collecting(o)') = Cardinality(Collecting(o)) - 1
           /\ w \notin Collecting(o) /\ w \in Collecting(o)' =>
                 Cardinality(Collecting(o)') = Cardinality(Collecting(o)) + 1
<1> DEFINE C == Collecting(o)
           D == Collecting(o)'
<1>1. IsFiniteSet(C) /\ D \subseteq C \cup {w} /\ C \subseteq D \cup {w}
  BY CollectingFinite, CollectingStep
<1> HIDE DEF C, D
<1>2. CASE w \notin D
  <2>1. D \subseteq C
    BY <1>1, <1>2
  <2>2. Cardinality(D) <= Cardinality(C)
    BY <1>1, <2>1, FS_Subset
  <2>3. w \in C => D = C \ {w}
    BY <1>1, <1>2
  <2>4. w \in C => Cardinality(D) = Cardinality(C) - 1
    BY <1>1, <2>3, FS_RemoveElement
  <2>5. QED
    BY <1>2, <2>2, <2>4 DEF C, D
<1>3. CASE w \in D
  <2>1. w \notin C => D = C \cup {w}
    BY <1>1, <1>3
  <2>2. w \notin C => Cardinality(D) = Cardinality(C) + 1
    BY <1>1, <2>1, FS_AddElement
  <2>3. QED
    BY <1>3, <2>2 DEF C, D
<1>4. QED
  BY <1>2, <1>3

(* After a step of another kind than Dedupe the worker is not about to     *)
(* queue anything.                                                         *)
LEMMA CollectingByDedupe ==
    ASSUME TypeOK, NEW w \in Workers, Act(w), ~Dedupe(w)
    PROVE  pc'[w] # "collect"
<1> USE DEF TypeOK, Goto, Done, Failed
<1>1. CASE Start(w) \/ Crash(w) \/ Read(w) \/ Take(w)
  BY <1>1 DEF Start, Crash, Read, Take
<1>2. CASE Upsert(w) \/ UpsertFails(w) \/ Reject(w)
  BY <1>2 DEF Upsert, UpsertFails, Reject
<1>3. CASE Prepare(w) \/ PrepareFails(w) \/ DedupeFails(w)
  BY <1>3 DEF Prepare, PrepareFails, DedupeFails
<1>4. CASE Collect(w) \/ CollectFails(w) \/ Track(w) \/ TrackFails(w)
  BY <1>4 DEF Collect, CollectFails, Track, TrackFails
<1>5. CASE Ack(w) \/ AckFails(w) \/ Retry(w) \/ RetryFails(w)
  BY <1>5 DEF Ack, AckFails, Retry, RetryFails
<1>6. CASE Bury(w) \/ BuryFails(w) \/ BuryAck(w) \/ BuryAckFails(w)
  BY <1>6 DEF Bury, BuryFails, BuryAck, BuryAckFails
<1>7. QED
  BY <1>1, <1>2, <1>3, <1>4, <1>5, <1>6 DEF Act, Step

(* No step of a worker makes a use of the key out of nothing.              *)
LEMMA ActOnce ==
    ASSUME TypeOK, InHand, OnceInv, NEW w \in Workers, Act(w)
    PROVE  OnceInv'
<1> SUFFICES ASSUME NEW o \in Orders
             PROVE  purchases'[o] + Cardinality(Collecting(o)') + FreeKeys(o)'
                       <= 1 + expiries'
  BY DEF OnceInv
<1> DEFINE c == Cardinality(Collecting(o))
           d == Cardinality(Collecting(o)')
<1>1. /\ c \in Nat
      /\ purchases[o] \in Nat
      /\ expiries \in Nat
      /\ purchases[o] + c + FreeKeys(o) <= 1 + expiries
  BY CollectingFinite, BoundAssumption DEF OnceInv, TypeOK
<1>2. d \in Nat
  <2>1. Collecting(o)' \subseteq Collecting(o) \cup {w}
    BY CollectingStep
  <2>2. IsFiniteSet(Collecting(o) \cup {w})
    BY CollectingFinite, FS_AddElement
  <2>3. QED
    BY <2>1, <2>2, FS_Subset, FS_CardinalityType
<1>3. FreeKeys(o) \in 0 .. 1 /\ FreeKeys(o)' \in 0 .. 1
  BY DEF FreeKeys
<1>4. expiries' = expiries /\ dedupe \subseteq dedupe'
  BY DEF Act, Step, Calm, Fault, Failed, Start, Crash, Read, Take, Upsert, UpsertFails,
     Reject, Prepare, PrepareFails, Dedupe, DedupeFails, Collect, CollectFails, Track,
     TrackFails, Ack, AckFails, Retry, RetryFails, Bury, BuryFails, BuryAck,
     BuryAckFails, bridge
<1>5. FreeKeys(o)' <= FreeKeys(o)
  BY <1>4 DEF FreeKeys
<1> HIDE DEF c, d
<1>6. CASE Dedupe(w)
  <2>1. /\ purchases' = purchases
        /\ dedupe' = dedupe \cup {Order(w)}
        /\ Order(w)' = Order(w)
        /\ w \notin Collecting(o)
        /\ pc'[w] = IF Order(w) \in dedupe THEN "track" ELSE "collect"
    BY <1>6, ActDelivers DEF Dedupe, Goto, TypeOK, Order, Collecting
  <2>2. CASE o = Order(w) /\ o \notin dedupe
    <3>1. d = c + 1
      BY <2>1, <2>2, CollectingCount DEF c, d, Collecting
    <3>2. FreeKeys(o) = 1 /\ FreeKeys(o)' = 0
      BY <2>1, <2>2 DEF FreeKeys
    <3>3. QED
      BY <1>1, <1>4, <2>1, <3>1, <3>2 DEF d
  <2>3. CASE ~(o = Order(w) /\ o \notin dedupe)
    <3>1. w \notin Collecting(o)'
      BY <2>1, <2>3 DEF Collecting
    <3>2. d <= c
      BY <3>1, CollectingCount DEF c, d
    <3>3. QED
      BY <1>1, <1>2, <1>3, <1>4, <1>5, <2>1, <3>2 DEF d
  <2>4. QED
    BY <2>2, <2>3
<1>7. CASE ~Dedupe(w)
  <2>1. w \notin Collecting(o)' /\ d <= c
    BY <1>7, CollectingByDedupe, CollectingCount DEF Collecting, c, d
  <2>2. CASE purchases' = purchases
    BY <1>1, <1>2, <1>3, <1>4, <1>5, <2>1, <2>2 DEF d
  <2>3. CASE purchases' # purchases
    <3>1. /\ Collect(w) \/ CollectFails(w)
          /\ purchases' = [purchases EXCEPT ![Order(w)] = @ + 1]
      BY <2>3 DEF Act, Step, Start, Crash, Read, Take, Upsert, UpsertFails, Reject,
           Prepare, PrepareFails, Dedupe, DedupeFails, Collect, CollectFails, Track,
           TrackFails, Ack, AckFails, Retry, RetryFails, Bury, BuryFails, BuryAck,
           BuryAckFails, bridge
    <3>2. pc[w] = "collect"
      BY <3>1 DEF Collect, CollectFails
    <3>3. CASE o = Order(w)
      <4>1. d = c - 1
        BY <2>1, <3>2, <3>3, CollectingCount DEF Collecting, c, d
      <4>2. purchases'[o] = purchases[o] + 1
        BY <3>1, <3>3 DEF TypeOK
      <4>3. QED
        BY <1>1, <1>2, <1>3, <1>4, <1>5, <4>1, <4>2 DEF d
    <3>4. CASE o # Order(w)
      <4>1. purchases'[o] = purchases[o]
        BY <3>1, <3>4 DEF TypeOK
      <4>2. QED
        BY <1>1, <1>2, <1>3, <1>4, <1>5, <2>1, <4>1 DEF d
    <3>5. QED
      BY <3>3, <3>4
  <2>4. QED
    BY <2>2, <2>3
<1>8. QED
  BY <1>6, <1>7

(* Every step keeps the balance.                                           *)
LEMMA NextOnce == TypeOK /\ InHand /\ OnceInv /\ [Next]_vars => OnceInv'
<1> SUFFICES ASSUME TypeOK, InHand, OnceInv, [Next]_vars PROVE OnceInv'
  OBVIOUS
<1>1. CASE Enqueue \/ Expire \/ UNCHANGED vars
  <2>1. UNCHANGED <<pc, current, purchases>>
    BY <1>1 DEF Enqueue, Expire, vars, memory, bridge
  <2>2. \A o : Collecting(o)' = Collecting(o)
    BY <2>1, OrderInHand, MessagesStay DEF Collecting, Order
  <2>3. ASSUME NEW o \in Orders
        PROVE  FreeKeys(o)' + expiries <= FreeKeys(o) + expiries'
    BY <1>1, BoundAssumption
       DEF Enqueue, Expire, vars, bridge, Calm, FreeKeys, TypeOK
  <2>4. ASSUME NEW o \in Orders
        PROVE  /\ purchases[o] \in Nat /\ Cardinality(Collecting(o)) \in Nat
               /\ FreeKeys(o) \in Nat /\ FreeKeys(o)' \in Nat
               /\ expiries \in Nat /\ expiries' \in Nat
    BY CollectingFinite, NextTypeOK, BoundAssumption DEF TypeOK, FreeKeys
  <2>5. QED
    BY <2>1, <2>2, <2>3, <2>4 DEF OnceInv
<1>2. ASSUME NEW w \in Workers, Act(w) PROVE OnceInv'
  BY <1>2, ActOnce
<1>3. QED
  BY <1>1, <1>2 DEF Next, Act

(* The purchase of an order is queued for analytics at most once for every *)
(* time its dedupe key can be taken.                                       *)
THEOREM PurchaseSafe == Spec => []PurchaseBounded
<1>1. Init => OnceInv
  <2> SUFFICES ASSUME Init, NEW o \in Orders
               PROVE  purchases[o] + Cardinality(Collecting(o)) + FreeKeys(o) <= 1 + expiries
    BY DEF OnceInv
  <2>1. Collecting(o) = {} /\ purchases[o] = 0 /\ FreeKeys(o) = 1 /\ expiries = 0
    BY DEF Init, Collecting, FreeKeys
  <2>2. QED
    BY <2>1, FS_EmptySet
<1>2. TypeOK /\ OnceInv => PurchaseBounded
  <2> SUFFICES ASSUME TypeOK, OnceInv, NEW o \in Orders
               PROVE  purchases[o] <= 1 + expiries
    BY DEF PurchaseBounded
  <2>1. /\ purchases[o] + Cardinality(Collecting(o)) + FreeKeys(o) <= 1 + expiries
        /\ purchases[o] \in Nat /\ Cardinality(Collecting(o)) \in Nat
        /\ FreeKeys(o) \in Nat /\ expiries \in Nat
    BY CollectingFinite, BoundAssumption DEF OnceInv, TypeOK, FreeKeys
  <2>2. QED
    BY <2>1
<1>3. QED
  BY <1>1, <1>2, NextOnce, InHandCorrect, PTL DEF Spec

-----------------------------------------------------------------------------
(* Each message is handled once.                                           *)

(* What a worker has of the stream: messages to come and the one in hand.  *)
Held(w) == inbox[w] \cup IF pc[w] \in {"off", "run"} THEN {} ELSE {current[w]}

(* Nothing has failed for this message.                                    *)
Untouched(m) == attempts[m] = 0 /\ dead[m] = 0

Earned(m) == messages[m].kind = "bad" \/ MaxRetries = 1

(* From its place in the handler one can tell whether the failure of the   *)
(* message in hand has been counted.                                       *)
Ledger(w) ==
    /\ pc[w] \in {"upsert", "prepare", "dedupe", "collect", "track", "ack", "retry"} =>
          Untouched(current[w])
    /\ pc[w] = "bury" => dead[current[w]] = 0 /\ Earned(current[w])

(* No two workers have the same message, and what none has looked at is    *)
(* untouched.                                                              *)
OnceHandled ==
    /\ \A w, v \in Workers : v # w => Held(w) \cap Held(v) = {}
    /\ \A w \in Workers : pc[w] \notin {"off", "run"} => current[w] \notin inbox[w]
    /\ \A m \in Ids \ Delivered : Untouched(m)
    /\ \A w \in Workers : \A m \in inbox[w] : Untouched(m)
    /\ \A w \in Workers : Ledger(w)
    /\ NeverRetried

(* A worker counts failures and copies of the message in hand only.        *)
LEMMA OwnCounters ==
    ASSUME TypeOK, NEW w \in Workers, Act(w), NEW m \in Ids,
           pc[w] \notin {"off", "run"} => m # current[w]
    PROVE  attempts'[m] = attempts[m] /\ dead'[m] = dead[m]
<1>1. CASE Ack(w) \/ AckFails(w) \/ BuryAck(w) \/ BuryAckFails(w)
  <2>1. /\ pc[w] \notin {"off", "run"} /\ dead' = dead
        /\ attempts' = attempts \/ attempts' = [attempts EXCEPT ![current[w]] = 0]
    BY <1>1 DEF Ack, AckFails, BuryAck, BuryAckFails
  <2>2. QED
    BY <2>1 DEF TypeOK
<1>2. CASE Retry(w) \/ RetryFails(w)
  <2>1. /\ pc[w] \notin {"off", "run"} /\ dead' = dead
        /\ attempts' = attempts \/ attempts' = [attempts EXCEPT ![current[w]] = @ + 1]
    BY <1>2 DEF Retry, RetryFails
  <2>2. QED
    BY <2>1 DEF TypeOK
<1>3. CASE Bury(w) \/ BuryFails(w)
  <2>1. /\ pc[w] \notin {"off", "run"} /\ attempts' = attempts
        /\ dead' = dead \/ dead' = [dead EXCEPT ![current[w]] = @ + 1]
    BY <1>3 DEF Bury, BuryFails
  <2>2. QED
    BY <2>1 DEF TypeOK
<1>4. CASE ~(\/ Ack(w) \/ AckFails(w) \/ BuryAck(w) \/ BuryAckFails(w)
             \/ Retry(w) \/ RetryFails(w) \/ Bury(w) \/ BuryFails(w))
  <2>1. attempts' = attempts /\ dead' = dead
    BY <1>4 DEF Act, Step, Start, Crash, Read, Take, Upsert, UpsertFails, Reject,
       Prepare, PrepareFails, Dedupe, DedupeFails, Collect, CollectFails, Track,
       TrackFails, stream
  <2>2. QED
    BY <2>1
<1>5. QED
  BY <1>1, <1>2, <1>3, <1>4

(* A worker gets no messages but such as nobody was given, and those only  *)
(* into its inbox; the message in hand was the inbox's.                    *)
LEMMA NewMessages ==
    ASSUME TypeOK, InHand, NEW w \in Workers, Act(w)
    PROVE  /\ inbox'[w] \subseteq inbox[w] \cup (Delivered' \ Delivered)
           /\ pc'[w] \notin {"off", "run"} =>
                \/ /\ Take(w)
                   /\ current'[w] \in inbox[w]
                   /\ inbox'[w] = inbox[w] \ {current'[w]}
                \/ /\ pc[w] \notin {"off", "run"}
                   /\ current'[w] = current[w]
                   /\ inbox'[w] \subseteq inbox[w]
<1>1. CASE Read(w)
  <2>1. PICK n \in 1 .. BatchSize :
           /\ cursor' = cursor + n
           /\ \/ inbox' = [inbox EXCEPT ![w] = cursor + 1 .. cursor + n]
              \/ inbox' = inbox
    BY <1>1 DEF Read
  <2>2. cursor \in Nat /\ n \in Nat
    BY ConfigAssumption DEF TypeOK
  <2>3. cursor + 1 .. cursor + n \subseteq Delivered' \ Delivered
    BY <2>1, <2>2 DEF Delivered
  <2>4. pc'[w] = "run"
    BY <1>1 DEF Read
  <2>5. inbox'[w] = cursor + 1 .. cursor + n \/ inbox'[w] = inbox[w]
    BY <2>1 DEF TypeOK
  <2>6. QED
    BY <2>3, <2>4, <2>5
<1>2. CASE Take(w)
  <2>1. PICK m \in inbox[w] :
           /\ inbox' = [inbox EXCEPT ![w] = @ \ {m}]
           /\ current' = [current EXCEPT ![w] = m]
    BY <1>2 DEF Take
  <2>2. inbox'[w] = inbox[w] \ {m} /\ current'[w] = m
    BY <2>1 DEF TypeOK
  <2>3. QED
    BY <1>2, <2>2
<1>3. CASE ~Read(w) /\ ~Take(w)
  <2>1. inbox'[w] = inbox[w] \/ inbox'[w] = {}
    BY <1>3 DEF TypeOK, Act, Step, Done, Failed, Start, Crash, Upsert, UpsertFails,
       Reject, Prepare, PrepareFails, Dedupe, DedupeFails, Collect, CollectFails,
       Track, TrackFails, Ack, AckFails, Retry, RetryFails, Bury, BuryFails,
       BuryAck, BuryAckFails
  <2>2. pc'[w] \notin {"off", "run"} => pc[w] \notin {"off", "run"}
    BY <1>3 DEF TypeOK, Act, Step, Done, Goto, Failed, Start, Crash, Upsert,
       UpsertFails, Reject, Prepare, PrepareFails, Dedupe, DedupeFails, Collect,
       CollectFails, Track, TrackFails, Ack, AckFails, Retry, RetryFails, Bury,
       BuryFails, BuryAck, BuryAckFails
  <2>3. QED
    BY <2>1, <2>2, CurrentStays
<1>4. QED
  BY <1>1, <1>2, <1>3

(* What a worker has was delivered.                                        *)
LEMMA HeldDelivered ==
    ASSUME InHand, NEW w \in Workers
    PROVE  Held(w) \subseteq Delivered
BY DEF InHand, Held

(* No message gets into two hands.                                         *)
LEMMA HeldApart ==
    ASSUME TypeOK, InHand, OnceHandled, NEW w \in Workers, Act(w)
    PROVE  /\ \A u, v \in Workers : v # u => Held(u)' \cap Held(v)' = {}
           /\ \A v \in Workers : pc'[v] \notin {"off", "run"} => current'[v] \notin inbox'[v]
<1>1. ASSUME NEW v \in Workers, v # w
      PROVE  Held(v)' = Held(v) /\ Held(w)' \cap Held(v) = {}
  <2>1. pc'[v] = pc[v] /\ inbox'[v] = inbox[v] /\ current'[v] = current[v]
    BY <1>1, OthersKeepMemory
  <2>2. Held(v)' = Held(v)
    BY <2>1 DEF Held
  <2>3. Held(w)' \subseteq Held(w) \cup (Delivered' \ Delivered)
    BY NewMessages DEF Held
  <2>4. Held(v) \subseteq Delivered /\ Held(w) \cap Held(v) = {}
    BY <1>1, HeldDelivered DEF OnceHandled
  <2>5. QED
    BY <2>2, <2>3, <2>4
<1>2. ASSUME NEW v \in Workers, pc'[v] \notin {"off", "run"}
      PROVE  current'[v] \notin inbox'[v]
  <2>1. CASE v # w
    BY <1>2, <2>1, OthersKeepMemory DEF OnceHandled
  <2>2. CASE v = w
    BY <1>2, <2>2, NewMessages DEF OnceHandled
  <2>3. QED
    BY <2>1, <2>2
<1>3. ASSUME NEW u \in Workers, NEW v \in Workers, v # u
      PROVE  Held(u)' \cap Held(v)' = {}
  <2>1. CASE u = w
    BY <1>1, <1>3, <2>1
  <2>2. CASE v = w
    BY <1>1, <1>3, <2>2
  <2>3. CASE u # w /\ v # w
    BY <1>1, <1>3, <2>3 DEF OnceHandled
  <2>4. QED
    BY <2>1, <2>2, <2>3
<1>4. QED
  BY <1>2, <1>3

(* What no worker has looked at stays untouched.                           *)
LEMMA UnseenUntouched ==
    ASSUME TypeOK, InHand, OnceHandled, NEW w \in Workers, Act(w)
    PROVE  /\ \A m \in Ids \ Delivered' : Untouched(m)'
           /\ \A v \in Workers : \A m \in inbox'[v] : Untouched(m)'
<1>1. Delivered \subseteq Delivered'
  BY ActDelivers
<1>2. pc[w] \notin {"off", "run"} => current[w] \in Delivered /\ current[w] \in Held(w)
  BY DEF InHand, Held
<1>3. ASSUME NEW m \in Ids \ Delivered PROVE Untouched(m)'
  BY <1>2, <1>3, OwnCounters DEF OnceHandled, Untouched
<1>4. ASSUME NEW v \in Workers, NEW m \in inbox[v] PROVE Untouched(m)'
  <2>1. m \in Ids /\ Untouched(m)
    BY DEF TypeOK, OnceHandled
  <2>2. pc[w] \notin {"off", "run"} => m # current[w]
    <3>1. CASE v = w
      BY <1>4, <3>1 DEF OnceHandled
    <3>2. CASE v # w
      BY <1>2, <1>4, <3>2 DEF OnceHandled, Held
    <3>3. QED
      BY <3>1, <3>2
  <2>3. QED
    BY <2>1, <2>2, OwnCounters DEF Untouched
<1>5. ASSUME NEW v \in Workers, NEW m \in inbox'[v] PROVE Untouched(m)'
  <2>1. CASE v # w
    BY <1>4, <1>5, <2>1, OthersKeepMemory
  <2>2. CASE v = w
    <3>1. m \in inbox[w] \/ m \in Delivered' \ Delivered
      BY <1>5, <2>2, NewMessages
    <3>2. m \in Ids
      BY <1>5, NextTypeOK DEF TypeOK, Next, Act
    <3>3. QED
      BY <1>3, <1>4, <3>1, <3>2
  <2>3. QED
    BY <2>1, <2>2
<1>6. QED
  BY <1>1, <1>3, <1>5

(* A worker's own step: the failure is counted on the way out of "retry",  *)
(* and leads to "bury" only at a limit of 1.                               *)
LEMMA OwnLedger ==
    ASSUME TypeOK, InHand, OnceHandled, NEW w \in Workers, Act(w)
    PROVE  Ledger(w)'
<1>1. messages' = messages
  BY ActDelivers
<1>2. Ledger(w)
  BY DEF OnceHandled
<1> USE DEF Goto, Done, stream
<1>3. CASE Start(w) \/ Crash(w) \/ Read(w)
  <2>1. pc'[w] \in {"off", "run"}
    BY <1>3 DEF Start, Crash, Read, TypeOK
  <2>2. QED
    BY <2>1 DEF Ledger
<1>4. CASE Take(w)
  <2>1. PICK m \in inbox[w] :
           /\ current' = [current EXCEPT ![w] = m]
           /\ pc' = [pc EXCEPT ![w] = IF messages[m].kind = "bad" THEN "bury" ELSE "upsert"]
    BY <1>4 DEF Take
  <2>2. current'[w] = m /\ attempts' = attempts /\ dead' = dead
    BY <1>4, <2>1 DEF Take, TypeOK
  <2>3. /\ pc'[w] \in {"bury", "upsert"}
        /\ pc'[w] = "bury" => messages[m].kind = "bad"
    BY <2>1 DEF TypeOK
  <2>4. Untouched(m)
    BY DEF OnceHandled
  <2>5. QED
    BY <1>1, <2>2, <2>3, <2>4 DEF Ledger, Untouched, Earned
<1>5. CASE \/ Upsert(w) \/ UpsertFails(w) \/ Reject(w) \/ Prepare(w) \/ PrepareFails(w)
           \/ Dedupe(w) \/ DedupeFails(w) \/ Collect(w) \/ CollectFails(w)
           \/ Track(w) \/ TrackFails(w)
  <2>1. /\ pc[w] \in {"upsert", "prepare", "dedupe", "collect", "track"}
        /\ UNCHANGED <<attempts, dead, current>>
    BY <1>5 DEF Upsert, UpsertFails, Reject, Prepare, PrepareFails, Dedupe, DedupeFails,
       Collect, CollectFails, Track, TrackFails, Failed
  <2>2. pc'[w] # "bury"
    BY <1>5 DEF Upsert, UpsertFails, Reject, Prepare, PrepareFails, Dedupe, DedupeFails,
       Collect, CollectFails, Track, TrackFails, Failed, TypeOK
  <2>3. QED
    BY <1>2, <2>1, <2>2 DEF Ledger, Untouched
<1>6. CASE Retry(w)
  <2>1. CASE attempts[current[w]] + 1 >= MaxRetries
    <3>1. /\ pc'[w] = "bury" /\ UNCHANGED <<current, dead>>
          /\ pc[w] = "retry"
      BY <1>6, <2>1 DEF Retry, TypeOK
    <3>2. attempts[current[w]] = 0 /\ dead[current[w]] = 0
      BY <1>2, <3>1 DEF Ledger, Untouched
    <3>3. MaxRetries = 1
      BY <2>1, <3>2, ConfigAssumption
    <3>4. QED
      BY <3>1, <3>2, <3>3 DEF Ledger, Earned
  <2>2. CASE ~(attempts[current[w]] + 1 >= MaxRetries)
    <3>1. pc'[w] = "run"
      BY <1>6, <2>2 DEF Retry, TypeOK
    <3>2. QED
      BY <3>1 DEF Ledger
  <2>3. QED
    BY <2>1, <2>2
<1>7. CASE \/ RetryFails(w) \/ Bury(w) \/ BuryFails(w) \/ Ack(w) \/ AckFails(w)
           \/ BuryAck(w) \/ BuryAckFails(w)
  <2>1. pc'[w] \in {"run", "buryack"}
    BY <1>7 DEF RetryFails, Bury, BuryFails, Ack, AckFails, BuryAck, BuryAckFails, TypeOK
  <2>2. QED
    BY <2>1 DEF Ledger
<1>8. QED
  BY <1>3, <1>4, <1>5, <1>6, <1>7 DEF Act, Step

(* Another worker's step counts nothing for the message in hand.           *)
LEMMA OthersLedger ==
    ASSUME TypeOK, InHand, OnceHandled, NEW w \in Workers, Act(w),
           NEW v \in Workers, v # w
    PROVE  Ledger(v)'
<1>1. pc'[v] = pc[v] /\ current'[v] = current[v] /\ messages' = messages
  BY OthersKeepMemory, ActDelivers
<1>2. CASE pc[v] \in {"off", "run"}
  BY <1>1, <1>2 DEF Ledger
<1>3. CASE pc[v] \notin {"off", "run"}
  <2>1. current[v] \in Held(v) /\ current[v] \in Ids
    BY <1>3, OrderInHand DEF Held
  <2>2. pc[w] \notin {"off", "run"} => current[v] # current[w]
    BY <2>1 DEF OnceHandled, Held
  <2>3. attempts'[current[v]] = attempts[current[v]] /\ dead'[current[v]] = dead[current[v]]
    BY <2>1, <2>2, OwnCounters
  <2>4. Ledger(v)
    BY DEF OnceHandled
  <2>5. QED
    BY <1>1, <2>3, <2>4 DEF Ledger, Untouched, Earned
<1>4. QED
  BY <1>2, <1>3

(* The failure of the message in hand is counted once, and it is copied    *)
(* once.                                                                   *)
LEMMA OwnNeverRetried ==
    ASSUME TypeOK, InHand, OnceHandled, NEW w \in Workers, Act(w)
    PROVE  NeverRetried'
<1>1. messages' = messages
  BY ActDelivers
<1>2. \A m \in Ids : /\ attempts[m] \in Nat /\ dead[m] \in Nat
                     /\ attempts[m] <= 1 /\ dead[m] <= 1
                     /\ dead[m] > 0 => Earned(m)
  BY DEF TypeOK, OnceHandled, NeverRetried, Earned
<1>3. ASSUME NEW m \in Ids
      PROVE  attempts'[m] <= 1 /\ dead'[m] <= 1 /\ (dead'[m] > 0 => Earned(m))
  <2>1. CASE attempts'[m] = attempts[m] /\ dead'[m] = dead[m]
    BY <1>2, <2>1
  <2>2. CASE ~(attempts'[m] = attempts[m] /\ dead'[m] = dead[m])
    <3>1. pc[w] \notin {"off", "run"} /\ m = current[w]
      BY <2>2, OwnCounters
    <3>2. Ledger(w)
      BY DEF OnceHandled
    <3>3. CASE Retry(w) \/ RetryFails(w)
      <4>1. /\ pc[w] = "retry" /\ dead' = dead
            /\ attempts' = attempts \/ attempts' = [attempts EXCEPT ![current[w]] = @ + 1]
        BY <3>3 DEF Retry, RetryFails
      <4>2. attempts[m] = 0 /\ dead[m] = 0
        BY <3>1, <3>2, <4>1 DEF Ledger, Untouched
      <4>3. attempts'[m] = 0 \/ attempts'[m] = 1
        BY <3>1, <4>1, <4>2 DEF TypeOK
      <4>4. QED
        BY <4>1, <4>2, <4>3
    <3>4. CASE Bury(w) \/ BuryFails(w)
      <4>1. /\ pc[w] = "bury" /\ attempts' = attempts
            /\ dead' = dead \/ dead' = [dead EXCEPT ![current[w]] = @ + 1]
        BY <3>4 DEF Bury, BuryFails
      <4>2. dead[m] = 0 /\ Earned(m)
        BY <3>1, <3>2, <4>1 DEF Ledger
      <4>3. dead'[m] = 0 \/ dead'[m] = 1
        BY <3>1, <4>1, <4>2 DEF TypeOK
      <4>4. QED
        BY <1>2, <4>1, <4>2, <4>3
    <3>5. CASE Ack(w) \/ AckFails(w) \/ BuryAck(w) \/ BuryAckFails(w)
      <4>1. /\ dead' = dead
            /\ attempts' = attempts \/ attempts' = [attempts EXCEPT ![current[w]] = 0]
        BY <3>5 DEF Ack, AckFails, BuryAck, BuryAckFails
      <4>2. attempts'[m] = attempts[m] \/ attempts'[m] = 0
        BY <3>1, <4>1 DEF TypeOK
      <4>3. QED
        BY <1>2, <4>1, <4>2
    <3>6. CASE ~(\/ Ack(w) \/ AckFails(w) \/ BuryAck(w) \/ BuryAckFails(w)
                 \/ Retry(w) \/ RetryFails(w) \/ Bury(w) \/ BuryFails(w))
      <4>1. attempts' = attempts /\ dead' = dead
        BY <3>6 DEF Act, Step, Start, Crash, Read, Take, Upsert, UpsertFails, Reject,
           Prepare, PrepareFails, Dedupe, DedupeFails, Collect, CollectFails, Track,
           TrackFails, stream
      <4>2. QED
        BY <1>2, <4>1
    <3>7. QED
      BY <3>3, <3>4, <3>5, <3>6
  <2>3. QED
    BY <2>1, <2>2
<1>4. QED
  BY <1>1, <1>3 DEF NeverRetried, Earned

(* Every step keeps it.                                                    *)
LEMMA NextOnceHandled ==
    TypeOK /\ InHand /\ OnceHandled /\ [Next]_vars => OnceHandled'
<1> SUFFICES ASSUME TypeOK, InHand, OnceHandled, [Next]_vars PROVE OnceHandled'
  OBVIOUS
<1>1. CASE Enqueue \/ Expire \/ UNCHANGED vars
  <2>1. UNCHANGED <<cursor, attempts, dead, pc, inbox, current>>
    BY <1>1 DEF Enqueue, Expire, vars, stream, memory
  <2>2. \A m \in Delivered : m \in Ids /\ messages'[m] = messages[m]
    BY MessageOfStream, MessagesStay
  <2>3. Delivered' = Delivered
    BY <2>1 DEF Delivered
  <2>4. /\ \A u, v \in Workers : v # u => Held(u)' \cap Held(v)' = {}
        /\ \A v \in Workers : (pc[v] \notin {"off", "run"} => current[v] \notin inbox[v])'
        /\ \A m \in Ids \ Delivered' : Untouched(m)'
        /\ \A v \in Workers : \A m \in inbox'[v] : Untouched(m)'
    BY <2>1, <2>3 DEF OnceHandled, Held, Untouched
  <2>5. \A v \in Workers : Ledger(v)'
    BY <2>1, <2>2 DEF OnceHandled, Ledger, Untouched, Earned, InHand
  <2>6. NeverRetried'
    <3> SUFFICES ASSUME NEW m \in Ids
                 PROVE  /\ attempts[m] <= 1 /\ dead[m] <= 1
                        /\ dead[m] > 0 => messages'[m].kind = "bad" \/ MaxRetries = 1
      BY <2>1 DEF NeverRetried
    <3>1. m \notin Delivered => dead[m] = 0
      BY DEF OnceHandled, Untouched
    <3>2. QED
      BY <2>2, <3>1 DEF OnceHandled, NeverRetried
  <2>7. QED
    BY <2>4, <2>5, <2>6 DEF OnceHandled
<1>2. ASSUME NEW w \in Workers, Act(w) PROVE OnceHandled'
  <2>1. \A v \in Workers : Ledger(v)'
    BY <1>2, OwnLedger, OthersLedger
  <2>2. QED
    BY <1>2, <2>1, HeldApart, UnseenUntouched, OwnNeverRetried DEF OnceHandled
<1>3. QED
  BY <1>1, <1>2 DEF Next, Act

(* A snapshot's processing fails at most once and it is copied to          *)
(* orders:dead at most once, for any number of workers, faults and stops:  *)
(* with MaxRetries above 1 only what does not parse gets there.            *)
THEOREM OrdersNeverRetried == Spec => []NeverRetried
<1>1. Init => OnceHandled
  BY DEF Init, OnceHandled, Held, Untouched, Ledger, NeverRetried
<1>2. OnceHandled => NeverRetried
  BY DEF OnceHandled
<1>3. QED
  BY <1>1, <1>2, NextOnceHandled, InHandCorrect, PTL DEF Spec

-----------------------------------------------------------------------------
(* Nothing is lost from memory without a cause.                            *)

(* A pending message is one a worker has, or one the repository rejected,  *)
(* as long as calls work and no process stops.                             *)
NothingStrands ==
    faults + stops = 0 =>
        \A m \in pel : messages[m].kind = "poison" \/ \E w \in Workers : m \in Held(w)

(* Without a fault only a rejected snapshot is counted as a failure.       *)
Rejected(w) == pc[w] = "retry" => messages[current[w]].kind = "poison"

Untroubled == faults + stops = 0 => \A w \in Workers : Rejected(w)

(* No failing call and no stop comes before a state without them.          *)
LEMMA NothingFailed ==
    ASSUME TypeOK, NEW w \in Workers, Act(w), faults' = 0, stops' = 0
    PROVE  faults = 0 /\ stops = 0 /\ ~Fault /\ ~Crash(w)
<1>1. faults \in Nat /\ stops \in Nat
  BY BoundAssumption DEF TypeOK
<1>2. ~Fault /\ ~Crash(w)
  BY <1>1 DEF Fault, Crash
<1>3. UNCHANGED <<faults, stops>>
  <2>1. CASE Start(w) \/ Read(w) \/ Take(w)
    BY <1>2, <2>1 DEF Start, Read, Take, Calm
  <2>2. CASE Upsert(w) \/ UpsertFails(w) \/ Reject(w) \/ Prepare(w) \/ PrepareFails(w)
    BY <1>2, <2>2
       DEF Upsert, UpsertFails, Reject, Prepare, PrepareFails, Failed, Calm
  <2>3. CASE Dedupe(w) \/ DedupeFails(w) \/ Collect(w) \/ CollectFails(w)
    BY <1>2, <2>3 DEF Dedupe, DedupeFails, Collect, CollectFails, Failed, Calm
  <2>4. CASE Track(w) \/ TrackFails(w) \/ Ack(w) \/ AckFails(w)
    BY <1>2, <2>4 DEF Track, TrackFails, Ack, AckFails, Failed, Calm
  <2>5. CASE Retry(w) \/ RetryFails(w) \/ Bury(w) \/ BuryFails(w)
    BY <1>2, <2>5 DEF Retry, RetryFails, Bury, BuryFails, Calm
  <2>6. CASE BuryAck(w) \/ BuryAckFails(w)
    BY <1>2, <2>6 DEF BuryAck, BuryAckFails, Calm
  <2>7. QED
    BY <1>2, <2>1, <2>2, <2>3, <2>4, <2>5, <2>6 DEF Act, Step
<1>4. QED
  BY <1>2, <1>3

(* A worker lets go of what it has acknowledged, and of rejected messages. *)
LEMMA LiveMemory ==
    ASSUME TypeOK, NEW w \in Workers, Act(w), ~Fault, ~Crash(w), Rejected(w)
    PROVE  /\ pel' \subseteq pel \cup Held(w)'
           /\ \A m \in pel' \cap Held(w) :
                 messages[m].kind = "poison" \/ m \in Held(w)'
           /\ Rejected(w)'
<1>1. messages' = messages
  BY ActDelivers
<1> USE DEF Goto, Done, stream
<1>2. CASE Start(w)
  <2>1. pc[w] = "off" /\ pc'[w] = "run" /\ inbox' = inbox /\ pel' = pel
    BY <1>2 DEF Start, TypeOK
  <2>2. QED
    BY <2>1 DEF Held, Rejected
<1>3. CASE Read(w)
  <2>1. PICK n \in 1 .. BatchSize :
           /\ pel' = pel \cup (cursor + 1 .. cursor + n)
           /\ inbox' = [inbox EXCEPT ![w] = cursor + 1 .. cursor + n]
    BY <1>3 DEF Read
  <2>2. /\ inbox'[w] = cursor + 1 .. cursor + n
        /\ pc[w] = "run" /\ pc'[w] = "run" /\ inbox[w] = {}
    BY <1>3, <2>1 DEF Read, TypeOK
  <2>3. QED
    BY <2>1, <2>2 DEF Held, Rejected
<1>4. CASE Take(w)
  <2>1. PICK m \in inbox[w] :
           /\ inbox' = [inbox EXCEPT ![w] = @ \ {m}]
           /\ current' = [current EXCEPT ![w] = m]
           /\ pc' = [pc EXCEPT ![w] = IF messages[m].kind = "bad" THEN "bury" ELSE "upsert"]
    BY <1>4 DEF Take
  <2>2. /\ inbox'[w] = inbox[w] \ {m} /\ current'[w] = m
        /\ pc[w] = "run" /\ pc'[w] \in {"bury", "upsert"} /\ pel' = pel
    BY <1>4, <2>1 DEF Take, TypeOK
  <2>3. QED
    BY <2>2 DEF Held, Rejected
<1>5. CASE \/ Upsert(w) \/ Reject(w) \/ Prepare(w) \/ Dedupe(w) \/ Collect(w) \/ Track(w)
           \/ Bury(w)
  <2>1. /\ pc[w] \notin {"off", "run"} /\ pc'[w] \notin {"off", "run"}
        /\ UNCHANGED <<pel, inbox, current>>
    BY <1>5 DEF Upsert, Reject, Prepare, Dedupe, Collect, Track, Bury, TypeOK
  <2>2. pc'[w] = "retry" => messages[current[w]].kind = "poison"
    BY <1>5 DEF Upsert, Reject, Prepare, Dedupe, Collect, Track, Bury, TypeOK
  <2>3. QED
    BY <1>1, <2>1, <2>2 DEF Held, Rejected
<1>6. CASE Ack(w) \/ BuryAck(w)
  <2>1. /\ pc[w] \notin {"off", "run"} /\ pc'[w] = "run" /\ inbox' = inbox
        /\ pel' = pel \ {current[w]}
    BY <1>6 DEF Ack, BuryAck, TypeOK
  <2>2. QED
    BY <2>1 DEF Held, Rejected
<1>7. CASE Retry(w)
  <2>1. /\ pc[w] = "retry" /\ pc'[w] \in {"bury", "run"}
        /\ inbox' = inbox /\ pel' = pel
        /\ pc'[w] = "bury" => current' = current
    BY <1>7 DEF Retry, TypeOK
  <2>2. messages[current[w]].kind = "poison"
    BY <2>1 DEF Rejected
  <2>3. QED
    BY <2>1, <2>2 DEF Held, Rejected
<1>8. ~(\/ UpsertFails(w) \/ PrepareFails(w) \/ DedupeFails(w) \/ CollectFails(w)
        \/ TrackFails(w) \/ AckFails(w) \/ RetryFails(w) \/ BuryFails(w)
        \/ BuryAckFails(w))
  BY DEF UpsertFails, PrepareFails, DedupeFails, CollectFails, TrackFails, Failed,
     AckFails, RetryFails, BuryFails, BuryAckFails
<1>9. QED
  BY <1>2, <1>3, <1>4, <1>5, <1>6, <1>7, <1>8 DEF Act, Step

(* So no step strands a message that is not rejected.                      *)
LEMMA NextNothingStrands ==
    TypeOK /\ InHand /\ Untroubled /\ NothingStrands /\ [Next]_vars
        => Untroubled' /\ NothingStrands'
<1> SUFFICES ASSUME TypeOK, InHand, Untroubled, NothingStrands, [Next]_vars,
                    (faults + stops = 0)'
             PROVE  /\ \A w \in Workers : Rejected(w)'
                    /\ \A m \in pel' : \/ messages'[m].kind = "poison"
                                       \/ \E w \in Workers : m \in Held(w)'
  BY DEF Untroubled, NothingStrands
<1>1. faults' = 0 /\ stops' = 0
  <2>1. faults' \in Nat /\ stops' \in Nat
    BY NextTypeOK, BoundAssumption DEF TypeOK
  <2>2. \A i, j \in Nat : i + j = 0 => i = 0 /\ j = 0
    OBVIOUS
  <2>3. faults' + stops' = 0
    OBVIOUS
  <2>4. QED
    BY <2>1, <2>2, <2>3, Zenon
<1>2. \A m \in pel : m \in 1 .. Len(messages)
  BY MessageOfStream DEF TypeOK, Delivered
<1>3. \A w \in Workers : pc[w] = "retry" => current[w] \in 1 .. Len(messages)
  BY OrderInHand
<1>4. \A m \in 1 .. Len(messages) : messages'[m] = messages[m]
  BY MessagesStay
<1>5. CASE Enqueue \/ Expire \/ UNCHANGED vars
  <2>1. UNCHANGED <<pel, pc, inbox, current, faults, stops>>
    BY <1>5 DEF Enqueue, Expire, vars, stream, memory, Calm
  <2>2. faults + stops = 0
    BY <1>1, <2>1
  <2>3. \A w \in Workers : Rejected(w)'
    BY <1>3, <1>4, <2>1, <2>2 DEF Untroubled, Rejected
  <2>4. \A m \in pel' : \/ messages'[m].kind = "poison"
                        \/ \E w \in Workers : m \in Held(w)'
    BY <1>2, <1>4, <2>1, <2>2 DEF NothingStrands, Held
  <2>5. QED
    BY <2>3, <2>4
<1>6. ASSUME NEW w \in Workers, Act(w)
      PROVE  /\ \A v \in Workers : Rejected(v)'
             /\ \A m \in pel' : \/ messages'[m].kind = "poison"
                                \/ \E v \in Workers : m \in Held(v)'
  <2>1. faults = 0 /\ stops = 0 /\ ~Fault /\ ~Crash(w)
    BY <1>1, <1>6, NothingFailed
  <2>2. faults + stops = 0
    BY <2>1
  <2>3. /\ \A v \in Workers : Rejected(v)
        /\ \A m \in pel : messages[m].kind = "poison" \/ \E v \in Workers : m \in Held(v)
    BY <2>2 DEF Untroubled, NothingStrands
  <2>4. messages' = messages
    BY <1>6, ActDelivers
  <2>5. \A v \in Workers \ {w} : Held(v)' = Held(v) /\ Rejected(v)'
    BY <1>6, <2>3, <2>4, OthersKeepMemory DEF Held, Rejected
  <2>6. /\ pel' \subseteq pel \cup Held(w)'
        /\ \A m \in pel' \cap Held(w) : messages[m].kind = "poison" \/ m \in Held(w)'
        /\ Rejected(w)'
    BY <1>6, <2>1, <2>3, LiveMemory
  <2>7. QED
    BY <2>3, <2>4, <2>5, <2>6
<1>7. QED
  BY <1>5, <1>6 DEF Next, Act

(* Calls that fail, stops, and snapshots the repository rejects are all    *)
(* that leaves a message behind: otherwise every pending one is in the     *)
(* memory of a worker that is at it.                                       *)
THEOREM NothingIsStranded == Spec => []NothingStrands
<1>1. Init => Untroubled /\ NothingStrands
  BY DEF Init, Untroubled, Rejected, NothingStrands
<1>2. QED
  BY <1>1, NextNothingStrands, InHandCorrect, PTL DEF Spec

-----------------------------------------------------------------------------
(* Handling ends.                                                          *)

(* How much of processOrderMessage is still to come, at most.              *)
Left(place) ==
    CASE place \in {"off", "run"}     -> 0
      [] place \in {"ack", "buryack"} -> 1
      [] place = "bury"               -> 2
      [] place = "retry"              -> 3
      [] place = "track"              -> 4
      [] place = "collect"            -> 5
      [] place = "dedupe"             -> 6
      [] place = "prepare"            -> 7
      [] place = "upsert"             -> 8

Remaining(w) == 9 * Cardinality(inbox[w]) + Left(pc[w])

(* A worker moves only to start, to stop, to read when it has nothing      *)
(* left, or nearer to the end of what it has read; nobody else moves it.   *)
HandlingEnds ==
    [][\A w \in Workers :
          \/ UNCHANGED <<pc[w], inbox[w], current[w]>>
          \/ Start(w) \/ Crash(w)
          \/ Remaining(w) = 0 /\ Read(w)
          \/ Remaining(w)' < Remaining(w)]_vars

(* A worker's inbox can be counted.                                        *)
LEMMA InboxFinite ==
    ASSUME TypeOK, NEW w \in Workers
    PROVE  IsFiniteSet(inbox[w])
<1>1. inbox[w] \subseteq Ids
  BY DEF TypeOK
<1>2. IsFiniteSet(Ids)
  BY FS_Interval, BoundAssumption DEF Ids
<1>3. QED
  BY <1>1, <1>2, FS_Subset

(* A message leaves the inbox when it is taken.                            *)
LEMMA TakeShrinks ==
    ASSUME TypeOK, NEW w \in Workers, Take(w)
    PROVE  /\ Cardinality(inbox[w]) \in Nat /\ Cardinality(inbox'[w]) \in Nat
           /\ Cardinality(inbox'[w]) + 1 = Cardinality(inbox[w])
           /\ pc'[w] \in {"bury", "upsert"} /\ pc[w] = "run"
<1>1. PICK m \in inbox[w] :
         /\ inbox' = [inbox EXCEPT ![w] = @ \ {m}]
         /\ pc' = [pc EXCEPT ![w] = IF messages[m].kind = "bad" THEN "bury" ELSE "upsert"]
  BY DEF Take, Goto
<1>2. inbox'[w] = inbox[w] \ {m} /\ pc'[w] \in {"bury", "upsert"} /\ pc[w] = "run"
  BY <1>1 DEF Take, TypeOK
<1>3. IsFiniteSet(inbox[w])
  BY InboxFinite
<1>4. /\ Cardinality(inbox[w]) \in Nat /\ Cardinality(inbox[w] \ {m}) \in Nat
      /\ Cardinality(inbox[w] \ {m}) = Cardinality(inbox[w]) - 1
  BY <1>3, FS_CardinalityType, FS_RemoveElement
<1>5. QED
  BY <1>2, <1>4

(* Every other step of the handler goes to a later place.                  *)
LEMMA PlacesAdvance ==
    ASSUME TypeOK, NEW w \in Workers, Step(w), ~Read(w), ~Take(w)
    PROVE  inbox'[w] = inbox[w] /\ Left(pc'[w]) < Left(pc[w])
<1> USE DEF Goto, Done
<1>1. inbox' = inbox
  BY DEF Step, Upsert, UpsertFails, Reject, Prepare, PrepareFails, Dedupe, DedupeFails,
     Collect, CollectFails, Track, TrackFails, Ack, AckFails, Retry, RetryFails, Bury,
     BuryFails, BuryAck, BuryAckFails, Failed
<1>2. CASE Upsert(w) \/ UpsertFails(w) \/ Reject(w)
  <2>1. pc[w] = "upsert" /\ pc'[w] \in {"prepare", "retry"}
    BY <1>2 DEF Upsert, UpsertFails, Reject, Failed, TypeOK
  <2>2. QED
    BY <1>1, <2>1 DEF Left
<1>3. CASE Prepare(w) \/ PrepareFails(w)
  <2>1. pc[w] = "prepare" /\ pc'[w] \in {"dedupe", "ack", "retry"}
    BY <1>3 DEF Prepare, PrepareFails, Failed, TypeOK
  <2>2. QED
    BY <1>1, <2>1 DEF Left
<1>4. CASE Dedupe(w) \/ DedupeFails(w)
  <2>1. pc[w] = "dedupe" /\ pc'[w] \in {"track", "collect", "retry"}
    BY <1>4 DEF Dedupe, DedupeFails, Failed, TypeOK
  <2>2. QED
    BY <1>1, <2>1 DEF Left
<1>5. CASE Collect(w) \/ CollectFails(w)
  <2>1. pc[w] = "collect" /\ pc'[w] \in {"track", "retry"}
    BY <1>5 DEF Collect, CollectFails, Failed, TypeOK
  <2>2. QED
    BY <1>1, <2>1 DEF Left
<1>6. CASE Track(w) \/ TrackFails(w)
  <2>1. pc[w] = "track" /\ pc'[w] \in {"ack", "retry"}
    BY <1>6 DEF Track, TrackFails, Failed, TypeOK
  <2>2. QED
    BY <1>1, <2>1 DEF Left
<1>7. CASE Ack(w) \/ AckFails(w) \/ BuryAck(w) \/ BuryAckFails(w)
  <2>1. pc[w] \in {"ack", "buryack"} /\ pc'[w] = "run"
    BY <1>7 DEF Ack, AckFails, BuryAck, BuryAckFails, TypeOK
  <2>2. QED
    BY <1>1, <2>1 DEF Left
<1>8. CASE Retry(w) \/ RetryFails(w)
  <2>1. pc[w] = "retry" /\ pc'[w] \in {"bury", "run"}
    BY <1>8 DEF Retry, RetryFails, TypeOK
  <2>2. QED
    BY <1>1, <2>1 DEF Left
<1>9. CASE Bury(w) \/ BuryFails(w)
  <2>1. pc[w] = "bury" /\ pc'[w] \in {"buryack", "run"}
    BY <1>9 DEF Bury, BuryFails, TypeOK
  <2>2. QED
    BY <1>1, <2>1 DEF Left
<1>10. QED
  BY <1>2, <1>3, <1>4, <1>5, <1>6, <1>7, <1>8, <1>9 DEF Step

(* What is left of the handler is a number below what a message takes.     *)
LEMMA LeftType ==
    ASSUME NEW place \in Places
    PROVE  Left(place) \in 0 .. 8
BY DEF Left, Places

(* What a worker has read it comes to the end of, in a number of steps     *)
(* known when it reads, whichever calls fail and whatever others do: the   *)
(* variant behind QueuedSettles.                                           *)
THEOREM HandlingDoesEnd == Spec => HandlingEnds
<1>1. TypeOK /\ InHand /\ [Next]_vars =>
        [\A w \in Workers :
            \/ UNCHANGED <<pc[w], inbox[w], current[w]>>
            \/ Start(w) \/ Crash(w)
            \/ Remaining(w) = 0 /\ Read(w)
            \/ Remaining(w)' < Remaining(w)]_vars
  <2> SUFFICES ASSUME TypeOK, InHand, [Next]_vars, NEW w \in Workers
               PROVE  \/ UNCHANGED <<pc[w], inbox[w], current[w]>>
                      \/ Start(w) \/ Crash(w)
                      \/ Remaining(w) = 0 /\ Read(w)
                      \/ Remaining(w)' < Remaining(w)
    OBVIOUS
  <2>1. CASE Enqueue \/ Expire \/ UNCHANGED vars
    BY <2>1 DEF Enqueue, Expire, vars, memory
  <2>2. ASSUME NEW v \in Workers, v # w, Act(v)
        PROVE  UNCHANGED <<pc[w], inbox[w], current[w]>>
    BY <2>2, OthersKeepMemory
  <2>3. CASE Read(w)
    <3>1. inbox[w] = {} /\ pc[w] = "run"
      BY <2>3 DEF Read
    <3>2. QED
      BY <2>3, <3>1, FS_EmptySet DEF Remaining, Left
  <2>4. CASE Take(w)
    <3>1. Left(pc[w]) = 0 /\ Left(pc'[w]) \in 0 .. 8
      BY <2>4, TakeShrinks DEF Left
    <3>2. QED
      BY <2>4, <3>1, TakeShrinks DEF Remaining
  <2>5. CASE Step(w) /\ ~Read(w) /\ ~Take(w)
    <3>1. inbox'[w] = inbox[w] /\ Left(pc'[w]) < Left(pc[w])
      BY <2>5, PlacesAdvance
    <3>2. Left(pc'[w]) \in Nat /\ Left(pc[w]) \in Nat
      <4>1. pc[w] \in Places /\ pc'[w] \in Places
        BY NextTypeOK DEF TypeOK
      <4>2. QED
        BY <4>1, LeftType
    <3>3. IsFiniteSet(inbox[w])
      BY InboxFinite
    <3>4. Cardinality(inbox[w]) \in Nat
      BY <3>3, FS_CardinalityType
    <3>5. Remaining(w)' = 9 * Cardinality(inbox[w]) + Left(pc'[w])
      BY <3>1 DEF Remaining
    <3>6. QED
      BY <3>1, <3>2, <3>4, <3>5 DEF Remaining
  <2>6. QED
    BY <2>1, <2>2, <2>3, <2>4, <2>5 DEF Next, Act
<1>2. QED
  BY <1>1, InHandCorrect, PTL DEF Spec, HandlingEnds

=============================================================================
