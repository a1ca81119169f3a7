------------------------- MODULE EventPipelineProofs -------------------------
(***************************************************************************)
(* Proofs about EventPipeline, for any number of workers, any batch size,  *)
(* retry limit and number of events, and any number of faults.             *)
(***************************************************************************)
EXTENDS EventPipeline, FiniteSetTheorems, TLAPS

(* readOnce always asks for at least one entry.                            *)
LEMMA RoomPositive ==
    ASSUME TypeOK, NEW w \in Workers
    PROVE  Room(w) \in Nat \ {0}
<1>1. IsFiniteSet(Entries)
  BY FS_Interval, ConfigAssumption DEF Entries
<1>2. Cardinality(batch[w]) \in Nat
  BY <1>1, FS_Subset, FS_CardinalityType DEF TypeOK
<1>3. QED
  BY <1>2, ConfigAssumption DEF Room

-----------------------------------------------------------------------------
(* Types.                                                                  *)

(* The initial state is well-typed.                                        *)
LEMMA InitTypeOK == Init => TypeOK
BY ConfigAssumption, BoundAssumption
   DEF Init, TypeOK, Entries, Places, NoEntry

(* What Insert makes of the rows of analytics_events.                      *)
LEMMA InsertType ==
    ASSUME rows \in [Entries -> Nat], NEW S, Insert(S)
    PROVE  /\ rows' \in [Entries -> Nat]
           /\ \A m \in Entries : rows'[m] = rows[m] + (IF m \in S THEN 1 ELSE 0)
BY DEF Insert

(* The steps that touch the goroutine's memory and the fault counters only *)
(* through Vanish, Return and RedisFault keep their types.                 *)
LEMMA VanishType ==
    ASSUME TypeOK, NEW w \in Workers, Vanish(w)
    PROVE  /\ pc' \in [Workers -> Places]
           /\ inbox' \in [Workers -> SUBSET Entries]
           /\ batch' \in [Workers -> SUBSET Entries]
           /\ todo' \in [Workers -> SUBSET Entries]
           /\ focus' \in [Workers -> Entries \cup {NoEntry}]
           /\ stopping' \in [Workers -> BOOLEAN]
BY DEF TypeOK, Vanish, Places

(* flush keeps the types of what it leaves behind when it returns.         *)
LEMMA ReturnType ==
    ASSUME TypeOK, NEW w \in Workers, NEW left \in SUBSET Entries,
           Return(w, left)
    PROVE  /\ pc' \in [Workers -> Places]
           /\ inbox' \in [Workers -> SUBSET Entries]
           /\ batch' \in [Workers -> SUBSET Entries]
           /\ todo' \in [Workers -> SUBSET Entries]
           /\ focus' \in [Workers -> Entries \cup {NoEntry}]
           /\ stopping' \in [Workers -> BOOLEAN]
<1>1. CASE stopping[w]
  BY <1>1, VanishType DEF Return
<1>2. CASE ~stopping[w]
  BY <1>2 DEF Return, TypeOK, Places
<1>3. QED
  BY <1>1, <1>2

(* Every step keeps the types.                                             *)
LEMMA NextTypeOK == TypeOK /\ [Next]_vars => TypeOK'
<1> SUFFICES ASSUME TypeOK, [Next]_vars PROVE TypeOK'
  OBVIOUS
<1> USE ConfigAssumption, BoundAssumption
<1>1. CASE Enqueue
  <2>1. queued' \in 0 .. MaxEvents /\ queued' \in Entries /\ cursor' \in 0 .. queued'
    BY <1>1 DEF Enqueue, TypeOK, Entries
  <2>2. malformed' \subseteq Entries
    BY <1>1, <2>1 DEF Enqueue, TypeOK
  <2>3. QED
    BY <1>1, <2>1, <2>2 DEF Enqueue, TypeOK, memory, mishap
<1>2. ASSUME NEW w \in Workers, Start(w) PROVE TypeOK'
  BY <1>2 DEF Start, RedisFault, TypeOK, redis, mishap, Places
<1>3. ASSUME NEW w \in Workers, Crash(w) PROVE TypeOK'
  BY <1>3, VanishType DEF Crash, TypeOK, redis
<1>4. ASSUME NEW w \in Workers, Shutdown(w) PROVE TypeOK'
  <2>1. CASE batch[w] = {}
    <3>1. Vanish(w) /\ UNCHANGED <<redis, rows, sinkFaults, ghostWrites, redisFaults>>
      BY <1>4, <2>1 DEF Shutdown
    <3>2. stops' \in 0 .. MaxStops
      BY <1>4 DEF Shutdown, TypeOK
    <3>3. QED
      BY <3>1, <3>2, VanishType DEF TypeOK, redis
  <2>2. CASE batch[w] # {}
    <3>1. stops' \in 0 .. MaxStops
      BY <1>4 DEF Shutdown, TypeOK
    <3>2. /\ pc' \in [Workers -> Places]
          /\ stopping' \in [Workers -> BOOLEAN]
      BY <1>4, <2>2 DEF Shutdown, TypeOK, Places
    <3>3. UNCHANGED <<redis, rows, inbox, batch, todo, focus,
                      sinkFaults, ghostWrites, redisFaults>>
      BY <1>4, <2>2 DEF Shutdown
    <3>4. QED
      BY <3>1, <3>2, <3>3 DEF TypeOK, redis
  <2>3. QED
    BY <2>1, <2>2
<1>5. ASSUME NEW w \in Workers, Tick(w) PROVE TypeOK'
  BY <1>5 DEF Tick, TypeOK, redis, mishap, Places
<1>6. ASSUME NEW w \in Workers, Read(w) PROVE TypeOK'
  <2>1. cursor' \in 0 .. queued
    BY <1>6, RoomPositive DEF Read, TypeOK
  <2>2. QED
    BY <1>6, <2>1 DEF Read, RedisFault, Fresh, TypeOK, mishap
<1>7. ASSUME NEW w \in Workers, Handle(w) PROVE TypeOK'
  BY <1>7 DEF Handle, TypeOK, redis, mishap, Places
<1>8. ASSUME NEW w \in Workers, Send(w) PROVE TypeOK'
  BY <1>8, InsertType DEF Send, TypeOK, redis, mishap, Places
<1>9. ASSUME NEW w \in Workers, SendFails(w) PROVE TypeOK'
  BY <1>9, InsertType DEF SendFails, TypeOK, redis, Places
<1>10. ASSUME NEW w \in Workers, Ack(w) PROVE TypeOK'
  BY <1>10, ReturnType DEF Ack, TypeOK, mishap
<1>11. ASSUME NEW w \in Workers, AckFails(w) PROVE TypeOK'
  <2>1. batch[w] \in SUBSET Entries
    BY DEF TypeOK
  <2>2. QED
    BY <1>11, <2>1, ReturnType DEF AckFails, RedisFault, TypeOK
<1>12. ASSUME NEW w \in Workers, Increment(w) PROVE TypeOK'
  BY <1>12 DEF Increment, TypeOK, mishap, Places
<1>13. ASSUME NEW w \in Workers, IncrementFails(w) PROVE TypeOK'
  BY <1>13 DEF IncrementFails, RedisFault, TypeOK
<1>14. ASSUME NEW w \in Workers, FlushFailed(w) PROVE TypeOK'
  <2>1. batch[w] \in SUBSET Entries
    BY DEF TypeOK
  <2>2. QED
    BY <1>14, <2>1, ReturnType DEF FlushFailed, TypeOK, redis, mishap
<1>15. ASSUME NEW w \in Workers, Bury(w) PROVE TypeOK'
  <2>1. dead' \in [Entries -> Nat]
    <3>1. dead' = [m \in Entries |-> IF m = focus[w] THEN dead[m] + 1 ELSE dead[m]]
      BY <1>15 DEF Bury, TypeOK
    <3>2. QED
      BY <3>1 DEF TypeOK
  <2>2. pc' \in [Workers -> Places]
    BY <1>15 DEF Bury, TypeOK, Places
  <2>3. QED
    <3>1. UNCHANGED <<queued, malformed, cursor, pel, attempts, rows,
                      inbox, batch, todo, focus, stopping, mishap>>
      BY <1>15 DEF Bury
    <3>2. QED
      BY <2>1, <2>2, <3>1 DEF TypeOK, mishap
<1>16. ASSUME NEW w \in Workers, BuryFails(w) PROVE TypeOK'
  BY <1>16 DEF BuryFails, AfterBury, RedisFault, TypeOK, Places
<1>17. ASSUME NEW w \in Workers, BuryAck(w) PROVE TypeOK'
  BY <1>17 DEF BuryAck, AfterBury, RedisFault, TypeOK, mishap, Places
<1>18. ASSUME NEW w \in Workers, BuryAckFails(w) PROVE TypeOK'
  BY <1>18 DEF BuryAckFails, AfterBury, RedisFault, TypeOK, Places
<1>19. CASE UNCHANGED vars
  BY <1>19 DEF vars, redis, memory, mishap, TypeOK
<1>20. QED
  BY <1>1, <1>2, <1>3, <1>4, <1>5, <1>6, <1>7, <1>8, <1>9, <1>10, <1>11,
     <1>12, <1>13, <1>14, <1>15, <1>16, <1>17, <1>18, <1>19
     DEF Next, Step

(* The state of the stream, the batches and the retry keys is well typed   *)
(* in every reachable state.                                               *)
THEOREM TypeCorrect == Spec => []TypeOK
BY InitTypeOK, NextTypeOK, PTL DEF Spec

-----------------------------------------------------------------------------
(* Who holds what.                                                         *)

(* What the process of worker w can do.                                    *)
Act(w) == Start(w) \/ Crash(w) \/ Shutdown(w) \/ Step(w)

(* No process touches another one's memory.                                *)
LEMMA OthersKeepMemory ==
    ASSUME TypeOK, NEW w \in Workers, NEW v \in Workers, v # w, Act(w)
    PROVE  /\ pc'[v] = pc[v]
           /\ inbox'[v] = inbox[v]
           /\ batch'[v] = batch[v]
           /\ todo'[v] = todo[v]
           /\ focus'[v] = focus[v]
<1> USE DEF TypeOK
<1>1. ASSUME Vanish(w)
      PROVE  /\ pc'[v] = pc[v] /\ inbox'[v] = inbox[v] /\ batch'[v] = batch[v]
             /\ todo'[v] = todo[v] /\ focus'[v] = focus[v]
  BY <1>1 DEF Vanish
<1>2. ASSUME NEW left, Return(w, left)
      PROVE  /\ pc'[v] = pc[v] /\ inbox'[v] = inbox[v] /\ batch'[v] = batch[v]
             /\ todo'[v] = todo[v] /\ focus'[v] = focus[v]
  BY <1>1, <1>2 DEF Return
<1>3. CASE Start(w)
  BY <1>3 DEF Start
<1>4. CASE Crash(w) \/ Shutdown(w)
  BY <1>4, <1>1 DEF Crash, Shutdown
<1>5. CASE Tick(w) \/ Read(w) \/ Handle(w)
  BY <1>5 DEF Tick, Read, Handle
<1>6. CASE Send(w) \/ SendFails(w)
  BY <1>6 DEF Send, SendFails
<1>7. CASE Ack(w) \/ AckFails(w) \/ FlushFailed(w)
  BY <1>7, <1>2 DEF Ack, AckFails, FlushFailed
<1>8. CASE Increment(w) \/ IncrementFails(w)
  BY <1>8 DEF Increment, IncrementFails
<1>9. CASE Bury(w) \/ BuryFails(w) \/ BuryAck(w) \/ BuryAckFails(w)
  BY <1>9 DEF Bury, BuryFails, BuryAck, BuryAckFails, AfterBury
<1>10. QED
  BY <1>3, <1>4, <1>5, <1>6, <1>7, <1>8, <1>9 DEF Act, Step

(* A process comes to hold entries only by reading them.                   *)
LEMMA HeldShrinks ==
    ASSUME TypeOK, MemoryShape, NEW w \in Workers, Act(w), ~Read(w)
    PROVE  Held(w)' \subseteq Held(w)
<1> USE DEF TypeOK, Held
<1>1. ASSUME Vanish(w) PROVE Held(w)' = {}
  BY <1>1 DEF Vanish
<1>2. ASSUME NEW left, left \subseteq batch[w], Return(w, left)
      PROVE  Held(w)' \subseteq Held(w)
  BY <1>1, <1>2 DEF Return
<1>3. CASE Start(w)
  BY <1>3 DEF Start
<1>4. CASE Crash(w)
  BY <1>4, <1>1 DEF Crash
<1>5. CASE Shutdown(w)
  BY <1>5, <1>1 DEF Shutdown
<1>6. CASE Tick(w)
  BY <1>6 DEF Tick
<1>7. CASE Handle(w)
  BY <1>7 DEF Handle
<1>8. CASE Send(w) \/ SendFails(w)
  BY <1>8 DEF Send, SendFails
<1>9. CASE Ack(w) \/ AckFails(w) \/ FlushFailed(w)
  BY <1>9, <1>2 DEF Ack, AckFails, FlushFailed
<1>10. CASE Increment(w) \/ IncrementFails(w)
  BY <1>10 DEF Increment, IncrementFails, MemoryShape
<1>11. CASE Bury(w) \/ BuryFails(w) \/ BuryAck(w) \/ BuryAckFails(w)
  BY <1>11 DEF Bury, BuryFails, BuryAck, BuryAckFails, AfterBury
<1>12. QED
  BY <1>3, <1>4, <1>5, <1>6, <1>7, <1>8, <1>9, <1>10, <1>11 DEF Act, Step

(* XREADGROUP hands out entries that nobody was given before.              *)
LEMMA ReadIsFresh ==
    ASSUME TypeOK, NEW w \in Workers, Read(w)
    PROVE  /\ Fresh(w) \cap Delivered = {}
           /\ Delivered' = Delivered \cup Fresh(w)
           /\ Held(w)' \subseteq Held(w) \cup Fresh(w)
<1>1. cursor' \in Nat /\ cursor \in Nat /\ queued \in Nat /\ Room(w) \in Nat \ {0}
  BY RoomPositive DEF Read, TypeOK
<1>2. Fresh(w) \cap Delivered = {}
  BY <1>1 DEF Fresh, Delivered, Entries
<1>3. Delivered' = Delivered \cup Fresh(w)
  <2>1. /\ queued <= MaxEvents /\ cursor <= queued /\ MaxEvents \in Nat
        /\ cursor' = IF cursor + Room(w) <= queued THEN cursor + Room(w) ELSE queued
    BY ConfigAssumption DEF Read, TypeOK
  <2>2. ASSUME NEW r \in Nat \ {0}, r = Room(w)
        PROVE  1 .. cursor' = 1 .. cursor \cup
                 {m \in 1 .. MaxEvents : cursor < m /\ m <= cursor + r /\ m <= queued}
    BY <1>1, <2>1, <2>2
  <2>3. QED
    BY <1>1, <2>2 DEF Fresh, Delivered, Entries
<1>4. Held(w)' \subseteq Held(w) \cup Fresh(w)
  BY DEF Read, Held, AtSelect, TypeOK
<1>5. QED
  BY <1>2, <1>3, <1>4

(* An entry is in the memory of one process only.                          *)
LEMMA StepHeldByOne ==
    ASSUME TypeOK, MemoryShape, HeldByOne, NEW w \in Workers, Act(w)
    PROVE  HeldByOne'
<1>1. ASSUME NEW v \in Workers, v # w
      PROVE  Held(v)' = Held(v)
  BY <1>1, OthersKeepMemory DEF Held
<1>2. ASSUME NEW v \in Workers, v # w
      PROVE  Held(w)' \cap Held(v) = {}
  <2>1. CASE Read(w)
    BY <1>2, <2>1, ReadIsFresh DEF HeldByOne, MemoryShape
  <2>2. CASE ~Read(w)
    BY <1>2, <2>2, HeldShrinks DEF HeldByOne
  <2>3. QED
    BY <2>1, <2>2
<1>3. QED
  BY <1>1, <1>2 DEF HeldByOne

(* The workers append nothing to the stream, and only Read delivers.       *)
LEMMA StreamGrows ==
    ASSUME TypeOK, NEW w \in Workers, Act(w)
    PROVE  /\ malformed' = malformed
           /\ queued' = queued
           /\ Delivered \subseteq Delivered'
           /\ ~Read(w) => cursor' = cursor
<1>1. CASE Read(w)
  BY <1>1, ReadIsFresh DEF Read
<1>2. CASE ~Read(w)
  <2>1. /\ malformed' = malformed /\ queued' = queued /\ cursor' = cursor
    BY <1>2 DEF Act, Step, redis, Start, Crash, Shutdown, Tick, Handle, Send,
                SendFails, Ack, AckFails, Increment, IncrementFails,
                FlushFailed, Bury, BuryFails, BuryAck, BuryAckFails
  <2>2. QED
    BY <1>2, <2>1 DEF Delivered
<1>3. QED
  BY <1>1, <1>2

(* Every step of a goroutine keeps the shape of its memory.                *)
LEMMA StepMemoryShape ==
    ASSUME TypeOK, MemoryShape, NEW w \in Workers, Act(w)
    PROVE  MemoryShape'
<1> DEFINE Shape(v) ==
        /\ Held(v) \subseteq Delivered
        /\ inbox[v] \cap batch[v] = {}
        /\ batch[v] \cap malformed = {}
        /\ todo[v] \subseteq batch[v]
        /\ todo[v] # {} => pc[v] \in {"retry", "bury", "buryack"}
        /\ pc[v] \in {"bury", "buryack"} =>
              /\ focus[v] \in batch[v] \/ (focus[v] \in malformed /\ todo[v] = {})
              /\ focus[v] \notin inbox[v] \cup todo[v]
<1>1. ASSUME NEW v \in Workers, v # w
      PROVE  Shape(v)'
  <2>1. Held(v)' = Held(v)
    BY <1>1, OthersKeepMemory DEF Held
  <2>2. QED
    BY <1>1, <2>1, OthersKeepMemory, StreamGrows DEF MemoryShape
<1>2. Held(w)' \subseteq Delivered'
  <2>1. CASE Read(w)
    BY <2>1, ReadIsFresh DEF MemoryShape
  <2>2. CASE ~Read(w)
    BY <2>2, HeldShrinks, StreamGrows DEF MemoryShape
  <2>3. QED
    BY <2>1, <2>2
<1> DEFINE Parts(v) ==
        /\ inbox[v] \cap batch[v] = {}
        /\ batch[v] \cap malformed = {}
        /\ todo[v] \subseteq batch[v]
        /\ todo[v] # {} => pc[v] \in {"retry", "bury", "buryack"}
        /\ pc[v] \in {"bury", "buryack"} =>
              /\ focus[v] \in batch[v] \/ (focus[v] \in malformed /\ todo[v] = {})
              /\ focus[v] \notin inbox[v] \cup todo[v]
<1>3. Parts(w)
  BY DEF MemoryShape
<1>4. malformed' = malformed
  BY StreamGrows
<1>5. ASSUME Vanish(w) PROVE Parts(w)'
  BY <1>5 DEF Vanish, TypeOK
<1>6. ASSUME NEW left, left \subseteq batch[w], todo[w] = {}, Return(w, left)
      PROVE  Parts(w)'
  BY <1>3, <1>4, <1>5, <1>6 DEF Return, TypeOK
<1>7. ASSUME Start(w) PROVE Parts(w)'
  BY <1>3, <1>4, <1>7 DEF Start, TypeOK
<1>8. ASSUME Crash(w) PROVE Parts(w)'
  BY <1>5, <1>8 DEF Crash
<1>9. ASSUME Shutdown(w) PROVE Parts(w)'
  BY <1>3, <1>4, <1>5, <1>9 DEF Shutdown, AtSelect, TypeOK
<1>10. ASSUME Tick(w) PROVE Parts(w)'
  BY <1>3, <1>4, <1>10 DEF Tick, AtSelect, TypeOK
<1>11. ASSUME Read(w) PROVE Parts(w)'
  <2>1. batch[w] \subseteq Delivered /\ inbox[w] = {} /\ pc[w] = "run"
    BY <1>11 DEF MemoryShape, Held, Read, AtSelect
  <2>2. inbox'[w] \cap batch[w] = {}
    BY <1>11, <2>1, ReadIsFresh DEF Read, TypeOK
  <2>3. QED
    BY <1>3, <1>4, <1>11, <2>1, <2>2 DEF Read
<1>12. ASSUME Handle(w) PROVE Parts(w)'
  <2>1. PICK m \in inbox[w] : Handle(w)!2!(m)
    BY <1>12 DEF Handle
  <2>2. CASE m \in malformed
    BY <1>3, <1>4, <1>12, <2>1, <2>2 DEF Handle, TypeOK
  <2>3. CASE m \notin malformed
    BY <1>3, <1>4, <1>12, <2>1, <2>3 DEF Handle, TypeOK
  <2>4. QED
    BY <2>2, <2>3
<1>13. ASSUME Send(w) PROVE Parts(w)'
  BY <1>3, <1>4, <1>13 DEF Send, TypeOK
<1>14. ASSUME SendFails(w) PROVE Parts(w)'
  BY <1>3, <1>4, <1>14 DEF SendFails, TypeOK
<1>15. ASSUME Ack(w) \/ AckFails(w) \/ FlushFailed(w) PROVE Parts(w)'
  BY <1>3, <1>6, <1>15 DEF Ack, AckFails, FlushFailed
<1>16. ASSUME Increment(w) PROVE Parts(w)'
  <2>1. PICK m \in todo[w] : Increment(w)!2!(m)
    BY <1>16 DEF Increment
  <2>2. CASE attempts[m] + 1 >= MaxRetries
    <3>1. /\ pc'[w] = "bury" /\ focus'[w] = m /\ todo'[w] = todo[w] \ {m}
          /\ inbox'[w] = inbox[w] /\ batch'[w] = batch[w]
      BY <1>16, <2>1, <2>2 DEF Increment, TypeOK
    <3>2. QED
      BY <1>3, <1>4, <2>1, <3>1
  <2>3. CASE ~(attempts[m] + 1 >= MaxRetries)
    BY <1>3, <1>4, <1>16, <2>1, <2>3 DEF Increment, TypeOK
  <2>4. QED
    BY <2>2, <2>3
<1>17. ASSUME IncrementFails(w) PROVE Parts(w)'
  BY <1>3, <1>4, <1>17 DEF IncrementFails, TypeOK
<1>18. ASSUME Bury(w) PROVE Parts(w)'
  BY <1>3, <1>4, <1>18 DEF Bury, TypeOK
<1>19. ASSUME BuryFails(w) \/ BuryAckFails(w) PROVE Parts(w)'
  BY <1>3, <1>4, <1>19 DEF BuryFails, BuryAckFails, AfterBury, TypeOK
<1>20. ASSUME BuryAck(w) PROVE Parts(w)'
  BY <1>3, <1>4, <1>20 DEF BuryAck, AfterBury, TypeOK
<1>21. Parts(w)'
  BY <1>7, <1>8, <1>9, <1>10, <1>11, <1>12, <1>13, <1>14, <1>15, <1>16,
     <1>17, <1>18, <1>19, <1>20 DEF Act, Step
<1>22. QED
  BY <1>1, <1>2, <1>21 DEF MemoryShape

-----------------------------------------------------------------------------
(* Outcomes.                                                               *)

Outcomes(m) == rows[m] + dead[m]

Doubt == redisFaults + ghostWrites

(* The steps that write neither to ClickHouse nor to events:dead.          *)
LEMMA QuietSteps ==
    ASSUME TypeOK, NEW w \in Workers, Act(w),
           ~(Send(w) \/ SendFails(w) \/ Bury(w) \/ BuryFails(w))
    PROVE  rows' = rows /\ dead' = dead
BY DEF Act, Step, redis, Start, Crash, Shutdown, Tick, Read, Handle, Ack,
       AckFails, Increment, IncrementFails, FlushFailed, BuryAck, BuryAckFails

(* The excuses for further outcomes never decrease, and a command whose    *)
(* effect is unknown adds one.                                             *)
LEMMA DoubtGrows ==
    ASSUME TypeOK, NEW w \in Workers, Act(w)
    PROVE  /\ Doubt \in Nat /\ Doubt' \in Nat
           /\ Doubt' >= Doubt
           /\ AckFails(w) \/ BuryFails(w) \/ BuryAckFails(w) => Doubt' = Doubt + 1
<1> USE DEF TypeOK, Doubt, mishap
<1> DEFINE Grows == Doubt' \in Nat /\ Doubt' >= Doubt
<1>1. AckFails(w) \/ BuryFails(w) \/ BuryAckFails(w) => Doubt' = Doubt + 1
  BY DEF AckFails, BuryFails, BuryAckFails, RedisFault
<1>2. ASSUME Start(w) \/ Crash(w) \/ Shutdown(w) PROVE Grows
  BY <1>2 DEF Start, Crash, Shutdown, RedisFault
<1>3. ASSUME Tick(w) \/ Read(w) \/ Handle(w) \/ Send(w) \/ Ack(w) PROVE Grows
  BY <1>3 DEF Tick, Read, Handle, Send, Ack, RedisFault
<1>4. ASSUME SendFails(w) PROVE Grows
  BY <1>4 DEF SendFails
<1>5. ASSUME AckFails(w) \/ IncrementFails(w) \/ BuryFails(w) \/ BuryAckFails(w)
      PROVE  Grows
  BY <1>5 DEF AckFails, IncrementFails, BuryFails, BuryAckFails, RedisFault
<1>6. ASSUME Increment(w) \/ FlushFailed(w) \/ Bury(w) \/ BuryAck(w) PROVE Grows
  BY <1>6 DEF Increment, FlushFailed, Bury, BuryAck, RedisFault
<1>7. QED
  BY <1>1, <1>2, <1>3, <1>4, <1>5, <1>6 DEF Act, Step

(* A step leaves the outcomes of an entry alone, or adds one outcome to an *)
(* entry that waits for none to be acknowledged: then the entry waits for  *)
(* it, or a fault is counted.                                              *)
LEMMA OneOutcomeAtATime ==
    ASSUME TypeOK, MemoryShape, NEW w \in Workers, Act(w), NEW m \in Entries
    PROVE  /\ rows[m] \in Nat /\ dead[m] \in Nat
           /\ rows'[m] \in Nat /\ dead'[m] \in Nat
           /\ rows'[m] >= rows[m] /\ dead'[m] >= dead[m]
           /\ \/ rows'[m] = rows[m] /\ dead'[m] = dead[m]
              \/ /\ m \in Held(w) /\ ~JustWritten(w, m)
                 /\ Outcomes(m)' = Outcomes(m) + 1
                 /\ JustWritten(w, m)' \/ Doubt' = Doubt + 1
<1>1. rows[m] \in Nat /\ dead[m] \in Nat
  BY DEF TypeOK
<1> USE DEF Outcomes
<1>2. CASE Send(w)
  <2>1. rows'[m] = rows[m] + (IF m \in batch[w] THEN 1 ELSE 0) /\ dead' = dead
    BY <1>2, InsertType DEF Send, TypeOK, redis
  <2>2. m \in batch[w] => JustWritten(w, m)' /\ ~JustWritten(w, m) /\ m \in Held(w)
    BY <1>2 DEF Send, JustWritten, Held, TypeOK
  <2>3. QED
    BY <1>1, <2>1, <2>2
<1>3. CASE SendFails(w)
  <2>1. PICK kept \in SUBSET batch[w] :
          /\ ghostWrites' = IF kept = {} THEN ghostWrites ELSE ghostWrites + 1
          /\ Insert(kept)
    BY <1>3 DEF SendFails
  <2>2. rows'[m] = rows[m] + (IF m \in kept THEN 1 ELSE 0) /\ dead' = dead
    BY <1>3, <2>1, InsertType DEF SendFails, TypeOK, redis
  <2>3. m \in kept => Doubt' = Doubt + 1
    BY <1>3, <2>1 DEF SendFails, Doubt, TypeOK
  <2>4. m \in kept => ~JustWritten(w, m) /\ m \in Held(w)
    BY <1>3 DEF SendFails, JustWritten, Held
  <2>5. QED
    BY <1>1, <2>2, <2>3, <2>4
<1>4. CASE Bury(w)
  <2>1. rows' = rows /\ dead'[m] = IF m = focus[w] THEN dead[m] + 1 ELSE dead[m]
    BY <1>4 DEF Bury, TypeOK
  <2>2. m = focus[w] => JustWritten(w, m)' /\ ~JustWritten(w, m) /\ m \in Held(w)
    BY <1>4 DEF Bury, JustWritten, Held, TypeOK
  <2>3. QED
    BY <1>1, <2>1, <2>2
<1>5. CASE BuryFails(w)
  <2>1. /\ rows' = rows
        /\ \/ dead' = dead
           \/ dead'[m] = IF m = focus[w] THEN dead[m] + 1 ELSE dead[m]
    BY <1>5 DEF BuryFails, TypeOK
  <2>2. m = focus[w] => ~JustWritten(w, m) /\ m \in Held(w)
    BY <1>5 DEF BuryFails, JustWritten, Held
  <2>3. Doubt' = Doubt + 1
    BY <1>5, DoubtGrows
  <2>4. QED
    BY <1>1, <2>1, <2>2, <2>3
<1>6. CASE ~(Send(w) \/ SendFails(w) \/ Bury(w) \/ BuryFails(w))
  BY <1>1, <1>6, QuietSteps
<1>7. QED
  BY <1>2, <1>3, <1>4, <1>5, <1>6

(* An entry that waits for an acknowledgement goes on waiting, leaves the  *)
(* memory, or stays there because a fault was counted.                     *)
LEMMA WaitingEnds ==
    ASSUME TypeOK, MemoryShape, NEW w \in Workers, Act(w),
           NEW m \in Held(w), JustWritten(w, m), m \in Held(w)'
    PROVE  JustWritten(w, m)' \/ Doubt' = Doubt + 1
<1>1. pc[w] \in {"ack", "buryack"}
  BY DEF JustWritten
<1>2. CASE Crash(w)
  BY <1>2 DEF Crash, Vanish, Held, TypeOK
<1>3. CASE Ack(w)
  <2>1. pc[w] = "ack" /\ m \in batch[w] /\ m \notin inbox[w]
    BY <1>3 DEF Ack, JustWritten, MemoryShape
  <2>2. m \notin Held(w)'
    BY <1>3, <2>1 DEF Ack, Return, Vanish, Held, TypeOK
  <2>3. QED
    BY <2>2
<1>4. CASE BuryAck(w)
  <2>1. pc[w] = "buryack" /\ m = focus[w] /\ m \notin inbox[w]
    BY <1>4 DEF BuryAck, JustWritten, MemoryShape
  <2>2. m \notin Held(w)'
    BY <1>4, <2>1 DEF BuryAck, AfterBury, Held, TypeOK
  <2>3. QED
    BY <2>2
<1>5. CASE AckFails(w) \/ BuryAckFails(w)
  BY <1>5, DoubtGrows
<1>6. QED
  BY <1>1, <1>2, <1>3, <1>4, <1>5
     DEF Act, Step, Start, Shutdown, Tick, Read, Handle, AtSelect, Send,
         SendFails, Increment, IncrementFails, FlushFailed, Bury, BuryFails

(* Acknowledged are only entries that wait for it.                         *)
LEMMA AckedWereWritten ==
    ASSUME TypeOK, MemoryShape, UndeliveredUntouched,
           NEW w \in Workers, Act(w)
    PROVE  /\ pel' \subseteq Delivered'
           /\ \A m \in Acked' : m \in Acked \/ JustWritten(w, m)
<1>1. CASE Read(w)
  <2>1. pel' = pel \cup Fresh(w) /\ Delivered' = Delivered \cup Fresh(w)
    BY <1>1, ReadIsFresh DEF Read
  <2>2. QED
    BY <2>1 DEF Acked, UndeliveredUntouched
<1>2. CASE ~Read(w)
  <2>1. Delivered' = Delivered
    BY <1>2, StreamGrows DEF Delivered
  <2>2. /\ pel' \subseteq pel
        /\ \A m \in pel \ pel' : JustWritten(w, m)
    BY <1>2 DEF Act, Step, redis, Start, Crash, Shutdown, Tick, Handle, Send,
                SendFails, Ack, AckFails, Increment, IncrementFails,
                FlushFailed, Bury, BuryFails, BuryAck, BuryAckFails, JustWritten
  <2>3. QED
    BY <2>1, <2>2 DEF Acked, UndeliveredUntouched
<1>3. QED
  BY <1>1, <1>2

(* An entry starts to wait for an acknowledgement when it is written.      *)
LEMMA WaitingBegins ==
    ASSUME TypeOK, NEW w \in Workers, Act(w), NEW m \in Entries,
           JustWritten(w, m)', ~JustWritten(w, m)
    PROVE  HasOutcome(m)'
<1>1. pc'[w] \in {"ack", "buryack"}
  BY DEF JustWritten
<1>2. ASSUME Vanish(w) PROVE FALSE
  BY <1>1, <1>2 DEF Vanish, TypeOK
<1>3. ASSUME NEW left, Return(w, left) PROVE FALSE
  BY <1>1, <1>2, <1>3 DEF Return, TypeOK
<1>4. CASE Send(w)
  <2>1. m \in batch[w] /\ rows[m] \in Nat
    BY <1>4 DEF Send, JustWritten, TypeOK
  <2>2. rows'[m] = rows[m] + 1
    BY <1>4, <2>1, InsertType DEF Send, TypeOK
  <2>3. QED
    BY <2>1, <2>2 DEF HasOutcome
<1>5. CASE Bury(w)
  <2>1. m = focus[w] /\ dead[m] \in Nat
    BY <1>5 DEF Bury, JustWritten, TypeOK
  <2>2. dead'[m] = dead[m] + 1
    BY <1>5, <2>1 DEF Bury, TypeOK
  <2>3. QED
    BY <2>1, <2>2 DEF HasOutcome
<1>6. CASE Start(w) \/ Crash(w) \/ Shutdown(w)
  BY <1>1, <1>2, <1>6 DEF Start, Crash, Shutdown, TypeOK
<1>7. CASE Tick(w) \/ Read(w) \/ Handle(w)
  BY <1>1, <1>7 DEF Tick, Read, Handle, AtSelect, TypeOK
<1>8. CASE Ack(w) \/ AckFails(w) \/ FlushFailed(w)
  BY <1>3, <1>8 DEF Ack, AckFails, FlushFailed
<1>9. CASE SendFails(w) \/ Increment(w) \/ IncrementFails(w)
  BY <1>1, <1>9 DEF SendFails, Increment, IncrementFails, TypeOK
<1>10. CASE BuryFails(w) \/ BuryAck(w) \/ BuryAckFails(w)
  BY <1>1, <1>10 DEF BuryFails, BuryAck, BuryAckFails, AfterBury, TypeOK
<1>11. QED
  BY <1>4, <1>5, <1>6, <1>7, <1>8, <1>9, <1>10 DEF Act, Step

(* What was delivered was queued.                                          *)
LEMMA DeliveredEntries == TypeOK => Delivered \subseteq Entries
BY ConfigAssumption DEF TypeOK, Delivered, Entries

(* In memory, the outcomes of an entry and the acknowledgement it waits    *)
(* for account for each other after every step.                            *)
LEMMA StepHeldOutcomes ==
    ASSUME IInv, NEW w \in Workers, Act(w)
    PROVE  HeldOutcomes'
<1> USE DEF IInv
<1>1. Doubt \in Nat /\ Doubt' \in Nat /\ Doubt' >= Doubt
  BY DoubtGrows
<1>2. ASSUME NEW v \in Workers, NEW m \in Held(v)
      PROVE  /\ m \in Entries
             /\ Outcomes(m) <= Doubt + (IF JustWritten(v, m) THEN 1 ELSE 0)
             /\ JustWritten(v, m) => HasOutcome(m)
  BY DeliveredEntries DEF HeldOutcomes, Outcomes, Doubt, MemoryShape
<1>3. ASSUME NEW m \in Entries
      PROVE  /\ Outcomes(m) \in Nat
             /\ HasOutcome(m) => HasOutcome(m)'
             /\ Outcomes(m)' = Outcomes(m) + 1 => HasOutcome(m)'
  BY OneOutcomeAtATime DEF Outcomes, HasOutcome
<1>4. ASSUME NEW v \in Workers, NEW m \in Held(v)'
      PROVE  /\ Outcomes(m)' <= Doubt' + (IF JustWritten(v, m)' THEN 1 ELSE 0)
             /\ JustWritten(v, m)' => HasOutcome(m)'
  <2>1. CASE v # w
    <3>1. Held(v)' = Held(v) /\ JustWritten(v, m)' = JustWritten(v, m)
      BY <2>1, OthersKeepMemory DEF Held, JustWritten
    <3>2. m \in Entries /\ m \notin Held(w)
      BY <1>2, <2>1, <3>1 DEF HeldByOne
    <3>3. Outcomes(m)' = Outcomes(m)
      BY <3>2, OneOutcomeAtATime DEF Outcomes
    <3>4. QED
      BY <1>1, <1>2, <1>3, <3>1, <3>2, <3>3
  <2>2. CASE v = w /\ Read(w)
    <3>1. Outcomes(m)' = Outcomes(m)
      BY <2>2, QuietSteps DEF Outcomes, Read, AtSelect, Send, SendFails, Bury, BuryFails
    <3>2. pc'[w] = "run" /\ pc[w] = "run"
      BY <2>2 DEF Read, AtSelect
    <3>3. ~JustWritten(w, m)' /\ ~JustWritten(w, m)
      BY <3>2 DEF JustWritten
    <3>4. CASE m \in Held(w)
      BY <1>1, <1>2, <1>3, <2>2, <3>1, <3>3, <3>4
    <3>5. CASE m \notin Held(w)
      <4>1. m \in Entries \ Delivered
        BY <2>2, <3>5, ReadIsFresh DEF Fresh
      <4>2. Outcomes(m) = 0
        BY <4>1 DEF UndeliveredUntouched, Outcomes
      <4>3. Outcomes(m)' = 0
        BY <3>1, <4>2
      <4>4. JustWritten(v, m)' = FALSE
        BY <2>2, <3>2 DEF JustWritten
      <4>5. \A d \in Nat : 0 <= d + 0
        OBVIOUS
      <4>6. QED
        BY <1>1, <4>3, <4>4, <4>5
    <3>6. QED
      BY <3>4, <3>5
  <2>3. CASE v = w /\ ~Read(w)
    <3>1. m \in Held(w) /\ m \in Entries
      BY <1>2, <2>3, HeldShrinks
    <3>2. JustWritten(w, m) => JustWritten(w, m)' \/ Doubt' = Doubt + 1
      BY <2>3, <3>1, WaitingEnds
    <3>3. \/ Outcomes(m)' = Outcomes(m)
          \/ /\ ~JustWritten(w, m)
             /\ Outcomes(m)' = Outcomes(m) + 1
             /\ JustWritten(w, m)' \/ Doubt' = Doubt + 1
      BY <3>1, OneOutcomeAtATime DEF Outcomes
    <3>4. Outcomes(m)' <= Doubt' + (IF JustWritten(w, m)' THEN 1 ELSE 0)
      BY <1>1, <1>2, <1>3, <3>1, <3>2, <3>3
    <3>5. JustWritten(w, m)' => HasOutcome(m)'
      BY <1>2, <1>3, <3>1, WaitingBegins
    <3>6. QED
      BY <2>3, <3>4, <3>5
  <2>4. QED
    BY <2>1, <2>2, <2>3
<1>5. QED
  BY <1>4 DEF HeldOutcomes, Outcomes, Doubt

(* Every step of a worker keeps undelivered entries untouched,             *)
(* acknowledged ones settled and the outcomes of each in bounds.           *)
LEMMA StepOutcomes ==
    ASSUME IInv, NEW w \in Workers, Act(w)
    PROVE  UndeliveredUntouched' /\ AckedHasOutcome' /\ OutcomesBounded'
<1> USE DEF IInv
<1>1. UndeliveredUntouched'
  <2>1. pel' \subseteq Delivered' /\ malformed' \subseteq 1 .. queued'
    BY AckedWereWritten, StreamGrows DEF UndeliveredUntouched
  <2>2. ASSUME NEW m \in Entries \ Delivered'
        PROVE  rows'[m] = 0 /\ dead'[m] = 0
    <3>1. m \notin Delivered /\ m \notin Held(w)
      BY <2>2, StreamGrows DEF MemoryShape
    <3>2. QED
      BY <3>1, OneOutcomeAtATime DEF UndeliveredUntouched
  <2>3. QED
    BY <2>1, <2>2 DEF UndeliveredUntouched
<1>2. AckedHasOutcome'
  <2>1. ASSUME NEW m \in Acked'
        PROVE  HasOutcome(m)'
    <3>1. m \in Acked \/ JustWritten(w, m)
      BY AckedWereWritten
    <3>2. JustWritten(w, m) => m \in Held(w)
      BY DEF JustWritten, Held
    <3>3. HasOutcome(m) /\ m \in Entries
      BY <3>1, <3>2, DeliveredEntries
         DEF AckedHasOutcome, HeldOutcomes, MemoryShape, Acked
    <3>4. QED
      BY <3>3, OneOutcomeAtATime DEF HasOutcome
  <2>2. QED
    BY <2>1 DEF AckedHasOutcome
<1>3. OutcomesBounded'
  <2>1. ASSUME NEW m \in Entries
        PROVE  Outcomes(m)' <= 1 + Doubt'
    <3>1. Doubt \in Nat /\ Doubt' \in Nat /\ Doubt' >= Doubt
      BY DoubtGrows
    <3>2. Outcomes(m) \in Nat /\ Outcomes(m) <= 1 + Doubt
      BY DEF OutcomesBounded, Outcomes, Doubt, TypeOK
    <3>3. m \in Held(w) /\ ~JustWritten(w, m) => Outcomes(m) <= Doubt
      BY <3>1 DEF HeldOutcomes, Outcomes, Doubt
    <3>4. QED
      BY <3>1, <3>2, <3>3, OneOutcomeAtATime DEF Outcomes
  <2>2. TypeOK'
    BY NextTypeOK DEF Act, Next
  <2>3. redisFaults' \in Nat /\ ghostWrites' \in Nat
    BY <2>2 DEF TypeOK
  <2>4. QED
    BY <2>1, <2>3 DEF OutcomesBounded, Outcomes, Doubt
<1>4. QED
  BY <1>1, <1>2, <1>3

-----------------------------------------------------------------------------
(* Retry keys.                                                             *)

(* A retry key is incremented once for a failed flush: Mine describes the  *)
(* steps that visit nothing new and bury nothing new, Visits what must     *)
(* hold of a worker's visits.                                              *)
LEMMA StepRetryKeys ==
    ASSUME IInv, NEW w \in Workers, Act(w)
    PROVE  RetryKeys'
<1> USE DEF IInv
<1> DEFINE Visits(v) ==
        /\ \A m \in todo[v] : attempts[m] < sinkFaults
        /\ pc[v] \in {"bury", "buryack"} /\ focus[v] \notin malformed
              => sinkFaults >= MaxRetries
           Mine == /\ todo'[w] \subseteq todo[w]
                   /\ pc'[w] \in {"bury", "buryack"} =>
                         /\ pc[w] \in {"bury", "buryack"}
                         /\ focus'[w] = focus[w]
<1>1. /\ \A m \in Entries : attempts[m] \in Nat /\ attempts[m] <= sinkFaults
      /\ sinkFaults \in Nat
  BY DEF RetryKeys, TypeOK
<1>2. malformed' = malformed
  BY StreamGrows
<1>3. ASSUME NEW v \in Workers, v # w
      PROVE  pc'[v] = pc[v] /\ todo'[v] = todo[v] /\ focus'[v] = focus[v]
  BY <1>3, OthersKeepMemory
<1>4. ASSUME NEW v \in Workers
      PROVE  todo[v] \subseteq Entries /\ Visits(v)
  BY DEF RetryKeys, TypeOK
<1>5. ASSUME NEW v \in Workers, v # w
      PROVE  todo[v] \cap todo[w] = {}
  BY <1>5 DEF HeldByOne, MemoryShape, Held
<1>6. ASSUME attempts' = attempts, sinkFaults' = sinkFaults, Mine
      PROVE  RetryKeys'
  BY <1>1, <1>2, <1>3, <1>4, <1>6 DEF RetryKeys
<1>7. ASSUME Vanish(w) PROVE Mine
  BY <1>7 DEF Vanish, TypeOK
<1>8. ASSUME NEW left, Return(w, left) PROVE Mine
  BY <1>7, <1>8 DEF Return, TypeOK
<1>9. CASE Start(w) \/ Crash(w) \/ Shutdown(w)
  BY <1>6, <1>7, <1>9
     DEF Start, Crash, Shutdown, redis, mishap, RedisFault, TypeOK
<1>10. CASE Tick(w) \/ Read(w)
  BY <1>6, <1>10 DEF Tick, Read, AtSelect, redis, mishap, RedisFault, TypeOK
<1>11. CASE Handle(w)
  <2>1. PICK m \in inbox[w] : Handle(w)!2!(m)
    BY <1>11 DEF Handle
  <2>2. /\ attempts' = attempts /\ sinkFaults' = sinkFaults /\ todo' = todo
    BY <1>11 DEF Handle, redis, mishap
  <2>3. pc'[w] \in {"bury", "buryack"} => focus'[w] \in malformed
    BY <2>1 DEF TypeOK
  <2>4. QED
    BY <1>1, <1>2, <1>3, <1>4, <2>2, <2>3 DEF RetryKeys
<1>12. CASE Send(w)
  BY <1>6, <1>12 DEF Send, redis, mishap, TypeOK
<1>13. CASE SendFails(w)
  <2>1. /\ attempts' = attempts /\ sinkFaults' = sinkFaults + 1
        /\ todo'[w] \subseteq Entries /\ pc'[w] = "retry"
    BY <1>13 DEF SendFails, redis, TypeOK
  <2>2. QED
    BY <1>1, <1>2, <1>3, <1>4, <2>1, ConfigAssumption DEF RetryKeys
<1>14. CASE Ack(w) \/ AckFails(w) \/ FlushFailed(w)
  BY <1>6, <1>8, <1>14 DEF Ack, AckFails, FlushFailed, redis, mishap, RedisFault
<1>15. CASE Increment(w)
  <2>1. PICK m \in todo[w] : Increment(w)!2!(m)
    BY <1>15 DEF Increment
  <2>2. /\ m \in Entries /\ attempts[m] < sinkFaults
    BY <1>4
  <2>3. /\ sinkFaults' = sinkFaults
        /\ todo'[w] = todo[w] \ {m}
        /\ \A k \in Entries : attempts'[k] = IF k = m THEN attempts[k] + 1 ELSE attempts[k]
    BY <1>15, <2>1, <2>2 DEF Increment, mishap, TypeOK
  <2>4. pc'[w] \in {"bury", "buryack"} => attempts[m] + 1 >= MaxRetries
    BY <1>15, <2>1 DEF Increment, TypeOK
  <2>5. ASSUME NEW v \in Workers
        PROVE  Visits(v)'
    <3>1. CASE v = w
      BY <1>1, <1>2, <1>4, <2>2, <2>3, <2>4, <3>1, ConfigAssumption
    <3>2. CASE v # w
      BY <1>1, <1>2, <1>3, <1>4, <1>5, <2>2, <2>3, <3>2
    <3>3. QED
      BY <3>1, <3>2
  <2>6. QED
    BY <1>1, <2>2, <2>3, <2>5 DEF RetryKeys
<1>16. CASE IncrementFails(w)
  <2>1. PICK m \in todo[w] :
          /\ todo' = [todo EXCEPT ![w] = @ \ {m}]
          /\ \/ UNCHANGED attempts
             \/ attempts' = [attempts EXCEPT ![m] = @ + 1]
    BY <1>16 DEF IncrementFails
  <2>2. /\ m \in Entries /\ attempts[m] < sinkFaults
    BY <1>4
  <2>3. /\ sinkFaults' = sinkFaults /\ pc' = pc /\ focus' = focus
        /\ todo'[w] = todo[w] \ {m}
        /\ \A k \in Entries :
              \/ attempts'[k] = attempts[k]
              \/ (k = m /\ attempts'[k] = attempts[k] + 1)
    <3>1. /\ sinkFaults' = sinkFaults /\ pc' = pc /\ focus' = focus
          /\ todo'[w] = todo[w] \ {m}
      BY <1>16, <2>1 DEF IncrementFails, RedisFault, TypeOK
    <3>2. CASE attempts' = attempts
      BY <3>1, <3>2
    <3>3. CASE attempts' = [attempts EXCEPT ![m] = @ + 1]
      BY <2>2, <3>1, <3>3 DEF TypeOK
    <3>4. QED
      BY <2>1, <3>2, <3>3
  <2>4. ASSUME NEW v \in Workers
        PROVE  Visits(v)'
    <3>1. CASE v = w
      BY <1>1, <1>2, <1>4, <2>2, <2>3, <3>1
    <3>2. CASE v # w
      BY <1>1, <1>2, <1>3, <1>4, <1>5, <2>2, <2>3, <3>2
    <3>3. QED
      BY <3>1, <3>2
  <2>5. QED
    BY <1>1, <2>2, <2>3, <2>4 DEF RetryKeys
<1>17. CASE Bury(w)
  BY <1>6, <1>17 DEF Bury, mishap, TypeOK
<1>18. CASE BuryFails(w) \/ BuryAckFails(w)
  BY <1>6, <1>18 DEF BuryFails, BuryAckFails, AfterBury, RedisFault, TypeOK
<1>19. CASE BuryAck(w)
  <2>1. /\ sinkFaults' = sinkFaults /\ todo' = todo
        /\ pc'[w] \notin {"bury", "buryack"}
        /\ \A k \in Entries : attempts'[k] = attempts[k] \/ attempts'[k] = 0
    BY <1>19 DEF BuryAck, AfterBury, RedisFault, mishap, TypeOK
  <2>2. ASSUME NEW v \in Workers
        PROVE  Visits(v)'
    BY <1>1, <1>2, <1>3, <1>4, <2>1
  <2>3. QED
    BY <1>1, <2>1, <2>2 DEF RetryKeys
<1>20. QED
  BY <1>9, <1>10, <1>11, <1>12, <1>13, <1>14, <1>15, <1>16, <1>17, <1>18,
     <1>19 DEF Act, Step


(* An entry that parsed is copied to events:dead only in the name of       *)
(* MaxRetries failed flushes.                                              *)
LEMMA StepDeadLetterEarned ==
    ASSUME IInv, NEW w \in Workers, Act(w)
    PROVE  DeadLetterEarned'
<1> USE DEF IInv
<1>1. sinkFaults \in Nat /\ sinkFaults' \in Nat /\ sinkFaults' >= sinkFaults
  BY DEF Act, Step, Start, Crash, Shutdown, Tick, Read, Handle, Send, SendFails,
         Ack, AckFails, Increment, IncrementFails, FlushFailed, Bury, BuryFails,
         BuryAck, BuryAckFails, RedisFault, mishap, TypeOK
<1>2. malformed' = malformed
  BY StreamGrows
<1>3. ASSUME NEW m \in Entries \ malformed, dead'[m] > 0
      PROVE  dead[m] > 0 \/ sinkFaults >= MaxRetries
  <2>1. CASE Bury(w) \/ BuryFails(w)
    <3>1. dead'[m] = dead[m] \/ m = focus[w]
      BY <2>1 DEF Bury, BuryFails, TypeOK
    <3>2. pc[w] = "bury"
      BY <2>1 DEF Bury, BuryFails
    <3>3. QED
      BY <1>3, <3>1, <3>2 DEF RetryKeys
  <2>2. CASE ~(Bury(w) \/ BuryFails(w))
    <3>1. dead' = dead
      BY <2>2, QuietSteps DEF Send, SendFails, redis
    <3>2. QED
      BY <1>3, <3>1
  <2>3. QED
    BY <2>1, <2>2
<1>4. QED
  BY <1>1, <1>2, <1>3, ConfigAssumption DEF DeadLetterEarned

-----------------------------------------------------------------------------
(* Invariance.                                                             *)

(* The inductive invariant holds initially.                                *)
LEMMA InitIInv == Init => IInv
<1> SUFFICES ASSUME Init PROVE IInv
  OBVIOUS
<1>1. TypeOK
  BY InitTypeOK
<1>2. Delivered = {} /\ \A w \in Workers : Held(w) = {} /\ pc[w] = "off"
  BY DEF Init, Delivered, Held
<1>3. HeldByOne /\ MemoryShape /\ UndeliveredUntouched
  BY <1>2 DEF Init, HeldByOne, MemoryShape, UndeliveredUntouched
<1>4. HeldOutcomes /\ RetryKeys
  BY <1>2 DEF Init, HeldOutcomes, RetryKeys
<1>5. AckedHasOutcome /\ OutcomesBounded /\ DeadLetterEarned
  BY <1>2 DEF Init, AckedHasOutcome, Acked, OutcomesBounded, DeadLetterEarned
<1>6. QED
  BY <1>1, <1>3, <1>4, <1>5 DEF IInv

(* Appending an entry changes nothing the group has been given.            *)
LEMMA EnqueueIInv == IInv /\ Enqueue => IInv'
<1> SUFFICES ASSUME IInv, Enqueue PROVE IInv'
  OBVIOUS
<1> USE DEF IInv
<1>1. TypeOK'
  BY NextTypeOK DEF Next
<1>2. UNCHANGED <<cursor, pel, attempts, dead, rows, pc, inbox, batch, todo,
                  focus, stopping, sinkFaults, ghostWrites, redisFaults, stops>>
  BY DEF Enqueue, memory, mishap
<1>3. /\ queued' = queued + 1
      /\ malformed' = malformed \/ malformed' = malformed \cup {queued'}
      /\ queued' \notin Delivered
      /\ queued \in Nat
  BY DEF Enqueue, TypeOK, Delivered
<1>4. Delivered' = Delivered /\ Acked' = Acked
  BY <1>2 DEF Delivered, Acked
<1>5. \A w \in Workers : Held(w)' = Held(w)
  BY <1>2 DEF Held
<1>6. HeldByOne'
  BY <1>5 DEF HeldByOne
<1>7. MemoryShape'
  <2>1. \A w \in Workers : batch[w] \subseteq Delivered
    BY DEF MemoryShape, Held
  <2>2. QED
    BY <1>2, <1>3, <1>4, <1>5, <2>1 DEF MemoryShape
<1>8. UndeliveredUntouched'
  <2>1. malformed' \subseteq 1 .. queued'
    <3>1. malformed \subseteq 1 .. queued'
      BY <1>3 DEF UndeliveredUntouched
    <3>2. queued' \in 1 .. queued'
      BY <1>3
    <3>3. QED
      BY <1>3, <3>1, <3>2
  <2>2. QED
    BY <1>2, <1>4, <2>1 DEF UndeliveredUntouched
<1>9. HeldOutcomes'
  BY <1>2, <1>5 DEF HeldOutcomes, JustWritten, HasOutcome
<1>10. RetryKeys'
  BY <1>2, <1>3 DEF RetryKeys
<1>11. AckedHasOutcome' /\ OutcomesBounded' /\ DeadLetterEarned'
  BY <1>2, <1>3, <1>4
     DEF AckedHasOutcome, HasOutcome, OutcomesBounded, DeadLetterEarned
<1>12. QED
  BY <1>1, <1>6, <1>7, <1>8, <1>9, <1>10, <1>11

(* Every step keeps the inductive invariant.                               *)
LEMMA NextIInv == IInv /\ [Next]_vars => IInv'
<1> SUFFICES ASSUME IInv, [Next]_vars PROVE IInv'
  OBVIOUS
<1>1. CASE Enqueue
  BY <1>1, EnqueueIInv
<1>2. ASSUME NEW w \in Workers, Act(w) PROVE IInv'
  <2>1. TypeOK'
    BY <1>2, NextTypeOK DEF IInv, Act, Next
  <2>2. HeldByOne' /\ MemoryShape'
    BY <1>2, StepHeldByOne, StepMemoryShape DEF IInv
  <2>3. UndeliveredUntouched' /\ AckedHasOutcome' /\ OutcomesBounded'
    BY <1>2, StepOutcomes
  <2>4. HeldOutcomes' /\ RetryKeys' /\ DeadLetterEarned'
    BY <1>2, StepHeldOutcomes, StepRetryKeys, StepDeadLetterEarned
  <2>5. QED
    BY <2>1, <2>2, <2>3, <2>4 DEF IInv
<1>3. CASE UNCHANGED vars
  <2>1. UNCHANGED <<queued, malformed, cursor, pel, attempts, dead, rows, pc,
                    inbox, batch, todo, focus, stopping, sinkFaults,
                    ghostWrites, redisFaults, stops>>
    BY <1>3 DEF vars, redis, memory, mishap
  <2>2. QED
    BY <2>1 DEF IInv, TypeOK, HeldByOne, MemoryShape, UndeliveredUntouched,
                HeldOutcomes, RetryKeys, AckedHasOutcome, OutcomesBounded,
                DeadLetterEarned, Held, Delivered, Acked, JustWritten, HasOutcome
<1>4. QED
  BY <1>1, <1>2, <1>3 DEF Next, Act

(* The consumer's inductive invariant holds in every reachable state.      *)
THEOREM Invariance == Spec => []IInv
BY InitIInv, NextIInv, PTL DEF Spec

(* No acknowledged event is lost: whatever fails and whenever a worker     *)
(* dies, an entry leaves the pending list only after it was inserted into  *)
(* ClickHouse or copied to events:dead.                                    *)
THEOREM NoAckedLoss == Spec => []AckedHasOutcome
<1>1. IInv => AckedHasOutcome
  BY DEF IInv
<1>2. QED
  BY <1>1, Invariance, PTL

(* The number of rows and dead letters of an event is at most one more     *)
(* than the number of Redis errors and half-applied inserts.               *)
THEOREM DuplicatesNeedFaults == Spec => []OutcomesBounded
<1>1. IInv => OutcomesBounded
  BY DEF IInv
<1>2. QED
  BY <1>1, Invariance, PTL

(* An event that parsed is dead-lettered only after MaxRetries failed      *)
(* flushes.                                                                *)
THEOREM DeadLettersEarned == Spec => []DeadLetterEarned
<1>1. IInv => DeadLetterEarned
  BY DEF IInv
<1>2. QED
  BY <1>1, Invariance, PTL

(* Replicas never hold the same entry.                                     *)
THEOREM ExclusiveDelivery == Spec => []HeldByOne
<1>1. IInv => HeldByOne
  BY DEF IInv
<1>2. QED
  BY <1>1, Invariance, PTL

-----------------------------------------------------------------------------
(* Lost for good.                                                          *)

(* A step of a worker that does not hold m changes nothing about it.       *)
LEMMA StrandedUntouched ==
    ASSUME IInv, NEW w \in Workers, Act(w), NEW m \in pel, m \notin Held(w)
    PROVE  /\ m \in pel' /\ m \notin Held(w)'
           /\ rows'[m] = rows[m] /\ dead'[m] = dead[m] /\ attempts'[m] = attempts[m]
<1> USE DEF IInv
<1>1. m \in Entries /\ m \in Delivered
  BY DEF TypeOK, UndeliveredUntouched
<1>2. rows'[m] = rows[m] /\ dead'[m] = dead[m]
  BY <1>1, OneOutcomeAtATime
<1>3. ~JustWritten(w, m)
  BY DEF JustWritten, Held
<1>4. m \in pel'
  <2>1. m \in Delivered'
    BY <1>1, StreamGrows
  <2>2. m \notin Acked'
    BY <1>3, AckedWereWritten DEF Acked
  <2>3. QED
    BY <2>1, <2>2 DEF Acked
<1>5. m \notin Held(w)'
  <2>1. CASE Read(w)
    BY <1>1, <2>1, ReadIsFresh
  <2>2. CASE ~Read(w)
    BY <2>2, HeldShrinks
  <2>3. QED
    BY <2>1, <2>2
<1>6. attempts'[m] = attempts[m]
  <2>1. CASE Increment(w) \/ IncrementFails(w)
    <3>1. m \notin todo[w]
      BY DEF MemoryShape, Held
    <3>2. QED
      BY <1>1, <2>1, <3>1 DEF Increment, IncrementFails, TypeOK
  <2>2. CASE BuryAck(w)
    <3>1. m # focus[w]
      BY <2>2 DEF BuryAck, Held
    <3>2. QED
      BY <1>1, <2>2, <3>1 DEF BuryAck, TypeOK
  <2>3. CASE ~(Increment(w) \/ IncrementFails(w) \/ BuryAck(w))
    BY <2>3 DEF Act, Step, redis, Start, Crash, Shutdown, Tick, Read, Handle,
                Send, SendFails, Ack, AckFails, FlushFailed, Bury, BuryFails,
                BuryAckFails
  <2>4. QED
    BY <2>1, <2>2, <2>3
<1>7. QED
  BY <1>2, <1>4, <1>5, <1>6

(* No step touches a stranded entry.                                       *)
LEMMA StrandedStep ==
    ASSUME IInv, [Next]_vars, NEW m \in Entries, Stranded(m)
    PROVE  Stranded(m)' /\ UNCHANGED <<rows[m], dead[m], attempts[m]>>
<1>1. CASE Enqueue
  BY <1>1 DEF Enqueue, memory, Stranded, Held
<1>2. ASSUME NEW w \in Workers, Act(w)
      PROVE  Stranded(m)' /\ UNCHANGED <<rows[m], dead[m], attempts[m]>>
  <2>1. m \in pel /\ m \notin Held(w)
    BY DEF Stranded
  <2>2. ASSUME NEW v \in Workers, v # w
        PROVE  m \notin Held(v)'
    <3>1. Held(v)' = Held(v)
      BY <1>2, <2>2, OthersKeepMemory DEF Held, IInv
    <3>2. QED
      BY <3>1 DEF Stranded
  <2>3. QED
    BY <1>2, <2>1, <2>2, StrandedUntouched DEF Stranded
<1>3. CASE UNCHANGED vars
  BY <1>3 DEF vars, redis, memory, Stranded, Held
<1>4. QED
  BY <1>1, <1>2, <1>3 DEF Next, Act

(* Nothing in the code takes up an entry whose worker died or never saw    *)
(* the reply: it stays pending, with the outcomes it has.                  *)
THEOREM StrandedStaysStranded == Spec => StrandedForGood
<1>1. IInv /\ [Next]_vars =>
        [\A m \in Entries :
            Stranded(m) => Stranded(m)' /\ UNCHANGED <<rows[m], dead[m], attempts[m]>>]_vars
  BY StrandedStep
<1>2. QED
  BY <1>1, Invariance, PTL DEF Spec, StrandedForGood

-----------------------------------------------------------------------------
(* Nothing is lost from memory without a cause.                            *)

(* A pending entry is in the memory of a worker as long as Redis works and *)
(* no process stops, whatever ClickHouse does.                             *)
NothingStrands ==
    redisFaults + stops = 0 => \A m \in Entries : ~Stranded(m)

(* Only a stop makes a flush the last one.                                 *)
LastFlush == \A w \in Workers : stopping[w] => stops > 0

(* No step with a Redis error comes before a state without one.             *)
LEMMA FaultFree ==
    ASSUME TypeOK, NEW w \in Workers, Act(w), redisFaults' = 0
    PROVE  redisFaults = 0 /\ ~RedisFault
<1>1. ~RedisFault
  BY DEF RedisFault, TypeOK
<1>2. redisFaults' = redisFaults \/ RedisFault
  <2>1. CASE Start(w) \/ Crash(w) \/ Shutdown(w)
    BY <2>1 DEF Start, Crash, Shutdown, mishap
  <2>2. CASE Tick(w) \/ Read(w) \/ Handle(w) \/ Send(w) \/ SendFails(w)
    BY <2>2 DEF Tick, Read, Handle, Send, SendFails, mishap
  <2>3. CASE Ack(w) \/ AckFails(w) \/ Increment(w) \/ IncrementFails(w) \/ FlushFailed(w)
    BY <2>3 DEF Ack, AckFails, Increment, IncrementFails, FlushFailed, mishap
  <2>4. CASE Bury(w) \/ BuryFails(w) \/ BuryAck(w) \/ BuryAckFails(w)
    BY <2>4 DEF Bury, BuryFails, BuryAck, BuryAckFails, mishap
  <2>5. QED
    BY <2>1, <2>2, <2>3, <2>4 DEF Act, Step
<1>3. QED
  BY <1>1, <1>2

(* A process that was told to stop has been counted.                       *)
LEMMA StepLastFlush ==
    ASSUME TypeOK, LastFlush, NEW w \in Workers, Act(w)
    PROVE  LastFlush' /\ stops <= stops'
<1> USE DEF TypeOK
<1>1. stops \in Nat
  BY ConfigAssumption
<1>2. CASE Crash(w) \/ Shutdown(w)
  BY <1>1, <1>2 DEF Crash, Shutdown, Vanish, LastFlush
<1>3. CASE Ack(w) \/ AckFails(w) \/ FlushFailed(w)
  <2>1. stops' = stops
    BY <1>3 DEF Ack, AckFails, FlushFailed, mishap, RedisFault
  <2>2. stopping' = stopping \/ stopping' = [stopping EXCEPT ![w] = FALSE]
    BY <1>3 DEF Ack, AckFails, FlushFailed, Return, Vanish
  <2>3. QED
    BY <1>1, <2>1, <2>2 DEF LastFlush
<1>4. CASE Start(w) \/ Tick(w) \/ Read(w) \/ Handle(w) \/ Send(w) \/ SendFails(w)
  BY <1>1, <1>4
     DEF LastFlush, Start, Tick, Read, Handle, Send, SendFails, mishap, RedisFault
<1>5. CASE Increment(w) \/ IncrementFails(w)
  BY <1>1, <1>5 DEF LastFlush, Increment, IncrementFails, mishap, RedisFault
<1>6. CASE Bury(w) \/ BuryFails(w) \/ BuryAck(w) \/ BuryAckFails(w)
  BY <1>1, <1>6
     DEF LastFlush, Bury, BuryFails, BuryAck, BuryAckFails, mishap, RedisFault
<1>7. QED
  BY <1>2, <1>3, <1>4, <1>5, <1>6 DEF Act, Step

(* A worker lets go only of what it has acknowledged, and holds what the   *)
(* group has just given it.                                                *)
LEMMA LiveMemory ==
    ASSUME TypeOK, MemoryShape, LastFlush, NEW w \in Workers, Act(w),
           redisFaults' = 0, stops' = 0
    PROVE  /\ pel' \subseteq pel \cup Held(w)'
           /\ pel' \cap Held(w) \subseteq Held(w)'
<1> USE DEF TypeOK, Held
<1>1. ~RedisFault /\ stops = 0 /\ ~stopping[w] /\ ~Crash(w) /\ ~Shutdown(w)
  <2>1. ~RedisFault
    BY FaultFree
  <2>2. stops = 0 /\ ~stopping[w]
    BY StepLastFlush, ConfigAssumption DEF LastFlush
  <2>3. QED
    BY <2>1, <2>2 DEF Crash, Shutdown
<1>2. ASSUME NEW left, Return(w, left)
      PROVE  /\ pc'[w] = "run" /\ inbox' = inbox /\ batch'[w] = left
  BY <1>1, <1>2 DEF Return
<1>3. CASE Start(w)
  BY <1>1, <1>3 DEF Start, redis
<1>4. CASE Read(w)
  BY <1>1, <1>4 DEF Read, AtSelect
<1>5. CASE Handle(w)
  BY <1>5 DEF Handle, redis
<1>6. CASE Tick(w) \/ Send(w) \/ SendFails(w)
  <2>1. /\ pel' = pel /\ inbox' = inbox /\ batch' = batch
        /\ pc[w] \in {"run", "send"}
    BY <1>6 DEF Tick, AtSelect, Send, SendFails, redis
  <2>2. QED
    BY <2>1
<1>7. CASE Ack(w) \/ AckFails(w)
  <2>1. /\ pc[w] = "ack" /\ pel' = pel \ batch[w]
        /\ pc'[w] = "run" /\ inbox' = inbox
    BY <1>1, <1>2, <1>7 DEF Ack, AckFails
  <2>2. QED
    BY <2>1
<1>8. CASE FlushFailed(w)
  <2>1. /\ pc[w] = "retry" /\ pel' = pel
        /\ pc'[w] = "run" /\ inbox' = inbox /\ batch'[w] = batch[w]
    BY <1>2, <1>8 DEF FlushFailed, redis
  <2>2. QED
    BY <2>1
<1>9. CASE Increment(w) \/ IncrementFails(w)
  BY <1>1, <1>9 DEF Increment, IncrementFails
<1>10. CASE Bury(w) \/ BuryFails(w) \/ BuryAck(w) \/ BuryAckFails(w)
  BY <1>1, <1>10 DEF Bury, BuryFails, BuryAck, BuryAckFails, AfterBury
<1>11. QED
  BY <1>1, <1>3, <1>4, <1>5, <1>6, <1>7, <1>8, <1>9, <1>10 DEF Act, Step

(* So no step strands an entry.                                            *)
LEMMA NextNothingStrands ==
    IInv /\ LastFlush /\ NothingStrands /\ [Next]_vars
        => LastFlush' /\ NothingStrands'
<1> SUFFICES ASSUME IInv, LastFlush, NothingStrands, [Next]_vars
             PROVE  LastFlush' /\ NothingStrands'
  OBVIOUS
<1>1. TypeOK /\ MemoryShape
  BY DEF IInv
<1>2. CASE Enqueue \/ UNCHANGED vars
  BY <1>2
     DEF Enqueue, vars, redis, memory, mishap, LastFlush, NothingStrands, Stranded, Held
<1>3. ASSUME NEW w \in Workers, Act(w)
      PROVE  LastFlush' /\ NothingStrands'
  <2>1. LastFlush' /\ stops <= stops'
    BY <1>1, <1>3, StepLastFlush
  <2>2. ASSUME redisFaults' + stops' = 0, NEW m \in Entries
        PROVE  ~Stranded(m)'
    <3>1. redisFaults' = 0 /\ stops' = 0
      <4>1. redisFaults' \in Nat /\ stops' \in Nat
        BY <1>1, NextTypeOK, BoundAssumption DEF TypeOK
      <4>2. \A i, j \in Nat : i + j = 0 => i = 0 /\ j = 0
        OBVIOUS
      <4>3. QED
        BY <2>2, <4>1, <4>2, Zenon
    <3>2. redisFaults = 0 /\ stops = 0
      BY <1>1, <1>3, <2>1, <3>1, FaultFree, ConfigAssumption DEF TypeOK
    <3>3. ~Stranded(m)
      BY <3>2 DEF NothingStrands
    <3>4. \A v \in Workers \ {w} : Held(v)' = Held(v)
      BY <1>1, <1>3, OthersKeepMemory DEF Held
    <3>5. QED
      BY <1>1, <1>3, <3>1, <3>3, <3>4, LiveMemory DEF Stranded
  <2>3. QED
    BY <2>1, <2>2 DEF NothingStrands
<1>4. QED
  BY <1>2, <1>3 DEF Next, Act

(* Entries are stranded by stops and failing Redis commands only: what     *)
(* ClickHouse does, however often it fails and whatever it keeps of a      *)
(* batch, leaves every pending entry in the memory of a worker that will   *)
(* come back to it.                                                        *)
THEOREM NothingIsStranded == Spec => []NothingStrands
<1>1. Init => LastFlush /\ NothingStrands
  BY DEF Init, LastFlush, NothingStrands, Stranded
<1>2. QED
  BY <1>1, Invariance, NextNothingStrands, PTL DEF Spec

-----------------------------------------------------------------------------
(* Refinement of MessageDelivery.  Its state, as functions of this one.    *)
Acc == 1 .. queued
Sto == {m \in Entries : rows[m] > 0}
Bur == {m \in Entries : dead[m] > 0}

(* An acknowledged entry stays acknowledged.                               *)
LEMMA AckedGrows ==
    ASSUME TypeOK, NEW w \in Workers, Act(w)
    PROVE  Acked \subseteq Acked'
<1> SUFFICES ASSUME NEW m \in Acked PROVE m \in Acked'
  OBVIOUS
<1>1. m \in Delivered' /\ m \in Delivered /\ m \notin pel
  BY StreamGrows DEF Acked
<1>2. CASE Read(w)
  <2>1. pel' = pel \cup Fresh(w)
    BY <1>2 DEF Read
  <2>2. QED
    BY <1>1, <1>2, <2>1, ReadIsFresh DEF Acked
<1>3. CASE ~Read(w)
  <2>1. pel' \subseteq pel
    BY <1>3 DEF Act, Step, redis, Start, Crash, Shutdown, Tick, Handle, Send,
                SendFails, Ack, AckFails, Increment, IncrementFails,
                FlushFailed, Bury, BuryFails, BuryAck, BuryAckFails
  <2>2. QED
    BY <1>1, <2>1 DEF Acked
<1>4. QED
  BY <1>2, <1>3

(* What the steps that write do to the sets of outcomes.                   *)
LEMMA SendStores ==
    ASSUME IInv, NEW w \in Workers, Send(w) \/ SendFails(w)
    PROVE  Sto \subseteq Sto' /\ Bur' = Bur /\ Acked' = Acked
<1>1. Act(w)
  BY DEF Act, Step
<1>2. Sto \subseteq Sto'
  <2>1. \A m \in Entries : /\ rows[m] \in Nat /\ rows'[m] \in Nat
                           /\ rows'[m] >= rows[m]
    BY <1>1, OneOutcomeAtATime DEF IInv
  <2>2. QED
    BY <2>1 DEF Sto
<1>3. QED
  BY <1>2 DEF Send, SendFails, redis, Bur, Acked, Delivered

(* Burying adds at most the entry in hand to the abstract dead letters.    *)
LEMMA BuryBuries ==
    ASSUME IInv, NEW w \in Workers, Bury(w) \/ BuryFails(w)
    PROVE  /\ Sto' = Sto /\ Acked' = Acked
           /\ Bur' = Bur \/ Bur' = Bur \cup {focus[w]}
           /\ focus[w] \in Acc
<1> USE DEF IInv
<1>1. focus[w] \in Delivered /\ focus[w] \in Entries /\ focus[w] \in Acc
  <2>1. pc[w] = "bury"
    BY DEF Bury, BuryFails
  <2>2. focus[w] \in Held(w)
    BY <2>1 DEF Held
  <2>3. QED
    BY <2>2, DeliveredEntries DEF MemoryShape, Delivered, Acc, TypeOK
<1>2. dead' = dead \/ dead' = [dead EXCEPT ![focus[w]] = @ + 1]
  BY DEF Bury, BuryFails
<1>3. Bur' = Bur \/ Bur' = Bur \cup {focus[w]}
  <2>1. CASE dead' = dead
    BY <2>1 DEF Bur
  <2>2. CASE dead' = [dead EXCEPT ![focus[w]] = @ + 1]
    <3>1. \A m \in Entries : dead[m] \in Nat
      BY DEF TypeOK
    <3>2. \A m \in Entries :
             dead'[m] = IF m = focus[w] THEN dead[m] + 1 ELSE dead[m]
      BY <1>1, <2>2 DEF TypeOK
    <3>3. QED
      BY <1>1, <3>1, <3>2 DEF Bur
  <2>3. QED
    BY <1>2, <2>1, <2>2
<1>4. QED
  BY <1>1, <1>3 DEF Bury, BuryFails, Sto, Acked, Delivered

(* Each step of the consumer is one step of the abstract consumer, or none.*)
LEMMA StepRefines ==
    ASSUME IInv, IInv', [Next]_vars
    PROVE  [Delivery!Next]_(Delivery!vars)
<1> USE DEF IInv, Acc, Sto, Bur
<1>1. ASSUME Acc' = Acc, Sto' = Sto, Bur' = Bur, Acked' = Acked
      PROVE  [Delivery!Next]_(Delivery!vars)
  BY <1>1 DEF Delivery!vars
<1>2. Delivered \subseteq Acc /\ Acc \subseteq Entries /\ queued \in Nat
  BY ConfigAssumption DEF TypeOK, Delivered, Entries
<1>3. CASE Enqueue
  <2>1. queued + 1 \in Entries \ Acc /\ Acc' = Acc \cup {queued + 1}
    <3>1. /\ queued' = queued + 1 /\ queued < MaxEvents
          /\ queued \in Nat /\ MaxEvents \in Nat
      BY <1>2, <1>3, ConfigAssumption DEF Enqueue
    <3>2. queued + 1 \in Entries /\ queued + 1 \notin Acc
      BY <3>1 DEF Entries
    <3>3. Acc' = Acc \cup {queued + 1}
      BY <3>1
    <3>4. QED
      BY <3>2, <3>3
  <2>2. Sto' = Sto /\ Bur' = Bur /\ Acked' = Acked
    BY <1>3 DEF Enqueue, Acked, Delivered
  <2>3. Delivery!Accept(queued + 1)
    BY <2>1, <2>2 DEF Delivery!Accept
  <2>4. QED
    BY <2>1, <2>3 DEF Delivery!Next
<1>4. ASSUME NEW w \in Workers, Act(w) PROVE [Delivery!Next]_(Delivery!vars)
  <2>1. Acc' = Acc
    BY <1>4, StreamGrows
  <2>2. CASE Send(w) \/ SendFails(w)
    <3>1. Sto \subseteq Sto' /\ Bur' = Bur /\ Acked' = Acked
      BY <2>2, SendStores
    <3>2. PICK S : S = Sto'
      OBVIOUS
    <3>3. S \subseteq Acc /\ S \in SUBSET Entries /\ Sto' = Sto \cup S
      <4>1. \A m \in Entries \ Delivered' : rows'[m] = 0
        BY DEF UndeliveredUntouched
      <4>2. Delivered' \subseteq Acc
        BY <2>1 DEF Delivered, TypeOK
      <4>3. \A m \in Sto' : m \in Delivered'
        <5>1. \A m \in Sto' : m \in Entries /\ rows'[m] > 0
          OBVIOUS
        <5>2. QED
          BY <4>1, <5>1
      <4>4. S \subseteq Entries
        BY <3>2
      <4>5. S \subseteq Acc
        <5> HIDE DEF Acc, Sto
        <5>1. QED
          BY <3>2, <4>2, <4>3
      <4>6. Sto' = Sto \cup S
        BY <3>1, <3>2
      <4>7. QED
        BY <4>4, <4>5, <4>6
    <3>4. Delivery!Store(S)
      BY <2>1, <3>1, <3>3 DEF Delivery!Store
    <3>5. QED
      BY <3>3, <3>4 DEF Delivery!Next
  <2>3. CASE Bury(w) \/ BuryFails(w)
    <3>1. /\ Sto' = Sto /\ Acked' = Acked
          /\ Bur' = Bur \/ Bur' = Bur \cup {focus[w]}
          /\ focus[w] \in Acc
      BY <2>3, BuryBuries
    <3>2. CASE Bur' = Bur
      BY <1>1, <2>1, <3>1, <3>2
    <3>3. CASE Bur' = Bur \cup {focus[w]}
      <4>1. PICK m \in Entries : m = focus[w]
        BY <1>2, <3>1
      <4>2. Delivery!Bury(m)
        BY <2>1, <3>1, <3>3, <4>1 DEF Delivery!Bury
      <4>3. QED
        BY <4>2 DEF Delivery!Next
    <3>4. QED
      BY <3>1, <3>2, <3>3
  <2>4. CASE ~(Send(w) \/ SendFails(w) \/ Bury(w) \/ BuryFails(w))
    <3>1. rows' = rows /\ dead' = dead
      BY <1>4, <2>4, QuietSteps
    <3>2. Sto' = Sto /\ Bur' = Bur
      BY <3>1
    <3>3. PICK S : S = Acked'
      OBVIOUS
    <3>4. S \subseteq Sto \cup Bur /\ S \in SUBSET Entries
      <4>1. Acked' \subseteq Entries
        BY ConfigAssumption DEF Acked, Delivered, TypeOK, Entries
      <4>2. QED
        BY <3>1, <3>3, <4>1 DEF AckedHasOutcome, HasOutcome
    <3>5. Acked' = Acked \cup S
      BY <1>4, <3>3, AckedGrows
    <3>6. Delivery!Discharge(S)
      BY <2>1, <3>2, <3>4, <3>5 DEF Delivery!Discharge
    <3>7. QED
      BY <3>4, <3>6 DEF Delivery!Next
  <2>5. QED
    BY <2>2, <2>3, <2>4
<1>5. CASE UNCHANGED vars
  BY <1>1, <1>5 DEF vars, redis, Acked, Delivered
<1>6. QED
  BY <1>3, <1>4, <1>5 DEF Next, Act

(* Initial states map to initial states of MessageDelivery.                *)
LEMMA InitRefines == Init => Delivery!Init
<1> SUFFICES ASSUME Init PROVE Delivery!Init
  OBVIOUS
<1>1. 1 .. queued = {} /\ Acked = {}
  BY DEF Init, Acked, Delivered
<1>2. QED
  BY <1>1 DEF Init, Delivery!Init

(* The consumer keeps the promise of the abstract one: an entry is         *)
(* acknowledged only after it was stored or buried, outcomes are never     *)
(* taken back, and nothing that was not queued gets one.                   *)
THEOREM DeliveryImplemented == Spec => Implements
<1>1. IInv /\ IInv' /\ [Next]_vars => [Delivery!Next]_(Delivery!vars)
  BY StepRefines
<1>2. QED
  BY <1>1, InitRefines, Invariance, PTL DEF Spec, Implements, Delivery!Spec

-----------------------------------------------------------------------------
(* How far a batch outgrows BatchSize while ClickHouse fails.  The batch    *)
(* is let grow by one entry for every flush that fails, so that the entries *)
(* that have failed at most a flushes are fewer than BatchSize + a; and no  *)
(* entry stays after MaxRetries of them.                                    *)

(* The flushes an entry of the batch has failed, counted or still to be.    *)
Age(w, m) == attempts[m] + (IF m \in todo[w] THEN 1 ELSE 0)

Crowd(w, a) == {m \in batch[w] : Age(w, m) <= a}

Slack(w) == IF pc[w] \in {"send", "ack"} THEN 1 ELSE 0

Crowded(w) ==
    \A a \in Nat : Cardinality(Crowd(w, a)) < BatchSize + a + Slack(w)

(* An entry with MaxRetries failures is the one that is moved.              *)
Young(w) ==
    \A m \in batch[w] :
        \/ attempts[m] < MaxRetries
        \/ /\ pc[w] \in {"bury", "buryack"} /\ m = focus[w]
           /\ attempts[m] <= MaxRetries

(* Entries that no batch had yet have failed no flush.                      *)
NewInbox(w) == \A m \in inbox[w] : attempts[m] = 0

Unseen == \A m \in Entries \ Delivered : attempts[m] = 0

Growth ==
    redisFaults = 0 =>
        Unseen /\ \A w \in Workers : Crowded(w) /\ Young(w) /\ NewInbox(w)

(* Parts of a batch can be counted.                                         *)
LEMMA EntriesFinite == IsFiniteSet(Entries)
BY FS_Interval, ConfigAssumption DEF Entries

LEMMA CrowdFinite ==
    ASSUME TypeOK, NEW w \in Workers
    PROVE  /\ \A S \in SUBSET batch[w] : IsFiniteSet(S) /\ Cardinality(S) \in Nat
           /\ \A S, T \in SUBSET batch[w] :
                  S \subseteq T => Cardinality(S) <= Cardinality(T)
<1>1. IsFiniteSet(Entries)
  BY EntriesFinite
<1>2. batch[w] \subseteq Entries
  BY DEF TypeOK
<1>3. \A S \in SUBSET batch[w] : IsFiniteSet(S)
  BY <1>1, <1>2, FS_Subset
<1>4. QED
  BY <1>3, FS_Subset, FS_CardinalityType

(* A worker counts failures of entries that it holds, and not of those it   *)
(* has not looked at.                                                       *)
LEMMA AttemptsOfHeld ==
    ASSUME TypeOK, MemoryShape, NEW w \in Workers, Act(w)
    PROVE  \A m \in Entries : m \notin Held(w) \ inbox[w] => attempts'[m] = attempts[m]
<1> USE DEF TypeOK
<1>1. CASE Increment(w) \/ IncrementFails(w)
  <2>1. PICK m \in todo[w] :
          attempts' = attempts \/ attempts' = [attempts EXCEPT ![m] = @ + 1]
    BY <1>1 DEF Increment, IncrementFails
  <2>2. m \in Held(w) \ inbox[w]
    BY DEF MemoryShape, Held
  <2>3. QED
    BY <2>1, <2>2
<1>2. CASE BuryAck(w)
  <2>1. attempts' = attempts \/ attempts' = [attempts EXCEPT ![focus[w]] = 0]
    BY <1>2 DEF BuryAck
  <2>2. focus[w] \in Held(w) \ inbox[w]
    BY <1>2 DEF BuryAck, MemoryShape, Held
  <2>3. QED
    BY <2>1, <2>2
<1>3. CASE \/ Start(w) \/ Crash(w) \/ Shutdown(w) \/ Tick(w) \/ Read(w) \/ Handle(w)
           \/ Send(w) \/ SendFails(w) \/ Ack(w) \/ AckFails(w) \/ FlushFailed(w)
           \/ Bury(w) \/ BuryFails(w) \/ BuryAckFails(w)
  BY <1>3 DEF Start, Crash, Shutdown, Tick, Read, Handle, Send, SendFails, Ack, AckFails,
              FlushFailed, Bury, BuryFails, BuryAckFails, redis
<1>4. QED
  BY <1>1, <1>2, <1>3 DEF Act, Step

(* A batch that gets no entry, and in which no age goes down, is no more    *)
(* crowded.                                                                 *)
LEMMA CrowdKept ==
    ASSUME TypeOK, TypeOK', NEW w \in Workers, Crowded(w), batch'[w] \subseteq batch[w],
           \A m \in batch'[w] : Age(w, m)' >= Age(w, m),
           Slack(w)' >= Slack(w)
    PROVE  Crowded(w)'
<1> SUFFICES ASSUME NEW a \in Nat
             PROVE  Cardinality(Crowd(w, a)') < BatchSize + a + Slack(w)'
  BY DEF Crowded
<1>1. \A m \in batch'[w] : Age(w, m) \in Nat /\ Age(w, m)' \in Nat
  BY DEF Age, TypeOK
<1>2. Crowd(w, a)' \subseteq Crowd(w, a)
  BY <1>1 DEF Crowd
<1>3. Crowd(w, a) \subseteq batch[w]
  BY DEF Crowd
<1>4. /\ Cardinality(Crowd(w, a)') <= Cardinality(Crowd(w, a))
      /\ Cardinality(Crowd(w, a)') \in Nat /\ Cardinality(Crowd(w, a)) \in Nat
  BY <1>2, <1>3, CrowdFinite
<1>5. Cardinality(Crowd(w, a)) < BatchSize + a + Slack(w)
  BY DEF Crowded
<1>6. Slack(w) \in Nat /\ Slack(w)' \in Nat /\ BatchSize \in Nat
  BY ConfigAssumption DEF Slack
<1>7. QED
  BY <1>4, <1>5, <1>6

(* An empty batch is not crowded.                                           *)
LEMMA EmptyCrowd ==
    ASSUME NEW w \in Workers, batch'[w] = {}
    PROVE  Crowded(w)' /\ Young(w)'
<1>1. \A a : Crowd(w, a)' = {}
  BY DEF Crowd
<1>2. Cardinality({}) = 0 /\ Slack(w)' \in Nat
  BY FS_EmptySet DEF Slack
<1>3. Crowded(w)'
  BY <1>1, <1>2, ConfigAssumption DEF Crowded
<1>4. QED
  BY <1>3 DEF Young

(* The other workers' batches do not notice.                                *)
LEMMA OthersGrowth ==
    ASSUME IInv, TypeOK', NEW w \in Workers, Act(w), NEW v \in Workers, v # w,
           Crowded(v), Young(v), NewInbox(v)
    PROVE  Crowded(v)' /\ Young(v)' /\ NewInbox(v)'
<1>1. TypeOK /\ MemoryShape /\ HeldByOne
  BY DEF IInv
<1>2. /\ pc'[v] = pc[v] /\ inbox'[v] = inbox[v] /\ batch'[v] = batch[v]
      /\ todo'[v] = todo[v] /\ focus'[v] = focus[v]
  BY <1>1, OthersKeepMemory
<1>3. \A m \in inbox[v] \cup batch[v] : attempts'[m] = attempts[m]
  <2>1. inbox[v] \cup batch[v] \subseteq Entries
    BY <1>1 DEF TypeOK
  <2>2. \A m \in inbox[v] \cup batch[v] : m \notin Held(w)
    BY <1>1 DEF HeldByOne, Held
  <2>3. QED
    BY <1>1, <2>1, <2>2, AttemptsOfHeld
<1>4. \A m \in batch'[v] : Age(v, m)' = Age(v, m) /\ Age(v, m) \in Nat
  BY <1>1, <1>2, <1>3 DEF Age, TypeOK
<1>5. Slack(v)' = Slack(v) /\ Slack(v) \in Nat
  BY <1>2 DEF Slack
<1>6. Crowded(v)'
  BY <1>1, <1>2, <1>4, <1>5, CrowdKept
<1>7. Young(v)' /\ NewInbox(v)'
  BY <1>2, <1>3 DEF Young, NewInbox
<1>8. QED
  BY <1>6, <1>7

(* What was not looked at by the step has still failed no flush.            *)
LEMMA StepNew ==
    ASSUME IInv, NEW w \in Workers, Act(w), Unseen, NewInbox(w)
    PROVE  Unseen' /\ NewInbox(w)'
<1>1. TypeOK /\ MemoryShape
  BY DEF IInv
<1>2. \A m \in Entries \ Delivered : attempts'[m] = 0
  <2>1. Held(w) \subseteq Delivered
    BY <1>1 DEF MemoryShape
  <2>2. QED
    BY <1>1, <2>1, AttemptsOfHeld DEF Unseen
<1>3. \A m \in inbox[w] : attempts'[m] = 0
  <2>1. inbox[w] \subseteq Entries
    BY <1>1 DEF TypeOK
  <2>2. QED
    BY <1>1, <2>1, AttemptsOfHeld DEF NewInbox
<1>4. Unseen'
  BY <1>1, <1>2, StreamGrows DEF Unseen
<1>5. inbox'[w] \subseteq inbox[w] \cup (Entries \ Delivered)
  <2> USE DEF TypeOK
  <2>1. ASSUME Vanish(w) PROVE inbox'[w] = {}
    BY <1>1, <2>1 DEF Vanish
  <2>2. ASSUME NEW left, Return(w, left) PROVE inbox'[w] \subseteq inbox[w]
    BY <1>1, <2>1, <2>2 DEF Return
  <2>3. CASE Read(w)
    <3>1. Fresh(w) \cap Delivered = {}
      BY <1>1, <2>3, ReadIsFresh
    <3>2. Fresh(w) \subseteq Entries
      BY DEF Fresh
    <3>3. inbox'[w] \subseteq Fresh(w) \cup inbox[w]
      BY <1>1, <2>3 DEF Read
    <3>4. QED
      BY <3>1, <3>2, <3>3
  <2>4. CASE Crash(w) \/ Shutdown(w)
    BY <2>1, <2>4 DEF Crash, Shutdown
  <2>5. CASE Ack(w) \/ AckFails(w) \/ FlushFailed(w)
    BY <2>2, <2>5 DEF Ack, AckFails, FlushFailed
  <2>6. CASE Handle(w)
    BY <1>1, <2>6 DEF Handle
  <2>7. CASE \/ Start(w) \/ Tick(w) \/ Send(w) \/ SendFails(w)
             \/ Increment(w) \/ IncrementFails(w)
             \/ Bury(w) \/ BuryFails(w) \/ BuryAck(w) \/ BuryAckFails(w)
    BY <2>7 DEF Start, Tick, Send, SendFails, Increment, IncrementFails,
                Bury, BuryFails, BuryAck, BuryAckFails
  <2>8. QED
    BY <2>3, <2>4, <2>5, <2>6, <2>7 DEF Act, Step
<1>6. NewInbox(w)'
  BY <1>2, <1>3, <1>5 DEF NewInbox
<1>7. QED
  BY <1>4, <1>6

(* What flush leaves when it returns is no more crowded than what it had.   *)
LEMMA ReturnGrowth ==
    ASSUME TypeOK, TypeOK', NEW w \in Workers, NEW left \in SUBSET batch[w],
           Return(w, left), UNCHANGED attempts, todo[w] = {}, Slack(w) = 0 \/ left = {},
           pc[w] \notin {"bury", "buryack"}, Crowded(w), Young(w)
    PROVE  Crowded(w)' /\ Young(w)'
<1> USE DEF TypeOK
<1>1. CASE stopping[w] \/ left = {}
  <2>1. batch'[w] = {}
    BY <1>1 DEF Return, Vanish
  <2>2. QED
    BY <2>1, EmptyCrowd
<1>2. CASE ~stopping[w] /\ left # {}
  <2>1. pc'[w] = "run" /\ batch'[w] = left /\ todo'[w] = {}
    BY <1>2 DEF Return
  <2>2. Slack(w)' = 0 /\ Slack(w) = 0
    BY <1>2, <2>1 DEF Slack
  <2>3. \A m \in batch'[w] : Age(w, m)' = Age(w, m) /\ Age(w, m) \in Nat
    BY <2>1 DEF Age
  <2>4. Crowded(w)'
    BY <2>1, <2>2, <2>3, CrowdKept
  <2>5. Young(w)'
    BY <2>1 DEF Young
  <2>6. QED
    BY <2>4, <2>5
<1>3. QED
  BY <1>1, <1>2

(* The entry that joins the batch finds room in it, or fills it up.         *)
LEMMA HandleGrowth ==
    ASSUME IInv, TypeOK', NEW w \in Workers, Handle(w),
           Crowded(w), Young(w), NewInbox(w)
    PROVE  Crowded(w)' /\ Young(w)'
<1> USE DEF TypeOK
<1>1. TypeOK /\ MemoryShape
  BY DEF IInv
<1>2. PICK m \in inbox[w] :
        /\ pc[w] = "run"
        /\ IF m \in malformed
           THEN /\ focus' = [focus EXCEPT ![w] = m]
                /\ pc' = [pc EXCEPT ![w] = "bury"]
                /\ UNCHANGED batch
           ELSE /\ batch' = [batch EXCEPT ![w] = @ \cup {m}]
                /\ pc' = [pc EXCEPT ![w] =
                            IF Cardinality(batch[w] \cup {m}) >= BatchSize
                            THEN "send" ELSE "run"]
                /\ UNCHANGED focus
        /\ UNCHANGED <<attempts, todo>>
  BY DEF Handle, redis
<1>3. \A k \in Entries : Age(w, k)' = Age(w, k) /\ Age(w, k) \in Nat
  BY <1>1, <1>2 DEF Age
<1>4. CASE m \in malformed
  <2>1. batch'[w] = batch[w] /\ pc'[w] = "bury"
    BY <1>1, <1>2, <1>4
  <2>2. Slack(w)' = 0 /\ Slack(w) = 0
    BY <1>2, <2>1 DEF Slack
  <2>3. Crowded(w)'
    BY <1>1, <1>3, <2>1, <2>2, CrowdKept
  <2>4. Young(w)'
    BY <1>2, <2>1 DEF Young
  <2>5. QED
    BY <2>3, <2>4
<1>5. CASE m \notin malformed
  <2>1. /\ batch'[w] = batch[w] \cup {m}
        /\ pc'[w] = IF Cardinality(batch[w] \cup {m}) >= BatchSize THEN "send" ELSE "run"
        /\ m \notin batch[w] /\ m \in Entries
    BY <1>1, <1>2, <1>5 DEF MemoryShape
  <2>2. Young(w)'
    <3>1. attempts[m] = 0
      BY DEF NewInbox
    <3>2. QED
      BY <1>2, <2>1, <3>1, ConfigAssumption DEF Young
  <2>3. ASSUME NEW a \in Nat
        PROVE  Cardinality(Crowd(w, a)') < BatchSize + a + Slack(w)'
    <3>1. /\ Crowd(w, a) \subseteq batch[w]
          /\ Crowd(w, a)' \subseteq Crowd(w, a) \cup {m}
          /\ Crowd(w, a)' \subseteq batch'[w]
      BY <1>3, <2>1 DEF Crowd
    <3>2. /\ IsFiniteSet(batch[w]) /\ IsFiniteSet(Crowd(w, a))
          /\ Cardinality(Crowd(w, a)) \in Nat
          /\ IsFiniteSet(batch'[w]) /\ Cardinality(batch'[w]) \in Nat
      <4>1. IsFiniteSet(Entries)
        BY EntriesFinite
      <4>2. QED
        BY <1>1, <3>1, <4>1, CrowdFinite, FS_Subset, FS_CardinalityType
    <3>3. CASE Cardinality(batch'[w]) >= BatchSize
      <4>1. Slack(w)' = 1
        BY <2>1, <3>3 DEF Slack
      <4>2. m \notin Crowd(w, a)
        BY <2>1, <3>1
      <4>3. /\ IsFiniteSet(Crowd(w, a) \cup {m})
            /\ Cardinality(Crowd(w, a) \cup {m}) = Cardinality(Crowd(w, a)) + 1
        BY <3>2, <4>2, FS_AddElement
      <4>4. /\ Cardinality(Crowd(w, a)') <= Cardinality(Crowd(w, a)) + 1
            /\ Cardinality(Crowd(w, a)') \in Nat
        BY <3>1, <4>3, FS_Subset, FS_CardinalityType
      <4>5. Cardinality(Crowd(w, a)) < BatchSize + a
        BY <1>2, ConfigAssumption DEF Crowded, Slack
      <4>6. QED
        BY <3>2, <4>1, <4>4, <4>5, ConfigAssumption
    <3>4. CASE ~(Cardinality(batch'[w]) >= BatchSize)
      <4>1. Slack(w)' = 0
        BY <2>1, <3>4 DEF Slack
      <4>2. /\ Cardinality(Crowd(w, a)') <= Cardinality(batch'[w])
            /\ Cardinality(Crowd(w, a)') \in Nat
        BY <3>1, <3>2, FS_Subset, FS_CardinalityType
      <4>3. QED
        BY <3>2, <3>4, <4>1, <4>2, ConfigAssumption
    <3>5. QED
      BY <3>3, <3>4
  <2>4. QED
    BY <2>2, <2>3 DEF Crowded
<1>6. QED
  BY <1>4, <1>5

(* A flush that fails makes every entry of the batch a failure older.       *)
LEMMA SendFailsGrowth ==
    ASSUME IInv, TypeOK', NEW w \in Workers, SendFails(w), Crowded(w), Young(w)
    PROVE  Crowded(w)' /\ Young(w)'
<1> USE DEF TypeOK
<1>1. TypeOK /\ MemoryShape
  BY DEF IInv
<1>2. /\ pc[w] = "send" /\ pc'[w] = "retry" /\ batch'[w] = batch[w]
      /\ todo'[w] = batch[w] /\ UNCHANGED attempts
  BY <1>1 DEF SendFails, redis
<1>3. todo[w] = {}
  BY <1>1, <1>2 DEF MemoryShape
<1>4. Slack(w)' = 0 /\ Slack(w) = 1
  BY <1>2 DEF Slack
<1>5. \A m \in batch[w] : Age(w, m) = attempts[m] /\ Age(w, m)' = attempts[m] + 1
                          /\ attempts[m] \in Nat
  BY <1>1, <1>2, <1>3 DEF Age
<1>6. ASSUME NEW a \in Nat
      PROVE  Cardinality(Crowd(w, a)') < BatchSize + a + Slack(w)'
  <2>1. CASE a = 0
    <3>1. Crowd(w, a)' = {}
      BY <1>2, <1>5, <2>1 DEF Crowd
    <3>2. Cardinality(Crowd(w, a)') = 0
      BY <3>1, FS_EmptySet
    <3>3. BatchSize \in Nat /\ BatchSize > 0
      BY ConfigAssumption
    <3>4. QED
      BY <1>4, <2>1, <3>2, <3>3
  <2>2. CASE a # 0
    <3>1. a - 1 \in Nat
      BY <2>2
    <3>2. Crowd(w, a)' = Crowd(w, a - 1)
      BY <1>2, <1>5, <3>1 DEF Crowd
    <3>3. Cardinality(Crowd(w, a - 1)) < BatchSize + (a - 1) + 1
      BY <1>4, <3>1 DEF Crowded
    <3>4. QED
      BY <1>4, <3>2, <3>3, ConfigAssumption
  <2>3. QED
    BY <2>1, <2>2
<1>7. Crowded(w)'
  BY <1>6 DEF Crowded
<1>8. Young(w)'
  BY <1>2 DEF Young
<1>9. QED
  BY <1>7, <1>8

(* An entry that is counted is as old as it was; if it has failed too often *)
(* it is the one to be moved.                                               *)
LEMMA IncrementGrowth ==
    ASSUME IInv, TypeOK', NEW w \in Workers, Increment(w), Crowded(w), Young(w)
    PROVE  Crowded(w)' /\ Young(w)'
<1> USE DEF TypeOK
<1>1. TypeOK /\ MemoryShape
  BY DEF IInv
<1>2. PICK m \in todo[w] :
        /\ pc[w] = "retry"
        /\ todo' = [todo EXCEPT ![w] = @ \ {m}]
        /\ attempts' = [attempts EXCEPT ![m] = @ + 1]
        /\ IF attempts[m] + 1 >= MaxRetries
           THEN /\ focus' = [focus EXCEPT ![w] = m]
                /\ pc' = [pc EXCEPT ![w] = "bury"]
           ELSE UNCHANGED <<focus, pc>>
        /\ UNCHANGED batch
  BY DEF Increment
<1>3. m \in batch[w] /\ m \in Entries /\ batch[w] \subseteq Entries
  BY <1>1 DEF MemoryShape
<1>4. /\ todo'[w] = todo[w] \ {m} /\ batch'[w] = batch[w]
      /\ attempts'[m] = attempts[m] + 1 /\ attempts[m] \in Nat
      /\ \A k \in Entries : k # m => attempts'[k] = attempts[k]
  BY <1>1, <1>2, <1>3
<1>5. \A k \in batch'[w] : Age(w, k)' = Age(w, k) /\ Age(w, k) \in Nat
  BY <1>1, <1>3, <1>4 DEF Age
<1>6. pc'[w] \in {"retry", "bury"}
  BY <1>1, <1>2
<1>7. Slack(w)' = 0 /\ Slack(w) = 0
  BY <1>2, <1>6 DEF Slack
<1>8. Crowded(w)'
  BY <1>1, <1>4, <1>5, <1>7, CrowdKept
<1>9. \A k \in batch[w] : attempts[k] < MaxRetries
  BY <1>2 DEF Young
<1>10. Young(w)'
  <2>1. CASE attempts[m] + 1 >= MaxRetries
    <3>1. focus'[w] = m /\ pc'[w] = "bury"
      BY <1>1, <1>2, <2>1
    <3>2. attempts'[m] <= MaxRetries
      BY <1>3, <1>4, <1>9, ConfigAssumption
    <3>3. QED
      BY <1>3, <1>4, <1>9, <3>1, <3>2 DEF Young
  <2>2. CASE ~(attempts[m] + 1 >= MaxRetries)
    <3>1. attempts'[m] < MaxRetries
      BY <1>4, <2>2, ConfigAssumption
    <3>2. QED
      BY <1>3, <1>4, <1>9, <3>1 DEF Young
  <2>3. QED
    BY <2>1, <2>2
<1>11. QED
  BY <1>8, <1>10

(* The entry that is moved leaves the batch.                                *)
LEMMA BuryGrowth ==
    ASSUME IInv, TypeOK', NEW w \in Workers, Bury(w) \/ BuryAck(w), Crowded(w), Young(w)
    PROVE  Crowded(w)' /\ Young(w)'
<1> USE DEF TypeOK
<1>1. TypeOK /\ MemoryShape
  BY DEF IInv
<1>2. pc[w] \in {"bury", "buryack"} /\ UNCHANGED todo
  BY DEF Bury, BuryAck
<1>3. CASE Bury(w)
  <2>1. pc'[w] = "buryack" /\ batch'[w] = batch[w] /\ focus'[w] = focus[w] /\ UNCHANGED attempts
    BY <1>1, <1>3 DEF Bury
  <2>2. Slack(w)' = 0 /\ Slack(w) = 0
    BY <1>2, <2>1 DEF Slack
  <2>3. \A k \in batch'[w] : Age(w, k)' = Age(w, k) /\ Age(w, k) \in Nat
    BY <1>1, <1>2, <2>1 DEF Age
  <2>4. Crowded(w)'
    BY <1>1, <2>1, <2>2, <2>3, CrowdKept
  <2>5. Young(w)'
    BY <1>2, <2>1 DEF Young
  <2>6. QED
    BY <2>4, <2>5
<1>4. CASE BuryAck(w)
  <2>1. /\ pc'[w] \in {"retry", "run"} /\ batch'[w] = batch[w] \ {focus[w]}
        /\ \A k \in Entries : k # focus[w] => attempts'[k] = attempts[k]
    BY <1>1, <1>4 DEF BuryAck, AfterBury
  <2>2. Slack(w)' = 0 /\ Slack(w) = 0
    BY <1>2, <2>1 DEF Slack
  <2>3. \A k \in batch'[w] : attempts'[k] = attempts[k] /\ k \in Entries
    BY <1>1, <2>1
  <2>4. \A k \in batch'[w] : Age(w, k)' = Age(w, k) /\ Age(w, k) \in Nat
    BY <1>1, <1>2, <2>3 DEF Age
  <2>5. Crowded(w)'
    BY <1>1, <2>1, <2>2, <2>4, CrowdKept
  <2>6. Young(w)'
    BY <2>1, <2>3 DEF Young
  <2>7. QED
    BY <2>5, <2>6
<1>5. QED
  BY <1>3, <1>4

(* A step of the worker itself, as long as Redis works.                     *)
LEMMA OwnGrowth ==
    ASSUME IInv, TypeOK', NEW w \in Workers, Act(w), ~RedisFault,
           Crowded(w), Young(w), NewInbox(w)
    PROVE  Crowded(w)' /\ Young(w)'
<1> USE DEF TypeOK
<1>1. TypeOK /\ MemoryShape
  BY DEF IInv
<1>2. ASSUME Vanish(w) PROVE Crowded(w)' /\ Young(w)'
  <2>1. batch'[w] = {}
    BY <1>1, <1>2 DEF Vanish
  <2>2. QED
    BY <2>1, EmptyCrowd
<1>3. ASSUME batch'[w] = batch[w], todo'[w] = todo[w], UNCHANGED attempts,
             pc[w] \notin {"bury", "buryack"}, Slack(w)' >= Slack(w)
      PROVE  Crowded(w)' /\ Young(w)'
  <2>1. \A k \in batch'[w] : Age(w, k)' = Age(w, k) /\ Age(w, k) \in Nat
    BY <1>1, <1>3 DEF Age
  <2>2. Crowded(w)'
    BY <1>1, <1>3, <2>1, CrowdKept
  <2>3. Young(w)'
    BY <1>3 DEF Young
  <2>4. QED
    BY <2>2, <2>3
<1>4. CASE Crash(w)
  BY <1>2, <1>4 DEF Crash
<1>5. CASE Shutdown(w)
  <2>1. CASE batch[w] = {}
    BY <1>2, <1>5, <2>1 DEF Shutdown
  <2>2. CASE batch[w] # {}
    <3>1. /\ pc[w] = "run" /\ pc'[w] = "send" /\ batch'[w] = batch[w] /\ todo'[w] = todo[w]
          /\ UNCHANGED attempts
      BY <1>1, <1>5, <2>2 DEF Shutdown, AtSelect, redis
    <3>2. QED
      BY <1>3, <3>1 DEF Slack
  <2>3. QED
    BY <2>1, <2>2
<1>6. CASE Start(w) \/ Tick(w) \/ Read(w) \/ Send(w)
  <2>1. /\ batch'[w] = batch[w] /\ todo'[w] = todo[w] /\ UNCHANGED attempts
        /\ pc[w] \in {"off", "run", "send"}
        /\ pc[w] = "send" => pc'[w] = "ack"
    BY <1>1, <1>6 DEF Start, Tick, Read, Send, AtSelect, redis
  <2>2. Slack(w)' >= Slack(w)
    BY <2>1 DEF Slack
  <2>3. QED
    BY <1>3, <2>1, <2>2
<1>7. CASE Ack(w)
  <2>1. Return(w, {}) /\ UNCHANGED attempts /\ pc[w] = "ack"
    BY <1>7 DEF Ack
  <2>2. todo[w] = {}
    BY <1>1, <2>1 DEF MemoryShape
  <2>3. QED
    BY <1>1, <2>1, <2>2, ReturnGrowth
<1>8. CASE FlushFailed(w)
  <2>1. Return(w, batch[w]) /\ UNCHANGED attempts /\ pc[w] = "retry" /\ todo[w] = {}
    BY <1>8 DEF FlushFailed, redis
  <2>2. QED
    BY <1>1, <2>1, ReturnGrowth DEF Slack
<1>9. CASE Handle(w) \/ SendFails(w) \/ Increment(w) \/ Bury(w) \/ BuryAck(w)
  BY <1>9, HandleGrowth, SendFailsGrowth, IncrementGrowth, BuryGrowth
<1>10. ~(AckFails(w) \/ IncrementFails(w) \/ BuryFails(w) \/ BuryAckFails(w))
  BY DEF AckFails, IncrementFails, BuryFails, BuryAckFails
<1>11. QED
  BY <1>4, <1>5, <1>6, <1>7, <1>8, <1>9, <1>10 DEF Act, Step

(* Growth is inductive on top of the consumer's invariant.                  *)
LEMMA InitGrowth == Init => Growth
<1> SUFFICES ASSUME Init
             PROVE  Unseen /\ \A w \in Workers : Crowded(w) /\ Young(w) /\ NewInbox(w)
  BY DEF Growth
<1>1. ASSUME NEW w \in Workers PROVE Crowded(w) /\ Young(w) /\ NewInbox(w)
  <2>1. batch[w] = {} /\ inbox[w] = {}
    BY DEF Init
  <2>2. \A a : Crowd(w, a) = {}
    BY <2>1 DEF Crowd
  <2>3. Cardinality({}) = 0 /\ Slack(w) \in Nat
    BY FS_EmptySet DEF Slack
  <2>4. Crowded(w)
    BY <2>2, <2>3, ConfigAssumption DEF Crowded
  <2>5. QED
    BY <2>1, <2>4 DEF Young, NewInbox
<1>2. Unseen
  BY DEF Init, Unseen
<1>3. QED
  BY <1>1, <1>2

LEMMA NextGrowth == IInv /\ Growth /\ [Next]_vars => Growth'
<1> SUFFICES ASSUME IInv, Growth, [Next]_vars, redisFaults' = 0
             PROVE  Unseen' /\ \A w \in Workers : Crowded(w)' /\ Young(w)' /\ NewInbox(w)'
  BY DEF Growth
<1>1. TypeOK /\ IInv' /\ TypeOK'
  BY NextIInv DEF IInv
<1>2. CASE Enqueue \/ UNCHANGED vars
  <2>1. UNCHANGED <<cursor, attempts, pc, inbox, batch, todo, focus, redisFaults>>
    BY <1>2 DEF Enqueue, vars, redis, memory, mishap
  <2>2. QED
    BY <2>1 DEF Growth, Unseen, Delivered, Crowded, Crowd, Age, Slack, Young, NewInbox
<1>3. ASSUME NEW v \in Workers, Act(v)
      PROVE  Unseen' /\ \A w \in Workers : Crowded(w)' /\ Young(w)' /\ NewInbox(w)'
  <2>1. redisFaults = 0 /\ ~RedisFault
    BY <1>1, <1>3, FaultFree
  <2>2. Unseen /\ \A w \in Workers : Crowded(w) /\ Young(w) /\ NewInbox(w)
    BY <2>1 DEF Growth
  <2>3. Unseen' /\ NewInbox(v)'
    BY <1>3, <2>2, StepNew
  <2>4. Crowded(v)' /\ Young(v)'
    BY <1>1, <1>3, <2>1, <2>2, OwnGrowth
  <2>5. \A w \in Workers : w # v => Crowded(w)' /\ Young(w)' /\ NewInbox(w)'
    BY <1>1, <1>3, <2>2, OthersGrowth
  <2>6. QED
    BY <2>3, <2>4, <2>5
<1>4. QED
  BY <1>2, <1>3 DEF Next, Act

(* As long as Redis works a worker's batch stays below BatchSize plus       *)
(* MaxRetries, however long ClickHouse fails and the worker goes on reading.*)
THEOREM BatchesBounded == Spec => []BatchBounded
<1>1. IInv /\ Growth => BatchBounded
  <2> SUFFICES ASSUME IInv, Growth, redisFaults = 0, NEW w \in Workers
               PROVE  Cardinality(batch[w]) < BatchSize + MaxRetries
    BY DEF BatchBounded
  <2>1. TypeOK /\ MemoryShape /\ Crowded(w) /\ Young(w)
    BY DEF IInv, Growth
  <2>2. \A m \in batch[w] : attempts[m] \in Nat
    BY <2>1 DEF TypeOK
  <2>3. CASE pc[w] \in {"send", "ack"}
    <3>1. todo[w] = {} /\ Slack(w) = 1 /\ MaxRetries - 1 \in Nat
      BY <2>1, <2>3, ConfigAssumption DEF MemoryShape, Slack
    <3>2. \A m \in batch[w] : Age(w, m) <= MaxRetries - 1
      BY <2>1, <2>2, <2>3, <3>1, ConfigAssumption DEF Age, Young
    <3>3. Crowd(w, MaxRetries - 1) = batch[w]
      BY <3>2 DEF Crowd
    <3>4. Cardinality(batch[w]) < BatchSize + (MaxRetries - 1) + 1
      BY <2>1, <3>1, <3>3 DEF Crowded
    <3>5. QED
      BY <3>4, ConfigAssumption
  <2>4. CASE pc[w] \notin {"send", "ack"}
    <3>1. Slack(w) = 0 /\ MaxRetries \in Nat
      BY <2>4, ConfigAssumption DEF Slack
    <3>2. \A m \in batch[w] : Age(w, m) <= MaxRetries
      BY <2>1, <2>2, ConfigAssumption DEF Age, Young, MemoryShape
    <3>3. Crowd(w, MaxRetries) = batch[w]
      BY <3>2 DEF Crowd
    <3>4. Cardinality(batch[w]) < BatchSize + MaxRetries + 0
      BY <2>1, <3>1, <3>3 DEF Crowded
    <3>5. QED
      BY <3>4, ConfigAssumption
  <2>5. QED
    BY <2>3, <2>4
<1>2. Init => IInv /\ Growth
  BY InitIInv, InitGrowth
<1>3. IInv /\ Growth /\ [Next]_vars => (IInv /\ Growth)'
  BY NextIInv, NextGrowth
<1>4. QED
  BY <1>1, <1>2, <1>3, PTL DEF Spec

-----------------------------------------------------------------------------
(* Handling a reply, and a flush, end.                                     *)

(* How many calls of flush and moveMessageToDead are still to come, at     *)
(* most, until control is back in readOnce or at the select.               *)
FlushLeft(w) ==
    CASE pc[w] \in {"off", "halted", "run"} -> 0
      [] pc[w] = "ack"     -> 1
      [] pc[w] = "retry"   -> 3 * Cardinality(todo[w]) + 1
      [] pc[w] = "buryack" -> 3 * Cardinality(todo[w]) + 2
      [] pc[w] = "bury"    -> 3 * Cardinality(todo[w]) + 3
      [] pc[w] = "send"    -> 3 * Cardinality(batch[w]) + 2

(* The reply has fewer entries to look at, or it has those it had and the  *)
(* flush is nearer to its end.                                             *)
Advances(w) ==
    \/ Cardinality(inbox[w])' < Cardinality(inbox[w])
    \/ inbox[w]' = inbox[w] /\ FlushLeft(w)' < FlushLeft(w)

(* A worker moves only to start or to stop, to begin at the select when it *)
(* is through with all it has read, or towards that; nobody else moves it. *)
FlushEnds ==
    [][\A w \in Workers :
          \/ UNCHANGED <<pc[w], inbox[w], batch[w], todo[w], focus[w]>>
          \/ Start(w) \/ Crash(w)
          \/ AtSelect(w) /\ (Tick(w) \/ Read(w) \/ Shutdown(w))
          \/ Advances(w)]_vars

(* What a worker holds can be counted.                                     *)
LEMMA MemoryFinite ==
    ASSUME TypeOK, NEW w \in Workers
    PROVE  IsFiniteSet(inbox[w]) /\ IsFiniteSet(batch[w]) /\ IsFiniteSet(todo[w])
<1>1. inbox[w] \subseteq Entries /\ batch[w] \subseteq Entries /\ todo[w] \subseteq Entries
  BY DEF TypeOK
<1>2. QED
  BY <1>1, EntriesFinite, FS_Subset

(* The counts are numbers, and taking an entry lowers them by one.         *)
LEMMA MemoryCounts ==
    ASSUME TypeOK, NEW w \in Workers
    PROVE  /\ Cardinality(inbox[w]) \in Nat
           /\ Cardinality(batch[w]) \in Nat
           /\ Cardinality(todo[w]) \in Nat
           /\ \A m \in inbox[w] : Cardinality(inbox[w] \ {m}) = Cardinality(inbox[w]) - 1
           /\ \A m \in todo[w] : Cardinality(todo[w] \ {m}) = Cardinality(todo[w]) - 1
BY MemoryFinite, FS_CardinalityType, FS_RemoveElement

(* When flush returns the worker is at the select or gone, and its reply   *)
(* is what it was or gone with it.                                         *)
LEMMA ReturnAdvances ==
    ASSUME TypeOK, NEW w \in Workers, NEW left, Return(w, left), FlushLeft(w) \in Nat \ {0}
    PROVE  Advances(w)
<1>1. CASE stopping[w]
  <2>1. pc'[w] = "off" /\ inbox'[w] = {}
    BY <1>1 DEF Return, Vanish, TypeOK
  <2>2. FlushLeft(w)' = 0
    BY <2>1 DEF FlushLeft
  <2>3. CASE inbox[w] = {}
    BY <2>1, <2>2, <2>3 DEF Advances
  <2>4. CASE inbox[w] # {}
    <3>1. Cardinality(inbox[w]) \in Nat \ {0}
      BY <2>4, MemoryFinite, MemoryCounts, FS_EmptySet
    <3>2. Cardinality(inbox'[w]) = 0
      BY <2>1, FS_EmptySet
    <3>3. QED
      BY <3>1, <3>2 DEF Advances
  <2>5. QED
    BY <2>3, <2>4
<1>2. CASE ~stopping[w]
  <2>1. pc'[w] = "run" /\ inbox'[w] = inbox[w]
    BY <1>2 DEF Return, TypeOK
  <2>2. FlushLeft(w)' = 0
    BY <2>1 DEF FlushLeft
  <2>3. QED
    BY <2>1, <2>2 DEF Advances
<1>3. QED
  BY <1>1, <1>2

(* moveMessageToDead returns into handleFlushError or into readOnce.       *)
LEMMA AfterBuryAdvances ==
    ASSUME TypeOK, NEW w \in Workers, AfterBury(w), pc[w] \in {"bury", "buryack"},
           inbox' = inbox, todo' = todo
    PROVE  Advances(w)
<1>1. pc'[w] \in {"retry", "run"}
  BY DEF AfterBury, TypeOK
<1>2. FlushLeft(w)' \in {0, 3 * Cardinality(todo[w]) + 1}
  BY <1>1 DEF FlushLeft
<1>3. FlushLeft(w) \in {3 * Cardinality(todo[w]) + 2, 3 * Cardinality(todo[w]) + 3}
  BY DEF FlushLeft
<1>4. QED
  BY <1>2, <1>3, MemoryCounts DEF Advances

(* Every step of a goroutine that is not at the select advances.           *)
LEMMA StepAdvances ==
    ASSUME TypeOK, NEW w \in Workers, Step(w), ~Tick(w), ~Read(w)
    PROVE  Advances(w)
<1>1. CASE Handle(w)
  <2>1. PICK m \in inbox[w] : inbox'[w] = inbox[w] \ {m}
    BY <1>1 DEF Handle, TypeOK
  <2>2. QED
    BY <2>1, MemoryCounts DEF Advances
<1>2. CASE Send(w)
  <2>1. pc[w] = "send" /\ pc'[w] = "ack" /\ inbox' = inbox
    BY <1>2 DEF Send, TypeOK
  <2>2. FlushLeft(w) = 3 * Cardinality(batch[w]) + 2 /\ FlushLeft(w)' = 1
    BY <2>1 DEF FlushLeft
  <2>3. QED
    BY <2>1, <2>2, MemoryCounts DEF Advances
<1>3. CASE SendFails(w)
  <2>1. pc[w] = "send" /\ pc'[w] = "retry" /\ inbox' = inbox /\ todo'[w] = batch[w]
    BY <1>3 DEF SendFails, TypeOK
  <2>2. /\ FlushLeft(w) = 3 * Cardinality(batch[w]) + 2
        /\ FlushLeft(w)' = 3 * Cardinality(batch[w]) + 1
    BY <2>1 DEF FlushLeft
  <2>3. QED
    BY <2>1, <2>2, MemoryCounts DEF Advances
<1>4. CASE Ack(w) \/ AckFails(w)
  <2>1. pc[w] = "ack" /\ \E left : Return(w, left)
    BY <1>4 DEF Ack, AckFails
  <2>2. FlushLeft(w) = 1
    BY <2>1 DEF FlushLeft
  <2>3. QED
    BY <2>1, <2>2, ReturnAdvances
<1>5. CASE FlushFailed(w)
  <2>1. pc[w] = "retry" /\ \E left : Return(w, left)
    BY <1>5 DEF FlushFailed
  <2>2. FlushLeft(w) = 3 * Cardinality(todo[w]) + 1
    BY <2>1 DEF FlushLeft
  <2>3. QED
    BY <2>1, <2>2, ReturnAdvances, MemoryCounts
<1>6. CASE Increment(w) \/ IncrementFails(w)
  <2>1. PICK m \in todo[w] :
          /\ pc[w] = "retry" /\ pc'[w] \in {"retry", "bury"}
          /\ todo'[w] = todo[w] \ {m} /\ inbox' = inbox
    BY <1>6 DEF Increment, IncrementFails, TypeOK
  <2>2. /\ FlushLeft(w) = 3 * Cardinality(todo[w]) + 1
        /\ FlushLeft(w)' \in {3 * Cardinality(todo[w] \ {m}) + 1,
                              3 * Cardinality(todo[w] \ {m}) + 3}
    BY <2>1 DEF FlushLeft
  <2>3. /\ Cardinality(todo[w]) \in Nat
        /\ Cardinality(todo[w] \ {m}) = Cardinality(todo[w]) - 1
    BY MemoryCounts
  <2>4. FlushLeft(w)' < FlushLeft(w)
    BY <2>2, <2>3
  <2>5. QED
    BY <2>1, <2>4 DEF Advances
<1>7. CASE Bury(w)
  <2>1. pc[w] = "bury" /\ pc'[w] = "buryack" /\ inbox' = inbox /\ todo' = todo
    BY <1>7 DEF Bury, TypeOK
  <2>2. /\ FlushLeft(w) = 3 * Cardinality(todo[w]) + 3
        /\ FlushLeft(w)' = 3 * Cardinality(todo[w]) + 2
    BY <2>1 DEF FlushLeft
  <2>3. QED
    BY <2>1, <2>2, MemoryCounts DEF Advances
<1>8. CASE BuryFails(w) \/ BuryAck(w) \/ BuryAckFails(w)
  <2>1. /\ pc[w] \in {"bury", "buryack"} /\ AfterBury(w)
        /\ inbox' = inbox /\ todo' = todo
    BY <1>8 DEF BuryFails, BuryAck, BuryAckFails
  <2>2. QED
    BY <2>1, AfterBuryAdvances
<1>9. QED
  BY <1>1, <1>2, <1>3, <1>4, <1>5, <1>6, <1>7, <1>8 DEF Step

(* A worker comes to the end of what it has read, and of each flush, in a  *)
(* number of its own steps that is known when it begins, whichever calls   *)
(* fail: the variant behind BatchedSettles.                                *)
THEOREM FlushDoesEnd == Spec => FlushEnds
<1>1. TypeOK /\ [Next]_vars =>
        [\A w \in Workers :
            \/ UNCHANGED <<pc[w], inbox[w], batch[w], todo[w], focus[w]>>
            \/ Start(w) \/ Crash(w)
            \/ AtSelect(w) /\ (Tick(w) \/ Read(w) \/ Shutdown(w))
            \/ Advances(w)]_vars
  <2> SUFFICES ASSUME TypeOK, [Next]_vars, NEW w \in Workers
               PROVE  \/ UNCHANGED <<pc[w], inbox[w], batch[w], todo[w], focus[w]>>
                      \/ Start(w) \/ Crash(w)
                      \/ AtSelect(w) /\ (Tick(w) \/ Read(w) \/ Shutdown(w))
                      \/ Advances(w)
    OBVIOUS
  <2>1. CASE Enqueue \/ UNCHANGED vars
    BY <2>1 DEF Enqueue, vars, memory
  <2>2. ASSUME NEW v \in Workers, v # w, Act(v)
        PROVE  UNCHANGED <<pc[w], inbox[w], batch[w], todo[w], focus[w]>>
    BY <2>2, OthersKeepMemory
  <2>3. CASE Shutdown(w) \/ Tick(w) \/ Read(w)
    BY <2>3 DEF Shutdown, Tick, Read
  <2>4. CASE Step(w) /\ ~Tick(w) /\ ~Read(w)
    BY <2>4, StepAdvances
  <2>5. QED
    BY <2>1, <2>2, <2>3, <2>4 DEF Next, Act
<1>2. QED
  BY <1>1, TypeCorrect, PTL DEF Spec, FlushEnds

=============================================================================
