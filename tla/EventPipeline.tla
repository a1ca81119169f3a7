---------------------------- MODULE EventPipeline ----------------------------
(***************************************************************************)
(* The path of an analytics event from the Redis stream events:stream to   *)
(* ClickHouse: api/internal/worker/consumer.go.                            *)
(*                                                                         *)
(* Every worker process runs one goroutine (run) that reads new entries    *)
(* for the consumer group "woosaas-workers", collects them in an in-memory *)
(* batch and writes the batch to ClickHouse when it is full or when the    *)
(* flush ticker fires.  Entries are acknowledged after the write.  When    *)
(* the write fails each entry's retry key is incremented, and an entry     *)
(* that has failed MaxRetries times is moved to events:dead.               *)
(*                                                                         *)
(* Redis keeps the entries a consumer was given and has not acknowledged   *)
(* in the group's pending entries list (pel).  The code reads with ">"     *)
(* only, so nothing ever takes an entry out of that list again except the  *)
(* worker that still holds it in memory.                                   *)
(*                                                                         *)
(* An entry is its position in the stream.  Each Redis or ClickHouse call  *)
(* is a step of its own: other workers, clients and crashes come between.  *)
(***************************************************************************)
EXTENDS Integers, FiniteSets

CONSTANTS
    Workers,           \* replicas of cmd/worker
    BatchSize,         \* Config.BatchSize
    MaxRetries,        \* Config.MaxRetries
    MaxEvents,         \* bound: entries ever appended to events:stream
    MaxSinkFaults,     \* bound: flushes ClickHouse reports as failed
    MaxGhostWrites,    \* bound: failed flushes of which ClickHouse kept rows
    MaxRedisFaults,    \* bound: Redis commands that report an error
    MaxStops           \* bound: crashes and shutdowns of worker processes

ASSUME ConfigAssumption ==
    /\ BatchSize \in Nat \ {0}
    /\ MaxRetries \in Nat \ {0}
    /\ MaxEvents \in Nat

ASSUME BoundAssumption ==
    /\ MaxSinkFaults \in Nat
    /\ MaxGhostWrites \in Nat
    /\ MaxRedisFaults \in Nat
    /\ MaxStops \in Nat

VARIABLES
    queued,            \* last entry appended to events:stream
    malformed,         \* entries parseMessage rejects
    cursor,            \* last entry delivered to the consumer group
    pel,               \* delivered entries that are not acknowledged
    attempts,          \* the keys events:stream:retry:<id>
    dead,              \* copies of each entry in events:dead
    rows,              \* rows of each entry in analytics_events
    pc,                \* where each worker's goroutine is
    inbox,             \* entries of the last reply, not yet looked at
    batch,             \* eventBatchWriter.events
    todo,              \* entries handleFlushError has still to visit
    focus,             \* the entry moveMessageToDead works on
    stopping,          \* the flush under way is the one before run returns
    sinkFaults, ghostWrites, redisFaults, stops   \* what has gone wrong

redis  == <<queued, malformed, cursor, pel, attempts, dead>>
memory == <<pc, inbox, batch, todo, focus, stopping>>
mishap == <<sinkFaults, ghostWrites, redisFaults, stops>>
vars   == <<redis, rows, memory, mishap>>

Entries == 1 .. MaxEvents

NoEntry == 0

Places == {"off", "halted", "run", "send", "ack", "retry", "bury", "buryack"}

Oldest(m, S) == m \in S /\ \A k \in S : m <= k

(* A Redis command reported an error: the bound on how often it may.       *)
RedisFault ==
    /\ redisFaults < MaxRedisFaults
    /\ redisFaults' = redisFaults + 1
    /\ UNCHANGED <<sinkFaults, ghostWrites, stops>>

Init ==
    /\ queued = 0
    /\ malformed = {}
    /\ cursor = 0
    /\ pel = {}
    /\ attempts = [m \in Entries |-> 0]
    /\ dead = [m \in Entries |-> 0]
    /\ rows = [m \in Entries |-> 0]
    /\ pc = [w \in Workers |-> "off"]
    /\ inbox = [w \in Workers |-> {}]
    /\ batch = [w \in Workers |-> {}]
    /\ todo = [w \in Workers |-> {}]
    /\ focus = [w \in Workers |-> NoEntry]
    /\ stopping = [w \in Workers |-> FALSE]
    /\ sinkFaults = 0
    /\ ghostWrites = 0
    /\ redisFaults = 0
    /\ stops = 0

-----------------------------------------------------------------------------
(* The producer: Collector.CollectEvent appends an entry.                  *)
Enqueue ==
    /\ queued < MaxEvents
    /\ queued' = queued + 1
    /\ \/ UNCHANGED malformed
       \/ malformed' = malformed \cup {queued + 1}
    /\ UNCHANGED <<cursor, pel, attempts, dead, rows, memory, mishap>>

-----------------------------------------------------------------------------
(* Process start: run first makes sure the consumer group exists.  If that *)
(* fails run returns and the process lives on without consuming.           *)
Start(w) ==
    /\ pc[w] = "off"
    /\ \/ /\ pc' = [pc EXCEPT ![w] = "run"]
          /\ UNCHANGED mishap
       \/ /\ RedisFault
          /\ pc' = [pc EXCEPT ![w] = "halted"]
    /\ UNCHANGED <<redis, rows, inbox, batch, todo, focus, stopping>>

(* The process is gone and with it everything the goroutine held.          *)
Vanish(w) ==
    /\ pc' = [pc EXCEPT ![w] = "off"]
    /\ inbox' = [inbox EXCEPT ![w] = {}]
    /\ batch' = [batch EXCEPT ![w] = {}]
    /\ todo' = [todo EXCEPT ![w] = {}]
    /\ focus' = [focus EXCEPT ![w] = NoEntry]
    /\ stopping' = [stopping EXCEPT ![w] = FALSE]

(* A crash at any point, or main returning after cancel(): it does not     *)
(* wait for the goroutine.                                                 *)
Crash(w) ==
    /\ pc[w] # "off"
    /\ stops < MaxStops
    /\ stops' = stops + 1
    /\ Vanish(w)
    /\ UNCHANGED <<redis, rows, sinkFaults, ghostWrites, redisFaults>>

(* The goroutine is back at the select of run.                             *)
AtSelect(w) == pc[w] = "run" /\ inbox[w] = {}

(* ctx.Done() or stopCh: a last flush, then run returns.                   *)
Shutdown(w) ==
    /\ AtSelect(w)
    /\ stops < MaxStops
    /\ stops' = stops + 1
    /\ IF batch[w] = {}
       THEN Vanish(w)
       ELSE /\ pc' = [pc EXCEPT ![w] = "send"]
            /\ stopping' = [stopping EXCEPT ![w] = TRUE]
            /\ UNCHANGED <<inbox, batch, todo, focus>>
    /\ UNCHANGED <<redis, rows, sinkFaults, ghostWrites, redisFaults>>

(* Mutant: the ticker leaves a partial batch alone.                        *)
TickWhenFull(w) ==
    /\ AtSelect(w)
    /\ Cardinality(batch[w]) >= BatchSize
    /\ pc' = [pc EXCEPT ![w] = "send"]
    /\ UNCHANGED <<redis, rows, inbox, batch, todo, focus, stopping, mishap>>

(* The ticker fires; flush returns at once on an empty batch.              *)
Tick(w) ==
    /\ AtSelect(w)
    /\ batch[w] # {}
    /\ pc' = [pc EXCEPT ![w] = "send"]
    /\ UNCHANGED <<redis, rows, inbox, batch, todo, focus, stopping, mishap>>

-----------------------------------------------------------------------------
(* readOnce asks for as many entries as the batch has room for, and for a  *)
(* whole batch when it has none.                                           *)
Room(w) ==
    LET free == BatchSize - Cardinality(batch[w])
    IN  IF free > 0 THEN free ELSE BatchSize

(* Mutant: entries that are pending elsewhere are claimed as well.         *)
FreshOrClaimed(w) ==
    {m \in 1 .. queued :
        \/ cursor < m /\ m <= cursor + Room(w)
        \/ m \in pel \ (inbox[w] \cup batch[w])}

(* The entries XREADGROUP ">" returns.                                     *)
Fresh(w) ==
    {m \in Entries : cursor < m /\ m <= cursor + Room(w) /\ m <= queued}

(* XREADGROUP delivers new entries; when its reply is lost the group has   *)
(* them as delivered all the same and readOnce returns without them.       *)
Read(w) ==
    /\ AtSelect(w)
    /\ Fresh(w) # {}
    /\ cursor' = IF cursor + Room(w) <= queued THEN cursor + Room(w) ELSE queued
    /\ pel' = pel \cup Fresh(w)
    /\ \/ /\ inbox' = [inbox EXCEPT ![w] = Fresh(w)]
          /\ UNCHANGED mishap
       \/ /\ RedisFault
          /\ UNCHANGED inbox
    /\ UNCHANGED <<queued, malformed, attempts, dead, rows,
                   pc, batch, todo, focus, stopping>>

(* The body of readOnce's loop, for the next entry of the reply.           *)
Handle(w) ==
    /\ pc[w] = "run"
    /\ \E m \in inbox[w] :
        /\ Oldest(m, inbox[w])
        /\ inbox' = [inbox EXCEPT ![w] = @ \ {m}]
        /\ IF m \in malformed
           THEN /\ focus' = [focus EXCEPT ![w] = m]
                /\ pc' = [pc EXCEPT ![w] = "bury"]
                /\ UNCHANGED batch
           ELSE /\ batch' = [batch EXCEPT ![w] = @ \cup {m}]
                /\ pc' = [pc EXCEPT ![w] =
                            IF Cardinality(batch[w] \cup {m}) >= BatchSize
                            THEN "send" ELSE "run"]
                /\ UNCHANGED focus
    /\ UNCHANGED <<redis, rows, todo, stopping, mishap>>

-----------------------------------------------------------------------------
(* flush.  Where control goes when it returns, with what is left of the    *)
(* batch: back to the caller, or out of run when this was the last flush.  *)
Return(w, left) ==
    IF stopping[w]
    THEN Vanish(w)
    ELSE /\ pc' = [pc EXCEPT ![w] = "run"]
         /\ batch' = [batch EXCEPT ![w] = left]
         /\ UNCHANGED <<inbox, todo, focus, stopping>>

Insert(S) == rows' = [m \in Entries |-> rows[m] + (IF m \in S THEN 1 ELSE 0)]

(* PrepareBatch, Append and Send succeed.                                  *)
Send(w) ==
    /\ pc[w] = "send"
    /\ Insert(batch[w])
    /\ pc' = [pc EXCEPT ![w] = "ack"]
    /\ UNCHANGED <<redis, inbox, batch, todo, focus, stopping, mishap>>

(* One of them reports an error; ClickHouse may have kept some of the rows *)
(* (the insert is not atomic across partitions, and its answer can be      *)
(* lost).                                                                  *)
SendFails(w) ==
    /\ pc[w] = "send"
    /\ sinkFaults < MaxSinkFaults
    /\ sinkFaults' = sinkFaults + 1
    /\ \E kept \in SUBSET batch[w] :
        /\ ghostWrites' = IF kept = {} THEN ghostWrites ELSE ghostWrites + 1
        /\ ghostWrites' <= MaxGhostWrites
        /\ Insert(kept)
    /\ todo' = [todo EXCEPT ![w] = batch[w]]
    /\ pc' = [pc EXCEPT ![w] = "retry"]
    /\ UNCHANGED <<redis, inbox, batch, focus, stopping, redisFaults, stops>>

(* Mutant: the batch is not emptied after a successful flush.              *)
AckKeepsBatch(w) ==
    /\ pc[w] = "ack"
    /\ pel' = pel \ batch[w]
    /\ Return(w, batch[w])
    /\ UNCHANGED <<queued, malformed, cursor, attempts, dead, rows, mishap>>

(* XACK of the whole batch.                                                *)
Ack(w) ==
    /\ pc[w] = "ack"
    /\ pel' = pel \ batch[w]
    /\ Return(w, {})
    /\ UNCHANGED <<queued, malformed, cursor, attempts, dead, rows, mishap>>

(* XACK fails (it may have been applied): flush returns before it empties  *)
(* the batch, and the next flush sends the same entries again.             *)
AckFails(w) ==
    /\ pc[w] = "ack"
    /\ RedisFault
    /\ \/ UNCHANGED pel
       \/ pel' = pel \ batch[w]
    /\ Return(w, batch[w])
    /\ UNCHANGED <<queued, malformed, cursor, attempts, dead, rows>>

-----------------------------------------------------------------------------
(* Mutant: the limit is compared with the number of retries to come, which *)
(* gives an entry up one failure early (ahead = 1) or late (ahead = -1).   *)
IncrementOffBy(w, ahead) ==
    /\ pc[w] = "retry"
    /\ \E m \in todo[w] :
        /\ Oldest(m, todo[w])
        /\ todo' = [todo EXCEPT ![w] = @ \ {m}]
        /\ attempts' = [attempts EXCEPT ![m] = @ + 1]
        /\ IF attempts[m] + 1 + ahead >= MaxRetries
           THEN /\ focus' = [focus EXCEPT ![w] = m]
                /\ pc' = [pc EXCEPT ![w] = "bury"]
           ELSE UNCHANGED <<focus, pc>>
    /\ UNCHANGED <<queued, malformed, cursor, pel, dead, rows,
                   inbox, batch, stopping, mishap>>

IncrementEarly(w) == IncrementOffBy(w, 1)
IncrementLate(w)  == IncrementOffBy(w, -1)

(* handleFlushError.  incrementRetry of the next entry: it is kept in the  *)
(* batch, or has failed often enough to be moved to the dead letters.      *)
Increment(w) ==
    /\ pc[w] = "retry"
    /\ \E m \in todo[w] :
        /\ Oldest(m, todo[w])
        /\ todo' = [todo EXCEPT ![w] = @ \ {m}]
        /\ attempts' = [attempts EXCEPT ![m] = @ + 1]
        /\ IF attempts[m] + 1 >= MaxRetries
           THEN /\ focus' = [focus EXCEPT ![w] = m]
                /\ pc' = [pc EXCEPT ![w] = "bury"]
           ELSE UNCHANGED <<focus, pc>>
    /\ UNCHANGED <<queued, malformed, cursor, pel, dead, rows,
                   inbox, batch, stopping, mishap>>

(* INCR fails (it may have been applied): the entry is kept.               *)
IncrementFails(w) ==
    /\ pc[w] = "retry"
    /\ RedisFault
    /\ \E m \in todo[w] :
        /\ Oldest(m, todo[w])
        /\ todo' = [todo EXCEPT ![w] = @ \ {m}]
        /\ \/ UNCHANGED attempts
           \/ attempts' = [attempts EXCEPT ![m] = @ + 1]
    /\ UNCHANGED <<queued, malformed, cursor, pel, dead, rows,
                   pc, inbox, batch, focus, stopping>>

(* Mutants: a failed flush drops the entries it should keep, or            *)
(* acknowledges them.                                                      *)
FlushDiscards(w) ==
    /\ pc[w] = "retry"
    /\ todo[w] = {}
    /\ Return(w, {})
    /\ UNCHANGED <<redis, rows, mishap>>

FlushAcksKept(w) ==
    /\ pc[w] = "retry"
    /\ todo[w] = {}
    /\ pel' = pel \ batch[w]
    /\ Return(w, batch[w])
    /\ UNCHANGED <<queued, malformed, cursor, attempts, dead, rows, mishap>>

(* All entries visited: b.events = kept, and flush returns the error.      *)
FlushFailed(w) ==
    /\ pc[w] = "retry"
    /\ todo[w] = {}
    /\ Return(w, batch[w])
    /\ UNCHANGED <<redis, rows, mishap>>

(* moveMessageToDead is called by handleFlushError for an entry of the     *)
(* batch and by readOnce for one that did not parse; this is where it      *)
(* returns to.                                                             *)
AfterBury(w) ==
    /\ pc' = [pc EXCEPT ![w] = IF focus[w] \in batch[w] THEN "retry" ELSE "run"]
    /\ focus' = [focus EXCEPT ![w] = NoEntry]

(* XADD events:dead.                                                       *)
Bury(w) ==
    /\ pc[w] = "bury"
    /\ dead' = [dead EXCEPT ![focus[w]] = @ + 1]
    /\ pc' = [pc EXCEPT ![w] = "buryack"]
    /\ UNCHANGED <<queued, malformed, cursor, pel, attempts, rows,
                   inbox, batch, todo, focus, stopping, mishap>>

(* Mutant: the error of XADD is not returned and XACK follows.             *)
BuryIgnoresError(w) ==
    /\ pc[w] = "bury"
    /\ RedisFault
    /\ pc' = [pc EXCEPT ![w] = "buryack"]
    /\ UNCHANGED <<redis, rows, inbox, batch, todo, focus, stopping>>

BuryFails(w) ==
    /\ pc[w] = "bury"
    /\ RedisFault
    /\ \/ UNCHANGED dead
       \/ dead' = [dead EXCEPT ![focus[w]] = @ + 1]
    /\ AfterBury(w)
    /\ UNCHANGED <<queued, malformed, cursor, pel, attempts, rows,
                   inbox, batch, todo, stopping>>

(* XACK of the buried entry and DEL of its retry key, whose error is       *)
(* ignored; the entry leaves the batch.                                    *)
BuryAck(w) ==
    /\ pc[w] = "buryack"
    /\ pel' = pel \ {focus[w]}
    /\ \/ /\ attempts' = [attempts EXCEPT ![focus[w]] = 0]
          /\ UNCHANGED mishap
       \/ /\ RedisFault
          /\ UNCHANGED attempts
    /\ batch' = [batch EXCEPT ![w] = @ \ {focus[w]}]
    /\ AfterBury(w)
    /\ UNCHANGED <<queued, malformed, cursor, dead, rows,
                   inbox, todo, stopping>>

(* XACK fails (it may have been applied): an entry of the batch is kept    *)
(* although events:dead has it.                                            *)
BuryAckFails(w) ==
    /\ pc[w] = "buryack"
    /\ RedisFault
    /\ \/ UNCHANGED pel
       \/ pel' = pel \ {focus[w]}
    /\ AfterBury(w)
    /\ UNCHANGED <<queued, malformed, cursor, attempts, dead, rows,
                   inbox, batch, todo, stopping>>

-----------------------------------------------------------------------------
(* What a live goroutine does next by itself.                              *)
Step(w) ==
    \/ Tick(w) \/ Read(w) \/ Handle(w)
    \/ Send(w) \/ SendFails(w) \/ Ack(w) \/ AckFails(w)
    \/ Increment(w) \/ IncrementFails(w) \/ FlushFailed(w)
    \/ Bury(w) \/ BuryFails(w) \/ BuryAck(w) \/ BuryAckFails(w)

Next ==
    \/ Enqueue
    \/ \E w \in Workers : Start(w) \/ Crash(w) \/ Shutdown(w) \/ Step(w)

Spec == Init /\ [][Next]_vars

(* A started worker keeps running, and the container runtime starts it     *)
(* again after it stopped.  Nothing obliges clients to send, and nothing   *)
(* restarts a process whose goroutine returned from run.                   *)
Fairness == \A w \in Workers : WF_vars(Step(w)) /\ WF_vars(Start(w))

FairSpec == Spec /\ Fairness

-----------------------------------------------------------------------------
Delivered == 1 .. cursor

Acked == Delivered \ pel

(* What the goroutine of w still has in memory.                            *)
Held(w) ==
    inbox[w] \cup batch[w]
        \cup (IF pc[w] \in {"bury", "buryack"} THEN {focus[w]} ELSE {})

(* Delivered, not acknowledged and in nobody's memory.                     *)
Stranded(m) == m \in pel /\ \A w \in Workers : m \notin Held(w)

HasOutcome(m) == rows[m] > 0 \/ dead[m] > 0

(* Type invariant of the consumer's state.                                 *)
TypeOK ==
    /\ queued \in 0 .. MaxEvents
    /\ malformed \subseteq Entries
    /\ cursor \in 0 .. queued
    /\ pel \subseteq Entries
    /\ attempts \in [Entries -> Nat]
    /\ dead \in [Entries -> Nat]
    /\ rows \in [Entries -> Nat]
    /\ pc \in [Workers -> Places]
    /\ inbox \in [Workers -> SUBSET Entries]
    /\ batch \in [Workers -> SUBSET Entries]
    /\ todo \in [Workers -> SUBSET Entries]
    /\ focus \in [Workers -> Entries \cup {NoEntry}]
    /\ stopping \in [Workers -> BOOLEAN]
    /\ sinkFaults \in 0 .. MaxSinkFaults
    /\ ghostWrites \in 0 .. MaxGhostWrites
    /\ redisFaults \in 0 .. MaxRedisFaults
    /\ stops \in 0 .. MaxStops

(* flush and moveMessageToDead acknowledge only what they have stored or   *)
(* copied to events:dead: an acknowledged event is never lost, whatever    *)
(* crashes or fails in between.                                            *)
AckedHasOutcome == \A m \in Acked : HasOutcome(m)

(* The consumer group hands an entry to one worker, and no failure path    *)
(* puts it into the memory of a second one.                                *)
HeldByOne ==
    \A w, v \in Workers : w # v => Held(w) \cap Held(v) = {}

(* Duplicates: an event has one outcome, plus at most one more for every   *)
(* Redis command that reported an error and every failed flush of which    *)
(* ClickHouse kept rows.  In particular crashes and cleanly failing        *)
(* flushes never duplicate an event, nor store one that is also buried.    *)
OutcomesBounded ==
    \A m \in Entries : rows[m] + dead[m] <= 1 + redisFaults + ghostWrites

(* handleFlushError gives an event up only after MaxRetries flushes have   *)
(* failed: no Redis error or crash makes a well-formed event reach         *)
(* events:dead earlier.                                                    *)
DeadLetterEarned ==
    \A m \in Entries \ malformed : dead[m] > 0 => sinkFaults >= MaxRetries

(* The batch outgrows BatchSize while ClickHouse fails (readOnce goes on   *)
(* reading), but as long as Redis works the retry limit caps the excess.   *)
BatchBounded ==
    redisFaults = 0 =>
        \A w \in Workers : Cardinality(batch[w]) < BatchSize + MaxRetries

(* readOnce reads with ">" only: an entry whose worker stopped or lost the *)
(* reply stays pending for good, and keeps the outcomes it has.            *)
StrandedForGood ==
    [][\A m \in Entries :
        Stranded(m) => Stranded(m)' /\ UNCHANGED <<rows[m], dead[m], attempts[m]>>]_vars

(* The promise of a stream consumer, which this module implements.         *)
Delivery == INSTANCE MessageDelivery WITH
    accepted   <- 1 .. queued,
    stored     <- {m \in Entries : rows[m] > 0},
    buried     <- {m \in Entries : dead[m] > 0},
    discharged <- Acked

Implements == Delivery!Spec

(* Every event in a batch is eventually stored or buried, unless its       *)
(* worker stops first: neither a run of failing flushes nor failing retry  *)
(* counters starve an event that is in memory.                             *)
BatchedSettles ==
    \A m \in Entries, w \in Workers :
        (m \in batch[w]) ~> (HasOutcome(m) \/ pc[w] = "off")

(* As long as processes and Redis work, every event that was queued is     *)
(* eventually stored or buried and acknowledged.                           *)
QueuedSettles ==
    \A m \in Entries :
        (m <= queued) ~> (m \in Acked \/ redisFaults > 0 \/ stops > 0)

-----------------------------------------------------------------------------
(* The inductive invariant behind the safety properties.                   *)

(* What a goroutine's memory looks like: entries it holds were delivered,  *)
(* an entry is in one place, entries that do not parse never enter a       *)
(* batch, and handleFlushError visits entries of the batch.                *)
MemoryShape ==
    \A w \in Workers :
        /\ Held(w) \subseteq Delivered
        /\ inbox[w] \cap batch[w] = {}
        /\ batch[w] \cap malformed = {}
        /\ todo[w] \subseteq batch[w]
        /\ todo[w] # {} => pc[w] \in {"retry", "bury", "buryack"}
        /\ pc[w] \in {"bury", "buryack"} =>
              /\ focus[w] \in batch[w] \/ (focus[w] \in malformed /\ todo[w] = {})
              /\ focus[w] \notin inbox[w] \cup todo[w]

(* Nothing has happened to an entry that was not delivered yet.            *)
UndeliveredUntouched ==
    /\ pel \subseteq Delivered
    /\ malformed \subseteq 1 .. queued
    /\ \A m \in Entries \ Delivered : rows[m] = 0 /\ dead[m] = 0

(* The goroutine of w has just given m an outcome it has not acknowledged. *)
JustWritten(w, m) ==
    \/ pc[w] = "ack" /\ m \in batch[w]
    \/ pc[w] = "buryack" /\ m = focus[w]

(* An entry in memory has only the outcomes faults account for, and one    *)
(* more while it waits for the acknowledgement that follows a write.       *)
HeldOutcomes ==
    \A w \in Workers : \A m \in Held(w) :
        /\ rows[m] + dead[m] <=
              redisFaults + ghostWrites + (IF JustWritten(w, m) THEN 1 ELSE 0)
        /\ JustWritten(w, m) => HasOutcome(m)

(* A retry key counts failed flushes, and those of the entries still to be *)
(* visited do not count the last one yet.                                  *)
RetryKeys ==
    /\ \A m \in Entries : attempts[m] <= sinkFaults
    /\ \A w \in Workers :
          /\ \A m \in todo[w] : attempts[m] < sinkFaults
          /\ pc[w] \in {"bury", "buryack"} /\ focus[w] \notin malformed
                => sinkFaults >= MaxRetries

IInv ==
    /\ TypeOK
    /\ HeldByOne
    /\ MemoryShape
    /\ UndeliveredUntouched
    /\ HeldOutcomes
    /\ RetryKeys
    /\ AckedHasOutcome
    /\ OutcomesBounded
    /\ DeadLetterEarned

=============================================================================
