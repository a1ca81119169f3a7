---------------------------- MODULE OrderConsumer ----------------------------
(***************************************************************************)
(* The path of an order snapshot from the Redis stream orders:stream to    *)
(* PostgreSQL, and of the purchase event derived from it back to           *)
(* events:stream: processOrderMessage and bridgeAnalyticsPurchase of       *)
(* api/internal/worker/consumer.go, with the repository operations of      *)
(* api/internal/orders they call.                                          *)
(*                                                                         *)
(* The goroutine that consumes events (EventPipeline) reads both streams;  *)
(* here its event batch shows only in how many order messages one read     *)
(* asks for.  A message is its position in the stream.  Each PostgreSQL    *)
(* transaction and each Redis command is a step of its own.                *)
(***************************************************************************)
EXTENDS Integers, Sequences, FiniteSets

CONSTANTS
    Workers,           \* replicas of cmd/worker
    Orders,            \* orders of the site
    BatchSize,         \* Config.BatchSize
    MaxRetries,        \* Config.MaxRetries
    MaxMessages,       \* bound: messages ever appended to orders:stream
    MaxFaults,         \* bound: PostgreSQL or Redis calls that report an error
    MaxStops,          \* bound: processes that stop
    MaxExpiries        \* bound: dedupe keys that reach their TTL

ASSUME ConfigAssumption ==
    /\ BatchSize \in Nat \ {0}
    /\ MaxRetries \in Nat \ {0}

ASSUME WorkersAssumption == IsFiniteSet(Workers)

ASSUME BoundAssumption ==
    /\ MaxMessages \in Nat
    /\ MaxFaults \in Nat
    /\ MaxStops \in Nat
    /\ MaxExpiries \in Nat

VARIABLES
    messages,          \* orders:stream
    cursor,            \* last message delivered to the consumer group
    pel,               \* delivered messages that are not acknowledged
    attempts,          \* the keys orders:stream:retry:<id>
    dead,              \* copies of each message in orders:dead
    saved,             \* orders with a row in commerce_orders
    tracked,           \* orders with analytics_purchase_tracked_at
    syncStatus,        \* status of the site in commerce_order_sync_state
    dedupe,            \* orders whose purchase event has a dedupe key
    purchases,         \* purchase events of each order in events:stream
    pc,                \* where each worker's goroutine is
    inbox,             \* messages of the last reply, not yet looked at
    current,           \* the message processOrderMessage works on
    faults, stops, expiries   \* what has gone wrong

stream   == <<messages, cursor, pel, attempts, dead>>
postgres == <<saved, tracked, syncStatus>>
bridge   == <<dedupe, purchases>>
memory   == <<pc, inbox, current>>
vars     == <<stream, postgres, bridge, memory, faults, stops, expiries>>

Ids == 1 .. MaxMessages

NoMessage == 0

(* What the code distinguishes in a message: "bad" does not parse,         *)
(* "poison" parses and has a time that UpsertOrderSnapshot rejects and the *)
(* handler does not validate, "paid" passes shouldPrepareAnalyticsPurchase,*)
(* "plain" does not.                                                       *)
Kinds == {"bad", "poison", "paid", "plain"}

Places == {"off", "run", "upsert", "prepare", "dedupe", "collect", "track",
           "ack", "retry", "bury", "buryack"}

(* The order of the message in hand.                                       *)
Order(w) == messages[current[w]].order

Goto(w, place) == pc' = [pc EXCEPT ![w] = place]

(* A call reported an error.                                               *)
Fault ==
    /\ faults < MaxFaults
    /\ faults' = faults + 1
    /\ UNCHANGED <<stops, expiries>>

Calm == UNCHANGED <<faults, stops, expiries>>

Init ==
    /\ messages = <<>>
    /\ cursor = 0
    /\ pel = {}
    /\ attempts = [m \in Ids |-> 0]
    /\ dead = [m \in Ids |-> 0]
    /\ saved = {}
    /\ tracked = {}
    /\ syncStatus = "idle"
    /\ dedupe = {}
    /\ purchases = [o \in Orders |-> 0]
    /\ pc = [w \in Workers |-> "off"]
    /\ inbox = [w \in Workers |-> {}]
    /\ current = [w \in Workers |-> NoMessage]
    /\ faults = 0
    /\ stops = 0
    /\ expiries = 0

-----------------------------------------------------------------------------
(* SyncOrders enqueues a snapshot of an order; the same order comes again  *)
(* with every later change.                                                *)
Enqueue ==
    /\ Len(messages) < MaxMessages
    /\ \E o \in Orders, k \in Kinds :
          messages' = Append(messages, [order |-> o, kind |-> k])
    /\ UNCHANGED <<cursor, pel, attempts, dead, postgres, bridge, memory>>
    /\ Calm

(* A dedupe key lives 24 hours.                                            *)
Expire ==
    /\ expiries < MaxExpiries
    /\ \E o \in dedupe : dedupe' = dedupe \ {o}
    /\ expiries' = expiries + 1
    /\ UNCHANGED <<stream, postgres, purchases, memory, faults, stops>>

Start(w) ==
    /\ pc[w] = "off"
    /\ Goto(w, "run")
    /\ UNCHANGED <<stream, postgres, bridge, inbox, current>>
    /\ Calm

(* The process stops at any point; what it had read stays pending.         *)
Crash(w) ==
    /\ pc[w] # "off"
    /\ stops < MaxStops
    /\ stops' = stops + 1
    /\ Goto(w, "off")
    /\ inbox' = [inbox EXCEPT ![w] = {}]
    /\ current' = [current EXCEPT ![w] = NoMessage]
    /\ UNCHANGED <<stream, postgres, bridge, faults, expiries>>

-----------------------------------------------------------------------------

(* XREADGROUP ">": up to as many messages as the event batch has room for, *)
(* all of them delivered even if the reply is lost.                        *)
Read(w) ==
    /\ pc[w] = "run" /\ inbox[w] = {}
    /\ \E n \in 1 .. BatchSize :
        /\ cursor + n <= Len(messages)
        /\ cursor' = cursor + n
        /\ pel' = pel \cup (cursor + 1 .. cursor + n)
        /\ \/ /\ inbox' = [inbox EXCEPT ![w] = cursor + 1 .. cursor + n]
              /\ Calm
           \/ /\ Fault
              /\ UNCHANGED inbox
    /\ UNCHANGED <<messages, attempts, dead, postgres, bridge, pc, current>>

(* processOrderMessage is called for the next message; one that does not   *)
(* parse goes to the dead letters at once.                                 *)
Take(w) ==
    /\ pc[w] = "run"
    /\ \E m \in inbox[w] :
        /\ \A k \in inbox[w] : m <= k
        /\ inbox' = [inbox EXCEPT ![w] = @ \ {m}]
        /\ current' = [current EXCEPT ![w] = m]
        /\ Goto(w, IF messages[m].kind = "bad" THEN "bury" ELSE "upsert")
    /\ UNCHANGED <<stream, postgres, bridge>>
    /\ Calm

(* It returns, with an error or without, and the loop goes on.             *)
Done(w) ==
    /\ Goto(w, "run")
    /\ current' = [current EXCEPT ![w] = NoMessage]
    /\ UNCHANGED inbox

(* A step of the snapshot or of the bridge failed: MarkSyncError, whose    *)
(* own error is ignored, and the retry key is next.                        *)
Failed(w) ==
    /\ Fault
    /\ Goto(w, "retry")
    /\ \/ syncStatus' = "error"
       \/ UNCHANGED syncStatus
    /\ UNCHANGED <<inbox, current>>

(* UpsertOrderSnapshot commits.  A stale snapshot changes nothing, not     *)
(* even the sync status: its transaction is rolled back.                   *)
Upsert(w) ==
    /\ pc[w] = "upsert"
    /\ \/ /\ messages[current[w]].kind # "poison"
          /\ saved' = saved \cup {Order(w)}
          /\ syncStatus' = "ok"
       \/ Order(w) \in saved /\ UNCHANGED <<saved, syncStatus>>
    /\ Goto(w, "prepare")
    /\ UNCHANGED <<stream, tracked, bridge, inbox, current>>
    /\ Calm

(* It reports an error; the commit may have been applied.                  *)
UpsertFails(w) ==
    /\ pc[w] = "upsert"
    /\ \/ UNCHANGED saved
       \/ /\ messages[current[w]].kind # "poison"
          /\ saved' = saved \cup {Order(w)}
    /\ Failed(w)
    /\ UNCHANGED <<stream, tracked, bridge>>

(* It rejects one of the snapshot's times; MarkSyncError may itself fail.  *)
Reject(w) ==
    /\ pc[w] = "upsert"
    /\ messages[current[w]].kind = "poison"
    /\ \/ syncStatus' = "error" /\ Calm
       \/ UNCHANGED syncStatus /\ Fault
    /\ Goto(w, "retry")
    /\ UNCHANGED <<stream, saved, tracked, bridge, inbox, current>>

-----------------------------------------------------------------------------
(* bridgeAnalyticsPurchase.  PrepareAnalyticsPurchaseEvent looks the order *)
(* up and gives up its row lock again before anything is done about it.    *)
Prepare(w) ==
    /\ pc[w] = "prepare"
    /\ Goto(w, IF /\ messages[current[w]].kind = "paid"
                  /\ Order(w) \in saved \ tracked
               THEN "dedupe" ELSE "ack")
    /\ UNCHANGED <<stream, postgres, bridge, inbox, current>>
    /\ Calm

PrepareFails(w) ==
    /\ pc[w] = "prepare"
    /\ messages[current[w]].kind = "paid"
    /\ Failed(w)
    /\ UNCHANGED <<stream, saved, tracked, bridge>>

(* Mutants: the key is looked up and not set, or its outcome is read the   *)
(* wrong way round.                                                        *)
DedupeLooksOnly(w) ==
    /\ pc[w] = "dedupe"
    /\ Goto(w, IF Order(w) \in dedupe THEN "track" ELSE "collect")
    /\ UNCHANGED <<stream, postgres, bridge, inbox, current>>
    /\ Calm

DedupeInverted(w) ==
    /\ pc[w] = "dedupe"
    /\ dedupe' = dedupe \cup {Order(w)}
    /\ Goto(w, IF Order(w) \in dedupe THEN "collect" ELSE "track")
    /\ UNCHANGED <<stream, postgres, purchases, inbox, current>>
    /\ Calm

(* Deduplicate: SETNX on the deterministic id of the purchase event.  Who  *)
(* finds the key takes the event for collected.                            *)
Dedupe(w) ==
    /\ pc[w] = "dedupe"
    /\ dedupe' = dedupe \cup {Order(w)}
    /\ Goto(w, IF Order(w) \in dedupe THEN "track" ELSE "collect")
    /\ UNCHANGED <<stream, postgres, purchases, inbox, current>>
    /\ Calm

DedupeFails(w) ==
    /\ pc[w] = "dedupe"
    /\ dedupe' = dedupe \/ dedupe' = dedupe \cup {Order(w)}
    /\ Failed(w)
    /\ UNCHANGED <<stream, saved, tracked, purchases>>

(* CollectEvent: XADD events:stream.                                       *)
Collect(w) ==
    /\ pc[w] = "collect"
    /\ purchases' = [purchases EXCEPT ![Order(w)] = @ + 1]
    /\ Goto(w, "track")
    /\ UNCHANGED <<stream, postgres, dedupe, inbox, current>>
    /\ Calm

CollectFails(w) ==
    /\ pc[w] = "collect"
    /\ \/ UNCHANGED purchases
       \/ purchases' = [purchases EXCEPT ![Order(w)] = @ + 1]
    /\ Failed(w)
    /\ UNCHANGED <<stream, saved, tracked, dedupe>>

(* MarkAnalyticsPurchaseTracked.                                           *)
Track(w) ==
    /\ pc[w] = "track"
    /\ tracked' = tracked \cup {Order(w)}
    /\ Goto(w, "ack")
    /\ UNCHANGED <<stream, saved, syncStatus, bridge, inbox, current>>
    /\ Calm

(* Mutant: its error is not returned.                                      *)
TrackErrorIgnored(w) ==
    /\ pc[w] = "track"
    /\ Fault
    /\ Goto(w, "ack")
    /\ UNCHANGED <<stream, postgres, bridge, inbox, current>>

TrackFails(w) ==
    /\ pc[w] = "track"
    /\ tracked' = tracked \/ tracked' = tracked \cup {Order(w)}
    /\ Failed(w)
    /\ UNCHANGED <<stream, saved, bridge>>

-----------------------------------------------------------------------------
(* Mutant: the message is never acknowledged.                              *)
AckForgotten(w) ==
    /\ pc[w] = "ack"
    /\ Done(w)
    /\ UNCHANGED <<stream, postgres, bridge>>
    /\ Calm

(* DEL of the retry key, whose error is ignored, and XACK.                 *)
Ack(w) ==
    /\ pc[w] = "ack"
    /\ pel' = pel \ {current[w]}
    /\ \/ attempts' = [attempts EXCEPT ![current[w]] = 0] /\ Calm
       \/ UNCHANGED attempts /\ Fault
    /\ Done(w)
    /\ UNCHANGED <<messages, cursor, dead, postgres, bridge>>

AckFails(w) ==
    /\ pc[w] = "ack"
    /\ Fault
    /\ pel' = pel \/ pel' = pel \ {current[w]}
    /\ attempts' = [attempts EXCEPT ![current[w]] = 0]
    /\ Done(w)
    /\ UNCHANGED <<messages, cursor, dead, postgres, bridge>>

(* Mutant: below the limit the message is tried again at once.             *)
RetryAtOnce(w) ==
    /\ pc[w] = "retry"
    /\ attempts' = [attempts EXCEPT ![current[w]] = @ + 1]
    /\ Goto(w, IF attempts[current[w]] + 1 >= MaxRetries THEN "bury" ELSE "upsert")
    /\ UNCHANGED <<messages, cursor, pel, dead, postgres, bridge, inbox, current>>
    /\ Calm

(* incrementRetryForStream: below the limit the message is left pending.   *)
Retry(w) ==
    /\ pc[w] = "retry"
    /\ attempts' = [attempts EXCEPT ![current[w]] = @ + 1]
    /\ IF attempts[current[w]] + 1 >= MaxRetries
       THEN Goto(w, "bury") /\ UNCHANGED <<inbox, current>>
       ELSE Done(w)
    /\ UNCHANGED <<messages, cursor, pel, dead, postgres, bridge>>
    /\ Calm

RetryFails(w) ==
    /\ pc[w] = "retry"
    /\ Fault
    /\ \/ UNCHANGED attempts
       \/ attempts' = [attempts EXCEPT ![current[w]] = @ + 1]
    /\ Done(w)
    /\ UNCHANGED <<messages, cursor, pel, dead, postgres, bridge>>

(* moveOrderMessageToDead: XADD orders:dead ...                            *)
Bury(w) ==
    /\ pc[w] = "bury"
    /\ dead' = [dead EXCEPT ![current[w]] = @ + 1]
    /\ Goto(w, "buryack")
    /\ UNCHANGED <<messages, cursor, pel, attempts, postgres, bridge,
                   inbox, current>>
    /\ Calm

BuryFails(w) ==
    /\ pc[w] = "bury"
    /\ Fault
    /\ \/ UNCHANGED dead
       \/ dead' = [dead EXCEPT ![current[w]] = @ + 1]
    /\ Done(w)
    /\ UNCHANGED <<messages, cursor, pel, attempts, postgres, bridge>>

(* ... XACK, and DEL of the retry key, whose error is ignored.             *)
BuryAck(w) ==
    /\ pc[w] = "buryack"
    /\ pel' = pel \ {current[w]}
    /\ \/ attempts' = [attempts EXCEPT ![current[w]] = 0] /\ Calm
       \/ UNCHANGED attempts /\ Fault
    /\ Done(w)
    /\ UNCHANGED <<messages, cursor, dead, postgres, bridge>>

BuryAckFails(w) ==
    /\ pc[w] = "buryack"
    /\ Fault
    /\ pel' = pel \/ pel' = pel \ {current[w]}
    /\ Done(w)
    /\ UNCHANGED <<messages, cursor, attempts, dead, postgres, bridge>>

-----------------------------------------------------------------------------
Step(w) ==
    \/ Read(w) \/ Take(w) \/ Upsert(w) \/ UpsertFails(w)
    \/ Reject(w) \/ Prepare(w) \/ PrepareFails(w) \/ Dedupe(w) \/ DedupeFails(w)
    \/ Collect(w) \/ CollectFails(w) \/ Track(w) \/ TrackFails(w)
    \/ Ack(w) \/ AckFails(w) \/ Retry(w) \/ RetryFails(w)
    \/ Bury(w) \/ BuryFails(w) \/ BuryAck(w) \/ BuryAckFails(w)

Next ==
    \/ Enqueue
    \/ Expire
    \/ \E w \in Workers : Start(w) \/ Crash(w) \/ Step(w)

Spec == Init /\ [][Next]_vars

(* A worker's loop keeps running and a stopped process is started again.   *)
FairSpec ==
    Spec /\ \A w \in Workers : WF_vars(Step(w)) /\ WF_vars(Start(w))

-----------------------------------------------------------------------------
Delivered == 1 .. cursor

Acked == Delivered \ pel

(* Type invariant of the order consumer's state.                           *)
TypeOK ==
    /\ messages \in Seq([order : Orders, kind : Kinds])
    /\ Len(messages) <= MaxMessages
    /\ cursor \in 0 .. Len(messages)
    /\ pel \subseteq Delivered
    /\ attempts \in [Ids -> Nat]
    /\ dead \in [Ids -> Nat]
    /\ saved \subseteq Orders
    /\ tracked \subseteq Orders
    /\ syncStatus \in {"idle", "ok", "error"}
    /\ dedupe \subseteq Orders
    /\ purchases \in [Orders -> Nat]
    /\ pc \in [Workers -> Places]
    /\ inbox \in [Workers -> SUBSET Ids]
    /\ current \in [Workers -> Ids \cup {NoMessage}]
    /\ faults \in 0 .. MaxFaults
    /\ stops \in 0 .. MaxStops
    /\ expiries \in 0 .. MaxExpiries

(* processOrderMessage acknowledges a snapshot only when its order is in   *)
(* PostgreSQL and, if it is paid, marked as tracked, or when the message   *)
(* is in orders:dead.                                                      *)
AckedOrderSettled ==
    \A m \in Acked :
        \/ dead[m] > 0
        \/ /\ messages[m].order \in saved
           /\ messages[m].kind = "paid" => messages[m].order \in tracked

(* Delivered messages whose work is done: the order has its row and, if    *)
(* the snapshot is paid, its mark.                                         *)
Stored ==
    {m \in Delivered :
        /\ messages[m].order \in saved
        /\ messages[m].kind = "paid" => messages[m].order \in tracked}

(* The promise of a stream consumer, which this module implements too: an  *)
(* acknowledged snapshot has its outcome, and no retry, fault or stop of a *)
(* worker takes an outcome back.                                           *)
Delivery == INSTANCE MessageDelivery WITH
    Entries    <- Ids,
    accepted   <- 1 .. Len(messages),
    stored     <- Stored,
    buried     <- {m \in Ids : dead[m] > 0},
    discharged <- Acked

Implements == Delivery!Spec

(* The retry limit never comes into play: processOrderMessage handles each *)
(* message once, whatever fails, so that its failures are counted once and *)
(* at a limit above 1 only what does not parse is moved to orders:dead.    *)
NeverRetried ==
    \A m \in Ids :
        /\ attempts[m] <= 1 /\ dead[m] <= 1
        /\ dead[m] > 0 => messages[m].kind = "bad" \/ MaxRetries = 1

(* The purchase of an order is queued for analytics once, however often    *)
(* its snapshot is sent and whichever workers and errors are involved;     *)
(* only a dedupe key that expired before the order was marked as tracked   *)
(* lets it through again.                                                  *)
PurchaseBounded == \A o \in Orders : purchases[o] <= 1 + expiries

(* An order is marked as tracked without a purchase in events:stream only  *)
(* while the worker that owns the dedupe key is about to queue it, as long *)
(* as no call has failed and no process has stopped.  What does harm is    *)
(* one between the key and the XADD; any is an excuse here.                *)
UncountedExplained ==
    \A o \in tracked :
        \/ purchases[o] > 0
        \/ \E w \in Workers : pc[w] = "collect" /\ Order(w) = o
        \/ faults + stops > 0

(* Every queued snapshot that the repository accepts is eventually         *)
(* acknowledged as long as calls work and processes stay up.               *)
QueuedSettles ==
    \A m \in Ids :
        (m <= Len(messages) /\ messages[m].kind # "poison")
            ~> (m \in Acked \/ faults + stops > 0)

(* The claims of docs/project analysis.md.                                 *)

(* "deduplicate ... avoids skewed revenue": an order that is marked as     *)
(* tracked is counted, once nobody is about to queue its purchase.         *)
TrackedIsCounted ==
    \A o \in tracked :
        \/ purchases[o] > 0
        \/ \E w \in Workers : pc[w] = "collect" /\ Order(w) = o

(* "orders:dead isolates broken payloads": a message whose processing      *)
(* failed is eventually acknowledged or in orders:dead.                    *)
FailedIsIsolated ==
    \A m \in Ids :
        (attempts[m] > 0) ~> (m \in Acked \/ dead[m] > 0)

=============================================================================
