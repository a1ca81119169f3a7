--------------------------- MODULE EventCollection ---------------------------
(***************************************************************************)
(* The ingestion endpoints /api/v1/collect and /api/v1/collect/batch:      *)
(* CollectHandler in api/internal/api/handlers/collect.go and Collector in *)
(* api/internal/ingest/collector.go.                                       *)
(*                                                                         *)
(* Requests of one account in one quota period run concurrently, on any    *)
(* number of API processes.  They share three things in Redis: the quota   *)
(* counter of the account, the dedupe keys of its events and the stream.   *)
(* A request counts its events against the quota, takes a dedupe key for   *)
(* each of them and appends those whose key was new to events:stream.      *)
(* Nothing it has done is undone when a later step fails, except that a    *)
(* request over the limit takes its events off the counter again.          *)
(***************************************************************************)
EXTENDS Integers, FiniteSets

CONSTANTS
    Requests,          \* handlers that can run at the same time
    Events,            \* ids of valid events that clients send
    EventLimit,        \* plan.EventLimit; below 1 nothing is let in
    MaxBatch,          \* bound: events in a request (the code has none)
    MaxSubmissions,    \* bound: requests, retries included
    MaxFaults,         \* bound: Redis calls that report an error
    MaxDeaths,         \* bound: requests whose process dies
    MaxExpiries        \* bound: dedupe keys that reach their TTL

ASSUME LimitAssumption == EventLimit \in Nat \ {0}

ASSUME FiniteAssumption == IsFiniteSet(Requests) /\ IsFiniteSet(Events)

ASSUME BoundAssumption ==
    /\ MaxBatch \in Nat \ {0}
    /\ MaxSubmissions \in Nat
    /\ MaxFaults \in Nat
    /\ MaxDeaths \in Nat
    /\ MaxExpiries \in Nat

VARIABLES
    counter,           \* quota:events:<user>:<period>
    dedupe,            \* events with a key dedupe:<site>:<event>
    stream,            \* entries of each event in events:stream
    pc,                \* where each request's handler is
    body,              \* its valid and distinct events
    extra,             \* how many more it has: invalid ones and repetitions
    fresh,             \* events it still has to append to the stream
    admitted,          \* events that passed the quota check and were counted
    submissions, faults, deaths, expiries

shared  == <<counter, dedupe, stream>>
request == <<pc, body, extra, fresh>>
mishap  == <<faults, deaths, expiries>>
vars    == <<shared, request, admitted, submissions, mishap>>

Places == {"idle", "count", "refund", "dedupe", "push"}

(* The number of events checkEventQuota is called with.                    *)
Size(r) == Cardinality(body[r]) + extra[r]

Goto(r, place) == pc' = [pc EXCEPT ![r] = place]

Fault ==
    /\ faults < MaxFaults
    /\ faults' = faults + 1
    /\ UNCHANGED <<deaths, expiries>>

Init ==
    /\ counter = 0
    /\ dedupe = {}
    /\ stream = [e \in Events |-> 0]
    /\ pc = [r \in Requests |-> "idle"]
    /\ body = [r \in Requests |-> {}]
    /\ extra = [r \in Requests |-> 0]
    /\ fresh = [r \in Requests |-> {}]
    /\ admitted = 0
    /\ submissions = 0
    /\ faults = 0
    /\ deaths = 0
    /\ expiries = 0

(* The response is sent.                                                   *)
Respond(r) ==
    /\ Goto(r, "idle")
    /\ body' = [body EXCEPT ![r] = {}]
    /\ extra' = [extra EXCEPT ![r] = 0]
    /\ fresh' = [fresh EXCEPT ![r] = {}]

-----------------------------------------------------------------------------
(* A client sends events, new ones or ones it has sent before.             *)
Submit(r) ==
    /\ pc[r] = "idle"
    /\ submissions < MaxSubmissions
    /\ submissions' = submissions + 1
    /\ \E ids \in SUBSET Events, more \in 0 .. MaxBatch :
        /\ Cardinality(ids) + more \in 1 .. MaxBatch
        /\ body' = [body EXCEPT ![r] = ids]
        /\ extra' = [extra EXCEPT ![r] = more]
    /\ Goto(r, "count")
    /\ UNCHANGED <<shared, fresh, admitted, mishap>>

(* The process dies, or the client is gone and the request is cancelled.   *)
Die(r) ==
    /\ pc[r] # "idle"
    /\ deaths < MaxDeaths
    /\ deaths' = deaths + 1
    /\ Respond(r)
    /\ UNCHANGED <<shared, admitted, submissions, faults, expiries>>

(* A dedupe key lives 24 hours.                                            *)
Expire ==
    /\ expiries < MaxExpiries
    /\ expiries' = expiries + 1
    /\ \E e \in dedupe : dedupe' = dedupe \ {e}
    /\ UNCHANGED <<counter, stream, request, admitted, submissions,
                   faults, deaths>>

-----------------------------------------------------------------------------

(* Mutant: the limit is compared with the counter before INCRBY.           *)
CountBefore(r) ==
    /\ pc[r] = "count"
    /\ counter' = counter + Size(r)
    /\ IF counter > EventLimit
       THEN Goto(r, "refund") /\ UNCHANGED admitted
       ELSE Goto(r, "dedupe") /\ admitted' = admitted + Size(r)
    /\ UNCHANGED <<dedupe, stream, body, extra, fresh, submissions, mishap>>

(* checkEventQuota: INCRBY, then the result is compared with the limit.    *)
Count(r) ==
    /\ pc[r] = "count"
    /\ counter' = counter + Size(r)
    /\ IF counter + Size(r) > EventLimit
       THEN Goto(r, "refund") /\ UNCHANGED admitted
       ELSE Goto(r, "dedupe") /\ admitted' = admitted + Size(r)
    /\ UNCHANGED <<dedupe, stream, body, extra, fresh, submissions, mishap>>

(* When the counter cannot be read the request is let in.                  *)
CountFails(r) ==
    /\ pc[r] = "count"
    /\ Fault
    /\ counter' = counter \/ counter' = counter + Size(r)
    /\ Goto(r, "dedupe")
    /\ UNCHANGED <<dedupe, stream, body, extra, fresh, admitted, submissions>>

(* Mutant: only one event is given back.                                   *)
RefundOne(r) ==
    /\ pc[r] = "refund"
    /\ counter' = counter - 1
    /\ Respond(r)
    /\ UNCHANGED <<dedupe, stream, admitted, submissions, mishap>>

(* Over the limit: DECRBY, and the request is rejected.                    *)
Refund(r) ==
    /\ pc[r] = "refund"
    /\ counter' = counter - Size(r)
    /\ Respond(r)
    /\ UNCHANGED <<dedupe, stream, admitted, submissions, mishap>>

(* The error of DECRBY is ignored.                                         *)
RefundFails(r) ==
    /\ pc[r] = "refund"
    /\ Fault
    /\ counter' = counter \/ counter' = counter - Size(r)
    /\ Respond(r)
    /\ UNCHANGED <<dedupe, stream, admitted, submissions>>

-----------------------------------------------------------------------------
(* Mutants: the keys are looked up and not set, or one event that was seen *)
(* before makes the whole batch a duplicate.                               *)
DedupeLooksOnly(r) ==
    /\ pc[r] = "dedupe"
    /\ fresh' = [fresh EXCEPT ![r] = body[r] \ dedupe]
    /\ Goto(r, "push")
    /\ UNCHANGED <<shared, body, extra, admitted, submissions, mishap>>

DedupeAll(r) ==
    /\ pc[r] = "dedupe"
    /\ dedupe' = dedupe \cup body[r]
    /\ fresh' = [fresh EXCEPT ![r] = IF body[r] \cap dedupe = {} THEN body[r] ELSE {}]
    /\ Goto(r, "push")
    /\ UNCHANGED <<counter, stream, body, extra, admitted, submissions, mishap>>

(* Deduplicate and DeduplicateBatch: SETNX for every event, in one round   *)
(* trip; the events whose key existed are answered "duplicate".            *)
Dedupe(r) ==
    /\ pc[r] = "dedupe"
    /\ dedupe' = dedupe \cup body[r]
    /\ fresh' = [fresh EXCEPT ![r] = body[r] \ dedupe]
    /\ Goto(r, "push")
    /\ UNCHANGED <<counter, stream, body, extra, admitted, submissions, mishap>>

(* Any of the keys may have been set; the request is answered with an      *)
(* error.  A batch without a valid event makes no call.                    *)
DedupeFails(r) ==
    /\ pc[r] = "dedupe" /\ body[r] # {}
    /\ Fault
    /\ \E set \in SUBSET body[r] : dedupe' = dedupe \cup set
    /\ Respond(r)
    /\ UNCHANGED <<counter, stream, admitted, submissions>>

(* CollectEvent, CollectBatch: XADD of the next event.                     *)
Push(r) ==
    /\ pc[r] = "push"
    /\ \E e \in fresh[r] :
        /\ fresh' = [fresh EXCEPT ![r] = @ \ {e}]
        /\ stream' = [stream EXCEPT ![e] = @ + 1]
    /\ UNCHANGED <<counter, dedupe, pc, body, extra, admitted, submissions, mishap>>

(* XADD fails: the event is answered with an error, its key stays.         *)
PushFails(r) ==
    /\ pc[r] = "push"
    /\ Fault
    /\ \E e \in fresh[r] :
        /\ fresh' = [fresh EXCEPT ![r] = @ \ {e}]
        /\ stream' = stream \/ stream' = [stream EXCEPT ![e] = @ + 1]
    /\ UNCHANGED <<counter, dedupe, pc, body, extra, admitted, submissions>>

Finish(r) ==
    /\ pc[r] = "push"
    /\ fresh[r] = {}
    /\ Respond(r)
    /\ UNCHANGED <<shared, admitted, submissions, mishap>>

-----------------------------------------------------------------------------
Next ==
    \/ Expire
    \/ \E r \in Requests :
          \/ Submit(r) \/ Die(r) \/ Count(r) \/ CountFails(r)
          \/ Refund(r) \/ RefundFails(r) \/ Dedupe(r) \/ DedupeFails(r)
          \/ Push(r) \/ PushFails(r) \/ Finish(r)

Spec == Init /\ [][Next]_vars

-----------------------------------------------------------------------------
(* Type invariant of the shared keys and the handlers; DECRBY may take a   *)
(* counter below zero, that it does not is part of RefundsBalance.         *)
TypeOK ==
    /\ counter \in Int
    /\ dedupe \subseteq Events
    /\ stream \in [Events -> Nat]
    /\ pc \in [Requests -> Places]
    /\ body \in [Requests -> SUBSET Events]
    /\ extra \in [Requests -> 0 .. MaxBatch]
    /\ fresh \in [Requests -> SUBSET Events]
    /\ admitted \in Nat
    /\ submissions \in 0 .. MaxSubmissions
    /\ faults \in 0 .. MaxFaults
    /\ deaths \in 0 .. MaxDeaths
    /\ expiries \in 0 .. MaxExpiries

(* However requests overlap, the events let in by a quota check that       *)
(* worked never exceed the plan's limit: requests that are being rejected  *)
(* only make the check stricter, and no refund takes off more than was     *)
(* counted.                                                                *)
QuotaHolds == admitted <= EventLimit

(* The events that requests over the limit have counted and not yet given  *)
(* back.                                                                   *)
Owed ==
    {p \in Requests \X (1 .. MaxBatch) : pc[p[1]] = "refund" /\ p[2] <= Size(p[1])}

(* Rejected requests use up nothing: the counter is what was let in and    *)
(* what is about to be given back, and only a call that failed or a        *)
(* process that died leaves more in it, never less.                        *)
RefundsBalance ==
    /\ counter >= admitted + Cardinality(Owed)
    /\ faults + deaths = 0 => counter = admitted + Cardinality(Owed)

(* An event is appended once for every time its dedupe key can be taken,   *)
(* however often, in whichever batches and by however many handlers at the *)
(* same time it is sent.                                                   *)
OncePerKey == \A e \in Events : stream[e] <= 1 + expiries

Pending(e) == \E r \in Requests : e \in fresh[r]

(* A key without an entry in the stream means that a handler is about to   *)
(* append it, as long as no call has failed and no process has died.  What *)
(* does harm is one between the key and the append; any is an excuse here. *)
LossExplained ==
    \A e \in dedupe : stream[e] > 0 \/ Pending(e) \/ faults + deaths > 0

=============================================================================
