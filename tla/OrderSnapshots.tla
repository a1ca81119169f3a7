---------------------------- MODULE OrderSnapshots ----------------------------
(***************************************************************************)
(* One row of commerce_orders and everything that writes it:               *)
(* UpsertOrderSnapshot and MarkOrderDeleted in orders/repository.go and    *)
(* ApplyTrackingStatusToOrder in shipment_tracking/repository.go.          *)
(*                                                                         *)
(* Snapshots of an order come from its shop in any order and any number of *)
(* times: pushed again by the plugin, delivered by a webhook, read by the  *)
(* backfill.  Several writers may work on them at the same time: replicas  *)
(* of the order consumer, of the ShopBase consumer and its backfill.  A    *)
(* writer first reads the row (SELECT without FOR UPDATE), leaves a stale  *)
(* snapshot alone and merges the statuses, and only then writes it (INSERT *)
(* ... ON CONFLICT DO UPDATE, without a condition on the row it replaces). *)
(* The insert takes the row's lock until the transaction commits, so that  *)
(* it and the commit are one step here.                                    *)
(***************************************************************************)
EXTENDS Integers, Sequences, OrderStatus

CONSTANTS
    Writers,           \* goroutines that call UpsertOrderSnapshot
    Platforms,         \* the kinds of shop
    InputsOf,          \* status, payment, fulfillment a snapshot of each can have
    TrackingStatuses,  \* statuses of the parcels of the order
    MaxVersions        \* bound: snapshots the shop takes of the order

ASSUME PlatformAssumption == Platforms \subseteq {"woocommerce", "shopbase"}

ASSUME BoundAssumption == MaxVersions \in Nat

Inputs == UNION {InputsOf[p] : p \in Platforms}

VARIABLES
    platform,          \* source_platform: the shop the order is from
    versions,          \* snapshots of the order: [at, input]
    gone,              \* the order was deleted in the shop
    row,               \* the row of commerce_orders
    pc,                \* where each writer is
    snapshot,          \* the version it works on
    seen,              \* the row as its SELECT returned it
    applied,           \* versions for which UpsertOrderSnapshot returned nil
    overtaken          \* a commit replaced a row other than the one it read

shop   == <<platform, versions, gone>>
writer == <<pc, snapshot, seen>>
vars   == <<shop, row, writer, applied, overtaken>>

(* The columns the model tells apart: modified_at_woo, status,             *)
(* fulfillment_status, and the version all the others were copied from.    *)
NoRow == [modified |-> 0, status |-> "", fulfillment |-> "", payload |-> 0]

Exists == row.payload # 0

Latest == IF versions = <<>> THEN 0 ELSE versions[Len(versions)].at

Init ==
    /\ platform \in Platforms
    /\ versions = <<>>
    /\ gone = FALSE
    /\ row = NoRow
    /\ pc = [w \in Writers |-> "idle"]
    /\ snapshot = [w \in Writers |-> 0]
    /\ seen = [w \in Writers |-> NoRow]
    /\ applied = {}
    /\ overtaken = FALSE

-----------------------------------------------------------------------------
(* The order changes in the shop.  modified_at has whole seconds: two      *)
(* versions may carry the same one.                                        *)
Change ==
    /\ ~gone
    /\ Len(versions) < MaxVersions
    /\ \E input \in InputsOf[platform], tick \in {0, 1} :
        /\ Latest + tick > 0
        /\ versions' = Append(versions, [at |-> Latest + tick, input |-> input])
    /\ UNCHANGED <<platform, gone, row, writer, applied, overtaken>>

(* It is deleted there.                                                    *)
Remove ==
    /\ platform = "shopbase"
    /\ versions # <<>>
    /\ ~gone
    /\ gone' = TRUE
    /\ UNCHANGED <<platform, versions, row, writer, applied, overtaken>>

-----------------------------------------------------------------------------
(* Mutant: stale snapshots are not told apart.                             *)
SelectAnything(w) ==
    /\ pc[w] = "idle"
    /\ \E n \in 1 .. Len(versions) :
        /\ pc' = [pc EXCEPT ![w] = "write"]
        /\ snapshot' = [snapshot EXCEPT ![w] = n]
        /\ seen' = [seen EXCEPT ![w] = row]
    /\ UNCHANGED <<shop, row, applied, overtaken>>

(* UpsertOrderSnapshot up to its SELECT, for any version of the order: a   *)
(* row that is newer is left as it is.                                     *)
Select(w) ==
    /\ pc[w] = "idle"
    /\ \E n \in 1 .. Len(versions) :
        IF row.modified > versions[n].at
        THEN /\ applied' = applied \cup {n}
             /\ UNCHANGED writer
        ELSE /\ pc' = [pc EXCEPT ![w] = "write"]
             /\ snapshot' = [snapshot EXCEPT ![w] = n]
             /\ seen' = [seen EXCEPT ![w] = row]
             /\ UNCHANGED applied
    /\ UNCHANGED <<shop, row, overtaken>>

(* What it writes, from the snapshot and the row it has read.              *)
Written(w) ==
    LET version == versions[snapshot[w]]
        status  == Merge(seen[w].status, FromOrderInput(version.input))
    IN  [modified    |-> version.at,
         status      |-> status,
         fulfillment |-> IF ImpliesFulfilled(status) THEN "fulfilled"
                         ELSE IF version.input.fulfillment = ""
                              THEN seen[w].fulfillment
                         ELSE version.input.fulfillment,
         payload     |-> snapshot[w]]

Finish(w) ==
    /\ pc' = [pc EXCEPT ![w] = "idle"]
    /\ snapshot' = [snapshot EXCEPT ![w] = 0]
    /\ seen' = [seen EXCEPT ![w] = NoRow]

Overtaken(w) == pc[w] = "write" /\ seen[w] # row

(* INSERT ... ON CONFLICT DO UPDATE, items, COMMIT.                        *)
Commit(w) ==
    /\ pc[w] = "write"
    /\ row' = Written(w)
    /\ applied' = applied \cup {snapshot[w]}
    /\ overtaken' = (overtaken \/ Overtaken(w))
    /\ Finish(w)
    /\ UNCHANGED shop

(* A statement fails or the process stops: the transaction is rolled back. *)
Abort(w) ==
    /\ pc[w] = "write"
    /\ Finish(w)
    /\ UNCHANGED <<shop, row, applied, overtaken>>

-----------------------------------------------------------------------------
(* The webhook orders/delete: the row, if there is one, becomes deleted at *)
(* the time of the worker's clock, which is past all the shop's snapshots. *)
MarkOrderDeleted ==
    /\ gone
    /\ Exists
    /\ row' = [row EXCEPT !.status = "deleted",
                          !.modified = IF @ > Latest THEN @ ELSE Latest + 1]
    /\ UNCHANGED <<shop, writer, applied, overtaken>>

(* ApplyTrackingStatusToOrder, for a tracking number that is added or      *)
(* refreshed and for a TrackingMore webhook: the status of the row is      *)
(* replaced whatever it was.                                               *)
ApplyTrackingStatusToOrder ==
    /\ platform = "woocommerce"
    /\ Exists
    /\ \E s \in TrackingStatuses :
          LET status == FromTrackingStatus(s)
          IN  row' = [row EXCEPT
                        !.status = status,
                        !.fulfillment = IF ImpliesFulfilled(status)
                                        THEN "fulfilled" ELSE @]
    /\ UNCHANGED <<shop, writer, applied, overtaken>>

-----------------------------------------------------------------------------
Next ==
    \/ Change \/ Remove
    \/ MarkOrderDeleted \/ ApplyTrackingStatusToOrder
    \/ \E w \in Writers : Select(w) \/ Commit(w) \/ Abort(w)

Spec == Init /\ [][Next]_vars

-----------------------------------------------------------------------------
Times == 0 .. MaxVersions + 1

Statuses == Lifecycle \cup {FromOrderInput(input) : input \in Inputs}

Fulfillments == {"", "fulfilled"} \cup {input.fulfillment : input \in Inputs}

Rows == [modified : Times, status : Statuses, fulfillment : Fulfillments,
         payload : 1 .. MaxVersions] \cup {NoRow}

(* Type invariant of the row and its writers.                              *)
TypeOK ==
    /\ platform \in Platforms
    /\ versions \in Seq([at : 1 .. MaxVersions, input : Inputs])
    /\ Len(versions) <= MaxVersions
    /\ gone \in BOOLEAN
    /\ row \in Rows
    /\ pc \in [Writers -> {"idle", "write"}]
    /\ snapshot \in [Writers -> 0 .. Len(versions)]
    /\ seen \in [Writers -> Rows]
    /\ applied \subseteq 1 .. Len(versions)
    /\ overtaken \in BOOLEAN

(* Merge keeps the status of an order from going back, in particular an    *)
(* order that was refunded, cancelled or deleted stays so: only a tracking *)
(* status, or a commit that overtook another writer between that writer's  *)
(* SELECT and its commit, takes it back.                                   *)
StatusAdvances ==
    [][Rank(row'.status) < Rank(row.status) =>
          \/ ApplyTrackingStatusToOrder
          \/ \E w \in Writers : Overtaken(w) /\ Commit(w)]_vars

(* However often and in whichever order snapshots arrive, once one was     *)
(* accepted the row is at least as new, unless writers overlapped: the     *)
(* check for stale snapshots alone does not give this.                     *)
FreshestKept ==
    overtaken \/ \A n \in applied : row.modified >= versions[n].at

(* A ShopBase order that is marked as deleted is not brought back by the   *)
(* snapshots still under way, unless the writer had read the row before.   *)
DeletedStays ==
    [][platform = "shopbase" /\ row.status = "deleted" /\ row' # row =>
          \/ row'.status = "deleted" /\ row'.modified >= row.modified
          \/ \E w \in Writers : Overtaken(w) /\ Commit(w)]_vars

(* A row whose status implies fulfillment says so in fulfillment_status,   *)
(* whichever of the writers wrote it last.                                 *)
FulfillmentAgrees ==
    ImpliesFulfilled(row.status) => row.fulfillment = "fulfilled"

-----------------------------------------------------------------------------
(* The inductive invariant behind FreshestKept and the action properties.  *)

(* The shop's versions are numbered in the order of their timestamps.      *)
VersionsOrdered ==
    \A n \in 1 .. Len(versions) :
        /\ versions[n].at <= n
        /\ \A m \in 1 .. n : versions[m].at <= versions[n].at

(* A writer holds a version that was not stale when it read the row.       *)
NotStaleWhenRead ==
    \A w \in Writers : pc[w] = "write" =>
        /\ snapshot[w] \in 1 .. Len(versions)
        /\ seen[w].modified <= versions[snapshot[w]].at

IInv ==
    /\ TypeOK
    /\ VersionsOrdered
    /\ NotStaleWhenRead
    /\ FreshestKept
    /\ FulfillmentAgrees

-----------------------------------------------------------------------------
(* The claim of order_status/status_test.go, "progress does not move       *)
(* backward", of every writer of the row that works alone.                *)
ProgressNeverBackward ==
    [][overtaken' \/ Rank(row'.status) >= Rank(row.status)]_vars

=============================================================================
