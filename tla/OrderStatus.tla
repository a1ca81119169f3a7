----------------------------- MODULE OrderStatus -----------------------------
(***************************************************************************)
(* The status of an order: api/internal/order_status/status.go.  A status  *)
(* is a string; case, blanks and dashes of what a shop or a carrier sends  *)
(* are taken as normalised already.                                        *)
(***************************************************************************)
EXTENDS Integers

Terminal == {"cancelled", "refunded", "deleted"}

Progress == {"processing", "fulfilled", "in_transit", "out_for_delivery",
             "delivered", "exception", "failed_delivery", "returned"}

Lifecycle == Terminal \cup Progress

(* The aliases Normalize replaces; any other string stays as it is.        *)
Normalize(status) ==
    IF status = "completed" THEN "delivered"
    ELSE IF status = "failed" THEN "exception"
    ELSE IF status = "failed_attempt" THEN "failed_delivery"
    ELSE IF status = "return_to_sender" THEN "returned"
    ELSE IF status \in {"partially_refunded", "voided"} THEN "refunded"
    ELSE status

(* terminalStatusPriority and progressPriority: 0 for what is not listed.  *)
TerminalPriority(status) ==
    IF status = "cancelled" THEN 100
    ELSE IF status = "refunded" THEN 101
    ELSE IF status = "deleted" THEN 102
    ELSE 0

ProgressPriority(status) ==
    IF status = "processing" THEN 1
    ELSE IF status = "fulfilled" THEN 2
    ELSE IF status = "in_transit" THEN 3
    ELSE IF status \in {"out_for_delivery", "exception", "failed_delivery"} THEN 4
    ELSE IF status \in {"delivered", "returned"} THEN 5
    ELSE 0

(* How far an order has come in the order Merge protects.                  *)
Rank(status) ==
    IF TerminalPriority(status) > 0 THEN TerminalPriority(status)
    ELSE ProgressPriority(status)

(* The status of a snapshot.  Normalize leaves no "failed" or "completed", *)
(* so the cases of the code for these two are never taken.                 *)
FromOrderInput(input) ==
    LET raw == Normalize(input.status)
    IN  IF raw \in Lifecycle THEN raw
        ELSE IF input.payment \in {"refunded", "partially_refunded", "voided"}
             THEN "refunded"
        ELSE IF input.fulfillment = "fulfilled" THEN "fulfilled"
        ELSE IF input.payment = "paid" \/ raw = "" THEN "processing"
        ELSE raw

(* The order status for the status of a parcel.                            *)
FromTrackingStatus(status) ==
    IF Normalize(status) \in Lifecycle \ {"processing"} THEN Normalize(status)
    ELSE IF status = "expired" THEN "exception"
    ELSE "fulfilled"

ImpliesFulfilled(status) == Normalize(status) \in Progress \ {"processing"}

(* Mutant: terminal statuses are not protected.                            *)
MergeForgetsTerminal(current, candidate) ==
    LET c == Normalize(current)
        d == Normalize(candidate)
    IN  IF d = "" \/ (c # "" /\ ProgressPriority(d) < ProgressPriority(c))
        THEN c ELSE d

(* The status of the row after a snapshot with status candidate: a         *)
(* terminal status gives way only to one of higher priority, progress only *)
(* to progress at least as far or to a terminal status.                    *)
Merge(current, candidate) ==
    LET c == Normalize(current)
        d == Normalize(candidate)
        stays ==
            /\ c # ""
            /\ IF TerminalPriority(c) > 0
               THEN TerminalPriority(d) <= TerminalPriority(c)
               ELSE /\ TerminalPriority(d) = 0
                    /\ ProgressPriority(d) < ProgressPriority(c)
    IN  IF d = "" \/ stays THEN c ELSE d

=============================================================================
