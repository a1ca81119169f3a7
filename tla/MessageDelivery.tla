--------------------------- MODULE MessageDelivery ---------------------------
(***************************************************************************)
(* What a stream consumer promises its producer, with the consumer's       *)
(* threads, batches, retries and crashes left out: an entry of the stream  *)
(* may be stored in the sink, may be buried in the dead-letter stream, and *)
(* may be discharged (acknowledged, so that the consumer group forgets it) *)
(* only once it has one of these two outcomes.  Outcomes are never taken   *)
(* back.  The specification allows an entry to have several outcomes and   *)
(* promises no progress: what the detailed modules add to it is stated     *)
(* there.                                                                  *)
(***************************************************************************)
EXTENDS Naturals

CONSTANT Entries       \* the identifiers stream entries can have

VARIABLES
    accepted,          \* entries appended to the stream
    stored,            \* entries with a row in the sink
    buried,            \* entries copied to the dead-letter stream
    discharged         \* entries acknowledged to the consumer group

vars == <<accepted, stored, buried, discharged>>

Init ==
    /\ accepted = {}
    /\ stored = {}
    /\ buried = {}
    /\ discharged = {}

Accept(m) ==
    /\ m \in Entries \ accepted
    /\ accepted' = accepted \cup {m}
    /\ UNCHANGED <<stored, buried, discharged>>

Store(S) ==
    /\ S \subseteq accepted
    /\ stored' = stored \cup S
    /\ UNCHANGED <<accepted, buried, discharged>>

Bury(m) ==
    /\ m \in accepted
    /\ buried' = buried \cup {m}
    /\ UNCHANGED <<accepted, stored, discharged>>

Discharge(S) ==
    /\ S \subseteq stored \cup buried
    /\ discharged' = discharged \cup S
    /\ UNCHANGED <<accepted, stored, buried>>

Next ==
    \/ \E m \in Entries : Accept(m) \/ Bury(m)
    \/ \E S \in SUBSET Entries : Store(S) \/ Discharge(S)

Spec == Init /\ [][Next]_vars

=============================================================================
