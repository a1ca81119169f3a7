-------------------------- MODULE MCEventCollection --------------------------
(* Instances of EventCollection for TLC.                                   *)
EXTENDS EventCollection, TLC

(* Handlers are interchangeable, and so are events.                        *)
Symmetry == Permutations(Requests) \cup Permutations(Events)

=============================================================================
