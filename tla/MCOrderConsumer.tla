--------------------------- MODULE MCOrderConsumer ---------------------------
(* The instances of OrderConsumer that TLC checks: their workers, messages *)
(* and bounds are in the .cfg files.  There is no symmetry set, because the*)
(* runs check liveness.                                                    *)
EXTENDS OrderConsumer

=============================================================================
