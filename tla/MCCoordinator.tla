--------------------------- MODULE MCCoordinator ---------------------------
(* Two callers and a pool of two Execution objects: one in the map, and    *)
(* one that its settlement, or a faulty coordinator, starts beside it.     *)
EXTENDS Coordinator
=============================================================================
