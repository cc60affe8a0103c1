----------------------------- MODULE MCSandbox -----------------------------
EXTENDS Sandbox, TLC

(* The fibers run the same operations.                                     *)
Symmetry == Permutations(Fibers)

=============================================================================
