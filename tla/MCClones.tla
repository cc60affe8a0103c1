------------------------------ MODULE MCClones ------------------------------
(* Instances of Clones.                                                    *)
EXTENDS Clones
=============================================================================
