------------------------------- MODULE MCTurn -------------------------------
(* Instances of Turn.                                                      *)
EXTENDS Turn, TLC
=============================================================================
