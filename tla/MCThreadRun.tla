---------------------------- MODULE MCThreadRun ----------------------------
(* Instances of ThreadRun: the prompts are interchangeable, and so are the *)
(* clients that stop the thread.                                           *)
EXTENDS ThreadRun, TLC

Symmetry == Permutations(Prompts) \cup Permutations(Stoppers)
=============================================================================
