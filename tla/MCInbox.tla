------------------------------ MODULE MCInbox ------------------------------
(* Instances of Inbox: ids, texts and clients are interchangeable.         *)
EXTENDS Inbox, TLC

Symmetry == Permutations(Ids) \cup Permutations(Data) \cup Permutations(Clients)
=============================================================================
