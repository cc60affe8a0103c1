-------------------------------- MODULE Feed --------------------------------
(***************************************************************************)
(* What the log of one aggregate promises those who follow it, told        *)
(* without streams, pages, wakes or processes.                             *)
(*                                                                         *)
(* Rows are added at the end, each under a sequence of its own.  Everyone  *)
(* who follows has one position, which outlives every stream it opens: it  *)
(* moves over a row only by being given it, and otherwise over sequences   *)
(* it has nothing to read at.                                              *)
(***************************************************************************)
EXTENDS Naturals

CONSTANTS Events, Foreign, Followers

VARIABLES
  log,       \* the rows: a sequence and the id of an event each
  next,      \* the last sequence that is taken
  position,  \* where the consumer of each follower resumes
  given      \* the sequences of the rows it was given

feedVars == <<log, next, position, given>>

Readable == {r.seq : r \in {x \in log : x.event \notin Foreign}}

(* Nothing to read after a, up to b.                                       *)
Bare(a, b) == \A n \in Readable : n <= a \/ b < n

Init ==
  /\ log = {} /\ next = 0
  /\ position = [f \in Followers |-> 0]
  /\ given = [f \in Followers |-> {}]

Append(e) ==
  /\ \A r \in log : r.event # e
  /\ next' = next + 1
  /\ log' = log \cup {[seq |-> next', event |-> e]}
  /\ UNCHANGED <<position, given>>

Reserve ==
  /\ next' \in Nat /\ next' > next
  /\ UNCHANGED <<log, position, given>>

Give(f) ==
  /\ \E n \in Readable :
       /\ position[f] < n /\ \A k \in Readable : k <= position[f] \/ n <= k
       /\ position' = [position EXCEPT ![f] = n]
       /\ given' = [given EXCEPT ![f] = @ \cup {n}]
  /\ UNCHANGED <<log, next>>

MoveOn(f) ==
  /\ \E n \in 1..next :
       /\ position[f] < n /\ Bare(position[f], n)
       /\ position' = [position EXCEPT ![f] = n]
  /\ UNCHANGED <<log, next, given>>

Next ==
  \/ \E e \in Events : Append(e)
  \/ Reserve
  \/ \E f \in Followers : Give(f) \/ MoveOn(f)

Spec == Init /\ [][Next]_feedVars
=============================================================================
