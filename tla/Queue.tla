------------------------------- MODULE Queue -------------------------------
(***************************************************************************)
(* What the inbox of a thread promises, told without reads, conflicts,     *)
(* clients, drains or processes.                                           *)
(*                                                                         *)
(* A prompt waits in one of two lanes, with a place it keeps when it is    *)
(* edited or moved.  It leaves the queue by being withdrawn, from where it *)
(* may be queued afresh, or by being said, as it reads at that moment, and *)
(* then for good.  Each change is one step of one clock.                   *)
(***************************************************************************)
EXTENDS Naturals

CONSTANTS Ids, Data, Lanes

VARIABLES
  waiting,   \* the prompts that are queued, each with its place
  said,      \* the messages of the conversation
  clock      \* the last sequence

queueVars == <<waiting, said, clock>>

Queued(i)  == \E w \in waiting : w.id = i
WasSaid(i) == \E m \in said : m.id = i

Init == waiting = {} /\ said = {} /\ clock = 0

Tick == clock' = clock + 1

Enqueue(i, d, v) ==
  /\ ~Queued(i) /\ ~WasSaid(i) /\ Tick
  /\ waiting' = waiting \cup {[id |-> i, data |-> d, lane |-> v, place |-> clock + 1]}
  /\ UNCHANGED said

Edit(w, d, v) ==
  /\ Tick
  /\ waiting' = (waiting \ {w})
       \cup {[id |-> w.id, data |-> d, lane |-> v, place |-> w.place]}
  /\ UNCHANGED said

Withdraw(w) == Tick /\ waiting' = waiting \ {w} /\ UNCHANGED said

Say(w) ==
  /\ Tick
  /\ waiting' = waiting \ {w}
  /\ said' = said \cup {[id |-> w.id, data |-> w.data, seq |-> clock + 1]}

Next ==
  \/ \E i \in Ids, d \in Data, v \in Lanes : Enqueue(i, d, v)
  \/ \E w \in waiting :
       \/ Withdraw(w) \/ Say(w)
       \/ \E d \in Data, v \in Lanes : Edit(w, d, v)

Spec == Init /\ [][Next]_queueVars
=============================================================================
