------------------------------ MODULE Doorbell ------------------------------
(***************************************************************************)
(* What the run coordinator promises for one key, told without fibers,     *)
(* execution objects or callers.                                           *)
(*                                                                         *)
(* Work is announced by ringing a doorbell (wake) or by asking for a run   *)
(* while nothing is active (run).  A drain answers exactly one outstanding *)
(* ring or run, drains never overlap, an interruption claims what was rung *)
(* before it, and nothing that was rung and not claimed is forgotten.      *)
(***************************************************************************)
EXTENDS Naturals

VARIABLES
  busy,    \* the key has an execution
  drain,   \* the drain in progress: "none", answering a "wake" or a "run"
  rings,   \* rings no drain has answered: one being served, one behind it
  forced,  \* a run asked while idle, not yet drained
  closed   \* the process is shutting down

abstractVars == <<busy, drain, rings, forced, closed>>

TypeOK ==
  /\ busy \in BOOLEAN
  /\ drain \in {"none", "wake", "run"}
  /\ rings \in 0..2
  /\ forced \in BOOLEAN
  /\ closed \in BOOLEAN

Init ==
  /\ busy = FALSE
  /\ drain = "none"
  /\ rings = 0
  /\ forced = FALSE
  /\ closed = FALSE

-----------------------------------------------------------------------------

(* A ring is either the first of a new drain or coalesced with one that no *)
(* drain has answered yet; it never leaves the doorbell silent.            *)
Ring ==
  /\ ~closed
  /\ busy' = TRUE
  /\ rings' \in {rings, rings + 1} \cap 1..2
  /\ UNCHANGED <<drain, forced, closed>>

Ask ==
  /\ ~closed /\ ~busy
  /\ busy' = TRUE
  /\ forced' = TRUE
  /\ UNCHANGED <<drain, rings, closed>>

StartDrain ==
  /\ drain = "none"
  /\ \/ forced /\ drain' = "run" /\ forced' = FALSE /\ UNCHANGED rings
     \/ ~forced /\ rings > 0 /\ drain' = "wake" /\ rings' = rings - 1
        /\ UNCHANGED forced
  /\ UNCHANGED <<busy, closed>>

EndDrain ==
  /\ drain # "none"
  /\ drain' = "none"
  /\ UNCHANGED <<busy, rings, forced, closed>>

Cancel ==
  /\ busy
  /\ rings' = 0
  /\ forced' = FALSE
  /\ UNCHANGED <<busy, drain, closed>>

Rest ==
  /\ busy /\ drain = "none" /\ rings = 0 /\ ~forced
  /\ busy' = FALSE
  /\ UNCHANGED <<drain, rings, forced, closed>>

Close ==
  /\ closed' = TRUE
  /\ rings' = 0
  /\ forced' = FALSE
  /\ UNCHANGED <<busy, drain>>

(* Work announced to a process that is shutting down starts no drain.      *)
AnnounceLate ==
  /\ closed
  /\ busy' = TRUE
  /\ UNCHANGED <<drain, rings, forced, closed>>

(* The process dies, and what it was told dies with it.  No step of Next:  *)
(* it belongs to the specifications of what outlives a process.            *)
Crash ==
  /\ busy' = FALSE /\ drain' = "none" /\ rings' = 0
  /\ forced' = FALSE /\ closed' = FALSE

Next ==
  \/ Ring \/ Ask \/ StartDrain \/ EndDrain \/ Cancel \/ Rest
  \/ Close \/ AnnounceLate

SafeSpec == Init /\ [][Next]_abstractVars

Spec ==
  /\ SafeSpec
  /\ WF_abstractVars(StartDrain)
  /\ WF_abstractVars(EndDrain)
=============================================================================
