--------------------------- MODULE ThreadRunProofs ---------------------------
(***************************************************************************)
(* Proofs about ThreadRun, for any prompts, stoppers, bounds and limit.    *)
(*                                                                         *)
(* What the columns of the row say outlives a process, and each promise    *)
(* ties one of them to what the processes are doing.  IInv holds however   *)
(* often clients repeat their prompts.  MInv, from which it follows that   *)
(* an accepted prompt is marked, holds for clients that do not.            *)
(***************************************************************************)
EXTENDS ThreadRun, TLAPS

(* Stages of a recovery that has not claimed its restart.                  *)
Early == {"off", "todo", "listed", "checked"}

(* Each restart is claimed once after a process went down.                 *)
Counted ==
  restarts <= downs /\ (recovery \in Early => restarts < downs)

(* The flags are those of the recovery of this process.                    *)
Fresh ==
  /\ recovery \in Early => ~abandoning /\ ~recovered
  /\ recovering => Recovering

Gone ==
  ~up => /\ phase = "none" /\ recovery = "off"
         /\ \A p \in Prompts : sender[p] \in {"idle", "accepted"}

(* A run that ended itself has left the thread idle.                       *)
EndsIdle ==
  /\ phase = "ending" => run = "idle"
  /\ outcome = "ended" =>
       /\ run = "idle"
       /\ phase \in {"none", "drained", "looping", "opening", "settling",
                     "settled"}

(* The count of the restarts, as the run finds it.                         *)
Resumable == phase = "loading" /\ recovered /\ force => restarts < RestartLimit

Limited ==
  /\ recovery = "claimed" => restarts < RestartLimit
  /\ recovering /\ ~abandoning => restarts < RestartLimit

(* A request in flight is of the run that is at it or about to clear it,   *)
(* or a dead host's.                                                       *)
InFlight ==
  attempt =>
    /\ phase # "settled"
    /\ \/ phase \in {"requesting", "settling"} \/ cut \/ Recovering
       \/ (phase = "drained" /\ outcome = "failure")

(* Nothing is parked in a thread that is marked, nor in one that a         *)
(* recovered run goes on with.                                             *)
ParkedIsUnmarked ==
  \A p \in Prompts :
    parked[p] # "no" => mark = "none" /\ ~(phase = "loading" /\ recovered)

IInv ==
  /\ TypeOK /\ Counted /\ Fresh /\ Gone /\ EndsIdle /\ IdleIsStored
  /\ Limited /\ Resumable /\ InFlight /\ ParkedIsUnmarked

(* Prompts that are owed were not answered, and a queued one is marked     *)
(* before it is owed.                                                      *)
OwedIsOpen == \A p \in Prompts : Owed(p) => p \in Unfinished

MarkedIsMarked ==
  \A p \in Prompts :
    sender[p] = "marked" /\ p \in Pending /\ parked[p] = "no" => mark # "none"

(* A drain that finds no more to do has answered all it promoted.          *)
Answered ==
  /\ phase = "replied" => draft # "none"
  /\ phase = "unasked" \/ (phase = "deciding" /\ ~continuing)
       => Promoted = {}

Stopping ==
  /\ outcome = "interrupt" => phase \in {"none", "settling", "settled"}
  /\ stopping = "shutdown" => closing
  /\ phase \in {"settling", "settled"} /\ outcome = "interrupt" /\ ~closing
       => stopping = "user"

(* Where nothing promoted is owed: after a drain or a stop, and, unless    *)
(* the process is closing, up to the next turn of a run that was not told  *)
(* to answer first.                                                        *)
Over ==
  \/ phase = "drained" \/ (phase = "settling" /\ outcome # "interrupt")
  \/ stopping = "user"
  \/ /\ ~closing
     /\ \/ phase = "settled"
        \/ /\ phase \in {"forked", "starting", "opening", "looping", "loading"}
           /\ ~force /\ Pending = {}
        \/ /\ phase = "none" /\ up
           /\ \E q \in Prompts :
                sender[q] \in {"admitted", "marked"} /\ q \notin Pending
        \/ Recovering /\ mark = "none" /\ phase \notin Running \cup Ending

OwedIsQueued == Over => \A p \in Prompts : Owed(p) => p \in Pending

MInv ==
  /\ ~Resends /\ OwedIsOpen /\ MarkedIsMarked /\ Answered /\ Stopping
  /\ AcceptedIsMarked /\ OwedIsQueued

-----------------------------------------------------------------------------
(* IInv is inductive.                                                      *)

(* Of the bounds.                                                          *)
LEMMA Zero == 0 \in 0..MaxDowns
BY LimitAssumption

LEMMA NoPosition == Nowhere \in (SUBSET Prompts) \cup {Nowhere}
OBVIOUS

LEMMA Forked ==
  ASSUME FiberTyped, UNCHANGED draft, NEW f \in BOOLEAN, Fork(f)
  PROVE  FiberTyped'
BY DEF Fork, FiberTyped, Phases, Owned

(* The invariant of the runs holds when the service starts for the first   *)
(* time.                                                                   *)
THEOREM InitIInv == Init => IInv
<1> SUFFICES ASSUME Init PROVE IInv
  OBVIOUS
<1>1. TypeOK
  BY LimitAssumption, Zero, NoPosition
     DEF Init, TypeOK, RowTyped, PromptsTyped, FiberTyped, HostTyped, Phases,
         Owned
<1>2. IInv
  BY <1>1, LimitAssumption
     DEF Init, Early, IInv, Counted, Fresh, Gone, EndsIdle, IdleIsStored,
         Limited, Resumable, InFlight, ParkedIsUnmarked, Recovering,
         Pending
<1> QED BY <1>2

LEMMA MarkStartedIInv ==
  ASSUME IInv, MarkStarted
  PROVE  IInv'
<1> USE DEF MarkStarted, Park, row, store, drainVars, fiber, flags, clients,
            host, owedVars
<1>1. TypeOK'
  BY LimitAssumption
     DEF IInv, Counted, Early, TypeOK, RowTyped, PromptsTyped, FiberTyped,
         HostTyped, Phases, Owned, Hook, Running, Ending
<1>2. IInv'
  BY <1>1, LimitAssumption
     DEF IInv, Early, Recovering, TypeOK, RowTyped, PromptsTyped, FiberTyped,
         HostTyped, Phases, Owned, Hook, Running, Ending, Counted, Fresh,
         Gone, EndsIdle, IdleIsStored, Limited, Resumable, InFlight,
         ParkedIsUnmarked
<1> QED BY <1>1, <1>2

LEMMA AnnounceIInv ==
  ASSUME IInv, Announce
  PROVE  IInv'
<1> USE DEF Announce, row, store, drainVars, fiber, flags, clients, host,
            owedVars
<1>1. TypeOK'
  BY LimitAssumption
     DEF IInv, Counted, Early, TypeOK, RowTyped, PromptsTyped, FiberTyped,
         HostTyped, Phases, Owned, Hook, Running, Ending
<1>2. IInv'
  BY <1>1, LimitAssumption
     DEF IInv, Early, Recovering, TypeOK, RowTyped, PromptsTyped, FiberTyped,
         HostTyped, Phases, Owned, Hook, Running, Ending, Counted, Fresh,
         Gone, EndsIdle, IdleIsStored, Limited, Resumable, InFlight,
         ParkedIsUnmarked
<1> QED BY <1>1, <1>2

LEMMA OpenDrainIInv ==
  ASSUME IInv, OpenDrain
  PROVE  IInv'
<1> USE DEF OpenDrain, DrainEnds, Heal, Interruptible, row, store, drainVars,
            fiber, flags, clients, host, owedVars
<1>1. TypeOK'
  <2>1. RowTyped'
    BY LimitAssumption, Zero
       DEF IInv, TypeOK, RowTyped, PromptsTyped, FiberTyped, HostTyped,
           Counted, Early
  <2>2. PromptsTyped'
    BY DEF IInv, TypeOK, RowTyped, PromptsTyped, FiberTyped, HostTyped
  <2>3. FiberTyped'
    BY DEF IInv, TypeOK, RowTyped, PromptsTyped, FiberTyped, HostTyped,
           Phases, Owned, Hook, Running, Ending
  <2>4. HostTyped'
    BY LimitAssumption, NoPosition
       DEF IInv, TypeOK, RowTyped, PromptsTyped, FiberTyped, HostTyped,
           Counted, Early
  <2> QED BY <2>1, <2>2, <2>3, <2>4 DEF TypeOK
<1>2. IInv'
  BY <1>1, LimitAssumption
     DEF IInv, Early, Recovering, TypeOK, RowTyped, PromptsTyped, FiberTyped,
         HostTyped, Phases, Owned, Hook, Running, Ending, Counted, Fresh,
         Gone, EndsIdle, IdleIsStored, Limited, Resumable, InFlight,
         ParkedIsUnmarked
<1> QED BY <1>1, <1>2

LEMMA LoadIInv ==
  ASSUME IInv, Load
  PROVE  IInv'
<1> USE DEF Load, DrainEnds, Heal, Interruptible, row, store, drainVars,
            fiber, flags, clients, host, owedVars
<1>1. TypeOK'
  BY LimitAssumption
     DEF IInv, Counted, Early, TypeOK, RowTyped, PromptsTyped, FiberTyped,
         HostTyped, Phases, Owned, Hook, Running, Ending
<1>2. IInv'
  BY <1>1, LimitAssumption
     DEF IInv, Early, Recovering, TypeOK, RowTyped, PromptsTyped, FiberTyped,
         HostTyped, Phases, Owned, Hook, Running, Ending, Counted, Fresh,
         Gone, EndsIdle, IdleIsStored, Limited, Resumable, InFlight,
         ParkedIsUnmarked
<1> QED BY <1>1, <1>2

LEMMA PromoteIInv ==
  ASSUME IInv, NEW S \in SUBSET Prompts, Promote(S)
  PROVE  IInv'
<1> USE DEF Promote, row, store, drainVars, fiber, flags, clients, host,
            owedVars
<1>1. TypeOK'
  BY LimitAssumption
     DEF IInv, Counted, Early, TypeOK, RowTyped, PromptsTyped, FiberTyped,
         HostTyped, Phases, Owned, Hook, Running, Ending
<1>2. IInv'
  BY <1>1, LimitAssumption
     DEF IInv, Early, Recovering, TypeOK, RowTyped, PromptsTyped, FiberTyped,
         HostTyped, Phases, Owned, Hook, Running, Ending, Counted, Fresh,
         Gone, EndsIdle, IdleIsStored, Limited, Resumable, InFlight,
         ParkedIsUnmarked
<1> QED BY <1>1, <1>2

LEMMA RequestIInv ==
  ASSUME IInv, Request
  PROVE  IInv'
<1> USE DEF Request, row, store, drainVars, fiber, flags, clients, host,
            owedVars
<1>1. TypeOK'
  <2>1. RowTyped'
    BY LimitAssumption, Zero
       DEF IInv, TypeOK, RowTyped, PromptsTyped, FiberTyped, HostTyped,
           Counted, Early
  <2>2. PromptsTyped'
    BY DEF IInv, TypeOK, RowTyped, PromptsTyped, FiberTyped, HostTyped
  <2>3. FiberTyped'
    BY DEF IInv, TypeOK, RowTyped, PromptsTyped, FiberTyped, HostTyped,
           Phases, Owned, Hook, Running, Ending
  <2>4. HostTyped'
    BY LimitAssumption, NoPosition
       DEF IInv, TypeOK, RowTyped, PromptsTyped, FiberTyped, HostTyped,
           Counted, Early
  <2> QED BY <2>1, <2>2, <2>3, <2>4 DEF TypeOK
<1>2. IInv'
  BY <1>1, LimitAssumption
     DEF IInv, Early, Recovering, TypeOK, RowTyped, PromptsTyped, FiberTyped,
         HostTyped, Phases, Owned, Hook, Running, Ending, Counted, Fresh,
         Gone, EndsIdle, IdleIsStored, Limited, Resumable, InFlight,
         ParkedIsUnmarked
<1> QED BY <1>1, <1>2

LEMMA RespondIInv ==
  ASSUME IInv, NEW kind \in {"final", "tools"}, Respond(kind)
  PROVE  IInv'
<1> USE DEF Respond, row, store, drainVars, fiber, flags, clients, host,
            owedVars
<1>1. TypeOK'
  <2>1. RowTyped'
    BY LimitAssumption, Zero
       DEF IInv, TypeOK, RowTyped, PromptsTyped, FiberTyped, HostTyped,
           Counted, Early
  <2>2. PromptsTyped'
    BY DEF IInv, TypeOK, RowTyped, PromptsTyped, FiberTyped, HostTyped
  <2>3. FiberTyped'
    BY DEF IInv, TypeOK, RowTyped, PromptsTyped, FiberTyped, HostTyped,
           Phases, Owned, Hook, Running, Ending
  <2>4. HostTyped'
    BY LimitAssumption, NoPosition
       DEF IInv, TypeOK, RowTyped, PromptsTyped, FiberTyped, HostTyped,
           Counted, Early
  <2> QED BY <2>1, <2>2, <2>3, <2>4 DEF TypeOK
<1>2. IInv'
  BY <1>1, LimitAssumption
     DEF IInv, Early, Recovering, TypeOK, RowTyped, PromptsTyped, FiberTyped,
         HostTyped, Phases, Owned, Hook, Running, Ending, Counted, Fresh,
         Gone, EndsIdle, IdleIsStored, Limited, Resumable, InFlight,
         ParkedIsUnmarked
<1> QED BY <1>1, <1>2

LEMMA CommitIInv ==
  ASSUME IInv, Commit
  PROVE  IInv'
<1> USE DEF Commit, GotOn, row, store, drainVars, fiber, flags, clients, host,
            owedVars
<1>1. TypeOK'
  <2>1. RowTyped'
    BY LimitAssumption, Zero
       DEF IInv, TypeOK, RowTyped, PromptsTyped, FiberTyped, HostTyped,
           Counted, Early
  <2>2. PromptsTyped'
    BY DEF IInv, TypeOK, RowTyped, PromptsTyped, FiberTyped, HostTyped
  <2>3. FiberTyped'
    BY DEF IInv, TypeOK, RowTyped, PromptsTyped, FiberTyped, HostTyped,
           Phases, Owned, Hook, Running, Ending
  <2>4. HostTyped'
    BY LimitAssumption, NoPosition
       DEF IInv, TypeOK, RowTyped, PromptsTyped, FiberTyped, HostTyped,
           Counted, Early
  <2> QED BY <2>1, <2>2, <2>3, <2>4 DEF TypeOK
<1>2. IInv'
  BY <1>1, LimitAssumption
     DEF IInv, Early, Recovering, TypeOK, RowTyped, PromptsTyped, FiberTyped,
         HostTyped, Phases, Owned, Hook, Running, Ending, Counted, Fresh,
         Gone, EndsIdle, IdleIsStored, Limited, Resumable, InFlight,
         ParkedIsUnmarked
<1> QED BY <1>1, <1>2

LEMMA FollowIInv ==
  ASSUME IInv, Follow
  PROVE  IInv'
<1> USE DEF Follow, DrainEnds, LetGo, Promoted, Pending, row, store,
            drainVars, fiber, flags, clients, host, owedVars
<1>1. TypeOK'
  <2>1. RowTyped'
    BY LimitAssumption, Zero
       DEF IInv, TypeOK, RowTyped, PromptsTyped, FiberTyped, HostTyped,
           Counted, Early
  <2>2. PromptsTyped'
    BY DEF IInv, TypeOK, RowTyped, PromptsTyped, FiberTyped, HostTyped
  <2>3. FiberTyped'
    <3>1. phase' \in Phases
      BY DEF Phases, Owned, Running, Ending
    <3>2. continuing' \in BOOLEAN /\ outcome' \in {outcome, "left", "drained"}
      BY DEF IInv, TypeOK, FiberTyped
    <3> QED
      BY <3>1, <3>2 DEF IInv, TypeOK, RowTyped, PromptsTyped, FiberTyped, HostTyped,
           Phases, Owned, Hook, Running, Ending
  <2>4. HostTyped'
    BY LimitAssumption, NoPosition
       DEF IInv, TypeOK, RowTyped, PromptsTyped, FiberTyped, HostTyped,
           Counted, Early
  <2> QED BY <2>1, <2>2, <2>3, <2>4 DEF TypeOK
<1>2. IInv'
  BY <1>1, LimitAssumption
     DEF IInv, Early, Recovering, TypeOK, RowTyped, PromptsTyped, FiberTyped,
         HostTyped, Phases, Owned, Hook, Running, Ending, Counted, Fresh,
         Gone, EndsIdle, IdleIsStored, Limited, Resumable, InFlight,
         ParkedIsUnmarked
<1> QED BY <1>1, <1>2

LEMMA IdleRunIInv ==
  ASSUME IInv, IdleRun
  PROVE  IInv'
<1> USE DEF IdleRun, GotOn, DrainEnds, LetGo, Park, row, store, drainVars, fiber,
            flags, clients, host, owedVars
<1>1. TypeOK'
  <2>1. RowTyped'
    BY LimitAssumption, Zero
       DEF IInv, TypeOK, RowTyped, PromptsTyped, FiberTyped, HostTyped,
           Counted, Early
  <2>2. PromptsTyped'
    BY DEF IInv, TypeOK, RowTyped, PromptsTyped, FiberTyped, HostTyped
  <2>3. FiberTyped'
    BY DEF IInv, TypeOK, RowTyped, PromptsTyped, FiberTyped, HostTyped,
           Phases, Owned, Hook, Running, Ending
  <2>4. HostTyped'
    BY LimitAssumption, NoPosition
       DEF IInv, TypeOK, RowTyped, PromptsTyped, FiberTyped, HostTyped,
           Counted, Early
  <2> QED BY <2>1, <2>2, <2>3, <2>4 DEF TypeOK
<1>2. IInv'
  BY <1>1, LimitAssumption
     DEF IInv, Early, Recovering, TypeOK, RowTyped, PromptsTyped, FiberTyped,
         HostTyped, Phases, Owned, Hook, Running, Ending, Counted, Fresh,
         Gone, EndsIdle, IdleIsStored, Limited, Resumable, InFlight,
         ParkedIsUnmarked
<1> QED BY <1>1, <1>2

LEMMA FailDrainIInv ==
  ASSUME IInv, FailDrain
  PROVE  IInv'
<1> USE DEF FailDrain, DraftLeft, DrainEnds, LetGo, row, store, drainVars, fiber, flags,
            clients, host, owedVars
<1>1. TypeOK'
  BY LimitAssumption
     DEF IInv, Counted, Early, TypeOK, RowTyped, PromptsTyped, FiberTyped,
         HostTyped, Phases, Owned, Hook, Running, Ending
<1>2. IInv'
  BY <1>1, LimitAssumption
     DEF IInv, Early, Recovering, TypeOK, RowTyped, PromptsTyped, FiberTyped,
         HostTyped, Phases, Owned, Hook, Running, Ending, Counted, Fresh,
         Gone, EndsIdle, IdleIsStored, Limited, Resumable, InFlight,
         ParkedIsUnmarked
<1> QED BY <1>1, <1>2

LEMMA RedrainIInv ==
  ASSUME IInv, Redrain
  PROVE  IInv'
<1> USE DEF Redrain, row, store, drainVars, fiber, flags, clients, host,
            owedVars
<1>1. TypeOK'
  <2>1. RowTyped'
    BY LimitAssumption, Zero
       DEF IInv, TypeOK, RowTyped, PromptsTyped, FiberTyped, HostTyped,
           Counted, Early
  <2>2. PromptsTyped'
    BY DEF IInv, TypeOK, RowTyped, PromptsTyped, FiberTyped, HostTyped
  <2>3. FiberTyped'
    BY DEF IInv, TypeOK, RowTyped, PromptsTyped, FiberTyped, HostTyped,
           Phases, Owned, Hook, Running, Ending
  <2>4. HostTyped'
    BY LimitAssumption, NoPosition
       DEF IInv, TypeOK, RowTyped, PromptsTyped, FiberTyped, HostTyped,
           Counted, Early
  <2> QED BY <2>1, <2>2, <2>3, <2>4 DEF TypeOK
<1>2. IInv'
  BY <1>1, LimitAssumption
     DEF IInv, Early, Recovering, TypeOK, RowTyped, PromptsTyped, FiberTyped,
         HostTyped, Phases, Owned, Hook, Running, Ending, Counted, Fresh,
         Gone, EndsIdle, IdleIsStored, Limited, Resumable, InFlight,
         ParkedIsUnmarked
<1> QED BY <1>1, <1>2

LEMMA DrainAgainIInv ==
  ASSUME IInv, DrainAgain
  PROVE  IInv'
<1> USE DEF DrainAgain, row, store, drainVars, fiber, flags, clients, host,
            owedVars
<1>1. TypeOK'
  BY LimitAssumption
     DEF IInv, Counted, Early, TypeOK, RowTyped, PromptsTyped, FiberTyped,
         HostTyped, Phases, Owned, Hook, Running, Ending
<1>2. IInv'
  BY <1>1, LimitAssumption
     DEF IInv, Early, Recovering, TypeOK, RowTyped, PromptsTyped, FiberTyped,
         HostTyped, Phases, Owned, Hook, Running, Ending, Counted, Fresh,
         Gone, EndsIdle, IdleIsStored, Limited, Resumable, InFlight,
         ParkedIsUnmarked
<1> QED BY <1>1, <1>2

LEMMA DecideIInv ==
  ASSUME IInv, Decide
  PROVE  IInv'
<1> USE DEF Decide, row, store, drainVars, fiber, flags, clients, host,
            owedVars
<1>1. TypeOK'
  BY LimitAssumption
     DEF IInv, Counted, Early, TypeOK, RowTyped, PromptsTyped, FiberTyped,
         HostTyped, Phases, Owned, Hook, Running, Ending
<1>2. IInv'
  BY <1>1, LimitAssumption
     DEF IInv, Early, Recovering, TypeOK, RowTyped, PromptsTyped, FiberTyped,
         HostTyped, Phases, Owned, Hook, Running, Ending, Counted, Fresh,
         Gone, EndsIdle, IdleIsStored, Limited, Resumable, InFlight,
         ParkedIsUnmarked
<1> QED BY <1>1, <1>2

LEMMA DecideInterruptedIInv ==
  ASSUME IInv, DecideInterrupted
  PROVE  IInv'
<1> USE DEF DecideInterrupted, DraftLeft, GotOn, Interruptible, row,
            store, drainVars, fiber, flags, clients, host, owedVars
<1>1. TypeOK'
  <2>1. RowTyped'
    BY LimitAssumption, Zero
       DEF IInv, TypeOK, RowTyped, PromptsTyped, FiberTyped, HostTyped,
           Counted, Early
  <2>2. PromptsTyped'
    BY DEF IInv, TypeOK, RowTyped, PromptsTyped, FiberTyped, HostTyped
  <2>3. FiberTyped'
    BY DEF IInv, TypeOK, RowTyped, PromptsTyped, FiberTyped, HostTyped,
           Phases, Owned, Hook, Running, Ending
  <2>4. HostTyped'
    <3>1. fell' \in BOOLEAN /\ crashes' \in Nat
      <4>1. fell \in BOOLEAN /\ crashes \in Nat
        BY DEF IInv, TypeOK, HostTyped
      <4>2. fell' = fell \/ fell' = FALSE
        OBVIOUS
      <4>3. crashes' = crashes \/ crashes' = 0
        OBVIOUS
      <4>4. fell' \in BOOLEAN
        BY <4>1, <4>2
      <4>5. crashes' \in Nat
        BY <4>1, <4>3
      <4> QED BY <4>4, <4>5
    <3> QED
      BY <3>1, NoPosition DEF IInv, TypeOK, HostTyped
  <2> QED BY <2>1, <2>2, <2>3, <2>4 DEF TypeOK
<1>2. restarts' \in {restarts, 0} /\ recovering' \in {recovering, FALSE}
  OBVIOUS
<1>0. recovering' => recovering
  BY <1>2
<1>3. restarts' \in Nat /\ restarts \in Nat /\ restarts' <= restarts
  BY <1>1, <1>2, LimitAssumption DEF IInv, TypeOK, RowTyped
<1>4. Limited'
  BY <1>0, <1>3, LimitAssumption DEF IInv, TypeOK, HostTyped, Limited
<1>5. IInv'
  BY <1>1, <1>0, <1>3, <1>4, LimitAssumption
     DEF IInv, Early, Recovering, TypeOK, RowTyped, PromptsTyped, FiberTyped,
         HostTyped, Phases, Owned, Hook, Running, Ending, Counted, Fresh,
         Gone, EndsIdle, IdleIsStored, Limited, Resumable, InFlight,
         ParkedIsUnmarked
<1> QED BY <1>5

LEMMA EndExecutionIInv ==
  ASSUME IInv, EndExecution
  PROVE  IInv'
<1> USE DEF EndExecution, EndsLoop, Terminal, Park, row, store, drainVars, fiber,
            flags, clients, host, owedVars
<1>1. TypeOK'
  <2>1. RowTyped'
    BY LimitAssumption, Zero
       DEF IInv, TypeOK, RowTyped, PromptsTyped, FiberTyped, HostTyped,
           Counted, Early
  <2>2. PromptsTyped'
    BY DEF IInv, TypeOK, RowTyped, PromptsTyped, FiberTyped, HostTyped
  <2>3. FiberTyped'
    BY DEF IInv, TypeOK, RowTyped, PromptsTyped, FiberTyped, HostTyped,
           Phases, Owned, Hook, Running, Ending
  <2>4. HostTyped'
    BY LimitAssumption, NoPosition
       DEF IInv, TypeOK, RowTyped, PromptsTyped, FiberTyped, HostTyped,
           Counted, Early
  <2> QED BY <2>1, <2>2, <2>3, <2>4 DEF TypeOK
<1>2. IInv'
  BY <1>1, LimitAssumption
     DEF IInv, Early, Recovering, TypeOK, RowTyped, PromptsTyped, FiberTyped,
         HostTyped, Phases, Owned, Hook, Running, Ending, Counted, Fresh,
         Gone, EndsIdle, IdleIsStored, Limited, Resumable, InFlight,
         ParkedIsUnmarked
<1> QED BY <1>1, <1>2

LEMMA SettleIInv ==
  ASSUME IInv, Settle
  PROVE  IInv'
<1> USE DEF Settle, Fork, LetGo, row, store, drainVars, fiber, flags,
            clients, host, owedVars
<1>1. TypeOK'
  <2>1. RowTyped'
    BY LimitAssumption, Zero
       DEF IInv, TypeOK, RowTyped, PromptsTyped, FiberTyped, HostTyped,
           Counted, Early
  <2>2. PromptsTyped'
    BY DEF IInv, TypeOK, RowTyped, PromptsTyped, FiberTyped, HostTyped
  <2>3. FiberTyped'
    BY DEF IInv, TypeOK, RowTyped, PromptsTyped, FiberTyped, HostTyped,
           Phases, Owned, Hook, Running, Ending
  <2>4. HostTyped'
    BY LimitAssumption, NoPosition
       DEF IInv, TypeOK, RowTyped, PromptsTyped, FiberTyped, HostTyped,
           Counted, Early
  <2> QED BY <2>1, <2>2, <2>3, <2>4 DEF TypeOK
<1>2. IInv'
  BY <1>1, LimitAssumption
     DEF IInv, Early, Recovering, TypeOK, RowTyped, PromptsTyped, FiberTyped,
         HostTyped, Phases, Owned, Hook, Running, Ending, Counted, Fresh,
         Gone, EndsIdle, IdleIsStored, Limited, Resumable, InFlight,
         ParkedIsUnmarked
<1> QED BY <1>1, <1>2

LEMMA ListIInv ==
  ASSUME IInv, List
  PROVE  IInv'
<1> USE DEF List, row, store, drainVars, fiber, flags, clients, host,
            owedVars
<1>1. TypeOK'
  BY LimitAssumption
     DEF IInv, Counted, Early, TypeOK, RowTyped, PromptsTyped, FiberTyped,
         HostTyped, Phases, Owned, Hook, Running, Ending
<1>2. IInv'
  BY <1>1, LimitAssumption
     DEF IInv, Early, Recovering, TypeOK, RowTyped, PromptsTyped, FiberTyped,
         HostTyped, Phases, Owned, Hook, Running, Ending, Counted, Fresh,
         Gone, EndsIdle, IdleIsStored, Limited, Resumable, InFlight,
         ParkedIsUnmarked
<1> QED BY <1>1, <1>2

LEMMA CheckIInv ==
  ASSUME IInv, Check
  PROVE  IInv'
<1> USE DEF Check, row, store, drainVars, fiber, flags, clients, host,
            owedVars
<1>1. TypeOK'
  BY LimitAssumption
     DEF IInv, Counted, Early, TypeOK, RowTyped, PromptsTyped, FiberTyped,
         HostTyped, Phases, Owned, Hook, Running, Ending
<1>2. IInv'
  BY <1>1, LimitAssumption
     DEF IInv, Early, Recovering, TypeOK, RowTyped, PromptsTyped, FiberTyped,
         HostTyped, Phases, Owned, Hook, Running, Ending, Counted, Fresh,
         Gone, EndsIdle, IdleIsStored, Limited, Resumable, InFlight,
         ParkedIsUnmarked
<1> QED BY <1>1, <1>2

LEMMA ClaimRestartIInv ==
  ASSUME IInv, ClaimRestart
  PROVE  IInv'
<1> USE DEF ClaimRestart, Counts, row, store, drainVars, fiber, flags, clients,
            host, owedVars
<1>1. TypeOK'
  <2>1. RowTyped'
    BY LimitAssumption, Zero
       DEF IInv, TypeOK, RowTyped, PromptsTyped, FiberTyped, HostTyped,
           Counted, Early
  <2>2. PromptsTyped'
    BY DEF IInv, TypeOK, RowTyped, PromptsTyped, FiberTyped, HostTyped
  <2>3. FiberTyped'
    BY DEF IInv, TypeOK, RowTyped, PromptsTyped, FiberTyped, HostTyped,
           Phases, Owned, Hook, Running, Ending
  <2>4. HostTyped'
    <3>1. fell' \in BOOLEAN /\ crashes' \in Nat
      <4>1. fell \in BOOLEAN /\ crashes \in Nat
        BY DEF IInv, TypeOK, HostTyped
      <4>2. fell' = fell \/ fell' = FALSE
        OBVIOUS
      <4>3. crashes' = crashes \/ crashes' = crashes + 1
        OBVIOUS
      <4>4. fell' \in BOOLEAN
        BY <4>1, <4>2
      <4>5. crashes' \in Nat
        BY <4>1, <4>3
      <4> QED BY <4>4, <4>5
    <3> QED
      BY <3>1, NoPosition DEF IInv, TypeOK, HostTyped
  <2> QED BY <2>1, <2>2, <2>3, <2>4 DEF TypeOK
<1>2. IInv'
  BY <1>1, LimitAssumption
     DEF IInv, Early, Recovering, TypeOK, RowTyped, PromptsTyped, FiberTyped,
         HostTyped, Phases, Owned, Hook, Running, Ending, Counted, Fresh,
         Gone, EndsIdle, IdleIsStored, Limited, Resumable, InFlight,
         ParkedIsUnmarked
<1> QED BY <1>1, <1>2

LEMMA RecoverIInv ==
  ASSUME IInv, Recover
  PROVE  IInv'
<1> USE DEF Recover, Fork, row, store, drainVars, fiber, flags, clients,
            host, owedVars
<1>1. TypeOK'
  <2>1. RowTyped'
    BY LimitAssumption, Zero
       DEF IInv, TypeOK, RowTyped, PromptsTyped, FiberTyped, HostTyped,
           Counted, Early
  <2>2. PromptsTyped'
    BY DEF IInv, TypeOK, RowTyped, PromptsTyped, FiberTyped, HostTyped
  <2>3. FiberTyped'
    <3>1. CASE phase = "none"
      BY <3>1, Forked DEF IInv, TypeOK
    <3>2. CASE phase # "none"
      BY <3>2
         DEF IInv, TypeOK, FiberTyped, Phases, Owned, Hook, Running, Ending
    <3> QED BY <3>1, <3>2
  <2>4. HostTyped'
    BY LimitAssumption, NoPosition
       DEF IInv, TypeOK, RowTyped, PromptsTyped, FiberTyped, HostTyped,
           Counted, Early
  <2> QED BY <2>1, <2>2, <2>3, <2>4 DEF TypeOK
<1>2. IInv'
  BY <1>1, LimitAssumption
     DEF IInv, Early, Recovering, TypeOK, RowTyped, PromptsTyped, FiberTyped,
         HostTyped, Phases, Owned, Hook, Running, Ending, Counted, Fresh,
         Gone, EndsIdle, IdleIsStored, Limited, Resumable, InFlight,
         ParkedIsUnmarked
<1> QED BY <1>1, <1>2

LEMMA BootIInv ==
  ASSUME IInv, Boot
  PROVE  IInv'
<1> USE DEF Boot, row, store, drainVars, fiber, flags, clients, host,
            owedVars
<1>1. TypeOK'
  BY LimitAssumption
     DEF IInv, Counted, Early, TypeOK, RowTyped, PromptsTyped, FiberTyped,
         HostTyped, Phases, Owned, Hook, Running, Ending
<1>2. IInv'
  BY <1>1, LimitAssumption
     DEF IInv, Early, Recovering, TypeOK, RowTyped, PromptsTyped, FiberTyped,
         HostTyped, Phases, Owned, Hook, Running, Ending, Counted, Fresh,
         Gone, EndsIdle, IdleIsStored, Limited, Resumable, InFlight,
         ParkedIsUnmarked
<1> QED BY <1>1, <1>2

LEMMA DownIInv ==
  ASSUME IInv, Down
  PROVE  IInv'
<1> USE DEF Down, AtWork, row, store, drainVars, fiber, flags, clients, host,
            owedVars
<1>1. TypeOK'
  <2>1. RowTyped'
    BY LimitAssumption, Zero
       DEF IInv, TypeOK, RowTyped, PromptsTyped, FiberTyped, HostTyped,
           Counted, Early
  <2>2. PromptsTyped'
    BY DEF IInv, TypeOK, RowTyped, PromptsTyped, FiberTyped, HostTyped
  <2>3. FiberTyped'
    BY DEF IInv, TypeOK, RowTyped, PromptsTyped, FiberTyped, HostTyped,
           Phases, Owned, Hook, Running, Ending
  <2>4. HostTyped'
    <3>1. downs' \in 0..MaxDowns
      BY LimitAssumption DEF IInv, TypeOK, HostTyped
    <3>2. cut' \in BOOLEAN
      BY DEF IInv, TypeOK, HostTyped, AtWork
    <3>3. stopper' \in [Stoppers -> {"idle", "reading", "waiting",
                                     "withdrawing", "done"}]
      BY DEF IInv, TypeOK, HostTyped
    <3>4. fell' \in BOOLEAN /\ crashes' \in Nat
      BY DEF IInv, TypeOK, HostTyped
    <3> QED BY <3>1, <3>2, <3>3, <3>4, NoPosition DEF HostTyped
  <2> QED BY <2>1, <2>2, <2>3, <2>4 DEF TypeOK
<1>2. IInv'
  BY <1>1, LimitAssumption
     DEF IInv, Early, Recovering, TypeOK, RowTyped, PromptsTyped, FiberTyped,
         HostTyped, Phases, Owned, Hook, Running, Ending, Counted, Fresh,
         Gone, EndsIdle, IdleIsStored, Limited, Resumable, InFlight,
         ParkedIsUnmarked
<1> QED BY <1>1, <1>2

LEMMA ShutdownIInv ==
  ASSUME IInv, Shutdown
  PROVE  IInv'
<1> USE DEF Shutdown, Serving, Claim, row, store, drainVars, fiber, flags,
            clients, host, owedVars
<1>1. TypeOK'
  BY LimitAssumption
     DEF IInv, Counted, Early, TypeOK, RowTyped, PromptsTyped, FiberTyped,
         HostTyped, Phases, Owned, Hook, Running, Ending
<1>2. IInv'
  BY <1>1, LimitAssumption
     DEF IInv, Early, Recovering, TypeOK, RowTyped, PromptsTyped, FiberTyped,
         HostTyped, Phases, Owned, Hook, Running, Ending, Counted, Fresh,
         Gone, EndsIdle, IdleIsStored, Limited, Resumable, InFlight,
         ParkedIsUnmarked
<1> QED BY <1>1, <1>2

LEMMA AdmitIInv ==
  ASSUME IInv, NEW p \in Prompts, Admit(p)
  PROVE  IInv'
<1> USE DEF Admit, Serving, row, store, drainVars, fiber, flags, clients,
            host, owedVars
<1>1. TypeOK'
  BY LimitAssumption
     DEF IInv, Counted, Early, TypeOK, RowTyped, PromptsTyped, FiberTyped,
         HostTyped, Phases, Owned, Hook, Running, Ending
<1>2. IInv'
  BY <1>1, LimitAssumption
     DEF IInv, Early, Recovering, TypeOK, RowTyped, PromptsTyped, FiberTyped,
         HostTyped, Phases, Owned, Hook, Running, Ending, Counted, Fresh,
         Gone, EndsIdle, IdleIsStored, Limited, Resumable, InFlight,
         ParkedIsUnmarked
<1> QED BY <1>1, <1>2

LEMMA MarkPromptIInv ==
  ASSUME IInv, NEW p \in Prompts, MarkPrompt(p)
  PROVE  IInv'
<1> USE DEF MarkPrompt, Park, row, store, drainVars, fiber, flags, clients,
            host, owedVars
<1>1. TypeOK'
  BY LimitAssumption
     DEF IInv, Counted, Early, TypeOK, RowTyped, PromptsTyped, FiberTyped,
         HostTyped, Phases, Owned, Hook, Running, Ending
<1>2. IInv'
  BY <1>1, LimitAssumption
     DEF IInv, Early, Recovering, TypeOK, RowTyped, PromptsTyped, FiberTyped,
         HostTyped, Phases, Owned, Hook, Running, Ending, Counted, Fresh,
         Gone, EndsIdle, IdleIsStored, Limited, Resumable, InFlight,
         ParkedIsUnmarked
<1> QED BY <1>1, <1>2

LEMMA AcceptIInv ==
  ASSUME IInv, NEW p \in Prompts, Accept(p)
  PROVE  IInv'
<1> USE DEF Accept, Fork, row, store, drainVars, fiber, flags, clients, host,
            owedVars
<1>1. TypeOK'
  <2>1. RowTyped'
    BY LimitAssumption, Zero
       DEF IInv, TypeOK, RowTyped, PromptsTyped, FiberTyped, HostTyped,
           Counted, Early
  <2>2. PromptsTyped'
    BY DEF IInv, TypeOK, RowTyped, PromptsTyped, FiberTyped, HostTyped
  <2>3. FiberTyped'
    <3>1. CASE phase = "none"
      BY <3>1, Forked DEF IInv, TypeOK
    <3>2. CASE phase # "none"
      BY <3>2
         DEF IInv, TypeOK, FiberTyped, Phases, Owned, Hook, Running, Ending
    <3> QED BY <3>1, <3>2
  <2>4. HostTyped'
    BY LimitAssumption, NoPosition
       DEF IInv, TypeOK, RowTyped, PromptsTyped, FiberTyped, HostTyped,
           Counted, Early
  <2> QED BY <2>1, <2>2, <2>3, <2>4 DEF TypeOK
<1>2. IInv'
  BY <1>1, LimitAssumption
     DEF IInv, Early, Recovering, TypeOK, RowTyped, PromptsTyped, FiberTyped,
         HostTyped, Phases, Owned, Hook, Running, Ending, Counted, Fresh,
         Gone, EndsIdle, IdleIsStored, Limited, Resumable, InFlight,
         ParkedIsUnmarked
<1> QED BY <1>1, <1>2

LEMMA StopReadsIInv ==
  ASSUME IInv, NEW c \in Stoppers, StopReads(c)
  PROVE  IInv'
<1> USE DEF StopReads, Serving, row, store, drainVars, fiber, flags, clients,
            host, owedVars
<1>1. TypeOK'
  BY LimitAssumption
     DEF IInv, Counted, Early, TypeOK, RowTyped, PromptsTyped, FiberTyped,
         HostTyped, Phases, Owned, Hook, Running, Ending
<1>2. IInv'
  BY <1>1, LimitAssumption
     DEF IInv, Early, Recovering, TypeOK, RowTyped, PromptsTyped, FiberTyped,
         HostTyped, Phases, Owned, Hook, Running, Ending, Counted, Fresh,
         Gone, EndsIdle, IdleIsStored, Limited, Resumable, InFlight,
         ParkedIsUnmarked
<1> QED BY <1>1, <1>2

LEMMA StopIInv ==
  ASSUME IInv, NEW c \in Stoppers, Stop(c)
  PROVE  IInv'
<1> USE DEF Stop, Serving, Claim, LetGo, Accepted, Pending, row, store,
            drainVars, fiber, flags, clients, host, owedVars
<1>1. TypeOK'
  BY LimitAssumption
     DEF IInv, Counted, Early, TypeOK, RowTyped, PromptsTyped, FiberTyped,
         HostTyped, Phases, Owned, Hook, Running, Ending
<1>2. IInv'
  BY <1>1, LimitAssumption
     DEF IInv, Early, Recovering, TypeOK, RowTyped, PromptsTyped, FiberTyped,
         HostTyped, Phases, Owned, Hook, Running, Ending, Counted, Fresh,
         Gone, EndsIdle, IdleIsStored, Limited, Resumable, InFlight,
         ParkedIsUnmarked
<1> QED BY <1>1, <1>2

LEMMA StopWithdrawsIInv ==
  ASSUME IInv, NEW c \in Stoppers, StopWithdraws(c)
  PROVE  IInv'
<1> USE DEF StopWithdraws, row, store, drainVars, fiber, flags, clients,
            host, owedVars
<1>1. TypeOK'
  BY LimitAssumption
     DEF IInv, Counted, Early, TypeOK, RowTyped, PromptsTyped, FiberTyped,
         HostTyped, Phases, Owned, Hook, Running, Ending
<1>2. IInv'
  BY <1>1, LimitAssumption
     DEF IInv, Early, Recovering, TypeOK, RowTyped, PromptsTyped, FiberTyped,
         HostTyped, Phases, Owned, Hook, Running, Ending, Counted, Fresh,
         Gone, EndsIdle, IdleIsStored, Limited, Resumable, InFlight,
         ParkedIsUnmarked
<1> QED BY <1>1, <1>2

(* Every step of the thread service, of a stop, of a crash and of a start  *)
(* keeps the invariant of the runs.                                        *)
THEOREM NextIInv == IInv /\ [Next]_vars => IInv'
<1> SUFFICES ASSUME IInv, [Next]_vars PROVE IInv'
  OBVIOUS
<1>1. CASE Fiber
  BY <1>1, MarkStartedIInv, AnnounceIInv, OpenDrainIInv, LoadIInv,
     PromoteIInv, RequestIInv, RespondIInv, CommitIInv, FollowIInv,
     IdleRunIInv, FailDrainIInv, RedrainIInv, DrainAgainIInv, DecideIInv,
     DecideInterruptedIInv, EndExecutionIInv, SettleIInv
     DEF Fiber
<1>2. CASE Recovery \/ Boot \/ Down \/ Shutdown
  BY <1>2, ListIInv, CheckIInv, ClaimRestartIInv, RecoverIInv, BootIInv,
     DownIInv, ShutdownIInv
     DEF Recovery
<1>3. ASSUME NEW p \in Prompts, Prompt(p) PROVE IInv'
  BY <1>3, AdmitIInv, MarkPromptIInv, AcceptIInv DEF Prompt
<1>4. ASSUME NEW c \in Stoppers, StopReads(c) \/ Stop(c) \/ StopWithdraws(c)
      PROVE  IInv'
  BY <1>4, StopReadsIInv, StopIInv, StopWithdrawsIInv
<1>5. CASE UNCHANGED vars
  BY <1>5
     DEF vars, row, store, drainVars, fiber, flags, clients, host, owedVars,
         IInv, TypeOK, RowTyped, PromptsTyped, FiberTyped, HostTyped,
         Counted, Fresh, Gone, EndsIdle, IdleIsStored, Limited,
         Resumable, InFlight, ParkedIsUnmarked, Recovering, Pending
<1> QED BY <1>1, <1>2, <1>3, <1>4, <1>5 DEF Next

-----------------------------------------------------------------------------
(* MInv is inductive beside it.                                            *)

(* A run that finished keeps the mark for any prompt that is queued.       *)
LEMMA NoneKept ==
  ASSUME Terminal = "finished", Kept = {}
  PROVE  Pending = {}
BY DEF Kept

(* What is said of the marks of execution holds at first.                  *)
THEOREM InitMInv == Init /\ ~Resends => MInv
BY DEF Init, MInv, OwedIsOpen, MarkedIsMarked, Answered, Stopping,
       AcceptedIsMarked, OwedIsQueued, Over, Owed, Unfinished, Pending,
       Promoted, Recovering

LEMMA MarkStartedMInv ==
  ASSUME IInv, MInv, MarkStarted
  PROVE  MInv'
BY DEF MarkStarted, Park, row, store, drainVars, fiber, flags, clients, host,
       owedVars, IInv, TypeOK, RowTyped, PromptsTyped, FiberTyped, HostTyped,
       MInv, Owed, Pending, Promoted, Unfinished, OwedIsOpen, MarkedIsMarked,
       Answered, Stopping, AcceptedIsMarked, OwedIsQueued, Over,
       ParkedIsUnmarked, Gone, Fresh, Recovering, Serving, Interruptible,
       Phases, Owned, Hook, Running, Ending

LEMMA AnnounceMInv ==
  ASSUME IInv, MInv, Announce
  PROVE  MInv'
BY DEF Announce, row, store, drainVars, fiber, flags, clients, host,
       owedVars, IInv, TypeOK, RowTyped, PromptsTyped, FiberTyped, HostTyped,
       MInv, Owed, Pending, Promoted, Unfinished, OwedIsOpen, MarkedIsMarked,
       Answered, Stopping, AcceptedIsMarked, OwedIsQueued, Over,
       ParkedIsUnmarked, Gone, Fresh, Recovering, Serving, Interruptible,
       Phases, Owned, Hook, Running, Ending

LEMMA OpenDrainMInv ==
  ASSUME IInv, MInv, OpenDrain
  PROVE  MInv'
BY DEF OpenDrain, DrainEnds, Heal, Interruptible, row, store, drainVars,
       fiber, flags, clients, host, owedVars, IInv, TypeOK, RowTyped,
       PromptsTyped, FiberTyped, HostTyped, MInv, Owed, Pending, Promoted,
       Unfinished, OwedIsOpen, MarkedIsMarked, Answered, Stopping,
       AcceptedIsMarked, OwedIsQueued, Over, ParkedIsUnmarked, Gone, Fresh,
       Recovering, Serving, Phases, Owned, Hook, Running, Ending

LEMMA LoadMInv ==
  ASSUME IInv, MInv, Load
  PROVE  MInv'
BY DEF Load, DrainEnds, Heal, Interruptible, row, store, drainVars, fiber,
       flags, clients, host, owedVars, IInv, TypeOK, RowTyped, PromptsTyped,
       FiberTyped, HostTyped, MInv, Owed, Pending, Promoted, Unfinished,
       OwedIsOpen, MarkedIsMarked, Answered, Stopping, AcceptedIsMarked,
       OwedIsQueued, Over, ParkedIsUnmarked, Gone, Fresh, Recovering,
       Serving, Phases, Owned, Hook, Running, Ending

LEMMA PromoteMInv ==
  ASSUME IInv, MInv, NEW S \in SUBSET Prompts, Promote(S)
  PROVE  MInv'
BY DEF Promote, row, store, drainVars, fiber, flags, clients, host, owedVars,
       IInv, TypeOK, RowTyped, PromptsTyped, FiberTyped, HostTyped, MInv,
       Owed, Pending, Promoted, Unfinished, OwedIsOpen, MarkedIsMarked,
       Answered, Stopping, AcceptedIsMarked, OwedIsQueued, Over,
       ParkedIsUnmarked, Gone, Fresh, Recovering, Serving, Interruptible,
       Phases, Owned, Hook, Running, Ending

LEMMA RequestMInv ==
  ASSUME IInv, MInv, Request
  PROVE  MInv'
BY DEF Request, row, store, drainVars, fiber, flags, clients, host, owedVars,
       IInv, TypeOK, RowTyped, PromptsTyped, FiberTyped, HostTyped, MInv,
       Owed, Pending, Promoted, Unfinished, OwedIsOpen, MarkedIsMarked,
       Answered, Stopping, AcceptedIsMarked, OwedIsQueued, Over,
       ParkedIsUnmarked, Gone, Fresh, Recovering, Serving, Interruptible,
       Phases, Owned, Hook, Running, Ending

LEMMA RespondMInv ==
  ASSUME IInv, MInv, NEW kind \in {"final", "tools"}, Respond(kind)
  PROVE  MInv'
BY DEF Respond, row, store, drainVars, fiber, flags, clients, host, owedVars,
       IInv, TypeOK, RowTyped, PromptsTyped, FiberTyped, HostTyped, MInv,
       Owed, Pending, Promoted, Unfinished, OwedIsOpen, MarkedIsMarked,
       Answered, Stopping, AcceptedIsMarked, OwedIsQueued, Over,
       ParkedIsUnmarked, Gone, Fresh, Recovering, Serving, Interruptible,
       Phases, Owned, Hook, Running, Ending

LEMMA CommitMInv ==
  ASSUME IInv, MInv, Commit
  PROVE  MInv'
BY DEF Commit, GotOn, row, store, drainVars, fiber, flags, clients, host, owedVars,
       IInv, TypeOK, RowTyped, PromptsTyped, FiberTyped, HostTyped, MInv,
       Owed, Pending, Promoted, Unfinished, OwedIsOpen, MarkedIsMarked,
       Answered, Stopping, AcceptedIsMarked, OwedIsQueued, Over,
       ParkedIsUnmarked, Gone, Fresh, Recovering, Serving, Interruptible,
       Phases, Owned, Hook, Running, Ending

LEMMA FollowMInv ==
  ASSUME IInv, MInv, Follow
  PROVE  MInv'
BY DEF Follow, DrainEnds, LetGo, Promoted, Pending, row, store, drainVars,
       fiber, flags, clients, host, owedVars, IInv, TypeOK, RowTyped,
       PromptsTyped, FiberTyped, HostTyped, MInv, Owed, Unfinished,
       OwedIsOpen, MarkedIsMarked, Answered, Stopping, AcceptedIsMarked,
       OwedIsQueued, Over, ParkedIsUnmarked, Gone, Fresh, Recovering,
       Serving, Interruptible, Phases, Owned, Hook, Running, Ending

LEMMA IdleRunMInv ==
  ASSUME IInv, MInv, IdleRun
  PROVE  MInv'
BY DEF IdleRun, GotOn, DrainEnds, LetGo, Park, row, store, drainVars, fiber, flags,
       clients, host, owedVars, IInv, TypeOK, RowTyped, PromptsTyped,
       FiberTyped, HostTyped, MInv, Owed, Pending, Promoted, Unfinished,
       OwedIsOpen, MarkedIsMarked, Answered, Stopping, AcceptedIsMarked,
       OwedIsQueued, Over, ParkedIsUnmarked, Gone, Fresh, Recovering,
       Serving, Interruptible, Phases, Owned, Hook, Running, Ending

LEMMA FailDrainMInv ==
  ASSUME IInv, MInv, FailDrain
  PROVE  MInv'
BY DEF FailDrain, DraftLeft, DrainEnds, LetGo, row, store, drainVars, fiber, flags,
       clients, host, owedVars, IInv, TypeOK, RowTyped, PromptsTyped,
       FiberTyped, HostTyped, MInv, Owed, Pending, Promoted, Unfinished,
       OwedIsOpen, MarkedIsMarked, Answered, Stopping, AcceptedIsMarked,
       OwedIsQueued, Over, ParkedIsUnmarked, Gone, Fresh, Recovering,
       Serving, Interruptible, Phases, Owned, Hook, Running, Ending

LEMMA RedrainMInv ==
  ASSUME IInv, MInv, Redrain
  PROVE  MInv'
BY DEF Redrain, row, store, drainVars, fiber, flags, clients, host, owedVars,
       IInv, TypeOK, RowTyped, PromptsTyped, FiberTyped, HostTyped, MInv,
       Owed, Pending, Promoted, Unfinished, OwedIsOpen, MarkedIsMarked,
       Answered, Stopping, AcceptedIsMarked, OwedIsQueued, Over,
       ParkedIsUnmarked, Gone, Fresh, Recovering, Serving, Interruptible,
       Phases, Owned, Hook, Running, Ending

LEMMA DrainAgainMInv ==
  ASSUME IInv, MInv, DrainAgain
  PROVE  MInv'
BY DEF DrainAgain, row, store, drainVars, fiber, flags, clients, host,
       owedVars, IInv, TypeOK, RowTyped, PromptsTyped, FiberTyped, HostTyped,
       MInv, Owed, Pending, Promoted, Unfinished, OwedIsOpen, MarkedIsMarked,
       Answered, Stopping, AcceptedIsMarked, OwedIsQueued, Over,
       ParkedIsUnmarked, Gone, Fresh, Recovering, Serving, Interruptible,
       Phases, Owned, Hook, Running, Ending

LEMMA DecideMInv ==
  ASSUME IInv, MInv, Decide
  PROVE  MInv'
BY DEF Decide, row, store, drainVars, fiber, flags, clients, host, owedVars,
       IInv, TypeOK, RowTyped, PromptsTyped, FiberTyped, HostTyped, MInv,
       Owed, Pending, Promoted, Unfinished, OwedIsOpen, MarkedIsMarked,
       Answered, Stopping, AcceptedIsMarked, OwedIsQueued, Over,
       ParkedIsUnmarked, Gone, Fresh, Recovering, Serving, Interruptible,
       Phases, Owned, Hook, Running, Ending

LEMMA DecideInterruptedMInv ==
  ASSUME IInv, MInv, DecideInterrupted
  PROVE  MInv'
BY DEF DecideInterrupted, DraftLeft, GotOn, Interruptible, row, store, drainVars, fiber, flags,
       clients, host, owedVars, IInv, TypeOK, RowTyped, PromptsTyped,
       FiberTyped, HostTyped, MInv, Owed, Pending, Promoted, Unfinished,
       OwedIsOpen, MarkedIsMarked, Answered, Stopping, AcceptedIsMarked,
       OwedIsQueued, Over, ParkedIsUnmarked, Gone, Fresh, Recovering,
       Serving, Phases, Owned, Hook, Running, Ending

LEMMA EndExecutionMInv ==
  ASSUME IInv, MInv, EndExecution
  PROVE  MInv'
BY NoneKept
   DEF EndExecution, EndsLoop, Terminal, Park, row, store, drainVars, fiber, flags,
       clients, host, owedVars, IInv, TypeOK, RowTyped, PromptsTyped,
       FiberTyped, HostTyped, MInv, Owed, Pending, Promoted, Unfinished,
       OwedIsOpen, MarkedIsMarked, Answered, Stopping, AcceptedIsMarked,
       OwedIsQueued, Over, ParkedIsUnmarked, Gone, Fresh, Recovering,
       Serving, Interruptible, Phases, Owned, Hook, Running, Ending

LEMMA SettleMInv ==
  ASSUME IInv, MInv, Settle
  PROVE  MInv'
BY DEF Settle, Fork, LetGo, row, store, drainVars, fiber, flags, clients,
       host, owedVars, IInv, TypeOK, RowTyped, PromptsTyped, FiberTyped,
       HostTyped, MInv, Owed, Pending, Promoted, Unfinished, OwedIsOpen,
       MarkedIsMarked, Answered, Stopping, AcceptedIsMarked, OwedIsQueued,
       Over, ParkedIsUnmarked, Gone, Fresh, Recovering, Serving,
       Interruptible, Phases, Owned, Hook, Running, Ending

LEMMA ListMInv ==
  ASSUME IInv, MInv, List
  PROVE  MInv'
BY DEF List, row, store, drainVars, fiber, flags, clients, host, owedVars,
       IInv, TypeOK, RowTyped, PromptsTyped, FiberTyped, HostTyped, MInv,
       Owed, Pending, Promoted, Unfinished, OwedIsOpen, MarkedIsMarked,
       Answered, Stopping, AcceptedIsMarked, OwedIsQueued, Over,
       ParkedIsUnmarked, Gone, Fresh, Recovering, Serving, Interruptible,
       Phases, Owned, Hook, Running, Ending

LEMMA CheckMInv ==
  ASSUME IInv, MInv, Check
  PROVE  MInv'
BY DEF Check, row, store, drainVars, fiber, flags, clients, host, owedVars,
       IInv, TypeOK, RowTyped, PromptsTyped, FiberTyped, HostTyped, MInv,
       Owed, Pending, Promoted, Unfinished, OwedIsOpen, MarkedIsMarked,
       Answered, Stopping, AcceptedIsMarked, OwedIsQueued, Over,
       ParkedIsUnmarked, Gone, Fresh, Recovering, Serving, Interruptible,
       Phases, Owned, Hook, Running, Ending

LEMMA ClaimRestartMInv ==
  ASSUME IInv, MInv, ClaimRestart
  PROVE  MInv'
BY DEF ClaimRestart, Counts, row, store, drainVars, fiber, flags, clients, host,
       owedVars, IInv, TypeOK, RowTyped, PromptsTyped, FiberTyped, HostTyped,
       MInv, Owed, Pending, Promoted, Unfinished, OwedIsOpen, MarkedIsMarked,
       Answered, Stopping, AcceptedIsMarked, OwedIsQueued, Over,
       ParkedIsUnmarked, Gone, Fresh, Recovering, Serving, Interruptible,
       Phases, Owned, Hook, Running, Ending

LEMMA RecoverMInv ==
  ASSUME IInv, MInv, Recover
  PROVE  MInv'
BY DEF Recover, Fork, row, store, drainVars, fiber, flags, clients, host,
       owedVars, IInv, TypeOK, RowTyped, PromptsTyped, FiberTyped, HostTyped,
       MInv, Owed, Pending, Promoted, Unfinished, OwedIsOpen, MarkedIsMarked,
       Answered, Stopping, AcceptedIsMarked, OwedIsQueued, Over,
       ParkedIsUnmarked, Gone, Fresh, Recovering, Serving, Interruptible,
       Phases, Owned, Hook, Running, Ending

LEMMA BootMInv ==
  ASSUME IInv, MInv, Boot
  PROVE  MInv'
BY DEF Boot, row, store, drainVars, fiber, flags, clients, host, owedVars,
       IInv, TypeOK, RowTyped, PromptsTyped, FiberTyped, HostTyped, MInv,
       Owed, Pending, Promoted, Unfinished, OwedIsOpen, MarkedIsMarked,
       Answered, Stopping, AcceptedIsMarked, OwedIsQueued, Over,
       ParkedIsUnmarked, Gone, Fresh, Recovering, Serving, Interruptible,
       Phases, Owned, Hook, Running, Ending

LEMMA DownMInv ==
  ASSUME IInv, MInv, Down
  PROVE  MInv'
BY DEF Down, AtWork, row, store, drainVars, fiber, flags, clients, host,
       owedVars, IInv, TypeOK, RowTyped, PromptsTyped, FiberTyped, HostTyped,
       MInv, Owed, Pending, Promoted, Unfinished, OwedIsOpen, MarkedIsMarked,
       Answered, Stopping, AcceptedIsMarked, OwedIsQueued, Over,
       ParkedIsUnmarked, Gone, Fresh, Recovering, Serving, Interruptible,
       Phases, Owned, Hook, Running, Ending

LEMMA ShutdownMInv ==
  ASSUME IInv, MInv, Shutdown
  PROVE  MInv'
BY DEF Shutdown, Serving, Claim, row, store, drainVars, fiber, flags,
       clients, host, owedVars, IInv, TypeOK, RowTyped, PromptsTyped,
       FiberTyped, HostTyped, MInv, Owed, Pending, Promoted, Unfinished,
       OwedIsOpen, MarkedIsMarked, Answered, Stopping, AcceptedIsMarked,
       OwedIsQueued, Over, ParkedIsUnmarked, Gone, Fresh, Recovering,
       Interruptible, Phases, Owned, Hook, Running, Ending

LEMMA AdmitMInv ==
  ASSUME IInv, MInv, NEW p \in Prompts, Admit(p)
  PROVE  MInv'
BY DEF Admit, Serving, row, store, drainVars, fiber, flags, clients, host,
       owedVars, IInv, TypeOK, RowTyped, PromptsTyped, FiberTyped, HostTyped,
       MInv, Owed, Pending, Promoted, Unfinished, OwedIsOpen, MarkedIsMarked,
       Answered, Stopping, AcceptedIsMarked, OwedIsQueued, Over,
       ParkedIsUnmarked, Gone, Fresh, Recovering, Interruptible, Phases,
       Owned, Hook, Running, Ending

LEMMA MarkPromptMInv ==
  ASSUME IInv, MInv, NEW p \in Prompts, MarkPrompt(p)
  PROVE  MInv'
BY DEF MarkPrompt, Park, row, store, drainVars, fiber, flags, clients, host,
       owedVars, IInv, TypeOK, RowTyped, PromptsTyped, FiberTyped, HostTyped,
       MInv, Owed, Pending, Promoted, Unfinished, OwedIsOpen, MarkedIsMarked,
       Answered, Stopping, AcceptedIsMarked, OwedIsQueued, Over,
       ParkedIsUnmarked, Gone, Fresh, Recovering, Serving, Interruptible,
       Phases, Owned, Hook, Running, Ending

LEMMA AcceptMInv ==
  ASSUME IInv, MInv, NEW p \in Prompts, Accept(p)
  PROVE  MInv'
BY DEF Accept, Fork, row, store, drainVars, fiber, flags, clients, host,
       owedVars, IInv, TypeOK, RowTyped, PromptsTyped, FiberTyped, HostTyped,
       MInv, Owed, Pending, Promoted, Unfinished, OwedIsOpen, MarkedIsMarked,
       Answered, Stopping, AcceptedIsMarked, OwedIsQueued, Over,
       ParkedIsUnmarked, Gone, Fresh, Recovering, Serving, Interruptible,
       Phases, Owned, Hook, Running, Ending

LEMMA StopReadsMInv ==
  ASSUME IInv, MInv, NEW c \in Stoppers, StopReads(c)
  PROVE  MInv'
BY DEF StopReads, Serving, row, store, drainVars, fiber, flags, clients,
       host, owedVars, IInv, TypeOK, RowTyped, PromptsTyped, FiberTyped,
       HostTyped, MInv, Owed, Pending, Promoted, Unfinished, OwedIsOpen,
       MarkedIsMarked, Answered, Stopping, AcceptedIsMarked, OwedIsQueued,
       Over, ParkedIsUnmarked, Gone, Fresh, Recovering, Interruptible,
       Phases, Owned, Hook, Running, Ending

LEMMA StopMInv ==
  ASSUME IInv, MInv, NEW c \in Stoppers, Stop(c)
  PROVE  MInv'
BY DEF Stop, Serving, Claim, LetGo, Accepted, Pending, row, store, drainVars,
       fiber, flags, clients, host, owedVars, IInv, TypeOK, RowTyped,
       PromptsTyped, FiberTyped, HostTyped, MInv, Owed, Promoted, Unfinished,
       OwedIsOpen, MarkedIsMarked, Answered, Stopping, AcceptedIsMarked,
       OwedIsQueued, Over, ParkedIsUnmarked, Gone, Fresh, Recovering,
       Interruptible, Phases, Owned, Hook, Running, Ending

LEMMA StopWithdrawsMInv ==
  ASSUME IInv, MInv, NEW c \in Stoppers, StopWithdraws(c)
  PROVE  MInv'
BY DEF StopWithdraws, row, store, drainVars, fiber, flags, clients, host,
       owedVars, IInv, TypeOK, RowTyped, PromptsTyped, FiberTyped, HostTyped,
       MInv, Owed, Pending, Promoted, Unfinished, OwedIsOpen, MarkedIsMarked,
       Answered, Stopping, AcceptedIsMarked, OwedIsQueued, Over,
       ParkedIsUnmarked, Gone, Fresh, Recovering, Serving, Interruptible,
       Phases, Owned, Hook, Running, Ending

(* Every step keeps what is said of the marks of execution.                *)
THEOREM NextMInv == IInv /\ MInv /\ [Next]_vars => MInv'
<1> SUFFICES ASSUME IInv, MInv, [Next]_vars PROVE MInv'
  OBVIOUS
<1>1. CASE Fiber
  BY <1>1, MarkStartedMInv, AnnounceMInv, OpenDrainMInv, LoadMInv,
     PromoteMInv, RequestMInv, RespondMInv, CommitMInv, FollowMInv,
     IdleRunMInv, FailDrainMInv, RedrainMInv, DrainAgainMInv, DecideMInv,
     DecideInterruptedMInv, EndExecutionMInv, SettleMInv
     DEF Fiber
<1>2. CASE Recovery \/ Boot \/ Down \/ Shutdown
  BY <1>2, ListMInv, CheckMInv, ClaimRestartMInv, RecoverMInv, BootMInv,
     DownMInv, ShutdownMInv
     DEF Recovery
<1>3. ASSUME NEW p \in Prompts, Prompt(p) PROVE MInv'
  BY <1>3, AdmitMInv, MarkPromptMInv, AcceptMInv DEF Prompt
<1>4. ASSUME NEW c \in Stoppers, StopReads(c) \/ Stop(c) \/ StopWithdraws(c)
      PROVE  MInv'
  BY <1>4, StopReadsMInv, StopMInv, StopWithdrawsMInv
<1>5. CASE UNCHANGED vars
  BY <1>5
     DEF vars, row, store, drainVars, fiber, flags, clients, host, owedVars,
         MInv, OwedIsOpen, MarkedIsMarked, Answered, Stopping,
         AcceptedIsMarked, OwedIsQueued, Over, Owed, Unfinished, Pending,
         Promoted, Recovering
<1> QED BY <1>1, <1>2, <1>3, <1>4, <1>5 DEF Next

-----------------------------------------------------------------------------
(* The invariant of the runs holds in every state.                         *)
THEOREM Invariance == Spec => []IInv
<1> QED BY InitIInv, NextIInv, PTL DEF Spec

(* The marks of execution are right in every state.                        *)
THEOREM MarkInvariance == Spec /\ ~Resends => []MInv
<1> QED BY InitMInv, NextMInv, Invariance, PTL DEF Spec

(* Type correctness: of the row, the prompts, the fiber and the process.   *)
(* The count of restarts is bounded by the deaths there were.              *)
THEOREM TypeCorrect == Spec => []TypeOK
<1>1. IInv => TypeOK
  BY DEF IInv
<1> QED BY <1>1, Invariance, PTL

(* Where nobody executes a run, none is stored as going on                 *)
(* (server.ts:56).                                                         *)
THEOREM IdlesAreStored == Spec => []IdleIsStored
<1>1. IInv => IdleIsStored
  BY DEF IInv
<1> QED BY <1>1, Invariance, PTL

(* A run that finds a request in flight was preceded by a process that     *)
(* died at work (loop.ts:605).                                             *)
THEOREM DeadHostsLeaveThem == Spec => []InFlightIsADeadHosts
<1>1. IInv => InFlightIsADeadHosts
  BY DEF IInv, InFlight, InFlightIsADeadHosts
<1> QED BY <1>1, Invariance, PTL

(* A recovery does not resume what a stop has parked (control.ts:281,      *)
(* execute.ts:145).                                                        *)
THEOREM StopsAreFinal == Spec => []StopsStand
<1>1. IInv => StopsStand
  BY DEF IInv, ParkedIsUnmarked, StopsStand, Resuming, Unfinished, Pending,
         Promoted
<1> QED BY <1>1, Invariance, PTL

(* An accepted prompt leaves its thread marked until it is answered, let   *)
(* go or parked, if clients send each prompt once (control.ts:145).        *)
THEOREM AcceptedAreMarked == Spec /\ ~Resends => []AcceptedIsMarked
<1>1. MInv => AcceptedIsMarked
  BY DEF MInv
<1> QED BY <1>1, MarkInvariance, PTL

-----------------------------------------------------------------------------
(* A run that takes the process down is not resumed for ever.              *)

(* What a crash cut off is counted by the column, unless it got on since:  *)
(* the claim finds the mark of a run, which only a shutdown turns into one *)
(* that is not counted.                                                    *)
Tolled ==
  /\ crashes <= restarts
  /\ fell => mark # "closed"
  /\ phase \in Hook \cup {"opening", "drained", "looping"} \cup Running \cup Ending
       => mark # "closed"
  /\ Recovering /\ ~closing => mark # "closed"

LEMMA NextStopping == TypeOK /\ Stopping /\ [Next]_vars => Stopping'
<1> SUFFICES ASSUME TypeOK, Stopping, [Next]_vars PROVE Stopping'
  OBVIOUS
<1> USE DEF Stopping, vars, store, drainVars, fiber, flags, clients, host
<1>1. CASE Fiber
  <2>1. CASE DecideInterrupted
    BY <2>1 DEF DecideInterrupted, Interruptible, TypeOK, FiberTyped
  <2>2. CASE Settle \/ EndExecution
    BY <2>2 DEF Settle, EndExecution, Fork
  <2> QED
    BY <1>1, <2>1, <2>2 DEF Fiber, DrainEnds, MarkStarted, Announce, OpenDrain,
       Load, Promote, Request, Respond, Commit, Follow, IdleRun, FailDrain,
       Redrain, DrainAgain, Decide, Running
<1>2. CASE Recovery
  BY <1>2 DEF Recovery, List, Check, ClaimRestart, Recover, Fork
<1>3. CASE Boot \/ Down \/ UNCHANGED vars
  BY <1>3 DEF Boot, Down
<1>4. ASSUME NEW p \in Prompts, Prompt(p) PROVE Stopping'
  BY <1>4 DEF Prompt, Admit, MarkPrompt, Accept, Fork
<1>5. CASE Shutdown
  BY <1>5 DEF Shutdown, Claim, Owned
<1>6. ASSUME NEW c \in Stoppers, StopReads(c) \/ StopWithdraws(c) PROVE Stopping'
  BY <1>6 DEF StopReads, StopWithdraws
<1>7. ASSUME NEW c \in Stoppers, Stop(c) PROVE Stopping'
  BY <1>7 DEF Stop, Claim, Owned, Hook, Running, Ending
<1> QED BY <1>1, <1>2, <1>3, <1>4, <1>5, <1>6, <1>7 DEF Next

LEMMA NextTolled == IInv /\ Stopping /\ Tolled /\ [Next]_vars => Tolled'
<1> SUFFICES ASSUME IInv, Stopping, Tolled, [Next]_vars PROVE Tolled'
  OBVIOUS
<1>1. /\ restarts \in Nat /\ crashes \in Nat /\ fell \in BOOLEAN
      /\ mark \in {"none", "running", "closed"}
      /\ recovering => Recovering
  BY LimitAssumption DEF IInv, TypeOK, RowTyped, HostTyped, Fresh
<1> USE <1>1 DEF Tolled, vars, row, store, drainVars, fiber, flags, clients, host,
                 Recovering
<1>2. CASE Fiber
  <2>1. CASE MarkStarted
    BY <2>1 DEF MarkStarted
  <2>2. CASE OpenDrain \/ Load
    BY <2>2 DEF OpenDrain, Load, Heal, DrainEnds, Running, Ending, Hook
  <2>3. CASE Commit \/ IdleRun
    BY <2>3 DEF Commit, IdleRun, GotOn, DrainEnds, Running, Ending, Hook
  <2>4. CASE DecideInterrupted
    BY <2>4 DEF DecideInterrupted, GotOn, Running, Ending, Hook
  <2>5. CASE EndExecution
    <3>1. CASE Terminal = "closed"
      <4>1. closing
        BY <2>5, <3>1 DEF EndExecution, Terminal, Stopping
      <4> QED
        BY <2>5, <3>1, <4>1 DEF EndExecution, EndsLoop, Running, Ending, Hook
    <3>2. CASE Terminal # "closed"
      BY <2>5, <3>2 DEF EndExecution, EndsLoop, Running, Ending, Hook
    <3> QED BY <3>1, <3>2
  <2>6. CASE Settle
    BY <2>6 DEF Settle, Fork, Running, Ending, Hook
  <2> QED
    BY <1>2, <2>1, <2>2, <2>3, <2>4, <2>5, <2>6 DEF Fiber, DrainEnds, Announce,
       Promote, Request, Respond, Follow, FailDrain, Redrain, DrainAgain,
       Decide, Running, Ending, Hook
<1>3. CASE Recovery
  BY <1>3 DEF Recovery, List, Check, ClaimRestart, Counts, Recover, Fork,
     Running, Ending, Hook
<1>4. CASE Boot \/ Down \/ UNCHANGED vars
  BY <1>4 DEF Boot, Down, Running, Ending, Hook
<1>5. ASSUME NEW p \in Prompts, Prompt(p) PROVE Tolled'
  BY <1>5 DEF Prompt, Admit, MarkPrompt, Accept, Fork, Running, Ending, Hook
<1>6. CASE Shutdown
  BY <1>6 DEF Shutdown
<1>7. ASSUME NEW c \in Stoppers, StopReads(c) \/ Stop(c) \/ StopWithdraws(c)
      PROVE  Tolled'
  BY <1>7 DEF StopReads, Stop, StopWithdraws
<1> QED BY <1>2, <1>3, <1>4, <1>5, <1>6, <1>7 DEF Next

(* A run that crashes cut off as often as the limit allows is not resumed  *)
(* once more, whatever is stopped, sent, healed or shut down beside it     *)
(* (control.ts:59).                                                        *)
THEOREM CrashLoopsEnd == Spec => []CrashLoopEnds
<1>1. Init => Stopping /\ Tolled
  BY DEF Init, Stopping, Tolled, Recovering, Hook, Running, Ending
<1>2. IInv /\ Stopping /\ Tolled /\ [Next]_vars => Stopping' /\ Tolled'
  BY NextStopping, NextTolled DEF IInv
<1>3. IInv /\ Tolled => CrashLoopEnds
  BY LimitAssumption
     DEF IInv, TypeOK, RowTyped, HostTyped, Resumable, Tolled, CrashLoopEnds
<1> QED BY <1>1, <1>2, <1>3, Invariance, PTL DEF Spec

-----------------------------------------------------------------------------
(* The execution of a thread implements the doorbell.                      *)

(* A drain that is repeated is not forced again, and nothing rings where   *)
(* no execution is.                                                        *)
Unforced ==
  /\ phase = "looping" => ~force
  /\ phase = "none" => ~pendingWake

doorbell == <<phase, force, pendingWake, stopping, closing>>

BellStep == Bell!Next \/ (~up' /\ Bell!Crash)

(* What the doorbell is read off.                                          *)
LEMMA BellTyped ==
  ASSUME TypeOK
  PROVE  phase \in Phases /\ force \in BOOLEAN /\ pendingWake \in BOOLEAN
BY DEF TypeOK, FiberTyped

(* What nothing is read off leaves the doorbell alone.                     *)
LEMMA StillBell ==
  ASSUME UNCHANGED doorbell
  PROVE  UNCHANGED Bell!abstractVars
BY DEF doorbell, Drain, Rings, Awaiting, Bell!abstractVars

LEMMA InitUnforced == Init => Unforced
BY DEF Init, Unforced

LEMMA ClaimTyped ==
  ASSUME pendingWake \in BOOLEAN, NEW reason, Claim(reason)
  PROVE  pendingWake' => pendingWake
BY DEF Claim

LEMMA NextUnforced == TypeOK /\ Unforced /\ [Next]_vars => Unforced'
<1> SUFFICES ASSUME TypeOK, Unforced, [Next]_vars PROVE Unforced'
  OBVIOUS
<1> USE DEF Unforced, vars, store, drainVars, fiber, flags, clients, host
<1>1. CASE Fiber
  <2>1. ASSUME phase' \notin {"looping", "none"} PROVE Unforced'
    BY <2>1
  <2>2. CASE Redrain \/ Settle
    BY <2>2 DEF Redrain, Settle, Fork
  <2> QED
    BY <1>1, <2>1, <2>2 DEF Fiber, DrainEnds, MarkStarted, Announce, OpenDrain,
       Load, Promote, Request, Respond, Commit, Follow, IdleRun, FailDrain,
       DrainAgain, Decide, DecideInterrupted, EndExecution
<1>2. CASE Recovery
  BY <1>2 DEF Recovery, List, Check, ClaimRestart, Recover, Fork
<1>3. CASE Boot \/ Down \/ UNCHANGED vars
  BY <1>3 DEF Boot, Down
<1>4. ASSUME NEW p \in Prompts, Prompt(p) PROVE Unforced'
  BY <1>4 DEF Prompt, Admit, MarkPrompt, Accept, Fork
<1>5. CASE Shutdown
  BY <1>5, ClaimTyped, BellTyped DEF Shutdown
<1>6. ASSUME NEW c \in Stoppers, StopReads(c) \/ StopWithdraws(c) PROVE Unforced'
  BY <1>6 DEF StopReads, StopWithdraws
<1>7. ASSUME NEW c \in Stoppers, Stop(c) PROVE Unforced'
  BY <1>7, ClaimTyped, BellTyped DEF Stop
<1> QED BY <1>1, <1>2, <1>3, <1>4, <1>5, <1>6, <1>7 DEF Next

LEMMA InitBell == Init => Bell!Init
BY DEF Init, Bell!Init, Drain, Rings, Awaiting, Running, Ending

(* A drain that opens answers the run that was asked, or one of the rings. *)
LEMMA DrainOpens ==
  ASSUME TypeOK, phase = "opening", ~Interruptible,
         phase' \in Running \cup Ending \cup {"drained"},
         UNCHANGED <<force, pendingWake, stopping, closing>>
  PROVE  Bell!StartDrain
<1>1. stopping = "no" /\ ~closing
  BY DEF Interruptible, Owned, Hook, Running, Ending
<1>2. Drain = "none" /\ Drain' = (IF force THEN "run" ELSE "wake")
  BY DEF Drain, Running, Ending
<1>3. Awaiting /\ ~Awaiting'
  BY <1>1 DEF Awaiting, Running, Ending
<1>4. CASE force
  BY <1>1, <1>2, <1>3, <1>4 DEF Bell!StartDrain, Rings, Phases, Running, Ending
<1>5. CASE ~force
  BY <1>1, <1>2, <1>3, <1>5 DEF Bell!StartDrain, Rings, Phases, Running, Ending
<1> QED BY <1>4, <1>5

(* Within a drain the doorbell hears nothing.                              *)
LEMMA DrainGoesOn ==
  ASSUME phase \in Running \cup Ending, phase' \in Running \cup Ending \cup {"drained"},
         UNCHANGED <<force, pendingWake, stopping, closing>>
  PROVE  UNCHANGED Bell!abstractVars
BY DEF Drain, Rings, Awaiting, Running, Ending, Bell!abstractVars

(* A fresh execution is a ring or a run that was asked, unless it comes    *)
(* too late.                                                               *)
LEMMA ForkRings ==
  ASSUME TypeOK, NEW f \in BOOLEAN, phase = "none", Fork(f), UNCHANGED closing,
         ~pendingWake
  PROVE  Bell!Next
<1>1. /\ phase' = "forked" /\ force' = f /\ ~pendingWake' /\ stopping' = "no"
  BY DEF Fork
<1>2. Drain = "none" /\ Drain' = "none" /\ ~Awaiting /\ Awaiting'
  BY <1>1 DEF Drain, Awaiting, Running, Ending
<1>3. Rings = 0 /\ Rings' = (IF closing \/ f THEN 0 ELSE 1)
  BY <1>1, <1>2 DEF Rings
<1>4. CASE closing
  BY <1>1, <1>2, <1>3, <1>4 DEF Bell!Next, Bell!AnnounceLate
<1>5. CASE ~closing /\ f
  BY <1>1, <1>2, <1>3, <1>5 DEF Bell!Next, Bell!Ask
<1>6. CASE ~closing /\ ~f
  BY <1>1, <1>2, <1>3, <1>6 DEF Bell!Next, Bell!Ring
<1> QED BY <1>4, <1>5, <1>6

(* A stop or a shutdown claims what rings, unless the execution is stopped *)
(* already or there is none.                                               *)
LEMMA ClaimSilences ==
  ASSUME TypeOK, NEW reason \in {"user", "shutdown"}, Claim(reason),
         UNCHANGED <<phase, force>>
  PROVE  /\ (UNCHANGED closing => UNCHANGED Bell!abstractVars \/ Bell!Cancel)
         /\ (closing' => Bell!Close)
<1>1. Drain' = Drain
  BY DEF Drain
<1>2. CASE phase = "none" \/ stopping # "no"
  <2>1. UNCHANGED <<pendingWake, stopping>>
    BY <1>2, BellTyped DEF Claim
  <2>2. ~Awaiting /\ ~Awaiting'
    BY <1>2, <2>1 DEF Awaiting
  <2> QED
    BY <1>1, <2>1, <2>2 DEF Rings, Bell!abstractVars, Bell!Close
<1>3. CASE phase # "none" /\ stopping = "no"
  <2>1. ~pendingWake' /\ (phase \in Owned => stopping' # "no")
    BY <1>3 DEF Claim
  <2>2. ~Awaiting'
    BY <2>1 DEF Awaiting, Owned, Hook
  <2>3. Rings' = 0
    BY <2>1, <2>2 DEF Rings
  <2> QED
    BY <1>1, <1>3, <2>2, <2>3 DEF Bell!Cancel, Bell!Close
<1> QED BY <1>2, <1>3

LEMMA FiberBell ==
  ASSUME TypeOK, Unforced, Fiber
  PROVE  [Bell!Next]_(Bell!abstractVars)
<1>1. CASE MarkStarted \/ Announce
  BY <1>1 DEF MarkStarted, Announce, Drain, Rings, Awaiting, Running, Ending,
     host, fiber, Bell!abstractVars
<1>2. CASE OpenDrain
  BY <1>2, DrainOpens DEF OpenDrain, DrainEnds, Running, Ending, host, Bell!Next
<1>3. CASE FailDrain
  <2>1. CASE phase = "opening"
    BY <1>3, <2>1, DrainOpens DEF FailDrain, DrainEnds, host, Bell!Next
  <2>2. CASE phase # "opening"
    BY <1>3, <2>2, DrainGoesOn DEF FailDrain, DrainEnds, host
  <2> QED BY <2>1, <2>2
<1>4. CASE Load \/ (\E S \in SUBSET Prompts : Promote(S)) \/ Request
           \/ (\E kind \in {"final", "tools"} : Respond(kind))
           \/ Commit \/ Follow \/ IdleRun
  <2>1. /\ phase \in Running \cup Ending
        /\ phase' \in Running \cup Ending \cup {"drained"}
        /\ UNCHANGED <<force, pendingWake, stopping, closing>>
    BY <1>4 DEF Load, Promote, Request, Respond, Commit, Follow, IdleRun,
       DrainEnds, Running, Ending, host
  <2> QED BY <2>1, DrainGoesOn
<1>5. CASE Redrain
  BY <1>5 DEF Redrain, Drain, Rings, Awaiting, Running, Ending, host,
     Bell!EndDrain, Bell!Next
<1>6. CASE DrainAgain
  BY <1>6 DEF DrainAgain, Drain, Rings, Awaiting, Running, Ending, host,
     Bell!abstractVars
<1>7. CASE Decide
  BY <1>7 DEF Decide, Drain, Rings, Awaiting, Running, Ending, host,
     Bell!EndDrain, Bell!Next
<1>8. CASE DecideInterrupted
  <2>1. /\ Interruptible /\ phase \in Owned \ (Hook \cup Ending)
        /\ phase' = "settling"
        /\ UNCHANGED <<force, pendingWake, stopping, closing>>
    BY <1>8 DEF DecideInterrupted, Interruptible, host
  <2>2. closing \/ ~Awaiting
    BY <2>1 DEF Interruptible, Awaiting
  <2>3. ~Awaiting' /\ Drain' = "none" /\ Rings' = Rings
    BY <2>1, <2>2 DEF Awaiting, Drain, Rings, Running, Ending
  <2>4. CASE Drain = "none"
    BY <2>1, <2>2, <2>3, <2>4 DEF Bell!abstractVars, Owned, Hook, Running, Ending
  <2>5. CASE Drain # "none"
    BY <2>1, <2>2, <2>3, <2>5
       DEF Bell!EndDrain, Bell!Next, Drain, Awaiting, Owned, Hook, Running, Ending
  <2> QED BY <2>4, <2>5
<1>9. CASE EndExecution
  BY <1>9 DEF EndExecution, Drain, Rings, Awaiting, Running, Ending, host,
     Bell!abstractVars
<1>10. CASE Settle
  <2>1. CASE pendingWake
    BY <1>10, <2>1 DEF Settle, Fork, Drain, Rings, Awaiting, Running, Ending,
       host, Bell!abstractVars
  <2>2. CASE ~pendingWake
    <3>1. /\ phase = "settled" /\ phase' = "none"
          /\ UNCHANGED <<force, pendingWake, stopping, closing>>
      BY <1>10, <2>2 DEF Settle, host
    <3>2. ~Awaiting /\ ~Awaiting' /\ Drain = "none" /\ Drain' = "none"
      BY <3>1 DEF Awaiting, Drain, Running, Ending
    <3>3. Rings = 0 /\ Rings' = 0
      BY <2>2, <3>1, <3>2 DEF Rings
    <3> QED BY <3>1, <3>2, <3>3 DEF Bell!Rest, Bell!Next
  <2> QED BY <2>1, <2>2
<1> QED
  BY <1>1, <1>2, <1>3, <1>4, <1>5, <1>6, <1>7, <1>8, <1>9, <1>10 DEF Fiber

LEMMA AcceptBell ==
  ASSUME TypeOK, Unforced, NEW p \in Prompts, Accept(p)
  PROVE  [Bell!Next]_(Bell!abstractVars)
<1>1. UNCHANGED closing
  BY DEF Accept, host
<1>2. CASE phase = "none"
  BY <1>1, <1>2, ForkRings DEF Accept, Unforced
<1>3. CASE phase # "none"
  <2>1. pendingWake' /\ UNCHANGED <<phase, force, stopping>>
    BY <1>3 DEF Accept
  <2>2. Drain' = Drain /\ Awaiting' = Awaiting
    BY <2>1 DEF Drain, Awaiting
  <2>3. CASE closing
    BY <1>1, <2>1, <2>2, <2>3 DEF Rings, Bell!abstractVars
  <2>4. CASE ~closing
    <3>1. Rings' \in {Rings, Rings + 1} \cap 1..2
      <4>1. CASE pendingWake
        <5>1. Rings' = Rings /\ Rings \in 1..2
          BY <1>1, <2>1, <2>2, <2>4, <4>1 DEF Rings
        <5> HIDE DEF Rings
        <5> QED BY <5>1
      <4>2. CASE ~pendingWake
        <5>1. Rings' = Rings + 1 /\ Rings \in 0..1
          BY <1>1, <2>1, <2>2, <2>4, <4>2 DEF Rings
        <5>2. Rings + 1 \in 1..2
          BY <5>1
        <5> HIDE DEF Rings
        <5> QED BY <5>1, <5>2
      <4> QED BY <4>1, <4>2
    <3> HIDE DEF Rings
    <3> QED BY <1>1, <1>3, <2>1, <2>2, <2>4, <3>1 DEF Bell!Ring, Bell!Next
  <2> QED BY <2>3, <2>4
<1> QED BY <1>2, <1>3

LEMMA NextBell ==
  TypeOK /\ Unforced /\ [Next]_vars => [BellStep]_(Bell!abstractVars)
<1> SUFFICES ASSUME TypeOK, Unforced, [Next]_vars
             PROVE  [BellStep]_(Bell!abstractVars)
  OBVIOUS
<1>1. CASE Fiber
  BY <1>1, FiberBell DEF BellStep
<1>2. CASE Recovery
  <2>1. CASE UNCHANGED doorbell
    BY <2>1, StillBell
  <2>2. CASE phase = "none" /\ Fork(TRUE) /\ UNCHANGED closing
    BY <2>2, ForkRings DEF Unforced, BellStep
  <2> QED
    BY <1>2, <2>1, <2>2 DEF Recovery, List, Check, ClaimRestart, Recover, host,
       fiber, doorbell
<1>3. CASE Boot
  BY <1>3, StillBell DEF Boot, fiber, doorbell
<1>4. CASE Down
  BY <1>4 DEF Down, Drain, Rings, Awaiting, Running, Ending, BellStep, Bell!Crash
<1>5. CASE Shutdown
  <2>1. Claim("shutdown") /\ closing' /\ UNCHANGED <<phase, force>>
    BY <1>5 DEF Shutdown
  <2>2. Bell!Close
    BY <2>1, ClaimSilences
  <2> QED BY <2>2 DEF Bell!Next, BellStep
<1>6. ASSUME NEW p \in Prompts, Prompt(p)
      PROVE  [BellStep]_(Bell!abstractVars)
  <2>1. CASE Admit(p) \/ MarkPrompt(p)
    BY <2>1, StillBell DEF Admit, MarkPrompt, fiber, host, doorbell
  <2>2. CASE Accept(p)
    BY <2>2, AcceptBell DEF BellStep
  <2> QED BY <1>6, <2>1, <2>2 DEF Prompt
<1>7. ASSUME NEW c \in Stoppers, StopReads(c) \/ Stop(c) \/ StopWithdraws(c)
      PROVE  [BellStep]_(Bell!abstractVars)
  <2>1. CASE StopReads(c) \/ StopWithdraws(c)
    BY <2>1, StillBell DEF StopReads, StopWithdraws, fiber, host, doorbell
  <2>2. CASE Stop(c)
    <3>1. Claim("user") /\ UNCHANGED <<phase, force, closing>>
      BY <2>2 DEF Stop, host
    <3> QED BY <3>1, ClaimSilences DEF Bell!Next, BellStep
  <2> QED BY <1>7, <2>1, <2>2
<1>8. CASE UNCHANGED vars
  BY <1>8, StillBell DEF vars, fiber, host, doorbell
<1> QED BY <1>1, <1>2, <1>3, <1>4, <1>5, <1>6, <1>7, <1>8 DEF Next

(* A wake of the thread is answered by one drain and never by two, across  *)
(* the hooks, failures and recoveries of its runs, and what silences it is *)
(* a stop, a shutdown or the death of the process (coordinator.ts:53-97).  *)
THEOREM Refinement == Spec => ImplementsDoorbell
<1>1. Init => Unforced /\ Bell!Init
  BY InitUnforced, InitBell
<1>2. Spec => []Unforced
  BY <1>1, NextUnforced, TypeCorrect, PTL DEF Spec
<1>3. TypeOK /\ Unforced /\ [Next]_vars =>
        [Bell!Next \/ (~up' /\ Bell!Crash)]_(Bell!abstractVars)
  BY NextBell DEF BellStep
<1> QED
  BY <1>1, <1>2, <1>3, TypeCorrect, PTL DEF Spec, ImplementsDoorbell
=============================================================================
