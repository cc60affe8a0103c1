---------------------------- MODULE Coordinator ----------------------------
(***************************************************************************)
(* The execution process manager of the harness, for one key               *)
(* (src/packages/harness/src/runner/coordinator.ts).                       *)
(*                                                                         *)
(* The keys of the coordinator's map share nothing but the scope their     *)
(* fibers run in, so one key is the whole of it.  An Execution object is   *)
(* an element of a pool; an object that left the map and whose `done` was  *)
(* resolved is garbage, and its element may be drawn again.                *)
(*                                                                         *)
(* The coordinator's fields are variables of the same name, indexed by the *)
(* execution they belong to; `owner` is defined in the phases Owned.  The  *)
(* drain and the two hooks are parameters of the code: here they are the   *)
(* phases during which they run, and a drain ends as it likes.             *)
(***************************************************************************)
EXTENDS Naturals, FiniteSets

CONSTANTS
  Executions,  \* the pool of Execution objects
  Callers,     \* the fibers that call run, awaitIdle and interrupt
  None         \* no execution

ASSUME NoneAssumption == None \notin Executions

VARIABLES
  current,      \* the entry of the map `executions`, or None
  phase,        \* where the fiber of each execution is
  force,        \* what the next or running drain of each was forked with
  pendingWake,
  stopping,
  exit,         \* the exit of the drain, once decided
  caller,       \* what each caller's fiber does
  on,           \* the execution whose `done` it awaits
  result,       \* the exit its run returned
  closing       \* the scope of the fibers is closed

vars == <<current, phase, force, pendingWake, stopping, exit, caller, on,
          result, closing>>

Exits == {"success", "failure", "interrupt"}

Phases == {"free",      \* not an execution
           "forked",    \* at the leading yield
           "starting",  \* in the started hook, uninterruptible
           "draining",
           "looping",   \* at the yield before another drain
           "settling"}  \* exit decided, owner gone, in the settled hook

Owned == {"forked", "starting", "draining", "looping"}

Waiting == {"joining", "retrying", "watching", "stopping"}

TypeOK ==
  /\ current \in Executions \cup {None}
  /\ phase \in [Executions -> Phases]
  /\ force \in [Executions -> BOOLEAN]
  /\ pendingWake \in [Executions -> BOOLEAN]
  /\ stopping \in [Executions -> BOOLEAN]
  /\ exit \in [Executions -> Exits \cup {"none"}]
  /\ caller \in [Callers -> Waiting \cup {"idle", "rerun", "recheck", "returned"}]
  /\ on \in [Callers -> Executions \cup {None}]
  /\ result \in [Callers -> Exits \cup {"none"}]
  /\ closing \in BOOLEAN
  /\ \A e \in Executions : phase[e] = "settling" => exit[e] \in Exits

Init ==
  /\ current = None
  /\ phase = [e \in Executions |-> "free"]
  /\ force = [e \in Executions |-> FALSE]
  /\ pendingWake = [e \in Executions |-> FALSE]
  /\ stopping = [e \in Executions |-> FALSE]
  /\ exit = [e \in Executions |-> "none"]
  /\ caller = [c \in Callers |-> "idle"]
  /\ on = [c \in Callers |-> None]
  /\ result = [c \in Callers |-> "none"]
  /\ closing = FALSE

-----------------------------------------------------------------------------
(* The fiber of an execution.                                              *)

Interruptible(e) == stopping[e] \/ closing

(* The value `start` leaves in the map: a fresh execution e at its leading *)
(* yield.  `freed` is the execution that ends in the same step, or None.   *)
Start(e, f, freed) ==
  /\ phase[e] = "free" /\ e # freed
  /\ current' = e
  /\ phase' = [x \in Executions |->
                 IF x = e THEN "forked" ELSE IF x = freed THEN "free" ELSE phase[x]]
  /\ force' = [force EXCEPT ![e] = f]
  /\ pendingWake' = [pendingWake EXCEPT ![e] = FALSE]
  /\ stopping' = [stopping EXCEPT ![e] = FALSE]
  /\ exit' = [exit EXCEPT ![e] = "none"]

HookStarted(e) ==
  /\ phase[e] = "forked" /\ ~Interruptible(e)
  /\ phase' = [phase EXCEPT ![e] = "starting"]
  /\ UNCHANGED <<current, force, pendingWake, stopping, exit, caller, on,
                 result, closing>>

BeginDrain(e) ==
  /\ phase[e] \in {"starting", "looping"} /\ ~Interruptible(e)
  /\ phase' = [phase EXCEPT ![e] = "draining"]
  /\ UNCHANGED <<current, force, pendingWake, stopping, exit, caller, on,
                 result, closing>>

(* A drain that succeeded is repeated for a wake that came during it.      *)
Redrain(e) ==
  /\ phase[e] = "draining"
  /\ ~stopping[e] /\ pendingWake[e]
  /\ phase' = [phase EXCEPT ![e] = "looping"]
  /\ pendingWake' = [pendingWake EXCEPT ![e] = FALSE]
  /\ force' = [force EXCEPT ![e] = FALSE]
  /\ UNCHANGED <<current, stopping, exit, caller, on, result, closing>>

(* Faulty: the settled hook runs before the exit is known.                 *)
DecideNothing(e, x) ==
  /\ phase[e] = "draining" /\ x \in Exits
  /\ phase' = [phase EXCEPT ![e] = "settling"]
  /\ UNCHANGED <<current, force, pendingWake, stopping, exit, caller, on, result,
                 closing>>

(* The loop is over and the owner is deleted, before the settled hook.  An *)
(* interrupted fiber leaves from any phase it owns; one that drains may    *)
(* also fail, and may succeed unless a wake makes it drain again.          *)
Decide(e, x) ==
  /\ \/ x = "interrupt" /\ phase[e] \in Owned /\ Interruptible(e)
     \/ x = "failure" /\ phase[e] = "draining"
     \/ /\ x = "success" /\ phase[e] = "draining"
        /\ stopping[e] \/ ~pendingWake[e]
  /\ phase' = [phase EXCEPT ![e] = "settling"]
  /\ exit' = [exit EXCEPT ![e] = x]
  /\ UNCHANGED <<current, force, pendingWake, stopping, caller, on, result,
                 closing>>

(* Resolving `done` resumes every fiber that awaits it.                    *)
Release(e) ==
  /\ caller' = [c \in Callers |->
       IF on[c] # e \/ caller[c] \notin Waiting THEN caller[c]
       ELSE CASE caller[c] = "joining"  -> "returned"
              [] caller[c] = "retrying" -> "rerun"
              [] caller[c] = "watching" -> "recheck"
              [] OTHER -> "idle"]
  /\ result' = [c \in Callers |->
       IF on[c] = e /\ caller[c] = "joining" THEN exit[e] ELSE result[c]]
  /\ on' = [c \in Callers |-> IF on[c] = e THEN None ELSE on[c]]

(* Faulty: the map entry is deleted after the successor was put there.     *)
SettleDeletesSuccessor(e) ==
  /\ phase[e] = "settling"
  /\ \/ pendingWake[e] /\ \E s \in Executions :
          /\ phase[s] = "free"
          /\ phase' = [phase EXCEPT ![e] = "free", ![s] = "forked"]
     \/ ~pendingWake[e] /\ phase' = [phase EXCEPT ![e] = "free"]
  /\ current' = None
  /\ Release(e)
  /\ UNCHANGED <<force, pendingWake, stopping, exit, closing>>

(* Faulty: the joiners are resolved only when nothing follows.             *)
SettleForgetsJoiners(e) ==
  /\ phase[e] = "settling"
  /\ \/ /\ pendingWake[e] /\ \E s \in Executions : Start(s, FALSE, e)
        /\ UNCHANGED <<caller, on, result>>
     \/ /\ ~pendingWake[e]
        /\ current' = None
        /\ phase' = [phase EXCEPT ![e] = "free"]
        /\ UNCHANGED <<force, pendingWake, stopping, exit>>
        /\ Release(e)
  /\ UNCHANGED closing

(* Faulty: a wake does not survive the failure of the drain it rang for.   *)
SettleDropsWake(e) ==
  /\ phase[e] = "settling"
  /\ \/ /\ pendingWake[e] /\ exit[e] # "failure"
        /\ \E s \in Executions : Start(s, FALSE, e)
     \/ /\ ~pendingWake[e] \/ exit[e] = "failure"
        /\ current' = None
        /\ phase' = [phase EXCEPT ![e] = "free"]
        /\ UNCHANGED <<force, pendingWake, stopping, exit>>
  /\ Release(e)
  /\ UNCHANGED closing

(* A wake that survived the loop, or came during the settled hook, starts  *)
(* a busy period of its own before the joiners of this one are released.   *)
Settle(e) ==
  /\ phase[e] = "settling"
  /\ \/ pendingWake[e] /\ \E s \in Executions : Start(s, FALSE, e)
     \/ /\ ~pendingWake[e]
        /\ current' = None
        /\ phase' = [phase EXCEPT ![e] = "free"]
        /\ UNCHANGED <<force, pendingWake, stopping, exit>>
  /\ Release(e)
  /\ UNCHANGED closing

-----------------------------------------------------------------------------
(* The operations.                                                         *)

(* run: start while idle, join what is active, or, when that is stopping,  *)
(* wait for its end and run again.                                         *)
Run(c) ==
  /\ caller[c] \in {"idle", "rerun"}
  /\ \/ /\ current = None
        /\ \E e \in Executions :
             /\ Start(e, TRUE, None)
             /\ on' = [on EXCEPT ![c] = e]
        /\ caller' = [caller EXCEPT ![c] = "joining"]
     \/ /\ current # None
        /\ caller' = [caller EXCEPT ![c] =
                        IF stopping[current] THEN "retrying" ELSE "joining"]
        /\ on' = [on EXCEPT ![c] = current]
        /\ UNCHANGED <<current, phase, force, pendingWake, stopping, exit>>
  /\ UNCHANGED <<result, closing>>

Return(c) ==
  /\ caller[c] = "returned"
  /\ caller' = [caller EXCEPT ![c] = "idle"]
  /\ result' = [result EXCEPT ![c] = "none"]
  /\ UNCHANGED <<current, phase, force, pendingWake, stopping, exit, on, closing>>

(* awaitIdle: follow one execution after the other until there is none.    *)
AwaitIdle(c) ==
  /\ caller[c] \in {"idle", "recheck"}
  /\ \/ /\ current # None
        /\ caller' = [caller EXCEPT ![c] = "watching"]
        /\ on' = [on EXCEPT ![c] = current]
     \/ /\ current = None /\ caller[c] = "recheck"
        /\ caller' = [caller EXCEPT ![c] = "idle"]
        /\ UNCHANGED on
  /\ UNCHANGED <<current, phase, force, pendingWake, stopping, exit, result,
                 closing>>

Wake ==
  /\ \/ /\ current # None
        /\ pendingWake' = [pendingWake EXCEPT ![current] = TRUE]
        /\ UNCHANGED <<current, phase, force, stopping, exit>>
     \/ /\ current = None
        /\ \E e \in Executions : Start(e, FALSE, None)
  /\ UNCHANGED <<caller, on, result, closing>>

(* requestInterrupt on the execution the map holds.  With its exit decided *)
(* there is nothing to stop, but the wakes before the request are claimed. *)
Claim ==
  IF current = None THEN UNCHANGED <<pendingWake, stopping>> ELSE
  IF stopping[current] THEN UNCHANGED <<pendingWake, stopping>>
  ELSE /\ pendingWake' = [pendingWake EXCEPT ![current] = FALSE]
       /\ stopping' = IF phase[current] \in Owned
                      THEN [stopping EXCEPT ![current] = TRUE]
                      ELSE stopping

(* interrupt: with awaitSettlement the caller joins the cleanup of the     *)
(* execution it found, whether or not this request is what stopped it.     *)
Interrupt(c, awaitSettlement) ==
  /\ caller[c] = "idle"
  /\ Claim
  /\ \/ /\ awaitSettlement /\ current # None
        /\ caller' = [caller EXCEPT ![c] = "stopping"]
        /\ on' = [on EXCEPT ![c] = current]
     \/ /\ ~awaitSettlement
        /\ UNCHANGED <<caller, on>>
  /\ UNCHANGED <<current, phase, force, exit, result, closing>>

(* The scope of the fibers closes: every fiber in it is interrupted, and   *)
(* so is every fiber forked into it later.                                 *)
Close ==
  /\ ~closing
  /\ closing' = TRUE
  /\ UNCHANGED <<current, phase, force, pendingWake, stopping, exit, caller,
                 on, result>>

-----------------------------------------------------------------------------

Fiber(e) ==
  \/ HookStarted(e) \/ BeginDrain(e) \/ Redrain(e)
  \/ \E x \in Exits : Decide(e, x)
  \/ Settle(e)

Resume(c) ==
  \/ caller[c] = "rerun" /\ Run(c)
  \/ caller[c] = "recheck" /\ AwaitIdle(c)
  \/ Return(c)

Call(c) ==
  \/ caller[c] = "idle" /\ (Run(c) \/ AwaitIdle(c))
  \/ \E awaitSettlement \in BOOLEAN : Interrupt(c, awaitSettlement)

System ==
  \/ \E e \in Executions : Fiber(e)
  \/ \E c \in Callers : Resume(c)

Next ==
  \/ System
  \/ \E c \in Callers : Call(c)
  \/ Wake
  \/ Close

(* The runtime schedules every runnable fiber, and a drain or a hook ends. *)
(* Nothing obliges a client to call.                                       *)
Spec ==
  /\ Init /\ [][Next]_vars
  /\ \A e \in Executions : WF_vars(Fiber(e))
  /\ \A c \in Callers : WF_vars(Resume(c))

-----------------------------------------------------------------------------
(* Properties.                                                             *)

Live(e) == phase[e] # "free"

(* Drains of a key are serialized: whatever a caller, a hook or a          *)
(* settlement does, only the execution the map holds is alive, so no two   *)
(* fibers drain the same key (coordinator.ts:7).                           *)
Serialized ==
  /\ \A e \in Executions : Live(e) <=> e = current
  /\ Cardinality({e \in Executions : phase[e] = "draining"}) <= 1

(* Nobody waits for an execution that is over: its `done` was resolved in  *)
(* the step that took it out of the map, so a caller that captured it just *)
(* before can not hang (coordinator.ts:92-96, 143-145).                    *)
NoOrphanedWaiter ==
  \A c \in Callers :
    /\ caller[c] \in Waiting => on[c] = current /\ current # None
    /\ caller[c] \notin Waiting => on[c] = None

(* A run asked once a stop was accepted is not answered by the stopped     *)
(* execution: only callers that joined before the stop replay its exit     *)
(* (coordinator.ts:102-104).                                               *)
LateRunIsNotStopped ==
  [][\A c \in Callers :
       (caller'[c] = "joining" /\ caller[c] # "joining") => ~stopping'[on'[c]]]_vars

(* What a run returns is the exit the settled hook was given, and only     *)
(* after the hook is through: joiners are released by settlement, last.    *)
JoinersReplayTheExit ==
  [][\A c \in Callers :
       caller[c] = "joining" /\ caller'[c] # "joining" =>
         /\ phase[on[c]] = "settling"
         /\ result'[c] = exit[on[c]]]_vars

(* The doorbell of the abstract specification, read off the live execution. *)
At(phases) == current # None /\ phase[current] \in phases

Drain ==
  IF ~At({"draining"}) THEN "none" ELSE IF force[current] THEN "run" ELSE "wake"

(* A ring is being served from the fork to the drain, and one may wait.    *)
Served ==
  At({"forked", "starting", "looping"}) /\ ~force[current] /\ ~stopping[current]

Waits == current # None /\ pendingWake[current]

Rings ==
  IF closing THEN 0 ELSE (IF Served THEN 1 ELSE 0) + (IF Waits THEN 1 ELSE 0)

Forced ==
  ~closing /\ At({"forked", "starting"}) /\ force[current] /\ ~stopping[current]

Bell == INSTANCE Doorbell WITH
          busy <- current # None, drain <- Drain, rings <- Rings,
          forced <- Forced, closed <- closing

(* The coordinator implements the doorbell: no wake is lost or answered    *)
(* twice, an interruption claims the wakes before it and none after it,    *)
(* only a run that found the key idle is forced, and what was rung is      *)
(* drained in the end.                                                     *)
ImplementsDoorbell == Bell!Spec

(* A stop is answered whatever the other clients do: neither wakes during  *)
(* the cleanup nor the busy period they start keep its caller waiting      *)
(* (coordinator.ts:15-20).                                                 *)
StopsAreAnswered ==
  \A c \in Callers : caller[c] = "stopping" ~> caller[c] = "idle"

(* Once the clients stop calling, every run, retried run and awaitIdle is  *)
(* answered: callers never wait on one another, and no stop, successor or  *)
(* settlement forgets them.                                                *)
CallersAreAnswered ==
  <>[][System]_vars =>
    \A c \in Callers : caller[c] # "idle" ~> caller[c] = "idle"
=============================================================================
