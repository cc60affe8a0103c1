------------------------- MODULE CoordinatorProofs -------------------------
(***************************************************************************)
(* Theorems about the run coordinator, for any pool of execution objects   *)
(* and any set of callers.                                                 *)
(*                                                                         *)
(* IInv is inductive as it stands once the type invariant is in it: that   *)
(* the live execution is the one in the map is what makes every step of    *)
(* `settle` and `start` keep the waiters on the map's entry.               *)
(***************************************************************************)
EXTENDS Coordinator, FiniteSetTheorems, TLAPS

(* The part of Serialized every step needs: alive is what the map holds.   *)
MapHoldsTheLive == \A e \in Executions : Live(e) <=> e = current

IInv == TypeOK /\ MapHoldsTheLive /\ NoOrphanedWaiter

-----------------------------------------------------------------------------

LEMMA InitIInv == Init => IInv
<1> SUFFICES ASSUME Init PROVE IInv
  OBVIOUS
<1>1. TypeOK
  BY DEF Init, TypeOK, Phases
<1>2. MapHoldsTheLive
  BY NoneAssumption DEF Init, MapHoldsTheLive, Live
<1>3. NoOrphanedWaiter
  BY DEF Init, NoOrphanedWaiter, Waiting
<1> QED
  BY <1>1, <1>2, <1>3 DEF IInv

(* What a fresh execution leaves of the state, when the map is empty or    *)
(* its entry is the execution that ends in the same step.                  *)
LEMMA StartStep ==
  ASSUME NEW e \in Executions, NEW f \in BOOLEAN,
         NEW freed \in Executions \cup {None},
         TypeOK, MapHoldsTheLive, freed = current, Start(e, f, freed)
  PROVE  /\ current' = e /\ current' \in Executions
         /\ phase' \in [Executions -> Phases]
         /\ force' \in [Executions -> BOOLEAN]
         /\ pendingWake' \in [Executions -> BOOLEAN]
         /\ stopping' \in [Executions -> BOOLEAN]
         /\ exit' \in [Executions -> Exits \cup {"none"}]
         /\ \A x \in Executions : phase'[x] = IF x = e THEN "forked" ELSE "free"
         /\ ~stopping'[e]
  BY NoneAssumption DEF Start, TypeOK, MapHoldsTheLive, Live, Phases

(* Settlement releases every waiter of the execution that ends.            *)
LEMMA ReleaseStep ==
  ASSUME NEW e \in Executions, e = current, IInv, Release(e),
         phase[e] = "settling"
  PROVE  /\ caller' \in [Callers -> Waiting \cup
                                    {"idle", "rerun", "recheck", "returned"}]
         /\ on' \in [Callers -> Executions \cup {None}]
         /\ result' \in [Callers -> Exits \cup {"none"}]
         /\ \A c \in Callers : caller'[c] \notin Waiting /\ on'[c] = None
  BY NoneAssumption DEF Release, IInv, TypeOK, NoOrphanedWaiter, Waiting, Exits

LEMMA NextIInv == IInv /\ [Next]_vars => IInv'
<1> SUFFICES ASSUME IInv, [Next]_vars PROVE IInv'
  OBVIOUS
<1> USE NoneAssumption DEF IInv
<1>1. ASSUME NEW e \in Executions, HookStarted(e) PROVE IInv'
  BY <1>1 DEF HookStarted, TypeOK, MapHoldsTheLive, NoOrphanedWaiter, Live, Phases
<1>2. ASSUME NEW e \in Executions, BeginDrain(e) PROVE IInv'
  BY <1>2 DEF BeginDrain, TypeOK, MapHoldsTheLive, NoOrphanedWaiter, Live, Phases
<1>3. ASSUME NEW e \in Executions, Redrain(e) PROVE IInv'
  BY <1>3 DEF Redrain, TypeOK, MapHoldsTheLive, NoOrphanedWaiter, Live, Phases
<1>4. ASSUME NEW e \in Executions, NEW x \in Exits, Decide(e, x) PROVE IInv'
  BY <1>4 DEF Decide, TypeOK, MapHoldsTheLive, NoOrphanedWaiter, Live, Phases,
              Exits, Owned
<1>5. ASSUME NEW e \in Executions, Settle(e) PROVE IInv'
  <2>1. e = current /\ phase[e] = "settling"
    BY <1>5 DEF Settle, MapHoldsTheLive, Live
  <2>2. CASE \E s \in Executions : Start(s, FALSE, e)
    <3> PICK s \in Executions : Start(s, FALSE, e)
      BY <2>2
    <3>1. TypeOK' /\ MapHoldsTheLive'
      BY <1>5, <2>1, StartStep, ReleaseStep
      DEF Settle, TypeOK, MapHoldsTheLive, Live
    <3>2. NoOrphanedWaiter'
      BY <1>5, <2>1, ReleaseStep DEF Settle, NoOrphanedWaiter
    <3> QED
      BY <3>1, <3>2
  <2>3. CASE /\ current' = None
             /\ phase' = [phase EXCEPT ![e] = "free"]
             /\ UNCHANGED <<force, pendingWake, stopping, exit>>
    <3>1. TypeOK'
      BY <1>5, <2>1, <2>3, ReleaseStep DEF Settle, TypeOK, Phases
    <3>2. MapHoldsTheLive'
      BY <2>1, <2>3 DEF MapHoldsTheLive, Live, TypeOK
    <3>3. NoOrphanedWaiter'
      BY <1>5, <2>1, ReleaseStep DEF Settle, NoOrphanedWaiter
    <3> QED
      BY <3>1, <3>2, <3>3
  <2> QED
    BY <1>5, <2>2, <2>3 DEF Settle
<1>6. ASSUME NEW c \in Callers, Run(c) PROVE IInv'
  <2>1. CASE current = None
    <3> PICK e \in Executions : Start(e, TRUE, None) /\ on' = [on EXCEPT ![c] = e]
      BY <1>6, <2>1 DEF Run
    <3>1. caller' = [caller EXCEPT ![c] = "joining"] /\ UNCHANGED <<result, closing>>
      BY <1>6, <2>1 DEF Run
    <3>2. TypeOK' /\ MapHoldsTheLive'
      BY <2>1, <3>1, StartStep DEF TypeOK, MapHoldsTheLive, Live, Waiting
    <3>3. NoOrphanedWaiter'
      BY <2>1, <3>1, StartStep DEF TypeOK, NoOrphanedWaiter, Waiting
    <3> QED
      BY <3>2, <3>3
  <2>2. CASE current # None
    <3> DEFINE w == IF stopping[current] THEN "retrying" ELSE "joining"
    <3>1. /\ caller' = [caller EXCEPT ![c] = w]
          /\ on' = [on EXCEPT ![c] = current]
          /\ UNCHANGED <<current, phase, force, pendingWake, stopping, exit,
                         result, closing>>
      BY <1>6, <2>2 DEF Run
    <3>2. w \in Waiting
      BY DEF Waiting
    <3> HIDE DEF w
    <3>3. TypeOK'
      BY <3>1, <3>2, <2>2 DEF TypeOK
    <3>4. MapHoldsTheLive'
      BY <3>1 DEF MapHoldsTheLive, Live
    <3>5. NoOrphanedWaiter'
      BY <3>1, <3>2, <2>2 DEF NoOrphanedWaiter, TypeOK
    <3> QED
      BY <3>3, <3>4, <3>5
  <2> QED
    BY <2>1, <2>2
<1>7. ASSUME NEW c \in Callers, Return(c) PROVE IInv'
  BY <1>7 DEF Return, TypeOK, MapHoldsTheLive, NoOrphanedWaiter, Live, Waiting
<1>8. ASSUME NEW c \in Callers, AwaitIdle(c) PROVE IInv'
  BY <1>8 DEF AwaitIdle, TypeOK, MapHoldsTheLive, NoOrphanedWaiter, Live, Waiting
<1>9. ASSUME NEW c \in Callers, NEW w \in BOOLEAN, Interrupt(c, w) PROVE IInv'
  <2>1. /\ pendingWake' \in [Executions -> BOOLEAN]
        /\ stopping' \in [Executions -> BOOLEAN]
    BY <1>9 DEF Interrupt, Claim, TypeOK
  <2>2. UNCHANGED <<current, phase, force, exit, result, closing>>
    BY <1>9 DEF Interrupt
  <2>3. CASE UNCHANGED <<caller, on>>
    BY <2>1, <2>2, <2>3 DEF TypeOK, MapHoldsTheLive, NoOrphanedWaiter, Live
  <2>4. CASE /\ current # None
             /\ caller' = [caller EXCEPT ![c] = "stopping"]
             /\ on' = [on EXCEPT ![c] = current]
    BY <2>1, <2>2, <2>4
    DEF TypeOK, MapHoldsTheLive, NoOrphanedWaiter, Live, Waiting
  <2>5. \/ UNCHANGED <<caller, on>>
        \/ /\ current # None
           /\ caller' = [caller EXCEPT ![c] = "stopping"]
           /\ on' = [on EXCEPT ![c] = current]
    BY <1>9 DEF Interrupt
  <2> QED
    BY <2>3, <2>4, <2>5
<1>10. CASE Wake
  <2>1. CASE current = None
    <3> PICK e \in Executions : Start(e, FALSE, None)
      BY <1>10, <2>1 DEF Wake
    <3>1. UNCHANGED <<caller, on, result, closing>>
      BY <1>10 DEF Wake
    <3>2. TypeOK' /\ MapHoldsTheLive'
      BY <2>1, <3>1, StartStep DEF TypeOK, MapHoldsTheLive, Live
    <3>3. NoOrphanedWaiter'
      BY <2>1, <3>1, StartStep DEF TypeOK, NoOrphanedWaiter
    <3> QED
      BY <3>2, <3>3
  <2>2. CASE current # None
    BY <1>10, <2>2 DEF Wake, TypeOK, MapHoldsTheLive, NoOrphanedWaiter, Live
  <2> QED
    BY <2>1, <2>2
<1>11. CASE Close
  BY <1>11 DEF Close, TypeOK, MapHoldsTheLive, NoOrphanedWaiter, Live
<1>12. CASE UNCHANGED vars
  BY <1>12 DEF vars, TypeOK, MapHoldsTheLive, NoOrphanedWaiter, Live
<1> QED
  BY <1>1, <1>2, <1>3, <1>4, <1>5, <1>6, <1>7, <1>8, <1>9, <1>10, <1>11, <1>12
  DEF Next, System, Fiber, Resume, Call

-----------------------------------------------------------------------------

(* What the proofs below take from a state holds in every state of the     *)
(* coordinator.                                                            *)
THEOREM Invariance == Spec => []IInv
  BY InitIInv, NextIInv, PTL DEF Spec

(* The variables of the coordinator keep their types.                      *)
THEOREM TypeCorrect == Spec => []TypeOK
<1>1. IInv => TypeOK
  BY DEF IInv
<1> QED
  BY <1>1, Invariance, PTL

(* At most one fiber drains a key, and it is the one the map holds.        *)
THEOREM SerializedDrains == Spec => []Serialized
<1>1. ASSUME IInv PROVE Serialized
  <2> DEFINE D == {e \in Executions : phase[e] = "draining"}
  <2>1. D \subseteq {current}
    BY <1>1 DEF IInv, MapHoldsTheLive, Live
  <2>2. IsFiniteSet({current}) /\ Cardinality({current}) = 1
    BY FS_Singleton
  <2>3. Cardinality(D) <= 1
    BY <2>1, <2>2, FS_Subset
  <2> QED
    BY <1>1, <2>3 DEF IInv, MapHoldsTheLive, Serialized
<1> QED
  BY <1>1, Invariance, PTL

(* Every caller that waits waits for the execution in the map.             *)
THEOREM NoWaiterIsOrphaned == Spec => []NoOrphanedWaiter
<1>1. IInv => NoOrphanedWaiter
  BY DEF IInv
<1> QED
  BY <1>1, Invariance, PTL

-----------------------------------------------------------------------------
(* Action properties.                                                      *)

(* Only settlement releases a joiner, and it hands it the decided exit.    *)
LEMMA JoinerStep ==
  ASSUME IInv, [Next]_vars, NEW c \in Callers,
         caller[c] = "joining", caller'[c] # "joining"
  PROVE  phase[on[c]] = "settling" /\ result'[c] = exit[on[c]]
<1>1. on[c] = current /\ current # None
  BY DEF IInv, NoOrphanedWaiter, Waiting
<1>2. ASSUME NEW e \in Executions, Settle(e)
      PROVE  phase[on[c]] = "settling" /\ result'[c] = exit[on[c]]
  <2>1. e = current /\ phase[e] = "settling"
    BY <1>2 DEF Settle, IInv, MapHoldsTheLive, Live
  <2> QED
    BY <1>1, <1>2, <2>1 DEF Settle, Release
<1>3. ASSUME NEW e \in Executions,
             \/ HookStarted(e) \/ BeginDrain(e) \/ Redrain(e)
             \/ \E x \in Exits : Decide(e, x)
      PROVE  caller' = caller
  BY <1>3 DEF HookStarted, BeginDrain, Redrain, Decide
<1>4. ASSUME NEW d \in Callers, Run(d) \/ Return(d) \/ AwaitIdle(d)
      PROVE  caller'[c] = "joining"
  BY <1>4, NoneAssumption DEF Run, Return, AwaitIdle, IInv, TypeOK
<1>5. ASSUME NEW d \in Callers, NEW w \in BOOLEAN, Interrupt(d, w)
      PROVE  caller'[c] = "joining"
  BY <1>5 DEF Interrupt, IInv, TypeOK
<1>6. CASE Wake \/ Close \/ UNCHANGED vars
  BY <1>6 DEF Wake, Close, vars
<1> QED
  BY <1>2, <1>3, <1>4, <1>5, <1>6 DEF Next, System, Fiber, Resume, Call

(* A run returns the exit its execution settled with.                      *)
THEOREM JoinersReplay == Spec => JoinersReplayTheExit
<1>1. IInv /\ [Next]_vars =>
        [\A c \in Callers :
           caller[c] = "joining" /\ caller'[c] # "joining" =>
             /\ phase[on[c]] = "settling"
             /\ result'[c] = exit[on[c]]]_vars
  BY JoinerStep
<1> QED
  BY <1>1, Invariance, PTL DEF Spec, JoinersReplayTheExit

(* A caller that becomes a joiner joins an execution nobody has stopped.   *)
LEMMA NewJoinerStep ==
  ASSUME IInv, [Next]_vars, NEW c \in Callers,
         caller'[c] = "joining", caller[c] # "joining"
  PROVE  ~stopping'[on'[c]]
<1>1. ASSUME NEW d \in Callers, Run(d) PROVE ~stopping'[on'[c]]
  <2>1. d = c
    BY <1>1 DEF Run, IInv, TypeOK
  <2>2. CASE current = None
    <3> PICK e \in Executions : Start(e, TRUE, None) /\ on' = [on EXCEPT ![c] = e]
      BY <1>1, <2>1, <2>2 DEF Run
    <3>1. on'[c] = e
      BY DEF IInv, TypeOK
    <3>2. ~stopping'[e]
      BY DEF Start, IInv, TypeOK
    <3> QED
      BY <3>1, <3>2
  <2>3. CASE current # None
    BY <1>1, <2>1, <2>3, NoneAssumption DEF Run, IInv, TypeOK
  <2> QED
    BY <2>2, <2>3
<1>2. ASSUME NEW e \in Executions, Fiber(e) PROVE FALSE
  <2>1. CASE Settle(e)
    BY <2>1 DEF Settle, Release
  <2>2. CASE HookStarted(e) \/ BeginDrain(e) \/ Redrain(e)
             \/ \E x \in Exits : Decide(e, x)
    BY <2>2 DEF HookStarted, BeginDrain, Redrain, Decide
  <2> QED
    BY <1>2, <2>1, <2>2 DEF Fiber
<1>3. ASSUME NEW d \in Callers, Return(d) \/ AwaitIdle(d) PROVE FALSE
  BY <1>3 DEF Return, AwaitIdle, IInv, TypeOK
<1>4. ASSUME NEW d \in Callers, NEW w \in BOOLEAN, Interrupt(d, w) PROVE FALSE
  BY <1>4 DEF Interrupt, IInv, TypeOK
<1>5. ASSUME Wake \/ Close \/ UNCHANGED vars PROVE FALSE
  BY <1>5 DEF Wake, Close, vars
<1> QED
  BY <1>1, <1>2, <1>3, <1>4, <1>5 DEF Next, System, Resume, Call

(* A run asked after a stop is not answered by the stopped execution.      *)
THEOREM LateRuns == Spec => LateRunIsNotStopped
<1>1. IInv /\ [Next]_vars =>
        [\A c \in Callers :
           (caller'[c] = "joining" /\ caller[c] # "joining") =>
             ~stopping'[on'[c]]]_vars
  BY NewJoinerStep
<1> QED
  BY <1>1, Invariance, PTL DEF Spec, LateRunIsNotStopped
-----------------------------------------------------------------------------
(* The coordinator implements the doorbell: the initial state is its       *)
(* initial state and every step is one of its steps or leaves it alone.    *)

(* A drain that is repeated is not forced again.                           *)
Unforced == \A e \in Executions : phase[e] = "looping" => ~force[e]

LEMMA InitUnforced == Init => Unforced
  BY DEF Init, Unforced

LEMMA NextUnforced == IInv /\ Unforced /\ [Next]_vars => Unforced'
<1> SUFFICES ASSUME IInv, Unforced, [Next]_vars PROVE Unforced'
  OBVIOUS
<1>1. ASSUME NEW e \in Executions, Fiber(e) PROVE Unforced'
  <2>1. CASE HookStarted(e) \/ BeginDrain(e) \/ Redrain(e)
             \/ \E x \in Exits : Decide(e, x)
    BY <2>1 DEF HookStarted, BeginDrain, Redrain, Decide, Unforced, IInv, TypeOK
  <2>2. CASE Settle(e)
    BY <2>2 DEF Settle, Start, Unforced, IInv, TypeOK
  <2> QED
    BY <1>1, <2>1, <2>2 DEF Fiber
<1>2. ASSUME NEW c \in Callers, Run(c) PROVE Unforced'
  BY <1>2 DEF Run, Start, Unforced, IInv, TypeOK
<1>3. ASSUME NEW c \in Callers, Return(c) \/ AwaitIdle(c) PROVE Unforced'
  BY <1>3 DEF Return, AwaitIdle, Unforced
<1>4. ASSUME NEW c \in Callers, NEW w \in BOOLEAN, Interrupt(c, w) PROVE Unforced'
  BY <1>4 DEF Interrupt, Unforced
<1>5. CASE Wake
  BY <1>5 DEF Wake, Start, Unforced, IInv, TypeOK
<1>6. CASE Close \/ UNCHANGED vars
  BY <1>6 DEF Close, vars, Unforced
<1> QED
  BY <1>1, <1>2, <1>3, <1>4, <1>5, <1>6 DEF Next, System, Resume, Call

LEMMA OneMore ==
  ASSUME NEW r \in 0..1 PROVE r + 1 \in {r, r + 1} \cap 1..2
<1>1. r + 1 \in 1..2
  OBVIOUS
<1>2. r + 1 \in {r, r + 1}
  OBVIOUS
<1> QED
  BY <1>1, <1>2, Zenon

LEMMA InitDoorbell == Init => Bell!Init
  BY DEF Init, Bell!Init, Drain, Rings, Forced, Served, Waits, At

LEMMA NextDoorbell == IInv /\ Unforced /\ [Next]_vars => [Bell!Next]_(Bell!abstractVars)
<1> SUFFICES ASSUME IInv, Unforced, [Next]_vars
             PROVE  [Bell!Next]_(Bell!abstractVars)
  OBVIOUS
<1> USE NoneAssumption
<1> USE DEF Drain, Rings, Forced, Served, Waits, At, Bell!abstractVars
<1>1. ASSUME NEW e \in Executions, HookStarted(e)
      PROVE  UNCHANGED Bell!abstractVars
  <2>1. e = current /\ current # None
    BY <1>1 DEF HookStarted, IInv, MapHoldsTheLive, Live
  <2> QED
    BY <1>1, <2>1 DEF HookStarted, IInv, TypeOK
<1>2. ASSUME NEW e \in Executions, BeginDrain(e) PROVE Bell!StartDrain
  <2>1. e = current /\ current # None
    BY <1>2 DEF BeginDrain, IInv, MapHoldsTheLive, Live
  <2>2. ~closing /\ ~stopping[e]
    BY <1>2 DEF BeginDrain, Interruptible
  <2>3. phase'[e] = "draining" /\ phase[e] \in {"starting", "looping"}
        /\ UNCHANGED <<current, force, pendingWake, stopping, closing>>
    BY <1>2 DEF BeginDrain, IInv, TypeOK
  <2>4. CASE force[e]
    BY <2>1, <2>2, <2>3, <2>4 DEF Bell!StartDrain, IInv, TypeOK, Unforced
  <2>5. CASE ~force[e]
    BY <2>1, <2>2, <2>3, <2>5 DEF Bell!StartDrain, IInv, TypeOK
  <2> QED
    BY <2>4, <2>5
<1>3. ASSUME NEW e \in Executions, Redrain(e) PROVE Bell!EndDrain
  <2>1. e = current /\ current # None
    BY <1>3 DEF Redrain, IInv, MapHoldsTheLive, Live
  <2>2. /\ phase[e] = "draining" /\ phase'[e] = "looping"
        /\ pendingWake[e] /\ ~pendingWake'[e] /\ ~force'[e] /\ ~stopping[e]
        /\ UNCHANGED <<current, stopping, closing>>
    BY <1>3 DEF Redrain, IInv, TypeOK
  <2> QED
    BY <2>1, <2>2 DEF Bell!EndDrain
<1>4. ASSUME NEW e \in Executions, NEW x \in Exits, Decide(e, x)
      PROVE  [Bell!Next]_(Bell!abstractVars)
  <2>1. e = current /\ current # None
    BY <1>4 DEF Decide, Owned, IInv, MapHoldsTheLive, Live
  <2>2. phase'[e] = "settling"
        /\ UNCHANGED <<current, force, pendingWake, stopping, closing>>
    BY <1>4 DEF Decide, IInv, TypeOK
  <2>3. CASE phase[e] = "draining"
    <3>1. Bell!EndDrain
      BY <2>1, <2>2, <2>3 DEF Bell!EndDrain
    <3> QED
      BY <3>1 DEF Bell!Next
  <2>4. CASE phase[e] # "draining"
    <3>1. closing \/ stopping[e]
      BY <1>4, <2>4 DEF Decide, Interruptible
    <3> QED
      BY <2>1, <2>2, <2>4, <3>1
  <2> QED
    BY <2>3, <2>4
<1>5. ASSUME NEW e \in Executions, Settle(e)
      PROVE  [Bell!Next]_(Bell!abstractVars)
  <2>1. e = current /\ current # None /\ phase[e] = "settling"
    BY <1>5 DEF Settle, IInv, MapHoldsTheLive, Live
  <2>2. UNCHANGED closing
    BY <1>5 DEF Settle
  <2>3. CASE pendingWake[e] /\ \E s \in Executions : Start(s, FALSE, e)
    <3> PICK s \in Executions : Start(s, FALSE, e)
      BY <2>3
    <3>1. /\ current' = s /\ s # None /\ phase'[s] = "forked" /\ ~force'[s]
          /\ ~pendingWake'[s] /\ ~stopping'[s]
      BY DEF Start, IInv, TypeOK
    <3> QED
      BY <2>1, <2>2, <2>3, <3>1
  <2>4. CASE ~pendingWake[e] /\ current' = None
    <3>1. Bell!Rest
      BY <2>1, <2>2, <2>4 DEF Bell!Rest
    <3> QED
      BY <3>1 DEF Bell!Next
  <2> QED
    BY <1>5, <2>3, <2>4 DEF Settle
<1>6. ASSUME NEW c \in Callers, Run(c) PROVE [Bell!Next]_(Bell!abstractVars)
  <2>1. CASE current = None
    <3> PICK e \in Executions : Start(e, TRUE, None)
      BY <1>6, <2>1 DEF Run
    <3>1. /\ current' = e /\ e # None /\ phase'[e] = "forked" /\ force'[e]
          /\ ~pendingWake'[e] /\ ~stopping'[e] /\ UNCHANGED closing
      BY <1>6 DEF Start, Run, IInv, TypeOK
    <3>2. CASE closing
      <4>1. Bell!AnnounceLate
        BY <2>1, <3>1, <3>2 DEF Bell!AnnounceLate
      <4> QED
        BY <4>1 DEF Bell!Next
    <3>3. CASE ~closing
      <4>1. Bell!Ask
        BY <2>1, <3>1, <3>3 DEF Bell!Ask
      <4> QED
        BY <4>1 DEF Bell!Next
    <3> QED
      BY <3>2, <3>3
  <2>2. CASE current # None
    BY <1>6, <2>2 DEF Run
  <2> QED
    BY <2>1, <2>2
<1>7. ASSUME NEW c \in Callers, Return(c) \/ AwaitIdle(c)
      PROVE  UNCHANGED Bell!abstractVars
  BY <1>7 DEF Return, AwaitIdle
<1>8. ASSUME NEW c \in Callers, NEW w \in BOOLEAN, Interrupt(c, w)
      PROVE  [Bell!Next]_(Bell!abstractVars)
  <2>1. Claim /\ UNCHANGED <<current, phase, force, closing>>
    BY <1>8 DEF Interrupt
  <2>2. CASE current = None \/ stopping[current]
    BY <2>1, <2>2 DEF Claim
  <2>3. CASE current # None /\ ~stopping[current]
    <3>1. current \in Executions /\ ~pendingWake'[current]
          /\ (stopping'[current] <=> phase[current] \in Owned)
      BY <2>1, <2>3 DEF Claim, IInv, TypeOK
    <3>2. Rings' = 0 /\ ~Forced' /\ Drain' = Drain
      BY <2>1, <3>1 DEF Owned
    <3>3. Bell!Cancel
      BY <2>1, <2>3, <3>2 DEF Bell!Cancel
    <3> QED
      BY <3>3 DEF Bell!Next
  <2> QED
    BY <2>2, <2>3
<1>9. CASE Wake
  <2>1. UNCHANGED closing
    BY <1>9 DEF Wake
  <2>2. CASE current = None
    <3> PICK e \in Executions : Start(e, FALSE, None)
      BY <1>9, <2>2 DEF Wake
    <3>1. /\ current' = e /\ e # None /\ phase'[e] = "forked" /\ ~force'[e]
          /\ ~pendingWake'[e] /\ ~stopping'[e]
      BY DEF Start, IInv, TypeOK
    <3>2. CASE closing
      <4>1. Bell!AnnounceLate
        BY <2>1, <2>2, <3>1, <3>2 DEF Bell!AnnounceLate
      <4> QED
        BY <4>1 DEF Bell!Next
    <3>3. CASE ~closing
      <4>1. Bell!Ring
        BY <2>1, <2>2, <3>1, <3>3 DEF Bell!Ring
      <4> QED
        BY <4>1 DEF Bell!Next
    <3> QED
      BY <3>2, <3>3
  <2>3. CASE current # None
    <3>1. pendingWake'[current] /\ UNCHANGED <<current, phase, force, stopping>>
      BY <1>9, <2>3 DEF Wake, IInv, TypeOK
    <3>2. CASE closing
      BY <2>1, <2>3, <3>1, <3>2
    <3>3. CASE ~closing
      <4>1. Drain' = Drain /\ Forced' = Forced
        BY <2>1, <3>1
      <4>2. Rings \in 0..2 /\ Rings' = IF Waits THEN Rings ELSE Rings + 1
        BY <2>1, <2>3, <3>1, <3>3
      <4>3. Rings' \in {Rings, Rings + 1} \cap 1..2
        <5>1. CASE Waits
          <6>1. Rings \in 1..2
            BY <2>3, <3>3, <5>1
          <6>2. Rings' = Rings
            BY <4>2, <5>1
          <6> HIDE DEF Rings
          <6> QED
            BY <6>1, <6>2
        <5>2. CASE ~Waits
          <6>1. Rings \in 0..1
            BY <2>3, <3>3, <5>2
          <6>2. Rings' = Rings + 1
            BY <4>2, <5>2
          <6> QED
            BY <6>1, <6>2, OneMore
        <5> QED
          BY <5>1, <5>2
      <4>4. (current # None)' /\ UNCHANGED closing
        BY <2>1, <2>3, <3>1
      <4> HIDE DEF Rings, Drain, Forced
      <4>5. Bell!Ring
        BY <3>3, <4>1, <4>3, <4>4 DEF Bell!Ring
      <4> QED
        BY <4>5 DEF Bell!Next
    <3> QED
      BY <3>2, <3>3
  <2> QED
    BY <2>2, <2>3
<1>10. CASE Close
  <2>1. Bell!Close
    BY <1>10 DEF Close, Bell!Close
  <2> QED
    BY <2>1 DEF Bell!Next
<1>11. CASE UNCHANGED vars
  BY <1>11 DEF vars
<1> QED
  BY <1>1, <1>2, <1>3, <1>4, <1>5, <1>6, <1>7, <1>8, <1>9, <1>10, <1>11
  DEF Next, System, Fiber, Resume, Call, Bell!Next

(* No wake is lost or answered twice, an interruption claims only what was *)
(* rung before it, and only a run that found the key idle is forced.       *)
THEOREM Refinement == Spec => Bell!SafeSpec
<1>1. Spec => [](IInv /\ Unforced)
  <2>1. Init => IInv /\ Unforced
    BY InitIInv, InitUnforced
  <2>2. IInv /\ Unforced /\ [Next]_vars => (IInv /\ Unforced)'
    BY NextIInv, NextUnforced
  <2> QED
    BY <2>1, <2>2, PTL DEF Spec
<1> QED
  BY <1>1, InitDoorbell, NextDoorbell, PTL DEF Spec, Bell!SafeSpec
=============================================================================
