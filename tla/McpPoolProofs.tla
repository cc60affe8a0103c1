---------------------------- MODULE McpPoolProofs ----------------------------
(***************************************************************************)
(* What module McpPool promises, for any number of threads, instances and  *)
(* connections.                                                            *)
(*                                                                         *)
(* The instances and the connections are two arguments.  An instance is    *)
(* held as often as it is counted, because whoever moves takes along what  *)
(* it has brought, and so nobody closes it under a drain.  Connections are *)
(* never two of an instance, because an attempt leaves no connection       *)
(* behind; and none appears in an instance that was stopped, because the   *)
(* stop waits for whoever has announced one (Guarded).                     *)
(***************************************************************************)
EXTENDS McpPool, FiniteSetTheorems, TLAPS

USE DEF Making

Callers(c) == {t \in Threads : pc[t] = "calling" /\ using[t] = c}
Users(i)   == {t \in Threads : server[t] = i}
Drained(i) == {t \in users[i] : drains[t] = 1}

(* A thread that does anything with its server has one and runs.           *)
Placed ==
  \A t \in Threads :
    /\ drains[t] = IF pc[t] = "idle" THEN 0 ELSE 1
    /\ pc[t] \notin {"idle", "running"} => server[t] # 0

(* The calls on each connection.                                           *)
CallsAreCounted == \A c \in Conns : inflight[c] = Cardinality(Callers(c))

(* What the connection and the attempt of an instance are.                 *)
Attached ==
  /\ \A i \in Instances :
       /\ live[i] # 0 => phase[live[i]] = "open" /\ attempt[i] = 0
       /\ attempt[i] # 0 => phase[attempt[i]] \in Making
  /\ \A i, j \in Instances :
       /\ live[i] # 0 /\ live[i] = live[j] => i = j
       /\ attempt[i] # 0 /\ attempt[i] = attempt[j] => i = j

(* StoppedIsQuiet, and nobody is about to make a connection either.        *)
Guarded ==
  \A i \in Instances :
    (closed[i] \/ stopped[i]) /\ stops[i] = {} =>
      live[i] = 0 /\ attempt[i] = 0 /\ Unlocked(i)

(* Calls are on connections that are there.                                *)
Carried ==
  \A c \in Conns : phase[c] \in {"none"} \cup Making => inflight[c] = 0

(* The settlement of a thread's servers.                                   *)
Settles(t) ==
  ReconcileAway(t) \/ ReconcileJoin(t) \/ ReconcileMake(t) \/ Remove(t)

IInv == /\ TypeOK /\ Placed /\ LeasesAreCounted /\ CallsAreCounted
        /\ OneInstance /\ UnheldIsArmed /\ Attached /\ Guarded
        /\ NoConnectionIsLost /\ Carried

-----------------------------------------------------------------------------
(* Instances and leases.                                                   *)

(* A finite set with one element more, or one less.                        *)
LEMMA OneMore ==
  ASSUME NEW S, IsFiniteSet(S), NEW x, x \notin S
  PROVE  Cardinality(S \cup {x}) = Cardinality(S) + 1
BY FS_AddElement

LEMMA OneLess ==
  ASSUME NEW S, IsFiniteSet(S), NEW x, x \in S
  PROVE  Cardinality(S \ {x}) = Cardinality(S) - 1
BY FS_RemoveElement

LEMMA DrainedIsFinite ==
  ASSUME TypeOK, NEW i \in Instances
  PROVE  IsFiniteSet(Drained(i)) /\ Cardinality(Drained(i)) \in Nat
<1>1. Drained(i) \subseteq Threads
  BY DEF Drained, TypeOK
<1>2. QED
  BY <1>1, McpPoolAssumption, FS_Subset, FS_CardinalityType

(* Whoever holds an instance is counted.                                   *)
LEMMA HolderCounts ==
  ASSUME TypeOK, LeasesAreCounted, NEW t \in Threads, NEW i \in Instances,
         server[t] = i, drains[t] = 1
  PROVE  t \in users[i] /\ leases[i] # 0
<1>1. t \in Drained(i)
  BY DEF Drained, LeasesAreCounted
<1>2. Cardinality(Drained(i)) # 0
  BY <1>1, DrainedIsFinite, FS_EmptySet
<1>3. leases[i] = Cardinality(Drained(i))
  BY DEF Drained, LeasesAreCounted
<1>4. QED
  BY <1>1, <1>2, <1>3 DEF Drained

(* What a settlement is.                                                   *)
LEMMA SettlesMoves ==
  ASSUME TypeOK, NEW t \in Threads, Settles(t)
  PROVE  /\ UNCHANGED <<drains, pc>> /\ pc[t] \in {"idle", "running"}
         /\ \E to \in Instances \cup {0} :
              /\ Moves(t, to, IF to = 0 THEN current ELSE to)
              /\ to = 0 \/ to = current \/ (current = 0 /\ users[to] = {})
<1> USE McpPoolAssumption DEF calls
<1>1. CASE ReconcileAway(t)
  BY <1>1 DEF ReconcileAway
<1>2. CASE ReconcileJoin(t)
  BY <1>2 DEF ReconcileJoin, TypeOK
<1>3. CASE ReconcileMake(t)
  BY <1>3 DEF ReconcileMake, Unmade
<1>4. CASE Remove(t)
  BY <1>4 DEF Remove
<1>5. QED
  BY <1>1, <1>2, <1>3, <1>4 DEF Settles

(* Every other step leaves the pool alone.                                 *)
LEMMA PoolSteps ==
  ASSUME [Next]_vars
  PROVE  \/ \E t \in Threads : Lease(t) \/ Release(t) \/ Settles(t)
         \/ \E i \in Instances : IdleOut(i)
         \/ UNCHANGED <<pool, server, drains>>
<1> USE DEF pool
<1>1. ASSUME NEW t \in Threads, OfThread(t)
      PROVE  \/ Lease(t) \/ Release(t) \/ Settles(t)
             \/ UNCHANGED <<pool, server, drains>>
  BY <1>1 DEF OfThread, Settles, Calls, Asks, AskerDials, Awaited, CallEnds,
     CallRefused, RetiresForCall, CallCut
<1>2. ASSUME NEW i \in Instances, OfInstance(i)
      PROVE  IdleOut(i) \/ UNCHANGED <<pool, server, drains>>
  BY <1>2 DEF OfInstance, BootAsks, BootDials, AttemptBegins, Connects,
     ConnectFails, OnClose, Controls, StopRuns
<1>3. ASSUME NEW c \in Conns, Drops(c)
      PROVE  UNCHANGED <<pool, server, drains>>
  BY <1>3 DEF Drops
<1>4. ASSUME UNCHANGED vars PROVE UNCHANGED <<pool, server, drains>>
  BY <1>4 DEF vars
<1>5. QED
  BY <1>1, <1>2, <1>3, <1>4 DEF Next

(* Drains that begin and end are counted.                                  *)
LEMMA HoldsAreCounted ==
  ASSUME TypeOK, Placed, LeasesAreCounted, NEW t \in Threads,
         Lease(t) \/ Release(t)
  PROVE  LeasesAreCounted'
<1>1. /\ UNCHANGED <<users, server>>
      /\ \/ drains[t] = 0 /\ Holds(t, TRUE)
         \/ drains[t] = 1 /\ Holds(t, FALSE)
  BY DEF Lease, Release, Placed
<1>2. SUFFICES ASSUME NEW i \in Instances
               PROVE  leases'[i] = Cardinality(Drained(i)')
  BY <1>1 DEF LeasesAreCounted, Drained
<1>3. leases[i] = Cardinality(Drained(i)) /\ users[i] = Users(i)
  BY DEF LeasesAreCounted, Drained, Users
<1>4. CASE server[t] # i
  <2>1. Drained(i)' = Drained(i)
    BY <1>1, <1>3, <1>4 DEF Drained, Users, Holds, TypeOK
  <2>2. leases'[i] = leases[i]
    BY <1>1, <1>4 DEF Holds
  <2>3. QED
    BY <1>3, <2>1, <2>2
<1>5. CASE server[t] = i /\ drains[t] = 0
  <2>1. Drained(i)' = Drained(i) \cup {t} /\ t \notin Drained(i)
    BY <1>1, <1>3, <1>5 DEF Drained, Users, Holds, TypeOK
  <2>2. leases'[i] = leases[i] + 1
    BY <1>1, <1>5 DEF Holds
  <2>3. QED
    BY <1>3, <2>1, <2>2, OneMore, DrainedIsFinite
<1>6. CASE server[t] = i /\ drains[t] = 1
  <2>1. Drained(i)' = Drained(i) \ {t} /\ t \in Drained(i)
    BY <1>1, <1>3, <1>6 DEF Drained, Users, Holds, TypeOK
  <2>2. leases'[i] = leases[i] - 1
    BY <1>1, <1>6 DEF Holds
  <2>3. QED
    BY <1>3, <2>1, <2>2, OneLess, DrainedIsFinite
<1>7. QED
  BY <1>4, <1>5, <1>6 DEF TypeOK

(* So are those of a thread that moves.                                    *)
LEMMA MovesAreCounted ==
  ASSUME TypeOK, LeasesAreCounted, NEW t \in Threads, UNCHANGED drains,
         NEW to \in Instances \cup {0}, NEW listed, Moves(t, to, listed)
  PROVE  LeasesAreCounted'
<1>1. SUFFICES ASSUME NEW i \in Instances
               PROVE  /\ users'[i] = Users(i)'
                      /\ leases'[i] = Cardinality(Drained(i)')
  BY DEF LeasesAreCounted, Users, Drained
<1>2. /\ leases[i] = Cardinality(Drained(i)) /\ users[i] = Users(i)
      /\ i # 0 /\ server' = [server EXCEPT ![t] = to]
      /\ t \in users[i] <=> server[t] = i
  BY McpPoolAssumption DEF LeasesAreCounted, Drained, Users, Moves
<1>3. CASE i = to /\ server[t] # i
  <2>1. users'[i] = users[i] \cup {t} /\ leases'[i] = leases[i] + drains[t]
    BY <1>2, <1>3 DEF Moves, Brings
  <2>2. users'[i] = Users(i)'
    BY <1>2, <1>3, <2>1 DEF Users, TypeOK
  <2>3. Drained(i)' = IF drains[t] = 1 THEN Drained(i) \cup {t} ELSE Drained(i)
    BY <1>2, <1>3, <2>1 DEF Drained, TypeOK
  <2>4. t \notin Drained(i)
    BY <1>2, <1>3 DEF Drained
  <2>5. CASE drains[t] = 1
    BY <1>2, <2>1, <2>2, <2>3, <2>4, <2>5, OneMore, DrainedIsFinite
  <2>6. CASE drains[t] = 0
    BY <1>2, <2>1, <2>2, <2>3, <2>6, DrainedIsFinite
  <2>7. QED
    BY <2>5, <2>6 DEF TypeOK
<1>4. CASE i # to /\ server[t] = i
  <2>1. users'[i] = users[i] \ {t} /\ leases'[i] = leases[i] - drains[t]
    BY <1>2, <1>4 DEF Moves, Takes
  <2>2. users'[i] = Users(i)'
    BY <1>2, <1>4, <2>1 DEF Users, TypeOK
  <2>3. Drained(i)' = Drained(i) \ {t}
    BY <1>2, <1>4, <2>1 DEF Drained, TypeOK
  <2>4. t \in Drained(i) <=> drains[t] = 1
    BY <1>2, <1>4 DEF Drained
  <2>5. CASE drains[t] = 1
    BY <1>2, <2>1, <2>2, <2>3, <2>4, <2>5, OneLess, DrainedIsFinite
  <2>6. CASE drains[t] = 0
    <3>1. Drained(i)' = Drained(i)
      BY <2>3, <2>4, <2>6
    <3>2. QED
      BY <1>2, <2>1, <2>2, <2>6, <3>1, DrainedIsFinite
  <2>7. QED
    BY <2>5, <2>6 DEF TypeOK
<1>5. CASE (i = to) <=> (server[t] = i)
  <2>1. users'[i] = users[i] /\ leases'[i] = leases[i]
    BY <1>2, <1>5 DEF Moves
  <2>2. users'[i] = Users(i)' /\ Drained(i)' = Drained(i)
    BY <1>2, <1>5, <2>1 DEF Users, Drained, TypeOK
  <2>3. QED
    BY <1>2, <2>1, <2>2
<1>6. QED
  BY <1>3, <1>4, <1>5

LEMMA CountedStep ==
  ASSUME TypeOK, Placed, LeasesAreCounted, [Next]_vars
  PROVE  LeasesAreCounted'
<1>1. ASSUME NEW t \in Threads, Lease(t) \/ Release(t) PROVE LeasesAreCounted'
  BY <1>1, HoldsAreCounted
<1>2. ASSUME NEW t \in Threads, Settles(t) PROVE LeasesAreCounted'
  BY <1>2, SettlesMoves, MovesAreCounted
<1>3. ASSUME NEW i \in Instances, IdleOut(i) PROVE LeasesAreCounted'
  BY <1>3 DEF IdleOut, LeasesAreCounted
<1>4. ASSUME UNCHANGED <<pool, server, drains>> PROVE LeasesAreCounted'
  BY <1>4 DEF pool, LeasesAreCounted
<1>5. QED
  BY <1>1, <1>2, <1>3, <1>4, PoolSteps

(* One instance is listed, and whoever closes another does not unlist it.  *)
LEMMA OneInstanceStep ==
  ASSUME TypeOK, LeasesAreCounted, OneInstance, [Next]_vars
  PROVE  OneInstance'
<1> USE McpPoolAssumption DEF OneInstance
<1>1. ASSUME NEW t \in Threads, Lease(t) \/ Release(t) PROVE OneInstance'
  BY <1>1 DEF Lease, Release
<1>2. ASSUME NEW t \in Threads, Settles(t) PROVE OneInstance'
  <2>1. PICK to \in Instances \cup {0} :
          /\ Moves(t, to, IF to = 0 THEN current ELSE to)
          /\ to = 0 \/ to = current \/ (current = 0 /\ users[to] = {})
    BY <1>2, SettlesMoves
  <2>2. SUFFICES ASSUME NEW i \in Instances, ~closed'[i] PROVE current' = i
    OBVIOUS
  <2>3. server[t] \in Instances => t \in users[server[t]]
    BY DEF LeasesAreCounted
  <2>4. \/ i = to /\ to # 0 /\ current # to
        \/ ~closed[i] /\ ~(i = server[t] /\ i # to /\ users[i] = {t})
    BY <2>1, <2>2 DEF Moves, LastUser
  <2>5. CASE \E j \in Instances : j = server[t] /\ j # to /\ users[j] = {t}
    <3>1. current' = Unlisted(server[t], IF to = 0 THEN current ELSE to)
      BY <2>1, <2>5 DEF Moves, LastUser
    <3>2. (IF to = 0 THEN current ELSE to) = i /\ i # server[t]
      BY <2>1, <2>3, <2>4, <2>5 DEF TypeOK
    <3>3. QED
      BY <3>1, <3>2 DEF Unlisted
  <2>6. CASE ~\E j \in Instances : j = server[t] /\ j # to /\ users[j] = {t}
    <3>1. current' = IF to = 0 THEN current ELSE to
      BY <2>1, <2>6 DEF Moves, LastUser
    <3>2. QED
      BY <2>1, <2>4, <3>1
  <2>7. QED
    BY <2>5, <2>6
<1>3. ASSUME NEW i \in Instances, IdleOut(i) PROVE OneInstance'
  BY <1>3 DEF IdleOut, Unlisted, TypeOK
<1>4. ASSUME UNCHANGED <<pool, server, drains>> PROVE OneInstance'
  BY <1>4 DEF pool
<1>5. QED
  BY <1>1, <1>2, <1>3, <1>4, PoolSteps

LEMMA ArmedStep ==
  ASSUME TypeOK, Placed, LeasesAreCounted, OneInstance, UnheldIsArmed,
         [Next]_vars
  PROVE  UnheldIsArmed'
<1> USE McpPoolAssumption DEF UnheldIsArmed
<1>1. ASSUME NEW t \in Threads, Lease(t) \/ Release(t) PROVE UnheldIsArmed'
  <2>1. UNCHANGED closed /\ (Holds(t, TRUE) \/ Holds(t, FALSE))
    BY <1>1 DEF Lease, Release
  <2>2. SUFFICES ASSUME NEW i \in Instances, leases'[i] = 0, ~closed[i]
                 PROVE  armed'[i]
    BY <2>1
  <2>3. CASE server[t] = i
    BY <2>1, <2>2, <2>3 DEF Holds, Arms
  <2>4. CASE server[t] # i
    <3>1. leases'[i] = leases[i] /\ armed'[i] = armed[i]
      BY <2>1, <2>4 DEF Holds
    <3>2. QED
      BY <2>2, <3>1
  <2>5. QED
    BY <2>3, <2>4
<1>2. ASSUME NEW t \in Threads, Settles(t) PROVE UnheldIsArmed'
  <2>1. PICK to \in Instances \cup {0} :
          /\ Moves(t, to, IF to = 0 THEN current ELSE to)
          /\ to = 0 \/ to = current \/ (current = 0 /\ users[to] = {})
    BY <1>2, SettlesMoves
  <2>2. SUFFICES ASSUME NEW i \in Instances, leases'[i] = 0, ~closed'[i]
                 PROVE  armed'[i]
    OBVIOUS
  <2>3. CASE (i = to /\ t \notin users[i]) \/ (i = server[t] /\ i # to)
    BY <2>1, <2>2, <2>3 DEF Moves
  <2>4. CASE ~((i = to /\ t \notin users[i]) \/ (i = server[t] /\ i # to))
    <3>1. leases'[i] = leases[i] /\ armed'[i] = armed[i]
      BY <2>1, <2>4 DEF Moves
    <3>2. ~closed[i]
      BY <2>1, <2>2, <2>4 DEF Moves
    <3>3. QED
      BY <2>2, <3>1, <3>2
  <2>5. QED
    BY <2>3, <2>4
<1>3. ASSUME NEW i \in Instances, IdleOut(i) PROVE UnheldIsArmed'
  BY <1>3 DEF IdleOut, TypeOK
<1>4. ASSUME UNCHANGED <<pool, server, drains>> PROVE UnheldIsArmed'
  BY <1>4 DEF pool
<1>5. QED
  BY <1>1, <1>2, <1>3, <1>4, PoolSteps

(* Neither the timer nor another thread closes what a drain holds.         *)
LEMMA HeldStep ==
  ASSUME TypeOK, LeasesAreCounted, [Next]_vars,
         NEW t \in Threads, NEW i \in Instances, drains[t] = 1,
         server[t] = i, server'[t] = i, ~closed[i]
  PROVE  ~closed'[i]
<1>1. t \in users[i] /\ leases[i] # 0
  BY HolderCounts
<1>2. ASSUME NEW u \in Threads, Lease(u) \/ Release(u) PROVE ~closed'[i]
  BY <1>2 DEF Lease, Release
<1>3. ASSUME NEW u \in Threads, Settles(u) PROVE ~closed'[i]
  <2>1. PICK to \in Instances \cup {0} :
          Moves(u, to, IF to = 0 THEN current ELSE to)
    BY <1>3, SettlesMoves
  <2>2. ~(i = server[u] /\ i # to /\ users[i] = {u})
    BY <1>1, <2>1 DEF Moves, TypeOK
  <2>3. QED
    BY <2>1, <2>2 DEF Moves, LastUser, TypeOK
<1>4. ASSUME NEW j \in Instances, IdleOut(j) PROVE ~closed'[i]
  BY <1>1, <1>4 DEF IdleOut, TypeOK
<1>5. ASSUME UNCHANGED <<pool, server, drains>> PROVE ~closed'[i]
  BY <1>5 DEF pool
<1>6. QED
  BY <1>2, <1>3, <1>4, <1>5, PoolSteps

-----------------------------------------------------------------------------
(* Connections and calls.                                                  *)

LEMMA CallersAreFinite ==
  ASSUME NEW c
  PROVE  IsFiniteSet(Callers(c)) /\ Cardinality(Callers(c)) \in Nat
BY McpPoolAssumption, FS_Subset, FS_CardinalityType DEF Callers

(* A call that begins, one that ends, and steps that are neither.          *)
LEMMA CallBegins ==
  ASSUME TypeOK, CallsAreCounted, NEW t \in Threads, NEW d \in Conns \cup {0},
         pc[t] # "calling", pc' = [pc EXCEPT ![t] = "calling"],
         using' = [using EXCEPT ![t] = d],
         inflight' = [inflight EXCEPT ![d] = @ + 1]
  PROVE  CallsAreCounted'
<1>1. SUFFICES ASSUME NEW c \in Conns
                PROVE  inflight'[c] = Cardinality(Callers(c)')
  BY DEF CallsAreCounted, Callers
<1>2. inflight[c] = Cardinality(Callers(c))
  BY DEF CallsAreCounted
<1>3. CASE c = d
  <2>1. Callers(c)' = Callers(c) \cup {t} /\ t \notin Callers(c)
    BY <1>3 DEF Callers, TypeOK
  <2>2. inflight'[c] = inflight[c] + 1
    BY <1>3 DEF TypeOK
  <2>3. QED
    BY <1>2, <2>1, <2>2, OneMore, CallersAreFinite
<1>4. CASE c # d
  <2>1. Callers(c)' = Callers(c) /\ inflight'[c] = inflight[c]
    BY <1>4 DEF Callers, TypeOK
  <2>2. QED
    BY <1>2, <2>1
<1>5. QED
  BY <1>3, <1>4

LEMMA CallLeaves ==
  ASSUME TypeOK, CallsAreCounted, NEW t \in Threads, NEW place,
         pc[t] = "calling", pc' = [pc EXCEPT ![t] = place], place # "calling",
         \A u \in Threads \ {t} : using'[u] = using[u],
         inflight' = [inflight EXCEPT ![using[t]] = @ - 1]
  PROVE  CallsAreCounted'
<1>1. SUFFICES ASSUME NEW c \in Conns
                PROVE  inflight'[c] = Cardinality(Callers(c)')
  BY DEF CallsAreCounted, Callers
<1>2. inflight[c] = Cardinality(Callers(c))
  BY DEF CallsAreCounted
<1>3. CASE c = using[t]
  <2>1. Callers(c)' = Callers(c) \ {t} /\ t \in Callers(c)
    BY <1>3 DEF Callers, TypeOK
  <2>2. inflight'[c] = inflight[c] - 1
    BY <1>3 DEF TypeOK
  <2>3. QED
    BY <1>2, <2>1, <2>2, OneLess, CallersAreFinite
<1>4. CASE c # using[t]
  <2>1. Callers(c)' = Callers(c) /\ inflight'[c] = inflight[c]
    BY <1>4 DEF Callers, TypeOK
  <2>2. QED
    BY <1>2, <2>1
<1>5. QED
  BY <1>3, <1>4

LEMMA CallStays ==
  ASSUME CallsAreCounted, UNCHANGED inflight,
         \A t \in Threads : /\ (pc[t] = "calling") <=> (pc'[t] = "calling")
                            /\ pc[t] = "calling" => using'[t] = using[t]
  PROVE  CallsAreCounted'
<1>1. \A c \in Conns : Callers(c)' = Callers(c)
  BY DEF Callers
<1>2. QED
  BY <1>1 DEF CallsAreCounted, Callers

LEMMA CallsStep ==
  ASSUME TypeOK, Placed, CallsAreCounted, [Next]_vars
  PROVE  CallsAreCounted'
<1> USE McpPoolAssumption DEF pool, control, conns, calls
<1>1. ASSUME NEW t \in Threads,
             \/ Lease(t) \/ Release(t) \/ Calls(t) \/ AskerDials(t)
             \/ RetiresForCall(t) \/ CallCut(t)
      PROVE  CallsAreCounted'
  <2>1. /\ UNCHANGED inflight /\ pc[t] # "calling" /\ pc'[t] # "calling"
        /\ \A u \in Threads \ {t} : pc'[u] = pc[u] /\ using'[u] = using[u]
    <3>1. CASE Lease(t) \/ Release(t) \/ Calls(t)
      BY <3>1 DEF Lease, Release, Calls, Goto, TypeOK
    <3>2. CASE AskerDials(t)
      <4>1. CASE stuck[server[t]]
        BY <3>2, <4>1 DEF AskerDials, Ends, Goto, TypeOK
      <4>2. CASE ~stuck[server[t]]
        <5>1. PICK c \in Conns : using' = [using EXCEPT ![t] = c]
          BY <3>2, <4>2 DEF AskerDials
        <5>2. QED
          BY <3>2, <4>2, <5>1 DEF AskerDials, Goto, TypeOK
      <4>3. QED
        BY <4>1, <4>2
    <3>3. CASE RetiresForCall(t)
      BY <3>3 DEF RetiresForCall, Goto, Ends, TypeOK
    <3>4. CASE CallCut(t)
      BY <3>4 DEF CallCut, Goto, Ends, TypeOK
    <3>5. QED
      BY <1>1, <3>1, <3>2, <3>3, <3>4
  <2>2. QED
    BY <2>1, CallStays
<1>2. ASSUME NEW t \in Threads, Asks(t) PROVE CallsAreCounted'
  <2>1. CASE UNCHANGED inflight /\ pc'[t] # "calling"
    <3>1. /\ pc[t] # "calling"
          /\ \A u \in Threads \ {t} : pc'[u] = pc[u] /\ using'[u] = using[u]
      BY <1>2 DEF Asks, Goto, Ends, TypeOK
    <3>2. QED
      BY <2>1, <3>1, CallStays
  <2>2. CASE /\ Goto(t, "calling")
             /\ using' = [using EXCEPT ![t] = live[server[t]]]
             /\ inflight' = [inflight EXCEPT ![live[server[t]]] = @ + 1]
    <3>1. pc[t] = "asking" /\ live[server[t]] \in Conns \cup {0}
      BY <1>2 DEF Asks, Placed, TypeOK
    <3>2. QED
      BY <2>2, <3>1, CallBegins DEF Goto
  <2>3. QED
    BY <1>2, <2>1, <2>2 DEF Asks, Goto, Ends, TypeOK
<1>3. ASSUME NEW t \in Threads, Awaited(t) PROVE CallsAreCounted'
  <2>1. CASE Ends(t) /\ UNCHANGED inflight
    <3>1. /\ pc[t] # "calling" /\ pc'[t] # "calling"
          /\ \A u \in Threads \ {t} : pc'[u] = pc[u] /\ using'[u] = using[u]
      BY <1>3, <2>1 DEF Awaited, Goto, Ends, TypeOK
    <3>2. QED
      BY <2>1, <3>1, CallStays
  <2>2. CASE /\ Goto(t, "calling") /\ UNCHANGED using
             /\ inflight' = [inflight EXCEPT ![using[t]] = @ + 1]
    <3>1. pc[t] # "calling" /\ using[t] \in Conns \cup {0}
          /\ using' = [using EXCEPT ![t] = using[t]]
      BY <1>3, <2>2 DEF Awaited, TypeOK
    <3>2. QED
      BY <2>2, <3>1, CallBegins DEF Goto
  <2>3. QED
    BY <1>3, <2>1, <2>2 DEF Awaited
<1>4. ASSUME NEW t \in Threads, CallEnds(t) \/ CallRefused(t)
      PROVE  CallsAreCounted'
  <2>1. /\ pc[t] = "calling"
        /\ inflight' = [inflight EXCEPT ![using[t]] = @ - 1]
        /\ \A u \in Threads \ {t} : using'[u] = using[u]
        /\ \E place \in {"running", "expired", "refused"} :
             pc' = [pc EXCEPT ![t] = place]
    BY <1>4 DEF CallEnds, CallRefused, LeavesConn, Ends, Goto, TypeOK
  <2>2. QED
    BY <2>1, CallLeaves
<1>5. ASSUME NEW i \in Instances, OfInstance(i) PROVE CallsAreCounted'
  <2>1. UNCHANGED <<inflight, pc, using>>
    BY <1>5 DEF OfInstance, IdleOut, BootAsks, BootDials, AttemptBegins,
       Connects, ConnectFails, OnClose, Controls, StopRuns
  <2>2. QED
    BY <2>1, CallStays
<1>6. ASSUME UNCHANGED <<inflight, pc, using>> PROVE CallsAreCounted'
  BY <1>6, CallStays
<1>7. ASSUME NEW t \in Threads, Settles(t) PROVE CallsAreCounted'
  BY <1>6, <1>7 DEF Settles, ReconcileAway, ReconcileJoin, ReconcileMake,
     Remove
<1>8. QED
  BY <1>1, <1>2, <1>3, <1>4, <1>5, <1>6, <1>7 DEF Next, OfThread, Settles,
     Drops, vars

(* An attempt replaces the connection there was.                           *)
LEMMA DialsAttached ==
  ASSUME TypeOK, Attached, NoConnectionIsLost, NEW i \in Instances,
         NEW c \in Conns, Dials(i, c), inflight' = inflight
  PROVE  Attached' /\ NoConnectionIsLost'
<1> USE McpPoolAssumption
<1>1. /\ \A j \in Instances : live'[j] = IF j = i THEN 0 ELSE live[j]
      /\ \A j \in Instances : attempt'[j] = IF j = i THEN c ELSE attempt[j]
      /\ \A d \in Conns : phase'[d] =
           IF d = c THEN (IF attempt[i] = 0 THEN "forked" ELSE phase[c])
           ELSE IF d = live[i] THEN Retired(inflight[d]) ELSE phase[d]
  BY DEF Dials, TypeOK
<1>2. /\ phase[c] \in {"none"} \cup Making
      /\ \A j \in Instances : attempt[j] = c => j = i
      /\ attempt[i] # 0 => c = attempt[i]
  BY DEF Dials, Unused, Attached, TypeOK
<1>3. \A j \in Instances :
        live[j] \in Conns \cup {0} /\ attempt[j] \in Conns \cup {0}
  BY DEF TypeOK
<1>4. Attached'
  <2>1. ASSUME NEW j \in Instances, j # i, live[j] # 0
        PROVE  /\ live'[j] = live[j] /\ attempt'[j] = 0
               /\ phase'[live[j]] = "open"
    <3>1. /\ phase[live[j]] = "open" /\ attempt[j] = 0 /\ live[j] # live[i]
          /\ live[j] \in Conns
      BY <1>3, <2>1 DEF Attached
    <3>2. QED
      BY <1>1, <1>2, <2>1, <3>1
  <2>2. ASSUME NEW j \in Instances, j # i, attempt[j] # 0
        PROVE  attempt'[j] = attempt[j] /\ phase'[attempt[j]] \in Making
    <3>1. phase[attempt[j]] \in Making /\ attempt[j] \in Conns
      BY <1>3, <2>2 DEF Attached
    <3>2. attempt[j] # live[i]
      BY <1>3, <3>1 DEF Attached
    <3>3. QED
      BY <1>1, <2>2, <3>1, <3>2
  <2>3. live'[i] = 0 /\ attempt'[i] = c /\ phase'[c] \in Making
    BY <1>1, <1>2 DEF Attached
  <2>4. \A j \in Instances : j # i => attempt'[j] # c
    BY <1>1, <1>2
  <2>5. QED
    BY <1>1, <2>1, <2>2, <2>3, <2>4 DEF Attached
<1>5. ASSUME NEW d \in Conns
      PROVE  /\ phase'[d] = "open" => \E j \in Instances : live'[j] = d
             /\ phase'[d] = "retired" => inflight'[d] > 0
             /\ phase'[d] \in Making => \E j \in Instances : attempt'[j] = d
  <2>1. inflight[d] \in Nat
    BY DEF TypeOK
  <2>2. CASE d = c
    <3>1. phase'[c] \in Making
      BY <1>1, <1>2 DEF Attached
    <3>2. QED
      BY <1>1, <2>2, <3>1
  <2>3. CASE d # c /\ d = live[i]
    BY <1>1, <2>1, <2>3 DEF Retired
  <2>4. CASE d # c /\ d # live[i]
    BY <1>1, <1>2, <2>4 DEF NoConnectionIsLost
  <2>5. QED
    BY <2>2, <2>3, <2>4
<1>6. QED
  BY <1>4, <1>5 DEF NoConnectionIsLost

(* What keeps an instance quiet.                                           *)
LEMMA StaysQuiet ==
  ASSUME Guarded,
         \A i \in Instances :
           /\ (closed'[i] \/ stopped'[i]) /\ stops'[i] = {} =>
                (closed[i] \/ stopped[i]) /\ stops[i] = {}
           /\ live[i] = 0 => live'[i] = 0
           /\ attempt[i] = 0 => attempt'[i] = 0
           /\ booting'[i] = "locking" => booting[i] = "locking",
         \A t \in Threads :
           pc'[t] = "locking" => pc[t] = "locking" /\ server'[t] = server[t]
  PROVE  Guarded'
BY DEF Guarded, Unlocked

(* So does what a thread leaves for none: it is closed only with a stop.   *)
LEMMA LeavingStaysQuiet ==
  ASSUME TypeOK, Guarded, NEW t \in Threads, Moves(t, 0, current),
         pc[t] \in {"idle", "running"},
         UNCHANGED <<stopped, booting, live, attempt, pc>>
  PROVE  Guarded'
<1>1. \A u \in Threads \ {t} : server'[u] = server[u]
  BY DEF Moves, TypeOK
<1>2. ASSUME NEW i \in Instances, stops'[i] = {}
      PROVE  stops[i] = {} /\ (closed'[i] => closed[i])
  <2>1. ~(i = server[t] /\ i # 0 /\ users[i] = {t})
    BY <1>2 DEF Moves, LastUser
  <2>2. QED
    BY <1>2, <2>1 DEF Moves, LastUser, TypeOK
<1>3. QED
  BY <1>1, <1>2, StaysQuiet

(* Where a thread is.                                                      *)
LEMMA PlacedStep ==
  ASSUME TypeOK, Placed, [Next]_vars
  PROVE  Placed'
<1> USE McpPoolAssumption DEF Placed, pool, control, conns, calls, vars
<1>21. ASSUME NEW t \in Threads, Lease(t) PROVE Placed'
  BY <1>21 DEF Lease, Holds, Arms, Goto, TypeOK
<1>22. ASSUME NEW t \in Threads, Release(t) PROVE Placed'
  BY <1>22 DEF Release, Holds, Arms, Goto, TypeOK
<1>23. ASSUME NEW t \in Threads, ReconcileAway(t) PROVE Placed'
  BY <1>23 DEF ReconcileAway, Moves, Brings, Takes, LastUser, Unlisted,
     StopReasons, TypeOK
<1>24. ASSUME NEW t \in Threads, ReconcileJoin(t) PROVE Placed'
  BY <1>24 DEF ReconcileJoin, Moves, Brings, Takes, LastUser, Unlisted,
     StopReasons, TypeOK
<1>25. ASSUME NEW t \in Threads, ReconcileMake(t) PROVE Placed'
  BY <1>25 DEF ReconcileMake, Moves, Brings, Takes, LastUser, Unlisted,
     StopReasons, Unmade, TypeOK
<1>26. ASSUME NEW t \in Threads, Remove(t) PROVE Placed'
  BY <1>26 DEF Remove, Moves, Brings, Takes, LastUser, Unlisted,
     StopReasons, TypeOK
<1>27. ASSUME NEW t \in Threads, Calls(t) PROVE Placed'
  BY <1>27 DEF Calls, Goto, TypeOK
<1>28. ASSUME NEW t \in Threads, Asks(t) PROVE Placed'
  BY <1>28 DEF Asks, Goto, Ends, Usable, TypeOK
<1>29. ASSUME NEW t \in Threads, AskerDials(t) PROVE Placed'
  BY <1>29 DEF AskerDials, Ends, Goto, Dials, Unused, Retired, TypeOK
<1>30. ASSUME NEW t \in Threads, Awaited(t) PROVE Placed'
  BY <1>30 DEF Awaited, Goto, Ends, TypeOK
<1>31. ASSUME NEW t \in Threads, CallEnds(t) PROVE Placed'
  BY <1>31 DEF CallEnds, LeavesConn, Retired, Ends, Goto, TypeOK
<1>32. ASSUME NEW t \in Threads, CallRefused(t) PROVE Placed'
  BY <1>32 DEF CallRefused, LeavesConn, Retired, Goto, TypeOK
<1>33. ASSUME NEW t \in Threads, RetiresForCall(t) PROVE Placed'
  BY <1>33 DEF RetiresForCall, Retires, Retired, Ends, Goto, TypeOK
<1>34. ASSUME NEW t \in Threads, CallCut(t) PROVE Placed'
  BY <1>34 DEF CallCut, Ends, Goto, TypeOK
<1>35. ASSUME NEW i \in Instances, IdleOut(i) PROVE Placed'
  BY <1>35 DEF IdleOut, Unlisted, StopReasons, TypeOK
<1>36. ASSUME NEW i \in Instances, BootAsks(i) PROVE Placed'
  BY <1>36 DEF BootAsks, Usable, TypeOK
<1>37. ASSUME NEW i \in Instances, BootDials(i) PROVE Placed'
  BY <1>37 DEF BootDials, Dials, Unused, Retired, TypeOK
<1>38. ASSUME NEW i \in Instances, Connects(i) PROVE Placed'
  BY <1>38 DEF Connects, TypeOK
<1>39. ASSUME NEW i \in Instances, ConnectFails(i) PROVE Placed'
  BY <1>39 DEF ConnectFails, TypeOK
<1>40. ASSUME NEW i \in Instances, OnClose(i) PROVE Placed'
  BY <1>40 DEF OnClose, Retires, Retired, TypeOK
<1>41. ASSUME NEW i \in Instances, Controls(i) PROVE Placed'
  BY <1>41 DEF Controls, StopReasons, TypeOK
<1>42. ASSUME NEW i \in Instances, StopRuns(i) PROVE Placed'
  BY <1>42 DEF StopRuns, StopReady, Retired, StopReasons, TypeOK
<1>43. ASSUME NEW c \in Conns, Drops(c) PROVE Placed'
  BY <1>43 DEF Drops
<1>44. ASSUME NEW i \in Instances, AttemptBegins(i) PROVE Placed'
  BY <1>44 DEF AttemptBegins
<1>45. CASE UNCHANGED vars
  BY <1>45
<1>46. QED
  BY <1>21, <1>22, <1>23, <1>24, <1>25, <1>26, <1>27, <1>28, <1>29, <1>30,
     <1>31, <1>32, <1>33, <1>34, <1>35, <1>36, <1>37, <1>38, <1>39, <1>40,
     <1>41, <1>42, <1>43, <1>44, <1>45 DEF Next, OfThread, OfInstance

(* Connections and attempts belong to one instance.                        *)
LEMMA AttachedStep ==
  ASSUME TypeOK, Placed, Attached, NoConnectionIsLost, [Next]_vars
  PROVE  Attached'
<1> USE McpPoolAssumption DEF Attached, pool, control, conns, calls, vars
<1>21. ASSUME NEW t \in Threads, Lease(t) PROVE Attached'
  BY <1>21 DEF Lease, Holds, Arms, Goto, TypeOK, Placed
<1>22. ASSUME NEW t \in Threads, Release(t) PROVE Attached'
  BY <1>22 DEF Release, Holds, Arms, Goto, TypeOK, Placed
<1>23. ASSUME NEW t \in Threads, ReconcileAway(t) PROVE Attached'
  BY <1>23 DEF ReconcileAway, Moves, Brings, Takes, LastUser, Unlisted,
     StopReasons, TypeOK, Placed
<1>24. ASSUME NEW t \in Threads, ReconcileJoin(t) PROVE Attached'
  BY <1>24 DEF ReconcileJoin, Moves, Brings, Takes, LastUser, Unlisted,
     StopReasons, TypeOK, Placed
<1>25. ASSUME NEW t \in Threads, ReconcileMake(t) PROVE Attached'
  BY <1>25 DEF ReconcileMake, Moves, Brings, Takes, LastUser, Unlisted,
     StopReasons, Unmade, TypeOK, Placed
<1>26. ASSUME NEW t \in Threads, Remove(t) PROVE Attached'
  BY <1>26 DEF Remove, Moves, Brings, Takes, LastUser, Unlisted,
     StopReasons, TypeOK, Placed
<1>27. ASSUME NEW t \in Threads, Calls(t) PROVE Attached'
  BY <1>27 DEF Calls, Goto, TypeOK, Placed
<1>28. ASSUME NEW t \in Threads, Asks(t) PROVE Attached'
  BY <1>28 DEF Asks, Goto, Ends, Usable, TypeOK, Placed
<1>29. ASSUME NEW t \in Threads, AskerDials(t) PROVE Attached'
  <2>1. inflight' = inflight /\ server[t] \in Instances
    BY <1>29 DEF AskerDials, Placed, TypeOK
  <2>2. CASE stuck[server[t]]
    BY <1>29, <2>1, <2>2 DEF AskerDials
  <2>3. CASE ~stuck[server[t]]
    BY <1>29, <2>1, <2>3, DialsAttached DEF AskerDials
  <2>4. QED
    BY <2>2, <2>3
<1>30. ASSUME NEW t \in Threads, Awaited(t) PROVE Attached'
  BY <1>30 DEF Awaited, Goto, Ends, TypeOK, Placed
<1>31. ASSUME NEW t \in Threads, CallEnds(t) PROVE Attached'
  BY <1>31 DEF CallEnds, LeavesConn, Retired, Ends, Goto, TypeOK, Placed
<1>32. ASSUME NEW t \in Threads, CallRefused(t) PROVE Attached'
  BY <1>32 DEF CallRefused, LeavesConn, Retired, Goto, TypeOK, Placed
<1>33. ASSUME NEW t \in Threads, RetiresForCall(t) PROVE Attached'
  BY <1>33 DEF RetiresForCall, Retires, Retired, Ends, Goto, TypeOK,
     Placed
<1>34. ASSUME NEW t \in Threads, CallCut(t) PROVE Attached'
  BY <1>34 DEF CallCut, Ends, Goto, TypeOK, Placed
<1>35. ASSUME NEW i \in Instances, IdleOut(i) PROVE Attached'
  BY <1>35 DEF IdleOut, Unlisted, StopReasons, TypeOK, Placed
<1>36. ASSUME NEW i \in Instances, BootAsks(i) PROVE Attached'
  BY <1>36 DEF BootAsks, Usable, TypeOK, Placed
<1>37. ASSUME NEW i \in Instances, BootDials(i) PROVE Attached'
  <2>1. CASE stuck[i]
    BY <1>37, <2>1 DEF BootDials
  <2>2. CASE ~stuck[i]
    BY <1>37, <2>2, DialsAttached DEF BootDials
  <2>3. QED
    BY <2>1, <2>2
<1>38. ASSUME NEW i \in Instances, Connects(i) PROVE Attached'
  <2>1. /\ attempt[i] \in Conns /\ phase[attempt[i]] \in Making
        /\ live[i] = 0 /\ attempt' = [attempt EXCEPT ![i] = 0]
        /\ \A j \in Instances : /\ live[j] # attempt[i]
                                /\ j # i => attempt[j] # attempt[i]
    BY <1>38 DEF Connects, TypeOK
  <2>2. /\ \A j \in Instances : attempt'[j] = IF j = i THEN 0 ELSE attempt[j]
        /\ \A j \in Instances :
             attempt[j] \in Conns \cup {0} /\ live[j] \in Conns \cup {0}
        /\ \A d \in Conns : d # attempt[i] => phase'[d] = phase[d]
    BY <1>38, <2>1 DEF Connects, TypeOK
  <2>3. \/ live' = live
        \/ /\ \A j \in Instances :
                live'[j] = IF j = i THEN attempt[i] ELSE live[j]
           /\ phase'[attempt[i]] = "open"
    BY <1>38, <2>1 DEF Connects, TypeOK
  <2>4. ASSUME NEW j \in Instances
        PROVE  /\ live'[j] # 0 => phase'[live'[j]] = "open" /\ attempt'[j] = 0
               /\ attempt'[j] # 0 => phase'[attempt'[j]] \in Making
    <3>1. live[j] # 0 => /\ phase'[live[j]] = "open" /\ attempt'[j] = 0
                         /\ j # i
      BY <2>1, <2>2
    <3>2. ASSUME attempt'[j] # 0
          PROVE  phase'[attempt'[j]] \in Making /\ j # i
      <4>1. j # i /\ attempt'[j] = attempt[j] /\ attempt[j] \in Conns
        BY <2>2, <3>2
      <4>2. phase[attempt[j]] \in Making /\ attempt[j] # attempt[i]
        BY <2>1, <3>2, <4>1
      <4>3. QED
        BY <2>2, <4>1, <4>2
    <3>3. CASE live' = live
      BY <3>1, <3>2, <3>3
    <3>4. CASE live' # live
      BY <2>1, <2>2, <2>3, <3>1, <3>2, <3>4
    <3>5. QED
      BY <3>3, <3>4
  <2>5. ASSUME NEW j \in Instances, NEW k \in Instances
        PROVE  /\ live'[j] # 0 /\ live'[j] = live'[k] => j = k
               /\ attempt'[j] # 0 /\ attempt'[j] = attempt'[k] => j = k
    BY <2>1, <2>2, <2>3
  <2>6. QED
    BY <2>4, <2>5
<1>39. ASSUME NEW i \in Instances, ConnectFails(i) PROVE Attached'
  BY <1>39 DEF ConnectFails, TypeOK, Placed
<1>40. ASSUME NEW i \in Instances, OnClose(i) PROVE Attached'
  BY <1>40 DEF OnClose, Retires, Retired, TypeOK, Placed
<1>41. ASSUME NEW i \in Instances, Controls(i) PROVE Attached'
  BY <1>41 DEF Controls, StopReasons, TypeOK, Placed
<1>42. ASSUME NEW i \in Instances, StopRuns(i) PROVE Attached'
  BY <1>42 DEF StopRuns, StopReady, Retired, StopReasons, TypeOK, Placed
<1>43. ASSUME NEW c \in Conns, Drops(c) PROVE Attached'
  BY <1>43 DEF Drops
<1>44. ASSUME NEW i \in Instances, AttemptBegins(i) PROVE Attached'
  BY <1>44 DEF AttemptBegins, TypeOK
<1>45. CASE UNCHANGED vars
  BY <1>45
<1>46. QED
  BY <1>21, <1>22, <1>23, <1>24, <1>25, <1>26, <1>27, <1>28, <1>29, <1>30,
     <1>31, <1>32, <1>33, <1>34, <1>35, <1>36, <1>37, <1>38, <1>39, <1>40,
     <1>41, <1>42, <1>43, <1>44, <1>45 DEF Next, OfThread, OfInstance

(* None is forgotten.                                                      *)
LEMMA LostStep ==
  ASSUME TypeOK, TypeOK', Placed, Attached, NoConnectionIsLost,
         [Next]_vars
  PROVE  NoConnectionIsLost'
<1> USE McpPoolAssumption DEF NoConnectionIsLost, pool, control, conns,
        calls, vars
<1>21. ASSUME NEW t \in Threads, Lease(t) PROVE NoConnectionIsLost'
  BY <1>21 DEF Lease, Holds, Arms, Goto, TypeOK, Placed, Attached
<1>22. ASSUME NEW t \in Threads, Release(t) PROVE NoConnectionIsLost'
  BY <1>22 DEF Release, Holds, Arms, Goto, TypeOK, Placed, Attached
<1>23. ASSUME NEW t \in Threads, ReconcileAway(t) PROVE NoConnectionIsLost'
  BY <1>23 DEF ReconcileAway, Moves, Brings, Takes, LastUser, Unlisted,
     StopReasons, TypeOK, Placed, Attached
<1>24. ASSUME NEW t \in Threads, ReconcileJoin(t) PROVE NoConnectionIsLost'
  BY <1>24 DEF ReconcileJoin, Moves, Brings, Takes, LastUser, Unlisted,
     StopReasons, TypeOK, Placed, Attached
<1>25. ASSUME NEW t \in Threads, ReconcileMake(t) PROVE NoConnectionIsLost'
  BY <1>25 DEF ReconcileMake, Moves, Brings, Takes, LastUser, Unlisted,
     StopReasons, Unmade, TypeOK, Placed, Attached
<1>26. ASSUME NEW t \in Threads, Remove(t) PROVE NoConnectionIsLost'
  BY <1>26 DEF Remove, Moves, Brings, Takes, LastUser, Unlisted,
     StopReasons, TypeOK, Placed, Attached
<1>27. ASSUME NEW t \in Threads, Calls(t) PROVE NoConnectionIsLost'
  BY <1>27 DEF Calls, Goto, TypeOK, Placed, Attached
<1>28. ASSUME NEW t \in Threads, Asks(t) PROVE NoConnectionIsLost'
  BY <1>28 DEF Asks, Goto, Ends, Usable, TypeOK, Placed, Attached
<1>29. ASSUME NEW t \in Threads, AskerDials(t) PROVE NoConnectionIsLost'
  <2>1. inflight' = inflight /\ server[t] \in Instances
    BY <1>29 DEF AskerDials, Placed, TypeOK
  <2>2. CASE stuck[server[t]]
    BY <1>29, <2>1, <2>2 DEF AskerDials
  <2>3. CASE ~stuck[server[t]]
    BY <1>29, <2>1, <2>3, DialsAttached DEF AskerDials
  <2>4. QED
    BY <2>2, <2>3
<1>30. ASSUME NEW t \in Threads, Awaited(t) PROVE NoConnectionIsLost'
  BY <1>30 DEF Awaited, Goto, Ends, TypeOK, Placed, Attached
<1>31. ASSUME NEW t \in Threads, CallEnds(t) PROVE NoConnectionIsLost'
  BY <1>31 DEF CallEnds, LeavesConn, Retired, Ends, Goto, TypeOK, Placed,
     Attached
<1>32. ASSUME NEW t \in Threads, CallRefused(t) PROVE NoConnectionIsLost'
  BY <1>32 DEF CallRefused, LeavesConn, Retired, Goto, TypeOK, Placed,
     Attached
<1>33. ASSUME NEW t \in Threads, RetiresForCall(t) PROVE NoConnectionIsLost'
  BY <1>33 DEF RetiresForCall, Retires, Retired, Ends, Goto, TypeOK,
     Placed, Attached
<1>34. ASSUME NEW t \in Threads, CallCut(t) PROVE NoConnectionIsLost'
  BY <1>34 DEF CallCut, Ends, Goto, TypeOK, Placed, Attached
<1>35. ASSUME NEW i \in Instances, IdleOut(i) PROVE NoConnectionIsLost'
  BY <1>35 DEF IdleOut, Unlisted, StopReasons, TypeOK, Placed, Attached
<1>36. ASSUME NEW i \in Instances, BootAsks(i) PROVE NoConnectionIsLost'
  BY <1>36 DEF BootAsks, Usable, TypeOK, Placed, Attached
<1>37. ASSUME NEW i \in Instances, BootDials(i) PROVE NoConnectionIsLost'
  <2>1. CASE stuck[i]
    BY <1>37, <2>1 DEF BootDials
  <2>2. CASE ~stuck[i]
    BY <1>37, <2>2, DialsAttached DEF BootDials
  <2>3. QED
    BY <2>1, <2>2
<1>38. ASSUME NEW i \in Instances, Connects(i) PROVE NoConnectionIsLost'
  BY <1>38 DEF Connects, TypeOK, Placed, Attached
<1>39. ASSUME NEW i \in Instances, ConnectFails(i) PROVE NoConnectionIsLost'
  BY <1>39 DEF ConnectFails, TypeOK, Placed, Attached
<1>40. ASSUME NEW i \in Instances, OnClose(i) PROVE NoConnectionIsLost'
  BY <1>40 DEF OnClose, Retires, Retired, TypeOK, Placed, Attached
<1>41. ASSUME NEW i \in Instances, Controls(i) PROVE NoConnectionIsLost'
  BY <1>41 DEF Controls, StopReasons, TypeOK, Placed, Attached
<1>42. ASSUME NEW i \in Instances, StopRuns(i) PROVE NoConnectionIsLost'
  BY <1>42 DEF StopRuns, StopReady, Retired, StopReasons, TypeOK, Placed,
     Attached
<1>43. ASSUME NEW c \in Conns, Drops(c) PROVE NoConnectionIsLost'
  BY <1>43 DEF Drops
<1>44. ASSUME NEW i \in Instances, AttemptBegins(i) PROVE NoConnectionIsLost'
  BY <1>44 DEF AttemptBegins, TypeOK
<1>45. CASE UNCHANGED vars
  BY <1>45
<1>46. QED
  BY <1>21, <1>22, <1>23, <1>24, <1>25, <1>26, <1>27, <1>28, <1>29, <1>30,
     <1>31, <1>32, <1>33, <1>34, <1>35, <1>36, <1>37, <1>38, <1>39, <1>40,
     <1>41, <1>42, <1>43, <1>44, <1>45 DEF Next, OfThread, OfInstance

(* No call is on a connection that is gone, or not there yet.              *)
LEMMA CarriedStep ==
  ASSUME TypeOK, Placed, CallsAreCounted, Attached, Carried, [Next]_vars
  PROVE  Carried'
<1> USE McpPoolAssumption DEF Carried, pool, control, conns, calls, vars
<1>1. ASSUME UNCHANGED <<phase, inflight>> PROVE Carried'
  BY <1>1
<1>2. ASSUME NEW t \in Threads, Lease(t) \/ Release(t) \/ Settles(t)
                                 \/ Calls(t) \/ CallCut(t)
      PROVE  Carried'
  <2>1. UNCHANGED <<phase, inflight>>
    BY <1>2 DEF Lease, Release, Settles, ReconcileAway, ReconcileJoin,
       ReconcileMake, Remove, Calls, CallCut
  <2>2. QED
    BY <1>1, <2>1
<1>3. ASSUME NEW t \in Threads, Asks(t) PROVE Carried'
  <2>1. CASE UNCHANGED <<phase, inflight>>
    BY <1>1, <2>1
  <2>2. CASE /\ UNCHANGED phase /\ live[server[t]] # 0
             /\ inflight' = [inflight EXCEPT ![live[server[t]]] = @ + 1]
    <3>1. server[t] \in Instances
      BY <1>3 DEF Asks, Placed, TypeOK
    <3>2. phase[live[server[t]]] = "open"
      BY <2>2, <3>1 DEF Attached
    <3>3. QED
      BY <2>2, <3>2 DEF TypeOK
  <2>3. QED
    BY <1>3, <2>1, <2>2 DEF Asks, Usable
<1>4. ASSUME NEW i \in Instances, NEW c \in Conns, Dials(i, c),
             inflight' = inflight
      PROVE  Carried'
  <2>1. phase[c] \in {"none"} \cup Making
    BY <1>4 DEF Dials, Unused, Attached, TypeOK
  <2>2. \A d \in Conns : phase'[d] =
           IF d = c THEN (IF attempt[i] = 0 THEN "forked" ELSE phase[c])
           ELSE IF d = live[i] THEN Retired(inflight[d]) ELSE phase[d]
    BY <1>4 DEF Dials
  <2>3. QED
    BY <1>4, <2>1, <2>2 DEF Retired
<1>5. ASSUME NEW t \in Threads, AskerDials(t) PROVE Carried'
  <2>1. inflight' = inflight /\ server[t] \in Instances
    BY <1>5 DEF AskerDials, Placed, TypeOK
  <2>2. CASE stuck[server[t]]
    BY <1>1, <1>5, <2>1, <2>2 DEF AskerDials
  <2>3. CASE ~stuck[server[t]]
    BY <1>4, <1>5, <2>1, <2>3 DEF AskerDials
  <2>4. QED
    BY <2>2, <2>3
<1>6. ASSUME NEW i \in Instances, BootDials(i) PROVE Carried'
  <2>1. CASE stuck[i]
    BY <1>1, <1>6, <2>1 DEF BootDials
  <2>2. CASE ~stuck[i]
    BY <1>4, <1>6, <2>2 DEF BootDials
  <2>3. QED
    BY <2>1, <2>2
<1>7. ASSUME NEW t \in Threads, Awaited(t) PROVE Carried'
  BY <1>7 DEF Awaited, Ends, TypeOK
<1>8. ASSUME NEW t \in Threads, CallEnds(t) \/ CallRefused(t)
      PROVE  Carried'
  <2>1. /\ pc[t] = "calling"
        /\ inflight' = [inflight EXCEPT ![using[t]] = @ - 1]
        /\ phase' = [phase EXCEPT ![using[t]] =
             IF @ = "retired" THEN Retired(inflight[using[t]] - 1) ELSE @]
    BY <1>8 DEF CallEnds, CallRefused, LeavesConn
  <2>2. ASSUME NEW c \in Conns, phase'[c] \in {"none"} \cup Making
        PROVE  inflight'[c] = 0
    <3>1. CASE c # using[t]
      BY <2>1, <2>2, <3>1 DEF TypeOK
    <3>2. CASE c = using[t]
      <4>1. t \in Callers(c)
        BY <2>1, <3>2 DEF Callers
      <4>2. Callers(c) # {} /\ IsFiniteSet(Callers(c))
        BY <4>1, CallersAreFinite
      <4>3. inflight[c] # 0
        BY <4>2, FS_EmptySet DEF CallsAreCounted
      <4>4. phase[c] \notin {"none"} \cup Making
        BY <4>3
      <4>5. phase'[c] =
              IF phase[c] = "retired" THEN Retired(inflight[c] - 1)
                                      ELSE phase[c]
        BY <2>1, <3>2 DEF TypeOK
      <4>6. inflight[c] - 1 = 0
        BY <2>2, <4>4, <4>5 DEF Retired
      <4>7. QED
        BY <2>1, <3>2, <4>6 DEF TypeOK
    <3>3. QED
      BY <3>1, <3>2
  <2>3. QED
    BY <2>2
<1>9. ASSUME NEW t \in Threads, RetiresForCall(t) PROVE Carried'
  BY <1>9 DEF RetiresForCall, Retires, Retired
<1>10. ASSUME NEW i \in Instances, OfInstance(i) PROVE Carried'
  <2>1. CASE IdleOut(i) \/ BootAsks(i) \/ Controls(i)
    BY <1>1, <2>1 DEF IdleOut, BootAsks, Controls
  <2>2. CASE Connects(i) \/ ConnectFails(i)
    BY <2>2 DEF Connects, ConnectFails, Attached, TypeOK
  <2>3. CASE OnClose(i)
    BY <2>3 DEF OnClose, Retires, Retired
  <2>4. CASE StopRuns(i)
    <3>1. /\ inflight' = inflight
          /\ \A c \in Conns : phase'[c] =
               CASE c = attempt[i] -> "none"
                 [] c = live[i]    -> Retired(inflight[c])
                 [] OTHER          -> phase[c]
      BY <2>4 DEF StopRuns
    <3>2. \A c \in Conns : c = attempt[i] => phase[c] \in Making
      BY DEF Attached, TypeOK
    <3>3. QED
      BY <3>1, <3>2 DEF Retired, Attached, TypeOK
  <2>5. CASE AttemptBegins(i)
    BY <2>5 DEF AttemptBegins, TypeOK
  <2>6. QED
    BY <1>6, <1>10, <2>1, <2>2, <2>3, <2>4, <2>5 DEF OfInstance
<1>11. ASSUME NEW c \in Conns, Drops(c) PROVE Carried'
  BY <1>1, <1>11 DEF Drops
<1>12. QED
  BY <1>1, <1>2, <1>3, <1>5, <1>7, <1>8, <1>9, <1>10, <1>11
     DEF Next, OfThread, Settles

(* What was stopped stays quiet.                                           *)
LEMMA GuardedStep ==
  ASSUME TypeOK, Placed, Guarded, [Next]_vars
  PROVE  Guarded'
<1> USE McpPoolAssumption DEF Guarded, Unlocked, pool, control, conns,
        calls, vars
<1>21. ASSUME NEW t \in Threads, Lease(t) PROVE Guarded'
  BY <1>21 DEF Lease, Holds, Arms, Goto, TypeOK, Placed
<1>22. ASSUME NEW t \in Threads, Release(t) PROVE Guarded'
  BY <1>22 DEF Release, Holds, Arms, Goto, TypeOK, Placed
<1>23. ASSUME NEW t \in Threads, ReconcileAway(t) PROVE Guarded'
  BY <1>23, LeavingStaysQuiet DEF ReconcileAway
<1>24. ASSUME NEW t \in Threads, ReconcileJoin(t) PROVE Guarded'
  <2>1. /\ Moves(t, current, current) /\ pc[t] # "locking"
        /\ UNCHANGED <<stopped, live, attempt, pc>>
    BY <1>24 DEF ReconcileJoin
  <2>2. \A u \in Threads \ {t} : server'[u] = server[u]
    BY <2>1 DEF Moves, TypeOK
  <2>3. \A j \in Instances : booting'[j] = "locking" => booting[j] = "locking"
    <3>1. \/ booting' = booting
          \/ booting' = [booting EXCEPT ![current] = "queued"]
      BY <1>24 DEF ReconcileJoin
    <3>2. QED
      BY <3>1 DEF TypeOK
  <2>4. ASSUME NEW j \in Instances, stops'[j] = {}
        PROVE  stops[j] = {} /\ (closed'[j] => closed[j])
    <3>1. ~(j = server[t] /\ j # current /\ users[j] = {t})
      BY <2>1, <2>4 DEF Moves, LastUser
    <3>2. QED
      BY <2>1, <2>4, <3>1 DEF Moves, LastUser, TypeOK
  <2>5. QED
    BY <2>1, <2>2, <2>3, <2>4, StaysQuiet
<1>25. ASSUME NEW t \in Threads, ReconcileMake(t) PROVE Guarded'
  <2>1. PICK i \in Instances :
          /\ Moves(t, i, i) /\ current = 0
          /\ booting' = [booting EXCEPT ![i] = "queued"]
          /\ stopped' = [stopped EXCEPT ![i] = FALSE]
    BY <1>25 DEF ReconcileMake
  <2>2. /\ UNCHANGED <<live, attempt, pc>> /\ pc[t] # "locking"
        /\ \A u \in Threads \ {t} : server'[u] = server[u]
    BY <1>25, <2>1 DEF ReconcileMake, Moves, TypeOK
  <2>3. \A j \in Instances : booting'[j] = "locking" => booting[j] = "locking"
    BY <2>1 DEF TypeOK
  <2>4. ~closed'[i] /\ ~stopped'[i]
    BY <2>1 DEF Moves, TypeOK
  <2>5. ASSUME NEW j \in Instances, j # i, stops'[j] = {}
        PROVE  /\ stops[j] = {} /\ closed'[j] = closed[j]
               /\ stopped'[j] = stopped[j]
    <3>1. ~(j = server[t] /\ users[j] = {t}) /\ stops'[j] = stops[j]
      BY <2>1, <2>5 DEF Moves, LastUser
    <3>2. QED
      BY <2>1, <2>5, <3>1 DEF Moves, LastUser, TypeOK
  <2>6. QED
    BY <2>2, <2>3, <2>4, <2>5, StaysQuiet
<1>26. ASSUME NEW t \in Threads, Remove(t) PROVE Guarded'
  BY <1>26, LeavingStaysQuiet DEF Remove
<1>27. ASSUME NEW t \in Threads, Calls(t) PROVE Guarded'
  BY <1>27 DEF Calls, Goto, TypeOK, Placed
<1>28. ASSUME NEW t \in Threads, Asks(t) PROVE Guarded'
  <2>1. UNCHANGED <<closed, stopped, stops, booting, live, attempt, server>>
    BY <1>28 DEF Asks
  <2>2. \A u \in Threads : u # t => pc'[u] = pc[u]
    BY <1>28 DEF Asks, Goto, Ends, TypeOK
  <2>3. pc'[t] = "locking" => ~closed[server[t]] /\ ~stopped[server[t]]
    BY <1>28 DEF Asks, Goto, Ends, TypeOK
  <2>4. ASSUME NEW j \in Instances, closed'[j] \/ stopped'[j], stops'[j] = {}
        PROVE  live'[j] = 0 /\ attempt'[j] = 0 /\ Unlocked(j)'
    <3>1. live[j] = 0 /\ attempt[j] = 0 /\ Unlocked(j)
      BY <2>1, <2>4 DEF Guarded
    <3>2. Unlocked(j)'
      BY <2>1, <2>2, <2>3, <2>4, <3>1
    <3>3. QED
      BY <2>1, <3>1, <3>2
  <2>5. QED
    BY <2>4
<1>29. ASSUME NEW t \in Threads, AskerDials(t) PROVE Guarded'
  <2>1. UNCHANGED <<closed, stopped, stops, booting, server>>
    BY <1>29 DEF AskerDials
  <2>2. pc[t] = "locking"
    BY <1>29 DEF AskerDials
  <2>3. \E place \in {"awaiting", "running"} : pc' = [pc EXCEPT ![t] = place]
    BY <1>29 DEF AskerDials, Ends, Goto
  <2>4. server[t] \in Instances
    BY <2>2 DEF TypeOK, Placed
  <2>5. ~Unlocked(server[t])
    BY <2>2
  <2>6. \A u \in Threads : pc'[u] = "locking" => pc[u] = "locking"
    BY <2>3 DEF TypeOK
  <2>7. \A j \in Instances :
          j # server[t] => live'[j] = live[j] /\ attempt'[j] = attempt[j]
    <3>1. CASE stuck[server[t]]
      BY <1>29, <3>1 DEF AskerDials
    <3>2. CASE ~stuck[server[t]]
      <4>1. PICK c \in Conns : Dials(server[t], c)
        BY <1>29, <3>2 DEF AskerDials
      <4>2. QED
        BY <4>1 DEF Dials, TypeOK
    <3>3. QED
      BY <3>1, <3>2
  <2>8. ASSUME NEW j \in Instances, closed'[j] \/ stopped'[j], stops'[j] = {}
        PROVE  live'[j] = 0 /\ attempt'[j] = 0 /\ Unlocked(j)'
    <3>1. live[j] = 0 /\ attempt[j] = 0 /\ Unlocked(j)
      BY <2>1, <2>8 DEF Guarded
    <3>2. j # server[t]
      BY <2>5, <3>1
    <3>3. Unlocked(j)'
      BY <2>1, <2>6, <3>1
    <3>4. QED
      BY <2>7, <3>1, <3>2, <3>3
  <2>9. QED
    BY <2>8
<1>30. ASSUME NEW t \in Threads, Awaited(t) PROVE Guarded'
  BY <1>30 DEF Awaited, Goto, Ends, TypeOK, Placed
<1>31. ASSUME NEW t \in Threads, CallEnds(t) PROVE Guarded'
  BY <1>31 DEF CallEnds, LeavesConn, Retired, Ends, Goto, TypeOK, Placed
<1>32. ASSUME NEW t \in Threads, CallRefused(t) PROVE Guarded'
  BY <1>32 DEF CallRefused, LeavesConn, Retired, Goto, TypeOK, Placed
<1>33. ASSUME NEW t \in Threads, RetiresForCall(t) PROVE Guarded'
  <2>1. /\ UNCHANGED <<closed, stopped, stops, attempt, booting, server>>
        /\ \A i \in Instances : live'[i] \in {0, live[i]}
    BY <1>33 DEF RetiresForCall, Retires
  <2>2. \A u \in Threads : pc'[u] = "locking" => pc[u] = "locking"
    BY <1>33 DEF RetiresForCall, Ends, Goto, TypeOK
  <2>3. QED
    BY <2>1, <2>2, StaysQuiet
<1>34. ASSUME NEW t \in Threads, CallCut(t) PROVE Guarded'
  BY <1>34 DEF CallCut, Ends, Goto, TypeOK, Placed
<1>35. ASSUME NEW i \in Instances, IdleOut(i) PROVE Guarded'
  <2>1. UNCHANGED <<stopped, live, attempt, booting, pc, server>>
    BY <1>35 DEF IdleOut
  <2>2. \A j \in Instances :
          stops'[j] = {} => stops[j] = {} /\ closed'[j] = closed[j]
    BY <1>35 DEF IdleOut, TypeOK
  <2>3. QED
    BY <2>1, <2>2, StaysQuiet
<1>36. ASSUME NEW i \in Instances, BootAsks(i) PROVE Guarded'
  BY <1>36 DEF BootAsks, Usable, TypeOK, Placed
<1>37. ASSUME NEW i \in Instances, BootDials(i) PROVE Guarded'
  BY <1>37 DEF BootDials, Dials, Unused, Retired, TypeOK, Placed
<1>38. ASSUME NEW i \in Instances, Connects(i) PROVE Guarded'
  BY <1>38 DEF Connects, TypeOK, Placed
<1>39. ASSUME NEW i \in Instances, ConnectFails(i) PROVE Guarded'
  BY <1>39 DEF ConnectFails, TypeOK, Placed
<1>40. ASSUME NEW i \in Instances, OnClose(i) PROVE Guarded'
  BY <1>40 DEF OnClose, Retires, Retired, TypeOK, Placed
<1>41. ASSUME NEW i \in Instances, Controls(i) PROVE Guarded'
  BY <1>41 DEF Controls, StopReasons, TypeOK, Placed
<1>42. ASSUME NEW i \in Instances, StopRuns(i) PROVE Guarded'
  BY <1>42 DEF StopRuns, StopReady, Retired, StopReasons, TypeOK, Placed
<1>43. ASSUME NEW c \in Conns, Drops(c) PROVE Guarded'
  BY <1>43 DEF Drops
<1>44. ASSUME NEW i \in Instances, AttemptBegins(i) PROVE Guarded'
  BY <1>44 DEF AttemptBegins
<1>45. CASE UNCHANGED vars
  BY <1>45
<1>46. QED
  BY <1>21, <1>22, <1>23, <1>24, <1>25, <1>26, <1>27, <1>28, <1>29, <1>30,
     <1>31, <1>32, <1>33, <1>34, <1>35, <1>36, <1>37, <1>38, <1>39, <1>40,
     <1>41, <1>42, <1>43, <1>44, <1>45 DEF Next, OfThread, OfInstance

-----------------------------------------------------------------------------
(* What is counted is a number.                                            *)
LEMMA NumbersNext ==
  ASSUME LeasesAreCounted', CallsAreCounted'
  PROVE  /\ \A i \in Instances : leases'[i] \in Nat
         /\ \A c \in Conns : inflight'[c] \in Nat
<1>1. ASSUME NEW i \in Instances PROVE leases'[i] \in Nat
  <2>1. {t \in users'[i] : drains'[t] = 1} \subseteq Threads
    BY DEF LeasesAreCounted
  <2>2. Cardinality({t \in users'[i] : drains'[t] = 1}) \in Nat
    BY <2>1, McpPoolAssumption, FS_Subset, FS_CardinalityType
  <2>3. QED
    BY <2>2 DEF LeasesAreCounted
<1>2. ASSUME NEW c \in Conns PROVE inflight'[c] \in Nat
  <2>1. {t \in Threads : pc'[t] = "calling" /\ using'[t] = c} \subseteq Threads
    OBVIOUS
  <2>2. Cardinality({t \in Threads : pc'[t] = "calling" /\ using'[t] = c})
          \in Nat
    BY <2>1, McpPoolAssumption, FS_Subset, FS_CardinalityType
  <2>3. QED
    BY <2>2 DEF CallsAreCounted, Callers
<1>3. QED
  BY <1>1, <1>2

LEMMA InflightType ==
  ASSUME TypeOK, \A c \in Conns : inflight'[c] \in Nat, NEW d, NEW e,
         inflight' = [inflight EXCEPT ![d] = e]
  PROVE  inflight' \in [Conns -> Nat]
BY DEF TypeOK

(* A settlement keeps the types of the pool.                               *)
LEMMA MovesType ==
  ASSUME TypeOK, \A i \in Instances : leases'[i] \in Nat, NEW t \in Threads,
         NEW to \in Instances \cup {0}, NEW listed \in Instances \cup {0},
         Moves(t, to, listed)
  PROVE  /\ server' \in [Threads -> Instances \cup {0}]
         /\ users' \in [Instances -> SUBSET Threads]
         /\ leases' \in [Instances -> Nat]
         /\ closed' \in [Instances -> BOOLEAN]
         /\ armed' \in [Instances -> BOOLEAN]
         /\ stops' \in [Instances -> SUBSET StopReasons]
         /\ current' \in Instances \cup {0}
<1>1. server' \in [Threads -> Instances \cup {0}]
  BY DEF Moves, TypeOK
<1>2. users' \in [Instances -> SUBSET Threads]
  BY DEF Moves, TypeOK
<1>3. leases' \in [Instances -> Nat]
  <2>1. /\ DOMAIN leases' = Instances
        /\ leases' = [i \in Instances |-> leases'[i]]
    BY DEF Moves
  <2>2. QED
    BY <2>1
<1>4. closed' \in [Instances -> BOOLEAN] /\ armed' \in [Instances -> BOOLEAN]
  BY DEF Moves, TypeOK
<1>5. stops' \in [Instances -> SUBSET StopReasons]
  BY DEF Moves, TypeOK, StopReasons
<1>6. current' \in Instances \cup {0}
  BY DEF Moves, Unlisted
<1>7. QED
  BY <1>1, <1>2, <1>3, <1>4, <1>5, <1>6

(* So does an attempt that starts.                                         *)
LEMMA DialsType ==
  ASSUME TypeOK, NEW i \in Instances, NEW c \in Conns, Dials(i, c)
  PROVE  /\ live' \in [Instances -> Conns \cup {0}]
         /\ attempt' \in [Instances -> Conns \cup {0}]
         /\ phase' \in [Conns -> Phases] /\ dropped' \in [Conns -> BOOLEAN]
BY DEF Dials, Retired, Phases, TypeOK

(* The types.                                                              *)
LEMMA TypeStep ==
  ASSUME TypeOK, Placed, LeasesAreCounted', CallsAreCounted', [Next]_vars
  PROVE  TypeOK'
<1> USE McpPoolAssumption DEF TypeOK, Places, Phases, StopReasons, pool,
        control, conns, calls, vars
<1>1. /\ \A i \in Instances : leases'[i] \in Nat
      /\ \A c \in Conns : inflight'[c] \in Nat
  BY NumbersNext
<1>21. ASSUME NEW t \in Threads, Lease(t) PROVE TypeOK'
  BY <1>21, <1>1 DEF Lease, Holds, Arms, Goto
<1>22. ASSUME NEW t \in Threads, Release(t) PROVE TypeOK'
  BY <1>22, <1>1 DEF Release, Holds, Arms, Goto
<1>23. ASSUME NEW t \in Threads, ReconcileAway(t) PROVE TypeOK'
  BY <1>23, <1>1, MovesType DEF ReconcileAway
<1>24. ASSUME NEW t \in Threads, ReconcileJoin(t) PROVE TypeOK'
  <2>1. /\ Moves(t, current, current) /\ current \in Instances
        /\ booting' \in [Instances -> {"no", "queued", "locking"}]
    BY <1>24 DEF ReconcileJoin
  <2>2. UNCHANGED <<stopped, stuck, live, attempt, phase, dropped, inflight, drains,
                    pc,
                    using, again>>
    BY <1>24 DEF ReconcileJoin
  <2>3. QED
    BY <1>1, <2>1, <2>2, MovesType
<1>25. ASSUME NEW t \in Threads, ReconcileMake(t) PROVE TypeOK'
  <2>1. PICK i \in Instances :
          /\ Moves(t, i, i) /\ booting' = [booting EXCEPT ![i] = "queued"]
          /\ stopped' = [stopped EXCEPT ![i] = FALSE]
          /\ stuck' = [stuck EXCEPT ![i] = FALSE]
    BY <1>25 DEF ReconcileMake
  <2>2. UNCHANGED <<live, attempt, phase, dropped, inflight, drains, pc, using,
                    again>>
    BY <1>25 DEF ReconcileMake
  <2>3. QED
    BY <1>1, <2>1, <2>2, MovesType
<1>26. ASSUME NEW t \in Threads, Remove(t) PROVE TypeOK'
  BY <1>26, <1>1, MovesType DEF Remove
<1>27. ASSUME NEW t \in Threads, Calls(t) PROVE TypeOK'
  BY <1>27, <1>1 DEF Calls, Goto
<1>28. ASSUME NEW t \in Threads, Asks(t) PROVE TypeOK'
  <2>1. UNCHANGED <<pool, control, live, attempt, phase, dropped, server,
                    drains>>
    BY <1>28 DEF Asks
  <2>2. server[t] \in Instances
    BY <1>28 DEF Asks, Placed
  <2>3. CASE Ends(t) /\ UNCHANGED inflight
    BY <2>1, <2>3 DEF Ends, Goto
  <2>4. CASE Goto(t, "locking") /\ UNCHANGED <<using, again, inflight>>
    BY <2>1, <2>4 DEF Goto
  <2>5. CASE /\ Goto(t, "calling")
             /\ using' = [using EXCEPT ![t] = live[server[t]]]
             /\ inflight' = [inflight EXCEPT ![live[server[t]]] = @ + 1]
             /\ UNCHANGED again
    <3>1. inflight' \in [Conns -> Nat]
      BY <1>1, <2>5, InflightType
    <3>2. live[server[t]] \in Conns \cup {0}
      BY <2>2
    <3>3. QED
      BY <2>1, <2>5, <3>1, <3>2 DEF Goto
  <2>6. QED
    BY <1>28, <2>3, <2>4, <2>5 DEF Asks, Goto, Ends
<1>29. ASSUME NEW t \in Threads, AskerDials(t) PROVE TypeOK'
  <2>1. UNCHANGED <<pool, control, inflight, server, drains>>
    BY <1>29 DEF AskerDials
  <2>2. CASE stuck[server[t]]
    <3>1. Ends(t) /\ UNCHANGED <<live, attempt, phase, dropped>>
      BY <1>29, <2>2 DEF AskerDials
    <3>2. /\ pc' \in [Threads -> Places] /\ again' \in [Threads -> BOOLEAN]
          /\ using' \in [Threads -> Conns \cup {0}]
      BY <3>1 DEF Ends, Goto
    <3>3. QED
      BY <2>1, <3>1, <3>2
  <2>3. CASE ~stuck[server[t]]
    <3>1. server[t] \in Instances
      BY <1>29 DEF AskerDials, Placed
    <3>2. PICK c \in Conns :
            Dials(server[t], c) /\ using' = [using EXCEPT ![t] = c]
      BY <1>29, <2>3 DEF AskerDials
    <3>3. Goto(t, "awaiting") /\ UNCHANGED again
      BY <1>29, <2>3 DEF AskerDials
    <3>4. QED
      BY <2>1, <3>1, <3>2, <3>3, DialsType DEF Goto
  <2>4. QED
    BY <2>2, <2>3
<1>30. ASSUME NEW t \in Threads, Awaited(t) PROVE TypeOK'
  <2>1. UNCHANGED <<pool, control, live, attempt, phase, dropped, server,
                    drains>>
    BY <1>30 DEF Awaited
  <2>2. CASE Ends(t) /\ UNCHANGED inflight
    BY <2>1, <2>2 DEF Ends, Goto
  <2>3. CASE /\ Goto(t, "calling") /\ UNCHANGED <<using, again>>
             /\ inflight' = [inflight EXCEPT ![using[t]] = @ + 1]
    <3>1. inflight' \in [Conns -> Nat]
      BY <1>1, <2>3, InflightType
    <3>2. QED
      BY <2>1, <2>3, <3>1 DEF Goto
  <2>4. QED
    BY <1>30, <2>2, <2>3 DEF Awaited, Goto, Ends
<1>31. ASSUME NEW t \in Threads, CallEnds(t) PROVE TypeOK'
  <2>1. inflight' \in [Conns -> Nat]
    BY <1>31, <1>1, InflightType DEF CallEnds, LeavesConn
  <2>2. phase' \in [Conns -> Phases]
    BY <1>31 DEF CallEnds, LeavesConn, Retired
  <2>3. pc' \in [Threads -> Places]
    BY <1>31 DEF CallEnds, Ends, Goto
  <2>4. /\ using' \in [Threads -> Conns \cup {0}]
        /\ again' \in [Threads -> BOOLEAN]
    BY <1>31 DEF CallEnds, Ends
  <2>5. UNCHANGED <<pool, control, live, attempt, dropped, server, drains>>
    BY <1>31 DEF CallEnds
  <2>6. QED
    BY <2>1, <2>2, <2>3, <2>4, <2>5
<1>32. ASSUME NEW t \in Threads, CallRefused(t) PROVE TypeOK'
  <2>1. inflight' \in [Conns -> Nat]
    BY <1>32, <1>1, InflightType DEF CallRefused, LeavesConn
  <2>2. phase' \in [Conns -> Phases]
    BY <1>32 DEF CallRefused, LeavesConn, Retired
  <2>3. pc' \in [Threads -> Places]
    BY <1>32 DEF CallRefused, Ends, Goto
  <2>4. /\ using' \in [Threads -> Conns \cup {0}]
        /\ again' \in [Threads -> BOOLEAN]
    BY <1>32 DEF CallRefused, Ends
  <2>5. UNCHANGED <<pool, control, live, attempt, dropped, server, drains>>
    BY <1>32 DEF CallRefused
  <2>6. QED
    BY <2>1, <2>2, <2>3, <2>4, <2>5
<1>33. ASSUME NEW t \in Threads, RetiresForCall(t) PROVE TypeOK'
  <2>1. /\ live' \in [Instances -> Conns \cup {0}]
        /\ dropped' \in [Conns -> BOOLEAN]
    BY <1>33 DEF RetiresForCall, Retires
  <2>2. phase' \in [Conns -> Phases]
    BY <1>33 DEF RetiresForCall, Retires, Retired
  <2>3. pc' \in [Threads -> Places]
    BY <1>33 DEF RetiresForCall, Ends, Goto
  <2>4. using' \in [Threads -> Conns \cup {0}]
    BY <1>33 DEF RetiresForCall, Ends
  <2>5. again' \in [Threads -> BOOLEAN]
    <3>1. (server[t] # 0 /\ ~closed[server[t]]) \in BOOLEAN
      OBVIOUS
    <3>2. PICK b \in BOOLEAN : again' = [again EXCEPT ![t] = b]
      BY <1>33, <3>1, ZenonT(30) DEF RetiresForCall, Ends
    <3>3. QED
      BY <3>2
  <2>6. UNCHANGED <<pool, control, attempt, inflight, server, drains>>
    BY <1>33 DEF RetiresForCall
  <2>7. QED
    BY <2>1, <2>2, <2>3, <2>4, <2>5, <2>6
<1>34. ASSUME NEW t \in Threads, CallCut(t) PROVE TypeOK'
  BY <1>34, <1>1 DEF CallCut, Ends, Goto
<1>35. ASSUME NEW i \in Instances, IdleOut(i) PROVE TypeOK'
  BY <1>35, <1>1 DEF IdleOut, Unlisted
<1>36. ASSUME NEW i \in Instances, BootAsks(i) PROVE TypeOK'
  BY <1>36, <1>1 DEF BootAsks, Usable
<1>37. ASSUME NEW i \in Instances, BootDials(i) PROVE TypeOK'
  <2>1. /\ UNCHANGED <<pool, stopped, stops, stuck, inflight, server, drains,
                       calls>>
        /\ booting' = [booting EXCEPT ![i] = "no"]
    BY <1>37 DEF BootDials
  <2>2. CASE stuck[i]
    BY <1>37, <2>1, <2>2 DEF BootDials
  <2>3. CASE ~stuck[i]
    BY <1>37, <2>1, <2>3, DialsType DEF BootDials
  <2>4. QED
    BY <2>2, <2>3
<1>38. ASSUME NEW i \in Instances, Connects(i) PROVE TypeOK'
  BY <1>38, <1>1 DEF Connects
<1>39. ASSUME NEW i \in Instances, ConnectFails(i) PROVE TypeOK'
  BY <1>39, <1>1 DEF ConnectFails
<1>40. ASSUME NEW i \in Instances, OnClose(i) PROVE TypeOK'
  BY <1>40, <1>1 DEF OnClose, Retires, Retired
<1>41. ASSUME NEW i \in Instances, Controls(i) PROVE TypeOK'
  BY <1>41, <1>1 DEF Controls
<1>42. ASSUME NEW i \in Instances, StopRuns(i) PROVE TypeOK'
  BY <1>42, <1>1 DEF StopRuns, StopReady, Retired
<1>43. ASSUME NEW c \in Conns, Drops(c) PROVE TypeOK'
  BY <1>43 DEF Drops
<1>44. ASSUME NEW i \in Instances, AttemptBegins(i) PROVE TypeOK'
  BY <1>44 DEF AttemptBegins
<1>45. CASE UNCHANGED vars
  BY <1>45
<1>46. QED
  BY <1>21, <1>22, <1>23, <1>24, <1>25, <1>26, <1>27, <1>28, <1>29, <1>30,
     <1>31, <1>32, <1>33, <1>34, <1>35, <1>36, <1>37, <1>38, <1>39, <1>40,
     <1>41, <1>42, <1>43, <1>44, <1>45 DEF Next, OfThread, OfInstance

-----------------------------------------------------------------------------
LEMMA InitIInv == Init => IInv
<1> SUFFICES ASSUME Init PROVE IInv
  OBVIOUS
<1> USE McpPoolAssumption DEF Init
<1>1. TypeOK /\ Placed
  BY DEF TypeOK, Placed, Places, Phases, StopReasons
<1>2. \A i \in Instances : users[i] = Users(i) /\ Drained(i) = {}
  BY DEF Users, Drained
<1>3. LeasesAreCounted
  BY <1>2, FS_EmptySet DEF LeasesAreCounted, Users, Drained
<1>4. \A c \in Conns : Callers(c) = {}
  BY DEF Callers
<1>5. CallsAreCounted
  BY <1>4, FS_EmptySet DEF CallsAreCounted
<1>6. /\ OneInstance /\ UnheldIsArmed /\ Attached /\ Guarded
      /\ NoConnectionIsLost /\ Carried
  BY DEF OneInstance, UnheldIsArmed, Attached, Guarded, Unlocked,
     NoConnectionIsLost, Carried
<1>7. QED
  BY <1>1, <1>3, <1>5, <1>6 DEF IInv

LEMMA NextIInv == IInv /\ [Next]_vars => IInv'
<1> SUFFICES ASSUME IInv, [Next]_vars PROVE IInv'
  OBVIOUS
<1>1. LeasesAreCounted' /\ CallsAreCounted' /\ Placed'
  BY CountedStep, CallsStep, PlacedStep DEF IInv
<1>2. TypeOK'
  BY <1>1, TypeStep DEF IInv
<1>3. OneInstance' /\ UnheldIsArmed'
  BY OneInstanceStep, ArmedStep DEF IInv
<1>4. Attached' /\ Guarded' /\ NoConnectionIsLost' /\ Carried'
  BY <1>2, AttachedStep, GuardedStep, LostStep, CarriedStep DEF IInv
<1>5. QED
  BY <1>1, <1>2, <1>3, <1>4 DEF IInv

LEMMA Invariance == Spec => []IInv
BY InitIInv, NextIInv, PTL DEF Spec

(* The instances, the connections and the threads stay in their types.     *)
THEOREM TypeCorrect == Spec => []TypeOK
<1>1. IInv => TypeOK
  BY DEF IInv
<1>2. QED
  BY <1>1, Invariance, PTL

(* An instance is held once for each running drain of the threads that use *)
(* it (mcp.ts:820-839, 1076-1090, 1112-1131).                              *)
THEOREM Leases == Spec => []LeasesAreCounted
<1>1. IInv => LeasesAreCounted
  BY DEF IInv
<1>2. QED
  BY <1>1, Invariance, PTL

(* The instance that runs is the one listed (mcp.ts:675-680, 1028-1061).   *)
THEOREM OneRuns == Spec => []OneInstance
<1>1. IInv => OneInstance
  BY DEF IInv
<1>2. QED
  BY <1>1, Invariance, PTL

(* A timer sleeps for each running instance nobody holds (mcp.ts:798-839). *)
THEOREM Unheld == Spec => []UnheldIsArmed
<1>1. IInv => UnheldIsArmed
  BY DEF IInv
<1>2. QED
  BY <1>1, Invariance, PTL

(* No connection is forgotten (mcp.ts:422-431, 632-662).                   *)
THEOREM ConnectionsAreKnown == Spec => []NoConnectionIsLost
<1>1. IInv => NoConnectionIsLost
  BY DEF IInv
<1>2. QED
  BY <1>1, Invariance, PTL

(* None slips into an instance that was stopped (mcp.ts:604-608, 632-680). *)
THEOREM StoppedStaysQuiet == Spec => []StoppedIsQuiet
<1>1. IInv => StoppedIsQuiet
  BY DEF IInv, Guarded, StoppedIsQuiet
<1>2. QED
  BY <1>1, Invariance, PTL

(* A connection is gone once no call runs on it (mcp.ts:425).              *)
THEOREM CallsAreFinished == Spec => CallsAreNotCutOff
<1>1. IInv /\ [Next]_vars =>
        [\A c \in Conns :
           (phase[c] # "none" /\ phase'[c] = "none") => inflight'[c] = 0]_vars
  BY NextIInv DEF IInv, Carried
<1>2. QED
  BY <1>1, Invariance, PTL DEF Spec, CallsAreNotCutOff

(* Nobody closes an instance under a drain (execute.ts:189).               *)
THEOREM HeldIsOpen == Spec => HeldStaysOpen
<1>1. IInv /\ [Next]_vars =>
        [\A t \in Threads, i \in Instances :
           (/\ drains[t] = 1 /\ drains'[t] = 1 /\ server[t] = i
               /\ server'[t] = i
            /\ ~closed[i])
             => ~closed'[i]]_vars
  BY HeldStep DEF IInv
<1>2. QED
  BY <1>1, Invariance, PTL DEF Spec, HeldStaysOpen

=============================================================================
