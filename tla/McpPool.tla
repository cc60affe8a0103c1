------------------------------ MODULE McpPool ------------------------------
(***************************************************************************)
(* The running instances of one MCP server (harness/src/mcp/mcp.ts).       *)
(* Threads share an instance, each of their drains holds it, and it idles  *)
(* out when no drain does; a thread whose settings change leaves it, and   *)
(* the last one to leave closes it.  An instance has at most one current   *)
(* connection, which calls share and which is replaced when it drops, when *)
(* its session is forgotten, or when a user disconnects or reconnects it.  *)
(*                                                                         *)
(* The servers of a thread differ only by name, so one name is enough.     *)
(* What is said to clients about a server is left out, except that saying  *)
(* it takes time while the lock of the instance is held.                   *)
(***************************************************************************)
EXTENDS Naturals, FiniteSets

CONSTANTS
  Threads,    \* threads whose servers resolve to one key
  Instances,  \* bound: instances there are at a time, numbered from 1
  Conns       \* bound: connections there are at a time, numbered from 1

ASSUME McpPoolAssumption ==
  /\ IsFiniteSet(Threads) /\ IsFiniteSet(Instances)
  /\ Instances \subseteq Nat \ {0} /\ Conns \subseteq Nat \ {0}

VARIABLES
  current,   \* instances.get(key), 0 if there is none
  closed,    \* [Instances -> server.closed, TRUE of one not made yet]
  users,     \* [Instances -> server.users]
  leases,    \* [Instances -> server.leases]
  armed,     \* [Instances -> a timer of the present generation sleeps]
  stopped,   \* [Instances -> server.stopped]: disconnected on request
  booting,   \* [Instances -> "no" | "queued" | "locking"]: the fiber of start
  stops,     \* [Instances -> why fibers wait to stop it]
  live,      \* [Instances -> server.live, 0 if none]
  attempt,   \* [Instances -> the connection being made, 0 if none]
  stuck,     \* [Instances -> server.attempt is a fiber that never ran]
  phase,     \* [Conns -> how it stands: made, open, retired, or no more]
  dropped,   \* [Conns -> the other end of an open one has gone]
  inflight,  \* [Conns -> live.inflight]
  server,    \* [Threads -> the instance of its entry, 0 if it has none]
  drains,    \* [Threads -> thread.leases]
  pc,        \* [Threads -> where its drain is]
  using,     \* [Threads -> the connection its call is on, or awaits]
  again      \* [Threads -> its call runs for the second time]

pool    == <<current, closed, users, leases, armed>>
control == <<stopped, booting, stops, stuck>>
conns   == <<live, attempt, phase, dropped, inflight>>
calls   == <<pc, using, again>>
vars    == <<pool, control, conns, server, drains, calls>>

StopReasons == {"close", "connect", "disconnect"}
Phases == {"none", "forked", "dialling", "open", "retired"}
Making == {"forked", "dialling"}
Places == {"idle", "running", "asking", "locking", "awaiting", "calling",
           "expired", "refused"}

Init ==
  /\ current = 0
  /\ closed = [i \in Instances |-> TRUE]
  /\ users = [i \in Instances |-> {}] /\ stops = users
  /\ leases = [i \in Instances |-> 0] /\ live = leases /\ attempt = leases
  /\ armed = [i \in Instances |-> FALSE] /\ stopped = armed
  /\ stuck = armed
  /\ booting = [i \in Instances |-> "no"]
  /\ phase = [c \in Conns |-> "none"]
  /\ dropped = [c \in Conns |-> FALSE]
  /\ inflight = [c \in Conns |-> 0]
  /\ server = [t \in Threads |-> 0] /\ drains = server /\ using = server
  /\ pc = [t \in Threads |-> "idle"] /\ again = [t \in Threads |-> FALSE]

-----------------------------------------------------------------------------
(* server.lock is held by whoever says that a connection is being made.    *)
Unlocked(i) ==
  /\ booting[i] # "locking"
  /\ \A t \in Threads : ~(pc[t] = "locking" /\ server[t] = i)

Unmade(i) ==
  /\ closed[i] /\ i # current /\ users[i] = {} /\ stops[i] = {}
  /\ booting[i] = "no" /\ live[i] = 0 /\ attempt[i] = 0
Unused(c) == phase[c] = "none" /\ \A t \in Threads : using[t] # c

Goto(t, place) == pc' = [pc EXCEPT ![t] = place]

(* A call is over, or never ran.                                           *)
Ends(t) ==
  /\ Goto(t, "running")
  /\ using' = [using EXCEPT ![t] = 0] /\ again' = [again EXCEPT ![t] = FALSE]

-----------------------------------------------------------------------------
(* Drains, and the settlement of a thread's servers.                       *)

(* arm: a new timer sleeps if nobody holds the instance, the old ones are  *)
(* stale.                                                                  *)
Arms(i, n) == n = 0 /\ ~closed[i]

(* The drains of thread t hold its instance once more, or once less.       *)
Holds(t, held) ==
  /\ drains' = [drains EXCEPT ![t] = IF held THEN 1 ELSE 0]
  /\ leases' = [i \in Instances |->
       IF server[t] # i THEN leases[i]
       ELSE IF held THEN leases[i] + 1 ELSE leases[i] - 1]
  /\ armed' = [i \in Instances |->
       IF server[t] = i THEN Arms(i, leases'[i]) ELSE armed[i]]

Lease(t) ==
  /\ pc[t] = "idle" /\ Holds(t, TRUE) /\ Goto(t, "running")
  /\ UNCHANGED <<current, closed, users, control, conns, server, using, again>>

(* Faulty: no timer starts when a drain ends.                              *)
ReleaseUnarmed(t) ==
  /\ pc[t] = "running" /\ drains' = [drains EXCEPT ![t] = 0] /\ Goto(t, "idle")
  /\ leases' = [i \in Instances |->
                  IF server[t] = i THEN leases[i] - 1 ELSE leases[i]]
  /\ UNCHANGED <<current, closed, users, armed, control, conns, server, using,
                 again>>
Release(t) ==
  /\ pc[t] = "running" /\ Holds(t, FALSE) /\ Goto(t, "idle")
  /\ UNCHANGED <<current, closed, users, control, conns, server, using, again>>

(* Faulty: the drains of a thread that joins are not counted.              *)
Uncounted(t) == 0
(* What a thread that joins an instance brings with it.                    *)
Brings(t) == drains[t]

(* Faulty: the drains of a thread that leaves go on holding.               *)
LeavesHolding(t) == 0
(* What it takes along when it leaves.                                     *)
Takes(t) == drains[t]

(* Faulty: whoever leaves closes it.                                       *)
AnyUser(i, t) == TRUE
(* The thread is the last to use the instance: it closes when it leaves.   *)
LastUser(i, t) == users[i] = {t}

(* The instance listed once instance i is closed.                          *)
Unlisted(i, listed) == IF listed = i THEN 0 ELSE listed

(* Thread t moves to instance `to` (0: to none) in one step; `listed` is   *)
(* what the key lists by then.  A new one starts, one left alone closes.   *)
Moves(t, to, listed) ==
  LET from      == server[t]
      joins(i)  == i = to /\ t \notin users[i]
      leaves(i) == i = from /\ i # to
      shuts(i)  == leaves(i) /\ LastUser(i, t)
  IN /\ server' = [server EXCEPT ![t] = to]
     /\ users' = [i \in Instances |->
          IF joins(i) THEN users[i] \cup {t}
          ELSE IF leaves(i) THEN users[i] \ {t} ELSE users[i]]
     /\ leases' = [i \in Instances |->
          IF joins(i) THEN leases[i] + Brings(t)
          ELSE IF leaves(i) THEN leases[i] - Takes(t) ELSE leases[i]]
     /\ closed' = [i \in Instances |->
          (closed[i] \/ shuts(i)) /\ ~(i = to /\ current # to)]
     /\ armed' = [i \in Instances |->
          IF joins(i) \/ leaves(i) THEN leases'[i] = 0 /\ ~closed'[i]
                                   ELSE armed[i]]
     /\ stops' = [i \in Instances |->
          IF shuts(i) THEN stops[i] \cup {"close"} ELSE stops[i]]
     /\ current' = IF \E i \in Instances : shuts(i) THEN Unlisted(from, listed)
                                                    ELSE listed

(* The server is disabled, or its settings are those of another key.       *)
ReconcileAway(t) ==
  /\ pc[t] \in {"idle", "running"} /\ server[t] # 0 /\ Moves(t, 0, current)
  /\ UNCHANGED <<stopped, booting, stuck, conns, drains, calls>>

(* A running instance is joined, and started again if the user has signed  *)
(* in since it was refused.                                                *)
ReconcileJoin(t) ==
  /\ pc[t] \in {"idle", "running"} /\ current # 0
  /\ Moves(t, current, current)
  /\ booting' \in {booting} \cup
       (IF attempt[current] = 0 /\ ~stuck[current] /\ booting[current] = "no"
          THEN {[booting EXCEPT ![current] = "queued"]} ELSE {})
  /\ UNCHANGED <<stopped, stuck, conns, drains, calls>>

ReconcileMake(t) ==
  /\ pc[t] \in {"idle", "running"} /\ current = 0
  /\ \E i \in Instances :
       /\ Unmade(i) /\ \A j \in Instances : Unmade(j) => i <= j
       /\ Moves(t, i, i)
       /\ booting' = [booting EXCEPT ![i] = "queued"]
       /\ stopped' = [stopped EXCEPT ![i] = FALSE]
       /\ stuck' = [stuck EXCEPT ![i] = FALSE]
  /\ UNCHANGED <<conns, drains, calls>>

(* The session is deleted, once its drains have settled.                   *)
Remove(t) ==
  /\ pc[t] = "idle" /\ server[t] # 0 /\ Moves(t, 0, current)
  /\ UNCHANGED <<stopped, booting, stuck, conns, drains, calls>>

(* The timer of an instance nobody has held since.                         *)
IdleOut(i) ==
  /\ armed[i] /\ leases[i] = 0 /\ ~closed[i]
  /\ closed' = [closed EXCEPT ![i] = TRUE] /\ current' = Unlisted(i, current)
  /\ armed' = [armed EXCEPT ![i] = FALSE]
  /\ stops' = [stops EXCEPT ![i] = @ \cup {"close"}]
  /\ UNCHANGED <<users, leases, stopped, booting, stuck, conns, server, drains,
                 calls>>

-----------------------------------------------------------------------------
(* Connections.  Whoever needs one takes the lock, says that one is being  *)
(* made, starts the attempt unless there is one, and waits for it.         *)

(* Faulty: a retired connection closes at once.                            *)
ShutAtOnce(n) == "none"
(* A retired connection closes once no call runs on it.                    *)
Retired(n) == IF n = 0 THEN "none" ELSE "retired"

(* retire, of the connections in set C.                                    *)
Retires(C) ==
  /\ live' = [i \in Instances |-> IF live[i] \in C THEN 0 ELSE live[i]]
  /\ phase' = [c \in Conns |->
       IF c \in C /\ phase[c] = "open" THEN Retired(inflight[c]) ELSE phase[c]]
  /\ dropped' = [c \in Conns |-> dropped[c] /\ c \notin C]

Usable(i) == live[i] # 0 /\ ~dropped[live[i]]

(* The fiber of start.                                                     *)
BootAsks(i) ==
  /\ booting[i] = "queued" /\ Unlocked(i)
  /\ booting' = [booting EXCEPT ![i] =
       IF closed[i] \/ stopped[i] \/ Usable(i) THEN "no" ELSE "locking"]
  /\ UNCHANGED <<pool, stopped, stops, stuck, conns, server, drains, calls>>

(* A call of a thread's drain.                                             *)
Calls(t) ==
  /\ pc[t] = "running" /\ server[t] # 0 /\ ~closed[server[t]]
  /\ Goto(t, "asking")
  /\ UNCHANGED <<pool, control, conns, server, drains, using, again>>

Asks(t) ==
  LET i == server[t] IN
  /\ pc[t] = "asking" /\ Unlocked(i)
  /\ \/ /\ closed[i] \/ stopped[i]
        /\ Ends(t) /\ UNCHANGED inflight
     \/ /\ ~closed[i] /\ ~stopped[i] /\ Usable(i)
        /\ Goto(t, "calling") /\ using' = [using EXCEPT ![t] = live[i]]
        /\ inflight' = [inflight EXCEPT ![live[i]] = @ + 1] /\ UNCHANGED again
     \/ /\ ~closed[i] /\ ~stopped[i] /\ ~Usable(i)
        /\ Goto(t, "locking") /\ UNCHANGED <<using, again, inflight>>
  /\ UNCHANGED <<pool, control, live, attempt, phase, dropped, server,
                 drains>>

(* A connection that has dropped is retired; c is the one being made now,  *)
(* by a fiber that yields before it begins.                                *)
Dials(i, c) ==
  /\ IF attempt[i] = 0
     THEN Unused(c) /\ \A d \in Conns : Unused(d) => c <= d
     ELSE c = attempt[i]
  /\ attempt' = [attempt EXCEPT ![i] = c] /\ live' = [live EXCEPT ![i] = 0]
  /\ phase' = [d \in Conns |->
       IF d = c THEN (IF attempt[i] = 0 THEN "forked" ELSE phase[c])
       ELSE IF d = live[i] THEN Retired(inflight[d]) ELSE phase[d]]
  /\ dropped' = [d \in Conns |-> dropped[d] /\ d # live[i]]

(* A fiber that never ran stands in for every attempt, and each fails.     *)
BootDials(i) ==
  /\ booting[i] = "locking" /\ booting' = [booting EXCEPT ![i] = "no"]
  /\ IF stuck[i] THEN UNCHANGED <<live, attempt, phase, dropped>>
                 ELSE \E c \in Conns : Dials(i, c)
  /\ UNCHANGED <<pool, stopped, stops, stuck, inflight, server, drains, calls>>

AskerDials(t) ==
  /\ pc[t] = "locking"
  /\ IF stuck[server[t]]
     THEN Ends(t) /\ UNCHANGED <<live, attempt, phase, dropped>>
     ELSE /\ Goto(t, "awaiting") /\ UNCHANGED again
          /\ \E c \in Conns :
               Dials(server[t], c) /\ using' = [using EXCEPT ![t] = c]
  /\ UNCHANGED <<pool, control, inflight, server, drains>>

(* The attempt, a fiber of the service.  Whether the instance still wants  *)
(* the connection is looked at when it is there.                           *)
AttemptBegins(i) ==
  /\ attempt[i] # 0 /\ phase[attempt[i]] = "forked"
  /\ phase' = [phase EXCEPT ![attempt[i]] = "dialling"]
  /\ UNCHANGED <<pool, control, live, attempt, dropped, inflight, server,
                 drains, calls>>

Connects(i) ==
  LET c == attempt[i] IN
  /\ c # 0 /\ phase[c] = "dialling" /\ attempt' = [attempt EXCEPT ![i] = 0]
  /\ IF closed[i] \/ stopped[i]
     THEN phase' = [phase EXCEPT ![c] = "none"] /\ UNCHANGED live
     ELSE phase' = [phase EXCEPT ![c] = "open"] /\ live' = [live EXCEPT ![i] = c]
  /\ UNCHANGED <<pool, control, dropped, inflight, server, drains,
                 calls>>

ConnectFails(i) ==
  /\ attempt[i] # 0 /\ phase[attempt[i]] = "dialling"
  /\ attempt' = [attempt EXCEPT ![i] = 0]
  /\ phase' = [phase EXCEPT ![attempt[i]] = "none"]
  /\ UNCHANGED <<pool, control, live, dropped, inflight, server, drains,
                 calls>>

(* The waiter goes on with what the attempt made, retired by now or not;   *)
(* if that is no more, its call fails.                                     *)
Awaited(t) ==
  /\ pc[t] = "awaiting" /\ phase[using[t]] \notin Making
  /\ IF phase[using[t]] = "none" THEN Ends(t) /\ UNCHANGED inflight
     ELSE /\ Goto(t, "calling") /\ UNCHANGED <<using, again>>
          /\ inflight' = [inflight EXCEPT ![using[t]] = @ + 1]
  /\ UNCHANGED <<pool, control, live, attempt, phase, dropped, server, drains>>

-----------------------------------------------------------------------------
(* Calls.                                                                  *)

(* The call leaves the connection, and the last one shuts a retired one.   *)
LeavesConn(t) ==
  LET c == using[t] IN
  /\ inflight' = [inflight EXCEPT ![c] = @ - 1]
  /\ phase' = [phase EXCEPT ![c] =
       IF @ = "retired" THEN Retired(inflight[c] - 1) ELSE @]

(* It answers, fails or is cut off.                                        *)
CallEnds(t) ==
  /\ pc[t] = "calling" /\ LeavesConn(t) /\ Ends(t)
  /\ UNCHANGED <<pool, control, live, attempt, dropped, server, drains>>

(* The session was forgotten, or a sign-in is needed.                      *)
CallRefused(t) ==
  /\ pc[t] = "calling" /\ LeavesConn(t)
  /\ \E place \in {"expired", "refused"} :
       (place = "expired" => ~again[t]) /\ Goto(t, place)
  /\ UNCHANGED <<pool, control, live, attempt, dropped, server, drains,
                 using, again>>

(* Under the lock the connection is retired; a call whose session was      *)
(* forgotten is made once more.                                            *)
RetiresForCall(t) ==
  /\ pc[t] \in {"expired", "refused"}
  /\ server[t] = 0 \/ Unlocked(server[t])
  /\ Retires({using[t]})
  /\ IF pc[t] = "refused" THEN Ends(t)
     ELSE /\ Goto(t, IF server[t] = 0 \/ closed[server[t]] THEN "running"
                                                           ELSE "asking")
          /\ using' = [using EXCEPT ![t] = 0]
          /\ again' = [again EXCEPT ![t] =
                         server[t] # 0 /\ ~closed[server[t]]]
  /\ UNCHANGED <<pool, control, attempt, inflight, server, drains>>

(* The drain is stopped while its call waits: an attempt goes on without   *)
(* it, one only announced is not made.                                     *)
CallCut(t) ==
  /\ pc[t] \in {"asking", "locking", "awaiting", "expired", "refused"}
  /\ Ends(t)
  /\ UNCHANGED <<pool, control, conns, server, drains>>

-----------------------------------------------------------------------------
(* The other end, and the user.                                            *)

Drops(c) ==
  /\ phase[c] = "open" /\ ~dropped[c] /\ dropped' = [dropped EXCEPT ![c] = TRUE]
  /\ UNCHANGED <<pool, control, live, attempt, phase, inflight, server,
                 drains, calls>>

OnClose(i) ==
  /\ live[i] # 0 /\ dropped[live[i]] /\ Unlocked(i) /\ Retires({live[i]})
  /\ UNCHANGED <<pool, control, attempt, inflight, server, drains,
                 calls>>

(* connect and disconnect, one at a time.                                  *)
Controls(i) ==
  /\ i \in {server[t] : t \in Threads} /\ ~closed[i]
  /\ stops[i] \cap {"connect", "disconnect"} = {}
  /\ \E what \in {"connect", "disconnect"} :
       /\ stopped' = [stopped EXCEPT ![i] = (what = "disconnect")]
       /\ stops' = [stops EXCEPT ![i] = @ \cup {what}]
  /\ UNCHANGED <<pool, booting, stuck, conns, server, drains, calls>>

(* Faulty: the lock is not waited for.                                     *)
StopUnlocked(i) == TRUE
(* stop waits for the lock.                                                *)
StopReady(i) == Unlocked(i)

(* stop: an attempt is interrupted, the connection retired; connect then   *)
(* starts afresh.  An attempt that had not begun does not clear itself     *)
(* (mcp.ts:618-622, 649).                                                  *)
StopRuns(i) ==
  /\ StopReady(i)
  /\ \E why \in stops[i] :
       /\ stops' = [stops EXCEPT ![i] = @ \ {why}]
       /\ booting' = IF why = "connect" THEN [booting EXCEPT ![i] = "queued"]
                                        ELSE booting
  /\ stuck' = [stuck EXCEPT ![i] =
       @ \/ (attempt[i] # 0 /\ phase[attempt[i]] = "forked")]
  /\ attempt' = [attempt EXCEPT ![i] = 0] /\ live' = [live EXCEPT ![i] = 0]
  /\ phase' = [c \in Conns |->
       CASE c = attempt[i] -> "none"
         [] c = live[i]    -> Retired(inflight[c])
         [] OTHER          -> phase[c]]
  /\ dropped' = [c \in Conns |-> dropped[c] /\ c # live[i]]
  /\ UNCHANGED <<pool, stopped, inflight, server, drains, calls>>

OfThread(t) ==
  \/ Lease(t) \/ Release(t) \/ ReconcileAway(t) \/ ReconcileJoin(t)
  \/ ReconcileMake(t) \/ Remove(t) \/ Calls(t) \/ Asks(t) \/ AskerDials(t)
  \/ Awaited(t) \/ CallEnds(t) \/ CallRefused(t) \/ RetiresForCall(t)
  \/ CallCut(t)
OfInstance(i) ==
  \/ IdleOut(i) \/ BootAsks(i) \/ BootDials(i) \/ AttemptBegins(i)
  \/ Connects(i) \/ ConnectFails(i) \/ OnClose(i) \/ Controls(i) \/ StopRuns(i)

Next ==
  \/ \E t \in Threads : OfThread(t)
  \/ \E i \in Instances : OfInstance(i)
  \/ \E c \in Conns : Drops(c)

Spec == Init /\ [][Next]_vars

-----------------------------------------------------------------------------
(* The types of the instances, the connections and the threads.            *)
TypeOK ==
  /\ current \in Instances \cup {0}
  /\ closed \in [Instances -> BOOLEAN] /\ stopped \in [Instances -> BOOLEAN]
  /\ armed \in [Instances -> BOOLEAN]
  /\ users \in [Instances -> SUBSET Threads]
  /\ leases \in [Instances -> Nat]
  /\ booting \in [Instances -> {"no", "queued", "locking"}]
  /\ stops \in [Instances -> SUBSET StopReasons]
  /\ stuck \in [Instances -> BOOLEAN]
  /\ live \in [Instances -> Conns \cup {0}]
  /\ attempt \in [Instances -> Conns \cup {0}]
  /\ phase \in [Conns -> Phases] /\ inflight \in [Conns -> Nat]
  /\ dropped \in [Conns -> BOOLEAN]
  /\ server \in [Threads -> Instances \cup {0}]
  /\ drains \in [Threads -> {0, 1}] /\ pc \in [Threads -> Places]
  /\ using \in [Threads -> Conns \cup {0}] /\ again \in [Threads -> BOOLEAN]

(* An instance is held once for each running drain of the threads that use *)
(* it, whatever joined, left or was removed while they ran.                *)
(* (mcp.ts:820-839, 1076-1090, 1112-1131).                                 *)
LeasesAreCounted ==
  \A i \in Instances :
    /\ users[i] = {t \in Threads : server[t] = i}
    /\ leases[i] = Cardinality({t \in users[i] : drains[t] = 1})

(* "The thread's MCP servers stay open while its drain runs, and idle out  *)
(* after" (execute.ts:189): neither the idle timer nor another thread that *)
(* leaves closes an instance under a drain.                                *)
HeldStaysOpen ==
  [][\A t \in Threads, i \in Instances :
       (/\ drains[t] = 1 /\ drains'[t] = 1 /\ server[t] = i /\ server'[t] = i
        /\ ~closed[i])
         => ~closed'[i]]_vars

(* There is one running instance of a key, and it is the one listed: no    *)
(* thread joins another that stops, and closing an old one does not hide   *)
(* its successor (mcp.ts:675-680, 1028-1061).                              *)
OneInstance == \A i \in Instances : ~closed[i] => current = i

(* No connection is forgotten: an open one is the current one of its       *)
(* instance or closes with its last call, and one being made is the only   *)
(* attempt of its instance (mcp.ts:422-431, 632-662).                      *)
NoConnectionIsLost ==
  \A c \in Conns :
    /\ phase[c] = "open" => \E i \in Instances : live[i] = c
    /\ phase[c] = "retired" => inflight[c] > 0
    /\ phase[c] \in Making => \E i \in Instances : attempt[i] = c

(* An instance that was closed or disconnected has neither a connection    *)
(* nor an attempt once it has been stopped: none slips past while a caller *)
(* was about to make one (mcp.ts:604-608, 632-653, 664-680).               *)
StoppedIsQuiet ==
  \A i \in Instances :
    ((closed[i] \/ stopped[i]) /\ stops[i] = {}) =>
      live[i] = 0 /\ attempt[i] = 0

(* An attempt that is over stands in for no later one (mcp.ts:645-647). A  *)
(* stop of one that has not begun leaves it behind, so no run checks this. *)
NoneStandsIn == \A i \in Instances : ~stuck[i]

(* "Stop handing out this connection; it closes once no call runs on it"   *)
(* (mcp.ts:425): whatever replaces a connection waits for its calls.       *)
CallsAreNotCutOff ==
  [][\A c \in Conns :
       (phase[c] # "none" /\ phase'[c] = "none") => inflight'[c] = 0]_vars

(* An instance nobody holds any more idles out: the timer that will close  *)
(* it sleeps, whichever way the last drain went (mcp.ts:798-839).          *)
UnheldIsArmed ==
  \A i \in Instances : (leases[i] = 0 /\ ~closed[i]) => armed[i]

=============================================================================
