------------------------------ MODULE Service ------------------------------
(***************************************************************************)
(* The servers of one CodeWork home and how the command line finds, starts *)
(* and stops them (codework/src/server: registration.ts, discovery.ts and  *)
(* the layers of server.ts; cli/cmd/handlers/service).  Several processes  *)
(* share the file service.json, which is a hint: each server looks at it   *)
(* now and again, and each caller asks the server it names.                *)
(*                                                                         *)
(* A process id is not used again.  Whether a server runs another build    *)
(* than its caller is left open, and so is whether one that answers is     *)
(* asked in time.  Whether the signals of a caller reach it is open, too:  *)
(* it may be another user's.  What a server does between its start and its *)
(* listener (the harness, the sweep) is one step.                          *)
(***************************************************************************)
EXTENDS Naturals, FiniteSets

CONSTANTS
  Servers,  \* bound: the server processes there will be, numbered from 1
  Callers,  \* invocations of `codework service`
  Ports     \* the ports they ask for

ASSUME ServiceAssumption == Servers \subseteq Nat \ {0} /\ Ports # {}

VARIABLES
  file,    \* the server service.json names, 0 if it is missing
  stage,   \* [Servers -> where the process is, from none to gone]
  port,    \* [Servers -> the port it was told to bind]
  watch,   \* [Servers -> its look at the file: off, looks, rewrites, left]
  pc,      \* [Callers -> where the invocation is]
  goal,    \* [Callers -> what it was asked for]
  found,   \* [Callers -> the server it read of, or stops; 0 if none]
  mine,    \* [Callers -> the contender tied to its scope, 0 if none]
  grace,   \* [Callers -> it waits for the winner of a lost race]
  last,    \* history: the server that wrote the file last
  ended    \* history: servers that an invocation has stopped

servers == <<stage, port, watch>>
callers == <<pc, goal, found, mine, grace>>
history == <<last, ended>>
vars    == <<file, servers, callers, history>>

Stages  == {"none", "booting", "bound", "filed", "up", "closing", "leaving",
            "removing", "gone"}
Goals   == {"start", "stop", "restart"}
Places  == {"idle", "reading", "probing", "retiring", "waiting", "reviewing",
            "clearing", "ignored", "dropping", "spawning", "polling", "asking",
            "over"}

Init ==
  /\ file = 0
  /\ stage = [p \in Servers |-> "none"] /\ watch = [p \in Servers |-> "off"]
  /\ port = [p \in Servers |-> CHOOSE q \in Ports : TRUE]
  /\ pc = [c \in Callers |-> "idle"] /\ goal = [c \in Callers |-> "stop"]
  /\ found = [c \in Callers |-> 0] /\ mine = found
  /\ grace = [c \in Callers |-> FALSE]
  /\ last = 0 /\ ended = {}

-----------------------------------------------------------------------------
(* A server process.                                                       *)

Alive(p) == stage[p] \notin {"none", "gone"}
Listens(p) == stage[p] \in {"bound", "filed", "up", "closing", "leaving",
                            "removing"}
(* server.info is answered with the pid that registered.                   *)
Answers(p) == stage[p] = "up"

At(p, place) == stage' = [stage EXCEPT ![p] = place]
Looks(p, how) == watch' = [watch EXCEPT ![p] = how]

(* The file is written beside the target and renamed: in one step.         *)
Writes(p) == file' = p /\ last' = p

(* The harness is there, and the listener is next.                         *)
Binds(p) ==
  /\ stage[p] = "booting"
  /\ At(p, IF \E q \in Servers \ {p} : Listens(q) /\ port[q] = port[p]
             THEN "gone" ELSE "bound")
  /\ UNCHANGED <<file, port, watch, callers, history>>

(* Faulty: the watch is forked before the file is written.                 *)
RegistersWatching(p) ==
  \/ /\ stage[p] = "bound" /\ watch[p] = "off" /\ Looks(p, "looks")
     /\ UNCHANGED <<file, stage, port, callers, history>>
  \/ /\ stage[p] = "bound" /\ watch[p] # "off" /\ Writes(p) /\ At(p, "filed")
     /\ UNCHANGED <<port, watch, callers, ended>>
(* register: the file, then the finalizer, then the watch.                 *)
Registers(p) ==
  /\ stage[p] = "bound" /\ Writes(p) /\ At(p, "filed") /\ Looks(p, "looks")
  /\ UNCHANGED <<port, callers, ended>>

Serves(p) ==
  /\ stage[p] = "filed" /\ At(p, "up")
  /\ UNCHANGED <<file, port, watch, callers, history>>

(* SIGTERM interrupts the layers: one that writes its file for the first   *)
(* time may have renamed it, and has no finalizer yet.                     *)
Terminates(p) ==
  /\ stage' = [stage EXCEPT ![p] =
       IF @ \in {"booting", "bound"} THEN "gone"
       ELSE IF @ \in {"filed", "up"} THEN "closing" ELSE @]
  /\ \/ UNCHANGED <<file, last>>
     \/ stage[p] = "bound" /\ Writes(p)

(* The watch of a server, every five seconds; it goes on while the server  *)
(* answers nobody any more.                                                *)
Watching(p) == stage[p] \in {"bound", "filed", "up", "closing"}

(* Faulty: a file that is missing is left so.                              *)
FindsNothingQuietly(p) == FALSE
FindsNothing(p) ==
  /\ watch[p] = "looks" /\ Watching(p) /\ file = 0 /\ Looks(p, "rewrites")
  /\ UNCHANGED <<file, stage, port, callers, history>>

FindsAnother(p) ==
  /\ watch[p] = "looks" /\ Watching(p) /\ file \notin {0, p}
  /\ Looks(p, "left") /\ Terminates(p)
  /\ UNCHANGED <<port, callers, ended>>

(* A rename that has begun is not stopped with the watch.                  *)
Rewrites(p) ==
  /\ watch[p] = "rewrites" /\ Alive(p) /\ Writes(p) /\ Looks(p, "looks")
  /\ UNCHANGED <<stage, port, callers, ended>>

(* Its runs are interrupted and its sandboxes stopped; then the watch ends *)
(* and the finalizer of the registration reads the file.                   *)
Closes(p) ==
  /\ stage[p] = "closing" /\ At(p, "leaving")
  /\ UNCHANGED <<file, port, watch, callers, history>>

Leaves(p) ==
  /\ stage[p] = "leaving" /\ At(p, IF file = p THEN "removing" ELSE "gone")
  /\ UNCHANGED <<file, port, watch, callers, history>>

Removes(p) ==
  /\ stage[p] = "removing" /\ At(p, "gone") /\ file' = 0
  /\ UNCHANGED <<port, watch, callers, history>>

(* A user starts one in a terminal, stops it there, or it dies.            *)
Lowest(p) ==
  /\ stage[p] = "none" /\ \A q \in Servers : stage[q] = "none" => p <= q

Starts(p) ==
  /\ Lowest(p) /\ At(p, "booting")
  /\ \E q \in Ports : port' = [port EXCEPT ![p] = q]

UserServes(p) == Starts(p) /\ UNCHANGED <<file, watch, callers, history>>

UserStops(p) ==
  /\ Alive(p) /\ Terminates(p)
  /\ UNCHANGED <<port, watch, callers, ended>>

Dies(p) ==
  /\ Alive(p) /\ At(p, "gone")
  /\ UNCHANGED <<file, port, watch, callers, history>>

-----------------------------------------------------------------------------
(* An invocation: start, stop or restart.                                  *)

Goto(c, place) == pc' = [pc EXCEPT ![c] = place]

Begins(c) ==
  /\ pc[c] = "idle" /\ Goto(c, "reading")
  /\ \E what \in Goals : goal' = [goal EXCEPT ![c] = what]
  /\ UNCHANGED <<file, servers, found, mine, grace, history>>

(* The invocation is over, and its locals are gone.                        *)
Returns(c) ==
  /\ Goto(c, "over") /\ goal' = [goal EXCEPT ![c] = "stop"]
  /\ found' = [found EXCEPT ![c] = 0] /\ mine' = [mine EXCEPT ![c] = 0]
  /\ grace' = [grace EXCEPT ![c] = FALSE]

(* Its scope closes first, and stops a contender it has not adopted.       *)
Fails(c) ==
  /\ Returns(c)
  /\ IF mine[c] # 0 THEN Terminates(mine[c])
                    ELSE UNCHANGED <<file, stage, last>>

(* Nothing registered answers, or what did has been stopped: a restart     *)
(* goes on as a start.                                                     *)
Proceeds(c) ==
  \/ goal[c] = "stop" /\ Returns(c)
  \/ /\ goal[c] = "start" /\ Goto(c, "spawning")
     /\ found' = [found EXCEPT ![c] = 0] /\ UNCHANGED <<goal, mine, grace>>
  \/ /\ goal[c] = "restart" /\ Goto(c, "reading")
     /\ goal' = [goal EXCEPT ![c] = "start"]
     /\ found' = [found EXCEPT ![c] = 0] /\ UNCHANGED <<mine, grace>>

Reads(c) ==
  /\ pc[c] = "reading"
  /\ \/ file = 0 /\ Proceeds(c)
     \/ /\ file # 0 /\ found' = [found EXCEPT ![c] = file]
        /\ Goto(c, "probing") /\ UNCHANGED <<goal, mine, grace>>
  /\ UNCHANGED <<file, servers, history>>

(* It answers: a start takes it, unless it is of another build.  If it may *)
(* not be signalled, it is waited for in vain.                             *)
FindsLive(c) ==
  /\ pc[c] = "probing" /\ Answers(found[c])
  /\ \/ goal[c] = "start" /\ Returns(c) /\ UNCHANGED <<file, stage, last>>
     \/ /\ Terminates(found[c]) /\ Goto(c, "waiting")
        /\ UNCHANGED <<goal, found, mine, grace>>
     \/ /\ Goto(c, "ignored")
        /\ UNCHANGED <<file, stage, last, goal, found, mine, grace>>
  /\ UNCHANGED <<port, watch, ended>>

(* It does not, or not in a second.  A file left by a crash is removed.    *)
FindsDead(c) ==
  /\ pc[c] = "probing"
  /\ \/ Alive(found[c]) /\ Proceeds(c)
     \/ /\ ~Alive(found[c]) /\ Goto(c, "retiring")
        /\ UNCHANGED <<goal, found, mine, grace>>
  /\ UNCHANGED <<file, servers, history>>

Retires(c) ==
  /\ pc[c] = "retiring" /\ file' = 0 /\ Proceeds(c)
  /\ UNCHANGED <<servers, history>>

(* terminate: it waits for the process, kills it in the end, and removes   *)
(* what is left of its registration.  A process that was killed runs no    *)
(* more, whether or not it is still listed.                                *)
WaitsForExit(c) ==
  /\ pc[c] = "waiting" /\ ~Alive(found[c]) /\ Goto(c, "reviewing")
  /\ UNCHANGED <<file, servers, goal, found, mine, grace, history>>

Kills(c) ==
  /\ pc[c] = "waiting" /\ Alive(found[c]) /\ At(found[c], "gone")
  /\ UNCHANGED <<file, port, watch, callers, history>>

Stopped(c) ==
  /\ ended' = IF pc[c] \in {"reviewing", "clearing"} THEN ended \cup {found[c]}
                                                     ELSE ended
  /\ Proceeds(c)

(* Faulty: the file is left to the server.                                 *)
ReviewsNothing(c) ==
  /\ pc[c] \in {"reviewing", "ignored"} /\ Stopped(c)
  /\ UNCHANGED <<file, servers, last>>
(* Also after a wait that was in vain (discovery.ts:183-187).              *)
Reviews(c) ==
  /\ pc[c] \in {"reviewing", "ignored"}
  /\ \/ file # found[c] /\ Stopped(c)
     \/ /\ file = found[c]
        /\ Goto(c, IF pc[c] = "ignored" THEN "dropping" ELSE "clearing")
        /\ UNCHANGED <<goal, found, mine, grace, ended>>
  /\ UNCHANGED <<file, servers, last>>

Clears(c) ==
  /\ pc[c] \in {"clearing", "dropping"} /\ file' = 0 /\ Stopped(c)
  /\ UNCHANGED <<servers, last>>

(* A contender is started in the background, tied to the invocation.       *)
Spawns(c) ==
  /\ pc[c] = "spawning" /\ Goto(c, "polling")
  /\ \E p \in Servers : Starts(p) /\ mine' = [mine EXCEPT ![c] = p]
  /\ UNCHANGED <<file, watch, goal, found, grace, history>>

(* ready: there is something to wait for; p is registered.                 *)
Waits(c, p) == grace[c] \/ Alive(mine[c]) \/ (p # 0 /\ Alive(p))

Polls(c) ==
  /\ pc[c] = "polling"
  /\ \/ /\ file # 0 /\ Goto(c, "asking")
        /\ found' = [found EXCEPT ![c] = file] /\ UNCHANGED grace
     \/ /\ file = 0 /\ grace' = [grace EXCEPT ![c] = ~Waits(c, 0)]
        /\ UNCHANGED <<pc, found>>
  /\ UNCHANGED <<file, servers, goal, mine, history>>

Adopts(c) ==
  /\ pc[c] = "asking" /\ Answers(found[c])
  /\ IF mine[c] = found[c] THEN Returns(c) /\ UNCHANGED <<file, stage, last>>
                           ELSE Fails(c)
  /\ UNCHANGED <<port, watch, ended>>

AsksAgain(c) ==
  /\ pc[c] = "asking" /\ Goto(c, "polling")
  /\ grace' = [grace EXCEPT ![c] = @ \/ ~Waits(c, found[c])]
  /\ found' = [found EXCEPT ![c] = 0]
  /\ UNCHANGED <<file, servers, goal, mine, history>>

(* The time is up: first that of the start, then that of the grace.        *)
TimesOut(c) ==
  /\ pc[c] \in {"polling", "asking"}
  /\ \/ grace[c] /\ Fails(c)
     \/ /\ ~grace[c] /\ grace' = [grace EXCEPT ![c] = TRUE]
        /\ Goto(c, "polling") /\ found' = [found EXCEPT ![c] = 0]
        /\ UNCHANGED <<file, stage, last, goal, mine>>
  /\ UNCHANGED <<port, watch, ended>>

(* The user interrupts the invocation, or it is killed and closes nothing. *)
Interrupted(c) ==
  /\ pc[c] \notin {"idle", "over"} /\ Fails(c)
  /\ UNCHANGED <<port, watch, ended>>

Killed(c) ==
  /\ pc[c] \notin {"idle", "over"} /\ Returns(c)
  /\ UNCHANGED <<file, servers, history>>

-----------------------------------------------------------------------------
Runs(p) ==
  \/ Binds(p) \/ Registers(p) \/ Serves(p) \/ Closes(p) \/ Leaves(p)
  \/ Removes(p)
Watches(p) == FindsNothing(p) \/ FindsAnother(p) \/ Rewrites(p)
Invoked(c) ==
  \/ Reads(c) \/ FindsLive(c) \/ FindsDead(c) \/ Retires(c) \/ WaitsForExit(c)
  \/ Kills(c) \/ Reviews(c) \/ Clears(c) \/ Spawns(c) \/ Polls(c) \/ Adopts(c)
  \/ AsksAgain(c)

Next ==
  \/ \E p \in Servers :
       \/ Runs(p) \/ Watches(p)
       \/ UserServes(p) \/ UserStops(p) \/ Dies(p)
  \/ \E c \in Callers :
       \/ Begins(c) \/ Invoked(c) \/ TimesOut(c) \/ Interrupted(c) \/ Killed(c)

(* Processes go on, the watch looks again and again, and a time that is    *)
(* set runs out.  Users need not do anything.                              *)
Spec ==
  /\ Init /\ [][Next]_vars
  /\ \A p \in Servers : WF_vars(Runs(p)) /\ WF_vars(Watches(p))
  /\ \A c \in Callers : WF_vars(Invoked(c)) /\ WF_vars(TimesOut(c))

-----------------------------------------------------------------------------
TypeOK ==
  /\ file \in Servers \cup {0} /\ last \in Servers \cup {0}
  /\ stage \in [Servers -> Stages] /\ port \in [Servers -> Ports]
  /\ watch \in [Servers -> {"off", "looks", "rewrites", "left"}]
  /\ pc \in [Callers -> Places] /\ goal \in [Callers -> Goals]
  /\ found \in [Callers -> Servers \cup {0}]
  /\ mine \in [Callers -> Servers \cup {0}]
  /\ grace \in [Callers -> BOOLEAN]
  /\ ended \subseteq Servers

Registered == {p \in Servers : stage[p] \in {"filed", "up"}}

(* "One home has one discoverable server" (registration.ts:52), and        *)
(* "concurrent starts converge on one server" (CHANGELOG.md:419): whatever *)
(* is started, stopped and killed at once, and whoever removed the file of *)
(* whom, in the end at most one server serves and the file names it.       *)
OneIsLeft == <>[](\A p \in Registered : file = p)

(* Servers that see each other's files do not all shut down: the one that  *)
(* wrote last never gives up (registration.ts:53-55, 73-85).               *)
LastStays == last # 0 => watch[last] # "left"

(* A server that an invocation has stopped is gone, and so is its file,    *)
(* whether it left in time or was killed (discovery.ts:176-188), unless    *)
(* the signals never reached it.                                           *)
StoppedIsRetired == \A p \in ended : stage[p] = "gone" /\ file # p

=============================================================================
