---------------------------- MODULE ServerProofs ----------------------------
(***************************************************************************)
(* Proofs about the parts of a CodeWork server that are modelled by        *)
(* themselves: its registration, in Service, its clones, in Clones, and    *)
(* the copy that a desktop server keeps of its store, in StoreSync.        *)
(*                                                                         *)
(* Service.  A server that an invocation waits for, reviews or clears has  *)
(* run, and is gone when its registration is reviewed; a server that is    *)
(* gone writes no file any more.  A server gives up its watch only when    *)
(* the file names another, and the file, where there is one, names who     *)
(* wrote last.                                                             *)
(*                                                                         *)
(* Clones.  A call that has got beyond the lock holds it.  A fiber that    *)
(* lives is recorded in an entry that runs, whether or not a call is under *)
(* way; a call empties the folder only when there is none, and while it    *)
(* does the entry is one that nobody else forgets.                         *)
(*                                                                         *)
(* StoreSync.  What the client was sent of a database it has as the        *)
(* database has it, or the database has it later.  A batch that waits has  *)
(* all that it must have beyond the copy it is for, in every database that *)
(* goes on from where it was read, the backup among them; and a stream     *)
(* that is paging has sent all there is before its place.                  *)
(***************************************************************************)
EXTENDS Service, Clones, StoreSync, FiniteSetTheorems, TLAPS

-----------------------------------------------------------------------------
(* Service.                                                                *)


Early == {"none", "booting", "bound"}
Holding == {"probing", "retiring", "waiting", "reviewing", "clearing",
            "ignored", "dropping", "asking"}

(* No server watches before it has registered.                             *)
WatchesLater == \A p \in Servers : stage[p] \in Early => watch[p] = "off"
(* The file names the server that wrote it last.                           *)
FileIsLast == file # 0 => file = last
(* An invocation works on a server: it has one in hand.                    *)
InHand ==
  \A c \in Callers :
    /\ pc[c] \in Holding => found[c] \in Servers
    /\ pc[c] = "waiting" => stage[found[c]] # "none"
    /\ pc[c] \in {"reviewing", "clearing"} => stage[found[c]] = "gone"

IInv ==
  TypeOK /\ WatchesLater /\ FileIsLast /\ LastStays /\ InHand
  /\ StoppedIsRetired

-----------------------------------------------------------------------------
(* What the helpers of several actions have in common.                     *)

(* The invocation c has nothing in hand any more.                          *)
Freed(c) ==
  /\ pc' \in [Callers -> Places] /\ goal' \in [Callers -> Goals]
  /\ found' \in [Callers -> Servers \cup {0}]
  /\ mine' \in [Callers -> Servers \cup {0}]
  /\ grace' \in [Callers -> BOOLEAN]
  /\ pc'[c] \notin Holding
  /\ \A d \in Callers \ {c} : pc'[d] = pc[d] /\ found'[d] = found[d]

(* Processes are at most ended, and the file is left, removed, or written  *)
(* by one that had not registered.                                         *)
Signalled ==
  /\ stage' \in [Servers -> Stages]
  /\ \A p \in Servers :
       /\ stage[p] = "gone" => stage'[p] = "gone"
       /\ stage'[p] \in Early => stage'[p] = stage[p]
       /\ stage'[p] = "none" => stage[p] = "none"
  /\ \/ file' \in {file, 0} /\ last' = last
     \/ \E p \in Servers : stage[p] = "bound" /\ file' = p /\ last' = p
  /\ UNCHANGED <<port, watch>>

LEMMA ReturnsFrees ==
  ASSUME TypeOK, NEW c \in Callers, Returns(c)
  PROVE  Freed(c)
BY DEF TypeOK, Returns, Goto, Freed, Holding, Goals, Places

LEMMA ProceedsFrees ==
  ASSUME TypeOK, NEW c \in Callers, Proceeds(c)
  PROVE  Freed(c)
<1>1. CASE goal[c] = "stop" /\ Returns(c)
  BY <1>1, ReturnsFrees
<1>2. CASE ~(goal[c] = "stop" /\ Returns(c))
  BY <1>2 DEF TypeOK, Proceeds, Goto, Freed, Holding, Goals, Places
<1> QED BY <1>1, <1>2

LEMMA TerminatesSignals ==
  ASSUME TypeOK, NEW p \in Servers, Terminates(p), UNCHANGED <<port, watch>>
  PROVE  Signalled
BY DEF TypeOK, Terminates, Writes, Signalled, Early, Stages

LEMMA QuietSignals ==
  ASSUME TypeOK, UNCHANGED <<stage, last, port, watch>>, file' \in {file, 0}
  PROVE  Signalled
BY DEF TypeOK, Signalled

LEMMA FailsFrees ==
  ASSUME TypeOK, NEW c \in Callers, Fails(c), UNCHANGED <<port, watch>>
  PROVE  Freed(c) /\ Signalled
<1>1. Freed(c)
  BY ReturnsFrees DEF Fails
<1>2. CASE mine[c] # 0
  <2>1. mine[c] \in Servers
    BY <1>2 DEF TypeOK
  <2> QED BY <1>1, <1>2, <2>1, TerminatesSignals DEF Fails
<1>3. CASE mine[c] = 0
  BY <1>1, <1>3, QuietSignals DEF Fails
<1> QED BY <1>2, <1>3

(* A step in which an invocation lets go keeps the invariant.              *)
LEMMA FreedIInv ==
  ASSUME IInv, NEW c \in Callers, Freed(c), Signalled,
         \/ ended' = ended
         \/ /\ ended' = ended \cup {found[c]} /\ found[c] \in Servers
            /\ stage[found[c]] = "gone" /\ file' # found[c]
  PROVE  IInv'
<1> USE DEF IInv, Signalled
<1>1. TypeOK'
  BY DEF TypeOK, Freed
<1>2. WatchesLater'
  BY DEF WatchesLater
<1>3. FileIsLast' /\ LastStays'
  BY ServiceAssumption DEF TypeOK, FileIsLast, LastStays, WatchesLater, Early
<1>4. InHand'
  BY DEF TypeOK, InHand, Freed, Holding
<1>5. StoppedIsRetired'
  BY ServiceAssumption DEF TypeOK, StoppedIsRetired
<1> QED BY <1>1, <1>2, <1>3, <1>4, <1>5

-----------------------------------------------------------------------------
(* The invariant is inductive.                                             *)

THEOREM InitIInv == Init => IInv
<1> SUFFICES ASSUME Init PROVE IInv
  OBVIOUS
<1>1. TypeOK
  <2>1. (CHOOSE q \in Ports : TRUE) \in Ports
    BY ServiceAssumption
  <2> QED BY <2>1 DEF Init, TypeOK, Stages, Goals, Places
<1>2. WatchesLater /\ FileIsLast /\ LastStays /\ StoppedIsRetired
  BY DEF Init, WatchesLater, FileIsLast, LastStays, StoppedIsRetired
<1>3. InHand
  BY DEF Init, InHand, Holding
<1> QED BY <1>1, <1>2, <1>3 DEF IInv

LEMMA BindsIInv ==
  ASSUME IInv, NEW p \in Servers, Binds(p)
  PROVE  IInv'
BY ServiceAssumption
   DEF Binds, At, Listens, servers, callers, history, IInv, TypeOK,
       WatchesLater, FileIsLast, LastStays, InHand, StoppedIsRetired, Early,
       Holding, Stages, Goals, Places

LEMMA RegistersIInv ==
  ASSUME IInv, NEW p \in Servers, Registers(p)
  PROVE  IInv'
BY ServiceAssumption
   DEF Registers, At, Looks, Writes, callers, IInv, TypeOK, WatchesLater,
       FileIsLast, LastStays, InHand, StoppedIsRetired, Early, Holding,
       Stages, Goals, Places

LEMMA ServesIInv ==
  ASSUME IInv, NEW p \in Servers, Serves(p)
  PROVE  IInv'
BY ServiceAssumption
   DEF Serves, At, callers, history, IInv, TypeOK, WatchesLater, FileIsLast,
       LastStays, InHand, StoppedIsRetired, Early, Holding, Stages, Goals,
       Places

LEMMA ClosesIInv ==
  ASSUME IInv, NEW p \in Servers, Closes(p)
  PROVE  IInv'
BY ServiceAssumption
   DEF Closes, At, callers, history, IInv, TypeOK, WatchesLater, FileIsLast,
       LastStays, InHand, StoppedIsRetired, Early, Holding, Stages, Goals,
       Places

LEMMA LeavesIInv ==
  ASSUME IInv, NEW p \in Servers, Leaves(p)
  PROVE  IInv'
BY ServiceAssumption
   DEF Leaves, At, callers, history, IInv, TypeOK, WatchesLater, FileIsLast,
       LastStays, InHand, StoppedIsRetired, Early, Holding, Stages, Goals,
       Places

LEMMA RemovesIInv ==
  ASSUME IInv, NEW p \in Servers, Removes(p)
  PROVE  IInv'
BY ServiceAssumption
   DEF Removes, At, callers, history, IInv, TypeOK, WatchesLater, FileIsLast,
       LastStays, InHand, StoppedIsRetired, Early, Holding, Stages, Goals,
       Places

LEMMA FindsNothingIInv ==
  ASSUME IInv, NEW p \in Servers, FindsNothing(p)
  PROVE  IInv'
BY ServiceAssumption
   DEF FindsNothing, Looks, callers, history, IInv, TypeOK, WatchesLater,
       FileIsLast, LastStays, InHand, StoppedIsRetired, Early, Holding,
       Stages, Goals, Places

LEMMA FindsAnotherIInv ==
  ASSUME IInv, NEW p \in Servers, FindsAnother(p)
  PROVE  IInv'
BY ServiceAssumption
   DEF FindsAnother, Looks, Terminates, Writes, callers, IInv, TypeOK,
       WatchesLater, FileIsLast, LastStays, InHand, StoppedIsRetired, Early,
       Holding, Stages, Goals, Places

LEMMA RewritesIInv ==
  ASSUME IInv, NEW p \in Servers, Rewrites(p)
  PROVE  IInv'
BY ServiceAssumption
   DEF Rewrites, Looks, Writes, Alive, callers, IInv, TypeOK, WatchesLater,
       FileIsLast, LastStays, InHand, StoppedIsRetired, Early, Holding,
       Stages, Goals, Places

LEMMA UserServesIInv ==
  ASSUME IInv, NEW p \in Servers, UserServes(p)
  PROVE  IInv'
BY ServiceAssumption
   DEF UserServes, Starts, Lowest, At, callers, history, IInv, TypeOK,
       WatchesLater, FileIsLast, LastStays, InHand, StoppedIsRetired, Early,
       Holding, Stages, Goals, Places

LEMMA UserStopsIInv ==
  ASSUME IInv, NEW p \in Servers, UserStops(p)
  PROVE  IInv'
BY ServiceAssumption
   DEF UserStops, Alive, Terminates, Writes, callers, IInv, TypeOK,
       WatchesLater, FileIsLast, LastStays, InHand, StoppedIsRetired, Early,
       Holding, Stages, Goals, Places

LEMMA DiesIInv ==
  ASSUME IInv, NEW p \in Servers, Dies(p)
  PROVE  IInv'
BY ServiceAssumption
   DEF Dies, Alive, At, callers, history, IInv, TypeOK, WatchesLater,
       FileIsLast, LastStays, InHand, StoppedIsRetired, Early, Holding,
       Stages, Goals, Places

LEMMA BeginsIInv ==
  ASSUME IInv, NEW c \in Callers, Begins(c)
  PROVE  IInv'
BY ServiceAssumption
   DEF Begins, Goto, servers, history, IInv, TypeOK, WatchesLater,
       FileIsLast, LastStays, InHand, StoppedIsRetired, Early, Holding,
       Stages, Goals, Places

LEMMA WaitsForExitIInv ==
  ASSUME IInv, NEW c \in Callers, WaitsForExit(c)
  PROVE  IInv'
BY ServiceAssumption
   DEF WaitsForExit, Alive, Goto, servers, history, IInv, TypeOK,
       WatchesLater, FileIsLast, LastStays, InHand, StoppedIsRetired, Early,
       Holding, Stages, Goals, Places

LEMMA KillsIInv ==
  ASSUME IInv, NEW c \in Callers, Kills(c)
  PROVE  IInv'
BY ServiceAssumption
   DEF Kills, Alive, At, callers, history, IInv, TypeOK, WatchesLater,
       FileIsLast, LastStays, InHand, StoppedIsRetired, Early, Holding,
       Stages, Goals, Places

LEMMA SpawnsIInv ==
  ASSUME IInv, NEW c \in Callers, Spawns(c)
  PROVE  IInv'
BY ServiceAssumption
   DEF Spawns, Goto, Starts, Lowest, At, history, IInv, TypeOK, WatchesLater,
       FileIsLast, LastStays, InHand, StoppedIsRetired, Early, Holding,
       Stages, Goals, Places

LEMMA AsksAgainIInv ==
  ASSUME IInv, NEW c \in Callers, AsksAgain(c)
  PROVE  IInv'
BY ServiceAssumption
   DEF AsksAgain, Goto, Waits, Alive, servers, history, IInv, TypeOK,
       WatchesLater, FileIsLast, LastStays, InHand, StoppedIsRetired, Early,
       Holding, Stages, Goals, Places

LEMMA ReadsIInv ==
  ASSUME IInv, NEW c \in Callers, Reads(c)
  PROVE  IInv'
<1>1. CASE Proceeds(c)
  BY <1>1, ProceedsFrees, QuietSignals, FreedIInv
     DEF Reads, IInv, servers, history
<1>2. CASE ~Proceeds(c)
  BY <1>2
      DEF Reads, Goto, servers, history, IInv, TypeOK, WatchesLater,
          FileIsLast, LastStays, InHand, StoppedIsRetired, Early, Holding,
          Stages, Goals, Places
<1> QED BY <1>1, <1>2

LEMMA FindsLiveIInv ==
  ASSUME IInv, NEW c \in Callers, FindsLive(c)
  PROVE  IInv'
<1>1. found[c] \in Servers
  BY DEF FindsLive, IInv, InHand, Holding
<1>2. CASE Returns(c) /\ UNCHANGED <<file, stage, last>>
  BY <1>2, ReturnsFrees, QuietSignals, FreedIInv DEF FindsLive, IInv
<1>3. CASE Terminates(found[c]) /\ Goto(c, "waiting")
           /\ UNCHANGED <<goal, found, mine, grace>>
  <2>1. /\ stage' = [stage EXCEPT ![found[c]] = "closing"]
        /\ stage[found[c]] = "up"
        /\ pc[c] = "probing" /\ pc' = [pc EXCEPT ![c] = "waiting"]
        /\ UNCHANGED <<file, last, port, watch, ended>>
        /\ UNCHANGED <<goal, found, mine, grace>>
    BY <1>1, <1>3 DEF FindsLive, Answers, Goto, Terminates, IInv, TypeOK
  <2> QED
    BY <1>1, <2>1
       DEF IInv, TypeOK, WatchesLater, FileIsLast, LastStays, InHand,
           StoppedIsRetired, Early, Holding, Stages, Goals, Places
<1>4. CASE Goto(c, "ignored")
           /\ UNCHANGED <<file, stage, last, goal, found, mine, grace>>
  BY <1>1, <1>4
     DEF FindsLive, Goto, IInv, TypeOK, WatchesLater, FileIsLast, LastStays,
         InHand, StoppedIsRetired, Early, Holding, Stages, Goals, Places
<1> QED BY <1>2, <1>3, <1>4 DEF FindsLive

LEMMA FindsDeadIInv ==
  ASSUME IInv, NEW c \in Callers, FindsDead(c)
  PROVE  IInv'
<1>1. CASE Proceeds(c)
  BY <1>1, ProceedsFrees, QuietSignals, FreedIInv
     DEF FindsDead, IInv, servers, history
<1>2. CASE ~Proceeds(c)
  BY <1>2
      DEF FindsDead, Goto, servers, history, IInv, TypeOK, WatchesLater,
          FileIsLast, LastStays, InHand, StoppedIsRetired, Early, Holding,
          Stages, Goals, Places
<1> QED BY <1>1, <1>2

LEMMA RetiresIInv ==
  ASSUME IInv, NEW c \in Callers, Retires(c)
  PROVE  IInv'
BY ProceedsFrees, QuietSignals, FreedIInv
   DEF Retires, IInv, servers, history

LEMMA ReviewsIInv ==
  ASSUME IInv, NEW c \in Callers, Reviews(c)
  PROVE  IInv'
<1>1. found[c] \in Servers /\ (pc[c] = "reviewing" => stage[found[c]] = "gone")
  BY DEF Reviews, IInv, InHand, Holding
<1>2. CASE file # found[c] /\ Stopped(c)
  <2>1. Freed(c) /\ Signalled
    BY <1>2, ProceedsFrees, QuietSignals DEF Reviews, Stopped, IInv, servers
  <2> QED BY <1>1, <1>2, <2>1, FreedIInv DEF Reviews, Stopped
<1>3. CASE ~(file # found[c] /\ Stopped(c))
  BY <1>1, <1>3
      DEF Reviews, Goto, servers, IInv, TypeOK, WatchesLater, FileIsLast,
          LastStays, InHand, StoppedIsRetired, Early, Holding, Stages, Goals,
          Places
<1> QED BY <1>2, <1>3

LEMMA ClearsIInv ==
  ASSUME IInv, NEW c \in Callers, Clears(c)
  PROVE  IInv'
<1>1. found[c] \in Servers /\ (pc[c] = "clearing" => stage[found[c]] = "gone")
  BY DEF Clears, IInv, InHand, Holding
<1>2. Freed(c) /\ Signalled
  BY ProceedsFrees, QuietSignals DEF Clears, Stopped, IInv, servers
<1>3. file' # found[c]
  BY <1>1, ServiceAssumption DEF Clears
<1> QED BY <1>1, <1>2, <1>3, FreedIInv DEF Clears, Stopped

LEMMA PollsIInv ==
  ASSUME IInv, NEW c \in Callers, Polls(c)
  PROVE  IInv'
<1>1. CASE file # 0
  <2>1. /\ file \in Servers /\ pc' = [pc EXCEPT ![c] = "asking"]
        /\ found' = [found EXCEPT ![c] = file]
        /\ UNCHANGED <<file, stage, port, watch, goal, mine, grace>>
        /\ UNCHANGED <<last, ended>>
    BY <1>1 DEF Polls, Goto, servers, history, IInv, TypeOK
  <2> QED
    BY <2>1
       DEF IInv, TypeOK, WatchesLater, FileIsLast, LastStays, InHand,
           StoppedIsRetired, Early, Holding, Stages, Goals, Places
<1>2. CASE file = 0
  <2>1. grace' \in [Callers -> BOOLEAN]
    BY <1>2 DEF Polls, IInv, TypeOK
  <2>2. UNCHANGED <<file, servers, pc, goal, found, mine, history>>
    BY <1>2 DEF Polls
  <2> QED
    BY <2>1, <2>2
       DEF servers, history, IInv, TypeOK, WatchesLater, FileIsLast,
           LastStays, InHand, StoppedIsRetired, Early, Holding, Stages,
           Goals, Places
<1> QED BY <1>1, <1>2

LEMMA AdoptsIInv ==
  ASSUME IInv, NEW c \in Callers, Adopts(c)
  PROVE  IInv'
<1>1. CASE mine[c] = found[c]
  BY <1>1, ReturnsFrees, QuietSignals, FreedIInv DEF Adopts, IInv
<1>2. CASE mine[c] # found[c]
  BY <1>2, FailsFrees, FreedIInv DEF Adopts, IInv
<1> QED BY <1>1, <1>2

LEMMA TimesOutIInv ==
  ASSUME IInv, NEW c \in Callers, TimesOut(c)
  PROVE  IInv'
<1>1. CASE Fails(c)
  BY <1>1, FailsFrees, FreedIInv DEF TimesOut, IInv
<1>2. CASE ~Fails(c)
  <2>1. Freed(c)
    BY <1>2 DEF TimesOut, Goto, Freed, Holding, Places, IInv, TypeOK
  <2> QED BY <1>2, <2>1, QuietSignals, FreedIInv DEF TimesOut, IInv
<1> QED BY <1>1, <1>2

LEMMA InterruptedIInv ==
  ASSUME IInv, NEW c \in Callers, Interrupted(c)
  PROVE  IInv'
BY FailsFrees, FreedIInv DEF Interrupted, IInv

LEMMA KilledIInv ==
  ASSUME IInv, NEW c \in Callers, Killed(c)
  PROVE  IInv'
BY ReturnsFrees, QuietSignals, FreedIInv
   DEF Killed, IInv, servers, history

(* Every step of a server, of an invocation and of the user keeps the      *)
(* invariant of the registration.                                          *)
THEOREM NextIInv == IInv /\ [Next]_vars => IInv'
<1> SUFFICES ASSUME IInv, [Next]_vars PROVE IInv'
  OBVIOUS
<1>1. ASSUME NEW p \in Servers,
         \/ Binds(p) \/ Registers(p) \/ Serves(p)
         \/ Closes(p) \/ Leaves(p) \/ Removes(p)
         \/ FindsNothing(p) \/ FindsAnother(p) \/ Rewrites(p)
         \/ UserServes(p) \/ UserStops(p) \/ Dies(p)
     PROVE  IInv'
  BY <1>1, BindsIInv, RegistersIInv, ServesIInv, ClosesIInv, LeavesIInv,
           RemovesIInv, FindsNothingIInv, FindsAnotherIInv, RewritesIInv,
           UserServesIInv, UserStopsIInv, DiesIInv
<1>2. ASSUME NEW c \in Callers,
         \/ Begins(c) \/ Reads(c) \/ FindsLive(c)
         \/ FindsDead(c) \/ Retires(c) \/ WaitsForExit(c)
         \/ Kills(c) \/ Reviews(c) \/ Clears(c)
         \/ Spawns(c) \/ Polls(c) \/ Adopts(c)
         \/ AsksAgain(c) \/ TimesOut(c) \/ Interrupted(c)
         \/ Killed(c)
     PROVE  IInv'
  BY <1>2, BeginsIInv, ReadsIInv, FindsLiveIInv, FindsDeadIInv, RetiresIInv,
           WaitsForExitIInv, KillsIInv, ReviewsIInv, ClearsIInv, SpawnsIInv,
           PollsIInv, AdoptsIInv, AsksAgainIInv, TimesOutIInv,
           InterruptedIInv, KilledIInv
<1>3. CASE UNCHANGED vars
  BY <1>3
     DEF IInv, TypeOK, WatchesLater, FileIsLast, LastStays, InHand,
         StoppedIsRetired, vars, servers, callers, history
<1> QED BY <1>1, <1>2, <1>3 DEF Next, Runs, Watches, Invoked

-----------------------------------------------------------------------------
(* The invariant of the registration holds in every state.                 *)
THEOREM Invariance == Spec => []IInv
<1> QED BY InitIInv, NextIInv, PTL DEF Spec

(* Type correctness: of the file, of each process and of each invocation.  *)
THEOREM TypeCorrect == Spec => []TypeOK
<1>1. IInv => TypeOK
  BY DEF IInv
<1> QED BY <1>1, Invariance, PTL

(* Of servers that see each other's files, the one that wrote last never   *)
(* gives up: the look that finds another file is not followed by a write   *)
(* of the one that gave up (registration.ts:72-85).                        *)
THEOREM TheLastStays == Spec => []LastStays
<1>1. IInv => LastStays
  BY DEF IInv
<1> QED BY <1>1, Invariance, PTL

(* What an invocation stopped is gone for good, and so is its file, however *)
(* many other servers and invocations there are (discovery.ts:176-188).    *)
THEOREM StoppedForGood == Spec => []StoppedIsRetired
<1>1. IInv => StoppedIsRetired
  BY DEF IInv
<1> QED BY <1>1, Invariance, PTL

-----------------------------------------------------------------------------
(* Clones.                                                                 *)


(* What the lock is for.                                                   *)
Locked ==
  \A c \in Clients :
    /\ at[c] \in {"holding", "claimed", "awaiting", "emptying"} => lock = c
    /\ at[c] = "idle" <=> op[c] = "none"
    /\ at[c] = "claimed" => op[c] = "start"
    /\ at[c] = "awaiting" => op[c] \in {"cancel", "discard"}
    /\ at[c] = "awaiting" => phase # "untracked"
    /\ at[c] = "emptying" => op[c] \in {"cancel", "discard", "retry"}

LiveIsRecorded == \A j \in Jobs : Live(j) => phase = "running" /\ fiber = j

(* A claim lacks a fiber only as long as its call is under way.            *)
ClaimHolds ==
  /\ phase # "running" => fiber = None /\ ~stalled
  /\ fiber = None /\ phase = "running" =>
       \E c \in Clients : at[c] = "claimed"
  /\ \A c \in Clients :
       at[c] = "claimed" => phase = "running" /\ fiber = None /\ ~stalled

(* A folder that is emptied belongs to an entry that is neither gone nor   *)
(* done, and to no fiber.                                                  *)
NobodyWrites ==
  \A c \in Clients :
    at[c] = "emptying" =>
      /\ \A j \in Jobs : ~Live(j)
      /\ phase \notin {"done", "untracked"}
      /\ op[c] = "retry" => phase # "running"

TimerIsDone == timer => phase = "done"

CInv ==
  CloneTypeOK /\ Locked /\ LiveIsRecorded /\ ClaimHolds /\ NobodyWrites
  /\ TimerIsDone

-----------------------------------------------------------------------------
(* The invariant is inductive.                                             *)

THEOREM InitCInv == CloneInit => CInv
BY ClonesAssumption
   DEF CloneInit, Bare, Ops, AtWork, CInv, CloneTypeOK, Locked, LiveIsRecorded,
       ClaimHolds, NobodyWrites, TimerIsDone, Live

LEMMA EntersCInv ==
  ASSUME CInv, NEW j \in Jobs, Enters(j)
  PROVE  CInv'
BY ClonesAssumption
   DEF Enters, Stage, Bare, AtWork, entry, calls, CInv, CloneTypeOK, Locked,
       LiveIsRecorded, ClaimHolds, NobodyWrites, TimerIsDone, Live

LEMMA EndsCInv ==
  ASSUME CInv, NEW j \in Jobs, Ends(j)
  PROVE  CInv'
<1> USE ClonesAssumption DEF Ends, Stage, Finish, Bare, AtWork, entry, calls,
                             CInv, Live
<1>1. CloneTypeOK'
  BY DEF CloneTypeOK
<1>2. Locked'
  BY DEF Locked
<1>3. LiveIsRecorded'
  BY DEF CloneTypeOK, LiveIsRecorded
<1>4. ClaimHolds'
  BY DEF LiveIsRecorded, ClaimHolds
<1>5. NobodyWrites'
  BY DEF NobodyWrites
<1>6. TimerIsDone'
  BY DEF LiveIsRecorded, TimerIsDone
<1> QED BY <1>1, <1>2, <1>3, <1>4, <1>5, <1>6

LEMMA GitWritesCInv ==
  ASSUME CInv, NEW j \in Jobs, GitWrites(j)
  PROVE  CInv'
BY ClonesAssumption
   DEF GitWrites, Bare, AtWork, entry, calls, CInv, CloneTypeOK, Locked,
       LiveIsRecorded, ClaimHolds, NobodyWrites, TimerIsDone, Live

LEMMA GitCompletesCInv ==
  ASSUME CInv, NEW j \in Jobs, GitCompletes(j)
  PROVE  CInv'
BY ClonesAssumption
   DEF GitCompletes, Stage, Bare, AtWork, entry, calls, CInv, CloneTypeOK,
       Locked, LiveIsRecorded, ClaimHolds, NobodyWrites, TimerIsDone, Live

LEMMA GitFailsCInv ==
  ASSUME CInv, NEW j \in Jobs, GitFails(j)
  PROVE  CInv'
BY ClonesAssumption
   DEF GitFails, Stage, Bare, AtWork, entry, calls, CInv, CloneTypeOK, Locked,
       LiveIsRecorded, ClaimHolds, NobodyWrites, TimerIsDone, Live

LEMMA StallsCInv ==
  ASSUME CInv, NEW j \in Jobs, Stalls(j)
  PROVE  CInv'
BY ClonesAssumption
   DEF Stalls, AtWork, calls, CInv, CloneTypeOK, Locked, LiveIsRecorded,
       ClaimHolds, NobodyWrites, TimerIsDone, Live

LEMMA ForgetsCInv ==
  ASSUME CInv, Forgets
  PROVE  CInv'
BY ClonesAssumption
   DEF Forgets, calls, CInv, CloneTypeOK, Locked, LiveIsRecorded, ClaimHolds,
       NobodyWrites, TimerIsDone, Live

LEMMA UserWritesCInv ==
  ASSUME CInv, UserWrites
  PROVE  CInv'
BY ClonesAssumption
   DEF UserWrites, Bare, entry, calls, CInv, CloneTypeOK, Locked,
       LiveIsRecorded, ClaimHolds, NobodyWrites, TimerIsDone, Live

LEMMA UserRemovesCInv ==
  ASSUME CInv, UserRemoves
  PROVE  CInv'
BY ClonesAssumption
   DEF UserRemoves, Bare, entry, calls, CInv, CloneTypeOK, Locked,
       LiveIsRecorded, ClaimHolds, NobodyWrites, TimerIsDone, Live

LEMMA CallsCInv ==
  ASSUME CInv, NEW c \in Clients, Calls(c)
  PROVE  CInv'
BY ClonesAssumption
   DEF Calls, Ops, entry, CInv, CloneTypeOK, Locked, LiveIsRecorded,
       ClaimHolds, NobodyWrites, TimerIsDone, Live

LEMMA AcquiresCInv ==
  ASSUME CInv, NEW c \in Clients, Acquires(c)
  PROVE  CInv'
BY ClonesAssumption
   DEF Acquires, entry, CInv, CloneTypeOK, Locked, LiveIsRecorded, ClaimHolds,
       NobodyWrites, TimerIsDone, Live

LEMMA ClaimsCInv ==
  ASSUME CInv, NEW c \in Clients, Claims(c)
  PROVE  CInv'
<1> USE ClonesAssumption DEF Claims, Move, Settles, Bare, Ops, entry, CInv,
                             Live
<1>1. CloneTypeOK'
  BY DEF CloneTypeOK
<1>2. Locked'
  BY DEF CloneTypeOK, Locked
<1>3. LiveIsRecorded'
  BY DEF LiveIsRecorded
<1>4. ClaimHolds'
  BY DEF CloneTypeOK, ClaimHolds
<1>5. NobodyWrites'
  BY DEF CloneTypeOK, NobodyWrites
<1>6. TimerIsDone'
  BY DEF TimerIsDone
<1> QED BY <1>1, <1>2, <1>3, <1>4, <1>5, <1>6

LEMMA LaunchesCInv ==
  ASSUME CInv, NEW c \in Clients, Launches(c)
  PROVE  CInv'
BY ClonesAssumption
   DEF Launches, Settles, Launch, Stage, Ops, AtWork, Bare, CInv, CloneTypeOK,
       Locked, LiveIsRecorded, ClaimHolds, NobodyWrites, TimerIsDone, Live

LEMMA StopsCInv ==
  ASSUME CInv, NEW c \in Clients, Stops(c)
  PROVE  CInv'
<1> USE ClonesAssumption DEF Stops, Takes, Interrupt, Stage, Review, Remove,
                             Finish, Move, Settles, Ops, AtWork, entry, CInv,
                             Live
<1>1. CloneTypeOK'
  BY DEF CloneTypeOK
<1>2. Locked'
  BY DEF CloneTypeOK, Locked
<1>3. LiveIsRecorded'
  BY DEF CloneTypeOK, LiveIsRecorded
<1>4. ClaimHolds'
  BY DEF CloneTypeOK, ClaimHolds
<1>5. NobodyWrites'
  BY DEF CloneTypeOK, LiveIsRecorded, NobodyWrites
<1>6. TimerIsDone'
  BY DEF TimerIsDone
<1> QED BY <1>1, <1>2, <1>3, <1>4, <1>5, <1>6

LEMMA AwaitsCInv ==
  ASSUME CInv, NEW c \in Clients, Awaits(c)
  PROVE  CInv'
<1> USE ClonesAssumption DEF Awaits, Review, Remove, Finish, Move, Settles,
                             Ops, entry, CInv, Live
<1>1. CloneTypeOK'
  BY DEF CloneTypeOK
<1>2. Locked'
  BY DEF CloneTypeOK, Locked
<1>3. LiveIsRecorded'
  BY DEF LiveIsRecorded
<1>4. ClaimHolds'
  BY DEF CloneTypeOK, Locked, ClaimHolds
<1>5. NobodyWrites'
  BY DEF CloneTypeOK, Locked, LiveIsRecorded, NobodyWrites
<1>6. TimerIsDone'
  BY DEF TimerIsDone
<1> QED BY <1>1, <1>2, <1>3, <1>4, <1>5, <1>6

LEMMA RetriesCInv ==
  ASSUME CInv, NEW c \in Clients, Retries(c)
  PROVE  CInv'
BY ClonesAssumption
   DEF Retries, Move, Settles, Ops, entry, CInv, CloneTypeOK, Locked,
       LiveIsRecorded, ClaimHolds, NobodyWrites, TimerIsDone, Live

LEMMA EmptiesCInv ==
  ASSUME CInv, NEW c \in Clients, Empties(c)
  PROVE  CInv'
<1> USE ClonesAssumption DEF Empties, Settles, Emptied, Spoiled, Remove,
                             Launch, Stage, Bare, Ops, AtWork, entry, CInv,
                             Live
<1>1. CloneTypeOK'
  BY DEF CloneTypeOK
<1>2. Locked'
  BY DEF CloneTypeOK, Locked
<1>3. LiveIsRecorded'
  BY DEF CloneTypeOK, LiveIsRecorded, NobodyWrites
<1>4. ClaimHolds'
  BY DEF Locked, ClaimHolds
<1>5. NobodyWrites'
  BY DEF CloneTypeOK, Locked, NobodyWrites
<1>6. TimerIsDone'
  BY DEF NobodyWrites, TimerIsDone
<1> QED BY <1>1, <1>2, <1>3, <1>4, <1>5, <1>6

LEMMA DisconnectsCInv ==
  ASSUME CInv, NEW c \in Clients, Disconnects(c)
  PROVE  CInv'
BY ClonesAssumption
   DEF Disconnects, Settles, Spoiled, Ops, Bare, entry, CInv, CloneTypeOK,
       Locked, LiveIsRecorded, ClaimHolds, NobodyWrites, TimerIsDone, Live

(* Every step of a call, of a clone and of the user keeps the invariant of *)
(* the clones.                                                             *)
THEOREM NextCInv == CInv /\ [CloneNext]_cloneVars => CInv'
<1> SUFFICES ASSUME CInv, [CloneNext]_cloneVars PROVE CInv'
  OBVIOUS
<1>1. ASSUME NEW j \in Jobs, Clone(j) \/ Git(j) PROVE CInv'
  BY <1>1, EntersCInv, EndsCInv, GitWritesCInv, GitCompletesCInv,
           GitFailsCInv, StallsCInv
     DEF Clone, Git
<1>2. CASE Forgets \/ UserWrites \/ UserRemoves
  BY <1>2, ForgetsCInv, UserWritesCInv, UserRemovesCInv
<1>3. ASSUME NEW c \in Clients,
             Calls(c) \/ Acquires(c) \/ Call(c) \/ Disconnects(c)
      PROVE  CInv'
  BY <1>3, CallsCInv, AcquiresCInv, ClaimsCInv, LaunchesCInv, StopsCInv,
           AwaitsCInv, RetriesCInv, EmptiesCInv, DisconnectsCInv
     DEF Call
<1>4. CASE UNCHANGED cloneVars
  BY <1>4
     DEF cloneVars, entry, calls, CInv, CloneTypeOK, Locked, LiveIsRecorded,
         ClaimHolds, NobodyWrites, TimerIsDone, Live
<1> QED BY <1>1, <1>2, <1>3, <1>4 DEF CloneNext

-----------------------------------------------------------------------------
(* The invariant of the clones holds in every state.                       *)
THEOREM CloneInvariance == CloneSpec => []CInv
<1> QED BY InitCInv, NextCInv, PTL DEF CloneSpec

(* Type correctness: of the entry, the fibers, the folder and the calls.   *)
THEOREM CloneTypeCorrect == CloneSpec => []CloneTypeOK
<1>1. CInv => CloneTypeOK
  BY DEF CInv
<1> QED BY <1>1, CloneInvariance, PTL

(* However many clients call and disconnect, a clone at work can be        *)
(* cancelled, and an entry that runs has a fiber (clones.ts:602).          *)
THEOREM AlwaysTracked == CloneSpec => []Tracked
<1>1. CInv => Tracked
  BY ClonesAssumption
     DEF CInv, CloneTypeOK, Locked, LiveIsRecorded, ClaimHolds, Tracked
<1> QED BY <1>1, CloneInvariance, PTL

(* No two clones, and no clone and a removal, work in the folder at once   *)
(* (clones.ts:316).                                                        *)
THEOREM Exclusive == CloneSpec => []OneAtWork
<1>1. CInv => OneAtWork
  BY DEF CInv, LiveIsRecorded, NobodyWrites, OneAtWork
<1> QED BY <1>1, CloneInvariance, PTL

(* No call, timer or fiber takes away a checkout that was done, only its   *)
(* user (clones.ts:664).                                                   *)
THEOREM CheckoutsAreKept == CloneSpec => CheckoutIsKept
<1>1. CInv /\ [CloneNext]_cloneVars =>
        [folder = "whole" /\ phase \in {"done", "untracked"}
           /\ folder' # "whole" => UserRemoves]_cloneVars
  <2> SUFFICES ASSUME CInv, CloneNext, folder = "whole", folder' # "whole",
                      phase \in {"done", "untracked"}
               PROVE  UserRemoves
    BY DEF cloneVars, entry, calls
  <2>1. ASSUME NEW j \in Jobs PROVE ~Clone(j) /\ ~Git(j)
    BY DEF Clone, Git, Enters, Ends, GitWrites, GitCompletes, GitFails, Stalls,
           Bare, Live, CInv, LiveIsRecorded
  <2>2. ~Forgets /\ ~UserWrites
    BY DEF Forgets, UserWrites, Bare
  <2>3. ASSUME NEW c \in Clients
        PROVE  ~Calls(c) /\ ~Acquires(c) /\ ~Call(c) /\ ~Disconnects(c)
    BY DEF Calls, Acquires, Call, Claims, Launches, Stops, Awaits, Retries,
           Empties, Disconnects, CInv, NobodyWrites
  <2> QED BY <2>1, <2>2, <2>3 DEF CloneNext
<1> QED BY <1>1, CloneInvariance, PTL DEF CloneSpec, CheckoutIsKept

-----------------------------------------------------------------------------
(* StoreSync.                                                              *)

USE DEF kept

Stamps  == {Never} \cup [rev : 1 .. MaxRev, line : Lines]
Stores  == [id : Lines, line : Lines, rev : 0 .. MaxRev,
            row : [Rows -> Stamps], gone : [Sessions -> Stamps]]
Sent    == [key : Int, at : Stamps]
Points  == [line : Lines, rev : 0 .. MaxRev]
Batches == [rows : SUBSET Sent, rev : 0 .. MaxRev, id : Lines, read : Points]

SyncTypeOK ==
  /\ store \in Stores /\ backup \in SUBSET Stores
  /\ unrung \in BOOLEAN /\ bell \in BOOLEAN /\ full \in BOOLEAN
  /\ feed \in [phase : {"off", "ready", "paging", "wait"},
               sent : -1 .. MaxRev, from : Int \X Int]
  /\ batch \in SUBSET Sent
  /\ due # <<>> => due = <<due[1]>> /\ due[1] \in Batches
  /\ link \in {"idle", "asked", "following"}
  /\ cursor \in 0 .. MaxRev /\ storeId \in Lines \cup {0}
  /\ copy \in [Rows -> [at : Stamps, deleted : BOOLEAN]]
  /\ origin \in [line : Lines \cup {0, Mixed}, rev : 0 .. MaxRev]
  /\ shared \in [Lines -> [Lines -> 0 .. MaxRev]]
  /\ drops \in Nat

(* Every database there is.                                                *)
Databases == {store} \cup backup

(* What is deleted stays deleted.                                          *)
Settled(S) ==
  \A r \in Rows : S.gone[Owner(r)] # Never => S.row[r] = Never

(* Two lines share what each shares with a third.                          *)
SharedInv ==
  \A a, b \in Lines :
    /\ a = b => shared[a][b] = MaxRev
    /\ a # b /\ (a < b \/ store.line < a) => shared[a][b] = 0
    /\ \A c \in Lines :
         shared[a][b] <= shared[a][c] \/ shared[b][c] <= shared[a][c]

(* A backup is of the line of the store, and not ahead of it, or of an     *)
(* earlier line.                                                           *)
BackupInv ==
  \A b \in backup :
    /\ b.line <= store.line
    /\ b.line = store.line =>
         /\ b.rev <= store.rev
         /\ b.rev = store.rev => b.row = store.row /\ b.gone = store.gone

(* The database S is a continuation of what there was at point p.          *)
Continues(S, p) ==
  /\ p.line \in Lines /\ p.rev <= S.rev
  /\ p.rev <= shared[S.line][p.line]

(* The copy is the database S up to the cursor.                            *)
Matches(S) ==
  \A r \in Rows :
    /\ S.row[r].rev \in 1 .. cursor =>
         copy[r] = [at |-> S.row[r], deleted |-> FALSE]
    /\ S.row[r] = Never /\ S.gone[Owner(r)].rev <= cursor =>
         copy[r].at = Never \/ copy[r].deleted

CopyInv ==
  /\ cursor <= origin.rev /\ origin.line <= store.line
  /\ GoesOnIn(store.line) => origin.rev <= store.rev
  /\ origin.rev = 0 /\ origin.line \in Lines =>
       \A r \in Rows : copy[r].at = Never \/ copy[r].deleted
  /\ \A S \in Databases : Continues(S, origin) => Matches(S)

(* What was read of S up to a revision is as S has it, or S has it at a    *)
(* later revision.                                                         *)
Read(i, S, upto) ==
  /\ i.at.rev \in 1 .. upto
  /\ \/ \E r \in Rows :
          /\ i.key = r
          /\ \/ i.at = S.row[r] \/ upto < S.row[r].rev
             \/ S.row[r] = Never /\ upto < S.gone[Owner(r)].rev
     \/ \E s \in Sessions : i.key = Tombstone(s) /\ i.at = S.gone[s]

Base == IF full THEN 0 ELSE cursor

DueOK(d) ==
  /\ d.rev <= d.read.rev /\ d.read.line <= store.line
  /\ \A i \in d.rows : i.at.rev \in 1 .. d.rev
  /\ d.read.rev <= shared[store.line][d.read.line] =>
       d.read.rev <= store.rev
  /\ GoesOnIn(d.read.line) => origin.rev <= d.read.rev
  /\ \A S \in Databases : Continues(S, d.read) =>
       /\ \A i \in d.rows : Read(i, S, d.rev)
       /\ \A i \in Items(S) : i.at.rev \in Base + 1 .. d.rev => i \in d.rows

DueInv == \A d \in Range(due) : DueOK(d)

(* Where the round of the stream began.                                    *)
Start == <<IF due = <<>> THEN Base ELSE due[1].rev, LastKey>>

FeedInv ==
  /\ link # "following" => feed.phase = "off" /\ due = <<>>
  /\ feed.phase # "off" =>
       /\ feed.sent <= store.rev /\ (feed.phase = "paging" => feed.sent >= 0)
       /\ feed.from = Start \/ feed.from[1] \in 1 .. feed.sent
       /\ feed.phase # "paging" \/ due # <<>> =>
            feed.from = Start /\ batch = {}
       /\ \A i \in batch : Read(i, store, feed.sent)
       /\ \A i \in Items(store) :
            After(Past(i), Start) /\ ~ After(Past(i), feed.from) => i \in batch

SInv ==
  /\ SyncTypeOK /\ SharedInv /\ BackupInv
  /\ \A S \in Databases : Settled(S)
  /\ CopyInv /\ DueInv /\ FeedInv

-----------------------------------------------------------------------------
(* The rows, their keys, and a page of them.                               *)

(* A row has a session, itself or that of the thread, and keys keep rows   *)
(* and tombstones apart.                                                   *)
LEMMA KeysAreApart ==
  /\ \A r \in Rows : Owner(r) \in Sessions /\ r \in 1 .. LastKey
  /\ \A s \in Sessions : s \in Rows /\ Owner(s) = s
  /\ \A s \in Sessions : Tombstone(s) \in 1 - NSessions .. 0
  /\ LastKey \in Nat /\ NSessions \in Nat
<1> USE SessionsAssumption, ParentAssumption
    DEF Rows, Sessions, Threads, LastKey, Owner, SessionOf, Tombstone
<1>1. /\ Len(Parent) \in Nat
      /\ \A n \in 1 .. Len(Parent) : Parent[n] \in 1 .. NSessions
  OBVIOUS
<1>2. ASSUME NEW t \in Threads PROVE SessionOf(t) \in Sessions
  <2>1. t - NSessions \in 1 .. Len(Parent)
    BY <1>1
  <2> QED BY <1>1, <2>1
<1> QED BY <1>1, <1>2

(* A database has an item per row and per session, told apart by the key.  *)
LEMMA ItemsAreFinite ==
  ASSUME NEW S \in Stores
  PROVE  /\ IsFiniteSet(Items(S)) /\ Items(S) \subseteq Sent
         /\ \A i, j \in Items(S) : i.key = j.key => i = j
         /\ \A i \in Items(S) : i.key <= LastKey /\ i.key \in Int
         /\ \A r \in Rows : [key |-> r, at |-> S.row[r]] \in Items(S)
         /\ \A s \in Sessions :
              [key |-> Tombstone(s), at |-> S.gone[s]] \in Items(S)
         /\ \A i \in Items(S) :
              \/ i.key \in Rows /\ i.at = S.row[i.key]
              \/ \E s \in Sessions : i.key = Tombstone(s) /\ i.at = S.gone[s]
<1> DEFINE X == Items(S)
           f == [i \in X |-> i.key]
<1>1. \A i \in X :
        \/ \E r \in Rows : i = [key |-> r, at |-> S.row[r]]
        \/ \E s \in Sessions : i = [key |-> Tombstone(s), at |-> S.gone[s]]
  BY DEF Items
<1>2. X \subseteq Sent /\ \A i \in X : i.key \in 1 - NSessions .. LastKey
  BY <1>1, KeysAreApart DEF Sent, Stores
<1>3. \A i, j \in X : i.key = j.key => i = j
  BY <1>1, KeysAreApart DEF Tombstone, Sessions
<1>4. IsFiniteSet(X)
  <2>1. f \in [X -> 1 - NSessions .. LastKey]
    BY <1>2
  <2>2. \A i, j \in X : f[i] = f[j] => i = j
    BY <1>3
  <2>3. f \in Injection(X, 1 - NSessions .. LastKey)
    <3> HIDE DEF f
    <3> QED BY <2>1, <2>2 DEF Injection, IsInjective
  <2>4. IsFiniteSet(1 - NSessions .. LastKey)
    BY KeysAreApart, FS_Interval
  <2> QED BY <2>4, <2>3, FS_Injection
<1>5. /\ \A r \in Rows : [key |-> r, at |-> S.row[r]] \in X
      /\ \A s \in Sessions : [key |-> Tombstone(s), at |-> S.gone[s]] \in X
  BY DEF Items
<1>6. \A i \in X :
        \/ i.key \in Rows /\ i.at = S.row[i.key]
        \/ \E s \in Sessions : i.key = Tombstone(s) /\ i.at = S.gone[s]
  BY <1>1
<1> QED BY <1>2, <1>3, <1>4, <1>5, <1>6, KeysAreApart

(* The item i comes after j.                                               *)
Later(i, j) == After(Past(i), Past(j))

LEMMA LeastExists ==
  ASSUME NEW S \in SUBSET Nat, S # {}
  PROVE  \E m \in S : \A k \in S : m <= k
<1>1. PICK m \in S : \A k \in S : ~ (<<k, m>> \in OpToRel(<, Nat))
  BY NatLessThanWellFounded, WFMin
<1>2. \A k \in S : ~ (k < m)
  BY <1>1 DEF OpToRel
<1> QED BY <1>2

(* Of the items that can be told apart one is the first, and one the last. *)
LEMMA EndsExist ==
  ASSUME NEW X \in SUBSET Sent, IsFiniteSet(X), X # {},
         \A i, j \in X : i.key = j.key => i = j
  PROVE  /\ \E i \in X : \A j \in X \ {i} : Later(j, i)
         /\ \E i \in X : \A j \in X \ {i} : Later(i, j)
<1> DEFINE B(i) == {j \in X : Later(i, j)}
           A(i) == {j \in X : Later(j, i)}
<1>1. \A i \in X : i.at.rev \in Int /\ i.key \in Int
  BY DEF Sent, Stamps, Never
<1>2. \A i \in X : /\ IsFiniteSet(B(i)) /\ Cardinality(B(i)) \in Nat
                   /\ IsFiniteSet(A(i)) /\ Cardinality(A(i)) \in Nat
  <2>1. TAKE i \in X
  <2>2. B(i) \in SUBSET X /\ A(i) \in SUBSET X
    OBVIOUS
  <2> QED BY <2>2, FS_Subset, FS_CardinalityType
<1>3. \A i, j \in X : i # j => Later(i, j) \/ Later(j, i)
  BY <1>1 DEF Later, After, Past
<1>4. \A i, j \in X : Later(i, j) => ~ Later(j, i) /\ i # j
  BY <1>1 DEF Later, After, Past
<1>5. \A i, j, k \in X : Later(i, j) /\ Later(j, k) => Later(i, k)
  BY <1>1 DEF Later, After, Past
<1>6. ASSUME NEW i \in X, NEW j \in X, Later(i, j)
      PROVE  /\ Cardinality(B(j)) < Cardinality(B(i))
             /\ Cardinality(A(i)) < Cardinality(A(j))
  <2>1. B(j) \in SUBSET B(i) /\ B(j) # B(i)
    BY <1>4, <1>5, <1>6
  <2>2. A(i) \in SUBSET A(j) /\ A(i) # A(j)
    BY <1>4, <1>5, <1>6
  <2>3. /\ Cardinality(B(j)) <= Cardinality(B(i))
        /\ Cardinality(B(j)) # Cardinality(B(i))
    BY <1>2, <2>1, FS_Subset
  <2>4. /\ Cardinality(A(i)) <= Cardinality(A(j))
        /\ Cardinality(A(i)) # Cardinality(A(j))
    BY <1>2, <2>2, FS_Subset
  <2>5. /\ Cardinality(B(i)) \in Nat /\ Cardinality(B(j)) \in Nat
        /\ Cardinality(A(i)) \in Nat /\ Cardinality(A(j)) \in Nat
    BY <1>2
  <2> HIDE DEF A, B
  <2> QED BY <2>3, <2>4, <2>5
<1> HIDE DEF A, B
<1>7. \E i \in X : \A j \in X \ {i} : Later(j, i)
  <2> DEFINE R == {Cardinality(B(i)) : i \in X}
  <2>1. R \in SUBSET Nat /\ R # {}
    BY <1>2
  <2>2. PICK m \in R : \A k \in R : m <= k
    BY <2>1, LeastExists
  <2>3. PICK i \in X : m = Cardinality(B(i))
    OBVIOUS
  <2>4. \A j \in X : ~ Later(i, j)
    BY <1>2, <1>6, <2>2, <2>3
  <2> QED BY <1>3, <2>4
<1>8. \E i \in X : \A j \in X \ {i} : Later(i, j)
  <2> DEFINE R == {Cardinality(A(i)) : i \in X}
  <2>1. R \in SUBSET Nat /\ R # {}
    BY <1>2
  <2>2. PICK m \in R : \A k \in R : m <= k
    BY <2>1, LeastExists
  <2>3. PICK i \in X : m = Cardinality(A(i))
    OBVIOUS
  <2>4. \A j \in X : ~ Later(j, i)
    BY <1>2, <1>6, <2>2, <2>3
  <2> QED BY <1>3, <2>4
<1> QED BY <1>7, <1>8

(* A page has the first items, all if it is not full, and a last one if it *)
(* is.                                                                     *)
LEMMA PageIsFirst ==
  ASSUME NEW X \in SUBSET Sent, IsFiniteSet(X),
         \A i, j \in X : i.key = j.key => i = j
  PROVE  LET F == FirstOf(X) IN
         /\ F \subseteq X
         /\ Cardinality(F) # PageSize => F = X
         /\ Cardinality(F) = PageSize =>
              \E i \in F : \A j \in F \ {i} : Later(i, j)
         /\ \A i \in F, j \in X \ F : Later(j, i)
<1> DEFINE F == FirstOf(X)
           B(i) == {j \in X : Later(i, j)}
<1>1. \A i \in X : i.at.rev \in Int /\ i.key \in Int
  BY DEF Sent, Stamps, Never
<1>2. F = {i \in X : Cardinality(B(i)) < PageSize}
  BY DEF FirstOf, Later, Past
<1>3. \A i \in X : IsFiniteSet(B(i)) /\ Cardinality(B(i)) \in Nat
  <2>1. TAKE i \in X
  <2>2. B(i) \in SUBSET X
    OBVIOUS
  <2> QED BY <2>2, FS_Subset, FS_CardinalityType
<1>4. \A i, j \in X : i # j => Later(i, j) \/ Later(j, i)
  BY <1>1 DEF Later, After, Past
<1>5. \A i, j, k \in X : Later(i, j) /\ Later(j, k) => Later(i, k)
  BY <1>1 DEF Later, After, Past
<1>6. ASSUME NEW i \in F, NEW j \in X, Later(i, j) PROVE j \in F
  <2>1. B(j) \in SUBSET B(i)
    BY <1>2, <1>5, <1>6
  <2>2. Cardinality(B(j)) <= Cardinality(B(i))
    BY <1>2, <1>3, <2>1, FS_Subset
  <2>3. /\ Cardinality(B(i)) \in Nat /\ Cardinality(B(j)) \in Nat
        /\ Cardinality(B(i)) < PageSize
    BY <1>2, <1>3
  <2>4. Cardinality(B(j)) < PageSize
    BY <2>2, <2>3, PageAssumption
  <2> QED BY <1>2, <2>4
<1>7. F \in SUBSET X /\ IsFiniteSet(F) /\ Cardinality(F) \in Nat
  BY <1>2, FS_Subset, FS_CardinalityType
<1>8. ASSUME NEW i \in F, \A j \in F \ {i} : Later(i, j)
      PROVE  Cardinality(F) <= PageSize
  <2>1. F \ {i} \in SUBSET B(i)
    BY <1>2, <1>8
  <2>2. Cardinality(F \ {i}) <= Cardinality(B(i))
    BY <1>2, <1>3, <2>1, FS_Subset
  <2>3. Cardinality(F \ {i}) = Cardinality(F) - 1
    BY <1>7, FS_RemoveElement
  <2>4. Cardinality(B(i)) \in Nat /\ Cardinality(B(i)) < PageSize
    BY <1>2, <1>3
  <2> HIDE DEF B, F
  <2> QED BY <1>7, <2>2, <2>3, <2>4, PageAssumption
<1>9. ASSUME F # X PROVE Cardinality(F) = PageSize
  <2> DEFINE Y == X \ F
  <2>1. Y \in SUBSET X /\ Y # {} /\ IsFiniteSet(Y)
    BY <1>2, <1>9, FS_Subset
  <2>2. Y \in SUBSET Sent /\ \A i, j \in Y : i.key = j.key => i = j
    OBVIOUS
  <2>3. PICK i \in Y : \A j \in Y \ {i} : Later(j, i)
    <3> HIDE DEF Y
    <3> QED BY <2>1, <2>2, EndsExist
  <2>4. B(i) \in SUBSET F
    BY <1>1, <2>3 DEF Later, After, Past
  <2>5. ~ (Cardinality(B(i)) < PageSize)
    BY <1>2, <2>1, <2>3
  <2>6. PageSize <= Cardinality(F) /\ F # {}
    <3>1. Cardinality(B(i)) <= Cardinality(F)
      BY <1>7, <2>4, FS_Subset
    <3>2. Cardinality(B(i)) \in Nat
      BY <1>3
    <3> HIDE DEF B, F
    <3>3. PageSize <= Cardinality(F)
      BY <1>7, <2>5, <3>1, <3>2, PageAssumption
    <3> QED BY <3>3, PageAssumption, FS_EmptySet
  <2>7. PICK k \in F : \A j \in F \ {k} : Later(k, j)
    <3>1. F \in SUBSET Sent /\ \A j, l \in F : j.key = l.key => j = l
      BY <1>7
    <3> HIDE DEF F
    <3> QED BY <1>7, <2>6, <3>1, EndsExist
  <2> QED BY <1>7, <1>8, <2>6, <2>7, PageAssumption
<1>10. ASSUME Cardinality(F) = PageSize
       PROVE  \E i \in F : \A j \in F \ {i} : Later(i, j)
  <2>1. F # {}
    BY <1>10, FS_EmptySet, PageAssumption
  <2>2. F \in SUBSET Sent /\ \A j, l \in F : j.key = l.key => j = l
    BY <1>7
  <2> HIDE DEF F
  <2> QED BY <1>7, <2>1, <2>2, EndsExist
<1>11. \A i \in F, j \in X \ F : Later(j, i)
  BY <1>2, <1>4, <1>6
<1> HIDE DEF F
<1> QED BY <1>7, <1>9, <1>10, <1>11 DEF F

-----------------------------------------------------------------------------
(* What a transaction, and what a swap, make of the database.              *)

LEMMA DueIs ==
  /\ Range(<<>>) = {}
  /\ \A d : Range(<<d>>) = {d}
BY DEF Range

Grows(S, T) ==
  /\ T.line = S.line /\ T.rev = S.rev + 1 /\ Settled(T)
  /\ \A r \in Rows :
       \/ T.row[r] = S.row[r] \/ T.row[r].rev = T.rev
       \/ T.row[r] = Never /\ T.gone[Owner(r)].rev = T.rev
  /\ \A s \in Sessions :
       T.gone[s] = S.gone[s] \/ (S.gone[s] = Never /\ T.gone[s].rev = T.rev)

(* What was read at an earlier revision may have been overtaken.           *)
LEMMA ReadsStay ==
  ASSUME NEW S \in Stores, NEW T \in Stores, Grows(S, T),
         NEW u \in Int, u <= S.rev, NEW i \in Sent, Read(i, S, u)
  PROVE  Read(i, T, u)
<1>1. 1 <= u /\ i.at.rev \in 1 .. u /\ S.rev \in Nat
  BY DEF Read, Stores
<1>2. ASSUME NEW s \in Sessions, i.key = Tombstone(s), i.at = S.gone[s]
      PROVE  i.at = T.gone[s]
  BY <1>1, <1>2 DEF Grows, Never
<1>3. ASSUME NEW r \in Rows, i.at = S.row[r] \/ u < S.row[r].rev
      PROVE  \/ i.at = T.row[r] \/ u < T.row[r].rev
             \/ T.row[r] = Never /\ u < T.gone[Owner(r)].rev
  BY <1>1, <1>3 DEF Grows
<1>4. ASSUME NEW r \in Rows, S.row[r] = Never, u < S.gone[Owner(r)].rev
      PROVE  T.row[r] = Never /\ u < T.gone[Owner(r)].rev
  BY <1>1, <1>4, KeysAreApart DEF Grows, Never, Settled
<1> QED BY <1>1, <1>2, <1>3, <1>4 DEF Read

(* What a transaction writes has its revision.                             *)
LEMMA ItemsStay ==
  ASSUME NEW S \in Stores, NEW T \in Stores, Grows(S, T),
         NEW i \in Items(T), i.at.rev \in 1 .. S.rev
  PROVE  i \in Items(S)
<1>1. i \in Sent /\ i = [key |-> i.key, at |-> i.at] /\ S.rev \in Nat
  BY ItemsAreFinite DEF Sent, Stores
<1>2. CASE i.key \in Rows /\ i.at = T.row[i.key]
  <2>1. i.at = S.row[i.key]
    BY <1>1, <1>2 DEF Grows, Never
  <2> QED BY <1>1, <1>2, <2>1, ItemsAreFinite
<1>3. ASSUME NEW s \in Sessions, i.key = Tombstone(s), i.at = T.gone[s]
      PROVE  i \in Items(S)
  <2>1. i.at = S.gone[s]
    BY <1>1, <1>3 DEF Grows
  <2> QED BY <1>1, <1>3, <2>1, ItemsAreFinite
<1> QED BY <1>2, <1>3, ItemsAreFinite

LEMMA MatchStays ==
  ASSUME NEW S \in Stores, NEW T \in Stores, Grows(S, T),
         cursor \in Nat, cursor <= S.rev, Matches(S)
  PROVE  Matches(T)
<1>1. S.rev \in Nat
  BY DEF Stores
<1>2. ASSUME NEW r \in Rows, T.row[r].rev \in 1 .. cursor
      PROVE  copy[r] = [at |-> T.row[r], deleted |-> FALSE]
  BY <1>1, <1>2 DEF Grows, Matches, Never
<1>3. ASSUME NEW r \in Rows, T.row[r] = Never,
             T.gone[Owner(r)].rev <= cursor
      PROVE  copy[r].at = Never \/ copy[r].deleted
  <2>1. Owner(r) \in Sessions
    BY KeysAreApart
  <2>2. S.row[r] = Never
    BY <1>1, <1>3 DEF Grows, Never
  <2>3. S.gone[Owner(r)] = T.gone[Owner(r)]
    BY <1>1, <1>3, <2>1 DEF Grows
  <2> QED BY <1>3, <2>2, <2>3 DEF Matches
<1> QED BY <1>2, <1>3 DEF Matches

-----------------------------------------------------------------------------
(* The store.                                                              *)

LEMMA SyncInitSInv == SyncInit => SInv
<1> SUFFICES ASSUME SyncInit PROVE SInv
  OBVIOUS
<1> USE SessionsAssumption, BoundsAssumption DEF SyncInit
<1>1. /\ Lines = 1 .. 1 + MaxSwaps /\ 1 \in Lines /\ 0 \in 0 .. MaxRev
      /\ MaxRev \in Nat /\ Never \in Stamps
  BY DEF Lines, Stamps
<1>2. SyncTypeOK
  <2>1. store \in Stores
    BY <1>1 DEF Fresh, Stores
  <2>2. shared \in [Lines -> [Lines -> 0 .. MaxRev]]
    BY <1>1
  <2>3. copy \in [Rows -> [at : Stamps, deleted : BOOLEAN]]
    BY <1>1
  <2>4. feed \in [phase : {"off", "ready", "paging", "wait"},
                  sent : -1 .. MaxRev, from : Int \X Int]
    BY <1>1 DEF Off
  <2>5. origin \in [line : Lines \cup {0, Mixed}, rev : 0 .. MaxRev]
    BY <1>1
  <2> QED BY <1>1, <2>1, <2>2, <2>3, <2>4, <2>5 DEF SyncTypeOK
<1>3. SharedInv /\ BackupInv
  BY <1>1 DEF SharedInv, BackupInv
<1>4. \A S \in Databases : Settled(S)
  BY KeysAreApart DEF Databases, Settled, Fresh
<1>5. CopyInv
  BY <1>1 DEF CopyInv, GoesOnIn, Continues, Fresh
<1>6. DueInv /\ FeedInv
  BY DueIs DEF DueInv, FeedInv, Off
<1> QED BY <1>2, <1>3, <1>4, <1>5, <1>6 DEF SInv

(* What a transaction adds is beyond the cursor, the batch that waits and  *)
(* the round that goes on.                                                 *)
LEMMA GrowthSInv ==
  ASSUME SInv, store' \in Stores, Grows(store, store'), unrung' \in BOOLEAN,
         UNCHANGED <<backup, shared, feed, bell, batch, due, link, full, read,
                     drops>>
  PROVE  SInv'
<1> USE DEF SInv, read
<1>1. /\ store \in Stores /\ store.rev \in Nat /\ store'.rev = store.rev + 1
      /\ store'.line = store.line /\ cursor \in Nat /\ origin.rev \in Nat
      /\ backup \in SUBSET Stores
  <2>1. store \in Stores /\ backup \in SUBSET Stores
    BY DEF SyncTypeOK
  <2>2. store.rev \in Nat
    BY <2>1 DEF Stores
  <2>3. cursor \in Nat /\ origin.rev \in Nat
    BY DEF SyncTypeOK
  <2> QED BY <2>1, <2>2, <2>3 DEF Grows
<1>2. Databases = {store} \cup backup /\ Databases' = {store'} \cup backup
  BY DEF Databases
<1>3. SyncTypeOK'
  BY DEF SyncTypeOK
<1>4. SharedInv'
  BY <1>1 DEF SharedInv
<1>5. BackupInv'
  <2>1. \A b \in backup : b.rev \in Nat
    BY <1>1 DEF Stores
  <2> QED BY <1>1, <2>1 DEF BackupInv
<1>6. \A S \in Databases' : Settled(S)'
  BY <1>2 DEF Grows, Settled
<1>7. CopyInv'
  <2>1. GoesOnIn(store.line)' <=> GoesOnIn(store.line)
    BY <1>1 DEF GoesOnIn
  <2>2. ASSUME Continues(store, origin)' PROVE Matches(store)'
    <3>1. Continues(store, origin) /\ cursor <= store.rev
      BY <1>1, <2>1, <2>2 DEF Continues, CopyInv, GoesOnIn, Lines, Mixed
    <3>2. Matches(store)
      BY <1>2, <3>1 DEF CopyInv
    <3>3. Matches(store')
      BY <1>1, <3>1, <3>2, MatchStays
    <3> QED BY <3>3 DEF Matches
  <2>3. ASSUME NEW S \in backup, Continues(S, origin)' PROVE Matches(S)'
    <3>1. Continues(S, origin)
      BY <2>3 DEF Continues
    <3> QED BY <1>2, <3>1 DEF CopyInv, Matches
  <2>4. cursor' <= origin'.rev /\ origin'.line <= store'.line
    BY <1>1 DEF CopyInv
  <2>5. GoesOnIn(store.line)' => origin'.rev <= store'.rev
    BY <1>1, <2>1 DEF CopyInv
  <2>6. origin'.rev = 0 /\ origin'.line \in Lines =>
          \A r \in Rows : copy'[r].at = Never \/ copy'[r].deleted
    BY DEF CopyInv
  <2> QED BY <1>2, <2>2, <2>3, <2>4, <2>5, <2>6 DEF CopyInv
<1>8. DueInv'
  <2> SUFFICES ASSUME NEW d \in Range(due) PROVE DueOK(d)'
    BY DEF DueInv
  <2>1. DueOK(d) /\ d \in Batches
    BY DueIs DEF DueInv, SyncTypeOK
  <2>2. d.rev \in Nat /\ d.read.rev \in Nat /\ d.rows \subseteq Sent
        /\ d.read.line \in Lines
    BY <2>1 DEF Batches, Points
  <2>3. ASSUME Continues(store, d.read)'
        PROVE  /\ \A i \in d.rows : Read(i, store', d.rev)
               /\ \A i \in Items(store') :
                    i.at.rev \in Base + 1 .. d.rev => i \in d.rows
    <3>1. Continues(store, d.read) /\ d.rev <= store.rev
      BY <1>1, <2>1, <2>2, <2>3 DEF Continues, DueOK
    <3>2. /\ \A i \in d.rows : Read(i, store, d.rev)
          /\ \A i \in Items(store) :
               i.at.rev \in Base + 1 .. d.rev => i \in d.rows
      BY <1>2, <2>1, <3>1 DEF DueOK
    <3>3. \A i \in d.rows : Read(i, store', d.rev)
      BY <1>1, <2>2, <3>1, <3>2, ReadsStay
    <3>4. ASSUME NEW i \in Items(store'), i.at.rev \in Base + 1 .. d.rev
          PROVE  i \in d.rows
      <4>1. i.at.rev \in 1 .. store.rev
        BY <1>1, <2>2, <3>1, <3>4 DEF Base
      <4> QED BY <1>1, <3>2, <3>4, <4>1, ItemsStay
    <3> QED BY <3>3, <3>4
  <2>4. ASSUME NEW S \in backup, Continues(S, d.read)'
        PROVE  /\ \A i \in d.rows : Read(i, S, d.rev)
               /\ \A i \in Items(S) :
                    i.at.rev \in Base + 1 .. d.rev => i \in d.rows
    <3>1. Continues(S, d.read)
      BY <2>4 DEF Continues
    <3> QED BY <1>2, <2>1, <3>1 DEF DueOK
  <2>5. /\ d.rev <= d.read.rev /\ d.read.line <= store'.line
        /\ \A i \in d.rows : i.at.rev \in 1 .. d.rev
        /\ d.read.rev <= shared'[store'.line][d.read.line] =>
             d.read.rev <= store'.rev
        /\ GoesOnIn(d.read.line)' => origin'.rev <= d.read.rev
    BY <1>1, <2>1, <2>2 DEF DueOK, GoesOnIn
  <2>6. Base' = Base
    BY DEF Base
  <2> QED BY <1>2, <2>3, <2>4, <2>5, <2>6 DEF DueOK, Read, Items
<1>9. FeedInv'
  <2>1. Start' = Start /\ Start[1] \in Nat /\ Start[2] = LastKey
    BY <1>1 DEF Start, Base, SyncTypeOK, Batches
  <2> SUFFICES ASSUME feed.phase # "off"
               PROVE  /\ feed.sent <= store'.rev
                      /\ \A i \in batch : Read(i, store', feed.sent)
                      /\ \A i \in Items(store') :
                           After(Past(i), Start) /\ ~ After(Past(i), feed.from)
                             => i \in batch
    BY <2>1 DEF FeedInv, Read, Items
  <2>2. feed.sent \in Int /\ feed.sent <= store.rev /\ batch \subseteq Sent
    BY DEF FeedInv, SyncTypeOK
  <2>3. \A i \in batch : Read(i, store', feed.sent)
    BY <1>1, <2>2, ReadsStay DEF FeedInv
  <2>4. ASSUME NEW i \in Items(store'), After(Past(i), Start),
               ~ After(Past(i), feed.from)
        PROVE  i \in batch
    <3>1. i \in Sent /\ i.key <= LastKey /\ i.key \in Int /\ i.at.rev \in Nat
      BY ItemsAreFinite DEF Sent, Stamps, Never
    <3>2. i.at.rev > 0
      BY <2>1, <2>4, <3>1, KeysAreApart DEF After, Past
    <3>3. i.at.rev <= store.rev
      BY <1>1, <2>2, <2>4, <3>1 DEF FeedInv, After, Past
    <3>4. i \in Items(store)
      BY <1>1, <3>1, <3>2, <3>3, ItemsStay
    <3> QED BY <2>4, <3>4 DEF FeedInv
  <2> QED BY <1>1, <2>2, <2>3, <2>4
<1> QED BY <1>3, <1>4, <1>5, <1>6, <1>7, <1>8, <1>9

LEMMA FieldsOfStore ==
  ASSUME NEW id \in Lines, NEW line \in Lines, NEW rev \in 0 .. MaxRev,
         NEW row \in [Rows -> Stamps], NEW gone \in [Sessions -> Stamps]
  PROVE  [id |-> id, line |-> line, rev |-> rev, row |-> row, gone |-> gone]
           \in Stores
BY DEF Stores

LEMMA WriteSInv ==
  ASSUME SInv, NEW ws \in SUBSET Rows, Write(ws)
  PROVE  SInv'
<1> USE DEF Write
<1>1. /\ store \in Stores /\ store.rev \in Nat /\ store.rev + 1 \in 1 .. MaxRev
      /\ Next1 \in Stamps /\ Next1.rev = store.rev + 1
      /\ Settled(store)
  <2>1. store \in Stores /\ Settled(store)
    BY DEF SInv, SyncTypeOK, Databases
  <2>2. /\ store.rev \in 0 .. MaxRev /\ store.line \in Lines
        /\ MaxRev \in Nat
    BY <2>1, BoundsAssumption DEF Stores
  <2>3. Next1 = [rev |-> store.rev + 1, line |-> store.line]
    BY DEF Next1
  <2> QED BY <2>1, <2>2, <2>3 DEF Stamps
<1>2. store' \in Stores
  <2> DEFINE row == [r \in Rows |-> IF r \in ws THEN Next1 ELSE store.row[r]]
  <2>1. row \in [Rows -> Stamps]
    BY <1>1 DEF Stores
  <2>2. store' = [id |-> store.id, line |-> store.line, rev |-> store.rev + 1,
                  row |-> row, gone |-> store.gone]
    BY <1>1 DEF Stores
  <2>3. store.rev + 1 \in 0 .. MaxRev
    BY <1>1, BoundsAssumption
  <2>4. /\ store.id \in Lines /\ store.line \in Lines
        /\ store.gone \in [Sessions -> Stamps]
    BY <1>1 DEF Stores
  <2> HIDE DEF row, Write
  <2> QED BY <2>1, <2>2, <2>3, <2>4, FieldsOfStore
<1>3. /\ store'.line = store.line /\ store'.rev = store.rev + 1
      /\ store'.gone = store.gone
      /\ \A r \in Rows :
           store'.row[r] = IF r \in ws THEN Next1 ELSE store.row[r]
  BY <1>1 DEF Stores
<1>4. ASSUME NEW r \in ws PROVE store.gone[Owner(r)] = Never
  <2>1. r \in Rows /\ Owner(r) \in Sessions /\ Owner(Owner(r)) = Owner(r)
    BY KeysAreApart
  <2>2. CASE Owner(r) \in ws
    BY <2>1, <2>2
  <2>3. CASE Owner(r) \notin ws
    <3>1. r \in Threads /\ Owner(r) = SessionOf(r)
      BY <2>1, <2>3 DEF Owner
    <3>2. store.row[Owner(r)] # Never
      BY <2>3, <3>1 DEF Present, Never
    <3> QED BY <1>1, <2>1, <3>2, KeysAreApart DEF Settled
  <2> QED BY <2>2, <2>3
<1>5. Settled(store')
  BY <1>1, <1>3, <1>4 DEF Settled
<1>6. Grows(store, store')
  BY <1>1, <1>3, <1>5 DEF Grows
<1> QED BY <1>2, <1>6, GrowthSInv DEF wire

LEMMA RemoveSessionSInv ==
  ASSUME SInv, NEW s \in Sessions, RemoveSession(s)
  PROVE  SInv'
<1> USE DEF RemoveSession
<1>1. /\ store \in Stores /\ store.rev \in Nat /\ store.rev + 1 \in 1 .. MaxRev
      /\ Next1 \in Stamps /\ Next1.rev = store.rev + 1
      /\ Settled(store)
  <2>1. store \in Stores /\ Settled(store)
    BY DEF SInv, SyncTypeOK, Databases
  <2>2. /\ store.rev \in 0 .. MaxRev /\ store.line \in Lines
        /\ MaxRev \in Nat
    BY <2>1, BoundsAssumption DEF Stores
  <2>3. Next1 = [rev |-> store.rev + 1, line |-> store.line]
    BY DEF Next1
  <2> QED BY <2>1, <2>2, <2>3 DEF Stamps
<1>2. store' \in Stores
  <2> DEFINE row == [r \in Rows |->
                  IF Owner(r) = s THEN Never ELSE store.row[r]]
  <2>1. row \in [Rows -> Stamps]
    BY <1>1 DEF Stores, Stamps
  <2> DEFINE gone == [store.gone EXCEPT ![s] = Next1]
  <2>2. store' = [id |-> store.id, line |-> store.line, rev |-> store.rev + 1,
                  row |-> row, gone |-> gone]
    BY <1>1 DEF Stores
  <2>3. store.rev + 1 \in 0 .. MaxRev
    BY <1>1, BoundsAssumption
  <2>4. store.id \in Lines /\ store.line \in Lines
    BY <1>1 DEF Stores
  <2>5. gone \in [Sessions -> Stamps]
    BY <1>1 DEF Stores
  <2> HIDE DEF row, gone, RemoveSession
  <2> QED BY <2>1, <2>2, <2>3, <2>4, <2>5, FieldsOfStore
<1>3. /\ store'.line = store.line /\ store'.rev = store.rev + 1
      /\ \A r \in Rows :
           store'.row[r] = IF Owner(r) = s THEN Never ELSE store.row[r]
      /\ store'.gone[s] = Next1
      /\ \A q \in Sessions \ {s} : store'.gone[q] = store.gone[q]
  BY <1>1 DEF Stores
<1>4. store.gone[s] = Never
  <2>1. store.row[s] # Never
    BY DEF Present, Never
  <2> QED BY <1>1, <2>1, KeysAreApart DEF Settled
<1>5. Settled(store')
  BY <1>1, <1>3, KeysAreApart DEF Settled
<1>6. Grows(store, store')
  BY <1>1, <1>3, <1>4, <1>5 DEF Grows
<1> QED BY <1>2, <1>6, GrowthSInv DEF wire

(* Nothing happens to the databases and the copy.                          *)
LEMMA CopyStays ==
  ASSUME SInv, UNCHANGED <<store, backup, shared, read>>
  PROVE  /\ SharedInv' /\ BackupInv' /\ CopyInv'
         /\ \A S \in Databases' : Settled(S)'
<1> USE DEF SInv, read
<1>1. SharedInv'
  BY DEF SharedInv
<1>2. BackupInv'
  BY DEF BackupInv
<1>3. Databases' = Databases
  BY DEF Databases
<1>4. \A S \in Databases' : Settled(S)'
  BY <1>3 DEF Settled
<1>5. CopyInv'
  <2>1. ASSUME NEW S \in Databases, Continues(S, origin)' PROVE Matches(S)'
    BY <2>1 DEF CopyInv, Continues, Matches
  <2> QED BY <1>3, <2>1 DEF CopyInv, GoesOnIn
<1> QED BY <1>1, <1>2, <1>4, <1>5

(* And nothing to the batch that waits, or there is none any more.         *)
LEMMA DueOKStays ==
  ASSUME UNCHANGED <<store, backup, shared, full, read>>, NEW d, DueOK(d)
  PROVE  DueOK(d)'
<1> USE DEF read
<1>1. Databases' = Databases /\ Base' = Base
  BY DEF Databases, Base
<1>2. \A S \in Databases : Continues(S, d.read)' => Continues(S, d.read)
  BY DEF Continues
<1> QED BY <1>1, <1>2 DEF DueOK, GoesOnIn, Read, Items

LEMMA DueStays ==
  ASSUME DueInv, UNCHANGED <<store, backup, shared, read>>,
         (UNCHANGED <<due, full>>) \/ due' = <<>>
  PROVE  DueInv'
<1>1. CASE due' = <<>>
  BY <1>1, DueIs DEF DueInv
<1>2. CASE UNCHANGED <<due, full>>
  BY <1>2, DueOKStays DEF DueInv
<1> QED BY <1>1, <1>2

LEMMA RingSInv == SInv /\ Ring => SInv'
<1> SUFFICES ASSUME SInv, Ring PROVE SInv'
  OBVIOUS
<1> USE DEF Ring
<1>1. SyncTypeOK'
  BY DEF SInv, SyncTypeOK, read
<1>2. DueInv'
  BY DueStays DEF SInv
<1>3. FeedInv'
  BY DEF SInv, FeedInv, read, Start, Base, Read
<1> QED BY <1>1, <1>2, <1>3, CopyStays DEF SInv

LEMMA BackUpSInv == SInv /\ BackUp => SInv'
<1> SUFFICES ASSUME SInv, BackUp PROVE SInv'
  OBVIOUS
<1> USE DEF BackUp, SInv, wire, read
<1>1. SyncTypeOK'
  BY DEF SyncTypeOK
<1>2. SharedInv'
  BY DEF SharedInv
<1>3. BackupInv'
  <2>1. store.line \in Int /\ store.rev \in Int
    BY DEF SyncTypeOK, Stores, Lines
  <2> QED BY <2>1 DEF BackupInv
<1>4. Databases' = {store} /\ store \in Databases
  BY DEF Databases
<1>5. \A S \in Databases' : Settled(S)'
  BY <1>4 DEF Settled
<1>6. CopyInv'
  <2>1. Continues(store, origin)' => Matches(store)'
    BY <1>4 DEF CopyInv, Continues, Matches
  <2> QED BY <1>4, <2>1 DEF CopyInv, GoesOnIn, Continues, Matches
<1>7. DueInv'
  <2> SUFFICES ASSUME NEW d \in Range(due) PROVE DueOK(d)'
    BY DEF DueInv
  <2>1. DueOK(d)
    BY DEF DueInv
  <2>2. Continues(store, d.read)' => Continues(store, d.read)
    BY DEF Continues
  <2> QED BY <1>4, <2>1, <2>2 DEF DueOK, GoesOnIn, Read, Items, Base, Continues
<1>8. FeedInv'
  BY DEF FeedInv, Start, Base, Read
<1> QED BY <1>1, <1>2, <1>3, <1>5, <1>6, <1>7, <1>8

(* After a swap the line is new.  It goes on from what a restored backup   *)
(* goes on from, or from nothing.                                          *)
LEMMA SwapSInv ==
  ASSUME SInv, NEW before \in [Lines -> 0 .. MaxRev], NEW new \in Stores,
         Swap(new, before), new.line = store.line + 1, Settled(new),
         UNCHANGED read, backup' \subseteq backup,
         \A a \in Lines : store.line < a => before[a] = 0,
         \A a, b \in Lines :
           b <= store.line =>
             before[a] <= before[b] \/ shared[a][b] <= before[b],
         \A p \in Points : p.rev <= before[p.line] /\ p.line <= store.line =>
           /\ p.rev <= new.rev
           /\ \/ \E S \in backup : /\ Continues(S, p)
                                   /\ new.row = S.row /\ new.gone = S.gone
              \/ p.rev = 0
  PROVE  SInv'
<1> USE DEF SInv, read
<1> DEFINE L == store.line + 1
<1>1. /\ store' = new /\ store'.line = L /\ L \in Lines /\ store.line \in Lines
      /\ \A a \in Lines : a # L => shared'[a] = shared[a]
      /\ shared'[L] = [before EXCEPT ![L] = MaxRev]
      /\ feed' = Off /\ unrung' = FALSE /\ bell' = FALSE
      /\ UNCHANGED <<batch, due, link, full, drops>>
  BY DEF Swap, SyncTypeOK, Stores, Lines
<1>2. /\ MaxRev \in Nat /\ \A a \in Lines : a \in Int
      /\ \A a, b \in Lines : shared[a][b] \in 0 .. MaxRev
      /\ \A a \in Lines : before[a] \in 0 .. MaxRev
  <2>1. shared \in [Lines -> [Lines -> 0 .. MaxRev]]
    BY DEF SyncTypeOK
  <2>2. \A a \in Lines : a \in Int
    BY DEF Lines
  <2> QED BY <2>1, <2>2, BoundsAssumption
<1>3. SyncTypeOK'
  <2>1. shared' \in [Lines -> [Lines -> 0 .. MaxRev]]
    <3> DEFINE newRow == [before EXCEPT ![L] = MaxRev]
    <3>1. newRow \in [Lines -> 0 .. MaxRev]
      <4>1. newRow = [a \in Lines |-> IF a = L THEN MaxRev ELSE before[a]]
        OBVIOUS
      <4>2. MaxRev \in 0 .. MaxRev
        BY <1>2
      <4> QED BY <1>2, <4>1, <4>2
    <3>2. shared \in [Lines -> [Lines -> 0 .. MaxRev]]
      BY DEF SyncTypeOK
    <3>3. shared' = [shared EXCEPT ![L] = newRow]
      BY DEF Swap
    <3> HIDE DEF newRow
    <3> QED BY <1>1, <3>1, <3>2, <3>3
  <2>2. feed' \in [phase : {"off", "ready", "paging", "wait"},
                   sent : -1 .. MaxRev, from : Int \X Int]
    BY <1>1, <1>2 DEF Off
  <2> QED BY <1>1, <2>1, <2>2 DEF SyncTypeOK
<1>4. SharedInv'
  <2>1. ASSUME NEW a \in Lines, NEW b \in Lines
        PROVE  /\ a = b => shared'[a][b] = MaxRev
               /\ a # b /\ (a < b \/ L < a) => shared'[a][b] = 0
    <3>1. CASE a # L
      BY <1>1, <1>2, <3>1 DEF SharedInv
    <3>2. CASE a = L /\ b # L
      <4>1. shared'[a][b] = before[b]
        BY <1>1, <3>2
      <4>2. L < b => before[b] = 0
        BY <1>1, <1>2
      <4> QED BY <1>2, <1>1, <3>2, <4>1, <4>2
    <3>3. CASE a = L /\ b = L
      BY <1>1, <1>2, <3>3
    <3> QED BY <3>1, <3>2, <3>3
  <2>2. ASSUME NEW a \in Lines, NEW b \in Lines, NEW c \in Lines
        PROVE  \/ shared'[a][b] <= shared'[a][c]
               \/ shared'[b][c] <= shared'[a][c]
    <3> DEFINE x(n, m) == shared'[n][m]
    <3>1. /\ \A n, m \in Lines : x(n, m) \in 0 .. MaxRev
          /\ \A n, m \in Lines : n # L => x(n, m) = shared[n][m]
          /\ \A m \in Lines : m # L => x(L, m) = before[m]
          /\ x(L, L) = MaxRev
          /\ \A n \in Lines : n # L => x(n, L) = 0
      <4>1. \A n, m \in Lines : shared'[n][m] \in 0 .. MaxRev
        BY <1>3 DEF SyncTypeOK
      <4>2. \A n \in Lines : n # L => x(n, L) = 0
        BY <1>1, <1>2 DEF SharedInv
      <4> QED BY <1>1, <1>2, <4>1, <4>2
    <3> HIDE DEF x
    <3>2. x(a, b) <= x(a, c) \/ x(b, c) <= x(a, c)
      <4>1. CASE a # L /\ b # L
        BY <1>2, <2>2, <3>1, <4>1 DEF SharedInv
      <4>2. CASE a # L /\ b = L
        BY <1>2, <2>2, <3>1, <4>2
      <4>3. CASE a = L /\ b = L
        BY <1>2, <2>2, <3>1, <4>3
      <4>4. CASE a = L /\ b # L /\ c = L
        BY <1>2, <2>2, <3>1, <4>4
      <4>5. CASE a = L /\ b # L /\ c # L
        <5>1. CASE c <= store.line
          <6>1. before[b] <= before[c] \/ shared[b][c] <= before[c]
            BY <2>2, <5>1
          <6> QED BY <1>1, <1>2, <2>2, <3>1, <4>5, <5>1, <6>1
        <5>2. CASE store.line < c
          <6>1. before[c] = 0 /\ (b # c => shared[b][c] = 0 \/ c < b)
            BY <1>1, <1>2, <2>2, <5>2 DEF SharedInv
          <6>2. b = c \/ c < b => before[b] = 0
            BY <1>1, <1>2, <2>2, <5>2
          <6> QED BY <1>1, <1>2, <2>2, <3>1, <4>5, <5>2, <6>1, <6>2
        <5> QED BY <1>1, <1>2, <5>1, <5>2
      <4> QED BY <4>1, <4>2, <4>3, <4>4, <4>5
    <3> QED BY <3>2 DEF x
  <2> QED BY <1>1, <2>1, <2>2 DEF SharedInv
<1>5. \A b \in backup :
        b.line \in Lines /\ b.line < L /\ shared'[b.line] = shared[b.line]
  <2>1. \A b \in backup : b.line \in Lines
    BY DEF SyncTypeOK, Stores
  <2>2. \A b \in backup : b.line <= store.line
    BY DEF BackupInv
  <2> QED BY <1>1, <1>2, <2>1, <2>2
<1>6. BackupInv'
  BY <1>1, <1>2, <1>5 DEF BackupInv
<1>7. Databases' \subseteq {new} \cup backup /\ backup \subseteq Databases
  BY <1>1 DEF Databases
<1>8. \A S \in Databases' : Settled(S)'
  BY <1>7 DEF Databases, Settled
<1>9. ASSUME NEW p, p.line \in Lines, p.rev \in 0 .. MaxRev,
             p.line <= store.line, p.rev <= shared'[L][p.line]
      PROVE  /\ p.rev <= new.rev
             /\ \/ \E S \in backup : /\ Continues(S, p)
                                     /\ new.row = S.row /\ new.gone = S.gone
                \/ p.rev = 0
  <2>1. [line |-> p.line, rev |-> p.rev] \in Points
    BY <1>9 DEF Points
  <2>2. p.rev <= before[p.line]
    BY <1>1, <1>2, <1>9
  <2> QED BY <1>9, <2>1, <2>2 DEF Continues
<1>10. \A S \in backup : \A p : Continues(S, p)' => Continues(S, p)
  BY <1>5 DEF Continues
<1>11. CopyInv'
  <2>1. /\ cursor \in Nat /\ cursor <= origin.rev /\ origin.line <= store.line
        /\ origin.rev \in 0 .. MaxRev
    BY DEF CopyInv, SyncTypeOK
  <2>2. origin.line \in Lines \/ origin.line \in {0, Mixed}
    BY DEF SyncTypeOK
  <2>3. GoesOnIn(store.line)' => origin'.rev <= store'.rev
    BY <1>1, <1>9, <2>1, <2>2 DEF GoesOnIn
  <2>4. ASSUME Continues(new, origin)' PROVE Matches(new)'
    <3>1. \/ \E S \in backup : /\ Continues(S, origin)
                               /\ new.row = S.row /\ new.gone = S.gone
          \/ origin.rev = 0
      BY <1>1, <1>9, <2>1, <2>4 DEF Continues
    <3>2. CASE origin.rev = 0
      <4>1. cursor = 0 /\ origin.line \in Lines
        BY <2>1, <2>4, <3>2 DEF Continues
      <4>2. \A r \in Rows : copy[r].at = Never \/ copy[r].deleted
        BY <3>2, <4>1 DEF CopyInv
      <4> QED BY <4>1, <4>2 DEF Matches
    <3>3. ASSUME NEW S \in backup, Continues(S, origin),
                 new.row = S.row, new.gone = S.gone
          PROVE  Matches(new)'
      BY <1>7, <3>3 DEF CopyInv, Matches
    <3> QED BY <3>1, <3>2, <3>3
  <2>5. ASSUME NEW S \in backup, Continues(S, origin)' PROVE Matches(S)'
    BY <1>7, <1>10, <2>5 DEF CopyInv, Matches
  <2>6. origin'.line <= store'.line
    BY <1>1, <1>2, <2>1, <2>2 DEF Mixed
  <2>7. \A S \in Databases' : Continues(S, origin)' => Matches(S)'
    BY <1>7, <2>4, <2>5
  <2> QED BY <2>3, <2>6, <2>7 DEF CopyInv
<1>12. DueInv'
  <2> SUFFICES ASSUME NEW d \in Range(due) PROVE DueOK(d)'
    BY <1>1 DEF DueInv
  <2>1. DueOK(d) /\ d \in Batches
    BY DueIs DEF DueInv, SyncTypeOK
  <2>2. /\ d.rev \in Nat /\ d.read.line \in Lines
        /\ d.read.rev \in 0 .. MaxRev /\ d.rows \subseteq Sent
        /\ d.rev <= d.read.rev /\ d.read.line <= store.line
        /\ \A i \in d.rows : i.at.rev \in 1 .. d.rev
    BY <2>1 DEF Batches, Points, DueOK
  <2>3. Base' = Base /\ Base \in Nat
    BY <1>1 DEF Base, SyncTypeOK
  <2> DEFINE Has(S) ==
        /\ \A i \in d.rows : Read(i, S, d.rev)
        /\ \A i \in Items(S) : i.at.rev \in Base + 1 .. d.rev => i \in d.rows
  <2>4. ASSUME Continues(new, d.read)' PROVE Has(new)
    <3>1. \/ \E S \in backup : /\ Continues(S, d.read)
                               /\ new.row = S.row /\ new.gone = S.gone
          \/ d.read.rev = 0
      BY <1>1, <1>9, <2>2, <2>4 DEF Continues
    <3>2. CASE d.read.rev = 0
      <4>1. d.rev = 0 /\ d.rows = {}
        BY <2>2, <3>2
      <4> QED BY <2>3, <4>1
    <3>3. ASSUME NEW S \in backup, Continues(S, d.read),
                 new.row = S.row, new.gone = S.gone
          PROVE  Has(new)
      BY <1>7, <2>1, <3>3 DEF DueOK, Read, Items
    <3> QED BY <3>1, <3>2, <3>3
  <2>5. ASSUME NEW S \in backup, Continues(S, d.read)' PROVE Has(S)
    BY <1>7, <1>10, <2>1, <2>5 DEF DueOK
  <2>6. \A S \in Databases' : Continues(S, d.read)' => Has(S)
    BY <1>7, <2>4, <2>5
  <2>7. /\ d.read.line <= store'.line
        /\ d.read.rev <= shared'[store'.line][d.read.line] =>
             d.read.rev <= store'.rev
    <3>1. d.read.line <= L
      BY <1>1, <1>2, <2>2
    <3>2. d.read.rev <= shared'[L][d.read.line] => d.read.rev <= new.rev
      BY <1>9, <2>2
    <3> QED BY <1>1, <3>1, <3>2
  <2>8. GoesOnIn(d.read.line)' => origin'.rev <= d.read.rev
    BY <1>1, <1>2, <2>1, <2>2 DEF GoesOnIn, DueOK
  <2> QED BY <2>2, <2>3, <2>6, <2>7, <2>8 DEF DueOK, Read, Items
<1>13. FeedInv'
  BY <1>1 DEF FeedInv, Off
<1> QED BY <1>3, <1>4, <1>6, <1>8, <1>11, <1>12, <1>13

LEMMA RecreateSInv == SInv /\ Recreate => SInv'
<1> SUFFICES ASSUME SInv, Recreate PROVE SInv'
  OBVIOUS
<1> DEFINE new == Fresh(store.line + 1)
           before == [a \in Lines |-> 0]
<1>1. /\ Swap(new, before) /\ UNCHANGED <<backup, read>>
      /\ store.line <= MaxSwaps
  BY DEF Recreate, Swap
<1>2. store.line + 1 \in Lines /\ MaxRev \in Nat /\ Never \in Stamps
  <2>1. store.line \in Lines
    BY DEF SInv, SyncTypeOK, Stores
  <2>2. store.line + 1 \in Lines
    BY <1>1, <2>1, BoundsAssumption DEF Lines
  <2> QED BY <2>2, BoundsAssumption DEF Stamps
<1>3. new \in Stores /\ new.line = store.line + 1 /\ Settled(new)
  <2>1. /\ [r \in Rows |-> Never] \in [Rows -> Stamps]
        /\ [s \in Sessions |-> Never] \in [Sessions -> Stamps]
        /\ 0 \in 0 .. MaxRev
    BY <1>2
  <2>2. new \in Stores
    BY <1>2, <2>1, FieldsOfStore DEF Fresh
  <2> QED BY <2>2, KeysAreApart DEF Fresh, Settled
<1>4. before \in [Lines -> 0 .. MaxRev]
  BY <1>2
<1>5. \A p \in Points :
        p.rev <= before[p.line] => p.rev <= new.rev /\ p.rev = 0
  BY <1>2 DEF Points, Fresh
<1> HIDE DEF new
<1>6. \A a, b \in Lines : before[a] = 0 /\ before[a] <= before[b]
  OBVIOUS
<1> HIDE DEF before
<1> QED BY <1>1, <1>3, <1>4, <1>5, <1>6, SwapSInv

LEMMA RestoreSInv == SInv /\ Restore => SInv'
<1> SUFFICES ASSUME SInv, NEW old \in backup,
                    Swap([old EXCEPT !.line = store.line + 1],
                         [a \in Lines |->
                            Smaller(shared[old.line][a], old.rev)]),
                    backup' = {}
             PROVE  SInv'
  BY DEF Restore
<1> DEFINE new == [old EXCEPT !.line = store.line + 1]
           before == [a \in Lines |-> Smaller(shared[old.line][a], old.rev)]
<1>1. /\ Swap(new, before) /\ UNCHANGED read /\ store.line <= MaxSwaps
      /\ backup' \subseteq backup
  BY DEF Swap
<1>2. /\ store \in Stores /\ old \in Stores /\ old.rev \in 0 .. MaxRev
      /\ old.line \in Lines /\ MaxRev \in Nat /\ \A a \in Lines : a \in Nat
      /\ \A a, b \in Lines : shared[a][b] \in 0 .. MaxRev
  <2>1. /\ store \in Stores /\ old \in Stores
        /\ shared \in [Lines -> [Lines -> 0 .. MaxRev]]
    BY DEF SInv, SyncTypeOK
  <2>2. old.rev \in 0 .. MaxRev /\ old.line \in Lines
    BY <2>1 DEF Stores
  <2>3. \A a \in Lines : a \in Nat
    BY DEF Lines
  <2> QED BY <2>1, <2>2, <2>3, BoundsAssumption
<1>3. store.line \in Lines /\ store.line + 1 \in Lines
  BY <1>1, <1>2, BoundsAssumption DEF Stores, Lines
<1>4. /\ new \in Stores /\ new.line = store.line + 1
      /\ new.rev = old.rev /\ new.row = old.row /\ new.gone = old.gone
  BY <1>2, <1>3 DEF Stores
<1>5. Settled(new)
  BY <1>4 DEF SInv, Databases, Settled
<1>6. before \in [Lines -> 0 .. MaxRev]
  BY <1>2 DEF Smaller
<1>7. old.line <= store.line
  BY DEF SInv, BackupInv
<1>8. ASSUME NEW a \in Lines, store.line < a PROVE before[a] = 0
  <2>1. shared[old.line][a] = 0
    BY <1>2, <1>3, <1>7, <1>8 DEF SInv, SharedInv
  <2> QED BY <1>2, <2>1 DEF Smaller
<1>9. ASSUME NEW a \in Lines, NEW b \in Lines
      PROVE  before[a] <= before[b] \/ shared[a][b] <= before[b]
  <2>1. \/ shared[old.line][a] <= shared[old.line][b]
        \/ shared[a][b] <= shared[old.line][b]
    BY <1>2 DEF SInv, SharedInv
  <2> QED BY <1>2, <2>1 DEF Smaller
<1>10. ASSUME NEW p \in Points, p.rev <= before[p.line]
       PROVE  p.rev <= new.rev /\ Continues(old, p)
  <2>1. p.line \in Lines /\ p.rev \in 0 .. MaxRev
    BY DEF Points
  <2> QED BY <1>2, <1>4, <1>10, <2>1 DEF Smaller, Continues
<1> HIDE DEF new, before
<1> QED BY <1>1, <1>4, <1>5, <1>6, <1>8, <1>9, <1>10, SwapSInv

-----------------------------------------------------------------------------
(* The stream and its connection.                                          *)

LEMMA FromIsMoved ==
  ASSUME NEW from \in Int \X Int,
         NEW f \in [phase : {"off", "ready", "paging", "wait"},
                    sent : -1 .. MaxRev, from : Int \X Int]
  PROVE  [f EXCEPT !.from = from]
           \in [phase : {"off", "ready", "paging", "wait"},
               sent : -1 .. MaxRev, from : Int \X Int]
OBVIOUS

LEMMA FromIs ==
  ASSUME SInv
  PROVE  /\ Start = <<Start[1], LastKey>> /\ Start[1] \in Nat /\ Base \in Nat
         /\ LastKey \in Nat
         /\ feed.from = <<feed.from[1], feed.from[2]>>
         /\ feed.from[1] \in Int /\ feed.from[2] \in Int
         /\ due = <<>> => Start = <<Base, LastKey>>
<1>1. Base \in Nat
  BY DEF SInv, SyncTypeOK, Base
<1>2. due # <<>> => due[1].rev \in Nat
  BY DEF SInv, SyncTypeOK, Batches
<1>3. feed.from \in Int \X Int
  BY DEF SInv, SyncTypeOK
<1> QED BY <1>1, <1>2, <1>3, KeysAreApart DEF Start

LEMMA RoundSInv == SInv /\ Round => SInv'
<1> SUFFICES ASSUME SInv, Round PROVE SInv'
  OBVIOUS
<1>1. /\ UNCHANGED <<db, bell, batch, due, link, full, read, drops>>
      /\ feed.phase = "ready"
      /\ \/ feed' = [feed EXCEPT !.phase = "wait"]
         \/ feed' = [feed EXCEPT !.phase = "paging", !.sent = store.rev]
  BY DEF Round
<1>2. store.rev \in 0 .. MaxRev
  BY DEF SInv, SyncTypeOK, Stores
<1>3. SyncTypeOK'
  <2>1. feed' \in [phase : {"off", "ready", "paging", "wait"},
                   sent : -1 .. MaxRev, from : Int \X Int]
    <3>1. store.rev \in -1 .. MaxRev
      BY <1>2, BoundsAssumption
    <3> QED BY <1>1, <3>1 DEF SInv, SyncTypeOK
  <2> QED BY <1>1, <2>1 DEF SInv, SyncTypeOK, db, read
<1>4. DueInv'
  BY <1>1, DueStays DEF SInv, db
<1>5. FeedInv'
  <2>1. Start' = Start
    BY <1>1 DEF Start, Base, read
  <2>2. /\ feed'.from = feed.from /\ feed'.phase \in {"wait", "paging"}
        /\ feed'.sent = feed.sent \/ feed'.sent = store.rev
        /\ feed'.phase = "paging" => feed'.sent = store.rev
    BY <1>1 DEF SInv, SyncTypeOK
  <2>3. /\ link = "following" /\ feed.from = Start /\ batch = {}
        /\ feed.sent <= store.rev
    BY <1>1 DEF SInv, FeedInv
  <2> QED BY <1>1, <1>2, <2>1, <2>2, <2>3 DEF FeedInv, db
<1> QED BY <1>1, <1>3, <1>4, <1>5, CopyStays DEF SInv, db

LEMMA HearSInv == SInv /\ Hear => SInv'
<1> SUFFICES ASSUME SInv, Hear PROVE SInv'
  OBVIOUS
<1> USE DEF Hear
<1>1. /\ feed'.from = feed.from /\ feed'.sent = feed.sent
      /\ feed'.phase = "ready" /\ feed.phase = "wait"
  BY DEF SInv, SyncTypeOK
<1>2. SyncTypeOK'
  BY DEF SInv, SyncTypeOK, db, read
<1>3. DueInv'
  BY DueStays DEF SInv, db
<1>4. FeedInv'
  <2>1. Start' = Start
    BY DEF Start, Base, read
  <2>2. /\ link = "following" /\ feed.from = Start /\ batch = {}
        /\ feed.sent <= store.rev
    BY <1>1 DEF SInv, FeedInv
  <2> QED BY <1>1, <2>1, <2>2 DEF FeedInv, db
<1> QED BY <1>2, <1>3, <1>4, CopyStays DEF SInv, db

LEMMA AskSInv == SInv /\ Ask => SInv'
<1> SUFFICES ASSUME SInv, Ask PROVE SInv'
  OBVIOUS
<1> USE DEF Ask
<1>1. feed.phase = "off" /\ due = <<>>
  BY DEF SInv, FeedInv
<1>2. SyncTypeOK'
  BY DEF SInv, SyncTypeOK, db, wire, read, NeedsFull
<1>3. DueInv'
  BY <1>1, DueStays DEF SInv, db, wire
<1>4. FeedInv'
  BY <1>1 DEF FeedInv, wire
<1> QED BY <1>2, <1>3, <1>4, CopyStays DEF SInv, db

LEMMA SubscribeSInv == SInv /\ Subscribe => SInv'
<1> SUFFICES ASSUME SInv, Subscribe PROVE SInv'
  OBVIOUS
<1> USE DEF Subscribe
<1>1. /\ feed' = [phase |-> "ready", sent |-> -1, from |-> <<Base, LastKey>>]
      /\ Base \in Nat /\ Base' = Base /\ LastKey \in Nat
  BY FromIs DEF Off, Base, read
<1>2. store.rev \in Nat /\ MaxRev \in Nat
  BY BoundsAssumption DEF SInv, SyncTypeOK, Stores
<1>3. SyncTypeOK'
  <2>1. feed' \in [phase : {"off", "ready", "paging", "wait"},
                   sent : -1 .. MaxRev, from : Int \X Int]
    BY <1>1, <1>2
  <2> QED BY <2>1 DEF SInv, SyncTypeOK, db, read
<1>4. DueInv'
  BY DueStays DEF SInv, db
<1>5. FeedInv'
  <2>1. Start' = <<Base, LastKey>>
    BY <1>1 DEF Start
  <2>2. /\ feed'.phase = "ready" /\ feed'.sent = -1
        /\ feed'.from = <<Base, LastKey>>
    <3> HIDE DEF Subscribe
    <3> QED BY <1>1
  <2> QED BY <1>2, <2>1, <2>2 DEF FeedInv, db
<1> QED BY <1>3, <1>4, <1>5, CopyStays DEF SInv, db

(* Nothing of a connection that has ended is used.                         *)
LEMMA DisconnectSInv ==
  ASSUME SInv, Disconnect, drops' \in Nat
  PROVE  SInv'
<1> USE DEF Disconnect
<1>1. SyncTypeOK'
  <2>1. feed' \in [phase : {"off", "ready", "paging", "wait"},
                   sent : -1 .. MaxRev, from : Int \X Int]
    BY BoundsAssumption DEF Off
  <2> QED BY <2>1 DEF SInv, SyncTypeOK, db, read
<1>2. DueInv'
  BY DueStays DEF SInv, db
<1>3. FeedInv'
  BY DEF FeedInv, Off
<1> QED BY <1>1, <1>2, <1>3, CopyStays DEF SInv, db

LEMMA StutterSInv == SInv /\ UNCHANGED syncVars => SInv'
<1> SUFFICES ASSUME SInv, UNCHANGED syncVars PROVE SInv'
  OBVIOUS
<1> USE DEF syncVars, db, wire, read
<1>1. SyncTypeOK'
  BY DEF SInv, SyncTypeOK
<1>2. DueInv'
  BY DueStays DEF SInv
<1>3. FeedInv'
  BY DEF SInv, FeedInv, Start, Base, Read
<1> QED BY <1>1, <1>2, <1>3, CopyStays DEF SInv

(* A page goes on from the one before it; the last completes the batch.    *)
LEMMA PageSInv == SInv /\ Page => SInv'
<1> SUFFICES ASSUME SInv, Page PROVE SInv'
  OBVIOUS
<1> DEFINE X == InRange(feed.from, feed.sent)
           F == FirstOf(X)
           final == CHOOSE i \in F :
                     \A j \in F \ {i} :
                       After(<<i.at.rev, i.key>>, <<j.at.rev, j.key>>)
           b == [rows |-> batch \cup F, rev |-> feed.sent, id |-> store.id,
                 read |-> [line |-> store.line, rev |-> store.rev]]
<1>1. /\ feed.phase = "paging" /\ due = <<>>
      /\ UNCHANGED <<db, bell, link, full, read, drops>>
      /\ \/ /\ Cardinality(F) = PageSize /\ batch' = batch \cup F
            /\ feed' = [feed EXCEPT !.from = Past(final)] /\ due' = due
         \/ /\ Cardinality(F) # PageSize /\ batch' = {} /\ due' = <<b>>
            /\ feed' = [feed EXCEPT !.phase = "wait",
                                    !.from = <<feed.sent, LastKey>>]
  BY DEF Page
<1>2. /\ store \in Stores /\ store.rev \in 0 .. MaxRev /\ store.id \in Lines
      /\ store.line \in Lines
      /\ feed.sent \in 0 .. MaxRev /\ feed.sent <= store.rev
      /\ link = "following"
  <2>1. store \in Stores /\ feed.sent \in -1 .. MaxRev
    BY DEF SInv, SyncTypeOK
  <2>2. feed.sent >= 0 /\ feed.sent <= store.rev /\ link = "following"
    BY <1>1 DEF SInv, FeedInv
  <2> QED BY <2>1, <2>2, BoundsAssumption DEF Stores
<1>3. /\ Start = <<Base, LastKey>> /\ Base \in Nat /\ LastKey \in Nat
      /\ feed.from = <<feed.from[1], feed.from[2]>>
      /\ feed.from[1] \in Int /\ feed.from[2] \in Int
      /\ feed.from = Start \/ feed.from[1] \in 1 .. feed.sent
  BY <1>1, FromIs DEF SInv, FeedInv
<1>4. /\ X \subseteq Items(store) /\ X \subseteq Sent /\ IsFiniteSet(X)
      /\ \A i, j \in X : i.key = j.key => i = j
      /\ \A i \in Items(store) :
           /\ i.key <= LastKey /\ i.key \in Int /\ i.at.rev \in Nat
           /\ i \in X <=> i.at.rev <= feed.sent /\ After(Past(i), feed.from)
  <2>1. X \subseteq Items(store)
    BY DEF InRange
  <2>2. \A i \in Items(store) : i.at.rev \in Nat
    BY <1>2, ItemsAreFinite DEF Sent, Stamps, Never
  <2>3. \A i \in Items(store) :
          i \in X <=> i.at.rev <= feed.sent /\ After(Past(i), feed.from)
    BY DEF InRange, Past
  <2>4. IsFiniteSet(X)
    BY <1>2, <2>1, ItemsAreFinite, FS_Subset
  <2> HIDE DEF X
  <2> QED BY <1>2, <2>1, <2>2, <2>3, <2>4, ItemsAreFinite
<1>5. /\ F \subseteq X
      /\ Cardinality(F) # PageSize => F = X
      /\ Cardinality(F) = PageSize =>
           \E i \in F : \A j \in F \ {i} : Later(i, j)
      /\ \A i \in F, j \in X \ F : Later(j, i)
  <2> HIDE DEF X
  <2> QED BY <1>4, PageIsFirst
<1>6. \A i \in X : i.at.rev \in 1 .. feed.sent
  <2> SUFFICES ASSUME NEW i \in X PROVE i.at.rev \in 1 .. feed.sent
    OBVIOUS
  <2> HIDE DEF X
  <2>1. /\ i.at.rev \in Nat /\ i.key \in Int /\ i.key <= LastKey
        /\ i.at.rev <= feed.sent /\ After(Past(i), feed.from)
    BY <1>4
  <2> QED BY <1>2, <1>3, <2>1 DEF After, Past
<1>7. \A i \in X : Read(i, store, feed.sent)
  <2> SUFFICES ASSUME NEW i \in X PROVE Read(i, store, feed.sent)
    OBVIOUS
  <2>1. i \in Items(store) /\ i.at.rev \in 1 .. feed.sent
    BY <1>4, <1>6
  <2> HIDE DEF X
  <2> QED BY <1>2, <2>1, ItemsAreFinite DEF Read
<1>8. \A i \in batch \cup F : Read(i, store, feed.sent)
  BY <1>1, <1>5, <1>7 DEF SInv, FeedInv
<1>9. batch \cup F \in SUBSET Sent
  BY <1>4, <1>5 DEF SInv, SyncTypeOK
<1>10. \A i \in Items(store) :
         After(Past(i), Start) => i \in batch \/ After(Past(i), feed.from)
  BY <1>1 DEF SInv, FeedInv
<1>11. CASE Cardinality(F) = PageSize
  <2>1. /\ final \in F /\ \A j \in F \ {final} : Later(final, j)
    BY <1>5, <1>11 DEF Later, Past
  <2>2. final \in X /\ final.at.rev \in 1 .. feed.sent /\ final.key \in Int
    BY <1>4, <1>5, <1>6, <2>1
  <2>3. /\ feed' = [feed EXCEPT !.from = Past(final)]
        /\ batch' = batch \cup F /\ due' = <<>>
    BY <1>1, <1>11
  <2> HIDE DEF X, F, final
  <2>4. SyncTypeOK'
    <3>1. Past(final) \in Int \X Int /\ final.at.rev \in Int
      BY <1>2, <2>2 DEF Past
    <3>2. feed \in [phase : {"off", "ready", "paging", "wait"},
                    sent : -1 .. MaxRev, from : Int \X Int]
      BY DEF SInv, SyncTypeOK
    <3>3. feed' \in [phase : {"off", "ready", "paging", "wait"},
                     sent : -1 .. MaxRev, from : Int \X Int]
      BY <2>3, <3>1, <3>2, FromIsMoved
    <3> QED BY <1>1, <1>9, <2>3, <3>3 DEF SInv, SyncTypeOK, db, read
  <2>5. DueInv'
    BY <1>1, <2>3, DueStays DEF SInv, db
  <2>6. FeedInv'
    <3>1. Start' = Start
      BY <1>1, <2>3 DEF Start, Base, read
    <3>2. /\ feed'.phase = "paging" /\ feed'.sent = feed.sent
          /\ feed'.from = Past(final) /\ feed'.from[1] = final.at.rev
      BY <1>1, <2>3 DEF SInv, SyncTypeOK, Past
    <3>3. ASSUME NEW i \in Items(store), After(Past(i), Start),
                 ~ After(Past(i), Past(final)), i \notin batch
          PROVE  i \in F
      <4>1. After(Past(i), feed.from)
        BY <1>10, <3>3
      <4>2. /\ i.at.rev \in Nat /\ i.key \in Int
            /\ final.at.rev \in Nat /\ final.at.rev <= feed.sent
        BY <1>2, <1>4, <2>2
      <4>3. i.at.rev <= feed.sent
        BY <1>2, <2>2, <3>3, <4>2 DEF After, Past
      <4>4. i \in X
        BY <1>4, <4>1, <4>3
      <4> QED BY <1>5, <2>1, <3>3, <4>4 DEF Later
    <3>4. \A i \in batch' : Read(i, store, feed.sent)
      BY <1>8, <2>3
    <3>5. \A i \in Items(store) :
            After(Past(i), Start) /\ ~ After(Past(i), feed'.from)
              => i \in batch'
      BY <2>3, <3>2, <3>3
    <3> QED BY <1>1, <1>2, <2>2, <2>3, <3>1, <3>2, <3>4, <3>5
            DEF FeedInv, db, Read
  <2> QED BY <1>1, <2>4, <2>5, <2>6, CopyStays DEF SInv, db
<1>12. CASE Cardinality(F) # PageSize
  <2>1. /\ feed' = [feed EXCEPT !.phase = "wait",
                                !.from = <<feed.sent, LastKey>>]
        /\ batch' = {} /\ due' = <<b>> /\ F = X
    BY <1>1, <1>5, <1>12
  <2>2. PICK d : d = b
    OBVIOUS
  <2>3. /\ d.rows = batch \cup F /\ d.rev = feed.sent /\ due' = <<d>>
        /\ d.read.line = store.line /\ d.read.rev = store.rev
        /\ d \in Batches
    BY <1>2, <1>9, <2>1, <2>2 DEF Batches, Points
  <2>4. \A i \in Items(store) :
          i.at.rev \in Base + 1 .. feed.sent => i \in batch \cup F
    <3> SUFFICES ASSUME NEW i \in Items(store),
                        i.at.rev \in Base + 1 .. feed.sent
                 PROVE  i \in batch \cup X
      BY <2>1
    <3> HIDE DEF X
    <3>1. After(Past(i), Start)
      BY <1>2, <1>3 DEF After, Past
    <3> QED BY <1>2, <1>4, <1>10, <3>1
  <2> HIDE DEF X, F, b
  <2>5. SyncTypeOK'
    <3>1. feed' \in [phase : {"off", "ready", "paging", "wait"},
                     sent : -1 .. MaxRev, from : Int \X Int]
      <4>1. feed' = [phase |-> "wait", sent |-> feed.sent,
                     from |-> <<feed.sent, LastKey>>]
        BY <2>1 DEF SInv, SyncTypeOK
      <4>2. feed.sent \in -1 .. MaxRev /\ feed.sent \in Int /\ LastKey \in Int
        BY <1>2, <1>3
      <4> QED BY <4>1, <4>2
    <3>2. due' # <<>> => due' = <<due'[1]>> /\ due'[1] \in Batches
      BY <2>3
    <3> QED BY <1>1, <2>1, <3>1, <3>2 DEF SInv, SyncTypeOK, db, read
  <2>6. DueOK(d)
    <3>1. \A i \in d.rows : i.at.rev \in 1 .. d.rev
      BY <1>8, <2>3 DEF Read
    <3>2. GoesOnIn(d.read.line) => origin.rev <= d.read.rev
      BY <2>3 DEF SInv, CopyInv
    <3>3. /\ \A i \in d.rows : Read(i, store, d.rev)
          /\ \A i \in Items(store) :
               i.at.rev \in Base + 1 .. d.rev => i \in d.rows
      BY <1>8, <2>3, <2>4
    <3>4. ASSUME NEW S \in backup, Continues(S, d.read)
          PROVE  /\ \A i \in d.rows : Read(i, S, d.rev)
                 /\ \A i \in Items(S) :
                      i.at.rev \in Base + 1 .. d.rev => i \in d.rows
      <4>1. /\ store.rev <= S.rev
            /\ store.rev <= shared[S.line][store.line]
            /\ S.line <= store.line
            /\ S.line = store.line => S.rev <= store.rev
        BY <2>3, <3>4 DEF SInv, Continues, BackupInv
      <4>2. S \in Stores /\ S.rev \in Nat /\ S.line \in Lines
        <5>1. S \in Stores
          BY DEF SInv, SyncTypeOK
        <5> QED BY <5>1 DEF Stores
      <4>3. CASE S.line = store.line
        <5>1. S.row = store.row /\ S.gone = store.gone
          BY <1>2, <4>1, <4>2, <4>3 DEF SInv, BackupInv
        <5> QED BY <3>3, <5>1 DEF Read, Items
      <4>4. CASE S.line # store.line
        <5>1. shared[S.line][store.line] = 0
          BY <1>2, <4>1, <4>2, <4>4 DEF SInv, SharedInv, Lines
        <5>2. d.rev = 0
          BY <1>2, <2>3, <4>1, <5>1
        <5> QED BY <1>3, <3>1, <5>2
      <4> QED BY <4>3, <4>4
    <3>5. /\ d.rev <= d.read.rev /\ d.read.line <= store.line
          /\ d.read.rev <= store.rev
      BY <1>2, <2>3 DEF Lines
    <3> QED BY <3>1, <3>2, <3>3, <3>4, <3>5 DEF DueOK, Databases
  <2>7. DueInv'
    <3>1. DueOK(d)'
      BY <1>1, <2>6, DueOKStays DEF db
    <3>2. Range(due') = {d}
      BY <2>3, DueIs
    <3> QED BY <3>1, <3>2 DEF DueInv
  <2>8. FeedInv'
    <3>1. Start' = <<feed.sent, LastKey>>
      BY <2>3 DEF Start
    <3>2. /\ feed'.phase = "wait" /\ feed'.sent = feed.sent
          /\ feed'.from = <<feed.sent, LastKey>>
      BY <2>1 DEF SInv, SyncTypeOK
    <3> QED BY <1>1, <1>2, <2>1, <3>1, <3>2 DEF FeedInv, db
  <2> QED BY <1>1, <2>5, <2>7, <2>8, CopyStays DEF SInv, db
<1> QED BY <1>11, <1>12

-----------------------------------------------------------------------------
(* The client applies a batch.                                             *)

(* Where the batch of a database has a row, the copy gets it as it is.     *)
LEMMA ApplySInv ==
  ASSUME SInv, Apply
  PROVE  SInv'
<1>1. PICK b \in Range(due) :
        /\ copy' = Applied(b) /\ cursor' = b.rev /\ storeId' = b.id
        /\ full' = FALSE /\ due' = <<>>
        /\ origin' = IF full \/ GoesOnIn(b.read.line)
                     THEN b.read ELSE [b.read EXCEPT !.line = Mixed]
        /\ UNCHANGED <<db, feed, bell, batch, link, drops>>
  BY DEF Apply
<1>2. /\ due # <<>> /\ b = due[1] /\ b \in Batches /\ DueOK(b)
  <2>1. due # <<>>
    BY DueIs
  <2>2. due = <<due[1]>> /\ due[1] \in Batches
    BY <2>1 DEF SInv, SyncTypeOK
  <2>3. Range(due) = {due[1]}
    BY <2>2, DueIs
  <2> QED BY <2>1, <2>2, <2>3 DEF SInv, DueInv
<1>3. /\ b.rev \in 0 .. MaxRev /\ b.id \in Lines /\ b.rows \subseteq Sent
      /\ b.read \in Points /\ b.read.line \in Lines
      /\ b.read.rev \in 0 .. MaxRev
      /\ b.rev <= b.read.rev /\ b.read.line <= store.line
      /\ \A i \in b.rows : i.at.rev \in 1 .. b.rev
  BY <1>2 DEF Batches, Points, DueOK
<1>4. /\ store \in Stores /\ store.line \in Int
      /\ copy \in [Rows -> [at : Stamps, deleted : BOOLEAN]]
      /\ full \in BOOLEAN /\ cursor \in Nat /\ origin.rev \in 0 .. MaxRev
      /\ origin.line \in Lines \cup {0, Mixed} /\ MaxRev \in Nat
  <2>1. store \in Stores /\ store.line \in Lines
    BY DEF SInv, SyncTypeOK, Stores
  <2>2. store.line \in Int
    BY <2>1 DEF Lines
  <2> QED BY <2>1, <2>2, BoundsAssumption DEF SInv, SyncTypeOK
<1> DEFINE sent(r) == {i \in b.rows : i.key = r}
           removed(s) == \E i \in b.rows : i.key = Tombstone(s)
           one(r) == CHOOSE i \in sent(r) : TRUE
           ends(r) == copy[r].deleted \/ removed(Owner(r)) \/ full
<1>5. ASSUME NEW r \in Rows
      PROVE  copy'[r] =
               CASE sent(r) # {} -> [at |-> one(r).at, deleted |-> FALSE]
                 [] sent(r) = {} /\ copy[r].at # Never ->
                      [at |-> copy[r].at, deleted |-> ends(r)]
                 [] OTHER -> copy[r]
  <2>1. copy'[r] =
          CASE sent(r) # {} -> [at |-> one(r).at, deleted |-> FALSE]
            [] sent(r) = {} /\ copy[r].at # Never ->
                 [copy[r] EXCEPT !.deleted = @ \/ removed(Owner(r)) \/ full]
            [] OTHER -> copy[r]
    BY <1>1 DEF Applied
  <2>2. copy[r] \in [at : Stamps, deleted : BOOLEAN]
    BY <1>4
  <2> HIDE DEF sent, one, removed
  <2>3. [copy[r] EXCEPT !.deleted = @ \/ removed(Owner(r)) \/ full]
          = [at |-> copy[r].at, deleted |-> ends(r)]
    BY <2>2
  <2> HIDE DEF ends
  <2> QED BY <2>1, <2>3
<1>6. \A r \in Rows : sent(r) # {} =>
        \E i \in b.rows : /\ i.key = r
                          /\ copy'[r] = [at |-> i.at, deleted |-> FALSE]
  <2> TAKE r \in Rows
  <2> HAVE sent(r) # {}
  <2>1. one(r) \in b.rows /\ one(r).key = r
    OBVIOUS
  <2> HIDE DEF sent, one, ends
  <2>2. copy'[r] = [at |-> one(r).at, deleted |-> FALSE]
    BY <1>5
  <2> QED BY <2>1, <2>2
<1>7. \A r \in Rows :
        sent(r) = {} /\ copy[r].at = Never => copy'[r] = copy[r]
  <2> HIDE DEF sent, one, ends
  <2> QED BY <1>5
<1>8. \A r \in Rows : sent(r) = {} /\ copy[r].at # Never =>
        copy'[r] = [at |-> copy[r].at, deleted |-> ends(r)]
  <2> HIDE DEF sent, one, ends
  <2> QED BY <1>5
<1>9. \A r \in Rows : sent(r) = {} /\ copy[r].at # Never /\ ends(r) =>
        copy'[r] = [at |-> copy[r].at, deleted |-> TRUE]
  <2> TAKE r \in Rows
  <2> HAVE sent(r) = {} /\ copy[r].at # Never /\ ends(r)
  <2>1. ends(r) = TRUE
    OBVIOUS
  <2> HIDE DEF sent, ends
  <2> QED BY <1>8, <2>1
<1>10. \A r \in Rows : sent(r) = {} /\ copy[r].at # Never /\ ~ ends(r) =>
         copy'[r] = [at |-> copy[r].at, deleted |-> FALSE]
  <2> TAKE r \in Rows
  <2> HAVE sent(r) = {} /\ copy[r].at # Never /\ ~ ends(r)
  <2>1. ends(r) = FALSE
    OBVIOUS
  <2> HIDE DEF sent, ends
  <2> QED BY <1>8, <2>1
<1>11. copy' \in [Rows -> [at : Stamps, deleted : BOOLEAN]]
  <2>1. copy' = [r \in Rows |-> copy'[r]]
    BY <1>1 DEF Applied
  <2>2. ASSUME NEW r \in Rows
        PROVE  copy'[r] \in [at : Stamps, deleted : BOOLEAN]
    <3>1. copy[r] \in [at : Stamps, deleted : BOOLEAN]
      BY <1>4
    <3>2. \A i \in b.rows : i.at \in Stamps
      BY <1>3 DEF Sent
    <3>3. CASE sent(r) # {}
      <4>1. PICK i \in b.rows : copy'[r] = [at |-> i.at, deleted |-> FALSE]
        BY <1>6, <3>3
      <4> QED BY <3>2, <4>1
    <3>4. CASE sent(r) = {} /\ copy[r].at # Never
      <4>1. \/ copy'[r] = [at |-> copy[r].at, deleted |-> TRUE]
            \/ copy'[r] = [at |-> copy[r].at, deleted |-> FALSE]
        <5> HIDE DEF sent, ends
        <5> QED BY <1>9, <1>10, <3>4
      <4>2. copy[r].at \in Stamps
        BY <3>1
      <4>3. CASE copy'[r] = [at |-> copy[r].at, deleted |-> TRUE]
        BY <4>2, <4>3
      <4>4. CASE copy'[r] = [at |-> copy[r].at, deleted |-> FALSE]
        BY <4>2, <4>4
      <4> QED BY <4>1, <4>3, <4>4
    <3> HIDE DEF sent
    <3> QED BY <1>7, <3>1, <3>3, <3>4
  <2> QED BY <2>1, <2>2
<1>12. /\ origin'.rev = b.read.rev /\ origin'.rev \in 0 .. MaxRev
       /\ origin'.line \in {b.read.line, Mixed}
       /\ origin'.line # Mixed => /\ origin'.line = b.read.line
                                  /\ full \/ GoesOnIn(b.read.line)
       /\ origin' \in [line : Lines \cup {0, Mixed}, rev : 0 .. MaxRev]
  <2>1. \A p \in Points :
          /\ p \in [line : Lines \cup {0, Mixed}, rev : 0 .. MaxRev]
          /\ [p EXCEPT !.line = Mixed]
               \in [line : Lines \cup {0, Mixed}, rev : 0 .. MaxRev]
          /\ [p EXCEPT !.line = Mixed].rev = p.rev
          /\ [p EXCEPT !.line = Mixed].line = Mixed
    BY DEF Points
  <2> QED BY <1>1, <1>3, <2>1
<1>13. SyncTypeOK'
  BY <1>1, <1>3, <1>11, <1>12 DEF SInv, SyncTypeOK, db
<1>14. SharedInv' /\ BackupInv' /\ \A S \in Databases' : Settled(S)'
  BY <1>1 DEF SInv, SharedInv, BackupInv, Databases, Settled, db
<1>15. ASSUME NEW r \in Rows, sent(r) = {}, copy[r].at = Never \/ ends(r)
       PROVE  copy'[r].at = Never \/ copy'[r].deleted
  <2> HIDE DEF sent, ends
  <2>1. CASE copy[r].at = Never
    <3>1. copy'[r] = copy[r]
      BY <1>7, <1>15, <2>1
    <3> QED BY <2>1, <3>1
  <2>2. CASE copy[r].at # Never
    <3>1. copy'[r] = [at |-> copy[r].at, deleted |-> TRUE]
      BY <1>9, <1>15, <2>2
    <3>2. copy'[r].deleted = TRUE
      BY <3>1
    <3> QED BY <3>2
  <2> QED BY <2>1, <2>2
<1>16. ASSUME NEW r \in Rows, copy[r].at = Never \/ copy[r].deleted \/ full,
              sent(r) = {}
       PROVE  copy'[r].at = Never \/ copy'[r].deleted
  <2>1. copy[r].at = Never \/ ends(r)
    BY <1>16
  <2> HIDE DEF sent, ends
  <2> QED BY <1>16, <1>15, <2>1
<1>17. ASSUME NEW S \in Databases, Continues(S, b.read),
              full \/ GoesOnIn(b.read.line)
       PROVE  Matches(S)'
  <2>1. /\ \A i \in b.rows : Read(i, S, b.rev)
        /\ \A i \in Items(S) : i.at.rev \in Base + 1 .. b.rev => i \in b.rows
    BY <1>2, <1>17 DEF DueOK
  <2>2. S \in Stores /\ S.rev \in Nat /\ Settled(S) /\ S.line \in Lines
    <3>1. S \in Stores
      BY DEF SInv, SyncTypeOK, Databases
    <3> QED BY <3>1 DEF Stores, SInv
  <2>3. ~ full => Matches(S) /\ Base = cursor
    <3> SUFFICES ASSUME ~ full PROVE Continues(S, origin)
      BY DEF SInv, CopyInv, Base
    <3>1. /\ origin.line \in Lines
          /\ origin.rev <= shared[b.read.line][origin.line]
          /\ origin.rev <= b.read.rev
      BY <1>2, <1>4, <1>17 DEF GoesOnIn, DueOK
    <3>2. b.read.rev <= S.rev /\ b.read.rev <= shared[S.line][b.read.line]
      BY <1>17 DEF Continues
    <3>3. \A l, m \in Lines : shared[l][m] \in 0 .. MaxRev
      BY DEF SInv, SyncTypeOK
    <3>4. \/ shared[S.line][b.read.line] <= shared[S.line][origin.line]
          \/ shared[b.read.line][origin.line] <= shared[S.line][origin.line]
      BY <1>3, <2>2, <3>1 DEF SInv, SharedInv
    <3>5. origin.rev <= shared[S.line][origin.line]
      BY <1>3, <1>4, <2>2, <3>1, <3>2, <3>3, <3>4
    <3> QED BY <1>3, <1>4, <2>2, <3>1, <3>2, <3>5 DEF Continues
  <2>4. Base \in Nat
    BY <1>4 DEF Base
  <2>5. ASSUME NEW r \in Rows, NEW i \in b.rows, i.key = r
        PROVE  \/ i.at = S.row[r] \/ b.rev < S.row[r].rev
               \/ S.row[r] = Never /\ b.rev < S.gone[Owner(r)].rev
    <3>1. Read(i, S, b.rev)
      BY <2>1
    <3>2. \A s \in Sessions : i.key # Tombstone(s)
      BY <2>5, KeysAreApart
    <3> QED BY <2>5, <3>1, <3>2 DEF Read
  <2>6. ASSUME NEW s \in Sessions, NEW i \in b.rows, i.key = Tombstone(s)
        PROVE  S.gone[s].rev \in 1 .. b.rev
    <3>1. Read(i, S, b.rev)
      BY <2>1
    <3>2. i.key \notin Rows
      BY <2>6, KeysAreApart
    <3>3. ASSUME NEW q \in Sessions, i.key = Tombstone(q) PROVE q = s
      BY <2>6, <3>3, KeysAreApart DEF Tombstone, Sessions
    <3> QED BY <3>1, <3>2, <3>3 DEF Read
  <2>7. \A r \in Rows : /\ Owner(r) \in Sessions /\ S.row[r].rev \in Nat
                        /\ S.gone[Owner(r)].rev \in Nat
    BY <2>2, KeysAreApart DEF Stores, Stamps, Never
  <2>8. ASSUME NEW r \in Rows, S.row[r].rev \in 1 .. b.rev
        PROVE  copy'[r] = [at |-> S.row[r], deleted |-> FALSE]
    <3>1. \A i \in b.rows : i.key = r => i.at = S.row[r]
      <4>1. S.row[r] # Never /\ ~ (b.rev < S.row[r].rev)
        BY <1>3, <2>7, <2>8 DEF Never
      <4> QED BY <2>5, <4>1
    <3>2. CASE sent(r) # {}
      BY <1>6, <3>1, <3>2
    <3>3. CASE sent(r) = {}
      <4>1. ~ (S.row[r].rev \in Base + 1 .. b.rev)
        <5>1. [key |-> r, at |-> S.row[r]] \in Items(S)
          BY <2>2, ItemsAreFinite
        <5>2. [key |-> r, at |-> S.row[r]] \notin b.rows
          BY <3>3
        <5> QED BY <2>1, <5>1, <5>2
      <4>2. S.row[r].rev \in 1 .. Base
        BY <1>3, <2>4, <2>7, <2>8, <4>1
      <4>3. ~ full
        BY <2>4, <4>2 DEF Base
      <4>4. copy[r] = [at |-> S.row[r], deleted |-> FALSE]
        BY <2>3, <4>2, <4>3 DEF Matches
      <4>5. S.row[r] # Never
        BY <2>8 DEF Never
      <4>6. ~ removed(Owner(r))
        <5> SUFFICES ASSUME NEW i \in b.rows, i.key = Tombstone(Owner(r))
                     PROVE  FALSE
          OBVIOUS
        <5>1. S.gone[Owner(r)] # Never
          BY <2>6, <2>7 DEF Never
        <5> QED BY <2>2, <4>5, <5>1 DEF Settled
      <4>7. ~ ends(r) /\ copy[r].at # Never
        BY <4>3, <4>4, <4>5, <4>6
      <4> HIDE DEF sent, ends
      <4> QED BY <1>10, <3>3, <4>4, <4>7
    <3> QED BY <3>2, <3>3
  <2>9. ASSUME NEW r \in Rows, S.row[r] = Never, S.gone[Owner(r)].rev <= b.rev
        PROVE  copy'[r].at = Never \/ copy'[r].deleted
    <3>1. sent(r) = {}
      <4> SUFFICES ASSUME NEW i \in b.rows, i.key = r PROVE FALSE
        OBVIOUS
      <4>1. i.at # Never /\ ~ (b.rev < 0) /\ S.row[r].rev = 0
        BY <1>3, <2>9 DEF Never
      <4>2. ~ (b.rev < S.gone[Owner(r)].rev)
        BY <1>3, <2>7, <2>9
      <4> QED BY <2>5, <2>9, <4>1, <4>2
    <3>2. CASE S.gone[Owner(r)].rev \in Base + 1 .. b.rev
      <4>1. [key |-> Tombstone(Owner(r)), at |-> S.gone[Owner(r)]] \in b.rows
        BY <2>1, <2>2, <2>7, <3>2, ItemsAreFinite
      <4>2. removed(Owner(r)) /\ ends(r)
        BY <4>1
      <4> HIDE DEF sent, ends
      <4> QED BY <1>15, <3>1, <4>2
    <3>3. CASE ~ (S.gone[Owner(r)].rev \in Base + 1 .. b.rev)
      <4>1. S.gone[Owner(r)].rev <= Base
        BY <1>3, <2>4, <2>7, <2>9, <3>3
      <4>2. full \/ copy[r].at = Never \/ copy[r].deleted
        BY <2>3, <2>9, <4>1 DEF Matches
      <4> QED BY <1>16, <3>1, <4>2
    <3> QED BY <3>2, <3>3
  <2> QED BY <1>1, <2>8, <2>9 DEF Matches
<1>18. CopyInv'
  <2>1. cursor' <= origin'.rev /\ origin'.line <= store'.line
    <3>1. Mixed <= store.line
      <4>1. store.line \in Lines
        BY <1>4 DEF Stores
      <4> QED BY <4>1 DEF Lines, Mixed
    <3> QED BY <1>1, <1>3, <1>12, <3>1 DEF db
  <2>2. GoesOnIn(store.line)' => origin'.rev <= store'.rev
    <3> SUFFICES ASSUME GoesOnIn(store.line)' PROVE origin'.rev <= store.rev
      BY <1>1 DEF db
    <3>1. /\ origin'.line = b.read.line
          /\ shared[store.line][b.read.line] >= b.read.rev
      BY <1>1, <1>12 DEF GoesOnIn, db
    <3>2. shared[store.line][b.read.line] \in Int
      <4>1. store.line \in Lines
        BY <1>4 DEF Stores
      <4> QED BY <1>3, <4>1 DEF SInv, SyncTypeOK
    <3> QED BY <1>2, <1>3, <1>12, <3>1, <3>2 DEF DueOK
  <2>3. ASSUME origin'.rev = 0, origin'.line \in Lines, NEW r \in Rows
        PROVE  copy'[r].at = Never \/ copy'[r].deleted
    <3>1. b.rev = 0 /\ b.rows = {}
      BY <1>3, <1>12, <2>3
    <3>2. sent(r) = {}
      BY <3>1
    <3>3. full \/ copy[r].at = Never \/ copy[r].deleted
      <4> SUFFICES ASSUME ~ full PROVE copy[r].at = Never \/ copy[r].deleted
        OBVIOUS
      <4>1. origin'.line # Mixed
        BY <2>3 DEF Lines, Mixed
      <4>2. GoesOnIn(b.read.line)
        BY <1>12, <4>1
      <4>3. origin.rev = 0 /\ origin.line \in Lines
        BY <1>2, <1>4, <1>12, <2>3, <4>2 DEF DueOK, GoesOnIn
      <4> QED BY <4>3 DEF SInv, CopyInv
    <3> QED BY <1>16, <3>2, <3>3
  <2>4. ASSUME NEW S \in Databases, Continues(S, origin)' PROVE Matches(S)'
    <3>1. origin'.line = b.read.line /\ (full \/ GoesOnIn(b.read.line))
      BY <1>12, <2>4 DEF Continues, Lines, Mixed
    <3>2. Continues(S, b.read)
      BY <1>1, <1>3, <1>12, <2>4, <3>1 DEF Continues, db
    <3> QED BY <1>17, <3>1, <3>2
  <2>5. Databases' = Databases
    BY <1>1 DEF Databases, db
  <2> QED BY <2>1, <2>2, <2>3, <2>4, <2>5 DEF CopyInv
<1>19. DueInv'
  BY <1>1, DueIs DEF DueInv
<1>20. FeedInv'
  <2>1. Start' = Start
    BY <1>1, <1>2 DEF Start, Base
  <2> QED BY <1>1, <1>2, <2>1 DEF SInv, FeedInv, db, Read, Items
<1> QED BY <1>13, <1>14, <1>18, <1>19, <1>20 DEF SInv

-----------------------------------------------------------------------------
(* The copy is the store, up to the cursor, whatever was swapped.          *)

LEMMA SyncNextSInv == SInv /\ [SyncNext]_syncVars => SInv'
<1> SUFFICES ASSUME SInv, [SyncNext]_syncVars PROVE SInv'
  OBVIOUS
<1>1. CASE Reject \/ Lost \/ Drop
  <2>1. drops \in Nat
    BY DEF SInv, SyncTypeOK
  <2> QED BY <1>1, <2>1, DisconnectSInv DEF Reject, Lost, Drop
<1> QED BY <1>1, WriteSInv, RemoveSessionSInv, RingSInv, BackUpSInv,
           RecreateSInv, RestoreSInv, RoundSInv, PageSInv, HearSInv, AskSInv,
           SubscribeSInv, ApplySInv, StutterSInv
        DEF SyncNext

LEMMA SyncInvariance == SyncSpec => []SInv
BY SyncInitSInv, SyncNextSInv, PTL DEF SyncSpec

(* The store, its feed and the copy are what they are declared to be.      *)
THEOREM SyncTypeCorrect == SyncSpec => []SyncTypeOK
<1>1. SInv => SyncTypeOK
  BY DEF SInv
<1> QED BY <1>1, SyncInvariance, PTL

(* Up to its cursor the copy of the desktop server is the store, deletions *)
(* included, wherever the store goes on from all that the copy was read    *)
(* from.                                                                   *)
THEOREM CopiesAreCurrent == SyncSpec => []CopyIsCurrent
<1>1. SInv => CopyIsCurrent
  <2> SUFFICES ASSUME SInv, GoesOnIn(store.line) PROVE Matches(store)
    BY DEF CopyIsCurrent, Matches
  <2>1. /\ store.line \in Lines /\ origin.rev \in Nat
        /\ origin.line \in Lines \cup {0, Mixed}
        /\ shared[store.line] \in [Lines -> 0 .. MaxRev]
    BY DEF SInv, SyncTypeOK, Stores
  <2>2. Continues(store, origin)
    BY <2>1 DEF SInv, CopyInv, GoesOnIn, Continues
  <2> QED BY <2>2 DEF SInv, CopyInv, Databases
<1> QED BY <1>1, SyncInvariance, PTL
=============================================================================
