------------------------------- MODULE Clones -------------------------------
(***************************************************************************)
(* Clones into one folder of the host (codework/src/server/clones.ts): the *)
(* entry that tracks the clone, the fiber that runs git, the timer that    *)
(* forgets a finished one, and the calls of clients, which may disconnect. *)
(* One lock serialises the calls; the fiber, the timer and the user of the *)
(* folder do not ask for it.                                               *)
(*                                                                         *)
(* A pool of fibers stands for those that were ever forked.  Git, the      *)
(* network and the folder do what they like.  Progress is reduced to       *)
(* whether git is shown as stalled.                                        *)
(***************************************************************************)
CONSTANTS
  Clients,  \* calls of clients that are under way at once
  Jobs,     \* fibers that clone
  None      \* no fiber, and no holder of the lock

ASSUME ClonesAssumption == None \notin Jobs \cup Clients

VARIABLES
  phase,    \* of the tracked snapshot; untracked if there is no entry
  fiber,    \* the fiber the entry records, or None
  stalled,  \* the snapshot says that git is silent
  timer,    \* the retention of a finished clone runs
  job,      \* [Jobs -> where the fiber is; free before and after]
  folder,   \* missing, empty, partial, whole, or of the user: files that
            \* are foreign to git, or a repository
  lock,     \* the call that holds actionLock, or None
  op,       \* [Clients -> the call, or none]
  at        \* [Clients -> where it is]

entry     == <<phase, fiber, stalled>>
calls     == <<lock, op, at>>
cloneVars == <<entry, timer, job, folder, calls>>

Ops    == {"start", "cancel", "retry", "discard"}
Bare   == {"missing", "empty"}
(* Stages of a fiber at which git may be at work.                          *)
AtWork == {"cloning", "again", "cut"}
Live(j) == job[j] # "free"

CloneInit ==
  /\ phase = "untracked" /\ fiber = None /\ stalled = FALSE /\ timer = FALSE
  /\ job = [j \in Jobs |-> "free"] /\ folder \in {"missing", "empty"}
  /\ lock = None
  /\ op = [c \in Clients |-> "none"] /\ at = [c \in Clients |-> "idle"]

-----------------------------------------------------------------------------
(* The fiber of a clone, and git.                                          *)

Stage(j, s) == job' = [job EXCEPT ![j] = s]

(* prepareDestination looks at the folder again.                           *)
Enters(j) ==
  /\ job[j] = "forked"
  /\ Stage(j, IF folder \in Bare THEN "cloning" ELSE "refused")
  /\ UNCHANGED <<entry, timer, folder, calls>>

GitWrites(j) ==
  /\ job[j] \in AtWork /\ folder \in Bare /\ folder' = "partial"
  /\ UNCHANGED <<entry, timer, job, calls>>

GitCompletes(j) ==
  /\ job[j] \in AtWork /\ folder = "partial" /\ folder' = "whole"
  /\ Stage(j, IF job[j] = "cut" THEN "cut" ELSE "cloned")
  /\ UNCHANGED <<entry, timer, calls>>

(* Git takes away what it made, or not.  A refusal of SSH, which comes     *)
(* before there is anything to keep, is tried again over HTTPS.            *)
GitFails(j) ==
  /\ job[j] \in {"cloning", "again"}
  /\ \/ /\ folder' \in {folder, IF folder = "partial" THEN "empty" ELSE folder}
        /\ Stage(j, "refused")
     \/ /\ job[j] = "cloning" /\ folder \in Bare
        /\ folder' = folder /\ Stage(j, "again")
  /\ UNCHANGED <<entry, timer, calls>>

(* watchForStall marks it once, and a line of git takes the mark away.     *)
Stalls(j) ==
  /\ job[j] \in {"cloning", "again"} /\ phase # "untracked"
  /\ stalled' = ~stalled
  /\ UNCHANGED <<phase, fiber, timer, job, folder, calls>>

(* finish: the entry says how it ended.                                    *)
Finish(outcome) ==
  IF phase = "untracked" THEN UNCHANGED entry
  ELSE phase' = outcome /\ fiber' = None /\ stalled' = FALSE

(* onExit: git is gone, and so is the watch for stalls.                    *)
Ends(j) ==
  /\ \/ job[j] = "cloned" /\ Finish("done") /\ timer' = TRUE
        /\ UNCHANGED folder
     \/ job[j] = "refused" /\ Finish("failed") /\ UNCHANGED <<timer, folder>>
     \/ /\ job[j] = "cut" /\ Finish("cancelled") /\ UNCHANGED timer
        /\ folder' \in {folder, IF folder = "partial" THEN "empty" ELSE folder}
  /\ Stage(j, "free")
  /\ UNCHANGED calls

(* Faulty: the end of the fiber is awaited and not brought about.          *)
JoinOnly(j) == UNCHANGED job
(* Fiber.interrupt: one that has not run yet ends without onExit, and one  *)
(* that is through may or may not notice.                                  *)
Interrupt(j) ==
  \/ job[j] = "forked" /\ Stage(j, "free")
  \/ job[j] \in {"cloning", "again", "cloned", "refused"} /\ Stage(j, "cut")
  \/ job[j] \in {"cloned", "refused", "cut", "free"} /\ UNCHANGED job

(* The retention of a finished clone, which is longer than it takes a call *)
(* to hear that the fiber is over.                                         *)
Forgets ==
  /\ timer /\ timer' = FALSE
  /\ \A c \in Clients : at[c] # "awaiting"
  /\ phase' = "untracked" /\ fiber' = None /\ stalled' = FALSE
  /\ UNCHANGED <<job, folder, calls>>

(* The user puts files there, which may be a repository, or takes away     *)
(* what is complete.                                                       *)
UserWrites ==
  /\ folder \in Bare /\ folder' \in {"foreign", "repository"}
  /\ UNCHANGED <<entry, timer, job, calls>>

UserRemoves ==
  /\ folder \in {"foreign", "repository", "whole"} /\ folder' = "missing"
  /\ UNCHANGED <<entry, timer, job, calls>>

-----------------------------------------------------------------------------
(* The calls.                                                              *)

Move(c, place) == at' = [at EXCEPT ![c] = place] /\ UNCHANGED <<op, lock>>

Settles(c) ==
  /\ op' = [op EXCEPT ![c] = "none"] /\ at' = [at EXCEPT ![c] = "idle"]
  /\ lock' = IF lock = c THEN None ELSE lock

Calls(c) ==
  /\ op[c] = "none"
  /\ \E what \in Ops : op' = [op EXCEPT ![c] = what]
  /\ at' = [at EXCEPT ![c] = "waiting"]
  /\ UNCHANGED <<entry, timer, job, folder, lock>>

(* Faulty: the calls are not serialised.                                   *)
AcquiresNothing(c) ==
  /\ at[c] = "waiting" /\ Move(c, "holding")
  /\ UNCHANGED <<entry, timer, job, folder>>
Acquires(c) ==
  /\ at[c] = "waiting" /\ lock = None /\ lock' = c
  /\ at' = [at EXCEPT ![c] = "holding"]
  /\ UNCHANGED <<entry, timer, job, folder, op>>

(* start: an empty folder that nothing is cloned into is claimed, and from *)
(* there on the call is not interrupted.                                   *)
Claims(c) ==
  /\ at[c] = "holding" /\ op[c] = "start"
  /\ \/ /\ folder \in Bare /\ phase = "untracked"
        /\ phase' = "running" /\ timer' = FALSE
        /\ Move(c, "claimed") /\ UNCHANGED <<fiber, stalled>>
     \/ /\ folder \notin Bare \/ phase # "untracked"
        /\ Settles(c) /\ UNCHANGED <<entry, timer>>
  /\ UNCHANGED <<job, folder>>

(* launch: a fiber is forked and recorded in one go.                       *)
Launch ==
  \E j \in Jobs \ {fiber} :
    /\ ~Live(j) /\ Stage(j, "forked") /\ fiber' = j

(* The folder is there, or is made; if that fails the claim is given up.   *)
Launches(c) ==
  /\ at[c] = "claimed" /\ Settles(c)
  /\ \/ /\ Launch /\ folder' = IF folder = "missing" THEN "empty" ELSE folder
        /\ UNCHANGED phase
     \/ folder = "missing" /\ phase' = "untracked"
        /\ UNCHANGED <<job, fiber, folder>>
  /\ UNCHANGED <<stalled, timer>>

(* The entry is taken away, and the timer with it.                         *)
Remove ==
  phase' = "untracked" /\ fiber' = None /\ stalled' = FALSE /\ timer' = FALSE

(* Faulty: a clone that finished meanwhile is not told from another.       *)
ReviewBlindly(c) ==
  Move(c, "emptying") /\ UNCHANGED <<entry, timer>>
(* What a call that has stopped the fiber finds.  A complete checkout is   *)
(* the user's; a fiber that had not begun left the entry as it was.        *)
Review(c) ==
  \/ /\ phase = "done" /\ Settles(c)
     /\ IF op[c] = "discard" THEN Remove ELSE UNCHANGED <<entry, timer>>
  \/ /\ phase # "done" /\ Move(c, "emptying") /\ UNCHANGED timer
     /\ IF phase = "running" /\ op[c] = "cancel" THEN Finish("cancelled")
                                                 ELSE UNCHANGED entry

(* cancel takes one that runs in a fiber, discard whatever is tracked; the *)
(* fiber is interrupted.                                                   *)
Takes(c) ==
  IF op[c] = "cancel" THEN phase = "running" /\ fiber # None
                      ELSE phase # "untracked"

Stops(c) ==
  /\ at[c] = "holding" /\ op[c] \in {"cancel", "discard"}
  /\ \/ ~Takes(c) /\ Settles(c) /\ UNCHANGED <<entry, timer, job>>
     \/ /\ Takes(c) /\ fiber # None /\ Interrupt(fiber)
        /\ Move(c, "awaiting") /\ UNCHANGED <<entry, timer>>
     \/ Takes(c) /\ fiber = None /\ Review(c) /\ UNCHANGED job
  /\ UNCHANGED folder

(* The fiber is over.                                                      *)
Awaits(c) ==
  /\ at[c] = "awaiting" /\ \A j \in Jobs : j = fiber => ~Live(j)
  /\ Review(c) /\ UNCHANGED <<job, folder>>

(* retry takes one that failed or was cancelled.                           *)
Retries(c) ==
  /\ at[c] = "holding" /\ op[c] = "retry"
  /\ IF phase \in {"failed", "cancelled"} THEN Move(c, "emptying")
                                          ELSE Settles(c)
  /\ UNCHANGED <<entry, timer, job, folder>>

(* discardClone: files without a .git are refused, and whatever has one is *)
(* taken for the partial clone.  The removal may fail or leave no folder.  *)
Emptied == IF folder = "foreign" THEN {} ELSE {"empty"}
Spoiled == {folder} \cup IF folder = "foreign" THEN {} ELSE {"missing"}

(* The end of the three: a retry goes on only with an empty folder.        *)
Empties(c) ==
  /\ at[c] = "emptying" /\ Settles(c)
  /\ \/ /\ op[c] = "cancel" /\ folder' \in Emptied \cup Spoiled
        /\ UNCHANGED <<entry, timer, job>>
     \/ /\ op[c] = "discard" /\ folder' \in Emptied \cup Spoiled
        /\ Remove /\ UNCHANGED job
     \/ /\ op[c] = "retry" /\ folder' \in Spoiled
        /\ UNCHANGED <<entry, timer, job>>
     \/ /\ op[c] = "retry" /\ folder' \in Emptied
        /\ phase' = "running" /\ stalled' = FALSE /\ Launch
        /\ UNCHANGED timer

(* Faulty: a start is interrupted like the others.                         *)
DisconnectsClaim(c) ==
  /\ at[c] \in {"waiting", "holding", "claimed"}
  /\ Settles(c)
  /\ UNCHANGED <<entry, timer, job, folder>>
(* The client goes away: its call is interrupted where that is allowed,    *)
(* which is not once a start has claimed nor once a cancel has begun.      *)
Disconnects(c) ==
  /\ \/ /\ at[c] \in {"waiting", "holding"} /\ UNCHANGED folder
     \/ /\ at[c] = "awaiting" /\ op[c] = "discard" /\ UNCHANGED folder
     \/ /\ at[c] = "emptying" /\ op[c] \in {"retry", "discard"}
        /\ folder' \in Spoiled
  /\ Settles(c)
  /\ UNCHANGED <<entry, timer, job>>

-----------------------------------------------------------------------------
Clone(j) == Enters(j) \/ Ends(j)
Git(j)   == GitWrites(j) \/ GitCompletes(j) \/ GitFails(j) \/ Stalls(j)
Call(c)  ==
  \/ Claims(c) \/ Launches(c) \/ Stops(c) \/ Awaits(c) \/ Retries(c)
  \/ Empties(c)

CloneNext ==
  \/ \E j \in Jobs : Clone(j) \/ Git(j)
  \/ Forgets \/ UserWrites \/ UserRemoves
  \/ \E c \in Clients : Calls(c) \/ Acquires(c) \/ Call(c) \/ Disconnects(c)

(* Fibers go on, the timer runs out, and the lock is given in turn.  Git   *)
(* may hang for ever, but not once it was killed.                          *)
CloneSpec ==
  /\ CloneInit /\ [][CloneNext]_cloneVars
  /\ \A j \in Jobs : WF_cloneVars(Clone(j))
  /\ WF_cloneVars(Forgets)
  /\ \A c \in Clients : SF_cloneVars(Acquires(c)) /\ WF_cloneVars(Call(c))

-----------------------------------------------------------------------------
CloneTypeOK ==
  /\ phase \in {"untracked", "running", "failed", "cancelled", "done"}
  /\ fiber \in Jobs \cup {None} /\ stalled \in BOOLEAN /\ timer \in BOOLEAN
  /\ job \in [Jobs -> AtWork \cup {"free", "forked", "cloned", "refused"}]
  /\ folder \in Bare \cup {"partial", "whole", "foreign", "repository"}
  /\ lock \in Clients \cup {None}
  /\ op \in [Clients -> Ops \cup {"none"}]
  /\ at \in [Clients -> {"idle", "waiting", "holding", "claimed", "awaiting",
                         "emptying"}]

(* A clone at work has the entry, and can be cancelled through it; and an  *)
(* entry that says running has a fiber that a call can interrupt: "A claim  *)
(* without a fiber can be neither cancelled nor retried" (clones.ts:602).  *)
Tracked ==
  lock = None =>
    /\ \A j \in Jobs : Live(j) => phase = "running" /\ fiber = j
    /\ phase = "running" => fiber # None
    /\ stalled => phase = "running"

(* "so a retry cannot race a clone" (clones.ts:316): one clone writes into *)
(* a folder at a time, and nobody empties it meanwhile.                    *)
OneAtWork ==
  /\ \A i, j \in Jobs : Live(i) /\ Live(j) => i = j
  /\ (\E c \in Clients : at[c] = "emptying") => \A j \in Jobs : ~Live(j)

(* "a complete checkout is the user's" (clones.ts:664): once it was said   *)
(* to be done, only the user takes it away.                                *)
CheckoutIsKept ==
  [][folder = "whole" /\ phase \in {"done", "untracked"} /\ folder' # "whole"
       => UserRemoves]_cloneVars

(* "Refuses one holding files git did not write" (clones.ts:351): what the *)
(* user put there is not emptied.  It is when it has a .git, so no run     *)
(* checks this.                                                            *)
UserFilesAreKept ==
  [][folder' # folder /\ folder \in {"foreign", "repository"}
       => UserRemoves]_cloneVars

(* Every call ends, also when git hangs: what it waits for is killed.      *)
CallsReturn == \A c \in Clients : op[c] # "none" ~> op[c] = "none"
=============================================================================
