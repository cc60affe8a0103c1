----------------------------- MODULE ThreadRun -----------------------------
(***************************************************************************)
(* The runs of one thread, across the processes that host it: the prompts  *)
(* a client sends (control.ts), the execution that answers them            *)
(* (runner/execute.ts over the coordinator, runner/loop.ts), the columns   *)
(* of the thread's row that outlive the process (thread/thread.ts) and the *)
(* recovery of the next server (control.ts, codework's server.ts).         *)
(*                                                                         *)
(* Of the coordinator only what it does to one key is repeated here: the   *)
(* execution in the map is `phase` with its fields, and a settled one is   *)
(* replaced at once by the successor a pending wake asks for.  It          *)
(* implements module Doorbell, as module Coordinator does.                 *)
(*                                                                         *)
(* A prompt is in one lane: which of the pending ones a turn promotes is   *)
(* left open.  A position in the log is the set of the prompts admitted    *)
(* before it.  The model, the tools and the sandbox answer, fail or hang   *)
(* as they like.  due, parked, cut, fell, crashes and downs are history.   *)
(***************************************************************************)
EXTENDS Naturals, FiniteSets

CONSTANTS
  Prompts,
  Stoppers,      \* the clients that stop the thread, once each
  Nowhere,       \* no position: stoppedAt has no entry
  RestartLimit,  \* RESTART_LIMIT
  MaxDowns,      \* bound: how often the process ends
  Resends        \* whether a client repeats a prompt that was accepted

ASSUME LimitAssumption == RestartLimit \in Nat \ {0} /\ MaxDowns \in Nat
ASSUME ResendsAssumption == Resends \in BOOLEAN

VARIABLES
  (* The thread's row. *)
  mark,         \* column execution
  restarts,
  attempt,      \* column attempt is not null: a request is in flight
  run,          \* column run_state: idle, or starting and running
  (* The rest of the store. *)
  inbox,        \* a prompt is pending, promoted, and in the end answered
  draft,        \* the reply not committed: none, or what kind it ended as
  (* The process: the execution in the coordinator's map. *)
  phase, force, pendingWake,
  stopping,     \* the reason of the stop it was given
  outcome,      \* how its last drain ended; "ended" also stands for `ended`
  recovered,    \* its drain took the thread out of `recovering`
  continuing,   \* of the drain: earlier work needs a reply
  (* The process: maps of execute.ts, the clients' calls, the recovery. *)
  stoppedAt, recovering, abandoning,
  sender, stopper, recovery, up, closing,
  (* History. *)
  due,          \* what an accepted prompt may expect
  parked,       \* what took a prompt out of the work that is resumed
  cut,          \* a process died at work since the last claim
  fell,         \* a process died in a run since the last claim
  crashes,      \* such claims since the thread last got on or ended a run
  downs

row == <<mark, restarts, attempt, run>>
store == <<row, inbox, draft>>
drainVars == <<recovered, continuing>>
fiber == <<phase, force, pendingWake, stopping, outcome, drainVars>>
flags == <<recovering, abandoning>>
clients == <<sender, stopper>>
host == <<up, closing, downs, cut, fell, crashes>>
owedVars == <<due, parked>>
vars == <<store, fiber, stoppedAt, flags, clients, recovery, host, owedVars>>

Hook == {"starting"}            \* uninterruptible: the started hook
Running == {"loading", "turn", "assembled", "requesting", "replied", "deciding", "unasked"}
Ending == {"ending"}            \* uninterruptible: endRun
Owned == {"forked", "opening", "drained", "looping"} \cup Hook \cup Running \cup Ending
Phases == {"none", "settling", "settled"} \cup Owned

Interruptible ==
  (stopping # "no" \/ closing) /\ phase \in Owned \ (Hook \cup Ending)

Pending == {p \in Prompts : inbox[p] = "pending"}
Promoted == {p \in Prompts : inbox[p] = "promoted"}
Recovering == recovery \in {"claimed", "condemned", "joined", "retrying", "again"}
Unfinished == Pending \cup Promoted

RowTyped ==
  /\ mark \in {"none", "running", "closed"}
  /\ restarts \in 0..MaxDowns
  /\ attempt \in BOOLEAN
  /\ run \in {"idle", "open"}

PromptsTyped ==
  /\ inbox \in [Prompts -> {"none", "pending", "promoted", "answered"}]
  /\ sender \in [Prompts -> {"idle", "admitted", "marked", "accepted"}]
  /\ due \in [Prompts -> {"no", "owed", "kept"}]
  /\ parked \in [Prompts -> {"no", "stop", "end"}]

FiberTyped ==
  /\ draft \in {"none", "final", "tools"}
  /\ phase \in Phases
  /\ force \in BOOLEAN /\ pendingWake \in BOOLEAN
  /\ stopping \in {"no", "user", "shutdown"}
  /\ outcome \in {"none", "drained", "ended", "left", "failure", "interrupt"}
  /\ recovered \in BOOLEAN /\ continuing \in BOOLEAN

HostTyped ==
  /\ stoppedAt \in (SUBSET Prompts) \cup {Nowhere}
  /\ recovering \in BOOLEAN /\ abandoning \in BOOLEAN
  /\ stopper \in [Stoppers -> {"idle", "reading", "waiting", "withdrawing",
                               "done"}]
  /\ recovery \in {"off", "todo", "listed", "checked", "claimed", "condemned",
                   "joined", "retrying", "again", "done"}
  /\ up \in BOOLEAN /\ closing \in BOOLEAN /\ cut \in BOOLEAN
  /\ downs \in 0..MaxDowns /\ fell \in BOOLEAN /\ crashes \in Nat

TypeOK == RowTyped /\ PromptsTyped /\ FiberTyped /\ HostTyped

(* The first start of a server on an empty store.                          *)
Init ==
  /\ mark = "none" /\ restarts = 0 /\ attempt = FALSE /\ run = "idle"
  /\ inbox = [p \in Prompts |-> "none"] /\ draft = "none"
  /\ phase = "none" /\ force = FALSE /\ pendingWake = FALSE
  /\ stopping = "no" /\ outcome = "none"
  /\ recovered = FALSE /\ continuing = FALSE
  /\ stoppedAt = Nowhere /\ recovering = FALSE /\ abandoning = FALSE
  /\ sender = [p \in Prompts |-> "idle"]
  /\ stopper = [c \in Stoppers |-> "idle"]
  /\ recovery = "done" /\ up = TRUE /\ closing = FALSE
  /\ due = [p \in Prompts |-> "no"] /\ parked = [p \in Prompts |-> "no"]
  /\ cut = FALSE /\ fell = FALSE /\ crashes = 0 /\ downs = 0

LetGo(S) == due' = [p \in Prompts |-> IF p \in S /\ due[p] = "owed" THEN "kept" ELSE due[p]]
Park(S, by) == parked' = [p \in Prompts |-> IF p \in S THEN by ELSE parked[p]]

GotOn == fell' = FALSE /\ crashes' = 0

-----------------------------------------------------------------------------
(* The execution: coordinator.ts start, then the hooks of execute.ts.      *)

(* A fresh execution, at its leading yield.                                *)
Fork(f) ==
  /\ phase' = "forked" /\ force' = f
  /\ pendingWake' = FALSE /\ stopping' = "no"
  /\ outcome' = "none" /\ recovered' = FALSE /\ continuing' = FALSE

(* The started hook: a run marks its thread, unless it is being recovered. *)
MarkStarted ==
  /\ phase = "forked" /\ stopping = "no" /\ ~closing
  /\ phase' = "starting"
  /\ mark' = IF recovering THEN mark ELSE "running"
  /\ IF recovering THEN UNCHANGED parked ELSE Park(Prompts, "no")
  /\ UNCHANGED <<restarts, attempt, run, inbox, draft, force, pendingWake,
                 stopping, outcome, drainVars, stoppedAt, flags, clients,
                 recovery, host, due>>

Announce ==
  /\ phase = "starting"
  /\ phase' = "opening" /\ run' = "open"
  /\ UNCHANGED <<mark, restarts, attempt, inbox, draft, force, pendingWake,
                 stopping, outcome, drainVars, stoppedAt, flags, clients,
                 recovery, host, owedVars>>

(* The drain ends as `o`, and nothing else of the process changes.         *)
DrainEnds(o) ==
  /\ phase' = "drained" /\ outcome' = o
  /\ UNCHANGED <<force, pendingWake, stopping>>

(* Faulty: the turn of a dead host counts as progress of this one.         *)
HealForgets ==
  draft' = "none" /\ restarts' = IF draft = "tools" THEN 0 ELSE restarts

(* healDraft: a draft whose request was in flight, or that had no tool     *)
(* call, is aborted; the turn of one that had is committed, as recovered,  *)
(* which leaves the restarts alone.                                        *)
Heal == draft' = "none" /\ UNCHANGED restarts

(* What the drain does first: it takes the thread out of `recovering`.  A  *)
(* recovered thread without a mark was stopped since, and one that is      *)
(* abandoned ends here (Loop.abandon, up to the failure it publishes).     *)
OpenDrain ==
  /\ phase = "opening" /\ ~Interruptible
  /\ recovering' = FALSE
  /\ \/ /\ recovering /\ mark = "none"
        /\ DrainEnds("drained")
        /\ UNCHANGED <<drainVars, run, draft, restarts>>
     \/ /\ recovering /\ mark # "none" /\ force /\ abandoning
        /\ phase' = "ending" /\ run' = "idle" /\ Heal
        /\ outcome' = "none" /\ recovered' = TRUE
        /\ UNCHANGED <<force, pendingWake, stopping, continuing>>
     \/ /\ ~(recovering /\ (mark = "none" \/ (force /\ abandoning)))
        /\ phase' = "loading" /\ outcome' = "none" /\ recovered' = recovering
        /\ UNCHANGED <<force, pendingWake, stopping, continuing, run, draft,
                       restarts>>
  /\ UNCHANGED <<mark, attempt, inbox, stoppedAt, abandoning, clients,
                 recovery, host, owedVars>>

-----------------------------------------------------------------------------
(* The drain: Loop.run.                                                    *)

(* The draft a dead process left is healed, then a run that was woken for  *)
(* nothing ends.  A run whose host died with its request in flight waits   *)
(* out a retry, or ends when its retries are used up.                      *)
Load ==
  /\ phase = "loading" /\ ~Interruptible
  /\ Heal
  /\ \/ /\ ~force /\ Pending = {}
        /\ DrainEnds("drained")
        /\ UNCHANGED <<continuing, run>>
     \/ /\ force \/ Pending # {}
        /\ phase' = "turn" /\ continuing' = force
        /\ UNCHANGED <<force, pendingWake, stopping, outcome, run>>
     \/ /\ force \/ Pending # {}
        /\ attempt
        /\ phase' = "ending" /\ run' = "idle"
        /\ UNCHANGED <<force, pendingWake, stopping, outcome, continuing>>
  /\ UNCHANGED <<mark, attempt, inbox, recovered, stoppedAt, flags, clients,
                 recovery, host, owedVars>>

(* The promotion that opens a turn.                                        *)
Promote(S) ==
  /\ phase = "turn" /\ ~Interruptible
  /\ S \subseteq Pending /\ (S # {} \/ continuing)
  /\ inbox' = [p \in Prompts |-> IF p \in S THEN "promoted" ELSE inbox[p]]
  /\ phase' = "assembled"
  /\ UNCHANGED <<row, draft, force, pendingWake, stopping, outcome, drainVars,
                 stoppedAt, flags, clients, recovery, host, owedVars>>

(* A conversation that is answered asks for nothing (leafAnswered).        *)
Request ==
  /\ phase = "assembled" /\ ~Interruptible
  /\ \/ /\ Promoted # {}
        /\ phase' = "requesting" /\ attempt' = TRUE
        /\ UNCHANGED continuing
     \/ /\ Promoted = {}
        /\ phase' = "unasked" /\ continuing' = FALSE
        /\ UNCHANGED attempt
  /\ UNCHANGED <<mark, restarts, run, inbox, draft, force, pendingWake,
                 stopping, outcome, recovered, stoppedAt, flags, clients,
                 recovery, host, owedVars>>

(* The response: LLMStarted, then LLMEnded, which clears the attempt.  A   *)
(* failed attempt that is repeated changes nothing that is modelled.       *)
Respond(kind) ==
  /\ phase = "requesting" /\ ~Interruptible
  /\ phase' = "replied" /\ draft' = kind
  /\ attempt' = FALSE /\ run' = "open"
  /\ UNCHANGED <<mark, restarts, inbox, force, pendingWake, stopping, outcome,
                 drainVars, stoppedAt, flags, clients, recovery, host, owedVars>>

(* settleTools and its commit, TurnEnded.                                  *)
Commit ==
  /\ phase = "replied"
  /\ inbox' = IF draft = "final"
              THEN [p \in Prompts |-> IF p \in Promoted THEN "answered" ELSE inbox[p]]
              ELSE inbox
  /\ due' = [p \in Prompts |-> IF inbox'[p] = "answered" THEN "no" ELSE due[p]]
  /\ draft' = "none" /\ restarts' = 0 /\ attempt' = FALSE /\ GotOn
  /\ phase' = "deciding" /\ continuing' = (draft = "tools")
  /\ UNCHANGED <<mark, run, force, pendingWake, stopping, outcome, recovered,
                 stoppedAt, flags, clients, recovery, up, closing, downs, cut,
                 parked>>

(* What follows a turn: a hook may end the run there, or go on after a     *)
(* reply that is final, a second truncation fails it (only after tool      *)
(* calls), and the drain goes on while anything is left.  A turn that      *)
(* asked for nothing is followed by no hook.                               *)
Follow ==
  /\ phase \in {"deciding", "unasked"} /\ ~Interruptible
  /\ \/ /\ phase = "deciding"
        /\ DrainEnds("left") /\ LetGo(Promoted) /\ UNCHANGED <<continuing, run>>
     \/ /\ continuing
        /\ phase' = "ending" /\ run' = "idle"
        /\ UNCHANGED <<force, pendingWake, stopping, outcome, continuing, due>>
     \/ /\ ~continuing /\ Pending = {}
        /\ DrainEnds("drained") /\ UNCHANGED <<continuing, run, due>>
     \/ /\ phase' = "turn"
        /\ continuing' \in {continuing, continuing \/ phase = "deciding"}
        /\ continuing' \/ Pending # {}
        /\ UNCHANGED <<force, pendingWake, stopping, outcome, run, due>>
  /\ UNCHANGED <<mark, restarts, attempt, inbox, draft, recovered, stoppedAt,
                 flags, clients, recovery, host, parked>>

(* endRun, after the failure it published: the row is left idle.           *)
IdleRun ==
  /\ phase = "ending"
  /\ mark' = "none" /\ restarts' = 0 /\ attempt' = FALSE /\ GotOn
  /\ DrainEnds("ended")
  /\ LetGo(Promoted) /\ Park(Unfinished, "end")
  /\ UNCHANGED <<run, inbox, draft, drainVars, stoppedAt, flags, clients,
                 recovery, up, closing, downs, cut>>

(* What is left of a draft by a run that is cut short: its own is aborted, *)
(* and one of a dead host is there until it is healed.                     *)
DraftLeft ==
  \/ phase \notin Running \ {"loading"} /\ UNCHANGED draft
  \/ phase \in Running /\ draft' = "none"

(* A failure of the drain: no sandbox, a request given up, a defect.       *)
FailDrain ==
  /\ phase \in {"opening"} \cup Running /\ ~Interruptible
  /\ DrainEnds("failure") /\ DraftLeft
  /\ recovering' = (recovering /\ phase # "opening")
  /\ LetGo(Promoted)
  /\ UNCHANGED <<row, inbox, drainVars, stoppedAt, abandoning, clients,
                 recovery, host, parked>>

-----------------------------------------------------------------------------
(* The end of the busy period: the loop of the coordinator, then the       *)
(* settled hook of execute.ts and the settlement of the coordinator.       *)

(* Faulty: the wake that is answered by another drain stays pending.       *)
RedrainKeepsWake ==
  /\ phase = "drained" /\ outcome # "failure"
  /\ stopping = "no" /\ pendingWake
  /\ phase' = "looping" /\ force' = FALSE
  /\ UNCHANGED <<store, pendingWake, stopping, outcome, drainVars, stoppedAt,
                 flags, clients, recovery, host, owedVars>>

(* A success with a wake pending: yield, and drain again without the hook. *)
Redrain ==
  /\ phase = "drained" /\ outcome # "failure"
  /\ stopping = "no" /\ pendingWake
  /\ phase' = "looping" /\ pendingWake' = FALSE /\ force' = FALSE
  /\ UNCHANGED <<store, stopping, outcome, drainVars, stoppedAt, flags,
                 clients, recovery, host, owedVars>>

DrainAgain ==
  /\ phase = "looping" /\ ~Interruptible
  /\ phase' = "opening"
  /\ UNCHANGED <<store, force, pendingWake, stopping, outcome, drainVars,
                 stoppedAt, flags, clients, recovery, host, owedVars>>

(* The drain ended and none follows: the owner is gone.                    *)
Decide ==
  /\ phase = "drained" /\ ~Interruptible
  /\ outcome = "failure" \/ stopping # "no" \/ ~pendingWake
  /\ phase' = "settling"
  /\ UNCHANGED <<store, force, pendingWake, stopping, outcome, drainVars,
                 stoppedAt, flags, clients, recovery, host, owedVars>>

(* An interruption: the run's draft is aborted, except that a batch of     *)
(* tools is settled and its turn committed.                                *)
DecideInterrupted ==
  /\ Interruptible
  /\ phase' = "settling" /\ outcome' = "interrupt" /\ DraftLeft
  /\ \/ UNCHANGED <<restarts, fell, crashes>>
     \/ phase = "replied" /\ draft = "tools" /\ restarts' = 0 /\ GotOn
  /\ recovering' \in (IF phase = "opening" THEN {recovering, FALSE} ELSE {recovering})
  /\ UNCHANGED <<mark, attempt, run, inbox, force, pendingWake, stopping,
                 drainVars, stoppedAt, abandoning, clients, recovery, up,
                 closing, downs, cut, owedVars>>

Terminal == IF outcome # "interrupt" THEN "finished"
            ELSE IF stopping = "user" THEN "stopped" ELSE "closed"

(* What keeps the mark: any pending prompt, after a stop only those sent   *)
(* after its position.                                                     *)
Kept ==
  IF Terminal = "finished" THEN Pending
  ELSE IF Terminal = "closed" \/ stoppedAt = Nowhere THEN {}
  ELSE Pending \ stoppedAt

(* A run that was closed, and one that leaves nothing to resume, is none   *)
(* that takes the process down.                                            *)
EndsLoop ==
  /\ fell' = (fell /\ mark' = "running")
  /\ crashes' = IF mark' = "none" THEN 0 ELSE crashes

(* Faulty: a stop takes the mark of the prompts sent after it.             *)
EndExecutionParksAll ==
  /\ phase = "settling"
  /\ phase' = "settled" /\ stoppedAt' = Nowhere /\ attempt' = FALSE
  /\ CASE Terminal = "closed" -> mark' = "closed" /\ UNCHANGED <<restarts, parked>>
       [] Terminal = "stopped" -> mark' = "none" /\ restarts' = 0 /\ Park(Unfinished \ Kept, "stop")
       [] Kept = {} -> mark' = "none" /\ restarts' = 0 /\ UNCHANGED parked
       [] OTHER -> UNCHANGED <<mark, restarts, parked>>
  /\ EndsLoop
  /\ UNCHANGED <<run, inbox, draft, force, pendingWake, stopping, outcome,
                 drainVars, flags, clients, recovery, up, closing, downs, cut,
                 due>>

(* Faulty: only a run that was closed forgets its request in flight.       *)
EndExecutionKeepsAttempt ==
  /\ phase = "settling"
  /\ phase' = "settled" /\ stoppedAt' = Nowhere
  /\ \/ Terminal = "closed" /\ mark' = "closed" /\ attempt' = FALSE /\ UNCHANGED restarts
     \/ /\ Terminal # "closed" /\ UNCHANGED attempt
        /\ IF Kept = {} THEN mark' = "none" /\ restarts' = 0
           ELSE UNCHANGED <<mark, restarts>>
  /\ EndsLoop
  /\ UNCHANGED <<run, inbox, draft, force, pendingWake, stopping, outcome,
                 drainVars, flags, clients, recovery, up, closing, downs, cut,
                 owedVars>>

(* endExecution, which takes the position of the stop with it.             *)
EndExecution ==
  /\ phase = "settling"
  /\ phase' = "settled" /\ stoppedAt' = Nowhere /\ attempt' = FALSE
  /\ \/ /\ Terminal = "closed"
        /\ mark' = "closed" /\ Park(Prompts, "no")
        /\ UNCHANGED restarts
     \/ /\ Terminal # "closed" /\ Kept = {}
        /\ mark' = "none" /\ restarts' = 0
        /\ IF Terminal = "stopped" THEN Park(Unfinished, "stop") ELSE UNCHANGED parked
     \/ /\ Terminal # "closed" /\ Kept # {}
        /\ UNCHANGED <<mark, restarts, parked>>
  /\ EndsLoop
  /\ UNCHANGED <<run, inbox, draft, force, pendingWake, stopping, outcome,
                 drainVars, flags, clients, recovery, up, closing, downs, cut,
                 due>>

(* The terminal event, unless the run ended itself, and the settlement:    *)
(* the successor of a pending wake, then the callers that joined.          *)
Settle ==
  /\ phase = "settled"
  /\ run' = IF outcome = "ended" THEN run ELSE "idle"
  /\ \/ /\ pendingWake /\ Fork(FALSE) /\ UNCHANGED due
     \/ /\ ~pendingWake /\ phase' = "none"
        /\ IF outcome \in {"ended", "left", "failure"} THEN LetGo(Pending) ELSE UNCHANGED due
        /\ UNCHANGED <<force, pendingWake, stopping, outcome, drainVars>>
  /\ recovery' = CASE recovery = "joined"   -> "done"
                   [] recovery = "retrying" -> "again"
                   [] OTHER                 -> recovery
  /\ recovering' = (recovering /\ recovery # "joined")
  /\ abandoning' = (abandoning /\ recovery # "joined")
  /\ stopper' = [c \in Stoppers |->
                   IF stopper[c] = "waiting" THEN "withdrawing" ELSE stopper[c]]
  /\ UNCHANGED <<mark, restarts, attempt, inbox, draft, stoppedAt, sender,
                 host, parked>>

-----------------------------------------------------------------------------
(* The clients: control.ts.                                                *)

Serving == up /\ ~closing

(* A prompt is admitted once; sent again, the stored row is adopted.       *)
Admit(p) ==
  /\ Serving
  /\ \/ sender[p] = "idle" /\ inbox[p] \in {"none", "pending"}
     \/ sender[p] \in {"idle", "accepted"} /\ Resends
  /\ inbox' = IF inbox[p] = "none" THEN [inbox EXCEPT ![p] = "pending"] ELSE inbox
  /\ sender' = [sender EXCEPT ![p] = "admitted"]
  /\ UNCHANGED <<row, draft, fiber, stoppedAt, flags, stopper, recovery, host,
                 owedVars>>

(* Faulty: the prompt is marked by the run it starts only.                 *)
MarkPromptLater(p) ==
  /\ sender[p] = "admitted"
  /\ sender' = [sender EXCEPT ![p] = "marked"]
  /\ UNCHANGED <<store, fiber, stoppedAt, flags, stopper, recovery, host,
                 owedVars>>

(* Marked before the wake.                                                 *)
MarkPrompt(p) ==
  /\ sender[p] = "admitted"
  /\ sender' = [sender EXCEPT ![p] = "marked"]
  /\ mark' = "running"
  /\ Park(Prompts, "no")
  /\ UNCHANGED <<restarts, attempt, run, inbox, draft, fiber, stoppedAt,
                 flags, stopper, recovery, host, due>>

(* The wake, and the answer to the client.                                 *)
Accept(p) ==
  /\ sender[p] = "marked"
  /\ sender' = [sender EXCEPT ![p] = "accepted"]
  /\ due' = IF inbox[p] = "pending" THEN [due EXCEPT ![p] = "owed"] ELSE due
  /\ \/ /\ phase = "none" /\ Fork(FALSE)
     \/ /\ phase # "none" /\ pendingWake' = TRUE
        /\ UNCHANGED <<phase, force, stopping, outcome, drainVars>>
  /\ UNCHANGED <<store, stoppedAt, flags, stopper, recovery, host, parked>>

(* requestInterrupt of the coordinator, for a reason.                      *)
Claim(reason) ==
  LET found == phase # "none" /\ stopping = "no"
  IN /\ pendingWake' = (pendingWake /\ ~found)
     /\ stopping' = IF found /\ phase \in Owned THEN reason ELSE stopping

Accepted == phase \in Owned /\ stopping = "no"

(* A user's stop reads the session unless a position is set, then sets the *)
(* position it finds.  One that was not accepted takes it back: at once, or *)
(* if it awaits settlement, once what it found settling has settled.       *)
StopReads(c) ==
  /\ Serving /\ stopper[c] = "idle" /\ stoppedAt = Nowhere
  /\ stopper' = [stopper EXCEPT ![c] = "reading"]
  /\ UNCHANGED <<store, fiber, stoppedAt, flags, sender, recovery, host, owedVars>>

Stop(c) ==
  LET recorded == stopper[c] = "reading"
      before == {p \in Prompts : inbox[p] # "none"}
      claimed == Accepted \/ (phase # "none" /\ stopping = "no" /\ pendingWake)
  IN /\ Serving
     /\ \/ recorded
        \/ stopper[c] = "idle" /\ stoppedAt # Nowhere
     /\ \/ /\ ~recorded
           /\ stopper' = [stopper EXCEPT ![c] = "done"] /\ UNCHANGED stoppedAt
        \/ /\ recorded /\ Accepted
           /\ stopper' = [stopper EXCEPT ![c] = "done"] /\ stoppedAt' = before
        \/ /\ recorded /\ ~Accepted
           /\ stopper' = [stopper EXCEPT ![c] = "done"] /\ stoppedAt' = Nowhere
        \/ /\ recorded /\ ~Accepted /\ phase # "none"
           /\ stopper' = [stopper EXCEPT ![c] = "waiting"] /\ stoppedAt' = before
     /\ Claim("user")
     /\ IF claimed THEN LetGo(Unfinished) ELSE UNCHANGED due
     /\ UNCHANGED <<store, phase, force, outcome, drainVars, flags, sender,
                    recovery, host, parked>>

StopWithdraws(c) ==
  /\ stopper[c] = "withdrawing"
  /\ stopper' = [stopper EXCEPT ![c] = "done"]
  /\ stoppedAt' = Nowhere
  /\ UNCHANGED <<store, fiber, flags, sender, recovery, host, owedVars>>

-----------------------------------------------------------------------------
(* The host: the process ends and starts, and resumes what was unfinished. *)

(* A graceful stop: active threads are interrupted (managedShutdown), then *)
(* the scope of the fibers closes.                                         *)
Shutdown ==
  /\ Serving /\ downs < MaxDowns
  /\ closing' = TRUE
  /\ Claim("shutdown")
  /\ UNCHANGED <<store, phase, force, outcome, drainVars, stoppedAt, flags,
                 clients, recovery, up, downs, cut, fell, crashes, owedVars>>

AtWork ==
  \/ phase # "none" \/ Recovering
  \/ \E p \in Prompts : sender[p] \in {"admitted", "marked"}

(* The process is gone, at any point: killed, crashed, or closed.          *)
Down ==
  /\ up /\ downs < MaxDowns
  /\ up' = FALSE /\ closing' = FALSE /\ downs' = downs + 1
  /\ cut' = (cut \/ AtWork)
  /\ fell' = (fell \/ phase \in Running) /\ UNCHANGED crashes
  /\ phase' = "none" /\ force' = FALSE /\ pendingWake' = FALSE
  /\ stopping' = "no" /\ outcome' = "none"
  /\ recovered' = FALSE /\ continuing' = FALSE
  /\ stoppedAt' = Nowhere /\ recovering' = FALSE /\ abandoning' = FALSE
  /\ recovery' = "off"
  /\ sender' = [p \in Prompts |-> IF sender[p] = "accepted" THEN "accepted" ELSE "idle"]
  /\ stopper' = [c \in Stoppers |-> IF stopper[c] = "idle" THEN "idle" ELSE "done"]
  /\ UNCHANGED <<store, owedVars>>

(* Faulty: the sweep leaves the runs that are resumed anyway.              *)
BootUnswept ==
  /\ ~up
  /\ up' = TRUE /\ recovery' = "todo"
  /\ run' = IF mark = "none" THEN "idle" ELSE run
  /\ UNCHANGED <<mark, restarts, attempt, inbox, draft, fiber, stoppedAt,
                 flags, clients, closing, downs, cut, fell, crashes, owedVars>>

(* The sweep ends a run the last process left open, before the listener.   *)
Boot ==
  /\ ~up
  /\ up' = TRUE /\ run' = "idle" /\ recovery' = "todo"
  /\ UNCHANGED <<mark, restarts, attempt, inbox, draft, fiber, stoppedAt,
                 flags, clients, closing, downs, cut, fell, crashes, owedVars>>

(* resumeUnfinished, forked beside the listener: what is unfinished is     *)
(* listed, then each is left to a run that is active by then.              *)
List ==
  /\ recovery = "todo"
  /\ recovery' = IF phase = "none" /\ mark # "none" THEN "listed" ELSE "done"
  /\ UNCHANGED <<store, fiber, stoppedAt, flags, clients, host, owedVars>>

Check ==
  /\ recovery = "listed"
  /\ recovery' = IF phase = "none" THEN "checked" ELSE "done"
  /\ UNCHANGED <<store, fiber, stoppedAt, flags, clients, host, owedVars>>

Counts ==
  /\ cut' = FALSE /\ fell' = FALSE
  /\ crashes' = IF fell THEN crashes + 1 ELSE crashes

(* Faulty: the run of the list is claimed, whatever became of it.          *)
ClaimListed ==
  /\ recovery = "checked"
  /\ mark' = "running"
  /\ restarts' = restarts + (IF mark = "running" THEN 1 ELSE 0)
  /\ recovery' = IF restarts' >= RestartLimit THEN "condemned" ELSE "claimed"
  /\ Counts
  /\ UNCHANGED <<attempt, run, inbox, draft, fiber, stoppedAt, flags, clients,
                 up, closing, downs, owedVars>>

(* claimRestart, and what the count it returns decides.                    *)
ClaimRestart ==
  /\ recovery = "checked"
  /\ \/ /\ mark = "none" /\ recovery' = "done"
        /\ UNCHANGED <<mark, restarts, cut, fell, crashes>>
     \/ /\ mark # "none" /\ mark' = "running"
        /\ restarts' = restarts + (IF mark = "running" THEN 1 ELSE 0)
        /\ recovery' = IF restarts' >= RestartLimit THEN "condemned" ELSE "claimed"
        /\ Counts
  /\ UNCHANGED <<attempt, run, inbox, draft, fiber, stoppedAt, flags, clients,
                 up, closing, downs, owedVars>>

(* recover: flagged, then run under the thread's execution like any run:   *)
(* start it, join it, or wait for the end of one that is being stopped.    *)
Recover ==
  /\ recovery \in {"claimed", "condemned", "again"}
  /\ recovering' = (recovering \/ recovery # "again")
  /\ abandoning' = (abandoning \/ recovery = "condemned")
  /\ \/ /\ phase = "none" /\ Fork(TRUE) /\ recovery' = "joined"
     \/ /\ phase # "none"
        /\ recovery' = IF stopping = "no" THEN "joined" ELSE "retrying"
        /\ UNCHANGED fiber
  /\ UNCHANGED <<store, stoppedAt, clients, host, owedVars>>

-----------------------------------------------------------------------------

Fiber ==
  \/ MarkStarted \/ Announce \/ OpenDrain \/ Load
  \/ \E S \in SUBSET Prompts : Promote(S)
  \/ Request \/ \E kind \in {"final", "tools"} : Respond(kind)
  \/ Commit \/ Follow \/ IdleRun \/ FailDrain
  \/ Redrain \/ DrainAgain \/ Decide \/ DecideInterrupted
  \/ EndExecution \/ Settle

Recovery == List \/ Check \/ ClaimRestart \/ Recover

Prompt(p) == Admit(p) \/ MarkPrompt(p) \/ Accept(p)

Next ==
  \/ Fiber \/ Recovery \/ Boot \/ Down \/ Shutdown
  \/ \E p \in Prompts : Prompt(p)
  \/ \E c \in Stoppers : StopReads(c) \/ Stop(c) \/ StopWithdraws(c)

(* The runtime schedules the fibers of a live process, which are whole     *)
(* until it is gone; a process that ended or is closing ends and is        *)
(* started again; the model, if it is asked often enough, answers without  *)
(* calling another tool; and a prompt that was admitted is marked and      *)
(* wakes the thread, also for a client that went away (control.ts:167).    *)
Spec ==
  /\ Init /\ [][Next]_vars
  /\ WF_vars(Fiber) /\ WF_vars(Recovery) /\ WF_vars(Boot)
  /\ WF_vars(closing /\ Down)
  /\ SF_vars(Respond("final"))
  /\ \A p \in Prompts : WF_vars(MarkPrompt(p) \/ Accept(p))

-----------------------------------------------------------------------------
(* Properties.                                                             *)

Owed(p) == due[p] = "owed"

(* A prompt a client was told is accepted survives the death of the        *)
(* process at any moment, before its run starts included: while it is      *)
(* owed, the thread is marked for the next server (control.ts:145).        *)
(* Excepted are the prompts queued as a stop settled or a run ended        *)
(* itself, which the code leaves to the next prompt.                       *)
AcceptedIsMarked ==
  \A p \in Prompts : Owed(p) /\ parked[p] = "no" => mark # "none"

Resuming == phase = "loading" /\ recovered /\ (force \/ Pending # {})

(* A stop stands: a recovery of this or of a later process resumes nothing *)
(* when all that is left was parked by a stop and not woken since,         *)
(* although it listed the thread, or claimed it, before the stop           *)
(* (control.ts:281, execute.ts:145).                                       *)
StopsStand ==
  Resuming /\ Unfinished # {} =>
    \E p \in Unfinished : parked[p] # "stop" \/ Owed(p)

(* A run that takes the process down with it is not resumed for ever: one  *)
(* that crashes cut off RestartLimit times, without a turn of its own in   *)
(* between, is abandoned (control.ts:59), whatever was stopped, sent,      *)
(* closed or healed beside it.  crashes counts them without the column.    *)
CrashLoopEnds ==
  phase = "loading" /\ recovered /\ force => crashes < RestartLimit

(* A client never finds a run going on that nobody executes: each busy     *)
(* period publishes its terminal, and a dead one is swept (server.ts:56).  *)
IdleIsStored == up /\ phase = "none" => run = "idle"

(* "Only a dead host leaves a request marked in flight" (loop.ts:605): no  *)
(* run takes a request of this process, failed, stopped, or answered, for  *)
(* one it has to wait out and count.                                       *)
InFlightIsADeadHosts ==
  phase = "loading" /\ attempt => cut \/ recovered \/ Recovering

(* The doorbell of the abstract specification, read off the execution.  A  *)
(* drain is rung for until it opens, and drains until its end is decided.  *)
Awaiting == phase \in {"forked", "starting", "opening", "looping"} /\ stopping = "no"

Drain ==
  IF phase \notin Running \cup Ending \cup {"drained"} THEN "none"
  ELSE IF force THEN "run" ELSE "wake"

Rings ==
  IF closing THEN 0
  ELSE (IF Awaiting /\ ~force THEN 1 ELSE 0) + (IF pendingWake THEN 1 ELSE 0)

Bell == INSTANCE Doorbell WITH
          busy <- phase # "none", drain <- Drain, rings <- Rings,
          forced <- Awaiting /\ force /\ ~closing, closed <- closing

(* The execution that is repeated here keeps the promise the coordinator   *)
(* keeps for its keys: a prompt that wakes the thread is answered by one   *)
(* drain, whatever hooks, failures, stops and recoveries are between, and  *)
(* a stop or a shutdown claims what was rung before it.  Only the death of *)
(* the process forgets a ring (coordinator.ts:53-97, execute.ts:136-190).  *)
ImplementsDoorbell ==
  /\ Bell!Init
  /\ [][Bell!Next \/ (~up' /\ Bell!Crash)]_(Bell!abstractVars)

(* Whatever crashes, restarts, stops and failures there are, an accepted   *)
(* prompt is answered, or left waiting by a stop, or by a failure that a   *)
(* user is shown.                                                          *)
AcceptedIsAnswered ==
  \A p \in Prompts : Owed(p) ~> (~Owed(p) \/ parked[p] # "no")

(* What the comments say, and the code does not do.                        *)

(* "Marked before the wake, so a prompt accepted here survives a crash     *)
(* before its run starts" (control.ts:145), also beside a run that ends    *)
(* itself.                                                                 *)
AcceptedSurvives ==
  \A p \in Prompts : Owed(p) /\ parked[p] # "stop" => mark # "none"

(* "The first stop of a run sets its position; a repeat while it settles   *)
(* keeps that one" (execute.ts:209).                                       *)
FirstStopKeepsPosition ==
  [][stopping = "user" /\ stoppedAt # Nowhere /\ stoppedAt' # stoppedAt =>
       phase' = "settled" \/ ~up']_vars

(* "Ends a run that is not resumed, leaving the thread idle" (loop.ts:261): *)
(* a shutdown marks no thread whose work has ended.                         *)
EndedStaysIdle ==
  [][mark = "none" /\ mark' = "closed" /\ Unfinished # {} =>
       \E p \in Unfinished : parked[p] # "end" \/ Owed(p)]_vars

(* "One a crash cut off counts a restart, one a shutdown closed does not"  *)
(* (control.ts:104-105), and a thread at rest in the last process and in    *)
(* this one was neither.                                                   *)
RestartsCountCrashes == [][restarts' > restarts => cut \/ AtWork]_vars

(* "A recovered or explicitly resumed run first answers the reply it       *)
(* stopped in" (loop.ts:627).                                              *)
RecoveredRunAnswers ==
  phase = "drained" /\ outcome = "drained" /\ recovered => Promoted = {}
=============================================================================
