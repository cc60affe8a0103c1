# codework: a verification project

TLA+ models of the parts of codework where order, concurrency and crashes
decide whether the program is right, TLC runs that check them on small
instances, and TLAPS proofs of the promises that hold for every instance.

Paths below are relative to `src/packages/` unless they start with `apps/`.

## 1. The system

codework is a coding agent. A **server process** (`codework/src/server`) hosts
one directory's **sessions**; a session has **threads**; a thread is a
conversation with a model. Clients (CLI, TUI, desktop, ACP) send prompts over
RPC; the **harness** (`harness/src`) admits them to a durable inbox, runs one
*execution* per thread that promotes them into the conversation, asks the model,
runs its tools, and commits each turn. Everything durable is in one SQLite
database behind one connection and a semaphore, so that a transaction is atomic
to every other fiber of the process; everything in memory is Effect fibers, maps
and `Ref`s that interleave at each `yield*`.

| part | state it keeps | operations | hard behaviour | what makes it correct |
|---|---|---|---|---|
| run coordinator `harness/src/runner/coordinator.ts` | map key → execution (`owner`, `done`, `pendingWake`, `stopping`) | `run`, `wake`, `interrupt`, `awaitIdle` | wakes and stops during the hooks; successors; joiners | drains of a key are serialised, no wake lost or doubled, nobody waits for ever |
| runs of a thread `runner/execute.ts`, `runner/loop.ts`, `control.ts` | maps `stoppedAt`, `recovering`, `abandoning`; columns `execution`, `restarts`, `attempt`, `run_state` | started / drain / settled hooks, stop, recover, `prompt`, `resumeUnfinished`, `sweep` | the process dies anywhere; stops race with recovery, prompts with the end of a run | an accepted prompt survives and is answered; a stop stands; crash loops end |
| inbox `inbox/inbox.ts`, `session/projector.ts` | table `inbox` | admit, update, cancel, promote | read in one transaction, publish in another | said once, as last edited, in order, never after a cancel, never forgotten |
| event log `event/event.ts` | tables `event`, `sequence`; doorbells of followers | publish, advance, `log({follow})` | a commit between a replay and the wait for a wake; pages; resumed streams | no gap, no duplicate, every row delivered |
| live subscriptions `event/event.ts`, `codework/src/server/feed.ts` | bounded queues | subscribe, notify | overflow; notification in another order than the commits | an overflow fails its subscriber only, and never shows a gap |
| turn `runner/loop.ts`, `runner/event.ts`, `runner/retry.ts`, `tool/executor.ts` | the draft entry, the attempt; the publisher's flags, its ticker, the batch of tools | request, checkpoint, retry, heal, settle tools, end a run | an interrupt or a death at any point; a late checkpoint; a draft left by a dead host | a draft has one owner and is settled once, nothing streamed is lost, a tool runs once |
| thread rows `thread/thread.ts` | thread tree, entries, leaf | append, fork, restore | a fork inherits a prefix of its parent | the line of entries is one chain |
| context `context/assemble.ts` | none | a pure pass over the entries | aborted turns, tool calls without results | every call paired with one result |
| sandbox controller `sandbox/control.ts` | status of each sandbox, leases, gate, cached transport | create, mount, refresh, wake, stop, destroy | operations race; some writes are outside the gate | no lease on a stopped sandbox |
| session feed `effect/sync.ts`, `db/store.ts`, `codework/src/server/rows.ts`; mirror `apps/server/src/{sync,mirror}.ts` | store revision; the client's copy and its cursor | write, ring, page after a revision, apply a batch, reconnect | store replaced or restored; rows change while paging; a lost connection | the copy is what the store is up to its cursor |
| clones `codework/src/server/clones.ts` | an entry per folder, fibers that run git, timers, one lock | start, cancel, retry, discard, forget | a client disconnects in the middle of a call; a stop lands before a fiber has begun, or as it ends | a clone at work can be cancelled, one writes into a folder at a time, a complete checkout is kept |
| registration and discovery `codework/src/server/{registration,discovery}.ts` | `service.json`, processes | register, watch, remove; find, start, stop, restart | several servers and callers on one directory, each looking at the file and acting on it in two steps; deaths | one server in the end, and the file names it |
| MCP servers `mcp/mcp.ts` | instances by key, their users, leases and timers; a connection and an attempt each | lease, reconcile, idle out, connect, call, disconnect | an idle timer races a lease; a stop races an attempt; settings change under a drain | one instance of a key, open while a drain holds it; no connection forgotten |
| state, settings, documents, plugins, spaces, projects, tools | documents and rows | single-statement operations, loading | little concurrency | data |
| LLM kit `aikit/`, user interfaces, RPC handlers | – | I/O, translation | – | not modelled |

How they interact: `control.prompt` → inbox `admit` (event + projector) →
`thread.mark` → coordinator `wake` → execute's hooks → loop: `promote` (events
+ projectors) → request → `TurnEnded` (projector) → coordinator settlement →
`endExecution`. Followers (`effect/session.ts`) page the event log beside it.
On start, `server.ts` sweeps what the last process left open, listens, and
forks `resumeUnfinished`.

## 2. The modules

| module | models | state ↔ code |
|---|---|---|
| `Doorbell` | what the coordinator promises: an abstract bell per key, with rings, a forced run, cancellation and closing. `Coordinator` and `ThreadRun` implement it | – |
| `Feed` | what the log promises: rows under sequences of their own, a position per follower, and what it was given. `EventLog` implements it | – |
| `Queue` | what the inbox promises: a prompt waits in one of two lanes, keeps its place, is withdrawn or said once. `Inbox` implements it | `waiting` is made of the pending rows, `said` is `entries`, `clock` is `head` |
| `Transcript` | what those who read a thread see of its replies: one is written at a time, grows, has its calls settled, ends once. `Turn` implements it | `entry`, `text`, `calls` are the tables; `answered` the replies whose `LLMEnded` is stored, `dead` those whose process died over them |
| `Coordinator` | `coordinator.ts` for one key, statement by statement between its yields | `current` is the map's entry; the fields of an `Execution` are functions over a pool of objects; a caller is a fiber inside `run`, `awaitIdle` or `interrupt` |
| `CoordinatorProofs` | proofs about it | |
| `ThreadRun` | one thread over several processes: `execute.ts`, the outline of `loop.ts`, the row of `thread.ts`, `control.prompt/interrupt/resumeUnfinished/sweep`, start and stop of the server | `mark`, `restarts`, `attempt`, `run` are columns; `phase` is the program counter of the execution's fiber; `stoppedAt`, `recovering`, `abandoning` the maps of `execute.ts` |
| `ThreadRunProofs` | proofs about it | |
| `Inbox` | `inbox.ts`, its projectors and the promotion of the loop | `row` is the table, `entries` the user messages of the conversation; `call[c]` is what a client is about to publish after its read; `step`, `cutoff`, `mode`, `selected` the locals of a promotion |
| `InboxProofs` | proofs about it | |
| `EventLog` | commit, wake, advance, `log({follow: true})` | `head` and `rows` are the tables; `pc`, `cursor`, `from`, `through`, `page`, `more`, `synced` the stream; `seen` the position a consumer keeps |
| `EventLogProofs` | proofs about it | |
| `Turn` | one run of a thread request by request: `loop.ts` inside a run, `runner/event.ts`, `runner/retry.ts`, `tool/executor.ts`, the entries of `thread.ts` a turn writes | `entry`, `text`, `calls`, `attempt` are the database; `pc` the run's fiber; `cur`, `saved`, `dirty`, `stopped`, `settled` the publisher; `tick`, `taken` its ticker; `feed`, `abort` the provider's stream; `tool`, `marked` the batch |
| `TurnProofs` | proofs about it | |
| `Sandbox` | `sandbox/control.ts` and `store.ts` for one sandbox, several fibers and a provider | `status`, `config`, `managed` are the row; `refs` and `cached` the memory; `resource` what the provider has; `pc[f]`, `held[f]`, `seen[f]` a fiber inside an operation, its lease and the status it read |
| `SandboxProofs` | proofs about it | |
| `McpPool` | the pool of `mcp/mcp.ts` for one key | `current` is the entry of `instances`; `closed`, `users`, `leases`, `armed`, `stopped`, `live`, `attempt` the fields of a running server, `stuck` an attempt that never ran; `phase`, `inflight` of a connection; `server`, `drains`, `pc`, `using` of a thread and its call |
| `McpPoolProofs` | proofs about it | |
| `StoreSync` | the index feed from a write to the desktop's copy: `db/store.ts`, `server/rows.ts`, `effect/sync.ts`, `apps/server/src/{sync,mirror}.ts` | `store` is the database, `feed` and `bell` the stream of one connection, `batch` and `due` what is under way, `cursor`, `storeId`, `copy` the mirror; `origin` and `shared` are history: where the copy was read, and what two lines of revisions have in common; `overlooked` is too: a swap the client could not tell |
| `Service` | the servers of one home and the invocations that find, start and stop them: `registration.ts`, `discovery.ts`, the layers of `server.ts`, `cli/cmd/handlers/service` | `file` is `service.json`; `stage[p]`, `port[p]`, `watch[p]` a server process and its look at the file; `pc[c]`, `goal[c]`, `found[c]`, `mine[c]`, `grace[c]` an invocation; `last`, `ended` are history |
| `Clones` | `clones.ts` for one folder, with its clients, git and the user | `phase`, `fiber`, `stalled` are the tracked entry, `timer` its retention; `job[j]` a fiber that clones; `folder` what is on the disk; `lock` is `actionLock`; `op[c]`, `at[c]` a call of a client |
| `ServerProofs` | proofs about `Service`, `Clones` and `StoreSync` | |
| `MC*` | instances for TLC | |

An action is what runs between two points where the fiber can be interleaved:
a transaction, or the statements between two `yield*`s that may suspend. Each
publish of a durable event and its projector are one step, because they are one
transaction; a read that precedes it is another. `map` in `PROJECT.json` gives
the lines of each definition. Definitions marked *Faulty* are the code with a
plausible bug; they are in no `Next`, and show that a property would notice.

**Coordinator.** `Start`, `HookStarted`, `BeginDrain`, `Redrain`, `Decide` and
`Settle` are the fiber; `Run`, `AwaitIdle`, `Wake`, `Interrupt` the callers;
`Return` the resumption of a caller whose `done` was resolved; `Close` the end of
the scope. The drain and hooks are parameters of the code, so a drain ends as it
likes. `Settle` replaces the entry, then releases the waiters, in the code's
order.

**ThreadRun** repeats of the coordinator only what it does to one key; the rest
is module `Coordinator`'s. A turn is `Promote`, `Request`, `Respond`,
`Commit`, `Follow`; a failure at any of them is `FailDrain`, an interruption
`DecideInterrupted`, a run that ends itself `IdleRun`. `Down` is the process
gone, at any point, `Boot` the next one with its sweep, `List`, `Check`,
`ClaimRestart`, `Recover` its recovery. A user's stop is `StopReads`, then `Stop`; one
that is refused takes its position back at once, or in `StopWithdraws` if its caller
awaits the settlement it found. `DraftLeft` is the draft of a dead host that a run which never came to heal
leaves where it is. `due`, `parked`, `cut`, `downs`, `fell` and `crashes` are history; `crashes` counts the
deaths in a row that a run did not survive, apart from the column the code keeps.

**Inbox.** `Admit`, `Update`, `Cancel` are the reads of the three operations,
`PublishAdmitted`, `PublishUpdated`, `PublishCancelled` the transactions, with
the conflict of the projector as a disjunct that rolls back; `Adopt` is the second
read of a lost admission and `Ring` the wake. The drain reads the lanes one after
the other, opens a turn at a cutoff, selects, and publishes one `Prompted` per
row; `Recheck` is what the code does after a conflict. After the steers the model
answers (`Answered`: the loop looks at both lanes again) or calls tools
(`CalledTools`: the next turn takes steers only). `Cut` is a stop or a failure of the
drain, `Crash` the death of the process, between any two of these steps.

**EventLog.** `ReadHead`, `ReadPage`, `Emit`, `NextPage`, `EndPass`, `Mark`,
`TakeWake`, `Target` are the stages of a stream as its consumer pulls;
`Close` and `Crash` end it, and `Follow` opens the next one after the consumer's
position.

**Turn.** Four kinds of fibers interleave. The run's goes through `Begin`, the
healing of what a dead host left (`HealsByAbort`, `HealsTools`, `HealsCall`,
`HealsTurn`), `Resumes`, `Attempt`, `Opens`, `Answered`, `Retries`, `Commits`,
`FinishesTurn` and `EndsExecution`; `Started`, `Streamed`, `Done`, `Errored` and
`Broken` are what the provider may send, `Ended` and `Failed` what the consumer
stores of it; `TickTakes` copies the reply and `TickWrites` stores the copy later;
`ToolStarts`, `ToolSettles`, `ToolIsCut` are the batch. `Interrupted` is a stop
wherever it lands, `Crash` a death, `Boot` the next host. Each projector
(`AppendDraft`, `Progress`, `ReplaceAssistant`, `AbortEntry`, `SettleToolCall`,
`CommitEntry`) has its refusal, which is a defect that kills the run: the model
records it rather than assuming it away.

**Sandbox.** What runs under the gate is one step; what runs outside it is one step
for each call of the provider and each write of the row. `Mounts` reads,
`Leases` reads again under the gate; `Inspected` and `Woken` hear, and
`UpdateObservation` writes what was heard over whatever the row has become. `Cut` ends
any operation that is interruptible where it is, `StopIsCut` the one
that is not, which puts a row back; `Drifts` is the provider, `Crash` the process.
Several fibers may create at once: each takes its reference before it knows whether the row is its own
(`Reserves`), and gives it back if it is not (`CreateRefused`).
`observed` and `orphan` are history: they name the two ways in which a claim
stops to mean something, an observation over it and an owner that is gone.

**McpPool.** `Moves` is the settlement of one thread's servers
(`ReconcileAway`, `-Join`, `-Make`, `Remove`), which runs without a yield. Whoever
needs a connection takes the lock of the instance (`Asks`, `BootAsks`), says so to
clients while it holds it, and then dials (`AskerDials`, `BootDials`); the attempt is forked,
begins (`AttemptBegins`), and
ends in `Connects` or `ConnectFails` and does not hold the lock. `CallRefused`,
`RetiresForCall` replace a connection under a call; `IdleOut`, `Controls`,
`StopRuns` close, disconnect and reconnect; a stop that hits an attempt which has not begun
skips its finalizer, and leaves the dead fiber as the attempt of the instance (`stuck`). Numbers of instances and connections are
drawn again when nothing refers to them.

**StoreSync.** `Write` and `RemoveSession` commit a revision, `Ring` rings after the
commit; `Round` fixes the head a round reads up to, `Page` sends the next rows, `Hear`
starts another round. `Ask` sends the cursor with the store's id, `Subscribe` decides
between a resumed and a full read, `Apply` writes what came up to a `Synced` in one
transaction, `Reject` drops the connection because a row refers to one that is not
there, `Lost` and `Disconnect` end it. `Recreate` and `Restore` swap the store, which need not end the socket's
connection for good: it is made again beneath the client (`apps/server/src/codework.ts:60-67`), so a question asked of one store may be answered
by the next. A swap that neither the id nor the revision of the store can tell is `overlooked`.

**Service.** A server `Binds`, `Registers`, `Serves`, and on a signal `Closes`, `Leaves`
(the finalizer reads the file) and `Removes` it. Its watch `FindsNothing` and `Rewrites`,
or `FindsAnother` and ends the server. An invocation `Reads` the file and asks the
server it names: `FindsLive` or `FindsDead` (`Retires` the file of a dead one); to stop it,
it `WaitsForExit` or `Kills`, `Reviews` the file, whether or not the server is gone by then, and `Clears` it;
a signal may never reach a server that is not this user's; to start one it
`Spawns` a contender and `Polls` until a server is there that `Adopts` it. Users start,
stop and kill servers and invocations as they like, within the processes there are.

**Clones.** A call waits for the lock (`Acquires`), and then `Claims` and `Launches` (a start),
`Stops` the fiber, `Awaits` it, looks at the entry again (`Review`) and `Empties` the folder (a
cancel or a discard), or `Retries` and `Empties`. What the user put there is refused (`"foreign"`) unless it has a `.git`
(`"repository"`). `Disconnects` is a client that goes away, which
interrupts its call where the code lets it. The fiber `Begins` by looking at the folder and `Ends` with
what git did; `Interrupt` is what a stop does to it at each of its stages, a fiber that has not begun
included, which ends without its finalizer. `Forgets` is the timer of a finished clone.

## 3. The runs

| run | instance | shows |
|---|---|---|
| Coordinator | 2 executions, 2 callers, 198 k states | `Serialized`, `NoOrphanedWaiter`; `ImplementsDoorbell`, the refinement with its fairness; `CallersAreAnswered`. Deadlock is checked |
| ThreadRunSafety | 2 prompts, 2 stops, 2 deaths, limit 2, 2.6 M states | `AcceptedIsMarked`, `StopsStand`, `CrashLoopEnds`, `IdleIsStored`, `InFlightIsADeadHosts`; `ImplementsDoorbell` |
| ThreadRunLive | 2 prompts, 1 stop, 1 death, 399 k states | `AcceptedIsAnswered` |
| InboxSafety | 2 messages, 2 texts, 2 clients, 1 drain, sequences to 3, drains cut and the process killed (`Stops`), 2.6 M states | `DeliveredOnce`; `ImplementsQueue`, the refinement; `OrderIsKept` |
| InboxLive | 2 messages, 1 text, 2 clients, 1 drain that is not cut, 856 k states | `QueueIsPromoted` |
| EventLog | 4 events (one foreign), 2 publishers, 1 follower, pages of 1, 154 k states | `ImplementsFeed`, the refinement; `EveryRowIsFollowed` |
| Turn | 2 replies of up to 2 calls and a piece of text, 1 retry, 1 stop, 1 death, 1.3 M states | `NoProjectorDies`, `DraftIsOwned`, `NothingIsLost`, `ToolsRunOnce`, `RequestsAreBounded`; `ImplementsTranscript`, the refinement; `StopIsObeyed` |
| Sandbox | 3 fibers, 1 death, 430 k states up to symmetry | `RefsAreLeases`, `LeaseExcludesStop`, `OneClaim` |
| McpPool | 2 threads, 2 instances, 2 connections, 2.4 M states up to symmetry. Deadlock is checked | `LeasesAreCounted`, `UnheldIsArmed`, `StoppedIsQuiet`; `HeldStaysOpen` |
| StoreSync | a session with a thread, pages of 1, revisions to 2, 1 swap, 1 lost connection, 337 k states | `CopyIsCurrent`; `CatchesUp` |
| Service | 2 server processes, 2 invocations, 2 ports, 1.27 M states | `LastStays`, `StoppedIsRetired`; `OneIsLeft` |
| Clones | 3 calls at once, 2 fibers, 74 k states. Deadlock is checked | `Tracked`, `OneAtWork`; `CheckoutIsKept`, `CallsReturn` |

**Bounds.** `Executions`: only one is in the map; the second is the successor
which a settlement starts, and both are drawn again. Two callers suffice for the
races between a stop and a run; more add symmetric waiters, and the proofs hold
for any number. `MaxDowns = 2` is a crash and a crash of its recovery, so that a
limit of 2 restarts is reached; `RestartLimit` is 2 instead of the code's
constant. Two prompts let one be promoted and one pending when a run stops, ends
or dies. `MaxSeq` bounds what clients publish, not what the drain does: three
events are admit, cancel, admit again or admit twice and edit. `MaxAdvance = 2`
puts a reserved prefix before, between and after the rows; pages of one make
every row a boundary, and the foreign event sits on one. In `Turn` a second reply is the
retry of the first, its recovery, or the turn after it; two calls let a stop find one
settled, one running and one not started; one retry lets a dead host have used it up, and
`RetryAfter` holds a delay the settings allow and one they do not, and `BaseDelay` is above `MaxDelay`,
so that the cap matters at the only retry. Three fibers are the
fewest with which somebody observes while one mounts and another stops, and the proofs hold
for any number, as they do for `McpPool`. Two instances are one that closes and its
successor. In `StoreSync` two revisions make a row be
written again, or a session removed, between two pages; `MaxRev = 3` without lost
connections was also checked once, and the invariant of the proof with them. In `Service` two servers are the fewest that
contend, each started by an invocation or by hand; three servers with one invocation were also checked
once, and the proofs hold for any number. In `Clones` one fiber is at work while its successor is
forked, and three calls are one that holds the lock and two that wait and disagree. Deadlock is off where the
system may come to rest (all prompts answered, the bound on deaths or sequences
used up).

**Fairness.** Weak fairness per fiber: the Effect runtime schedules every runnable
fiber, and hooks and drains end (their I/O has timeouts or can be interrupted).
Callers need not call, publishers need not publish. In `ThreadRun` a process that
ended is started again (`Boot`), one that is closing ends (`closing /\ Down`), and
the model, when it is asked again and again, at some time answers without another
tool call (`SF(Respond("final"))`): without that an agent that calls tools for ever
answers nothing, which is no fault of the code. A prompt that was admitted goes on to its mark and its wake,
also if its client is gone, since the call is "uninterruptible end to end" (`control.ts:167`). `Inbox` has the same assumption as
`SF(Answered(r))`, and its live run cuts no drain: what a stop leaves queued stays so. In `EventLog` a consumer that
keeps its stream open pulls. In `Turn` the run's fiber and its ticker go on, and a
transport that was aborted yields its last event; a provider need not answer and a tool
need not end: what a stop waits for is cut. `Sandbox` and `McpPool` promise
safety only and assume no fairness. In `StoreSync` the server goes on with its pages and hears its
bell, and the client asks, applies and reconnects; writes, swaps and losses are
bounded and need not happen. In `Service` a process goes on, its watch looks again and
again, an invocation goes on and its timeouts run out; users do nothing that they must. In `Clones` fibers go on, the timer runs out, a call that holds
the lock goes on and the lock is given in turn (`SF(Acquires(c))`: the semaphore is first in, first out);
git may hang for ever, but not once it was killed, and nobody need call. The retention of a finished clone
(30 s) is taken to outlast a call that waits to hear that its fiber is over. `CallersAreAnswered` is conditional on the clients
becoming quiet (`<>[][System]_vars`), because a thread that is woken for ever is
never idle, in the code as in the model.

**Mutants.** Each property of a passing run has a faulty variant of the code that TLC must find
violating it under the same configuration (`mutants` in `PROJECT.json`).

## 4. What is proved

`CoordinatorProofs`, for any pool of executions and any set of callers:

* `TypeCorrect`, `SerializedDrains`, `NoWaiterIsOrphaned` from the inductive
  invariant `IInv == TypeOK /\ MapHoldsTheLive /\ NoOrphanedWaiter`. That the
  live execution is the one of the map is needed to know that `settle` releases
  every waiter: a waiter elsewhere would be forgotten.
* `JoinersReplay` and `LateRuns`, action properties from the same invariant.
* `Refinement`: every step of the coordinator is a step of `Doorbell` or a
  stutter (its safety part; the fairness of the refinement is checked by TLC).

`InboxProofs`, for any sets of messages, texts, clients and drains, and any
bound:

* `TypeCorrect`, `SaidOnce`, `FirstWins`, `CancelsStand` from `IInv == TypeOK /\
  Bounds /\ DeliveredOnce /\ NotBoth /\ CancelStands`. The three promises need
  one another: a pending row is in no conversation (`DeliveredOnce`), so editing
  or cancelling it touches no entry. `Bounds` (no cancel is later than the head of
  the log) makes an admission later than the cancel it follows. What a client or a
  drain read earlier plays no part, so the proof holds for *any number of drains at
  once*: the compare-and-set of the projectors suffices, whatever the coordinator
  does.
* `LanesKeepTheirOrder` (`OrderIsKept`) from `OInv == TypeOK /\ Clock /\ Held /\ Line`. What a turn
  selected was read before others edited, withdrew or admitted again. `Line` says of each selected prompt
  that its row, if it reads differently by now, was edited or admitted after the cutoff (`Aged`), and that
  whoever is due before it was edited since or is selected too (`NoneSkipped`); the cutoff stands while
  anything is selected (`Held`).

* `Refinement` (`ImplementsQueue`) from `IInv`. A read, a conflict, a wake, a stop and a death are stutters, and a commit that
  goes through is the step of its operation (`AdmittedEnqueues`, `UpdatedEdits`, `CancelledWithdraws`, `PromptedSays`). Which
  commit goes through is decided by the row inside the transaction, so what a client or a drain still holds to be true may
  be stale. `CommitLeaves` and `CommitWaits` say what a commit does to the set of pending rows. The order in which the
  queue is served is no part of it; `OrderIsKept` is.

`EventLogProofs`, for any events, publishers, followers and size of a page:

* `TypeCorrect`, `UniqueSequences`, `WholePrefix` (`SeenIsWhole`) and `Refinement`
  (`ImplementsFeed`) from `IInv == TypeOK /\ PagesAreFinite /\ Table /\ \A f :
  Follows(f)`. `SeenIsWhole` is not inductive: the cursor runs ahead of what was
  given when a pass ends, and a page holds rows that were read and not given.
  `Follows` says of each stage of a stream where the rows are that its consumer
  still lacks: on the page, or above `from` if there is another. `Table` (no row is
  above the head) makes a commit invisible to all that was read before
  (`IdleFollows`). `LowestPage` is the lemma about one page: it precedes what it leaves
  out, and leaves nothing out silently. The refinement then goes step by step: a publish
  is an `Append` (`PublishAppends`), a row that is emitted the next one (`EmitsNext`, `EmitGives`), and the marker moves the
  position over nothing that could be read (`MarkMovesOn`); every other step of a stream, its close and a crash leave the
  feed alone.

`SandboxProofs`, for any finite set of fibers and any number of deaths:

* `TypeCorrect`, `References` (`RefsAreLeases`), `LeasesExcludeStops` and
  `ClaimsExclude` (`OneClaim`) from `IInv == TypeOK
  /\ Placed /\ Created /\ Counted /\ Claimed /\ Kept`. A claim excludes leases because who
  takes one needs a status nobody works under and who claims counts the
  references; for that the count must be exact (`Counted`), which needs that each
  place of a fiber tells whether it holds a lease (`Placed`), and that the one who
  creates the row is alone with it (`Created`). `Placed` also says that who is not at work holds
  none, so a lease that a cut leaves behind is noticed. `Kept` says that a claimed row has
  somebody at work on it, except the orphans of section 5.

`McpPoolProofs`, for any finite set of threads and any numbers of instances and
connections:

* `Leases` (`LeasesAreCounted`), `OneRuns` (`OneInstance`), `Unheld`
  (`UnheldIsArmed`) and `HeldIsOpen` (`HeldStaysOpen`). A drain is counted where its
  thread is, because whoever moves takes along what it brought. So an instance that
  a drain holds has a lease, which stops its timer, and a user, which stops any
  other thread that leaves from being the last one.
* `ConnectionsAreKnown` (`NoConnectionIsLost`), `StoppedStaysQuiet`
  (`StoppedIsQuiet`) and `CallsAreFinished` (`CallsAreNotCutOff`). An attempt and a
  current connection exclude each other (`Attached`), so a new attempt leaves none
  behind. An instance that was stopped has nobody who announced a connection
  (`Guarded`, stronger than `StoppedIsQuiet`), because the stop waits for the lock.
  The calls on a connection are counted exactly (`CallsAreCounted`), and there are
  none on one that is gone (`Carried`), so a retired one goes with its last call
  and not before.
* `TypeCorrect`, and all of these from one `IInv`, the conjunction of `TypeOK`, `Placed`,
  `LeasesAreCounted`, `CallsAreCounted`, `OneInstance`, `UnheldIsArmed`, `Attached`,
  `Guarded`, `NoConnectionIsLost` and `Carried`. No count goes below zero only
  because it is a cardinality: types and counts need one another.

`TurnProofs`, for any number of replies, calls, pieces of text, retries, stops and deaths, and any delays:

* `ProjectorsAccept` (`NoProjectorDies`), `DraftsAreOwned` (`DraftIsOwned`), `RepliesAreWhole` (`NothingIsLost`),
  `ToolsAreRunOnce` (`ToolsRunOnce`), `RequestsAreFew` (`RequestsAreBounded`), `BackoffsAreBounded` (`BackoffIsBounded`) and
  `TypeCorrect`, all from one `IInv == Types /\ StreamInv /\ PublisherInv /\ DraftInv /\ OwnerInv /\ BatchInv /\ SentInv /\
  RunInv /\ RepliesInv /\ NoProjectorDies`. A projector refuses what does not go on from what is stored, so that none
  refuses needs that, until the publisher is settled, the draft holds exactly what the last checkpoint wrote, and what the ticker
  is writing lies between that and what was said (`DraftInv`); that needs that no ticker outlives the publisher
  (`PublisherInv`) and that the draft is the one of the request at hand or, after a death, of the run that heals
  (`OwnerInv`). The journal then holds all that was said when the publisher is settled, which is before the reply is
  committed. A call is open exactly until it is marked (`BatchInv`), so none is settled twice or run twice. The requests
  sent are no more than the attempt in the row of the thread and than the count in memory (`SentInv`), whatever a death forgets.
* `Refinement` (`ImplementsTranscript`) from `IInv` and `LifeInv`. Each projector is one step of the transcript (`ProgressGrows`,
  `ReplaceAssistantGrows`, `AbortEntryAborts`, `SettleToolCallSettles`, `CommitEntryCommits`), a death is `Die`, and all else is
  unseen (`FiberUnseen`, `OtherUnseen`). No table forbids a second draft (`selectDraft` takes whichever it finds), an abort rewrites
  the parts of its entry whatever became of them, and a checkpoint adds to whatever is stored: that there is one draft, that an
  abort loses no result and that a checkpoint only adds come from the order of the steps alone. `LifeInv` is what that needs: a draft
  has settled calls only where no request is in flight, in the row as in memory, and one that a live process writes is
  neither ended nor a dead process's until its publisher is settled. What a provider sends of a reply is taken to grow only.
  `Transcript!Commit` allows the reply of a dead process that never ended, as section 6 says the code does.

`ServerProofs`, about three modules:

* `Service`, for any set of numbered servers, any callers and any ports but none: `TheLastStays` (`LastStays`),
  `StoppedForGood` (`StoppedIsRetired`) and `TypeCorrect` from `IInv == TypeOK /\ WatchesLater /\ FileIsLast /\ LastStays /\
  InHand /\ StoppedIsRetired`. The file, where there is one, names who wrote it last (`FileIsLast`), and nobody watches it
  before it has written (`WatchesLater`), so whoever finds another is not the last. What an invocation reviews is gone
  (`InHand`), and what is gone writes no more.
* `Clones`, for any callers and any fibers: `AlwaysTracked` (`Tracked`), `Exclusive` (`OneAtWork`), `CheckoutsAreKept`
  (`CheckoutIsKept`) and `CloneTypeCorrect` from `CInv == CloneTypeOK /\ Locked /\ LiveIsRecorded /\ ClaimHolds /\
  NobodyWrites /\ TimerIsDone`. A call beyond the lock holds it (`Locked`), so while one empties the folder no other
  launches; and its entry is then neither done nor gone (`NobodyWrites`), so nothing that was said to be done is
  removed. A running entry lacks a fiber only inside a start that cannot be interrupted any more (`ClaimHolds`).
* `StoreSync`, for any sessions and threads, any size of a page and any number of revisions, swaps and lost connections:
  `CopiesAreCurrent` (`CopyIsCurrent`) and `SyncTypeCorrect` from `SInv == SyncTypeOK /\ SharedInv /\ BackupInv /\ (every
  database is Settled) /\ CopyInv /\ DueInv /\ FeedInv`. The promise is about the store of now, but a backup may become the
  store later, with batches of another line still waiting: so the invariant says of *every* database that goes on from where
  something was read (`Continues`) that the copy matches it up to the cursor (`CopyInv`), and that a batch has all of it
  beyond the copy it is for, each row as that database has it or older than what it has (`DueOK`). `FeedInv` says the same
  of a round under way: what lies between its start and its place was sent. Three facts carry it: a write goes beyond
  every revision read before (`Grows`, `ReadsStay`, `ItemsStay`), what is deleted stays so (`Settled`), and what two lines share
  with a third they share with each other (`SharedInv`), so a batch that goes on from where the copy was read agrees with it
  below the cursor. `PageIsFirst` is the lemma about `FirstOf`: a page has the first rows, and is the rest if it is not full.

`ThreadRunProofs`, for any prompts and stoppers, any number of deaths and any limit:

* `TypeCorrect`, `CrashLoopsEnd` (`CrashLoopEnds`), `IdlesAreStored` (`IdleIsStored`),
  `DeadHostsLeaveThem` (`InFlightIsADeadHosts`) and `StopsAreFinal` (`StopsStand`) from `IInv`. A restart is claimed
  once after each death (`Counted`), the flags are those of the recovery of this process (`Fresh`), a
  request in flight is of the run at it or a dead host's (`InFlight`), and nothing is parked in a thread that is
  marked or that a recovered run goes on with (`ParkedIsUnmarked`). `CrashLoopEnds` is about the crashes
  themselves, so it also needs that the column does not lag behind them (`Tolled`, an invariant on top of `IInv`) and that what a
  run finds resumable is below the limit (`Resumable`).
* `AcceptedAreMarked` (`AcceptedIsMarked`) from `IInv /\ MInv`, for clients that send each prompt once
  (`~Resends`). A run clears its mark when it is through; that this forgets nobody needs that nothing
  *promoted* is owed by then (`OwedIsQueued`) and that what is only queued keeps the mark or is parked. A client that
  repeats a prompt breaks it: the repetition wakes a thread with nothing queued, and after a crash the run it wakes can
  end, and clear the mark, before the recovery lets it answer (`RecoveredRunAnswers`, section 6).
* `Refinement` (`ImplementsDoorbell`): `ThreadRun` repeats what the coordinator does to one key, with the hooks and the
  drain it is given spelled out, so it owes what the coordinator owes. A drain is a `StartDrain` when it opens
  (`DrainOpens`), its steps are stutters (`DrainGoesOn`), a prompt that wakes and a recovery are a `Ring` or an `Ask`
  (`ForkRings`, `AcceptBell`), and a stop or a shutdown claims what was rung (`ClaimSilences`). `Doorbell!Crash` is no step of the
  doorbell's own `Next`: only a step that takes the process down may be one.

Assumed: that `None` is no execution, fiber or caller, `Unsent` is no text, that servers are
numbered from 1 and ask for some port, that bounds and delays are naturals and a truncated reply is
allowed at least once, that a thread is of a session there is, that `Stops` and `Resends` are
Booleans, that the foreign events are events, that a page holds at least one row, and that the
fibers of a sandbox and the threads of a pool are finitely many; TLC evaluates each. The type
invariants of these ten modules (all but `Doorbell`, `Feed`, `Queue` and `Transcript`, which others implement)
are proved and therefore not run. `CallsAreNotCutOff`, `CancelStands`, `OneInstance`, `NoConnectionIsLost`,
`SeenIsWhole`, `SequencesAreUnique`, `BackoffIsBounded`, `LateRunIsNotStopped` and
`JoinersReplayTheExit` are proved only. Every invariant and every action property that a run checks is also a theorem. Liveness, with
the fairness of the coordinator's refinement, is model-checked only: it needs `ENABLED` and well-
founded arguments that are out of this prover's reach.

## 5. What is not modelled

* In `ThreadRun`: `Control.resume`, deletion of sessions, child threads, the two
  lanes of prompts (they are in `Inbox`), and what a request and its tools do
  inside a turn. A database write that fails is a defect of its fiber in the code
  and is not modelled.
* In `Inbox`: the client's answers are reduced to whether they wake the thread;
  the time of admission, which the projector also compares, is left out, since two
  admissions may share a millisecond. The live run has one text: with two, the
  disagreement of `PromotionNeverDies` ends a drain, and with it the promise.
* In `EventLog`: schemas and encoding; the subscriptions in memory.
* In `Turn`: what a request is made of (`context/assemble.ts`), hooks of plugins beyond what
  they may decide, telemetry, and events that are only live.
* In `Sandbox`: drivers and transports, the archival of a removed sandbox's
  sessions, `register` finding a resource that is known, and the host sandbox. A provider answers, fails or is silent as it likes. Three observations
  of the code that no property is about: a `refresh` of a removed row turns `removed` into
  `unavail` (`isStale`, `plugin/src/sandbox/instance.ts:79-83`, lets it); a stop of a row that a
  failed creation left `faulted` strands it in `suspending`; a destroy that is interrupted leaves `removing`. The last
  two are in `orphan`.
* In `McpPool`: what clients are told of a server (but not the time it takes), sign-in, which
  is an input, the tools a server lists, and the protocol below it. One name per thread: the
  servers of a thread differ in nothing else.
* In `StoreSync`: projects and spaces, which are rows that are never deleted; the detail of an opened thread
  (`thread.sync`); `settle`; and the check that the answering server owns the machine. Read in the code and not
  modelled: `applied` is not reset when the store is swapped, so `settle` (`sync.ts:347`) may return at once; the
  entries of a thread that vanished with a swapped store stay in the client's `entry` table; `unseen` may hide a row that was
  touched between two pages until the next round.
* In `Service`: `StoppedIsRetired` is about signals that reach the server: one that is still there after the second wait
  of `discovery.ts:181-187` is passed over, as in the code. Process ids, which are not used again; what a server does between its start and its listener (in
  `ThreadRun`), the versions of builds (a caller may find another build or its own), and the text of the log.
* In `Clones`: other folders, which share only the lock and the map; the stream of snapshots to clients, `guard`,
  the words of git and its URLs, and the shutdown of the server. The user writes only into a folder that is empty, and takes
  away only what is complete. A retry marks the entry and launches in one step, since nothing suspends between.
* Not at all: the parts with status `not_modelled` in `PROJECT.json`, each with its reason there. The
  LLM kit, the user interfaces, plugins and the RPC handlers are I/O and translation; they are most of the repository's lines,
  and nothing in them is shared between fibers for longer than a call.

## 6. Where the code and its comments disagree

No run expects a violation: all runs are of promises that hold. Each of the following was found by a run of
the module whose property still states it, which is not kept, to leave room for those:

| property | comment | what happens |
|---|---|---|
| `ThreadRun!AcceptedSurvives` | `control.ts:145` "a prompt accepted here survives a crash before its run starts" | a run that ends itself clears the mark of a prompt marked just before; the coordinator drains again without the started hook, and a crash then forgets it |
| `ThreadRun!FirstStopKeepsPosition` | `execute.ts:209` "The first stop of a run sets its position" | two stops pass the test together; the later one replaces or deletes the position of the first |
| `ThreadRun!EndedStaysIdle` | `loop.ts:261` "Ends a run that is not resumed" | a shutdown during `endRun` marks the thread again, and the next start resumes it |
| `ThreadRun!RestartsCountCrashes` | `control.ts:104` "One a crash cut off counts a restart, one a shutdown closed does not" | a thread that failed with prompts queued and then sat idle counts a restart after an orderly stop |
| `ThreadRun!RecoveredRunAnswers` | `loop.ts:627` "A recovered … run first answers the reply it stopped in" | a repeated prompt wakes the thread with nothing pending; the recovery joins that run and is ended unanswered |
| `Inbox!PromotionNeverDies` | `inbox.ts:547` "Promoted by someone else, cancelled, re-admitted or updated since it was selected" | an edit that is taken back before the second read leaves the row equal, and the drain dies with the conflict |
| `Turn!CommittedReplyEnded` | `thread.ts:968` "only a dead host leaves one", `loop.ts:214-217` | a run that was ended before it came to heal (a stop, a shutdown, a sandbox that is gone) clears the attempt of the dead host; its draft stays, and the next run commits a half-streamed reply with a tool call as one that ended |
| `Sandbox!ClaimsBlockMounts` | `instance.ts` "`suspending` and `removing` … blocking a concurrent mount mid-destruction" | an observation written outside the gate puts a claimed row back to `online`, and it can be mounted while it is being stopped |
| `McpPool!NoneStandsIn` | `mcp.ts:645-647` "the finished fiber would stand in for every retry" | the attempt clears itself only if it began; a disconnect between the fork and its first step (it yields first) kills it unstarted, and the instance keeps a dead fiber as its attempt: until it is made anew, each retry gets that one |
| `Clones!UserFilesAreKept` | `clones.ts:351` "refuses one holding files git did not write" | the test is for a `.git`: a repository the user put into the folder of a failed clone is emptied with it |
| `StoreSync!RestoredIsReread` | `sync.ts:46` "A new or restored store is read again from zero" | a backup is recognised only by a revision below the cursor; one that is not below it (written to since, or restored to the head a round was read at) is resumed, and rows at or below the cursor are never sent. A thread whose session the copy lacks is then rejected again and again. A swap between `server.info` and `index.sync`, over a socket that is made again by itself, is not seen either. `CatchesUp` says that every other swap is |

Noticed while reading: a client that loses an admission whose winner was cancelled
before the second read is refused, though `inbox.ts:336-337` says that a row still
cancelled means that no admission won. The sweep of a server runs before its listener binds
(`server.ts:56-57`, `108`) and nothing locks the home: a second `codework serve` on it, also one that then fails
to bind, marks the runs of the living server as crashed, though `session/schema.ts:14` says of `crash` that the
process that ran the execution died; and a newcomer on another port resumes them too, until the other server finds
its file taken and ends. A discard that interrupts
a fiber of a clone that has not begun, and whose client disconnects while the folder is emptied, leaves an entry that
says running behind a dead fiber, which a cancel takes care not to (`clones.ts:622`, "so no running snapshot is left
behind a dead fiber"); a later cancel repairs it. The desktop "syncs a thread's detail until every open is
closed" (`apps/server/src/sync.ts:33`), but a window that opens a thread while the last close still awaits its fiber
finds the thread claimed and starts none, so it stays without a sync until the index applies its next batch; and one
that is closed between the read of the opened ids and the claim (`startOpened`) keeps a sync nobody has open.

## 7. What is left

In order of what could go wrong most, and most unnoticed:

1. `Subscriptions`: the live queues of `event.ts` with the feed of the server, whose promise is that an overflow
   shows as a failure and never as a gap.
2. The detail of one thread (`thread.sync`: floors and deltas) beside `StoreSync`.
3. `ThreadLine` and `ContextAssembly`: the chain of entries under forks, and the pass
   that assembles a request, against a reference definition on bounded inputs.

What a new module needs in runs, an older one gives up: those of one module are merged into
one configuration, and a type invariant that is proved is not run.
