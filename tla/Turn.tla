-------------------------------- MODULE Turn --------------------------------
(***************************************************************************)
(* One run of a thread, request by request: what a provider streams is     *)
(* checkpointed into a draft entry, the draft is settled once, a failed    *)
(* request is retried, tools run and are settled one by one, and a stop or *)
(* the death of the process may come between any two of these steps.       *)
(*                                                                         *)
(* Four kinds of fibers interleave: the run itself (harness/src/runner/    *)
(* loop.ts), the consumer of the provider's stream (llm.ts), the ticker    *)
(* that writes checkpoints (event.ts) and the tools of a batch.  What is   *)
(* promoted before a turn is module Inbox's, the marks of the thread are   *)
(* module ThreadRun's; here a run may find work or not, as it likes.       *)
(***************************************************************************)
EXTENDS Naturals, FiniteSets

CONSTANTS
  MaxCalls,         \* bound: tool calls in a reply
  MaxReplies,       \* bound: entries a provider starts, over all requests
  MaxChunks,        \* bound: pieces of text in a reply
  MaxRetries,       \* retry.maxRetries of the settings
  BaseDelay,        \* retry.baseDelayMs
  MaxDelay,         \* retry.maxDelayMs
  RetryAfter,       \* delays a provider may ask for; 0 for none
  TruncationLimit,  \* TRUNCATION_LIMIT
  MaxStops,         \* bound: stops
  MaxCrashes        \* bound: deaths of the process

ASSUME RetryAssumption ==
  /\ MaxRetries \in Nat /\ BaseDelay \in Nat /\ MaxDelay \in Nat
  /\ RetryAfter \subseteq Nat
ASSUME BoundsAssumption ==
  /\ MaxReplies \in Nat /\ MaxCalls \in Nat /\ MaxChunks \in Nat
  /\ TruncationLimit \in Nat \ {0}
  /\ MaxStops \in Nat /\ MaxCrashes \in Nat

Replies == 1 .. MaxReplies
Calls   == 1 .. MaxCalls        \* in the order a reply holds them
Nobody  == 0                    \* no reply started: startedMessageId undefined

(* What a provider has sent of a reply, or a checkpoint has taken of it.   *)
Content == [text : 0 .. MaxChunks, calls : SUBSET Calls]
Nothing == [text |-> 0, calls |-> {}]

Fatal   == [transient |-> FALSE, asked |-> 0]
Errors  == {Fatal} \cup [transient : {TRUE}, asked : RetryAfter \cup {0}]
HostStopped == [transient |-> TRUE, asked |-> 0]

VARIABLES
  \* The thread's entries and its row, in the database.
  entry,       \* [Replies -> "absent" | "draft" | "committed" | "aborted"]
  text,        \* [Replies -> pieces of text stored]
  calls,       \* [Replies -> [Calls -> "none" or the status of the part]]
  attempt,     \* thread.attempt; 0 is NULL
  \* The run's fiber.
  pc,          \* where it is
  carried,     \* the attempt the last host died with; 0 if none
  retries,     \* failed requests of this turn
  error,       \* why the request failed that is to be retried
  delay,       \* the backoff being slept
  truncations, \* truncated replies in a row
  stop,        \* an interrupt is pending
  \* The publisher of the latest request.
  cur,         \* startedMessageId
  saved,       \* checkpointed: what the last checkpoint wrote
  dirty, stopped, settled,
  \* Its ticker.
  tick,        \* "none" | "asleep" | "writing"
  taken,       \* the copy being written
  \* The consumer of the provider's stream.
  feed,        \* "none" | "open" | "ending" | "failing" | "aborting",
               \* or how it exited: "ended" | "failed" | "aborted"
  abort,       \* the transport's abort signal
  \* The tools of the batch.
  tool,        \* [Calls -> "idle" | "running" | "over"]
  marked,      \* the calls in `settled` of settleTools
  \* Bounds and history.
  stops, crashes,
  said,        \* [Replies -> all the provider has sent of it]
  ended,       \* [Replies -> how its end was stored, or "no"]
  ran,         \* [Replies -> [Calls -> how often the tool was run]]
  sent,        \* requests sent since a reply ended, a turn asked nothing,
               \* or a run settled
  healed,      \* some run has looked for a draft since the last death
  cutShort,    \* replies whose process died while they were drafts
  defect       \* a projector refused an event: the fiber died

journal   == <<entry, text, calls>>
run       == <<carried, retries, error, delay, truncations>>
publisher == <<cur, saved, dirty, stopped, settled>>
ticker    == <<tick, taken>>
consumer  == <<feed, abort>>
batch     == <<tool, marked>>
bounds    == <<stops, crashes>>
history   == <<said, ended, ran, healed, cutShort>>
vars      == <<journal, attempt, pc, run, stop, publisher, ticker, consumer,
               batch, bounds, history, sent, defect>>

Outside == {"off", "idle"}
TypeOK ==
  /\ entry \in [Replies -> {"absent", "draft", "committed", "aborted"}]
  /\ text \in [Replies -> 0 .. MaxChunks]
  /\ calls \in [Replies ->
       [Calls -> {"none", "pending", "done", "skipped", "aborted"}]]
  /\ attempt \in 0 .. MaxRetries + 1
  /\ pc \in {"off", "idle", "begun", "healing", "healed", "resting", "turn",
             "again", "opening", "await", "drain", "failed", "retry",
             "backoff", "abort", "tools", "cut", "skip", "turned", "ending"}
  /\ carried \in 0 .. MaxRetries + 1 /\ retries \in 0 .. MaxRetries + 1
  /\ error \in Errors /\ delay \in Nat /\ truncations \in 0 .. TruncationLimit
  /\ cur \in Replies \cup {Nobody} /\ saved \in Content /\ taken \in Content
  /\ {stop, dirty, stopped, settled, abort, healed, defect} \subseteq BOOLEAN
  /\ tick \in {"none", "asleep", "writing"}
  /\ feed \in {"none", "open", "ending", "failing", "aborting",
               "ended", "failed", "aborted"}
  /\ tool \in [Calls -> {"idle", "running", "over"}] /\ marked \subseteq Calls
  /\ stops \in 0 .. MaxStops /\ crashes \in 0 .. MaxCrashes
  /\ said \in [Replies -> Content]
  /\ ended \in [Replies -> {"no", "stop", "length", "toolUse"}]
  /\ cutShort \subseteq Replies
  /\ ran \in [Replies -> [Calls -> Nat]] /\ sent \in Nat

-----------------------------------------------------------------------------
(* Retries.                                                                *)

Smaller(a, b) == IF a < b THEN a ELSE b
Larger(a, b)  == IF a < b THEN b ELSE a

(* Retry n of a request is given up: too many, not transient, or the       *)
(* provider asks for more patience than the settings allow.                *)
GivesUp(n, e) == n > MaxRetries \/ ~e.transient \/ e.asked > MaxDelay

Delay(n, e) == Larger(Smaller(BaseDelay * 2 ^ (n - 1), MaxDelay), e.asked)

-----------------------------------------------------------------------------
(* The projectors of a turn.  Each is one transaction with its event; one  *)
(* that finds an entry it does not expect dies, and nothing is written.    *)

Draft(m)   == entry[m] = "draft"
Pending(m) == {c \in Calls : calls[m][c] = "pending"}
Stored(m)  == [text |-> text[m], calls |-> {c \in Calls : calls[m][c] # "none"}]

Dies == defect' = TRUE /\ UNCHANGED <<journal>>

(* LLMStarted.                                                             *)
AppendDraft(m) ==
  /\ entry' = [entry EXCEPT ![m] = "draft"]
  /\ UNCHANGED <<text, calls, defect>>

(* LLMProgress: grown text is appended, a new part is written whole.       *)
Progress(m, from, to) ==
  IF Draft(m)
  THEN /\ text' = [text EXCEPT ![m] = @ + (to.text - from.text)]
       /\ calls' = [calls EXCEPT ![m] = [c \in Calls |->
            IF c \in to.calls \ from.calls THEN "pending" ELSE @[c]]]
       /\ UNCHANGED <<entry, defect>>
  ELSE Dies

(* LLMEnded: the final message replaces what the draft holds, and no       *)
(* request is in flight any more.                                          *)
ReplaceAssistant(m, content) ==
  IF Draft(m)
  THEN /\ text' = [text EXCEPT ![m] = content.text]
       /\ calls' = [calls EXCEPT ![m] =
            [c \in Calls |-> IF c \in content.calls THEN "pending" ELSE "none"]]
       /\ attempt' = 0
       /\ UNCHANGED <<entry, defect>>
  ELSE Dies /\ UNCHANGED attempt

(* LLMFailed: the draft ends as aborted, with the calls it holds aborted.  *)
AbortEntry(m, content) ==
  IF Draft(m)
  THEN /\ entry' = [entry EXCEPT ![m] = "aborted"]
       /\ text' = [text EXCEPT ![m] = content.text]
       /\ calls' = [calls EXCEPT ![m] = [c \in Calls |->
            IF c \in content.calls THEN "aborted" ELSE "none"]]
       /\ UNCHANGED defect
  ELSE Dies

(* ToolSettled: one pending call of a draft gets its terminal part.        *)
SettleToolCall(m, c, status) ==
  IF Draft(m) /\ calls[m][c] = "pending"
  THEN /\ calls' = [calls EXCEPT ![m][c] = status]
       /\ UNCHANGED <<entry, text, defect>>
  ELSE Dies

(* TurnEnded: a draft all of whose calls are settled is committed.         *)
CommitEntry(m) ==
  IF Draft(m) /\ Pending(m) = {}
  THEN /\ entry' = [entry EXCEPT ![m] = "committed"]
       /\ attempt' = 0
       /\ UNCHANGED <<text, calls, defect>>
  ELSE Dies /\ UNCHANGED attempt

-----------------------------------------------------------------------------
(* The provider's stream and its consumer.                                 *)

(* The stream starts: the draft is stored, then named by the publisher.    *)
Started(m) ==
  /\ feed = "open" /\ cur = Nobody /\ entry[m] = "absent"
  /\ \A n \in Replies : n < m => entry[n] # "absent"
  /\ AppendDraft(m) /\ cur' = m
  /\ UNCHANGED <<attempt, pc, run, stop, saved, dirty, stopped, settled,
                 ticker, consumer, batch, bounds, history, sent>>

(* A piece of the reply arrives: observe() notes it and wakes the ticker.  *)
Observe(content) ==
  /\ said' = [said EXCEPT ![cur] = content]
  /\ dirty' = (dirty \/ ~stopped)
  /\ tick' = IF tick = "none" /\ ~stopped THEN "asleep" ELSE tick

Streamed ==
  /\ feed = "open" /\ cur # Nobody
  /\ \/ /\ said[cur].text < MaxChunks
        /\ Observe([said[cur] EXCEPT !.text = @ + 1])
     \/ \E c \in Calls \ said[cur].calls :
          /\ \A d \in Calls : d < c => d \in said[cur].calls
          /\ Observe([said[cur] EXCEPT !.calls = @ \cup {c}])
  /\ UNCHANGED <<journal, attempt, pc, run, stop, cur, saved, stopped, settled,
                 taken, consumer, batch, bounds, ended, ran, healed, cutShort,
                 sent, defect>>

(* "done": the publisher stops its ticker before it stores the end.        *)
Done ==
  /\ feed = "open" /\ cur # Nobody /\ feed' = "ending"
  /\ stopped' = TRUE /\ dirty' = FALSE
  /\ UNCHANGED <<journal, attempt, pc, run, stop, cur, saved, settled, ticker,
                 abort, batch, bounds, history, sent, defect>>

(* The reply ended, for a reason: it is complete, cut off at the output    *)
(* limit, or calls tools.                                                  *)
Ended ==
  /\ feed = "ending" /\ tick = "none"
  /\ ReplaceAssistant(cur, said[cur])
  /\ settled' = TRUE /\ feed' = "ended" /\ sent' = 0
  /\ \E reason \in {"stop", "length", "toolUse"} :
       ended' = [ended EXCEPT ![cur] = reason]
  /\ UNCHANGED <<pc, run, stop, cur, saved, dirty, stopped, ticker, abort,
                 batch, bounds, said, ran, healed, cutShort>>

(* "error", from the provider or because the signal was aborted.           *)
Errored ==
  /\ feed = "open" /\ stopped' = TRUE /\ dirty' = FALSE
  /\ \/ feed' = "failing"
     \/ abort /\ feed' = "aborting"
  /\ UNCHANGED <<journal, attempt, pc, run, stop, cur, saved, settled, ticker,
                 abort, batch, bounds, history, sent, defect>>

Failed ==
  /\ feed \in {"failing", "aborting"} /\ tick = "none"
  /\ IF cur # Nobody THEN AbortEntry(cur, said[cur])
                     ELSE UNCHANGED <<journal, defect>>
  /\ settled' = TRUE
  /\ feed' = IF feed = "failing" THEN "failed" ELSE "aborted"
  /\ UNCHANGED <<attempt, pc, run, stop, cur, saved, dirty, stopped, ticker,
                 abort, batch, bounds, history, sent>>

(* The iterator throws, or ends without a terminal event: the publisher    *)
(* hears nothing.                                                          *)
Broken ==
  /\ feed = "open" /\ feed' = "failed"
  /\ UNCHANGED <<journal, attempt, pc, run, stop, publisher, ticker, abort,
                 batch, bounds, history, sent, defect>>

-----------------------------------------------------------------------------
(* The ticker.                                                             *)

TickTakes ==
  /\ tick = "asleep" /\ ~stopped /\ tick' = "writing"
  /\ dirty' = FALSE /\ taken' = said[cur]
  /\ UNCHANGED <<journal, attempt, pc, run, stop, cur, saved, stopped, settled,
                 consumer, batch, bounds, history, sent, defect>>

(* It publishes what has grown, unless the copy is no valid message yet,   *)
(* and goes on only if more came meanwhile and nobody stopped it.          *)
TickWrites ==
  /\ tick = "writing"
  /\ \/ Progress(cur, saved, taken) /\ saved' = taken
     \/ UNCHANGED <<journal, saved, defect>>
  /\ tick' = IF dirty THEN "asleep" ELSE "none"
  /\ taken' = Nothing
  /\ UNCHANGED <<attempt, pc, run, stop, cur, dirty, stopped, settled,
                 consumer, batch, bounds, history, sent>>

TickStops ==
  /\ tick = "asleep" /\ stopped /\ tick' = "none"
  /\ UNCHANGED <<journal, attempt, pc, run, stop, publisher, taken, consumer,
                 batch, bounds, history, sent, defect>>

-----------------------------------------------------------------------------
(* The run: what the last host left, then one turn after the other.        *)

quiet == <<consumer, ticker>>      \* no step of the run moves these

Goto(label) == pc' = label

(* A run begins, because the thread was woken or recovered.                *)
Begin ==
  /\ pc = "idle" /\ Goto("begun")
  /\ carried' = attempt /\ truncations' = 0
  /\ UNCHANGED <<journal, attempt, retries, error, delay, stop, publisher,
                 quiet, batch, bounds, history, sent, defect>>

Drafts == {m \in Replies : Draft(m)}

(* No draft was left, or it is settled now.                                *)
HealsNothing ==
  /\ pc = "begun" /\ ~stop /\ Drafts = {}
  /\ Goto("healed") /\ healed' = TRUE
  /\ UNCHANGED <<journal, attempt, run, stop, publisher, quiet, batch, bounds,
                 said, ended, ran, cutShort, sent, defect>>

(* A request was in flight, or the reply holds no call: it is aborted.     *)
(* Faulty: a reply that calls tools may be aborted too.                    *)
HealsByAbortAlways ==
  /\ pc = "begun" /\ ~stop
  /\ \E m \in Drafts : AbortEntry(m, Stored(m))
  /\ Goto("healed") /\ healed' = TRUE
  /\ UNCHANGED <<attempt, run, stop, publisher, quiet, batch, bounds, said,
                 ended, ran, cutShort, sent>>
HealsByAbort ==
  /\ pc = "begun" /\ ~stop
  /\ \E m \in Drafts :
       /\ carried # 0 \/ Stored(m).calls = {}
       /\ AbortEntry(m, Stored(m))
  /\ Goto("healed") /\ healed' = TRUE
  /\ UNCHANGED <<attempt, run, stop, publisher, quiet, batch, bounds, said,
                 ended, ran, cutShort, sent>>

(* The calls of a reply that ended are settled, in a region no interrupt   *)
(* enters, and the turn is committed.                                      *)
HealsTools ==
  /\ pc = "begun" /\ ~stop
  /\ \E m \in Drafts : carried = 0 /\ Stored(m).calls # {} /\ cur' = m
  /\ Goto("healing")
  /\ UNCHANGED <<journal, attempt, run, stop, saved, dirty, stopped, settled,
                 quiet, batch, bounds, history, sent, defect>>

HealsCall ==
  /\ pc = "healing"
  /\ \E c \in Pending(cur) : SettleToolCall(cur, c, "aborted")
  /\ UNCHANGED <<attempt, pc, run, stop, publisher, quiet, batch, bounds,
                 history, sent>>

HealsTurn ==
  /\ pc = "healing" /\ Pending(cur) = {}
  /\ CommitEntry(cur) /\ cur' = Nobody
  /\ Goto("healed") /\ healed' = TRUE
  /\ UNCHANGED <<run, stop, saved, dirty, stopped, settled, quiet, batch,
                 bounds, said, ended, ran, cutShort, sent>>

(* Nothing to answer; or the request of the last host has had its share.   *)
Drained ==
  /\ pc = "healed" /\ ~stop /\ Goto("ending")
  /\ UNCHANGED <<journal, attempt, run, stop, publisher, quiet, batch, bounds,
                 history, sent, defect>>

(* The request the host died with counts as a failed one.                  *)
(* Faulty: the count starts over.                                          *)
ResumesAfresh ==
  /\ pc = "healed" /\ ~stop
  /\ \/ carried = 0 /\ Goto("turn") /\ UNCHANGED delay
     \/ /\ carried # 0 /\ ~GivesUp(carried, HostStopped)
        /\ delay' = Delay(carried, HostStopped) /\ Goto("resting")
  /\ retries' = 0 /\ carried' = 0
  /\ UNCHANGED <<journal, attempt, error, truncations, stop, publisher, quiet,
                 batch, bounds, history, sent, defect>>
Resumes ==
  /\ pc = "healed" /\ ~stop
  /\ \/ carried = 0 /\ Goto("turn") /\ UNCHANGED delay
     \/ /\ carried # 0 /\ ~GivesUp(carried, HostStopped)
        /\ delay' = Delay(carried, HostStopped) /\ Goto("resting")
  /\ retries' = carried /\ carried' = 0
  /\ UNCHANGED <<journal, attempt, error, truncations, stop, publisher, quiet,
                 batch, bounds, history, sent, defect>>

Rested ==
  /\ pc \in {"resting", "backoff"} /\ ~stop
  /\ Goto(IF pc = "resting" THEN "turn" ELSE "again")
  /\ error' = HostStopped /\ delay' = 0
  /\ UNCHANGED <<journal, attempt, carried, retries, truncations, stop,
                 publisher, quiet, batch, bounds, history, sent, defect>>

(* Nothing was promoted, or the leaf is answered: the turn asks nothing.   *)
(* Another one follows if something else is queued by then, and it counts  *)
(* its retries from nothing: what a dead host had asked was `carried` into *)
(* the first turn only.                                                    *)
AsksNothing ==
  /\ pc = "turn" /\ ~stop /\ (Goto("ending") \/ Goto("turn"))
  /\ retries' = 0 /\ truncations' = 0 /\ sent' = 0
  /\ UNCHANGED <<journal, attempt, carried, error, delay, stop, publisher,
                 quiet, batch, bounds, history, defect>>

(* What no request has touched.                                            *)
NewPublisher ==
  /\ cur' = Nobody /\ saved' = Nothing
  /\ dirty' = FALSE /\ stopped' = FALSE /\ settled' = FALSE

(* A request: a publisher of its own, the attempt marked in flight.        *)
Attempt ==
  /\ pc \in {"turn", "again"} /\ ~stop
  /\ \E m \in Replies : entry[m] = "absent"
  /\ attempt' = retries + 1 /\ sent' = sent + 1
  /\ NewPublisher /\ Goto("opening")
  /\ UNCHANGED <<journal, run, stop, quiet, batch, bounds, history, defect>>

(* The stream opens, or cannot; or a plugin that prepares requests fails.  *)
Opens ==
  /\ pc = "opening" /\ ~stop
  /\ feed' = "open" /\ Goto("await")
  /\ UNCHANGED <<journal, attempt, run, stop, publisher, ticker, abort, batch,
                 bounds, history, sent, defect>>

OpensNot ==
  /\ pc = "opening" /\ ~stop /\ Goto("failed")
  /\ UNCHANGED <<journal, attempt, run, stop, publisher, quiet, batch, bounds,
                 history, sent, defect>>

(* The consumer has exited and nobody interrupted the wait for it.         *)
(* Faulty: a reply cut off at the output limit has its calls run.          *)
AnsweredCutOff ==
  /\ pc = "await" /\ ~stop /\ feed' = "none"
  /\ \/ feed = "ended" /\ ended[cur] # "stop" /\ Goto("tools")
     \/ feed = "ended" /\ ended[cur] = "stop" /\ Goto("skip")
     \/ feed = "failed" /\ Goto("failed")
  /\ UNCHANGED <<journal, attempt, run, stop, publisher, ticker, abort, batch,
                 bounds, history, sent, defect>>
Answered ==
  /\ pc = "await" /\ ~stop /\ feed' = "none"
  /\ \/ feed = "ended" /\ ended[cur] = "toolUse" /\ Goto("tools")
     \/ feed = "ended" /\ ended[cur] # "toolUse" /\ Goto("skip")
     \/ feed = "failed" /\ Goto("failed")
  /\ UNCHANGED <<journal, attempt, run, stop, publisher, ticker, abort, batch,
                 bounds, history, sent, defect>>

(* An interrupted wait aborts the transport, then waits for the consumer.  *)
DrainedStream ==
  /\ pc = "drain" /\ feed \in {"ended", "failed", "aborted"}
  /\ feed' = "none" /\ Goto("abort")
  /\ UNCHANGED <<journal, attempt, run, stop, publisher, ticker, abort, batch,
                 bounds, history, sent, defect>>

(* A failed request is tried again, or is the end of the turn: why it      *)
(* failed is looked at here first.                                         *)
Retries ==
  /\ pc = "failed" /\ ~stop
  /\ \E e \in Errors :
       /\ ~GivesUp(retries + 1, e)
       /\ error' = e /\ delay' = Delay(retries + 1, e)
  /\ retries' = retries + 1 /\ Goto("retry")
  /\ UNCHANGED <<journal, attempt, carried, truncations, stop, publisher,
                 quiet, batch, bounds, history, sent, defect>>

RetriesNot ==
  /\ pc = "failed" /\ ~stop /\ \E e \in Errors : GivesUp(retries + 1, e)
  /\ Goto("abort")
  /\ UNCHANGED <<journal, attempt, run, stop, publisher, quiet, batch, bounds,
                 history, sent, defect>>

(* settleDraft(): stop the publisher, then abort a draft that is still     *)
(* one, with what the publisher holds of it or else what is stored.        *)
StopsPublisher ==
  /\ pc \in {"retry", "abort"} /\ ~stopped
  /\ stopped' = TRUE /\ dirty' = FALSE
  /\ UNCHANGED <<journal, attempt, pc, run, stop, cur, saved, settled, quiet,
                 batch, bounds, history, sent, defect>>

Partial == IF settled THEN Stored(cur) ELSE said[cur]

(* Faulty: the abort keeps what the last checkpoint wrote.                 *)
SettlesStored ==
  /\ pc \in {"retry", "abort"} /\ stopped /\ tick = "none"
  /\ IF cur # Nobody /\ Draft(cur)
     THEN AbortEntry(cur, Stored(cur)) ELSE UNCHANGED <<journal, defect>>
  /\ Goto(IF pc = "retry" THEN "backoff" ELSE "ending")
  /\ NewPublisher
  /\ UNCHANGED <<attempt, run, stop, quiet, batch, bounds, history, sent>>
SettlesDraft ==
  /\ pc \in {"retry", "abort"} /\ stopped /\ tick = "none"
  /\ IF cur # Nobody /\ Draft(cur)
     THEN AbortEntry(cur, Partial) ELSE UNCHANGED <<journal, defect>>
  /\ Goto(IF pc = "retry" THEN "backoff" ELSE "ending")
  /\ NewPublisher
  /\ UNCHANGED <<attempt, run, stop, quiet, batch, bounds, history, sent>>

-----------------------------------------------------------------------------
(* The tools of a reply, settled in a region an interrupt enters only      *)
(* while they run.                                                         *)

Running == {c \in Calls : tool[c] = "running"}
Batch   == said[cur].calls

(* A reply that was not to call tools has its calls skipped.               *)
SkipsCall ==
  /\ pc = "skip"
  /\ \E c \in Pending(cur) : SettleToolCall(cur, c, "skipped")
  /\ UNCHANGED <<attempt, pc, run, stop, publisher, quiet, batch, bounds,
                 history, sent>>

ToolStarts(c) ==
  /\ pc = "tools" /\ ~stop /\ c \in Batch \ marked /\ tool[c] = "idle"
  /\ tool' = [tool EXCEPT ![c] = "running"]
  /\ ran' = [ran EXCEPT ![cur][c] = @ + 1]
  /\ UNCHANGED <<journal, attempt, pc, run, stop, publisher, quiet, marked,
                 bounds, said, ended, healed, cutShort, sent, defect>>

(* The settlement and its mark are one protected step.                     *)
(* Faulty: they are not.                                                   *)
ToolSettlesUnmarked(c) ==
  /\ pc \in {"tools", "cut"} /\ tool[c] = "running"
  /\ SettleToolCall(cur, c, "done")
  /\ tool' = [tool EXCEPT ![c] = "over"]
  /\ marked' = IF stop THEN marked ELSE marked \cup {c}
  /\ UNCHANGED <<attempt, pc, run, stop, publisher, quiet, bounds, history,
                 sent>>
ToolSettles(c) ==
  /\ pc \in {"tools", "cut"} /\ tool[c] = "running"
  /\ SettleToolCall(cur, c, "done")
  /\ tool' = [tool EXCEPT ![c] = "over"] /\ marked' = marked \cup {c}
  /\ UNCHANGED <<attempt, pc, run, stop, publisher, quiet, bounds, history,
                 sent>>

(* An interrupted tool ends without a settlement of its own; then those    *)
(* without one are aborted.                                                *)
ToolIsCut(c) ==
  /\ pc = "cut" /\ tool[c] = "running"
  /\ tool' = [tool EXCEPT ![c] = "over"]
  /\ UNCHANGED <<journal, attempt, pc, run, stop, publisher, quiet, marked,
                 bounds, history, sent, defect>>

CutSettles(c) ==
  /\ pc = "cut" /\ Running = {} /\ c \in Batch \ marked
  /\ SettleToolCall(cur, c, "aborted") /\ marked' = marked \cup {c}
  /\ UNCHANGED <<attempt, pc, run, stop, publisher, quiet, tool, bounds,
                 history, sent>>

(* TurnEnded; an interrupted batch then ends the run.                      *)
Commits ==
  /\ \/ pc = "skip" /\ Pending(cur) = {} /\ Goto("turned")
     \/ pc = "tools" /\ Batch \subseteq marked /\ Goto("turned")
     \/ pc = "cut" /\ Running = {} /\ Batch \subseteq marked /\ Goto("ending")
  /\ CommitEntry(cur)
  /\ UNCHANGED <<run, stop, publisher, quiet, batch, bounds, history, sent>>

(* After a turn: go on, or end; replies cut off at the output limit are    *)
(* given up after some in a row.                                           *)
FinishesTurn ==
  /\ pc = "turned" /\ ~stop
  /\ truncations' = IF ended[cur] = "length" /\ Batch # {}
                    THEN truncations + 1 ELSE 0
  /\ \/ Goto("ending")
     \/ truncations' < TruncationLimit /\ Goto("turn")
  /\ retries' = 0 /\ NewPublisher
  /\ tool' = [c \in Calls |-> "idle"] /\ marked' = {}
  /\ UNCHANGED <<journal, attempt, carried, error, delay, stop, quiet, bounds,
                 history, sent, defect>>

-----------------------------------------------------------------------------
(* Interrupts, the end of a run, and the process.                          *)

(* Somebody stops the run, or the server shuts down.                       *)
Stop ==
  /\ pc \notin Outside \cup {"ending"} /\ ~stop /\ stops < MaxStops
  /\ stop' = TRUE /\ stops' = stops + 1
  /\ UNCHANGED <<journal, attempt, pc, run, publisher, quiet, batch, crashes,
                 history, sent, defect>>

(* Faulty: the end of a failed request is not covered by onError.          *)
InterruptedInBackoff ==
  /\ stop
  /\ \/ pc \in {"begun", "healed", "resting", "turned", "failed"}
        /\ Goto("ending") /\ UNCHANGED abort
     \/ pc \in {"turn", "again", "opening", "backoff"}
        /\ Goto("abort") /\ UNCHANGED abort
     \/ pc = "await" /\ Goto("drain") /\ abort' = TRUE
     \/ pc = "tools" /\ Goto("cut") /\ UNCHANGED abort
  /\ UNCHANGED <<journal, attempt, run, stop, publisher, ticker, feed, batch,
                 bounds, history, sent, defect>>
(* Faulty: the wait for the stream is left without aborting it.            *)
InterruptedQuietly ==
  /\ stop
  /\ \/ pc \in {"begun", "healed", "resting", "turned"} /\ Goto("ending")
     \/ pc \in {"turn", "again", "opening", "failed", "backoff"}
        /\ Goto("abort")
     \/ pc = "await" /\ Goto("drain")
     \/ pc = "tools" /\ Goto("cut")
  /\ UNCHANGED <<journal, attempt, run, stop, publisher, ticker, consumer,
                 batch, bounds, history, sent, defect>>
Interrupted ==
  /\ stop
  /\ \/ pc \in {"begun", "healed", "resting", "turned"}
        /\ Goto("ending") /\ UNCHANGED abort
     \/ pc \in {"turn", "again", "opening", "failed", "backoff"}
        /\ Goto("abort") /\ UNCHANGED abort
     \/ pc = "await" /\ Goto("drain") /\ abort' = TRUE
     \/ pc = "tools" /\ Goto("cut") /\ UNCHANGED abort
  /\ UNCHANGED <<journal, attempt, run, stop, publisher, ticker, feed, batch,
                 bounds, history, sent, defect>>

(* What is in memory when no run is active.                                *)
Fresh ==
  /\ carried' = 0 /\ retries' = 0 /\ error' = HostStopped /\ delay' = 0
  /\ truncations' = 0 /\ stop' = FALSE
  /\ NewPublisher /\ taken' = Nothing /\ tick' = "none"
  /\ feed' = "none" /\ abort' = FALSE
  /\ tool' = [c \in Calls |-> "idle"] /\ marked' = {}

(* The settled hook ends the execution: no request is in flight.           *)
EndsExecution ==
  /\ pc = "ending" /\ Goto("idle") /\ Fresh
  /\ attempt' = 0 /\ sent' = 0
  /\ UNCHANGED <<journal, bounds, history, defect>>

Crash ==
  /\ pc # "off" /\ crashes < MaxCrashes
  /\ crashes' = crashes + 1 /\ Goto("off") /\ Fresh
  /\ healed' = FALSE /\ cutShort' = cutShort \cup Drafts
  /\ UNCHANGED <<journal, attempt, stops, said, ended, ran, sent, defect>>

Boot ==
  /\ pc = "off" /\ Goto("idle")
  /\ UNCHANGED <<journal, attempt, run, stop, publisher, quiet, batch, bounds,
                 history, sent, defect>>

Init ==
  /\ entry = [m \in Replies |-> "absent"] /\ text = [m \in Replies |-> 0]
  /\ calls = [m \in Replies |-> [c \in Calls |-> "none"]]
  /\ attempt = 0 /\ pc = "idle"
  /\ carried = 0 /\ retries = 0 /\ error = HostStopped /\ delay = 0
  /\ truncations = 0 /\ stop = FALSE
  /\ cur = Nobody /\ saved = Nothing /\ taken = Nothing
  /\ dirty = FALSE /\ stopped = FALSE /\ settled = FALSE /\ tick = "none"
  /\ feed = "none" /\ abort = FALSE
  /\ tool = [c \in Calls |-> "idle"] /\ marked = {}
  /\ stops = 0 /\ crashes = 0
  /\ said = [m \in Replies |-> Nothing]
  /\ ended = [m \in Replies |-> "no"]
  /\ ran = [m \in Replies |-> [c \in Calls |-> 0]]
  /\ sent = 0 /\ healed = TRUE /\ cutShort = {} /\ defect = FALSE

(* Steps of the run's fiber and of the tools it waits for, which a stop    *)
(* hurries.                                                                *)
Fiber ==
  \/ Begin \/ HealsNothing \/ HealsByAbort \/ HealsTools \/ HealsCall
  \/ HealsTurn \/ Drained \/ Resumes \/ Rested \/ AsksNothing \/ Attempt
  \/ Opens \/ OpensNot \/ Answered \/ DrainedStream \/ Retries \/ RetriesNot
  \/ StopsPublisher \/ SettlesDraft \/ SkipsCall \/ Commits \/ FinishesTurn
  \/ Interrupted \/ EndsExecution
  \/ \E c \in Calls : ToolIsCut(c) \/ CutSettles(c)
Tools    == \E c \in Calls : ToolStarts(c) \/ ToolSettles(c)
Terminal == Errored \/ Failed \/ Ended
Provider == (\E m \in Replies : Started(m)) \/ Streamed \/ Done \/ Broken
Ticker   == TickTakes \/ TickWrites \/ TickStops

Next == Fiber \/ Tools \/ Terminal \/ Provider \/ Ticker \/ Stop \/ Crash \/ Boot

(* The runtime schedules fibers that can go on.  The provider need not     *)
(* answer and a tool need not end; but an aborted transport yields its     *)
(* terminal event.                                                         *)
Fairness ==
  /\ WF_vars(Fiber) /\ WF_vars(Ticker)
  /\ WF_vars(abort /\ Errored) /\ WF_vars(Failed) /\ WF_vars(Ended)

Spec == Init /\ [][Next]_vars /\ Fairness

-----------------------------------------------------------------------------
(* Properties.                                                             *)

(* No event of a turn finds an entry its projector refuses: a checkpoint   *)
(* never comes after the draft was settled, a call is never settled twice  *)
(* (loop.ts:369-371), a turn is never committed with a call open.  The     *)
(* refusals at thread.ts:717, 791 and 814 are defects that kill the run.   *)
NoProjectorDies == ~defect

(* A draft belongs to the request being answered.  A run that is over, one *)
(* that waits before a retry (loop.ts:511-512) and one that starts another *)
(* request have none; only a run that was ended before it came to heal can *)
(* leave the draft of a dead process.                                      *)
Streaming == {"await", "drain", "failed", "retry", "abort", "tools", "cut",
              "skip"}
DraftIsOwned ==
  \A m \in Drafts : pc = "off" \/ ~healed \/ (m = cur /\ pc \in Streaming)

(* The entry of a settled reply holds all that the provider sent of it, in *)
(* whichever way it ended, unless the process died while it was a draft:   *)
(* no late checkpoint is added to a whole reply, and an abort keeps what   *)
(* streamed since the last checkpoint (event.ts:86, loop.ts:470).          *)
NothingIsLost ==
  \A m \in Replies \ cutShort :
    entry[m] \in {"committed", "aborted"} => Stored(m) = said[m]

(* A tool runs at most once, and only for a reply that ended by calling    *)
(* tools, whatever process heals it; a call that is answered as skipped,   *)
(* "was not executed" (loop.ts:60), was not.                               *)
ToolsRunOnce ==
  \A m \in Replies, c \in Calls :
    /\ ran[m][c] <= IF ended[m] = "toolUse" THEN 1 ELSE 0
    /\ calls[m][c] = "skipped" => ran[m][c] = 0

(* A turn is not asked more often than the settings allow, though its host *)
(* dies between two requests and another one goes on (loop.ts:74-77, 458). *)
RequestsAreBounded == sent <= MaxRetries + 1

(* A backoff is at least what the provider asked for and never more than   *)
(* the longest the settings allow (retry.ts:19-20).                        *)
BackoffIsBounded ==
  /\ pc = "backoff" => error.asked <= delay /\ delay <= MaxDelay
  /\ pc = "resting" => delay <= MaxDelay

(* What those who read the thread see of its replies is a Transcript:      *)
(* every checkpoint, end, settlement, retry, stop and death is one of its  *)
(* steps or none.  A reply never shrinks, a call that was settled is never *)
(* settled again nor lost by an abort, and what has ended stays as it is   *)
(* (thread.ts:724-838, loop.ts:219-240, 369-378).                          *)
Story == INSTANCE Transcript
  WITH Lengths  <- 0 .. MaxChunks,
       answered <- {m \in Replies : ended[m] # "no"},
       dead     <- cutShort
ImplementsTranscript == Story!Spec

(* A run that is interrupted ends, wherever it is: in a stream that is     *)
(* silent, in tools that hang, in a backoff (loop.ts:569-586, llm.ts:309). *)
StopIsObeyed == stop ~> ~stop

(* "One whose request was in flight is aborted with what streamed.  One    *)
(* whose response ended with tool calls had them running: [...] the turn   *)
(* commits" (loop.ts:214-217): what is committed is a reply that ended.    *)
CommittedReplyEnded ==
  \A m \in Replies : entry[m] = "committed" => ended[m] # "no"
=============================================================================
