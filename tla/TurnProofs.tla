----------------------------- MODULE TurnProofs -----------------------------
(***************************************************************************)
(* Proofs about Turn.                                                      *)
(*                                                                         *)
(* A draft has one owner: the request whose publisher started it or, after *)
(* a death, the run that heals.  Until the publisher is settled the draft  *)
(* holds what the last checkpoint wrote, and a checkpoint is a part of     *)
(* what was said; once it is settled no ticker is left, and the draft      *)
(* holds all that was said.  A call of the batch is open exactly as long   *)
(* as it is not marked.  The requests sent are at most the attempt the     *)
(* thread's row shows, wherever the process dies.  With these, what those  *)
(* who read the thread see is a Transcript.                                *)
(***************************************************************************)
EXTENDS Turn, FiniteSetTheorems, TLAPS

(* The type invariant in parts.                                            *)
JournalOK ==
  /\ entry \in [Replies -> {"absent", "draft", "committed", "aborted"}]
  /\ text \in [Replies -> 0 .. MaxChunks]
  /\ calls \in [Replies ->
       [Calls -> {"none", "pending", "done", "skipped", "aborted"}]]
RunOK ==
  /\ attempt \in 0 .. MaxRetries + 1
  /\ pc \in {"off", "idle", "begun", "healing", "healed", "resting", "turn",
             "again", "opening", "await", "drain", "failed", "retry",
             "backoff", "abort", "tools", "cut", "skip", "turned", "ending"}
  /\ carried \in 0 .. MaxRetries + 1 /\ retries \in 0 .. MaxRetries + 1
  /\ error \in Errors /\ delay \in Nat /\ truncations \in 0 .. TruncationLimit
PublisherOK ==
  /\ cur \in Replies \cup {Nobody} /\ saved \in Content /\ taken \in Content
  /\ tick \in {"none", "asleep", "writing"}
  /\ feed \in {"none", "open", "ending", "failing", "aborting",
               "ended", "failed", "aborted"}
FlagsOK ==
  {stop, dirty, stopped, settled, abort, healed, defect} \subseteq BOOLEAN
BatchOK ==
  tool \in [Calls -> {"idle", "running", "over"}] /\ marked \subseteq Calls
HistoryOK ==
  /\ stops \in 0 .. MaxStops /\ crashes \in 0 .. MaxCrashes
  /\ said \in [Replies -> Content]
  /\ ended \in [Replies -> {"no", "stop", "length", "toolUse"}]
  /\ cutShort \subseteq Replies
  /\ ran \in [Replies -> [Calls -> Nat]] /\ sent \in Nat

-----------------------------------------------------------------------------
(* The inductive invariant.                                                *)

(* What one content has of a reply, the other has too.                     *)
Below(a, b) == a.text <= b.text /\ a.calls \subseteq b.calls

(* The stream is consumed as long as the run waits for it or drains it.    *)
(* The publisher is stopped before the end is stored, and settled by it.   *)
StreamInv ==
  /\ feed # "none" <=> pc \in {"await", "drain"}
  /\ feed = "open" => ~stopped
  /\ feed \in {"open", "ending", "failing", "aborting"} => ~settled
  /\ feed \in {"ending", "failing", "aborting"} => stopped
  /\ feed \in {"ending", "ended"} => cur # Nobody
  /\ feed = "ended" =>
       /\ settled /\ Draft(cur)
       /\ \A c \in Calls : calls[cur][c] = "pending" <=> c \in said[cur].calls

(* Where no request has been sent, one is being answered, or one ended.    *)
Unasked   == {"off", "idle", "begun", "healing", "healed", "resting", "turn",
              "again", "backoff", "opening"}
Answering == {"await", "drain", "failed", "retry", "abort"}
AtEnd     == {"tools", "cut", "skip", "turned"}

(* A request has a publisher of its own, and a ticker only as long as the  *)
(* publisher is not settled.                                               *)
PublisherInv ==
  /\ pc \in Unasked => saved = Nothing /\ ~stopped /\ ~settled
  /\ pc \in Unasked \ {"healing"} => cur = Nobody
  /\ pc \in AtEnd => settled /\ cur # Nobody
  /\ pc \in {"tools", "cut", "skip", "healing"} => Draft(cur)
  /\ pc = "healing" => cur # Nobody
  /\ tick # "none" => pc \in Answering /\ ~settled
  /\ settled => stopped
  /\ cur = Nobody => tick = "none" /\ saved = Nothing

(* Until it is settled the draft holds what the last checkpoint wrote, and *)
(* the one being written has that and more; then it holds the reply.       *)
DraftInv ==
  /\ pc \in Answering /\ cur # Nobody /\ ~settled =>
       /\ Draft(cur) /\ Stored(cur) = saved /\ Below(saved, said[cur])
       /\ tick = "writing" => Below(saved, taken) /\ Below(taken, said[cur])
  /\ cur # Nobody /\ settled /\ Draft(cur) => Stored(cur) = said[cur]

(* A draft is the one being answered or, until some run has looked, what a *)
(* dead process left; there is at most one.                                *)
OwnerInv ==
  /\ \A m \in Drafts :
       \/ healed /\ m = cur /\ pc \in Streaming
       \/ ~healed /\ m \in cutShort
  /\ \A m, n \in Drafts : m = n
  /\ ~healed => pc \in {"off", "idle", "begun", "healing", "ending"}
  /\ healed => pc \notin {"off", "healing"}

(* A call of the batch is open until it is marked, one that runs is open,  *)
(* and one that is idle was not run; none was before the batch.            *)
BatchInv ==
  /\ pc \notin {"tools", "cut", "turned", "ending"} =>
       marked = {} /\ \A c \in Calls : tool[c] = "idle"
  /\ pc \in {"tools", "cut"} =>
       /\ ended[cur] = "toolUse"
       /\ \A c \in Calls :
            /\ calls[cur][c] = "pending" <=> c \in Batch \ marked
            /\ tool[c] = "running" => c \in Batch \ marked
            /\ tool[c] = "idle" => ran[cur][c] = 0
  /\ cur # Nobody /\ pc \in Answering \cup {"skip"} =>
       \A c \in Calls : ran[cur][c] = 0

(* The row of the thread shows at least as many requests as were sent, and *)
(* what is counted in memory is not less.                                  *)
SentInv ==
  /\ sent <= attempt
  /\ pc \in {"begun", "healing", "healed"} => sent <= carried
  /\ pc \in {"resting", "turn", "retry", "backoff", "again"} =>
       sent <= retries /\ retries <= MaxRetries
  /\ pc \in {"opening", "await", "drain", "failed"} =>
       sent <= retries + 1 /\ retries <= MaxRetries
  /\ pc = "healing" => carried = 0
  /\ feed = "ended" \/ pc \in AtEnd => sent = 0

(* The backoff is chosen before the draft is settled, and a run that goes  *)
(* on may still get a truncated reply.                                     *)
RunInv ==
  /\ pc \in {"retry", "backoff"} => error.asked <= delay /\ delay <= MaxDelay
  /\ pc = "resting" => delay <= MaxDelay
  /\ pc # "ending" => truncations < TruncationLimit

(* Of one entry: nothing is known of it before it is stored, a settled one *)
(* is whole, and its tools ran at most once.                               *)
ReplyInv(m) ==
  /\ entry[m] = "absent" =>
       /\ text[m] = 0 /\ said[m] = Nothing /\ ended[m] = "no"
       /\ \A c \in Calls : calls[m][c] = "none" /\ ran[m][c] = 0
  /\ m \notin cutShort /\ entry[m] \in {"committed", "aborted"} =>
       Stored(m) = said[m]
  /\ \A c \in Calls :
       /\ ran[m][c] <= IF ended[m] = "toolUse" THEN 1 ELSE 0
       /\ calls[m][c] = "skipped" => ran[m][c] = 0
RepliesInv == \A m \in Replies : ReplyInv(m)

Types == JournalOK /\ RunOK /\ PublisherOK /\ FlagsOK /\ BatchOK /\ HistoryOK

IInv ==
  /\ Types /\ StreamInv /\ PublisherInv /\ DraftInv /\ OwnerInv /\ BatchInv
  /\ SentInv /\ RunInv /\ RepliesInv /\ NoProjectorDies

-----------------------------------------------------------------------------
(* What the projectors do to an entry they accept.                         *)

(* What an entry that a step does not touch keeps.                         *)
Others(m) == \A n \in Replies \ {m} :
  text'[n] = text[n] /\ calls'[n] = calls[n] /\ entry'[n] = entry[n]

LEMMA StoredOK ==
  ASSUME JournalOK, NEW m \in Replies
  PROVE  Stored(m) \in Content
BY DEF JournalOK, Stored, Content

(* An entry that was absent is a draft.                                    *)
LEMMA AppendDraftDoes ==
  ASSUME JournalOK, NEW m \in Replies, AppendDraft(m)
  PROVE  /\ JournalOK' /\ Others(m) /\ entry'[m] = "draft"
         /\ UNCHANGED <<text, calls, defect>>
BY DEF JournalOK, AppendDraft, Others

(* A checkpoint that goes on from what is stored is accepted.              *)
LEMMA ProgressDoes ==
  ASSUME JournalOK, NEW m \in Replies, NEW from \in Content,
         NEW to \in Content, Draft(m), Stored(m) = from, Below(from, to),
         Progress(m, from, to)
  PROVE  /\ JournalOK' /\ Others(m)
         /\ Stored(m)' = to
         /\ UNCHANGED <<entry, defect>>
<1> USE DEF JournalOK, Draft, Stored, Progress, Below, Content
<1>1. /\ text' = [text EXCEPT ![m] = to.text]
      /\ \A c \in Calls : calls'[m][c] =
           IF c \in to.calls \ from.calls THEN "pending" ELSE calls[m][c]
      /\ UNCHANGED <<entry, defect>>
  OBVIOUS
<1>2. JournalOK'
  <2>1. [c \in Calls |-> IF c \in to.calls \ from.calls THEN "pending"
                                                    ELSE calls[m][c]]
          \in [Calls -> {"none", "pending", "done", "skipped", "aborted"}]
    OBVIOUS
  <2> QED BY <1>1, <2>1
<1>3. Others(m)
  BY DEF Others
<1>4. {c \in Calls : calls'[m][c] # "none"} = to.calls
  BY <1>1
<1> QED BY <1>1, <1>2, <1>3, <1>4

(* The whole reply is stored, its calls open, and the attempt is over.     *)
LEMMA ReplaceAssistantDoes ==
  ASSUME JournalOK, NEW m \in Replies, NEW x \in Content, Draft(m),
         ReplaceAssistant(m, x)
  PROVE  /\ JournalOK' /\ Others(m)
         /\ Stored(m)' = x
         /\ \A c \in Calls : /\ calls'[m][c] = "pending" <=> c \in x.calls
                             /\ calls'[m][c] # "skipped"
         /\ attempt' = 0
         /\ UNCHANGED <<entry, defect>>
<1> USE DEF JournalOK, Draft, ReplaceAssistant, Content
<1>1. JournalOK' /\ Others(m) /\ attempt' = 0 /\ UNCHANGED <<entry, defect>>
  BY DEF Others
<1>2. text'[m] = x.text
  OBVIOUS
<1>3. \A c \in Calls :
        calls'[m][c] = IF c \in x.calls THEN "pending" ELSE "none"
  OBVIOUS
<1>4. {c \in Calls : calls'[m][c] # "none"} = x.calls
  BY <1>3
<1> QED BY <1>1, <1>2, <1>3, <1>4 DEF Stored

(* A draft is settled as aborted, with what was said; no call is open.     *)
LEMMA AbortEntryDoes ==
  ASSUME JournalOK, NEW m \in Replies, NEW x \in Content, Draft(m),
         AbortEntry(m, x)
  PROVE  /\ JournalOK' /\ Others(m) /\ entry'[m] = "aborted"
         /\ Stored(m)' = x
         /\ \A c \in Calls : calls'[m][c] \in {"none", "aborted"}
         /\ UNCHANGED defect
<1> USE DEF JournalOK, Draft, AbortEntry, Content
<1>1. JournalOK'
  OBVIOUS
<1>2. Others(m) /\ entry'[m] = "aborted" /\ UNCHANGED defect
  BY DEF Others
<1>3. text'[m] = x.text
  OBVIOUS
<1>4. \A c \in Calls :
        calls'[m][c] = IF c \in x.calls THEN "aborted" ELSE "none"
  OBVIOUS
<1>5. {c \in Calls : calls'[m][c] # "none"} = x.calls
  BY <1>4
<1> QED BY <1>1, <1>3, <1>4, <1>5, <1>2 DEF Stored

(* An open call is settled, and no other.                                  *)
LEMMA SettleToolCallDoes ==
  ASSUME JournalOK, NEW m \in Replies, NEW c \in Calls,
         NEW status \in {"done", "skipped", "aborted"},
         Draft(m), calls[m][c] = "pending", SettleToolCall(m, c, status)
  PROVE  /\ JournalOK' /\ Others(m)
         /\ Stored(m)' = Stored(m)
         /\ calls'[m][c] = status
         /\ \A d \in Calls \ {c} : calls'[m][d] = calls[m][d]
         /\ UNCHANGED <<entry, text, defect>>
<1> USE DEF JournalOK, Draft, SettleToolCall
<1>1. JournalOK'
  OBVIOUS
<1>2. /\ Others(m) /\ calls'[m][c] = status
      /\ \A d \in Calls \ {c} : calls'[m][d] = calls[m][d]
      /\ UNCHANGED <<entry, text, defect>>
  BY DEF Others
<1>3. {d \in Calls : calls'[m][d] # "none"}
        = {d \in Calls : calls[m][d] # "none"}
  BY <1>2
<1> QED BY <1>2, <1>3, <1>1 DEF Stored

(* A draft without open calls is committed, and the attempt is over.       *)
LEMMA CommitEntryDoes ==
  ASSUME JournalOK, NEW m \in Replies, Draft(m), Pending(m) = {},
         CommitEntry(m)
  PROVE  /\ JournalOK' /\ Others(m) /\ entry'[m] = "committed"
         /\ attempt' = 0
         /\ UNCHANGED <<text, calls, defect>>
BY DEF JournalOK, Draft, CommitEntry, Others

(* An entry that a step does not touch stays as it was.                    *)
LEMMA OthersStay ==
  ASSUME RepliesInv, NEW m \in Replies, Others(m), ReplyInv(m)',
         \A n \in Replies \ {m} : /\ said'[n] = said[n] /\ ended'[n] = ended[n]
                                  /\ ran'[n] = ran[n],
         UNCHANGED cutShort
  PROVE  RepliesInv'
<1>1. ASSUME NEW n \in Replies \ {m} PROVE ReplyInv(n)'
  <2>1. ReplyInv(n)
    BY DEF RepliesInv
  <2>2. /\ entry'[n] = entry[n] /\ text'[n] = text[n] /\ calls'[n] = calls[n]
        /\ said'[n] = said[n] /\ ended'[n] = ended[n] /\ ran'[n] = ran[n]
    BY DEF Others
  <2>3. Stored(n)' = Stored(n)
    BY <2>2 DEF Stored
  <2> QED BY <2>1, <2>2, <2>3 DEF ReplyInv
<1> QED BY <1>1 DEF RepliesInv

LEMMA RepliesStay ==
  ASSUME RepliesInv, UNCHANGED <<journal, said, ended, ran>>,
         cutShort \subseteq cutShort'
  PROVE  RepliesInv'
BY DEF RepliesInv, ReplyInv, Stored, journal

(* A backoff is at least what was asked for, if the request is not given   *)
(* up, and never above the maximum.                                        *)
LEMMA DelayOK ==
  ASSUME NEW n \in Nat \ {0}, NEW e \in Errors
  PROVE  /\ Delay(n, e) \in Nat /\ e.asked \in Nat
         /\ ~GivesUp(n, e) => /\ n <= MaxRetries /\ e.asked <= Delay(n, e)
                              /\ Delay(n, e) <= MaxDelay
<1>1. 2 ^ (n - 1) \in Nat
  <2>1. IsFiniteSet(1 .. n - 1) /\ Cardinality(1 .. n - 1) = n - 1
    BY FS_Interval
  <2>2. IsFiniteSet(SUBSET (1 .. n - 1))
        /\ Cardinality(SUBSET (1 .. n - 1)) = 2 ^ (n - 1)
    BY <2>1, FS_SUBSET
  <2> QED BY <2>2, FS_CardinalityType
<1>2. BaseDelay * 2 ^ (n - 1) \in Nat
  BY <1>1, RetryAssumption
<1>3. e.asked \in Nat
  <2>1. CASE e = Fatal
    BY <2>1 DEF Fatal
  <2>2. CASE e \in [transient : {TRUE}, asked : RetryAfter \cup {0}]
    <3>1. e.asked \in RetryAfter \cup {0}
      BY <2>2, Zenon
    <3>2. RetryAfter \cup {0} \subseteq Nat
      BY RetryAssumption
    <3> QED BY <3>1, <3>2, Zenon
  <2> QED BY <2>1, <2>2 DEF Errors
<1> QED BY <1>2, <1>3, RetryAssumption
        DEF Delay, Larger, Smaller, GivesUp

LEMMA HostStoppedOK == HostStopped \in Errors /\ HostStopped.asked = 0
BY DEF HostStopped, Errors

LEMMA NothingOK == Nothing \in Content
BY BoundsAssumption DEF Nothing, Content

-----------------------------------------------------------------------------
(* The invariant is inductive.                                             *)

LEMMA BeginIInv ==
  ASSUME IInv, Begin
  PROVE  IInv'
<1> USE BoundsAssumption DEF Begin, Goto, journal, publisher, quiet, consumer,
        ticker, run, batch, bounds, history, IInv, Types
<1>1. Types'
  BY DEF JournalOK, RunOK, PublisherOK, FlagsOK, BatchOK, HistoryOK
<1>2. (StreamInv /\ PublisherInv)'
  BY DEF StreamInv, PublisherInv, Unasked, Answering, AtEnd
<1>3. (DraftInv /\ OwnerInv)'
  BY DEF DraftInv, OwnerInv, Drafts, Draft, Stored, Answering, Streaming
<1>4. BatchInv'
  BY DEF BatchInv, Batch, Answering
<1>5. (SentInv /\ RunInv)'
  BY DEF SentInv, RunInv, RunOK, AtEnd
<1>6. (RepliesInv /\ NoProjectorDies)'
  BY RepliesStay DEF NoProjectorDies
<1> QED BY <1>1, <1>2, <1>3, <1>4, <1>5, <1>6

LEMMA HealsNothingIInv ==
  ASSUME IInv, HealsNothing
  PROVE  IInv'
<1> USE RetryAssumption DEF HealsNothing, Goto, journal, run, publisher, quiet,
        consumer, ticker, batch, bounds, IInv, Types
<1>1. Types'
  BY DEF JournalOK, RunOK, PublisherOK, FlagsOK, BatchOK, HistoryOK
<1>2. (StreamInv /\ PublisherInv)'
  BY DEF StreamInv, PublisherInv, Unasked, Answering, AtEnd
<1>3. (DraftInv /\ OwnerInv)'
  BY DEF DraftInv, OwnerInv, Drafts, Draft, Stored, Answering, Streaming
<1>4. BatchInv'
  BY DEF BatchInv, Batch, Answering
<1>5. (SentInv /\ RunInv)'
  BY DEF SentInv, RunInv, AtEnd
<1>6. (RepliesInv /\ NoProjectorDies)'
  BY RepliesStay DEF NoProjectorDies
<1> QED BY <1>1, <1>2, <1>3, <1>4, <1>5, <1>6

LEMMA HealsByAbortIInv ==
  ASSUME IInv, HealsByAbort
  PROVE  IInv'
<1> USE RetryAssumption, BoundsAssumption DEF HealsByAbort, Goto, run,
        publisher, quiet, consumer, ticker, batch, bounds, IInv, Types
<1>1. PICK m \in Replies : Draft(m) /\ AbortEntry(m, Stored(m))
  BY DEF Drafts
<1>2. /\ JournalOK' /\ Others(m) /\ entry'[m] = "aborted"
      /\ Stored(m)' = Stored(m)
      /\ \A c \in Calls : calls'[m][c] \in {"none", "aborted"}
      /\ UNCHANGED defect
  BY <1>1, StoredOK, AbortEntryDoes
<1>3. (JournalOK /\ FlagsOK)'
  BY <1>1, <1>2 DEF FlagsOK
<1>4. (RunOK /\ PublisherOK /\ BatchOK /\ HistoryOK)'
  BY <1>1, <1>2 DEF RunOK, PublisherOK, BatchOK, HistoryOK
<1>5. (StreamInv /\ PublisherInv)'
  BY <1>1, <1>2 DEF StreamInv, PublisherInv, Unasked, Answering, AtEnd
<1>6. (DraftInv /\ OwnerInv)'
  BY <1>1, <1>2
     DEF DraftInv, OwnerInv, PublisherInv, StreamInv, RunOK, PublisherOK,
         Unasked, Answering, AtEnd, Streaming, Drafts, Draft, Stored, Below,
         Others
<1>7. BatchInv'
  BY <1>1, <1>2 DEF BatchInv, Batch, Answering
<1>8. (SentInv /\ RunInv)'
  BY <1>1, <1>2 DEF SentInv, RunInv, AtEnd
<1>9. NoProjectorDies'
  BY <1>1, <1>2 DEF NoProjectorDies
<1>10. RepliesInv'
  <2>1. ReplyInv(m)'
    BY <1>1, <1>2 DEF RepliesInv, ReplyInv, OwnerInv, Drafts, Draft,
       PublisherInv, BatchInv, StreamInv, DraftInv, Answering, AtEnd, Streaming
  <2> QED BY <1>1, <1>2, <2>1, OthersStay
<1> QED BY <1>3, <1>4, <1>5, <1>6, <1>7, <1>8, <1>9, <1>10

LEMMA HealsToolsIInv ==
  ASSUME IInv, HealsTools
  PROVE  IInv'
<1> USE BoundsAssumption DEF HealsTools, Goto, journal, run, quiet, consumer,
        ticker, batch, bounds, history, IInv, Types
<1>1. PICK m \in Replies :
        Draft(m) /\ carried = 0 /\ cur' = m /\ m # Nobody
  BY DEF Drafts, Replies, Nobody
<1>2. (JournalOK /\ RunOK /\ FlagsOK /\ BatchOK /\ HistoryOK)'
  BY DEF JournalOK, RunOK, FlagsOK, BatchOK, HistoryOK
<1>3. PublisherOK'
  BY <1>1 DEF PublisherOK
<1>4. StreamInv'
  BY DEF StreamInv, PublisherInv, RunOK, PublisherOK, Unasked, Answering,
         AtEnd, Draft
<1>5. PublisherInv'
  BY <1>1 DEF PublisherInv, StreamInv, RunOK, Unasked, Answering, AtEnd, Draft
<1>6. (DraftInv /\ OwnerInv)'
  BY DEF DraftInv, OwnerInv, PublisherInv, Unasked, Drafts, Draft, Stored,
         Answering, Streaming
<1>7. BatchInv'
  BY DEF BatchInv, Batch, Answering
<1>8. (SentInv /\ RunInv)'
  BY DEF SentInv, RunInv, AtEnd
<1>9. (RepliesInv /\ NoProjectorDies)'
  BY RepliesStay DEF NoProjectorDies
<1> QED BY <1>2, <1>3, <1>4, <1>5, <1>6, <1>7, <1>8, <1>9

LEMMA HealsCallIInv ==
  ASSUME IInv, HealsCall
  PROVE  IInv'
<1> USE BoundsAssumption DEF HealsCall, run, publisher, quiet, consumer,
        ticker, batch, bounds, history, IInv, Types
<1>1. PICK m \in Replies, c \in Calls :
        /\ m = cur /\ Draft(m) /\ calls[m][c] = "pending"
        /\ SettleToolCall(m, c, "aborted")
  BY DEF PublisherInv, PublisherOK, Pending, Nobody
<1>2. /\ JournalOK' /\ Others(m) /\ Stored(m)' = Stored(m)
      /\ calls'[m][c] = "aborted"
      /\ \A d \in Calls \ {c} : calls'[m][d] = calls[m][d]
      /\ UNCHANGED <<entry, text, defect>>
  BY <1>1, SettleToolCallDoes
<1>3. (JournalOK /\ FlagsOK)'
  BY <1>1, <1>2 DEF FlagsOK
<1>4. (RunOK /\ PublisherOK /\ BatchOK /\ HistoryOK)'
  BY <1>1, <1>2 DEF RunOK, PublisherOK, BatchOK, HistoryOK
<1>5. (StreamInv /\ PublisherInv)'
  BY <1>1, <1>2 DEF StreamInv, PublisherInv, Unasked, Answering, AtEnd, Draft
<1>6. (DraftInv /\ OwnerInv)'
  BY <1>1, <1>2 DEF DraftInv, OwnerInv, Drafts, Draft, Stored
<1>7. BatchInv'
  BY <1>1, <1>2 DEF BatchInv, Batch
<1>8. (SentInv /\ RunInv)'
  BY <1>1, <1>2 DEF SentInv, RunInv
<1>9. NoProjectorDies'
  BY <1>1, <1>2 DEF NoProjectorDies
<1>10. RepliesInv'
  <2>1. ReplyInv(m)'
    BY <1>1, <1>2 DEF RepliesInv, ReplyInv, OwnerInv, Drafts, Draft,
       PublisherInv, BatchInv, StreamInv, DraftInv, Answering, AtEnd, Streaming
  <2> QED BY <1>1, <1>2, <2>1, OthersStay
<1> QED BY <1>3, <1>4, <1>5, <1>6, <1>7, <1>8, <1>9, <1>10

LEMMA HealsTurnIInv ==
  ASSUME IInv, HealsTurn
  PROVE  IInv'
<1> USE RetryAssumption, BoundsAssumption DEF HealsTurn, Goto, run, quiet,
        consumer, ticker, batch, bounds, IInv, Types
<1>1. PICK m \in Replies :
        m = cur /\ Draft(m) /\ Pending(m) = {} /\ CommitEntry(m)
  BY DEF PublisherInv, PublisherOK, Nobody
<1>2. /\ JournalOK' /\ Others(m) /\ entry'[m] = "committed"
      /\ attempt' = 0 /\ UNCHANGED <<text, calls, defect>>
      /\ Stored(m)' = Stored(m)
  BY <1>1, CommitEntryDoes DEF Stored
<1>3. (JournalOK /\ FlagsOK)'
  BY <1>1, <1>2 DEF FlagsOK
<1>4. (RunOK /\ PublisherOK /\ BatchOK /\ HistoryOK)'
  BY <1>1, <1>2 DEF RunOK, PublisherOK, BatchOK, HistoryOK
<1>5. (StreamInv /\ PublisherInv)'
  BY <1>1, <1>2 DEF StreamInv, PublisherInv, Unasked, Answering, AtEnd
<1>6. (DraftInv /\ OwnerInv)'
  BY <1>1, <1>2
     DEF DraftInv, OwnerInv, PublisherInv, StreamInv, RunOK, PublisherOK,
         Unasked, Answering, AtEnd, Streaming, Drafts, Draft, Stored, Below,
         Others
<1>7. BatchInv'
  BY <1>1, <1>2 DEF BatchInv, Batch
<1>8. (SentInv /\ RunInv)'
  BY <1>1, <1>2 DEF SentInv, RunInv, AtEnd
<1>9. NoProjectorDies'
  BY <1>1, <1>2 DEF NoProjectorDies
<1>10. RepliesInv'
  <2>1. ReplyInv(m)'
    BY <1>1, <1>2 DEF RepliesInv, ReplyInv, OwnerInv, Drafts, Draft,
       PublisherInv, BatchInv, StreamInv, DraftInv, Answering, AtEnd, Streaming
  <2> QED BY <1>1, <1>2, <2>1, OthersStay
<1> QED BY <1>3, <1>4, <1>5, <1>6, <1>7, <1>8, <1>9, <1>10

LEMMA DrainedIInv ==
  ASSUME IInv, Drained
  PROVE  IInv'
<1> USE RetryAssumption DEF Drained, Goto, journal, run, publisher, quiet,
        consumer, ticker, batch, bounds, history, IInv, Types
<1>1. Types'
  BY DEF JournalOK, RunOK, PublisherOK, FlagsOK, BatchOK, HistoryOK
<1>2. (StreamInv /\ PublisherInv)'
  BY DEF StreamInv, PublisherInv, Unasked, Answering, AtEnd
<1>3. (DraftInv /\ OwnerInv)'
  BY DEF DraftInv, OwnerInv, Drafts, Draft, Stored, Answering, Streaming
<1>4. BatchInv'
  BY DEF BatchInv, Batch, Answering
<1>5. (SentInv /\ RunInv)'
  BY DEF SentInv, RunInv, AtEnd
<1>6. (RepliesInv /\ NoProjectorDies)'
  BY RepliesStay DEF NoProjectorDies
<1> QED BY <1>1, <1>2, <1>3, <1>4, <1>5, <1>6

LEMMA ResumesIInv ==
  ASSUME IInv, Resumes
  PROVE  IInv'
<1> USE RetryAssumption DEF Resumes, Goto, HostStopped, run, publisher, ticker,
        consumer, batch, history, journal, quiet, bounds, IInv, Types
<1>1. (JournalOK /\ PublisherOK /\ FlagsOK /\ BatchOK /\ HistoryOK)'
  BY DEF JournalOK, PublisherOK, FlagsOK, BatchOK, HistoryOK
<1>2. RunOK'
  BY DelayOK, HostStoppedOK DEF RunOK
<1>3. (StreamInv /\ PublisherInv)'
  BY DEF StreamInv, PublisherInv, Unasked, Answering, AtEnd
<1>4. (DraftInv /\ OwnerInv)'
  BY DEF DraftInv, OwnerInv, Drafts, Draft, Stored, Answering, Streaming
<1>5. BatchInv'
  BY DEF BatchInv, Batch, Answering
<1>6. SentInv'
  BY DelayOK, HostStoppedOK DEF SentInv, RunOK, StreamInv, AtEnd, HistoryOK
<1>7. RunInv'
  BY DelayOK, HostStoppedOK DEF RunInv, RunOK
<1>8. (RepliesInv /\ NoProjectorDies)'
  BY RepliesStay DEF NoProjectorDies
<1> QED BY <1>1, <1>2, <1>3, <1>4, <1>5, <1>6, <1>7, <1>8

LEMMA RestedIInv ==
  ASSUME IInv, Rested
  PROVE  IInv'
<1> USE RetryAssumption DEF Rested, Goto, HostStopped, run, publisher, ticker,
        consumer, batch, history, journal, quiet, bounds, IInv, Types
<1>1. (JournalOK /\ PublisherOK /\ FlagsOK /\ BatchOK /\ HistoryOK)'
  BY DEF JournalOK, PublisherOK, FlagsOK, BatchOK, HistoryOK
<1>2. RunOK'
  BY HostStoppedOK DEF RunOK
<1>3. (StreamInv /\ PublisherInv)'
  BY DEF StreamInv, PublisherInv, Unasked, Answering, AtEnd
<1>4. (DraftInv /\ OwnerInv)'
  BY DEF DraftInv, OwnerInv, Drafts, Draft, Stored, Answering, Streaming
<1>5. BatchInv'
  BY DEF BatchInv, Batch, Answering
<1>6. (SentInv /\ RunInv)'
  BY DEF SentInv, RunInv, AtEnd
<1>7. (RepliesInv /\ NoProjectorDies)'
  BY RepliesStay DEF NoProjectorDies
<1> QED BY <1>1, <1>2, <1>3, <1>4, <1>5, <1>6, <1>7

LEMMA AsksNothingIInv ==
  ASSUME IInv, AsksNothing
  PROVE  IInv'
<1> USE RetryAssumption, BoundsAssumption DEF AsksNothing, Goto, journal, run,
        publisher, quiet, consumer, ticker, batch, bounds, history, IInv, Types
<1>1. (JournalOK /\ FlagsOK /\ BatchOK /\ HistoryOK /\ PublisherOK)'
  BY DEF JournalOK, FlagsOK, BatchOK, HistoryOK, PublisherOK
<1>2. RunOK'
  BY DEF RunOK
<1>3. (StreamInv /\ PublisherInv)'
  BY DEF StreamInv, PublisherInv, Unasked, Answering, AtEnd
<1>4. (DraftInv /\ OwnerInv)'
  BY DEF DraftInv, OwnerInv, Drafts, Draft, Stored, Answering, Streaming
<1>5. BatchInv'
  BY DEF BatchInv, Batch, Answering
<1>6. (SentInv /\ RunInv)'
  BY DEF SentInv, RunInv, AtEnd, RunOK
<1>7. (RepliesInv /\ NoProjectorDies)'
  BY RepliesStay DEF NoProjectorDies
<1> QED BY <1>1, <1>2, <1>3, <1>4, <1>5, <1>6, <1>7

LEMMA AttemptIInv ==
  ASSUME IInv, Attempt
  PROVE  IInv'
<1> USE RetryAssumption, BoundsAssumption DEF Attempt, NewPublisher, Goto,
        journal, run, quiet, consumer, ticker, batch, bounds, history, IInv,
        Types
<1>1. (JournalOK /\ FlagsOK /\ BatchOK)'
  BY DEF JournalOK, FlagsOK, BatchOK
<1>2. RunOK'
  BY DEF RunOK, SentInv
<1>3. PublisherOK'
  BY NothingOK DEF PublisherOK
<1>4. HistoryOK'
  BY DEF HistoryOK
<1>5. (StreamInv /\ PublisherInv)'
  BY DEF StreamInv, PublisherInv, Unasked, Answering, AtEnd
<1>6. (DraftInv /\ OwnerInv)'
  BY DEF DraftInv, OwnerInv, Drafts, Draft, Stored, Answering, Streaming
<1>7. BatchInv'
  BY DEF BatchInv, Batch
<1>8. (SentInv /\ RunInv)'
  BY DEF SentInv, RunInv, StreamInv, RunOK, PublisherOK, HistoryOK, AtEnd
<1>9. (RepliesInv /\ NoProjectorDies)'
  BY RepliesStay DEF NoProjectorDies
<1> QED BY <1>1, <1>2, <1>3, <1>4, <1>5, <1>6, <1>7, <1>8, <1>9

LEMMA OpensIInv ==
  ASSUME IInv, Opens
  PROVE  IInv'
<1> USE BoundsAssumption DEF Opens, Goto, journal, run, publisher, ticker,
        batch, bounds, history, IInv, Types
<1>1. Types'
  BY DEF JournalOK, RunOK, PublisherOK, FlagsOK, BatchOK, HistoryOK
<1>2. (StreamInv /\ PublisherInv)'
  BY DEF StreamInv, PublisherInv, Unasked, Answering, AtEnd
<1>3. (DraftInv /\ OwnerInv)'
  BY DEF DraftInv, OwnerInv, PublisherInv, Unasked, Drafts, Draft, Stored,
         Answering, Streaming
<1>4. BatchInv'
  BY DEF BatchInv, PublisherInv, Unasked, Answering, AtEnd, Batch
<1>5. (SentInv /\ RunInv)'
  BY DEF SentInv, RunInv, AtEnd
<1>6. (RepliesInv /\ NoProjectorDies)'
  BY RepliesStay DEF NoProjectorDies
<1> QED BY <1>1, <1>2, <1>3, <1>4, <1>5, <1>6

LEMMA OpensNotIInv ==
  ASSUME IInv, OpensNot
  PROVE  IInv'
<1> USE BoundsAssumption DEF OpensNot, Goto, journal, run, publisher, quiet,
        consumer, ticker, batch, bounds, history, IInv, Types
<1>1. Types'
  BY DEF JournalOK, RunOK, PublisherOK, FlagsOK, BatchOK, HistoryOK
<1>2. (StreamInv /\ PublisherInv)'
  BY DEF StreamInv, PublisherInv, Unasked, Answering, AtEnd
<1>3. (DraftInv /\ OwnerInv)'
  BY DEF DraftInv, OwnerInv, PublisherInv, Unasked, Drafts, Draft, Stored,
         Answering, Streaming
<1>4. BatchInv'
  BY DEF BatchInv, PublisherInv, Unasked, Answering, AtEnd, Batch
<1>5. (SentInv /\ RunInv)'
  BY DEF SentInv, RunInv, AtEnd
<1>6. (RepliesInv /\ NoProjectorDies)'
  BY RepliesStay DEF NoProjectorDies
<1> QED BY <1>1, <1>2, <1>3, <1>4, <1>5, <1>6

LEMMA AnsweredIInv ==
  ASSUME IInv, Answered
  PROVE  IInv'
<1> USE RetryAssumption, BoundsAssumption DEF Answered, Goto, journal, run,
        publisher, ticker, batch, bounds, history, IInv, Types
<1>1. Types'
  BY DEF JournalOK, RunOK, PublisherOK, FlagsOK, BatchOK, HistoryOK
<1>2. (StreamInv /\ PublisherInv)'
  BY DEF StreamInv, PublisherInv, Unasked, Answering, AtEnd, Draft
<1>3. (DraftInv /\ OwnerInv)'
  BY DEF DraftInv, OwnerInv, Drafts, Draft, Stored, Answering, Streaming
<1>4. BatchInv'
  BY DEF BatchInv, PublisherInv, StreamInv, Answering, AtEnd, Batch
<1>5. (SentInv /\ RunInv)'
  BY DEF SentInv, RunInv, AtEnd
<1>6. (RepliesInv /\ NoProjectorDies)'
  BY RepliesStay DEF NoProjectorDies
<1> QED BY <1>1, <1>2, <1>3, <1>4, <1>5, <1>6

LEMMA DrainedStreamIInv ==
  ASSUME IInv, DrainedStream
  PROVE  IInv'
<1> USE RetryAssumption DEF DrainedStream, Goto, journal, run, publisher,
        ticker, batch, bounds, history, IInv, Types
<1>1. Types'
  BY DEF JournalOK, RunOK, PublisherOK, FlagsOK, BatchOK, HistoryOK
<1>2. (StreamInv /\ PublisherInv)'
  BY DEF StreamInv, PublisherInv, Unasked, Answering, AtEnd
<1>3. (DraftInv /\ OwnerInv)'
  BY DEF DraftInv, OwnerInv, Drafts, Draft, Stored, Answering, Streaming
<1>4. BatchInv'
  BY DEF BatchInv, Batch, Answering
<1>5. (SentInv /\ RunInv)'
  BY DEF SentInv, RunInv, AtEnd
<1>6. (RepliesInv /\ NoProjectorDies)'
  BY RepliesStay DEF NoProjectorDies
<1> QED BY <1>1, <1>2, <1>3, <1>4, <1>5, <1>6

LEMMA RetriesIInv ==
  ASSUME IInv, Retries
  PROVE  IInv'
<1> USE RetryAssumption DEF Retries, Goto, journal, publisher, quiet, consumer,
        ticker, run, batch, bounds, history, IInv, Types
<1>1. PICK e \in Errors : ~GivesUp(retries + 1, e) /\ error' = e
                         /\ delay' = Delay(retries + 1, e)
  OBVIOUS
<1>2. retries + 1 \in Nat \ {0}
  BY DEF RunOK
<1>3. /\ delay' \in Nat /\ error' \in Errors /\ retries + 1 <= MaxRetries
      /\ error'.asked <= delay' /\ delay' <= MaxDelay
  BY <1>1, <1>2, DelayOK
<1>4. (JournalOK /\ PublisherOK /\ FlagsOK /\ BatchOK /\ HistoryOK)'
  BY DEF JournalOK, PublisherOK, FlagsOK, BatchOK, HistoryOK
<1>5. RunOK'
  BY <1>3 DEF RunOK
<1>6. (StreamInv /\ PublisherInv)'
  BY DEF StreamInv, PublisherInv, Unasked, Answering, AtEnd
<1>7. (DraftInv /\ OwnerInv)'
  BY DEF DraftInv, OwnerInv, Drafts, Draft, Stored, Answering, Streaming
<1>8. BatchInv'
  BY DEF BatchInv, Batch, Answering
<1>9. SentInv'
  BY <1>3 DEF SentInv, RunOK, StreamInv, AtEnd, HistoryOK
<1>10. RunInv'
  BY <1>3 DEF RunInv
<1>11. (RepliesInv /\ NoProjectorDies)'
  BY RepliesStay DEF NoProjectorDies
<1> QED BY <1>4, <1>5, <1>6, <1>7, <1>8, <1>9, <1>10, <1>11

LEMMA RetriesNotIInv ==
  ASSUME IInv, RetriesNot
  PROVE  IInv'
<1> USE RetryAssumption DEF RetriesNot, Goto, journal, run, publisher, quiet,
        consumer, ticker, batch, bounds, history, IInv, Types
<1>1. Types'
  BY DEF JournalOK, RunOK, PublisherOK, FlagsOK, BatchOK, HistoryOK
<1>2. (StreamInv /\ PublisherInv)'
  BY DEF StreamInv, PublisherInv, Unasked, Answering, AtEnd
<1>3. (DraftInv /\ OwnerInv)'
  BY DEF DraftInv, OwnerInv, Drafts, Draft, Stored, Answering, Streaming
<1>4. BatchInv'
  BY DEF BatchInv, Batch, Answering
<1>5. (SentInv /\ RunInv)'
  BY DEF SentInv, RunInv, AtEnd
<1>6. (RepliesInv /\ NoProjectorDies)'
  BY RepliesStay DEF NoProjectorDies
<1> QED BY <1>1, <1>2, <1>3, <1>4, <1>5, <1>6

LEMMA StopsPublisherIInv ==
  ASSUME IInv, StopsPublisher
  PROVE  IInv'
<1> USE RetryAssumption DEF StopsPublisher, journal, run, quiet, consumer,
        ticker, batch, bounds, history, IInv, Types
<1>1. Types'
  BY DEF JournalOK, RunOK, PublisherOK, FlagsOK, BatchOK, HistoryOK
<1>2. (StreamInv /\ PublisherInv)'
  BY DEF StreamInv, PublisherInv, Unasked, Answering, AtEnd
<1>3. (DraftInv /\ OwnerInv)'
  BY DEF DraftInv, OwnerInv, Drafts, Draft, Stored
<1>4. BatchInv'
  BY DEF BatchInv, Batch
<1>5. (SentInv /\ RunInv)'
  BY DEF SentInv, RunInv
<1>6. (RepliesInv /\ NoProjectorDies)'
  BY RepliesStay DEF NoProjectorDies
<1> QED BY <1>1, <1>2, <1>3, <1>4, <1>5, <1>6

LEMMA SettlesDraftIInv ==
  ASSUME IInv, SettlesDraft
  PROVE  IInv'
<1> USE RetryAssumption DEF SettlesDraft, Partial, journal, Goto, NewPublisher,
        run, quiet, consumer, ticker, batch, bounds, history, IInv, Types
<1>1. PICK m \in Replies \cup {Nobody} : m = cur
  BY DEF PublisherOK
<1>2. /\ JournalOK' /\ Others(m) /\ UNCHANGED defect
      /\ m # Nobody => ~Draft(m)'
      /\ \/ UNCHANGED journal
         \/ /\ m # Nobody /\ Stored(m)' = said[m]
            /\ entry'[m] = "aborted"
            /\ \A c \in Calls : calls'[m][c] \in {"none", "aborted"}
  <2>1. CASE m # Nobody /\ Draft(m)
    <3>1. Partial = said[m] /\ said[m] \in Content
      BY <1>1, <2>1 DEF DraftInv, Answering, HistoryOK, Partial
    <3>2. AbortEntry(m, said[m])
      BY <1>1, <2>1, <3>1
    <3>3. /\ JournalOK' /\ Others(m) /\ entry'[m] = "aborted"
          /\ Stored(m)' = said[m]
          /\ \A c \in Calls : calls'[m][c] \in {"none", "aborted"}
          /\ UNCHANGED defect
      BY <2>1, <3>1, <3>2, AbortEntryDoes
    <3> QED BY <2>1, <3>3 DEF Draft
  <2>2. CASE ~(m # Nobody /\ Draft(m))
    BY <1>1, <2>2 DEF Others, JournalOK, Draft, journal
  <2> QED BY <2>1, <2>2
<1>3. (JournalOK /\ FlagsOK)'
  BY <1>1, <1>2 DEF FlagsOK
<1>4. (RunOK /\ BatchOK /\ HistoryOK)'
  BY <1>1, <1>2 DEF RunOK, BatchOK, HistoryOK
<1>5. PublisherOK'
  BY NothingOK DEF PublisherOK
<1>6. (StreamInv /\ PublisherInv)'
  BY <1>1, <1>2 DEF StreamInv, PublisherInv, Unasked, Answering, AtEnd
<1>7. DraftInv'
  BY <1>1, <1>2
     DEF DraftInv, PublisherInv, StreamInv, RunOK, PublisherOK, Unasked,
         Answering, AtEnd, Draft, Stored, Below
<1>8. OwnerInv'
  <2>1. ASSUME NEW n \in Drafts' PROVE n \in Drafts /\ n # m
    <3>1. n \in Replies /\ entry'[n] = "draft"
      BY DEF Drafts, Draft
    <3>2. n # m
      BY <1>2, <3>1 DEF Draft, Replies, Nobody
    <3> QED BY <1>2, <3>1, <3>2 DEF Drafts, Draft, Others
  <2> QED BY <1>1, <2>1 DEF OwnerInv, Streaming
<1>9. BatchInv'
  BY <1>1, <1>2 DEF BatchInv, Batch
<1>10. (SentInv /\ RunInv)'
  BY <1>1, <1>2 DEF SentInv, RunInv, AtEnd
<1>11. NoProjectorDies'
  BY <1>1, <1>2 DEF NoProjectorDies
<1>12. RepliesInv'
  <2>1. CASE UNCHANGED journal
    BY <2>1, RepliesStay
  <2>2. CASE m # Nobody /\ Stored(m)' = said[m] /\ entry'[m] = "aborted"
    <3>1. ReplyInv(m)'
      BY <1>1, <1>2, <2>2 DEF RepliesInv, ReplyInv, journal
    <3> QED BY <1>1, <1>2, <2>2, <3>1, OthersStay
  <2> QED BY <1>2, <2>1, <2>2
<1> QED BY <1>3, <1>4, <1>5, <1>6, <1>7, <1>8, <1>9, <1>10, <1>11, <1>12

LEMMA SkipsCallIInv ==
  ASSUME IInv, SkipsCall
  PROVE  IInv'
<1> USE BoundsAssumption DEF SkipsCall, run, publisher, quiet, consumer,
        ticker, batch, bounds, history, IInv, Types
<1>1. PICK m \in Replies, c \in Calls :
        /\ m = cur /\ Draft(m) /\ calls[m][c] = "pending"
        /\ SettleToolCall(m, c, "skipped")
  BY DEF PublisherInv, PublisherOK, AtEnd, Pending, Nobody
<1>2. /\ JournalOK' /\ Others(m) /\ Stored(m)' = Stored(m)
      /\ calls'[m][c] = "skipped"
      /\ \A d \in Calls \ {c} : calls'[m][d] = calls[m][d]
      /\ UNCHANGED <<entry, text, defect>>
  BY <1>1, SettleToolCallDoes
<1>3. (JournalOK /\ FlagsOK)'
  BY <1>1, <1>2 DEF FlagsOK
<1>4. (RunOK /\ PublisherOK /\ BatchOK /\ HistoryOK)'
  BY <1>1, <1>2 DEF RunOK, PublisherOK, BatchOK, HistoryOK
<1>5. (StreamInv /\ PublisherInv)'
  BY <1>1, <1>2 DEF StreamInv, PublisherInv, Unasked, Answering, AtEnd, Draft
<1>6. (DraftInv /\ OwnerInv)'
  BY <1>1, <1>2 DEF DraftInv, OwnerInv, Drafts, Draft, Stored
<1>7. BatchInv'
  BY <1>1, <1>2 DEF BatchInv, Batch
<1>8. (SentInv /\ RunInv)'
  BY <1>1, <1>2 DEF SentInv, RunInv
<1>9. NoProjectorDies'
  BY <1>1, <1>2 DEF NoProjectorDies
<1>10. RepliesInv'
  <2>1. ReplyInv(m)'
    BY <1>1, <1>2 DEF RepliesInv, ReplyInv, OwnerInv, Drafts, Draft,
       PublisherInv, BatchInv, StreamInv, DraftInv, Answering, AtEnd, Streaming
  <2> QED BY <1>1, <1>2, <2>1, OthersStay
<1> QED BY <1>3, <1>4, <1>5, <1>6, <1>7, <1>8, <1>9, <1>10

LEMMA ToolStartsIInv ==
  ASSUME IInv, NEW c \in Calls, ToolStarts(c)
  PROVE  IInv'
<1> USE RetryAssumption, BoundsAssumption DEF ToolStarts, Batch, journal, run,
        publisher, quiet, consumer, ticker, bounds, IInv, Types
<1>1. PICK m \in Replies : m = cur
  BY DEF PublisherOK, PublisherInv, AtEnd, Nobody
<1>2. /\ calls[m][c] = "pending" /\ ended[m] = "toolUse" /\ Draft(m)
      /\ ran[m][c] = 0
  BY <1>1 DEF BatchInv, PublisherInv
<1>3. ran' = [ran EXCEPT ![m] = [ran[m] EXCEPT ![c] = 1]]
  BY <1>1, <1>2 DEF HistoryOK
<1>4. (JournalOK /\ RunOK /\ PublisherOK /\ FlagsOK /\ BatchOK)'
  BY DEF JournalOK, RunOK, PublisherOK, FlagsOK, BatchOK
<1>5. HistoryOK'
  BY <1>1, <1>3 DEF HistoryOK
<1>6. (StreamInv /\ PublisherInv)'
  BY DEF StreamInv, PublisherInv, Unasked, Answering, AtEnd, Draft
<1>7. (DraftInv /\ OwnerInv)'
  BY DEF DraftInv, OwnerInv, Drafts, Draft, Stored
<1>8. BatchInv'
  BY DEF BatchInv, PublisherInv, StreamInv, DraftInv, RunOK, PublisherOK,
         BatchOK, Unasked, Answering, AtEnd, Draft, Batch
<1>9. (SentInv /\ RunInv)'
  BY DEF SentInv, RunInv
<1>10. NoProjectorDies'
  BY DEF NoProjectorDies
<1>11. RepliesInv'
  <2>1. ReplyInv(m)'
    BY <1>1, <1>3, <1>2 DEF RepliesInv, ReplyInv, Draft, HistoryOK
  <2>2. Others(m)
    BY DEF Others
  <2> QED BY <1>1, <1>3, <2>1, <2>2, OthersStay DEF HistoryOK
<1> QED BY <1>4, <1>5, <1>6, <1>7, <1>8, <1>9, <1>10, <1>11

LEMMA ToolSettlesIInv ==
  ASSUME IInv, NEW c \in Calls, ToolSettles(c)
  PROVE  IInv'
<1> USE RetryAssumption, BoundsAssumption DEF ToolSettles, run, publisher,
        quiet, consumer, ticker, bounds, history, IInv, Types
<1>1. PICK m \in Replies :
        /\ m = cur /\ Draft(m) /\ calls[m][c] = "pending"
        /\ SettleToolCall(m, c, "done")
  BY DEF PublisherInv, PublisherOK, AtEnd, BatchInv, Nobody
<1>2. /\ JournalOK' /\ Others(m) /\ Stored(m)' = Stored(m)
      /\ calls'[m][c] = "done"
      /\ \A d \in Calls \ {c} : calls'[m][d] = calls[m][d]
      /\ UNCHANGED <<entry, text, defect>>
  BY <1>1, SettleToolCallDoes
<1>3. (JournalOK /\ FlagsOK)'
  BY <1>1, <1>2 DEF FlagsOK
<1>4. (RunOK /\ PublisherOK /\ BatchOK /\ HistoryOK)'
  BY <1>1, <1>2 DEF RunOK, PublisherOK, BatchOK, HistoryOK
<1>5. (StreamInv /\ PublisherInv)'
  BY <1>1, <1>2 DEF StreamInv, PublisherInv, Unasked, Answering, AtEnd, Draft
<1>6. (DraftInv /\ OwnerInv)'
  BY <1>1, <1>2 DEF DraftInv, OwnerInv, Drafts, Draft, Stored
<1>7. BatchInv'
  BY <1>1, <1>2
     DEF BatchInv, PublisherInv, StreamInv, DraftInv, RunOK, PublisherOK,
         BatchOK, Unasked, Answering, AtEnd, Draft, Batch
<1>8. (SentInv /\ RunInv)'
  BY <1>1, <1>2 DEF SentInv, RunInv
<1>9. NoProjectorDies'
  BY <1>1, <1>2 DEF NoProjectorDies
<1>10. RepliesInv'
  <2>1. ReplyInv(m)'
    BY <1>1, <1>2 DEF RepliesInv, ReplyInv, OwnerInv, Drafts, Draft,
       PublisherInv, BatchInv, StreamInv, DraftInv, Answering, AtEnd, Streaming
  <2> QED BY <1>1, <1>2, <2>1, OthersStay
<1> QED BY <1>3, <1>4, <1>5, <1>6, <1>7, <1>8, <1>9, <1>10

LEMMA ToolIsCutIInv ==
  ASSUME IInv, NEW c \in Calls, ToolIsCut(c)
  PROVE  IInv'
<1> USE BoundsAssumption DEF ToolIsCut, journal, run, publisher, quiet,
        consumer, ticker, bounds, history, IInv, Types
<1>1. Types'
  BY DEF JournalOK, RunOK, PublisherOK, FlagsOK, BatchOK, HistoryOK
<1>2. (StreamInv /\ PublisherInv)'
  BY DEF StreamInv, PublisherInv, Unasked, Answering, AtEnd, Draft
<1>3. (DraftInv /\ OwnerInv)'
  BY DEF DraftInv, OwnerInv, Drafts, Draft, Stored
<1>4. BatchInv'
  BY DEF BatchInv, Batch
<1>5. (SentInv /\ RunInv)'
  BY DEF SentInv, RunInv
<1>6. (RepliesInv /\ NoProjectorDies)'
  BY RepliesStay DEF NoProjectorDies
<1> QED BY <1>1, <1>2, <1>3, <1>4, <1>5, <1>6

LEMMA CutSettlesIInv ==
  ASSUME IInv, NEW c \in Calls, CutSettles(c)
  PROVE  IInv'
<1> USE BoundsAssumption DEF CutSettles, Running, Batch, run, publisher, quiet,
        consumer, ticker, bounds, history, IInv, Types
<1>1. PICK m \in Replies :
        /\ m = cur /\ Draft(m) /\ calls[m][c] = "pending"
        /\ SettleToolCall(m, c, "aborted")
  BY DEF PublisherInv, PublisherOK, AtEnd, BatchInv, Nobody
<1>2. /\ JournalOK' /\ Others(m) /\ Stored(m)' = Stored(m)
      /\ calls'[m][c] = "aborted"
      /\ \A d \in Calls \ {c} : calls'[m][d] = calls[m][d]
      /\ UNCHANGED <<entry, text, defect>>
  BY <1>1, SettleToolCallDoes
<1>3. (JournalOK /\ FlagsOK)'
  BY <1>1, <1>2 DEF FlagsOK
<1>4. (RunOK /\ PublisherOK /\ BatchOK /\ HistoryOK)'
  BY <1>1, <1>2 DEF RunOK, PublisherOK, BatchOK, HistoryOK
<1>5. (StreamInv /\ PublisherInv)'
  BY <1>1, <1>2 DEF StreamInv, PublisherInv, Unasked, Answering, AtEnd, Draft
<1>6. (DraftInv /\ OwnerInv)'
  BY <1>1, <1>2 DEF DraftInv, OwnerInv, Drafts, Draft, Stored
<1>7. BatchInv'
  BY <1>1, <1>2 DEF BatchInv, Batch
<1>8. (SentInv /\ RunInv)'
  BY <1>1, <1>2 DEF SentInv, RunInv
<1>9. NoProjectorDies'
  BY <1>1, <1>2 DEF NoProjectorDies
<1>10. RepliesInv'
  <2>1. ReplyInv(m)'
    BY <1>1, <1>2 DEF RepliesInv, ReplyInv, OwnerInv, Drafts, Draft,
       PublisherInv, BatchInv, StreamInv, DraftInv, Answering, AtEnd, Streaming
  <2> QED BY <1>1, <1>2, <2>1, OthersStay
<1> QED BY <1>3, <1>4, <1>5, <1>6, <1>7, <1>8, <1>9, <1>10

LEMMA CommitsIInv ==
  ASSUME IInv, Commits
  PROVE  IInv'
<1> USE RetryAssumption, BoundsAssumption DEF Commits, Goto, Batch, Running,
        run, publisher, quiet, consumer, ticker, batch, bounds, history, IInv,
        Types
<1>1. PICK m \in Replies :
        m = cur /\ Draft(m) /\ Pending(m) = {} /\ CommitEntry(m)
  BY DEF PublisherInv, PublisherOK, AtEnd, BatchInv, Nobody, Pending
<1>2. /\ JournalOK' /\ Others(m) /\ entry'[m] = "committed"
      /\ attempt' = 0 /\ UNCHANGED <<text, calls, defect>>
      /\ Stored(m)' = Stored(m)
  BY <1>1, CommitEntryDoes DEF Stored
<1>3. (JournalOK /\ FlagsOK)'
  BY <1>1, <1>2 DEF FlagsOK
<1>4. (RunOK /\ PublisherOK /\ BatchOK /\ HistoryOK)'
  BY <1>1, <1>2 DEF RunOK, PublisherOK, BatchOK, HistoryOK
<1>5. (StreamInv /\ PublisherInv)'
  BY <1>1, <1>2 DEF StreamInv, PublisherInv, Unasked, Answering, AtEnd
<1>6. (DraftInv /\ OwnerInv)'
  BY <1>1, <1>2
     DEF DraftInv, OwnerInv, PublisherInv, StreamInv, RunOK, PublisherOK,
         Unasked, Answering, AtEnd, Streaming, Drafts, Draft, Stored, Below,
         Others
<1>7. BatchInv'
  BY <1>1, <1>2 DEF BatchInv, Batch, Answering
<1>8. (SentInv /\ RunInv)'
  BY <1>1, <1>2 DEF SentInv, RunInv, AtEnd
<1>9. NoProjectorDies'
  BY <1>1, <1>2 DEF NoProjectorDies
<1>10. RepliesInv'
  <2>1. ReplyInv(m)'
    BY <1>1, <1>2 DEF RepliesInv, ReplyInv, OwnerInv, Drafts, Draft,
       PublisherInv, BatchInv, StreamInv, DraftInv, Answering, AtEnd, Streaming
  <2> QED BY <1>1, <1>2, <2>1, OthersStay
<1> QED BY <1>3, <1>4, <1>5, <1>6, <1>7, <1>8, <1>9, <1>10

LEMMA FinishesTurnIInv ==
  ASSUME IInv, FinishesTurn
  PROVE  IInv'
<1> USE RetryAssumption, BoundsAssumption DEF FinishesTurn, Batch, Goto,
        NewPublisher, journal, quiet, consumer, ticker, run, bounds, history,
        IInv, Types
<1>1. (JournalOK /\ FlagsOK /\ BatchOK /\ HistoryOK)'
  BY DEF JournalOK, FlagsOK, BatchOK, HistoryOK
<1>2. RunOK'
  BY DEF RunOK, RunInv
<1>3. PublisherOK'
  BY NothingOK DEF PublisherOK
<1>4. (StreamInv /\ PublisherInv)'
  BY DEF StreamInv, PublisherInv, Unasked, Answering, AtEnd
<1>5. (DraftInv /\ OwnerInv)'
  BY DEF DraftInv, OwnerInv, Drafts, Draft, Stored, Answering, Streaming
<1>6. BatchInv'
  BY DEF BatchInv, Batch
<1>7. (SentInv /\ RunInv)'
  BY DEF SentInv, RunInv, AtEnd
<1>8. (RepliesInv /\ NoProjectorDies)'
  BY RepliesStay DEF NoProjectorDies
<1> QED BY <1>1, <1>2, <1>3, <1>4, <1>5, <1>6, <1>7, <1>8

LEMMA InterruptedIInv ==
  ASSUME IInv, Interrupted
  PROVE  IInv'
<1> USE BoundsAssumption DEF Interrupted, Goto, journal, run, publisher,
        ticker, batch, bounds, history, IInv, Types
<1>1. Types'
  BY DEF JournalOK, RunOK, PublisherOK, FlagsOK, BatchOK, HistoryOK
<1>2. (StreamInv /\ PublisherInv)'
  BY DEF StreamInv, PublisherInv, Unasked, Answering, AtEnd, Draft
<1>3. (DraftInv /\ OwnerInv)'
  BY DEF DraftInv, OwnerInv, PublisherInv, Unasked, Drafts, Draft, Stored,
         Answering, Streaming
<1>4. BatchInv'
  BY DEF BatchInv, PublisherInv, Unasked, Answering, AtEnd, Batch
<1>5. (SentInv /\ RunInv)'
  BY DEF SentInv, RunInv, AtEnd
<1>6. (RepliesInv /\ NoProjectorDies)'
  BY RepliesStay DEF NoProjectorDies
<1> QED BY <1>1, <1>2, <1>3, <1>4, <1>5, <1>6

LEMMA EndsExecutionIInv ==
  ASSUME IInv, EndsExecution
  PROVE  IInv'
<1> USE RetryAssumption, BoundsAssumption DEF EndsExecution, Goto, Fresh,
        HostStopped, run, publisher, ticker, consumer, batch, history,
        NewPublisher, journal, bounds, IInv, Types
<1>1. (JournalOK /\ FlagsOK /\ BatchOK /\ HistoryOK)'
  BY DEF JournalOK, FlagsOK, BatchOK, HistoryOK
<1>2. RunOK'
  BY HostStoppedOK DEF RunOK
<1>3. PublisherOK'
  BY NothingOK DEF PublisherOK
<1>4. (StreamInv /\ PublisherInv)'
  BY DEF StreamInv, PublisherInv, Unasked, Answering, AtEnd
<1>5. (DraftInv /\ OwnerInv)'
  BY DEF DraftInv, OwnerInv, Drafts, Draft, Stored, Answering, Streaming
<1>6. BatchInv'
  BY DEF BatchInv, Batch
<1>7. (SentInv /\ RunInv)'
  BY DEF SentInv, RunInv, RunOK, AtEnd
<1>8. (RepliesInv /\ NoProjectorDies)'
  BY RepliesStay DEF NoProjectorDies
<1> QED BY <1>1, <1>2, <1>3, <1>4, <1>5, <1>6, <1>7, <1>8

LEMMA StartedIInv ==
  ASSUME IInv, NEW m \in Replies, Started(m)
  PROVE  IInv'
<1> USE BoundsAssumption DEF Started, run, ticker, consumer, batch, bounds,
        history, IInv, Types
<1>1. Draft(m)' /\ JournalOK' /\ Others(m) /\ UNCHANGED <<text, calls, defect>>
  BY AppendDraftDoes DEF Draft
<1>2. /\ text[m] = 0 /\ said[m] = Nothing /\ ended[m] = "no" /\ m # Nobody
      /\ \A c \in Calls : calls[m][c] = "none" /\ ran[m][c] = 0
  BY DEF RepliesInv, ReplyInv, Nobody, Replies
<1>3. Drafts = {}
  BY DEF OwnerInv, Drafts, StreamInv, Nobody, Replies
<1>4. Stored(m)' = Nothing
  BY <1>1, <1>2 DEF Stored, Nothing
<1>5. FlagsOK'
  BY <1>1, <1>2 DEF FlagsOK
<1>6. (RunOK /\ PublisherOK /\ BatchOK /\ HistoryOK)'
  BY <1>1, <1>2 DEF RunOK, PublisherOK, BatchOK, HistoryOK
<1>7. JournalOK'
  BY <1>1
<1>8. (StreamInv /\ PublisherInv)'
  BY <1>1, <1>2 DEF StreamInv, PublisherInv, Unasked, Answering, AtEnd
<1>9. DraftInv'
  BY <1>1, <1>2, <1>4 DEF DraftInv, StreamInv, PublisherInv, Below, Nothing
<1>10. OwnerInv'
  <2>1. \A n \in Drafts' : n = m
    BY <1>1, <1>3 DEF Drafts, Draft, Others
  <2> QED BY <2>1 DEF OwnerInv, StreamInv, Streaming
<1>11. BatchInv'
  BY <1>1, <1>2 DEF BatchInv, PublisherInv, Unasked, Answering, AtEnd, Batch
<1>12. (SentInv /\ RunInv)'
  BY <1>1, <1>2 DEF SentInv, RunInv
<1>13. NoProjectorDies'
  BY <1>1, <1>2 DEF NoProjectorDies
<1>14. RepliesInv'
  <2>1. ReplyInv(m)'
    BY <1>1, <1>2 DEF ReplyInv, Draft
  <2> QED BY <1>1, <2>1, OthersStay
<1> QED BY <1>5, <1>6, <1>7, <1>8, <1>9, <1>10, <1>11, <1>12, <1>13, <1>14

LEMMA StreamedIInv ==
  ASSUME IInv, Streamed
  PROVE  IInv'
<1> USE RetryAssumption, BoundsAssumption DEF Streamed, Observe, journal, run,
        consumer, batch, bounds, IInv, Types
<1>1. PICK m \in Replies : m = cur /\ Draft(m)
  BY DEF PublisherOK, DraftInv, StreamInv, Answering, Nobody
<1>2. /\ said[m] \in Content
      /\ said[m].text \in 0 .. MaxChunks /\ said[m].calls \subseteq Calls
  BY DEF HistoryOK, Content
<1>3. PICK x \in Content : Below(said[m], x)
                           /\ said' = [said EXCEPT ![m] = x]
  <2>1. ASSUME NEW y \in Calls PROVE
          LET x == [said[m] EXCEPT !.calls = @ \cup {y}]
          IN  x \in Content /\ Below(said[m], x)
    BY <1>2 DEF Content, Below
  <2>2. ASSUME said[m].text < MaxChunks PROVE
          LET x == [said[m] EXCEPT !.text = @ + 1]
          IN  x \in Content /\ Below(said[m], x)
    BY <1>2, <2>2 DEF Content, Below
  <2> QED BY <1>1, <2>1, <2>2
<1>4. (JournalOK /\ RunOK /\ PublisherOK /\ FlagsOK /\ BatchOK)'
  BY DEF JournalOK, RunOK, PublisherOK, FlagsOK, BatchOK
<1>5. HistoryOK'
  BY <1>3 DEF HistoryOK
<1>6. (StreamInv /\ PublisherInv)'
  BY DEF StreamInv, PublisherInv, Unasked, Answering, AtEnd
<1>7. OwnerInv'
  BY DEF OwnerInv, PublisherInv, StreamInv, RunOK, PublisherOK, Unasked,
         Answering, AtEnd, Drafts, Draft, Streaming
<1>8. DraftInv'
  <2>1. ~settled /\ ~settled' /\ Stored(cur)' = Stored(cur) /\ cur' = cur
        /\ Draft(cur)' = Draft(cur)
    BY DEF StreamInv, Stored, Draft
  <2>2. said'[m] = x
    BY <1>3 DEF HistoryOK
  <2>3. Below(saved, said[m]) /\ Stored(m) = saved
        /\ (tick = "writing" => Below(saved, taken) /\ Below(taken, said[m]))
    BY <1>1, <2>1 DEF DraftInv, StreamInv, Answering, Nobody
  <2>4. ASSUME NEW y \in Content, Below(y, said[m]) PROVE Below(y, x)
    BY <1>3, <1>2, <2>4 DEF Below, Content
  <2>5. Below(saved, x) /\ (tick = "writing" => Below(taken, x))
    BY <2>3, <2>4 DEF PublisherOK
  <2> QED BY <1>1, <2>1, <2>2, <2>3, <2>5 DEF DraftInv
<1>9. BatchInv'
  BY DEF BatchInv, PublisherInv, StreamInv, Answering, AtEnd, Batch
<1>10. (SentInv /\ RunInv)'
  BY DEF SentInv, RunInv
<1>11. NoProjectorDies'
  BY DEF NoProjectorDies
<1>12. RepliesInv'
  <2>1. ReplyInv(m)'
    BY <1>1 DEF RepliesInv, ReplyInv, Draft
  <2>2. Others(m)
    BY DEF Others
  <2> QED BY <1>3, <2>1, <2>2, OthersStay DEF HistoryOK
<1> QED BY <1>4, <1>5, <1>6, <1>7, <1>8, <1>9, <1>10, <1>11, <1>12

LEMMA DoneIInv ==
  ASSUME IInv, Done
  PROVE  IInv'
<1> USE DEF Done, journal, run, ticker, batch, bounds, history, IInv, Types
<1>1. Types'
  BY DEF JournalOK, RunOK, PublisherOK, FlagsOK, BatchOK, HistoryOK
<1>2. (StreamInv /\ PublisherInv)'
  BY DEF StreamInv, PublisherInv
<1>3. (DraftInv /\ OwnerInv)'
  BY DEF DraftInv, OwnerInv, Drafts, Draft, Stored
<1>4. BatchInv'
  BY DEF BatchInv, Batch
<1>5. (SentInv /\ RunInv)'
  BY DEF SentInv, RunInv
<1>6. (RepliesInv /\ NoProjectorDies)'
  BY RepliesStay DEF NoProjectorDies
<1> QED BY <1>1, <1>2, <1>3, <1>4, <1>5, <1>6

LEMMA EndedIInv ==
  ASSUME IInv, Ended
  PROVE  IInv'
<1> USE RetryAssumption, BoundsAssumption DEF Ended, run, ticker, batch,
        bounds, IInv, Types
<1>1. PICK m \in Replies : /\ m = cur /\ Draft(m) /\ said[m] \in Content
                           /\ ReplaceAssistant(m, said[m])
  BY DEF PublisherOK, DraftInv, StreamInv, Answering, HistoryOK, Nobody
<1>2. /\ JournalOK' /\ Others(m) /\ Stored(m)' = said[m]
      /\ \A c \in Calls : /\ calls'[m][c] = "pending" <=> c \in said[m].calls
                          /\ calls'[m][c] # "skipped"
      /\ attempt' = 0 /\ UNCHANGED <<entry, defect>>
  BY <1>1, ReplaceAssistantDoes

<1>3. (JournalOK /\ FlagsOK)'
  BY <1>1, <1>2 DEF FlagsOK
<1>4. (RunOK /\ PublisherOK /\ BatchOK /\ HistoryOK)'
  BY <1>1, <1>2 DEF RunOK, PublisherOK, BatchOK, HistoryOK
<1>5. (StreamInv /\ PublisherInv)'
  BY <1>1, <1>2 DEF StreamInv, PublisherInv, Unasked, Answering, AtEnd, Draft
<1>6. (DraftInv /\ OwnerInv)'
  BY <1>1, <1>2 DEF DraftInv, OwnerInv, Drafts, Draft, Stored
<1>7. BatchInv'
  BY <1>1, <1>2 DEF BatchInv, PublisherInv, StreamInv, Answering, AtEnd, Batch
<1>8. (SentInv /\ RunInv)'
  BY <1>1, <1>2 DEF SentInv, RunInv, RunOK, AtEnd
<1>9. NoProjectorDies'
  BY <1>1, <1>2 DEF NoProjectorDies
<1>10. RepliesInv'
  <2>1. ReplyInv(m)'
    BY <1>1, <1>2 DEF RepliesInv, ReplyInv, Draft, BatchInv, StreamInv,
       Answering, HistoryOK
  <2> QED BY <1>1, <1>2, <2>1, OthersStay DEF HistoryOK
<1> QED BY <1>3, <1>4, <1>5, <1>6, <1>7, <1>8, <1>9, <1>10

LEMMA ErroredIInv ==
  ASSUME IInv, Errored
  PROVE  IInv'
<1> USE RetryAssumption DEF Errored, journal, run, ticker, batch, bounds,
        history, IInv, Types
<1>1. Types'
  BY DEF JournalOK, RunOK, PublisherOK, FlagsOK, BatchOK, HistoryOK
<1>2. (StreamInv /\ PublisherInv)'
  BY DEF StreamInv, PublisherInv, Unasked, Answering, AtEnd
<1>3. (DraftInv /\ OwnerInv)'
  BY DEF DraftInv, OwnerInv, Drafts, Draft, Stored
<1>4. BatchInv'
  BY DEF BatchInv, Batch
<1>5. (SentInv /\ RunInv)'
  BY DEF SentInv, RunInv
<1>6. (RepliesInv /\ NoProjectorDies)'
  BY RepliesStay DEF NoProjectorDies
<1> QED BY <1>1, <1>2, <1>3, <1>4, <1>5, <1>6

LEMMA FailedIInv ==
  ASSUME IInv, Failed
  PROVE  IInv'
<1> USE RetryAssumption, BoundsAssumption DEF Failed, journal, run, ticker,
        batch, bounds, history, IInv, Types
<1>1. PICK m \in Replies \cup {Nobody} : m = cur
  BY DEF PublisherOK
<1>2. /\ JournalOK' /\ Others(m) /\ UNCHANGED defect
      /\ IF m # Nobody
         THEN /\ m \in Replies /\ entry'[m] = "aborted"
              /\ Stored(m)' = said[m]
              /\ \A c \in Calls : calls'[m][c] \in {"none", "aborted"}
         ELSE UNCHANGED journal
  <2>1. CASE m # Nobody
    <3>1. Draft(m) /\ said[m] \in Content /\ AbortEntry(m, said[m])
      BY <1>1, <2>1 DEF DraftInv, StreamInv, Answering, HistoryOK
    <3> QED BY <2>1, <3>1, AbortEntryDoes
  <2>2. CASE m = Nobody
    BY <1>1, <2>2 DEF Others, JournalOK, journal
  <2> QED BY <2>1, <2>2
<1>3. (JournalOK /\ FlagsOK)'
  BY <1>1, <1>2 DEF FlagsOK
<1>4. (RunOK /\ PublisherOK /\ BatchOK /\ HistoryOK)'
  BY <1>1, <1>2 DEF RunOK, PublisherOK, BatchOK, HistoryOK
<1>5. (StreamInv /\ PublisherInv)'
  BY <1>1, <1>2 DEF StreamInv, PublisherInv
<1>6. (DraftInv /\ OwnerInv)'
  BY <1>1, <1>2
     DEF DraftInv, OwnerInv, PublisherInv, StreamInv, RunOK, PublisherOK,
         Unasked, Answering, AtEnd, Streaming, Drafts, Draft, Stored, Below,
         Others
<1>7. BatchInv'
  BY <1>1, <1>2 DEF BatchInv, PublisherInv, StreamInv, Answering, AtEnd, Batch
<1>8. (SentInv /\ RunInv)'
  BY <1>1, <1>2 DEF SentInv, RunInv
<1>9. NoProjectorDies'
  BY <1>1, <1>2 DEF NoProjectorDies
<1>10. RepliesInv'
  <2>1. CASE m = Nobody
    BY <1>2, <2>1, RepliesStay
  <2>2. CASE m # Nobody
    <3>1. ReplyInv(m)'
      BY <1>1, <1>2, <2>2 DEF RepliesInv, ReplyInv
    <3> QED BY <1>1, <1>2, <2>2, <3>1, OthersStay
  <2> QED BY <2>1, <2>2
<1> QED BY <1>3, <1>4, <1>5, <1>6, <1>7, <1>8, <1>9, <1>10

LEMMA BrokenIInv ==
  ASSUME IInv, Broken
  PROVE  IInv'
<1> USE DEF Broken, journal, run, publisher, ticker, batch, bounds, history,
        IInv, Types
<1>1. Types'
  BY DEF JournalOK, RunOK, PublisherOK, FlagsOK, BatchOK, HistoryOK
<1>2. (StreamInv /\ PublisherInv)'
  BY DEF StreamInv, PublisherInv
<1>3. (DraftInv /\ OwnerInv)'
  BY DEF DraftInv, OwnerInv, Drafts, Draft, Stored
<1>4. BatchInv'
  BY DEF BatchInv, Batch
<1>5. (SentInv /\ RunInv)'
  BY DEF SentInv, RunInv
<1>6. (RepliesInv /\ NoProjectorDies)'
  BY RepliesStay DEF NoProjectorDies
<1> QED BY <1>1, <1>2, <1>3, <1>4, <1>5, <1>6

LEMMA TickTakesIInv ==
  ASSUME IInv, TickTakes
  PROVE  IInv'
<1> USE RetryAssumption DEF TickTakes, journal, run, consumer, batch, bounds,
        history, IInv, Types
<1>1. PICK m \in Replies : m = cur /\ said[m] \in Content
  BY DEF PublisherOK, PublisherInv, HistoryOK, Nobody
<1>2. (JournalOK /\ RunOK /\ FlagsOK /\ BatchOK /\ HistoryOK)'
  BY DEF JournalOK, RunOK, FlagsOK, BatchOK, HistoryOK
<1>3. PublisherOK'
  BY <1>1 DEF PublisherOK
<1>4. (StreamInv /\ PublisherInv)'
  BY DEF StreamInv, PublisherInv, Unasked, Answering, AtEnd
<1>5. OwnerInv'
  BY DEF OwnerInv, PublisherInv, StreamInv, RunOK, PublisherOK, Unasked,
         Answering, AtEnd, Drafts, Draft, Streaming
<1>6. DraftInv'
  BY <1>1 DEF DraftInv, PublisherInv, Draft, Stored, Below, Content, HistoryOK
<1>7. BatchInv'
  BY DEF BatchInv, Batch
<1>8. (SentInv /\ RunInv)'
  BY DEF SentInv, RunInv
<1>9. (RepliesInv /\ NoProjectorDies)'
  BY RepliesStay DEF NoProjectorDies
<1> QED BY <1>2, <1>3, <1>4, <1>5, <1>6, <1>7, <1>8, <1>9

LEMMA TickWritesIInv ==
  ASSUME IInv, TickWrites
  PROVE  IInv'
<1> USE BoundsAssumption DEF TickWrites, journal, run, consumer, batch, bounds,
        history, IInv, Types
<1>1. PICK m \in Replies :
        /\ m = cur /\ Draft(m) /\ Stored(m) = saved /\ pc \in Answering
        /\ Below(saved, taken) /\ Below(taken, said[m])
  BY DEF PublisherOK, PublisherInv, DraftInv, Nobody
<1>2. /\ JournalOK' /\ Others(m) /\ Stored(m)' = saved' /\ saved' \in Content
      /\ saved' \in {saved, taken} /\ UNCHANGED <<entry, defect>>
  <2>1. CASE Progress(cur, saved, taken) /\ saved' = taken
    BY <1>1, <2>1, ProgressDoes DEF PublisherOK
  <2>2. CASE UNCHANGED <<journal, saved, defect>>
    BY <1>1, <2>2 DEF Others, JournalOK, Stored, journal, PublisherOK
  <2> QED BY <2>1, <2>2
<1>3. (JournalOK /\ FlagsOK)'
  BY <1>1, <1>2 DEF FlagsOK
<1>4. (RunOK /\ BatchOK /\ HistoryOK)'
  BY <1>1, <1>2 DEF RunOK, BatchOK, HistoryOK
<1>5. PublisherOK'
  BY <1>2 DEF PublisherOK, Nothing, Content
<1>6. (StreamInv /\ PublisherInv)'
  BY <1>1, <1>2 DEF StreamInv, PublisherInv, Unasked, Answering, AtEnd
<1>7. (DraftInv /\ OwnerInv)'
  BY <1>1, <1>2
     DEF DraftInv, OwnerInv, PublisherInv, Unasked, Drafts, Draft, Stored,
         Answering, Streaming
<1>8. BatchInv'
  BY <1>1, <1>2 DEF BatchInv, Batch, Answering
<1>9. (SentInv /\ RunInv)'
  BY <1>1, <1>2 DEF SentInv, RunInv
<1>10. NoProjectorDies'
  BY <1>1, <1>2 DEF NoProjectorDies
<1>11. RepliesInv'
  <2>1. ReplyInv(m)'
    BY <1>1, <1>2 DEF RepliesInv, ReplyInv, OwnerInv, Drafts, Draft,
       PublisherInv, BatchInv, StreamInv, DraftInv, Answering, AtEnd, Streaming
  <2> QED BY <1>1, <1>2, <2>1, OthersStay
<1> QED BY <1>3, <1>4, <1>5, <1>6, <1>7, <1>8, <1>9, <1>10, <1>11

LEMMA TickStopsIInv ==
  ASSUME IInv, TickStops
  PROVE  IInv'
<1> USE RetryAssumption DEF TickStops, journal, run, publisher, consumer,
        batch, bounds, history, IInv, Types
<1>1. Types'
  BY DEF JournalOK, RunOK, PublisherOK, FlagsOK, BatchOK, HistoryOK
<1>2. (StreamInv /\ PublisherInv)'
  BY DEF StreamInv, PublisherInv, Unasked, Answering, AtEnd
<1>3. (DraftInv /\ OwnerInv)'
  BY DEF DraftInv, OwnerInv, Drafts, Draft, Stored
<1>4. BatchInv'
  BY DEF BatchInv, Batch
<1>5. (SentInv /\ RunInv)'
  BY DEF SentInv, RunInv
<1>6. (RepliesInv /\ NoProjectorDies)'
  BY RepliesStay DEF NoProjectorDies
<1> QED BY <1>1, <1>2, <1>3, <1>4, <1>5, <1>6

LEMMA StopIInv ==
  ASSUME IInv, Stop
  PROVE  IInv'
<1> USE BoundsAssumption DEF Stop, Outside, journal, run, publisher, quiet,
        consumer, ticker, batch, history, IInv, Types
<1>1. Types'
  BY DEF JournalOK, RunOK, PublisherOK, FlagsOK, BatchOK, HistoryOK
<1>2. (StreamInv /\ PublisherInv)'
  BY DEF StreamInv, PublisherInv, Unasked, Answering, AtEnd, Draft
<1>3. (DraftInv /\ OwnerInv)'
  BY DEF DraftInv, OwnerInv, Drafts, Draft, Stored
<1>4. BatchInv'
  BY DEF BatchInv, Batch
<1>5. (SentInv /\ RunInv)'
  BY DEF SentInv, RunInv
<1>6. (RepliesInv /\ NoProjectorDies)'
  BY RepliesStay DEF NoProjectorDies
<1> QED BY <1>1, <1>2, <1>3, <1>4, <1>5, <1>6

LEMMA CrashIInv ==
  ASSUME IInv, Crash
  PROVE  IInv'
<1> USE RetryAssumption, BoundsAssumption DEF Crash, Goto, Fresh, HostStopped,
        run, publisher, ticker, consumer, batch, history, NewPublisher,
        journal, IInv, Types
<1>1. (JournalOK /\ FlagsOK /\ BatchOK)'
  BY DEF JournalOK, FlagsOK, BatchOK
<1>2. RunOK'
  BY HostStoppedOK DEF RunOK
<1>3. PublisherOK'
  BY NothingOK DEF PublisherOK
<1>4. HistoryOK'
  BY DEF HistoryOK, Drafts
<1>5. (StreamInv /\ PublisherInv)'
  BY DEF StreamInv, PublisherInv, Unasked, Answering, AtEnd
<1>6. (DraftInv /\ OwnerInv)'
  BY DEF DraftInv, OwnerInv, Drafts, Draft, Stored
<1>7. BatchInv'
  BY DEF BatchInv, Batch
<1>8. (SentInv /\ RunInv)'
  BY DEF SentInv, RunInv, RunOK, AtEnd
<1>9. (RepliesInv /\ NoProjectorDies)'
  BY RepliesStay DEF NoProjectorDies
<1> QED BY <1>1, <1>2, <1>3, <1>4, <1>5, <1>6, <1>7, <1>8, <1>9

LEMMA BootIInv ==
  ASSUME IInv, Boot
  PROVE  IInv'
<1> USE RetryAssumption DEF Boot, Goto, journal, run, publisher, quiet,
        consumer, ticker, batch, bounds, history, IInv, Types
<1>1. Types'
  BY DEF JournalOK, RunOK, PublisherOK, FlagsOK, BatchOK, HistoryOK
<1>2. (StreamInv /\ PublisherInv)'
  BY DEF StreamInv, PublisherInv, Unasked, Answering, AtEnd
<1>3. (DraftInv /\ OwnerInv)'
  BY DEF DraftInv, OwnerInv, Drafts, Draft, Stored, Answering, Streaming
<1>4. BatchInv'
  BY DEF BatchInv, Batch, Answering
<1>5. (SentInv /\ RunInv)'
  BY DEF SentInv, RunInv, AtEnd
<1>6. (RepliesInv /\ NoProjectorDies)'
  BY RepliesStay DEF NoProjectorDies
<1> QED BY <1>1, <1>2, <1>3, <1>4, <1>5, <1>6

(* The invariant of the turn holds when the first drain starts.            *)
THEOREM InitIInv == Init => IInv
<1> SUFFICES ASSUME Init PROVE IInv
  OBVIOUS
<1> USE RetryAssumption, BoundsAssumption DEF Init
<1>1. Types
  <2>1. JournalOK
    BY DEF JournalOK
  <2>2. BatchOK /\ FlagsOK
    BY DEF BatchOK, FlagsOK
  <2>3. RunOK
    BY HostStoppedOK DEF RunOK
  <2>4. PublisherOK /\ HistoryOK
    BY NothingOK DEF PublisherOK, HistoryOK
  <2> QED BY <2>1, <2>3, <2>4, <2>2 DEF Types
<1>2. StreamInv /\ PublisherInv /\ DraftInv
  BY DEF StreamInv, PublisherInv, DraftInv, Unasked, Answering, AtEnd
<1>3. OwnerInv /\ BatchInv
  BY DEF OwnerInv, Drafts, Draft, BatchInv, Answering
<1>4. SentInv /\ RunInv
  BY DEF SentInv, AtEnd, RunInv
<1>5. RepliesInv /\ NoProjectorDies
  BY DEF RepliesInv, ReplyInv, NoProjectorDies
<1> QED BY <1>1, <1>2, <1>3, <1>4, <1>5 DEF IInv

(* Every step of the drain, the publisher, the tools, a stop, a crash and  *)
(* a start keeps the invariant of the turn.                                *)
THEOREM NextIInv == IInv /\ [Next]_vars => IInv'
<1> SUFFICES ASSUME IInv, [Next]_vars PROVE IInv'
  OBVIOUS
<1>1. CASE Fiber
  <2>1. ASSUME NEW c \in Calls, ToolIsCut(c) \/ CutSettles(c) PROVE IInv'
    BY <2>1, ToolIsCutIInv, CutSettlesIInv
  <2> QED BY <1>1, <2>1, BeginIInv, HealsNothingIInv, HealsByAbortIInv,
          HealsToolsIInv, HealsCallIInv, HealsTurnIInv, DrainedIInv,
          ResumesIInv, RestedIInv, AsksNothingIInv, AttemptIInv, OpensIInv,
          OpensNotIInv, AnsweredIInv, DrainedStreamIInv, RetriesIInv,
          RetriesNotIInv, StopsPublisherIInv, SettlesDraftIInv, SkipsCallIInv,
          CommitsIInv, FinishesTurnIInv, InterruptedIInv, EndsExecutionIInv
       DEF Fiber
<1>2. CASE Tools
  BY <1>2, ToolStartsIInv, ToolSettlesIInv DEF Tools
<1>3. CASE Terminal
  BY <1>3, ErroredIInv, FailedIInv, EndedIInv DEF Terminal
<1>4. CASE Provider
  BY <1>4, StartedIInv, StreamedIInv, DoneIInv, BrokenIInv DEF Provider
<1>5. CASE Ticker
  BY <1>5, TickTakesIInv, TickWritesIInv, TickStopsIInv DEF Ticker
<1>6. CASE Stop \/ Crash \/ Boot
  BY <1>6, StopIInv, CrashIInv, BootIInv
<1>7. CASE UNCHANGED vars
  <2> USE <1>7 DEF vars, journal, run, publisher, ticker, consumer, batch,
                   bounds, history, IInv, Types
  <2>1. (JournalOK /\ RunOK /\ PublisherOK /\ BatchOK)'
    BY DEF JournalOK, RunOK, PublisherOK, BatchOK
  <2>2. (FlagsOK /\ HistoryOK /\ NoProjectorDies)'
    BY DEF FlagsOK, HistoryOK, NoProjectorDies
  <2>3. (StreamInv /\ PublisherInv /\ SentInv /\ RunInv)'
    BY DEF StreamInv, PublisherInv, SentInv, RunInv, Draft
  <2>4. (DraftInv /\ OwnerInv /\ BatchInv)'
    BY DEF DraftInv, OwnerInv, BatchInv, Draft, Drafts, Stored, Batch
  <2>5. RepliesInv'
    BY RepliesStay
  <2> QED BY <2>1, <2>2, <2>3, <2>4, <2>5
<1> QED BY <1>1, <1>2, <1>3, <1>4, <1>5, <1>6, <1>7 DEF Next

-----------------------------------------------------------------------------
(* Every state that the turn reaches satisfies the invariant.              *)
THEOREM Invariance == Spec => []IInv
<1> QED BY InitIInv, NextIInv, PTL DEF Spec

(* Type correctness: of the entries, the run, the publisher and its        *)
(* ticker, the stream and the batch, through retries, stops and deaths.    *)
THEOREM TypeCorrect == Spec => []TypeOK
<1>1. IInv => TypeOK
  BY DEF IInv, Types, JournalOK, RunOK, PublisherOK, FlagsOK, BatchOK,
         HistoryOK, TypeOK
<1> QED BY <1>1, Invariance, PTL

(* No event of a turn is refused by its projector, in whichever order the  *)
(* stream, the ticker, the tools, stops and deaths come: no checkpoint is  *)
(* late, no call is settled twice and no turn is committed with one open   *)
(* (thread.ts:717, 791, 814).                                              *)
THEOREM ProjectorsAccept == Spec => []NoProjectorDies
<1>1. IInv => NoProjectorDies
  BY DEF IInv
<1> QED BY <1>1, Invariance, PTL

(* A run that is over, one that waits before a retry and one that asks     *)
(* anew have no draft (loop.ts:511-512).                                   *)
THEOREM DraftsAreOwned == Spec => []DraftIsOwned
<1>1. IInv => DraftIsOwned
  BY DEF IInv, OwnerInv, DraftIsOwned
<1> QED BY <1>1, Invariance, PTL

(* A settled reply holds all that the provider sent of it, unless its      *)
(* process died (event.ts:86, loop.ts:470).                                *)
THEOREM RepliesAreWhole == Spec => []NothingIsLost
<1>1. IInv => NothingIsLost
  BY DEF IInv, RepliesInv, ReplyInv, NothingIsLost
<1> QED BY <1>1, Invariance, PTL

(* A tool runs at most once, over stops and deaths, and a call answered as *)
(* skipped was not run (loop.ts:60).                                       *)
THEOREM ToolsAreRunOnce == Spec => []ToolsRunOnce
<1>1. IInv => ToolsRunOnce
  BY DEF IInv, RepliesInv, ReplyInv, ToolsRunOnce
<1> QED BY <1>1, Invariance, PTL

(* However often the host of a turn dies, its requests are at most one     *)
(* more than the retries of the settings (loop.ts:74-77, 458).             *)
THEOREM RequestsAreFew == Spec => []RequestsAreBounded
<1>1. IInv => RequestsAreBounded
  BY RetryAssumption
     DEF IInv, Types, RunOK, HistoryOK, SentInv, RequestsAreBounded
<1> QED BY <1>1, Invariance, PTL

(* A backoff is as long as the provider asked for, and not longer than the *)
(* settings allow, whatever the base delay and the retries are             *)
(* (retry.ts:19-20).                                                       *)
THEOREM BackoffsAreBounded == Spec => []BackoffIsBounded
<1>1. IInv => BackoffIsBounded
  BY DEF IInv, RunInv, BackoffIsBounded
<1> QED BY <1>1, Invariance, PTL

-----------------------------------------------------------------------------
(* The turn implements the transcript.  Beyond the invariant, a draft has  *)
(* settled calls only where no request is in flight, and grows only while  *)
(* its provider has not ended it and its process has not died.             *)

Untouched(m) == \A c \in Calls : calls[m][c] \in {"none", "pending"}

LifeInv ==
  /\ pc \in {"begun", "healing"} => carried = attempt
  /\ feed = "ended" \/ pc \in {"tools", "cut", "skip"} =>
       attempt = 0 /\ ended[cur] # "no"
  /\ pc \in Answering /\ cur # Nobody /\ ~settled => ended[cur] = "no"
  /\ \A m \in Drafts :
       /\ Untouched(m) \/ (attempt = 0 /\ pc \notin Answering)
       /\ healed => m \notin cutShort
  /\ \A m \in cutShort : entry[m] # "absent"

(* What those who read the thread see.                                     *)
seen == <<journal, ended, cutShort>>

LEMMA ProgressGrows ==
  ASSUME JournalOK, NEW m \in Replies, NEW from \in Content,
         NEW to \in Content, Draft(m), Stored(m) = from, Below(from, to),
         Progress(m, from, to)
  PROVE  Story!Grows(m)
<1> USE DEF JournalOK, Draft, Stored, Progress, Below, Content
<1>1. text[m] <= to.text /\ text' = [text EXCEPT ![m] = to.text]
  OBVIOUS
<1>2. DEFINE new == to.calls \ from.calls
<1>3. new \in SUBSET (Calls \ Story!Held(m))
  BY DEF Story!Held
<1>4. calls' = [calls EXCEPT ![m] =
        [c \in Calls |-> IF c \in new THEN "pending" ELSE @[c]]]
  OBVIOUS
<1> HIDE DEF new
<1> QED BY <1>1, <1>3, <1>4 DEF Story!Grows

LEMMA ReplaceAssistantGrows ==
  ASSUME JournalOK, NEW m \in Replies, NEW x \in Content, Draft(m),
         Untouched(m), Below(Stored(m), x), ReplaceAssistant(m, x)
  PROVE  Story!Grows(m)
<1> USE DEF JournalOK, Draft, Stored, ReplaceAssistant, Below, Content
<1>1. text[m] <= x.text /\ text' = [text EXCEPT ![m] = x.text]
  OBVIOUS
<1>2. DEFINE new == x.calls \ Stored(m).calls
<1>3. new \in SUBSET (Calls \ Story!Held(m))
  BY DEF Story!Held
<1>4. [c \in Calls |-> IF c \in x.calls THEN "pending" ELSE "none"]
        = [c \in Calls |-> IF c \in new THEN "pending" ELSE calls[m][c]]
  BY DEF Untouched
<1>5. calls' = [calls EXCEPT ![m] =
        [c \in Calls |-> IF c \in new THEN "pending" ELSE @[c]]]
  BY <1>4
<1> HIDE DEF new
<1> QED BY <1>1, <1>3, <1>5 DEF Story!Grows

(* An abort keeps what the draft holds, and adds to it only if it grows.   *)
LEMMA AbortEntryAborts ==
  ASSUME JournalOK, NEW m \in Replies, NEW x \in Content, Draft(m),
         Untouched(m), Below(Stored(m), x), AbortEntry(m, x),
         x = Stored(m) \/ Story!Growing(m), UNCHANGED <<ended, cutShort>>
  PROVE  Story!Abort(m)
<1> USE DEF JournalOK, Draft, Stored, AbortEntry, Below, Content
<1>1. /\ Story!Draft(m) /\ Story!Held(m) = Story!Open(m)
      /\ entry' = [entry EXCEPT ![m] = "aborted"]
  BY DEF Story!Draft, Story!Held, Story!Open, Untouched
<1>2. x.text \in 0 .. MaxChunks /\ text[m] <= x.text
      /\ text' = [text EXCEPT ![m] = x.text]
  OBVIOUS
<1>3. /\ x.calls \in SUBSET Calls /\ Story!Held(m) \subseteq x.calls
      /\ calls' = [calls EXCEPT ![m] =
           [c \in Calls |-> IF c \in x.calls THEN "aborted" ELSE "none"]]
  BY DEF Story!Held
<1>4. ASSUME ~Story!Growing(m) PROVE text' = text /\ x.calls = Story!Held(m)
  <2>1. x = Stored(m)
    BY <1>4
  <2> QED BY <1>2, <2>1 DEF Story!Held
<1> QED BY <1>1, <1>2, <1>3, <1>4 DEF Story!Abort

LEMMA SettleToolCallSettles ==
  ASSUME NEW m \in Replies, NEW c \in Calls,
         NEW status \in {"done", "skipped", "aborted"},
         Draft(m), calls[m][c] = "pending", SettleToolCall(m, c, status),
         status # "aborted" => ended[m] # "no" /\ m \notin cutShort,
         UNCHANGED <<ended, cutShort>>
  PROVE  Story!Settle(m, c)
BY DEF SettleToolCall, Draft, Story!Settle, Story!Draft, Story!Open

LEMMA CommitEntryCommits ==
  ASSUME NEW m \in Replies, Draft(m), Pending(m) = {}, CommitEntry(m),
         ended[m] # "no" \/ m \in cutShort, UNCHANGED <<ended, cutShort>>
  PROVE  Story!Commit(m)
BY DEF CommitEntry, Draft, Pending, Story!Commit, Story!Draft, Story!Open

-----------------------------------------------------------------------------
(* Steps that no reader sees.                                              *)

LEMMA UnseenIsStutter ==
  ASSUME UNCHANGED seen
  PROVE  UNCHANGED (Story!replyVars)
BY DEF seen, journal, Story!replyVars

(* They keep the invariant as long as they start no answer and keep the    *)
(* attempt where one is looked at.                                         *)
LEMMA FiberUnseen ==
  ASSUME IInv, LifeInv,
         \/ Begin \/ HealsNothing \/ HealsTools \/ Drained \/ Resumes
         \/ Rested \/ AsksNothing \/ Attempt \/ Opens \/ OpensNot
         \/ Answered \/ DrainedStream \/ Retries \/ RetriesNot
         \/ StopsPublisher \/ FinishesTurn \/ Interrupted \/ EndsExecution
  PROVE  LifeInv' /\ UNCHANGED seen
<1> USE DEF IInv, LifeInv, Goto, journal, run, publisher, quiet, consumer,
        ticker, batch, bounds, history, seen, Drafts, Draft, Untouched,
        Answering
<1>1. CASE Begin
  BY <1>1 DEF Begin
<1>2. CASE HealsNothing
  BY <1>2 DEF HealsNothing
<1>3. CASE HealsTools
  BY <1>3 DEF HealsTools, StreamInv
<1>4. CASE Drained \/ AsksNothing
  BY <1>4 DEF Drained, AsksNothing, StreamInv
<1>5. CASE Resumes \/ Rested
  BY <1>5 DEF Resumes, Rested, StreamInv
<1>6. CASE Attempt
  <2>1. Drafts = {}
    BY <1>6 DEF Attempt, OwnerInv, Streaming
  <2> QED BY <1>6, <2>1 DEF Attempt, NewPublisher, StreamInv
<1>7. CASE Opens \/ OpensNot
  <2>1. Drafts = {} /\ cur = Nobody
    BY <1>7 DEF Opens, OpensNot, OwnerInv, Streaming, PublisherInv, Unasked
  <2> QED BY <1>7, <2>1 DEF Opens, OpensNot, StreamInv
<1>8. CASE Answered \/ DrainedStream
  BY <1>8 DEF Answered, DrainedStream, StreamInv
<1>9. CASE Retries \/ RetriesNot \/ StopsPublisher
  BY <1>9 DEF Retries, RetriesNot, StopsPublisher, StreamInv
<1>10. CASE FinishesTurn
  BY <1>10 DEF FinishesTurn, NewPublisher, StreamInv
<1>11. CASE Interrupted
  <2>1. pc \in {"turn", "again", "opening", "backoff"} =>
          Drafts = {} /\ cur = Nobody
    BY <1>11 DEF Interrupted, OwnerInv, Streaming, PublisherInv, Unasked
  <2> QED BY <1>11, <2>1 DEF Interrupted, StreamInv
<1>12. CASE EndsExecution
  BY <1>12 DEF EndsExecution, Fresh, NewPublisher, StreamInv
<1> QED BY <1>1, <1>2, <1>3, <1>4, <1>5, <1>6, <1>7, <1>8, <1>9, <1>10,
           <1>11, <1>12

LEMMA OtherUnseen ==
  ASSUME IInv, LifeInv,
         \/ Streamed \/ Done \/ Broken \/ Errored \/ TickTakes \/ TickStops
         \/ Stop \/ Boot
         \/ \E c \in Calls : ToolStarts(c) \/ ToolIsCut(c)
  PROVE  LifeInv' /\ UNCHANGED seen
<1> USE DEF IInv, LifeInv, Goto, journal, run, publisher, quiet, consumer,
        ticker, batch, bounds, history, seen, Drafts, Draft, Untouched,
        Answering
<1>1. CASE Streamed \/ Done \/ Broken \/ Errored
  BY <1>1 DEF Streamed, Observe, Done, Broken, Errored
<1>2. CASE TickTakes \/ TickStops
  BY <1>2 DEF TickTakes, TickStops
<1>3. CASE Stop \/ Boot
  BY <1>3 DEF Stop, Boot
<1>4. CASE \E c \in Calls : ToolStarts(c) \/ ToolIsCut(c)
  BY <1>4 DEF ToolStarts, ToolIsCut
<1> QED BY <1>1, <1>2, <1>3, <1>4

-----------------------------------------------------------------------------
(* Steps that a reader sees.                                               *)

(* A draft belongs to a live process or a dead one, and a live one that is *)
(* answered by no settled publisher grows.                                 *)
LEMMA LiveGrows ==
  ASSUME IInv, LifeInv, pc \in Answering, cur # Nobody, ~settled
  PROVE  /\ cur \in Replies /\ Draft(cur) /\ Untouched(cur)
         /\ Story!Growing(cur) /\ cur \notin cutShort /\ ended[cur] = "no"
<1>1. cur \in Replies /\ Draft(cur)
  BY DEF IInv, Types, PublisherOK, DraftInv
<1>2. healed
  BY DEF IInv, OwnerInv, Answering
<1> QED BY <1>1, <1>2
        DEF LifeInv, Drafts, Draft, Story!Growing, Story!Draft

LEMMA StartedBegins ==
  ASSUME IInv, LifeInv, NEW m \in Replies, Started(m)
  PROVE  LifeInv' /\ Story!Begin(m)
<1>1. Drafts = {} /\ pc \in Answering /\ m \notin cutShort
  BY DEF IInv, LifeInv, Started, OwnerInv, StreamInv, Streaming, Answering,
         Drafts, Draft, Replies, Nobody
<1>2. ended[m] = "no" /\ \A c \in Calls : calls[m][c] = "none"
  BY DEF IInv, RepliesInv, ReplyInv, Started
<1>3. Story!Begin(m)
  BY <1>1 DEF Started, AppendDraft, Drafts, Draft, bounds, history,
          Story!Begin, Story!Draft
<1>4. LifeInv'
  BY <1>1, <1>2
     DEF IInv, Types, JournalOK, LifeInv, Started, AppendDraft, Drafts, Draft,
         Untouched, Answering, run, consumer, history, StreamInv
<1> QED BY <1>3, <1>4

LEMMA EndedAnswers ==
  ASSUME IInv, LifeInv, Ended
  PROVE  LifeInv' /\ \E m \in Replies : Story!Answer(m)
<1>1. /\ pc \in Answering /\ cur # Nobody /\ ~settled
      /\ pc \in {"await", "drain"}
  BY DEF IInv, StreamInv, Ended, Answering
<1>2. /\ cur \in Replies /\ Draft(cur) /\ Untouched(cur)
      /\ Story!Growing(cur) /\ cur \notin cutShort /\ ended[cur] = "no"
  BY <1>1, LiveGrows
<1>3. Below(Stored(cur), said[cur]) /\ said[cur] \in Content
  BY <1>1, <1>2 DEF IInv, Types, HistoryOK, DraftInv
<1>4. ReplaceAssistant(cur, said[cur]) /\ JournalOK
  BY DEF Ended, IInv, Types
<1>5. Story!Grows(cur)
  BY <1>2, <1>3, <1>4, ReplaceAssistantGrows
<1>6. PICK reason \in {"stop", "length", "toolUse"} :
        ended' = [ended EXCEPT ![cur] = reason]
  BY DEF Ended
<1>7. {n \in Replies : ended'[n] # "no"}
        = {n \in Replies : ended[n] # "no"} \cup {cur}
  BY <1>2, <1>6 DEF IInv, Types, HistoryOK
<1>8. UNCHANGED <<entry, cutShort>>
  BY <1>2, <1>4 DEF Ended, ReplaceAssistant
<1>9. \E m \in Replies : Story!Answer(m)
  BY <1>2, <1>5, <1>7, <1>8 DEF Story!Answer
<1>10. /\ JournalOK' /\ Others(cur) /\ attempt' = 0
       /\ \A c \in Calls : calls'[cur][c] = "pending" <=> c \in said[cur].calls
       /\ \A c \in Calls : calls'[cur][c] # "none" <=> c \in said[cur].calls
  BY <1>2, <1>3, <1>4, ReplaceAssistantDoes DEF Stored
<1>11. Untouched(cur)'
  BY <1>10 DEF Untouched, Ended
<1>12. \A n \in Drafts' : n = cur
  BY <1>2, <1>8 DEF IInv, OwnerInv, Drafts, Draft
<1>13. /\ settled' /\ feed' = "ended" /\ UNCHANGED <<pc, cur, healed>>
       /\ ended'[cur] # "no"
  BY <1>2, <1>6 DEF Ended, IInv, Types, HistoryOK
<1>14. LifeInv'
  BY <1>1, <1>2, <1>8, <1>10, <1>11, <1>12, <1>13 DEF LifeInv
<1> QED BY <1>9, <1>14

(* A request that fails before its stream has started leaves no entry.     *)
LEMMA FailedAborts ==
  ASSUME IInv, LifeInv, Failed
  PROVE  LifeInv' /\ ((cur # Nobody /\ Story!Abort(cur)) \/ UNCHANGED seen)
<1>1. /\ pc \in Answering /\ ~settled
      /\ feed' \in {"failed", "aborted"} /\ settled'
      /\ UNCHANGED <<attempt, pc, run, cur, healed, ended, cutShort>>
  BY DEF IInv, StreamInv, Failed, Answering, history
<1>2. CASE cur = Nobody
  BY <1>1, <1>2 DEF Failed, LifeInv, Drafts, Draft, Untouched, seen, journal,
                    run, Answering
<1>3. CASE cur # Nobody
  <2>1. /\ cur \in Replies /\ Draft(cur) /\ Untouched(cur)
        /\ Story!Growing(cur)
    BY <1>1, <1>3, LiveGrows
  <2>2. Below(Stored(cur), said[cur]) /\ said[cur] \in Content
    BY <1>1, <1>3, <2>1 DEF IInv, Types, HistoryOK, DraftInv
  <2>3. AbortEntry(cur, said[cur]) /\ JournalOK
    BY <1>3 DEF Failed, IInv, Types
  <2>4. Story!Abort(cur)
    BY <1>1, <2>1, <2>2, <2>3, AbortEntryAborts
  <2>5. Drafts' = {}
    BY <2>1, <2>2, <2>3, AbortEntryDoes
       DEF IInv, OwnerInv, Drafts, Draft, Others
  <2>6. \A n \in cutShort : entry'[n] # "absent"
    BY <2>1, <2>2, <2>3, AbortEntryDoes
       DEF IInv, Types, HistoryOK, LifeInv, Others
  <2> QED BY <1>1, <1>3, <2>4, <2>5, <2>6 DEF LifeInv, run, Answering
<1> QED BY <1>2, <1>3

LEMMA SettlesDraftAborts ==
  ASSUME IInv, LifeInv, SettlesDraft
  PROVE  LifeInv' /\ ((cur \in Replies /\ Story!Abort(cur)) \/ UNCHANGED seen)
<1>1. /\ pc \in {"retry", "abort"} /\ pc' \in {"backoff", "ending"}
      /\ feed = "none"
      /\ UNCHANGED <<attempt, run, feed, healed, ended, cutShort>>
  BY DEF IInv, StreamInv, SettlesDraft, Goto, quiet, consumer, history
<1>2. CASE cur # Nobody /\ Draft(cur)
  <2>1. cur \in Replies /\ Untouched(cur)
    BY <1>1, <1>2
       DEF IInv, Types, PublisherOK, LifeInv, Drafts, Answering
  <2>2. Partial \in Content /\ Below(Stored(cur), Partial)
    <3>1. Stored(cur) \in Content /\ said[cur] \in Content
      BY <2>1, StoredOK DEF IInv, Types, HistoryOK
    <3> QED BY <1>1, <1>2, <3>1
            DEF IInv, DraftInv, Partial, Below, Answering, Content
  <2>3. Partial = Stored(cur) \/ Story!Growing(cur)
    <3>1. CASE settled
      BY <3>1 DEF Partial
    <3>2. CASE ~settled
      BY <1>1, <1>2, <3>2, LiveGrows DEF Answering
    <3> QED BY <3>1, <3>2 DEF IInv, Types, FlagsOK
  <2>4. AbortEntry(cur, Partial) /\ JournalOK
    BY <1>2 DEF SettlesDraft, IInv, Types
  <2>5. Story!Abort(cur)
    BY <1>1, <1>2, <2>1, <2>2, <2>3, <2>4, AbortEntryAborts
  <2>6. Drafts' = {}
    BY <1>2, <2>1, <2>2, <2>4, AbortEntryDoes
       DEF IInv, OwnerInv, Drafts, Draft, Others
  <2>7. \A n \in cutShort : entry'[n] # "absent"
    BY <1>2, <2>1, <2>2, <2>4, AbortEntryDoes
       DEF IInv, Types, HistoryOK, LifeInv, Others
  <2> QED BY <1>1, <2>1, <2>5, <2>6, <2>7 DEF LifeInv, run, Answering
<1>3. CASE ~(cur # Nobody /\ Draft(cur))
  <2>1. UNCHANGED journal
    BY <1>3 DEF SettlesDraft
  <2>2. Drafts = {}
    BY <1>1, <1>3 DEF IInv, OwnerInv, Drafts, Draft, Replies, Nobody
  <2> QED BY <1>1, <2>1, <2>2
          DEF LifeInv, seen, journal, run, Answering, Drafts, Draft
<1> QED BY <1>2, <1>3

(* A draft without settled calls, or one whose request was in flight.      *)
LEMMA HealsByAbortAborts ==
  ASSUME IInv, LifeInv, HealsByAbort
  PROVE  LifeInv' /\ \E m \in Replies : Story!Abort(m)
<1>1. PICK m \in Replies : /\ Draft(m) /\ AbortEntry(m, Stored(m))
                           /\ carried # 0 \/ Stored(m).calls = {}
  BY DEF HealsByAbort, Drafts
<1>2. Stored(m) \in Content /\ Below(Stored(m), Stored(m)) /\ JournalOK
  BY StoredOK DEF IInv, Types, Content, Below
<1>3. Untouched(m)
  <2>1. CASE carried # 0
    BY <1>1, <2>1 DEF LifeInv, HealsByAbort, Drafts
  <2>2. CASE Stored(m).calls = {}
    BY <2>2 DEF Stored, Untouched
  <2> QED BY <1>1, <2>1, <2>2
<1>4. UNCHANGED <<ended, cutShort>>
  BY DEF HealsByAbort
<1>5. Story!Abort(m)
  BY <1>1, <1>2, <1>3, <1>4, AbortEntryAborts
<1>6. Drafts' = {}
  BY <1>1, <1>2, AbortEntryDoes DEF IInv, OwnerInv, Drafts, Draft, Others
<1>7. \A n \in cutShort : entry'[n] # "absent"
  BY <1>1, <1>2, AbortEntryDoes DEF IInv, Types, HistoryOK, LifeInv, Others
<1>8. LifeInv'
  BY <1>4, <1>6, <1>7
     DEF IInv, StreamInv, HealsByAbort, Goto, LifeInv, Answering, quiet,
         consumer
<1> QED BY <1>5, <1>8

(* A call is settled for good, and only that of a whole reply is done or   *)
(* skipped.                                                                *)
LEMMA CallSettles ==
  ASSUME IInv, LifeInv, NEW c \in Calls,
         NEW status \in {"done", "skipped", "aborted"},
         cur \in Replies, calls[cur][c] = "pending",
         SettleToolCall(cur, c, status),
         pc \in {"tools", "cut", "skip"} \/ (pc = "healing" /\ status = "aborted"),
         UNCHANGED <<attempt, pc, run, publisher, consumer, history>>
  PROVE  LifeInv' /\ Story!Settle(cur, c)
<1> USE DEF run, publisher, consumer, history
<1>1. Draft(cur) /\ attempt = 0 /\ pc \notin Answering
  BY DEF IInv, PublisherInv, SentInv, LifeInv, Answering
<1>2. status # "aborted" => ended[cur] # "no" /\ cur \notin cutShort
  BY <1>1 DEF LifeInv, IInv, OwnerInv, Drafts
<1>3. Story!Settle(cur, c)
  BY <1>1, <1>2, SettleToolCallSettles
<1>4. UNCHANGED <<entry, defect>>
  BY <1>1 DEF SettleToolCall
<1>5. LifeInv'
  BY <1>1, <1>4 DEF LifeInv, Drafts, Draft
<1> QED BY <1>3, <1>5

LEMMA CallsSettle ==
  ASSUME IInv, LifeInv,
         \/ HealsCall \/ SkipsCall
         \/ \E c \in Calls : ToolSettles(c) \/ CutSettles(c)
  PROVE  LifeInv' /\ \E m \in Replies, c \in Calls : Story!Settle(m, c)
<1> USE DEF quiet
<1>1. pc \in {"tools", "cut", "skip", "healing"} => cur \in Replies
  BY DEF IInv, Types, PublisherOK, PublisherInv, AtEnd
<1>2. CASE HealsCall
  BY <1>1, <1>2, CallSettles DEF HealsCall, Pending
<1>3. CASE SkipsCall
  BY <1>1, <1>3, CallSettles DEF SkipsCall, Pending
<1>4. ASSUME NEW c \in Calls, ToolSettles(c) \/ CutSettles(c)
      PROVE  LifeInv' /\ \E m \in Replies, d \in Calls : Story!Settle(m, d)
  <2>1. calls[cur][c] = "pending"
    BY <1>4 DEF IInv, BatchInv, ToolSettles, CutSettles
  <2> QED BY <1>1, <1>4, <2>1, CallSettles DEF ToolSettles, CutSettles
<1> QED BY <1>2, <1>3, <1>4

LEMMA TurnCommits ==
  ASSUME IInv, LifeInv, HealsTurn \/ Commits
  PROVE  LifeInv' /\ \E m \in Replies : Story!Commit(m)
<1>1. /\ cur \in Replies /\ Draft(cur) /\ CommitEntry(cur)
      /\ pc \in {"healing", "tools", "cut", "skip"}
      /\ pc' \in {"healed", "turned", "ending"}
  BY DEF IInv, Types, PublisherOK, PublisherInv, AtEnd, HealsTurn, Commits,
         Goto
<1>2. Pending(cur) = {}
  BY DEF IInv, BatchInv, HealsTurn, Commits, Pending
<1>3. ended[cur] # "no" \/ cur \in cutShort
  BY <1>1 DEF IInv, OwnerInv, LifeInv, Drafts
<1>4. UNCHANGED <<ended, cutShort, feed>>
  BY DEF HealsTurn, Commits, quiet, consumer, history
<1>5. Story!Commit(cur)
  BY <1>1, <1>2, <1>3, <1>4, CommitEntryCommits
<1>6. Drafts' = {} /\ \A n \in cutShort : entry'[n] # "absent"
  <2>1. Others(cur) /\ entry'[cur] = "committed"
    BY <1>1, <1>2, CommitEntryDoes DEF IInv, Types
  <2> QED BY <1>1, <2>1
          DEF IInv, Types, HistoryOK, OwnerInv, LifeInv, Drafts, Draft, Others
<1>7. LifeInv'
  BY <1>1, <1>4, <1>6 DEF IInv, StreamInv, LifeInv, Answering
<1> QED BY <1>1, <1>5, <1>7

(* A checkpoint is accepted, and a copy that is no message changes nothing.*)
LEMMA TickWritesGrows ==
  ASSUME IInv, LifeInv, TickWrites
  PROVE  LifeInv' /\ ((cur \in Replies /\ Story!Grow(cur)) \/ UNCHANGED seen)
<1>1. pc \in Answering /\ cur # Nobody /\ ~settled
  BY DEF IInv, PublisherInv, TickWrites
<1>2. /\ cur \in Replies /\ Draft(cur) /\ Untouched(cur)
      /\ Story!Growing(cur) /\ cur \notin cutShort
  BY <1>1, LiveGrows
<1>3. /\ Stored(cur) = saved /\ Below(saved, taken)
      /\ saved \in Content /\ taken \in Content /\ JournalOK
  BY <1>1, <1>2 DEF IInv, Types, PublisherOK, DraftInv, TickWrites
<1>4. UNCHANGED <<attempt, pc, run, cur, settled, consumer, history>>
  BY DEF TickWrites
<1>5. CASE Progress(cur, saved, taken)
  <2>1. Story!Grows(cur) /\ UNCHANGED entry
    BY <1>2, <1>3, <1>5, ProgressGrows, ProgressDoes
  <2>2. Story!Grow(cur)
    BY <1>2, <1>4, <2>1 DEF Story!Grow, history
  <2>3. Untouched(cur)'
    BY <1>2, <1>4, <1>5 DEF Untouched, Progress, IInv, Types, JournalOK
  <2>4. \A n \in Drafts' : n = cur
    BY <1>2, <2>1 DEF IInv, OwnerInv, Drafts, Draft
  <2> QED BY <1>2, <1>4, <2>1, <2>2, <2>3, <2>4
          DEF LifeInv, run, consumer, history, Drafts, Draft
<1>6. CASE UNCHANGED journal
  BY <1>4, <1>6 DEF LifeInv, Drafts, Draft, Untouched, seen, journal, run,
                    consumer, history
<1> QED BY <1>5, <1>6 DEF TickWrites

LEMMA CrashDies ==
  ASSUME IInv, LifeInv, Crash
  PROVE  LifeInv' /\ Story!Die
<1>1. Story!Die
  BY DEF Crash, journal, Drafts, Draft, Story!Die, Story!Draft
<1>2. LifeInv'
  BY DEF IInv, LifeInv, Crash, Goto, Fresh, journal, Drafts, Draft, Untouched,
         Answering
<1> QED BY <1>1, <1>2

(* The invariant of the turn and that of its replies hold together.        *)
LEMMA InitStory == Init => LifeInv /\ Story!Init
BY DEF Init, LifeInv, Drafts, Draft, Answering, Story!Init

LEMMA NextStory ==
  IInv /\ LifeInv /\ [Next]_vars
    => LifeInv' /\ [Story!Next]_(Story!replyVars)
<1> SUFFICES ASSUME IInv, LifeInv, [Next]_vars
             PROVE  LifeInv' /\ (Story!Next \/ UNCHANGED seen)
  BY UnseenIsStutter
<1>1. ASSUME NEW m \in Replies, Started(m) PROVE LifeInv' /\ Story!Next
  BY <1>1, StartedBegins DEF Story!Next
<1>2. CASE Ended
  BY <1>2, EndedAnswers DEF Story!Next
<1>3. CASE Failed
  <2>1. cur # Nobody => cur \in Replies
    BY DEF IInv, Types, PublisherOK
  <2> QED BY <1>3, <2>1, FailedAborts DEF Story!Next
<1>4. CASE SettlesDraft \/ HealsByAbort
  BY <1>4, SettlesDraftAborts, HealsByAbortAborts DEF Story!Next
<1>5. CASE \/ HealsCall \/ SkipsCall
           \/ \E c \in Calls : ToolSettles(c) \/ CutSettles(c)
  BY <1>5, CallsSettle DEF Story!Next
<1>6. CASE HealsTurn \/ Commits
  BY <1>6, TurnCommits DEF Story!Next
<1>7. CASE TickWrites
  BY <1>7, TickWritesGrows DEF Story!Next
<1>8. CASE Crash
  BY <1>8, CrashDies DEF Story!Next
<1>9. CASE UNCHANGED vars
  BY <1>9 DEF LifeInv, vars, seen, journal, run, publisher, consumer, history,
              Drafts, Draft, Untouched
<1> QED BY <1>1, <1>2, <1>3, <1>4, <1>5, <1>6, <1>7, <1>8, <1>9,
           FiberUnseen, OtherUnseen
        DEF Next, Fiber, Tools, Terminal, Provider, Ticker

(* What readers see of a turn is a transcript, for every number of calls,  *)
(* replies, chunks, retries, stops and deaths: a reply never shrinks, its  *)
(* calls are settled once and for good, and what has ended stays as it is  *)
(* (thread.ts:724-838, loop.ts:219-240, 369-378).                          *)
THEOREM Refinement == Spec => ImplementsTranscript
<1>1. Init => LifeInv /\ Story!Init
  BY InitStory
<1>2. IInv /\ LifeInv /\ [Next]_vars
        => LifeInv' /\ [Story!Next]_(Story!replyVars)
  BY NextStory
<1> QED BY <1>1, <1>2, Invariance, PTL
        DEF Spec, ImplementsTranscript, Story!Spec

=============================================================================
