------------------------------- MODULE Inbox -------------------------------
(***************************************************************************)
(* The durable inbox of one thread (inbox/inbox.ts, the projectors of      *)
(* session/projector.ts, the promotion of runner/loop.ts).                 *)
(*                                                                         *)
(* Every change of a row is an event: publishing one runs its projector in *)
(* the transaction that gives the event its sequence, and a projector that *)
(* finds the row in another state than it expects rolls both back, a       *)
(* conflict.  Each operation reads the row first, in a transaction of its  *)
(* own, and reads it once more to answer after a conflict: between those   *)
(* transactions any other operation may commit.                            *)
(***************************************************************************)
EXTENDS Naturals, FiniteSets

CONSTANTS
  Ids,      \* message ids
  Data,     \* the texts of a prompt
  Unsent,   \* the text of a row that does not exist
  Clients,  \* the fibers that admit, update and cancel
  Runners,  \* the drains that promote; the coordinator allows one at a time
  MaxSeq,   \* bound: clients publish up to this sequence
  Stops     \* whether drains are stopped and the process dies

ASSUME UnsentAssumption == Unsent \notin Data
ASSUME MaxSeqAssumption == MaxSeq \in Nat
ASSUME StopsAssumption == Stops \in BOOLEAN

VARIABLES
  head,      \* the last sequence of the session
  row,       \* the inbox; admitted = 0 where there is no row
  entries,   \* the user messages of the conversation
  rung,      \* the thread was woken and no drain has started since
  call,      \* what each client is about to commit, after its read
  step,      \* where each runner is in the promotion of a turn
  cutoff, mode, selected,
  died,      \* history: a drain ended in a defect of its promotion
  withdrawn, \* history: the sequence of the last cancel a client was told of
  edited     \* history: the sequence of the last update of a row

turn == <<step, cutoff, mode, selected>>
history == <<died, withdrawn, edited>>
vars == <<head, row, entries, rung, call, turn, history>>

Deliveries == {"steer", "followUp"}
Rows == [data : Data, delivery : Deliveries, admitted : Nat, promoted : Nat,
         cancelled : Nat]
Entries == [id : Ids, data : Data, seq : Nat]
Same == "same"  \* a delivery an update leaves alone, as Unsent is such a text
Admissions == [op : {"admit", "adopt"}, id : Ids, data : Data, delivery : Deliveries]
Changes == [op : {"cancel", "update"}, id : Ids, data : Data \cup {Unsent},
            delivery : Deliveries \cup {Same}, wakes : BOOLEAN]
Calls == Admissions \cup Changes
Idle == [op |-> "idle"]
Wake == [op |-> "wake"]
Snapshots == [id : Ids, row : Rows]

NoRow == [data |-> Unsent, delivery |-> "steer", admitted |-> 0, promoted |-> 0,
          cancelled |-> 0]

Stored(i) == row[i].admitted > 0
Pending(i) == Stored(i) /\ row[i].promoted = 0 /\ row[i].cancelled = 0
Steers == {i \in Ids : Pending(i) /\ row[i].delivery = "steer"}
FollowUps == {i \in Ids : Pending(i) /\ row[i].delivery = "followUp"}
Conversed(i) == \E e \in entries : e.id = i

TypeOK ==
  /\ head \in Nat
  /\ row \in [Ids -> Rows \cup {NoRow}]
  /\ entries \subseteq Entries
  /\ rung \in BOOLEAN
  /\ call \in [Clients -> Calls \cup {Idle, Wake}]
  /\ step \in [Runners -> {"idle", "peekSteer", "peekFollowUp", "open", "followUp",
                           "following", "steers", "steering", "recheck"}]
  /\ cutoff \in [Runners -> Nat]
  /\ mode \in [Runners -> Deliveries]
  /\ selected \in [Runners -> SUBSET Snapshots]
  /\ died \in BOOLEAN
  /\ withdrawn \in [Ids -> Nat]
  /\ edited \in [Ids -> Nat]

Init ==
  /\ head = 0
  /\ row = [i \in Ids |-> NoRow]
  /\ entries = {}
  /\ rung = FALSE
  /\ call = [c \in Clients |-> Idle]
  /\ step = [r \in Runners |-> "idle"]
  /\ cutoff = [r \in Runners |-> 0]
  /\ mode = [r \in Runners |-> "steer"]
  /\ selected = [r \in Runners |-> {}]
  /\ died = FALSE
  /\ withdrawn = [i \in Ids |-> 0]
  /\ edited = [i \in Ids |-> 0]

-----------------------------------------------------------------------------
(* The transactions, and the projectors that decide them.  A conflict      *)
(* leaves the store, its sequence included, as it was.                     *)

Commit(i, r) == head' = head + 1 /\ row' = [row EXCEPT ![i] = r]
Rollback == UNCHANGED <<head, row, entries>>

(* projectAdmitted: a new row, or a cancelled one that was never promoted  *)
(* revived as a fresh admission.                                           *)
MayAdmit(i) ==
  /\ ~Conversed(i)
  /\ ~Stored(i) \/ (row[i].promoted = 0 /\ row[i].cancelled > 0)

Admitted(d, v) == [data |-> d, delivery |-> v, admitted |-> head + 1,
                   promoted |-> 0, cancelled |-> 0]

Continue(c, next) == call' = [call EXCEPT ![c] = next]

-----------------------------------------------------------------------------
(* Admission.                                                              *)

(* Only an id without a row, or with a cancelled one, is published; any    *)
(* other is answered with the row it has, and wakes the thread if that row *)
(* is what was asked for.                                                  *)
Admit(c, i, d, v) ==
  /\ call[c] = Idle
  /\ \/ /\ ~Stored(i) \/ row[i].cancelled > 0
        /\ Continue(c, [op |-> "admit", id |-> i, data |-> d, delivery |-> v])
     \/ /\ Stored(i) /\ row[i].cancelled = 0
        /\ row[i].data = d /\ row[i].delivery = v
        /\ Continue(c, Wake)
  /\ UNCHANGED <<head, row, entries, rung, turn, history>>

PublishAdmitted(c) ==
  LET i == call[c].id
  IN /\ call[c].op = "admit" /\ head < MaxSeq
     /\ \/ /\ MayAdmit(i)
           /\ Commit(i, Admitted(call[c].data, call[c].delivery))
           /\ UNCHANGED entries
           /\ Continue(c, Wake)
        \/ /\ ~MayAdmit(i)
           /\ Rollback
           /\ Continue(c, [call[c] EXCEPT !.op = "adopt"])
     /\ UNCHANGED <<rung, turn, history>>

(* The loser of two admissions adopts the row of the winner; when that one *)
(* asked for something else, or is withdrawn by now, the client is told of *)
(* a conflict.                                                             *)
Adopt(c) ==
  LET won == row[call[c].id]
  IN /\ call[c].op = "adopt"
     /\ Continue(c, IF /\ Stored(call[c].id) /\ won.cancelled = 0
                      /\ won.data = call[c].data /\ won.delivery = call[c].delivery
                    THEN Wake ELSE Idle)
     /\ UNCHANGED <<head, row, entries, rung, turn, history>>

(* What a call that queued a prompt, or moved one to the steers, ends with.*)
Ring(c) ==
  /\ call[c] = Wake
  /\ rung' = TRUE
  /\ Continue(c, Idle)
  /\ UNCHANGED <<head, row, entries, turn, history>>

-----------------------------------------------------------------------------
(* Update and cancel, of a row that is pending as it is read.              *)

Cancel(c, i) ==
  /\ call[c] = Idle /\ Pending(i)
  /\ Continue(c, [op |-> "cancel", id |-> i, data |-> Unsent, delivery |-> Same,
                wakes |-> FALSE])
  /\ UNCHANGED <<head, row, entries, rung, turn, history>>

Withdraw(i) ==
  /\ Commit(i, [row[i] EXCEPT !.cancelled = head + 1])
  /\ withdrawn' = [withdrawn EXCEPT ![i] = head + 1]

PublishCancelled(c) ==
  /\ call[c].op = "cancel" /\ head < MaxSeq
  /\ \/ Pending(call[c].id) /\ Withdraw(call[c].id) /\ UNCHANGED entries
     \/ ~Pending(call[c].id) /\ Rollback /\ UNCHANGED withdrawn
  /\ Continue(c, Idle)
  /\ UNCHANGED <<rung, turn, died, edited>>

(* An update publishes the fields it changes, if there are any.  Asking    *)
(* for the steers wakes the thread either way.                             *)
Update(c, i, d, v) ==
  LET data == IF d = row[i].data THEN Unsent ELSE d
      delivery == IF v = row[i].delivery THEN Same ELSE v
  IN /\ call[c] = Idle /\ Pending(i)
     /\ \/ /\ data # Unsent \/ delivery # Same
           /\ Continue(c, [op |-> "update", id |-> i, data |-> data, delivery |-> delivery,
                         wakes |-> v = "steer"])
        \/ /\ data = Unsent /\ delivery = Same /\ v = "steer"
           /\ Continue(c, Wake)
     /\ UNCHANGED <<head, row, entries, rung, turn, history>>

Patched(r, u) == [r EXCEPT !.data = IF u.data = Unsent THEN @ ELSE u.data,
                           !.delivery = IF u.delivery = Same THEN @ ELSE u.delivery]

Patches(i, u) ==
  /\ Commit(i, Patched(row[i], u))
  /\ edited' = [edited EXCEPT ![i] = head + 1]

(* Faulty: an update rewrites any row that was not cancelled.              *)
PublishUpdatedAny(c) ==
  LET i == call[c].id
  IN /\ call[c].op = "update" /\ head < MaxSeq
     /\ \/ row[i].cancelled = 0 /\ Patches(i, call[c])
        \/ row[i].cancelled > 0 /\ UNCHANGED <<head, row, edited>>
     /\ Continue(c, IF call[c].wakes THEN Wake ELSE Idle)
     /\ UNCHANGED <<entries, rung, turn, died, withdrawn>>

(* Faulty: moving a prompt to the steers does not wake the thread.         *)
PublishUpdatedQuiet(c) ==
  LET i == call[c].id
  IN /\ call[c].op = "update" /\ head < MaxSeq
     /\ \/ Pending(i) /\ Patches(i, call[c])
        \/ ~Pending(i) /\ UNCHANGED <<head, row, edited>>
     /\ Continue(c, Idle)
     /\ UNCHANGED <<entries, rung, turn, died, withdrawn>>

PublishUpdated(c) ==
  LET i == call[c].id
  IN /\ call[c].op = "update" /\ head < MaxSeq
     /\ \/ /\ Pending(i)
           /\ Patches(i, call[c])
           /\ UNCHANGED entries
           /\ Continue(c, IF call[c].wakes THEN Wake ELSE Idle)
        \/ /\ ~Pending(i)
           /\ Rollback /\ UNCHANGED edited
           /\ Continue(c, Idle)
     /\ UNCHANGED <<rung, turn, died, withdrawn>>

-----------------------------------------------------------------------------
(* The drain: what it looks for, and the promotion that opens a turn.      *)

Goto(r, pc) == step' = [step EXCEPT ![r] = pc]
Store == <<head, row, entries>>

Drain(r) ==
  /\ step[r] = "idle" /\ rung
  /\ rung' = FALSE
  /\ Goto(r, "peekSteer")
  /\ UNCHANGED <<Store, call, cutoff, mode, selected, history>>

(* The loop reads the two lanes one after the other.                       *)
PeekSteer(r) ==
  /\ step[r] = "peekSteer"
  /\ \/ /\ Steers # {}
        /\ mode' = [mode EXCEPT ![r] = "steer"]
        /\ Goto(r, "open")
     \/ /\ Steers = {}
        /\ Goto(r, "peekFollowUp")
        /\ UNCHANGED mode
  /\ UNCHANGED <<Store, rung, call, cutoff, selected, history>>

PeekFollowUp(r) ==
  /\ step[r] = "peekFollowUp"
  /\ \/ /\ FollowUps # {}
        /\ mode' = [mode EXCEPT ![r] = "followUp"]
        /\ Goto(r, "open")
     \/ /\ FollowUps = {}
        /\ Goto(r, "idle")
        /\ UNCHANGED mode
  /\ UNCHANGED <<Store, rung, call, cutoff, selected, history>>

(* The turn opens: the cutoff is the head of the log.                      *)
Open(r) ==
  /\ step[r] = "open"
  /\ cutoff' = [cutoff EXCEPT ![r] = head]
  /\ Goto(r, IF mode[r] = "followUp" THEN "followUp" ELSE "steers")
  /\ UNCHANGED <<Store, rung, call, mode, selected, history>>

Oldest(S) == {i \in S : \A j \in S : row[i].admitted <= row[j].admitted}
Snapshot(S) == {[id |-> i, row |-> row[i]] : i \in S}

SelectFollowUp(r) ==
  /\ step[r] = "followUp"
  /\ selected' = [selected EXCEPT ![r] = Snapshot(Oldest(FollowUps))]
  /\ Goto(r, "following")
  /\ UNCHANGED <<Store, rung, call, cutoff, mode, history>>

SelectSteers(r) ==
  /\ step[r] = "steers"
  /\ selected' = [selected EXCEPT ![r] = Snapshot({i \in Steers : row[i].admitted <= cutoff[r]})]
  /\ Goto(r, "steering")
  /\ UNCHANGED <<Store, rung, call, cutoff, mode, history>>

(* Faulty: what was selected comes in no order.                            *)
FirstAny(r) == selected[r]

(* What was selected is published in the order of admission.               *)
First(r) == {s \in selected[r] : \A t \in selected[r] : s.row.admitted <= t.row.admitted}

(* What projectPrompted compares of the row and the event, but for the     *)
(* time of admission: two admissions may fall in one millisecond.          *)
Matches(s) == row[s.id].data = s.row.data /\ row[s.id].delivery = s.row.delivery

Promote(r, s) ==
  /\ Commit(s.id, [row[s.id] EXCEPT !.promoted = head + 1])
  /\ entries' = entries \cup {[id |-> s.id, data |-> s.row.data, seq |-> head + 1]}
  /\ selected' = [selected EXCEPT ![r] = @ \ {s}]

(* Faulty: promotion is no compare-and-set on the row.                     *)
PublishPromptedAgain(r, s) ==
  /\ step[r] \in {"following", "steering"} /\ s \in First(r)
  /\ Matches(s) /\ Promote(r, s)
  /\ UNCHANGED <<rung, call, step, cutoff, mode, history>>

(* Promoting a row and appending its message is one transaction.           *)
PublishPrompted(r, s) ==
  /\ step[r] \in {"following", "steering"} /\ s \in First(r)
  /\ \/ /\ Pending(s.id) /\ Matches(s)
        /\ Promote(r, s)
        /\ UNCHANGED step
     \/ /\ Pending(s.id) /\ Matches(s) => row[s.id].admitted # s.row.admitted
        /\ Rollback /\ UNCHANGED selected
        /\ Goto(r, "recheck")
  /\ UNCHANGED <<rung, call, cutoff, mode, history>>

(* A conflict is someone else's promotion, cancel, admission or update, or *)
(* a defect that ends the drain.                                           *)
Recheck(r, s) ==
  LET moved == ~Pending(s.id) \/ row[s.id].admitted # s.row.admitted \/ ~Matches(s)
  IN /\ step[r] = "recheck" /\ s \in First(r)
     /\ IF moved
        THEN /\ selected' = [selected EXCEPT ![r] = @ \ {s}]
             /\ Goto(r, IF s.row.delivery = "followUp" THEN "following" ELSE "steering")
             /\ UNCHANGED died
        ELSE /\ selected' = [selected EXCEPT ![r] = {}]
             /\ Goto(r, "idle")
             /\ died' = TRUE
     /\ UNCHANGED <<Store, rung, call, cutoff, mode, withdrawn, edited>>

(* After the follow-up come the steers, after those the request.  An answer *)
(* that calls tools opens the next turn, which takes steers only; after any *)
(* other the loop looks at the queue again.                                 *)
Promoted(r) == step[r] \in {"following", "steering"} /\ selected[r] = {}

Followed(r) ==
  /\ Promoted(r) /\ step[r] = "following"
  /\ Goto(r, "steers")
  /\ UNCHANGED <<Store, rung, call, cutoff, mode, selected, history>>

Answered(r) ==
  /\ Promoted(r) /\ step[r] = "steering"
  /\ Goto(r, "peekSteer")
  /\ UNCHANGED <<Store, rung, call, cutoff, mode, selected, history>>

CalledTools(r) ==
  /\ Promoted(r) /\ step[r] = "steering"
  /\ mode' = [mode EXCEPT ![r] = "steer"]
  /\ Goto(r, "open")
  /\ UNCHANGED <<Store, rung, call, cutoff, selected, history>>

(* The drain is stopped or fails: what it selected is not promoted.        *)
Cut(r) ==
  /\ Stops /\ step[r] # "idle"
  /\ selected' = [selected EXCEPT ![r] = {}]
  /\ Goto(r, "idle")
  /\ UNCHANGED <<Store, rung, call, cutoff, mode, history>>

(* The process dies, with its drains, its wakes and its clients' calls.    *)
Crash ==
  /\ Stops
  /\ rung' = FALSE
  /\ call' = [c \in Clients |-> Idle]
  /\ step' = [r \in Runners |-> "idle"]
  /\ selected' = [r \in Runners |-> {}]
  /\ UNCHANGED <<Store, cutoff, mode, history>>

-----------------------------------------------------------------------------

Asks(c) ==
  \E i \in Ids :
    \/ Cancel(c, i)
    \/ \E d \in Data, v \in Deliveries : Admit(c, i, d, v)
    \/ \E d \in Data, v \in Deliveries \cup {Same} : Update(c, i, d, v)

Answers(c) ==
  PublishAdmitted(c) \/ Adopt(c) \/ PublishCancelled(c) \/ PublishUpdated(c) \/ Ring(c)

Drains(r) ==
  \/ Drain(r) \/ PeekSteer(r) \/ PeekFollowUp(r)
  \/ Open(r) \/ SelectFollowUp(r) \/ SelectSteers(r)
  \/ Followed(r) \/ Answered(r) \/ CalledTools(r)
  \/ \E s \in selected[r] : PublishPrompted(r, s) \/ Recheck(r, s)

Next ==
  \/ \E c \in Clients : Asks(c) \/ Answers(c)
  \/ \E r \in Runners : Drains(r) \/ Cut(r)
  \/ Crash

(* A call is uninterruptible and a drain goes on until the queue is empty: *)
(* each takes its next step.  The model does not call tools for ever.      *)
(* Clients need not call.                                                  *)
Spec ==
  /\ Init /\ [][Next]_vars
  /\ \A c \in Clients : WF_vars(Answers(c))
  /\ \A r \in Runners : WF_vars(Drains(r)) /\ SF_vars(Answered(r))

-----------------------------------------------------------------------------
(* Properties.                                                             *)

(* A prompt enters the conversation exactly when it leaves the inbox, once *)
(* and with the text the row has: no interleaving of retries, updates and  *)
(* promotions delivers a message twice, drops it, or says another text     *)
(* than the last edit that was answered (inbox.ts:219, projector.ts:133).  *)
DeliveredOnce ==
  /\ \A i \in Ids : row[i].promoted > 0 <=> Conversed(i)
  /\ \A e \in entries : row[e.id].promoted = e.seq /\ row[e.id].data = e.data

(* A prompt is not both withdrawn and said: the first of the two to commit *)
(* wins the row (inbox.ts:236).                                            *)
NotBoth == \A i \in Ids : row[i].promoted = 0 \/ row[i].cancelled = 0

(* A cancel that was answered true is final: the prompt waits or is said   *)
(* after it only if it was admitted again since (control.ts:128).          *)
CancelStands ==
  \A i \in Ids : withdrawn[i] > 0 /\ (Pending(i) \/ Conversed(i)) =>
                  withdrawn[i] < row[i].admitted

(* Whatever its callers read before, each event the inbox commits is one   *)
(* step of a queue, and a conflict is none: what is said was waiting, and  *)
(* reads as it did last; what was said or withdrawn waits no more; an edit *)
(* keeps the place (inbox.ts:121-134, 212-242).                            *)
Prompts == INSTANCE Queue
  WITH Lanes   <- Deliveries,
       waiting <- {[id |-> i, data |-> row[i].data, lane |-> row[i].delivery,
                    place |-> row[i].admitted] : i \in {j \in Ids : Pending(j)}},
       said    <- entries,
       clock   <- head
ImplementsQueue == Prompts!Spec

(* Prompts of one lane keep the order of their admission: of those a turn  *)
(* found queued, one is overtaken only if it was edited since the turn     *)
(* opened (inbox.ts:134).                                                  *)
OrderIsKept ==
  [][\A e \in entries' \ entries, r \in Runners, j \in Ids :
       ( /\ selected[r] # selected'[r]
         /\ Pending(j) /\ row[j].delivery = row[e.id].delivery
         /\ row[j].admitted < row[e.id].admitted /\ row[e.id].admitted <= cutoff[r] )
       => edited[j] > cutoff[r]]_vars

(* Nothing queued waits for ever: an edit that moves a prompt from the     *)
(* lane the loop reads last to the one it has read already wakes the       *)
(* thread, and a promotion that loses to an edit is made up for by a later *)
(* one (control.ts:268, inbox.ts:548).                                     *)
QueueIsPromoted == \A i \in Ids : Pending(i) ~> ~Pending(i)

(* "Promoted by someone else, cancelled, re-admitted or updated since it   *)
(* was selected" is no failure of the drain (inbox.ts:547).                *)
PromotionNeverDies == ~died
=============================================================================
