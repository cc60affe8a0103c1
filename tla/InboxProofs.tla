---------------------------- MODULE InboxProofs ----------------------------
(***************************************************************************)
(* What module Inbox promises of each row, for any number of messages,     *)
(* texts, clients and drains.                                              *)
(*                                                                         *)
(* The three promises need one another: a row that is pending is in no     *)
(* conversation (DeliveredOnce), so an update or a cancel of it touches no *)
(* entry, and a cancelled one is not promoted (NotBoth).  What a client or *)
(* a drain read earlier plays no part: every projector looks again.        *)
(***************************************************************************)
EXTENDS Inbox, TLAPS

(* No cancel is later than the head of the log.                            *)
Bounds == \A i \in Ids : withdrawn[i] <= head

Promises == Bounds /\ DeliveredOnce /\ NotBoth /\ CancelStands
IInv == TypeOK /\ Promises

LEMMA InitIInv == Init => IInv
<1> SUFFICES ASSUME Init PROVE IInv
  OBVIOUS
<1>1. TypeOK
  BY DEF Init, TypeOK, Deliveries
<1>2. \A i \in Ids : row[i].promoted = 0 /\ ~Conversed(i) /\ withdrawn[i] = 0
  BY DEF Init, NoRow, Conversed
<1>3. Bounds /\ NotBoth /\ CancelStands
  BY <1>2 DEF Init, Bounds, NotBoth, CancelStands
<1>4. DeliveredOnce
  BY <1>2 DEF Init, DeliveredOnce
<1>5. QED
  BY <1>1, <1>3, <1>4 DEF IInv, Promises

LEMMA StoredRow ==
  ASSUME TypeOK, NEW i \in Ids, Stored(i)
  PROVE  row[i] \in Rows
BY DEF TypeOK, Stored, NoRow

(* A commit changes one row.                                               *)
LEMMA CommitRow ==
  ASSUME TypeOK, NEW i \in Ids, NEW r \in Rows, Commit(i, r)
  PROVE  /\ head' = head + 1 /\ head' \in Nat
         /\ row' \in [Ids -> Rows \cup {NoRow}]
         /\ row'[i] = r
         /\ \A j \in Ids : j # i => row'[j] = row[j]
BY DEF TypeOK, Commit

(* A row that is patched keeps its place in the order.                     *)
LEMMA PatchedRow ==
  ASSUME NEW r \in Rows, NEW u \in Changes
  PROVE  /\ Patched(r, u) \in Rows
         /\ Patched(r, u).admitted = r.admitted
         /\ Patched(r, u).promoted = r.promoted
         /\ Patched(r, u).cancelled = r.cancelled
<1> USE DEF Rows, Changes
<1>1. /\ u.data = Unsent \/ u.data \in Data
      /\ u.delivery = Same \/ u.delivery \in Deliveries
  OBVIOUS
<1>2. QED
  BY <1>1 DEF Patched

LEMMA SnapshotType ==
  ASSUME TypeOK, NEW S, S \subseteq {i \in Ids : Pending(i)}
  PROVE  Snapshot(S) \subseteq Snapshots
<1>1. \A i \in S : i \in Ids /\ row[i] \in Rows
  BY StoredRow DEF Pending
<1>2. QED
  BY <1>1 DEF Snapshot, Snapshots

-----------------------------------------------------------------------------
(* Types.                                                                  *)

LEMMA NextType == TypeOK /\ [Next]_vars => TypeOK'
<1> SUFFICES ASSUME TypeOK, [Next]_vars PROVE TypeOK'
  OBVIOUS
<1> USE DEF TypeOK
<1>1. ASSUME NEW c \in Clients, NEW i \in Ids, Cancel(c, i) PROVE TypeOK'
  BY <1>1 DEF Cancel, Continue, Calls, Changes, turn, history
<1>2. ASSUME NEW c \in Clients, NEW i \in Ids, NEW d \in Data, NEW v \in Deliveries,
             Admit(c, i, d, v)
      PROVE  TypeOK'
  <2>1. [op |-> "admit", id |-> i, data |-> d, delivery |-> v] \in Calls
    BY DEF Calls, Admissions
  <2>2. call' \in [Clients -> Calls \cup {Idle, Wake}]
    BY <1>2, <2>1 DEF Admit, Continue
  <2>3. QED
    BY <1>2, <2>2 DEF Admit, turn, history
<1>3. ASSUME NEW c \in Clients, NEW i \in Ids, NEW d \in Data,
             NEW v \in Deliveries \cup {Same}, Update(c, i, d, v)
      PROVE  TypeOK'
  <2> DEFINE data == IF d = row[i].data THEN Unsent ELSE d
             delivery == IF v = row[i].delivery THEN Same ELSE v
             u == [op |-> "update", id |-> i, data |-> data, delivery |-> delivery,
                   wakes |-> v = "steer"]
  <2>1. u \in Calls
    BY DEF Calls, Changes
  <2>2. call' = [call EXCEPT ![c] = u] \/ call' = [call EXCEPT ![c] = Wake]
    BY <1>3 DEF Update, Continue
  <2>3. call' \in [Clients -> Calls \cup {Idle, Wake}]
    <3> HIDE DEF u
    <3> QED BY <2>1, <2>2
  <2>4. QED
    BY <1>3, <2>3 DEF Update, turn, history
<1>4. ASSUME NEW c \in Clients, PublishAdmitted(c) PROVE TypeOK'
  <2>1. call[c] \in Admissions /\ call[c].id \in Ids
    BY <1>4 DEF PublishAdmitted, Calls, Admissions, Changes, Idle, Wake
  <2>2. CASE MayAdmit(call[c].id) /\ Commit(call[c].id, Admitted(call[c].data, call[c].delivery))
             /\ UNCHANGED entries /\ Continue(c, Wake)
    <3>1. call[c].data \in Data /\ call[c].delivery \in Deliveries
      BY <2>1 DEF Admissions
    <3>2. Admitted(call[c].data, call[c].delivery) \in Rows
      BY <3>1 DEF Admitted, Rows
    <3>3. QED
      BY <1>4, <2>1, <2>2, <3>2, CommitRow DEF PublishAdmitted, Continue, turn, history
  <2>3. CASE Rollback /\ Continue(c, [call[c] EXCEPT !.op = "adopt"])
    <3>1. [call[c] EXCEPT !.op = "adopt"] \in Calls
      BY <2>1 DEF Calls, Admissions
    <3>2. QED
      BY <1>4, <2>3, <3>1 DEF PublishAdmitted, Rollback, Continue, turn, history
  <2>4. QED
    BY <1>4, <2>2, <2>3 DEF PublishAdmitted
<1>5. ASSUME NEW c \in Clients, Adopt(c) PROVE TypeOK'
  BY <1>5 DEF Adopt, Continue, turn, history
<1>6. ASSUME NEW c \in Clients, PublishCancelled(c) PROVE TypeOK'
  <2>1. call[c].id \in Ids
    BY <1>6 DEF PublishCancelled, Calls, Admissions, Changes, Idle, Wake
  <2>2. CASE Pending(call[c].id) /\ Withdraw(call[c].id) /\ UNCHANGED entries
    <3>1. row[call[c].id] \in Rows
      BY <2>1, <2>2, StoredRow DEF Pending
    <3>2. [row[call[c].id] EXCEPT !.cancelled = head + 1] \in Rows
      BY <3>1 DEF Rows
    <3>3. QED
      BY <1>6, <2>1, <2>2, <3>2, CommitRow DEF PublishCancelled, Withdraw, Continue, turn
  <2>3. CASE Rollback /\ UNCHANGED withdrawn
    BY <1>6, <2>3 DEF PublishCancelled, Rollback, Continue, turn
  <2>4. QED
    BY <1>6, <2>2, <2>3 DEF PublishCancelled
<1>7. ASSUME NEW c \in Clients, PublishUpdated(c) PROVE TypeOK'
  <2>1. call[c] \in Changes /\ call[c].id \in Ids
    BY <1>7 DEF PublishUpdated, Calls, Admissions, Changes, Idle, Wake
  <2>2. call' \in [Clients -> Calls \cup {Idle, Wake}]
    BY <1>7 DEF PublishUpdated, Continue
  <2>3. CASE Pending(call[c].id) /\ Patches(call[c].id, call[c]) /\ UNCHANGED entries
    <3>1. Patched(row[call[c].id], call[c]) \in Rows
      BY <2>1, <2>3, StoredRow, PatchedRow DEF Pending
    <3>2. QED
      BY <1>7, <2>1, <2>2, <2>3, <3>1, CommitRow DEF PublishUpdated, Patches, turn
  <2>4. CASE Rollback /\ UNCHANGED edited
    BY <1>7, <2>2, <2>4 DEF PublishUpdated, Rollback, turn
  <2>5. QED
    BY <1>7, <2>3, <2>4 DEF PublishUpdated
<1>8. ASSUME NEW c \in Clients, Ring(c) PROVE TypeOK'
  BY <1>8 DEF Ring, Continue, turn, history
<1>9. ASSUME NEW r \in Runners, Drain(r) PROVE TypeOK'
  BY <1>9 DEF Drain, Goto, Store, history
<1>10. ASSUME NEW r \in Runners, PeekSteer(r) PROVE TypeOK'
  BY <1>10 DEF PeekSteer, Goto, Store, history, Deliveries
<1>11. ASSUME NEW r \in Runners, PeekFollowUp(r) PROVE TypeOK'
  BY <1>11 DEF PeekFollowUp, Goto, Store, history, Deliveries
<1>12. ASSUME NEW r \in Runners, Open(r) PROVE TypeOK'
  BY <1>12 DEF Open, Goto, Store, history
<1>13. ASSUME NEW r \in Runners, SelectFollowUp(r) PROVE TypeOK'
  <2>1. Snapshot(Oldest(FollowUps)) \subseteq Snapshots
    BY SnapshotType DEF Oldest, FollowUps, Steers
  <2>2. selected' \in [Runners -> SUBSET Snapshots]
    BY <1>13, <2>1 DEF SelectFollowUp
  <2>3. QED
    BY <1>13, <2>2 DEF SelectFollowUp, Goto, Store, history
<1>14. ASSUME NEW r \in Runners, SelectSteers(r) PROVE TypeOK'
  <2>1. Snapshot({i \in Steers : row[i].admitted <= cutoff[r]}) \subseteq Snapshots
    BY SnapshotType DEF Oldest, FollowUps, Steers
  <2>2. selected' \in [Runners -> SUBSET Snapshots]
    BY <1>14, <2>1 DEF SelectSteers
  <2>3. QED
    BY <1>14, <2>2 DEF SelectSteers, Goto, Store, history
<1>15. ASSUME NEW r \in Runners, Followed(r) \/ Answered(r) \/ CalledTools(r) PROVE TypeOK'
  BY <1>15 DEF Promoted, Followed, Answered, CalledTools, Goto, Store, history, Deliveries
<1>16. ASSUME NEW r \in Runners, NEW s \in selected[r], PublishPrompted(r, s) PROVE TypeOK'
  <2>1. s.id \in Ids
    BY DEF Snapshots
  <2>2. CASE Pending(s.id) /\ Matches(s) /\ Promote(r, s) /\ UNCHANGED step
    <3>1. row[s.id] \in Rows
      BY <2>1, <2>2, StoredRow DEF Pending
    <3>2. [row[s.id] EXCEPT !.promoted = head + 1] \in Rows
      BY <3>1 DEF Rows
    <3>3. [id |-> s.id, data |-> s.row.data, seq |-> head + 1] \in Entries
      BY <2>1, <2>2, <3>1 DEF Matches, Rows, Entries
    <3>4. entries' \subseteq Entries /\ selected' \in [Runners -> SUBSET Snapshots]
      BY <2>2, <3>3 DEF Promote
    <3>5. QED
      BY <1>16, <2>1, <2>2, <3>2, <3>4, CommitRow DEF PublishPrompted, Promote, history
  <2>3. CASE Rollback /\ UNCHANGED selected /\ Goto(r, "recheck")
    BY <1>16, <2>3 DEF PublishPrompted, Rollback, Goto, history
  <2>4. QED
    BY <1>16, <2>2, <2>3 DEF PublishPrompted
<1>17. ASSUME NEW r \in Runners, NEW s \in selected[r], Recheck(r, s) PROVE TypeOK'
  BY <1>17 DEF Recheck, Goto, Store
<1>18. ASSUME NEW r \in Runners, Cut(r) PROVE TypeOK'
  BY <1>18 DEF Cut, Goto, Store, history
<1>19. CASE Crash
  BY <1>19 DEF Crash, Store, history
<1>20. CASE UNCHANGED vars
  BY <1>20 DEF vars, turn, history
<1>21. QED
  BY <1>1, <1>2, <1>3, <1>4, <1>5, <1>6, <1>7, <1>8, <1>9, <1>10, <1>11, <1>12, <1>13,
     <1>14, <1>15, <1>16, <1>17, <1>18, <1>19, <1>20
     DEF Next, Asks, Answers, Drains
-----------------------------------------------------------------------------
(* The four commits, one lemma each, and what every other step leaves      *)
(* alone.                                                                  *)

LEMMA StoreKept == Promises /\ UNCHANGED <<Store, withdrawn>> => Promises'
BY DEF Promises, Bounds, DeliveredOnce, NotBoth, CancelStands, Conversed, Pending,
       Stored, Store

(* A row outside the conversation is replaced by one outside of it.        *)
LEMMA QuietCommit ==
  ASSUME IInv, NEW i \in Ids, NEW r \in Rows, ~Conversed(i),
         Commit(i, r), r.promoted = 0, UNCHANGED entries
  PROVE  DeliveredOnce' /\ NotBoth' /\ \A j \in Ids : Conversed(j)' <=> Conversed(j)
<1> USE DEF IInv, Promises
<1>1. /\ row'[i] = r
      /\ \A j \in Ids : j # i => row'[j] = row[j]
  BY CommitRow
<1>2. \A j \in Ids : Conversed(j)' <=> Conversed(j)
  BY DEF Conversed
<1>3. NotBoth'
  BY <1>1 DEF NotBoth
<1>4. \A j \in Ids : row'[j].promoted > 0 <=> Conversed(j)'
  <2> TAKE j \in Ids
  <2>1. CASE j = i
    BY <2>1, <1>1, <1>2
  <2>2. CASE j # i
    BY <2>2, <1>1, <1>2 DEF DeliveredOnce
  <2>3. QED
    BY <2>1, <2>2
<1>5. \A e \in entries' : row'[e.id].promoted = e.seq /\ row'[e.id].data = e.data
  <2> TAKE e \in entries'
  <2>1. e \in entries /\ e.id \in Ids
    BY DEF TypeOK, Entries
  <2>2. e.id # i
    BY <2>1 DEF Conversed
  <2>3. QED
    BY <2>1, <2>2, <1>1 DEF DeliveredOnce
<1>6. QED
  BY <1>2, <1>3, <1>4, <1>5 DEF DeliveredOnce

LEMMA PendingIsNotSaid ==
  ASSUME IInv, NEW i \in Ids, Pending(i)
  PROVE  ~Conversed(i) /\ row[i] \in Rows /\ row[i].promoted = 0 /\ row[i].cancelled = 0
BY StoredRow DEF IInv, Promises, DeliveredOnce, Pending

LEMMA AdmittedKeeps ==
  ASSUME IInv, NEW c \in Clients, PublishAdmitted(c)
  PROVE  Promises'
<1> DEFINE i == call[c].id
           r == Admitted(call[c].data, call[c].delivery)
<1>1. call[c] \in Admissions /\ i \in Ids
  BY DEF PublishAdmitted, IInv, TypeOK, Calls, Admissions, Changes, Idle, Wake
<1>2. CASE MayAdmit(i) /\ Commit(i, r) /\ UNCHANGED entries
  <2>1. r \in Rows /\ r.promoted = 0 /\ r.admitted = head + 1
    BY <1>1 DEF Admissions, Admitted, Rows, IInv, TypeOK
  <2>2. ~Conversed(i)
    BY <1>2 DEF MayAdmit
  <2> HIDE DEF i, r
  <2>3. /\ DeliveredOnce' /\ NotBoth'
        /\ \A j \in Ids : Conversed(j)' <=> Conversed(j)
    BY <1>1, <1>2, <2>1, <2>2, QuietCommit
  <2>4. /\ head' = head + 1 /\ head \in Nat /\ row'[i] = r
        /\ \A j \in Ids : j # i => row'[j] = row[j]
    BY <1>1, <1>2, <2>1, CommitRow DEF IInv, TypeOK
  <2>5. withdrawn' = withdrawn /\ \A j \in Ids : withdrawn[j] \in Nat
    BY DEF PublishAdmitted, history, IInv, TypeOK
  <2>6. Bounds'
    BY <2>4, <2>5 DEF Bounds, IInv, Promises
  <2>7. \A j \in Ids : withdrawn'[j] > 0 /\ (Pending(j)' \/ Conversed(j)') =>
                       withdrawn'[j] < row'[j].admitted
    <3> TAKE j \in Ids
    <3>1. CASE j = i
      BY <3>1, <2>1, <2>4, <2>5 DEF Bounds, IInv, Promises
    <3>2. CASE j # i
      BY <3>2, <2>3, <2>4, <2>5 DEF CancelStands, Pending, Stored, IInv, Promises
    <3>3. QED
      BY <3>1, <3>2
  <2>8. QED
    BY <2>3, <2>6, <2>7 DEF Promises, CancelStands
<1>3. CASE Rollback
  BY <1>3, StoreKept DEF PublishAdmitted, Rollback, Store, history, IInv
<1>4. QED
  BY <1>2, <1>3 DEF PublishAdmitted

LEMMA CancelledKeeps ==
  ASSUME IInv, NEW c \in Clients, PublishCancelled(c)
  PROVE  Promises'
<1> DEFINE i == call[c].id
           r == [row[i] EXCEPT !.cancelled = head + 1]
<1>1. i \in Ids
  BY DEF PublishCancelled, IInv, TypeOK, Calls, Admissions, Changes, Idle, Wake
<1>2. CASE Pending(i) /\ Withdraw(i) /\ UNCHANGED entries
  <2>1. ~Conversed(i) /\ row[i] \in Rows /\ row[i].promoted = 0
    BY <1>1, <1>2, PendingIsNotSaid
  <2>2. r \in Rows /\ r.promoted = 0 /\ r.cancelled = head + 1 /\ head \in Nat
    BY <2>1 DEF Rows, IInv, TypeOK
  <2>3. Commit(i, r) /\ withdrawn' = [withdrawn EXCEPT ![i] = head + 1]
    BY <1>2 DEF Withdraw
  <2> HIDE DEF i, r
  <2>4. /\ DeliveredOnce' /\ NotBoth'
        /\ \A j \in Ids : Conversed(j)' <=> Conversed(j)
    BY <1>1, <1>2, <2>1, <2>2, <2>3, QuietCommit
  <2>5. /\ head' = head + 1 /\ row'[i] = r
        /\ \A j \in Ids : j # i => row'[j] = row[j]
    BY <1>1, <2>2, <2>3, CommitRow DEF IInv
  <2>6. \A j \in Ids : /\ withdrawn[j] \in Nat
                       /\ withdrawn'[j] = IF j = i THEN head + 1 ELSE withdrawn[j]
    BY <2>3 DEF IInv, TypeOK
  <2>7. Bounds'
    BY <2>2, <2>5, <2>6 DEF Bounds, IInv, Promises
  <2>8. \A j \in Ids : withdrawn'[j] > 0 /\ (Pending(j)' \/ Conversed(j)') =>
                       withdrawn'[j] < row'[j].admitted
    <3> TAKE j \in Ids
    <3>1. CASE j = i
      BY <3>1, <2>1, <2>2, <2>4, <2>5 DEF Pending
    <3>2. CASE j # i
      BY <3>2, <2>4, <2>5, <2>6 DEF CancelStands, Pending, Stored, IInv, Promises
    <3>3. QED
      BY <3>1, <3>2
  <2>9. QED
    BY <2>4, <2>7, <2>8 DEF Promises, CancelStands
<1>3. CASE Rollback /\ UNCHANGED withdrawn
  BY <1>3, StoreKept DEF Rollback, Store, IInv
<1>4. QED
  BY <1>2, <1>3 DEF PublishCancelled

LEMMA UpdatedKeeps ==
  ASSUME IInv, NEW c \in Clients, PublishUpdated(c)
  PROVE  Promises'
<1> DEFINE i == call[c].id
           r == Patched(row[i], call[c])
<1>1. call[c] \in Changes /\ i \in Ids
  BY DEF PublishUpdated, IInv, TypeOK, Calls, Admissions, Changes, Idle, Wake
<1>2. CASE Pending(i) /\ Patches(i, call[c]) /\ UNCHANGED entries
  <2>1. ~Conversed(i) /\ row[i] \in Rows /\ row[i].promoted = 0
    BY <1>1, <1>2, PendingIsNotSaid
  <2>2. r \in Rows /\ r.promoted = 0 /\ r.admitted = row[i].admitted
    BY <1>1, <2>1, PatchedRow
  <2>3. Commit(i, r)
    BY <1>2 DEF Patches
  <2> HIDE DEF i, r
  <2>4. /\ DeliveredOnce' /\ NotBoth'
        /\ \A j \in Ids : Conversed(j)' <=> Conversed(j)
    BY <1>1, <1>2, <2>1, <2>2, <2>3, QuietCommit
  <2>5. /\ head' = head + 1 /\ head \in Nat /\ row'[i] = r
        /\ \A j \in Ids : j # i => row'[j] = row[j]
    BY <1>1, <2>2, <2>3, CommitRow DEF IInv, TypeOK
  <2>6. withdrawn' = withdrawn /\ \A j \in Ids : withdrawn[j] \in Nat
    BY DEF PublishUpdated, IInv, TypeOK
  <2>7. Bounds'
    BY <2>5, <2>6 DEF Bounds, IInv, Promises
  <2>8. \A j \in Ids : withdrawn'[j] > 0 /\ (Pending(j)' \/ Conversed(j)') =>
                       withdrawn'[j] < row'[j].admitted
    <3> TAKE j \in Ids
    <3>1. CASE j = i
      BY <3>1, <1>2, <2>2, <2>4, <2>5, <2>6 DEF CancelStands, IInv, Promises
    <3>2. CASE j # i
      BY <3>2, <2>4, <2>5, <2>6 DEF CancelStands, Pending, Stored, IInv, Promises
    <3>3. QED
      BY <3>1, <3>2
  <2>9. QED
    BY <2>4, <2>7, <2>8 DEF Promises, CancelStands
<1>3. CASE Rollback
  BY <1>3, StoreKept DEF PublishUpdated, Rollback, Store, IInv
<1>4. QED
  BY <1>2, <1>3 DEF PublishUpdated

LEMMA PromptedKeeps ==
  ASSUME IInv, NEW r \in Runners, NEW s \in selected[r], PublishPrompted(r, s)
  PROVE  Promises'
<1> DEFINE i == s.id
           said == [row[i] EXCEPT !.promoted = head + 1]
           entry == [id |-> i, data |-> s.row.data, seq |-> head + 1]
<1>1. i \in Ids
  BY DEF IInv, TypeOK, Snapshots
<1>2. CASE Pending(i) /\ Matches(s) /\ Promote(r, s)
  <2>1. ~Conversed(i) /\ row[i] \in Rows /\ row[i].cancelled = 0
    BY <1>1, <1>2, PendingIsNotSaid
  <2>2. /\ said \in Rows /\ said.promoted = head + 1 /\ said.cancelled = 0
        /\ said.admitted = row[i].admitted /\ said.data = row[i].data
        /\ head \in Nat
    BY <2>1 DEF Rows, IInv, TypeOK
  <2>3. /\ entry.id = i /\ entry.seq = head + 1 /\ entry.data = row[i].data
    BY <1>2 DEF Matches
  <2>4. Commit(i, said) /\ entries' = entries \cup {entry}
    BY <1>2 DEF Promote
  <2> HIDE DEF i, said, entry
  <2>5. /\ head' = head + 1 /\ row'[i] = said
        /\ \A j \in Ids : j # i => row'[j] = row[j]
    BY <1>1, <2>2, <2>4, CommitRow DEF IInv
  <2>6. withdrawn' = withdrawn /\ \A j \in Ids : withdrawn[j] \in Nat
    BY DEF PublishPrompted, history, IInv, TypeOK
  <2>7. Conversed(i)' /\ \A j \in Ids : j # i => (Conversed(j)' <=> Conversed(j))
    BY <2>3, <2>4 DEF Conversed
  <2>8. Bounds' /\ NotBoth'
    BY <2>2, <2>5, <2>6 DEF Bounds, NotBoth, IInv, Promises
  <2>9. \A j \in Ids : row'[j].promoted > 0 <=> Conversed(j)'
    <3> TAKE j \in Ids
    <3>1. CASE j = i
      BY <3>1, <2>2, <2>5, <2>7
    <3>2. CASE j # i
      BY <3>2, <2>5, <2>7 DEF DeliveredOnce, IInv, Promises
    <3>3. QED
      BY <3>1, <3>2
  <2>10. \A e \in entries' : row'[e.id].promoted = e.seq /\ row'[e.id].data = e.data
    <3> TAKE e \in entries'
    <3>1. CASE e = entry
      BY <3>1, <2>2, <2>3, <2>5
    <3>2. CASE e \in entries
      <4>1. e.id \in Ids /\ e.id # i
        BY <3>2, <2>1 DEF Conversed, IInv, TypeOK, Entries
      <4>2. QED
        BY <3>2, <4>1, <2>5 DEF DeliveredOnce, IInv, Promises
    <3>3. QED
      BY <3>1, <3>2, <2>4
  <2>11. \A j \in Ids : withdrawn'[j] > 0 /\ (Pending(j)' \/ Conversed(j)') =>
                        withdrawn'[j] < row'[j].admitted
    <3> TAKE j \in Ids
    <3>1. CASE j = i
      BY <3>1, <1>2, <2>2, <2>5, <2>6 DEF CancelStands, IInv, Promises
    <3>2. CASE j # i
      BY <3>2, <2>5, <2>6, <2>7 DEF CancelStands, Pending, Stored, IInv, Promises
    <3>3. QED
      BY <3>1, <3>2
  <2>12. QED
    BY <2>8, <2>9, <2>10, <2>11 DEF Promises, CancelStands, DeliveredOnce
<1>3. CASE Rollback
  BY <1>3, StoreKept DEF PublishPrompted, Rollback, Store, history, IInv
<1>4. QED
  BY <1>2, <1>3 DEF PublishPrompted

LEMMA NextIInv == IInv /\ [Next]_vars => IInv'
<1> SUFFICES ASSUME IInv, [Next]_vars PROVE IInv'
  OBVIOUS
<1>1. TypeOK'
  BY NextType DEF IInv
<1>2. ASSUME NEW c \in Clients, Asks(c) PROVE Promises'
  <2>1. UNCHANGED <<Store, withdrawn>>
    BY <1>2 DEF Asks, Cancel, Admit, Update, Store, history
  <2>2. QED
    BY <2>1, StoreKept DEF IInv
<1>3. ASSUME NEW c \in Clients, Answers(c) PROVE Promises'
  <2>1. CASE Adopt(c) \/ Ring(c)
    <3>1. UNCHANGED <<Store, withdrawn>>
      BY <2>1 DEF Adopt, Ring, Store, history
    <3>2. QED
      BY <3>1, StoreKept DEF IInv
  <2>2. QED
    BY <1>3, <2>1, AdmittedKeeps, CancelledKeeps, UpdatedKeeps DEF Answers
<1>4. ASSUME NEW r \in Runners, Drains(r) PROVE Promises'
  <2>1. ASSUME NEW s \in selected[r], PublishPrompted(r, s) PROVE Promises'
    BY <2>1, PromptedKeeps
  <2>2. ASSUME \/ Drain(r) \/ PeekSteer(r) \/ PeekFollowUp(r) \/ Open(r)
               \/ SelectFollowUp(r) \/ SelectSteers(r) \/ Followed(r)
               \/ Answered(r) \/ CalledTools(r)
               \/ \E s \in selected[r] : Recheck(r, s)
        PROVE  Promises'
    <3>1. UNCHANGED <<Store, withdrawn>>
      BY <2>2 DEF Drain, PeekSteer, PeekFollowUp, Open, SelectFollowUp, SelectSteers,
                  Followed, Answered, CalledTools, Recheck, Store, history
    <3>2. QED
      BY <3>1, StoreKept DEF IInv
  <2>3. QED
    BY <1>4, <2>1, <2>2 DEF Drains
<1>5. ASSUME NEW r \in Runners, Cut(r) PROVE Promises'
  BY <1>5, StoreKept DEF Cut, Store, history, IInv
<1>6. ASSUME Crash PROVE Promises'
  BY <1>6, StoreKept DEF Crash, Store, history, IInv
<1>7. ASSUME UNCHANGED vars PROVE Promises'
  BY <1>7, StoreKept DEF vars, Store, history, IInv
<1>8. ASSUME Next PROVE Promises'
  BY <1>8, <1>2, <1>3, <1>4, <1>5, <1>6 DEF Next
<1>9. QED
  BY <1>1, <1>7, <1>8 DEF IInv

-----------------------------------------------------------------------------
(* The invariant holds, and with it the promises.                          *)
THEOREM Invariance == Spec => []IInv
<1>1. QED
  BY InitIInv, NextIInv, PTL DEF Spec

(* Every variable of the inbox keeps to its type.                          *)
THEOREM TypeCorrect == Spec => []TypeOK
<1>1. IInv => TypeOK
  BY DEF IInv
<1>2. QED
  BY <1>1, Invariance, PTL

(* A prompt is in the conversation exactly when its row is promoted, at    *)
(* one place and with the text of the row, however many clients retry,     *)
(* edit and cancel and however many drains promote at once: the compare-   *)
(* and-set of each projector is enough, no drain relies on the coordinator *)
(* to be alone (projector.ts:121, inbox.ts:219).                           *)
THEOREM SaidOnce == Spec => []DeliveredOnce
<1>1. IInv => DeliveredOnce
  BY DEF IInv, Promises
<1>2. QED
  BY <1>1, Invariance, PTL

(* No row is both promoted and cancelled (inbox.ts:236).                   *)
THEOREM FirstWins == Spec => []NotBoth
<1>1. IInv => NotBoth
  BY DEF IInv, Promises
<1>2. QED
  BY <1>1, Invariance, PTL

(* A cancel that was answered stands until the prompt is admitted again    *)
(* (control.ts:128).                                                       *)
THEOREM CancelsStand == Spec => []CancelStands
<1>1. IInv => CancelStands
  BY DEF IInv, Promises
<1>2. QED
  BY <1>1, Invariance, PTL
-----------------------------------------------------------------------------
(* The order of a lane.                                                    *)
(*                                                                         *)
(* Between its selection and its promotion a prompt may be edited,         *)
(* withdrawn and admitted again.  What the order needs of that: the cutoff *)
(* divides what a turn found from what came later, a row that no longer    *)
(* reads as it was selected was edited after the cutoff, and a prompt that *)
(* is due before a selected one is selected too, or was edited.            *)

Clock ==
  /\ \A i \in Ids : row[i].admitted \in 0 .. head
  /\ \A r \in Runners : cutoff[r] <= head

(* Nothing is selected but from a selection to its last promotion, so the  *)
(* cutoff of what is selected does not move.                               *)
Held == \A r \in Runners :
  step[r] \notin {"following", "steering", "recheck"} => selected[r] = {}

(* A row that was admitted again since came after the cutoff.              *)
Aged(r, s) ==
  /\ s.row.admitted <= head
  /\ row[s.id].admitted = s.row.admitted \/ row[s.id].admitted > cutoff[r]
  /\ row[s.id].admitted = s.row.admitted /\ ~Matches(s) => edited[s.id] > cutoff[r]

Due(r, s, j) ==
  /\ Pending(j) /\ row[j].delivery = s.row.delivery
  /\ row[j].admitted < s.row.admitted /\ s.row.admitted <= cutoff[r]
Selected(r, j) == \E t \in selected[r] : t.id = j /\ t.row.admitted = row[j].admitted
NoneSkipped(r, s) ==
  \A j \in Ids : Due(r, s, j) => edited[j] > cutoff[r] \/ Selected(r, j)

Line == \A r \in Runners : \A s \in selected[r] : Aged(r, s) /\ NoneSkipped(r, s)

OInv == TypeOK /\ Clock /\ Held /\ Line

LEMMA InitOInv == Init => OInv
<1>1. Init => TypeOK
  BY InitIInv DEF IInv
<1>2. QED
  BY <1>1 DEF Init, OInv, Clock, Held, Line, NoRow

LEMMA SelectedType ==
  ASSUME TypeOK, NEW r \in Runners, NEW s \in selected[r]
  PROVE  s.id \in Ids /\ s.row \in Rows /\ s.row.admitted \in Nat
BY DEF TypeOK, Snapshots, Rows

LEMMA Numbers ==
  ASSUME OInv
  PROVE  /\ head \in Nat
         /\ \A j \in Ids : row[j].admitted \in Nat /\ row[j].admitted <= head
                            /\ edited[j] \in Nat
         /\ \A r \in Runners : cutoff[r] \in Nat /\ cutoff[r] <= head
BY DEF OInv, TypeOK, Clock

(* Nothing is committed, and no drain selects.                             *)
LEMMA LineKept ==
  ASSUME Line, UNCHANGED <<head, row, edited>>,
         \A r \in Runners : \/ selected'[r] = {}
                            \/ selected'[r] = selected[r] /\ cutoff'[r] = cutoff[r]
  PROVE  Line'
<1> SUFFICES ASSUME NEW r \in Runners, NEW s \in selected'[r]
             PROVE  (Aged(r, s) /\ NoneSkipped(r, s))'
  BY DEF Line
<1>1. selected'[r] = selected[r] /\ cutoff'[r] = cutoff[r] /\ s \in selected[r]
  OBVIOUS
<1>2. Aged(r, s) /\ NoneSkipped(r, s)
  BY <1>1 DEF Line
<1>3. Aged(r, s)'
  BY <1>1, <1>2 DEF Aged, Matches
<1>4. NoneSkipped(r, s)'
  BY <1>1, <1>2 DEF NoneSkipped, Due, Selected, Pending, Stored
<1>5. QED
  BY <1>3, <1>4

(* Row i is admitted, is edited, or leaves the queue, and a drain gives up *)
(* the snapshot of a row that left.                                        *)
LEMMA LineCommitted ==
  ASSUME OInv, NEW i \in Ids, NEW q \in Rows, Commit(i, q), UNCHANGED cutoff,
         \A j \in Ids : edited'[j] = edited[j] \/ edited'[j] = head + 1,
         \/ q.admitted = head + 1
         \/ q.admitted = row[i].admitted /\ edited'[i] = head + 1
         \/ /\ q.admitted = row[i].admitted /\ q.data = row[i].data
            /\ q.delivery = row[i].delivery /\ ~Pending(i)',
         \A r \in Runners :
           \A t \in selected[r] : t \in selected'[r] \/ (t.id = i /\ ~Pending(i)'),
         \A r \in Runners : selected'[r] \subseteq selected[r]
  PROVE  Line'
<1> SUFFICES ASSUME NEW r \in Runners, NEW s \in selected'[r]
             PROVE  Aged(r, s)' /\ NoneSkipped(r, s)'
  BY DEF Line
<1>1. s \in selected[r] /\ s.id \in Ids /\ s.row.admitted \in Nat
  BY SelectedType DEF OInv
<1>2. Aged(r, s) /\ NoneSkipped(r, s)
  BY <1>1 DEF OInv, Line
<1>3. /\ head' = head + 1 /\ row'[i] = q
      /\ \A j \in Ids : j # i => row'[j] = row[j]
  BY CommitRow DEF OInv
<1>4. /\ head \in Nat /\ cutoff[r] \in Nat /\ cutoff[r] <= head
      /\ cutoff'[r] = cutoff[r]
      /\ \A j \in Ids : row[j].admitted \in Nat /\ row[j].admitted <= head
                         /\ edited[j] \in Nat
  BY Numbers
<1>5. \A j \in Ids : edited[j] > cutoff[r] => edited'[j] > cutoff'[r]
  BY <1>4
<1>6. Aged(r, s)'
  <2>1. CASE s.id # i
    BY <2>1, <1>1, <1>2, <1>3, <1>4, <1>5 DEF Aged, Matches
  <2>2. CASE s.id = i
    BY <2>2, <1>1, <1>2, <1>3, <1>4, <1>5 DEF Aged, Matches
  <2>3. QED
    BY <2>1, <2>2
<1>7. ASSUME NEW j \in Ids, Due(r, s, j)'
      PROVE  edited'[j] > cutoff'[r] \/ Selected(r, j)'
  <2>1. CASE j = i
    <3>1. q.admitted # head + 1
      BY <2>1, <1>1, <1>2, <1>3, <1>4, <1>7 DEF Due, Aged
    <3>2. edited'[i] = head + 1
      BY <2>1, <3>1, <1>7 DEF Due
    <3>3. QED
      BY <2>1, <3>2, <1>4
  <2>2. CASE j # i
    <3>1. row'[j] = row[j] /\ Due(r, s, j)
      BY <2>2, <1>3, <1>4, <1>7 DEF Due, Pending, Stored
    <3>2. edited[j] > cutoff[r] \/ Selected(r, j)
      BY <3>1, <1>2 DEF NoneSkipped
    <3>3. ASSUME Selected(r, j) PROVE Selected(r, j)'
      <4>1. PICK t \in selected[r] : t.id = j /\ t.row.admitted = row[j].admitted
        BY <3>3 DEF Selected
      <4>2. t \in selected'[r]
        BY <4>1, <2>2
      <4>3. QED
        BY <4>1, <4>2, <3>1 DEF Selected
    <3>4. QED
      BY <3>2, <3>3, <1>5
  <2>3. QED
    BY <2>1, <2>2
<1>8. QED
  BY <1>6, <1>7 DEF NoneSkipped

(* Row i leaves the queue as it is.                                        *)
LEMMA LineLeft ==
  ASSUME OInv, NEW i \in Ids, NEW q \in Rows, Commit(i, q), UNCHANGED <<cutoff, edited>>,
         q.admitted = row[i].admitted, q.data = row[i].data,
         q.delivery = row[i].delivery, q.promoted # 0 \/ q.cancelled # 0,
         \A r \in Runners : /\ selected'[r] \subseteq selected[r]
                            /\ \A t \in selected[r] : t \in selected'[r] \/ t.id = i
  PROVE  Line'
<1>1. ~Pending(i)'
  BY CommitRow DEF Pending, OInv
<1>2. QED
  BY <1>1, LineCommitted

(* A drain that lost a prompt goes on with the others.                     *)
LEMMA LineMoved ==
  ASSUME OInv, NEW r \in Runners, NEW s \in selected[r],
         UNCHANGED <<head, row, edited, cutoff>>,
         selected' = [selected EXCEPT ![r] = @ \ {s}],
         ~Pending(s.id) \/ row[s.id].admitted # s.row.admitted \/ ~Matches(s)
  PROVE  Line'
<1> SUFFICES ASSUME NEW z \in Runners, NEW u \in selected'[z]
             PROVE  Aged(z, u)' /\ NoneSkipped(z, u)'
  BY DEF Line
<1>1. /\ u \in selected[z]
      /\ \A t \in selected[z] : t \in selected'[z] \/ (z = r /\ t = s)
  BY DEF OInv, TypeOK
<1>2. Aged(z, u) /\ NoneSkipped(z, u) /\ Aged(r, s)
  BY <1>1 DEF OInv, Line
<1>3. Aged(z, u)'
  BY <1>2 DEF Aged, Matches
<1>4. ASSUME NEW j \in Ids, Due(z, u, j)'
      PROVE  edited'[j] > cutoff'[z] \/ Selected(z, j)'
  <2>1. Due(z, u, j)
    BY <1>4 DEF Due, Pending, Stored
  <2>2. CASE edited[j] > cutoff[z]
    BY <2>2
  <2>3. CASE Selected(z, j)
    <3>1. PICK t \in selected[z] : t.id = j /\ t.row.admitted = row[j].admitted
      BY <2>3 DEF Selected
    <3>2. CASE t \in selected'[z]
      BY <3>1, <3>2 DEF Selected
    <3>3. CASE z = r /\ t = s
      BY <3>1, <3>3, <2>1, <1>2 DEF Due, Aged
    <3>4. QED
      BY <3>2, <3>3, <1>1
  <2>4. QED
    BY <2>1, <2>2, <2>3, <1>2 DEF NoneSkipped
<1>5. QED
  BY <1>3, <1>4 DEF NoneSkipped

(* A drain selects, from rows as they are, a set with all that is due.     *)
LEMMA LineSelected ==
  ASSUME OInv, NEW r \in Runners, NEW S \in SUBSET {i \in Ids : Pending(i)},
         UNCHANGED <<head, row, edited, cutoff>>,
         selected' = [selected EXCEPT ![r] = Snapshot(S)],
         \A i \in S, j \in Ids :
            /\ Pending(j) /\ row[j].delivery = row[i].delivery
            /\ row[j].admitted < row[i].admitted /\ row[i].admitted <= cutoff[r]
            => j \in S
  PROVE  Line'
<1> SUFFICES ASSUME NEW z \in Runners, NEW u \in selected'[z]
             PROVE  Aged(z, u)' /\ NoneSkipped(z, u)'
  BY DEF Line
<1>1. CASE z # r
  <2>1. selected'[z] = selected[z] /\ Aged(z, u) /\ NoneSkipped(z, u)
    BY <1>1 DEF OInv, TypeOK, Line
  <2>2. Aged(z, u)'
    BY <2>1 DEF Aged, Matches
  <2>3. NoneSkipped(z, u)'
    BY <2>1 DEF NoneSkipped, Due, Selected, Pending, Stored
  <2>4. QED
    BY <2>2, <2>3
<1>2. CASE z = r
  <2>1. selected'[r] = Snapshot(S)
    BY DEF OInv, TypeOK
  <2>2. PICK i \in S : u = [id |-> i, row |-> row[i]]
    BY <1>2, <2>1 DEF Snapshot
  <2>3. u.id = i /\ u.row = row[i] /\ i \in Ids
    BY <2>2
  <2>4. Aged(z, u)'
    BY <2>3, Numbers DEF Aged, Matches
  <2>5. ASSUME NEW j \in Ids, Due(z, u, j)' PROVE Selected(z, j)'
    <3>1. j \in S
      BY <2>3, <2>5, <1>2 DEF Due, Pending, Stored
    <3>2. [id |-> j, row |-> row[j]] \in selected'[z]
      BY <3>1, <2>1, <1>2 DEF Snapshot
    <3>3. QED
      BY <3>2 DEF Selected
  <2>6. QED
    BY <2>4, <2>5 DEF NoneSkipped
<1>3. QED
  BY <1>1, <1>2

-----------------------------------------------------------------------------
LEMMA NextClock == OInv /\ [Next]_vars => Clock'
<1> SUFFICES ASSUME OInv, [Next]_vars PROVE Clock'
  OBVIOUS
<1> USE Numbers
<1>1. ASSUME UNCHANGED <<head, row, cutoff>> PROVE Clock'
  BY <1>1 DEF Clock
<1>2. ASSUME NEW i \in Ids, NEW q \in Rows, Commit(i, q), UNCHANGED cutoff,
             q.admitted = row[i].admitted \/ q.admitted = head + 1
      PROVE  Clock'
  <2>1. /\ head' = head + 1 /\ row'[i] = q
        /\ \A j \in Ids : j # i => row'[j] = row[j]
    BY <1>2, CommitRow DEF OInv
  <2>2. QED
    BY <1>2, <2>1 DEF Clock
<1>3. ASSUME NEW c \in Clients, Asks(c) PROVE Clock'
  BY <1>1, <1>3 DEF Asks, Cancel, Admit, Update, turn
<1>4. ASSUME NEW c \in Clients, Answers(c) PROVE Clock'
  <2>1. CASE PublishAdmitted(c)
    <3>1. call[c] \in Admissions /\ call[c].id \in Ids
      BY <2>1 DEF PublishAdmitted, OInv, TypeOK, Calls, Admissions, Changes, Idle, Wake
    <3>2. CASE Commit(call[c].id, Admitted(call[c].data, call[c].delivery))
      <4>1. /\ Admitted(call[c].data, call[c].delivery) \in Rows
            /\ Admitted(call[c].data, call[c].delivery).admitted = head + 1
        BY <3>1 DEF Admissions, Admitted, Rows
      <4>2. QED
        BY <2>1, <3>1, <3>2, <4>1, <1>2 DEF PublishAdmitted, turn
    <3>3. CASE Rollback
      BY <2>1, <3>3, <1>1 DEF PublishAdmitted, Rollback, turn
    <3>4. QED
      BY <2>1, <3>2, <3>3 DEF PublishAdmitted
  <2>2. CASE PublishCancelled(c)
    <3>1. call[c].id \in Ids
      BY <2>2 DEF PublishCancelled, OInv, TypeOK, Calls, Admissions, Changes, Idle, Wake
    <3>2. CASE Pending(call[c].id) /\ Withdraw(call[c].id)
      <4>1. row[call[c].id] \in Rows
        BY <3>1, <3>2, StoredRow DEF Pending, OInv
      <4>2. /\ [row[call[c].id] EXCEPT !.cancelled = head + 1] \in Rows
            /\ [row[call[c].id] EXCEPT !.cancelled = head + 1].admitted
                 = row[call[c].id].admitted
        BY <4>1 DEF Rows
      <4>3. QED
        BY <2>2, <3>1, <3>2, <4>2, <1>2 DEF PublishCancelled, Withdraw, turn
    <3>3. CASE Rollback
      BY <2>2, <3>3, <1>1 DEF PublishCancelled, Rollback, turn
    <3>4. QED
      BY <2>2, <3>2, <3>3 DEF PublishCancelled
  <2>3. CASE PublishUpdated(c)
    <3>1. call[c] \in Changes /\ call[c].id \in Ids
      BY <2>3 DEF PublishUpdated, OInv, TypeOK, Calls, Admissions, Changes, Idle, Wake
    <3>2. CASE Pending(call[c].id) /\ Patches(call[c].id, call[c])
      <4>1. row[call[c].id] \in Rows
        BY <3>1, <3>2, StoredRow DEF Pending, OInv
      <4>2. /\ Patched(row[call[c].id], call[c]) \in Rows
            /\ Patched(row[call[c].id], call[c]).admitted = row[call[c].id].admitted
        BY <3>1, <4>1, PatchedRow
      <4>3. QED
        BY <2>3, <3>1, <3>2, <4>2, <1>2 DEF PublishUpdated, Patches, turn
    <3>3. CASE Rollback
      BY <2>3, <3>3, <1>1 DEF PublishUpdated, Rollback, turn
    <3>4. QED
      BY <2>3, <3>2, <3>3 DEF PublishUpdated
  <2>4. CASE Adopt(c) \/ Ring(c)
    BY <2>4, <1>1 DEF Adopt, Ring, turn
  <2>5. QED
    BY <1>4, <2>1, <2>2, <2>3, <2>4 DEF Answers
<1>5. ASSUME NEW r \in Runners, Drains(r) PROVE Clock'
  <2>1. CASE Open(r)
    BY <2>1 DEF Open, Store, Clock, OInv, TypeOK
  <2>2. ASSUME NEW s \in selected[r], PublishPrompted(r, s) PROVE Clock'
    <3>1. s.id \in Ids
      BY SelectedType DEF OInv
    <3>2. CASE Pending(s.id) /\ Promote(r, s)
      <4>1. row[s.id] \in Rows
        BY <3>1, <3>2, StoredRow DEF Pending, OInv
      <4>2. /\ [row[s.id] EXCEPT !.promoted = head + 1] \in Rows
            /\ [row[s.id] EXCEPT !.promoted = head + 1].admitted = row[s.id].admitted
        BY <4>1 DEF Rows
      <4>3. QED
        BY <2>2, <3>1, <3>2, <4>2, <1>2 DEF PublishPrompted, Promote
    <3>3. CASE Rollback
      BY <2>2, <3>3, <1>1 DEF PublishPrompted, Rollback
    <3>4. QED
      BY <2>2, <3>2, <3>3 DEF PublishPrompted
  <2>3. ASSUME NEW s \in selected[r], Recheck(r, s) PROVE Clock'
    BY <2>3, <1>1 DEF Recheck, Store
  <2>4. CASE \/ Drain(r) \/ PeekSteer(r) \/ PeekFollowUp(r) \/ SelectFollowUp(r)
             \/ SelectSteers(r) \/ Followed(r) \/ Answered(r) \/ CalledTools(r)
    BY <2>4, <1>1 DEF Drain, PeekSteer, PeekFollowUp, SelectFollowUp, SelectSteers,
                      Followed, Answered, CalledTools, Store
  <2>5. QED
    BY <1>5, <2>1, <2>2, <2>3, <2>4 DEF Drains
<1>6. ASSUME NEW r \in Runners, Cut(r) PROVE Clock'
  BY <1>6, <1>1 DEF Cut, Store
<1>7. ASSUME Crash PROVE Clock'
  BY <1>7, <1>1 DEF Crash, Store
<1>8. CASE UNCHANGED vars
  BY <1>8, <1>1 DEF vars, turn
<1>9. QED
  BY <1>3, <1>4, <1>5, <1>6, <1>7, <1>8 DEF Next

LEMMA NextHeld == OInv /\ [Next]_vars => Held'
<1> SUFFICES ASSUME OInv, [Next]_vars PROVE Held'
  OBVIOUS
<1> USE DEF OInv, TypeOK, Held
<1>1. ASSUME UNCHANGED <<step, selected>> PROVE Held'
  BY <1>1
<1>2. ASSUME NEW c \in Clients, Asks(c) PROVE Held'
  BY <1>1, <1>2 DEF Asks, Cancel, Admit, Update, turn
<1>3. ASSUME NEW c \in Clients, Answers(c) PROVE Held'
  BY <1>1, <1>3 DEF Answers, PublishAdmitted, Adopt, PublishCancelled, PublishUpdated,
                    Ring, turn
<1>4. ASSUME NEW r \in Runners, Drains(r) PROVE Held'
  <2>1. CASE Drain(r) \/ PeekSteer(r) \/ PeekFollowUp(r) \/ Open(r)
    BY <2>1 DEF Drain, PeekSteer, PeekFollowUp, Open, Goto
  <2>2. CASE SelectFollowUp(r) \/ SelectSteers(r)
    BY <2>2 DEF SelectFollowUp, SelectSteers, Goto
  <2>3. CASE Followed(r) \/ Answered(r) \/ CalledTools(r)
    BY <2>3 DEF Followed, Answered, CalledTools, Promoted, Goto
  <2>4. ASSUME NEW s \in selected[r], PublishPrompted(r, s) PROVE Held'
    BY <2>4 DEF PublishPrompted, Promote, Goto
  <2>5. ASSUME NEW s \in selected[r], Recheck(r, s) PROVE Held'
    BY <2>5 DEF Recheck, Goto
  <2>6. QED
    BY <1>4, <2>1, <2>2, <2>3, <2>4, <2>5 DEF Drains
<1>5. ASSUME NEW r \in Runners, Cut(r) PROVE Held'
  BY <1>5 DEF Cut, Goto
<1>6. ASSUME Crash PROVE Held'
  BY <1>6 DEF Crash
<1>7. CASE UNCHANGED vars
  BY <1>7, <1>1 DEF vars, turn
<1>8. QED
  BY <1>2, <1>3, <1>4, <1>5, <1>6, <1>7 DEF Next

LEMMA NextLine == OInv /\ [Next]_vars => Line'
<1> SUFFICES ASSUME OInv, [Next]_vars PROVE Line'
  OBVIOUS
<1>1. ASSUME UNCHANGED <<Store, cutoff, selected, edited>> PROVE Line'
  BY <1>1, LineKept DEF Store, OInv
<1>2. ASSUME NEW c \in Clients, Asks(c) PROVE Line'
  BY <1>1, <1>2 DEF Asks, Cancel, Admit, Update, Store, turn, history
<1>3. ASSUME NEW c \in Clients, Answers(c) PROVE Line'
  <2>1. CASE PublishAdmitted(c)
    <3>1. call[c] \in Admissions /\ call[c].id \in Ids
      BY <2>1 DEF PublishAdmitted, OInv, TypeOK, Calls, Admissions, Changes, Idle, Wake
    <3>2. CASE Commit(call[c].id, Admitted(call[c].data, call[c].delivery))
      <4>1. /\ Admitted(call[c].data, call[c].delivery) \in Rows
            /\ Admitted(call[c].data, call[c].delivery).admitted = head + 1
        BY <3>1, Numbers DEF Admissions, Admitted, Rows
      <4>2. QED
        BY <2>1, <3>1, <3>2, <4>1, LineCommitted DEF PublishAdmitted, turn, history
    <3>3. CASE Rollback
      BY <2>1, <3>3, <1>1 DEF PublishAdmitted, Rollback, Store, turn, history
    <3>4. QED
      BY <2>1, <3>2, <3>3 DEF PublishAdmitted
  <2>2. CASE PublishCancelled(c)
    <3>1. call[c].id \in Ids
      BY <2>2 DEF PublishCancelled, OInv, TypeOK, Calls, Admissions, Changes, Idle, Wake
    <3>2. CASE Pending(call[c].id) /\ Withdraw(call[c].id)
      <4> DEFINE i == call[c].id
                 q == [row[i] EXCEPT !.cancelled = head + 1]
      <4>1. row[i] \in Rows /\ head \in Nat
        BY <3>1, <3>2, StoredRow DEF Pending, OInv, TypeOK
      <4>2. /\ q \in Rows /\ q.admitted = row[i].admitted /\ q.data = row[i].data
            /\ q.delivery = row[i].delivery /\ q.cancelled # 0
        BY <4>1 DEF Rows
      <4>3. Commit(i, q) /\ UNCHANGED <<cutoff, edited, selected>>
        BY <2>2, <3>2 DEF PublishCancelled, Withdraw, turn
      <4>4. i \in Ids
        BY <3>1
      <4> HIDE DEF i, q
      <4>5. QED
        BY <4>2, <4>3, <4>4, LineLeft
    <3>3. CASE Rollback
      BY <2>2, <3>3, <1>1 DEF PublishCancelled, Rollback, Store, turn
    <3>4. QED
      BY <2>2, <3>2, <3>3 DEF PublishCancelled
  <2>3. CASE PublishUpdated(c)
    <3>1. call[c] \in Changes /\ call[c].id \in Ids
      BY <2>3 DEF PublishUpdated, OInv, TypeOK, Calls, Admissions, Changes, Idle, Wake
    <3>2. CASE Pending(call[c].id) /\ Patches(call[c].id, call[c])
      <4> DEFINE i == call[c].id
                 q == Patched(row[i], call[c])
      <4>1. row[i] \in Rows
        BY <3>1, <3>2, StoredRow DEF Pending, OInv
      <4>2. q \in Rows /\ q.admitted = row[i].admitted
        BY <3>1, <4>1, PatchedRow
      <4>3. /\ Commit(i, q) /\ UNCHANGED <<cutoff, selected>>
            /\ edited' = [edited EXCEPT ![i] = head + 1]
        BY <2>3, <3>2 DEF PublishUpdated, Patches, turn
      <4> HIDE DEF i, q
      <4>4. /\ i \in Ids /\ edited'[i] = head + 1
            /\ \A j \in Ids : edited'[j] = edited[j] \/ edited'[j] = head + 1
        BY <3>1, <4>3 DEF i, OInv, TypeOK
      <4>5. QED
        BY <4>2, <4>3, <4>4, LineCommitted
    <3>3. CASE Rollback /\ UNCHANGED edited
      BY <2>3, <3>3, <1>1 DEF PublishUpdated, Rollback, Store, turn
    <3>4. QED
      BY <2>3, <3>2, <3>3 DEF PublishUpdated
  <2>4. CASE Adopt(c) \/ Ring(c)
    BY <2>4, <1>1 DEF Adopt, Ring, Store, turn, history
  <2>5. QED
    BY <1>3, <2>1, <2>2, <2>3, <2>4 DEF Answers
<1>4. ASSUME NEW r \in Runners, Drains(r) PROVE Line'
  <2>1. CASE Open(r)
    <3>1. selected[r] = {}
      BY <2>1 DEF Open, OInv, Held
    <3>2. \A z \in Runners : z # r => cutoff'[z] = cutoff[z]
      BY <2>1 DEF Open, OInv, TypeOK
    <3>3. QED
      BY <2>1, <3>1, <3>2, LineKept DEF Open, Store, history, OInv
  <2>2. CASE SelectFollowUp(r)
    <3>1. Oldest(FollowUps) \in SUBSET {i \in Ids : Pending(i)}
      BY DEF Oldest, FollowUps
    <3>2. \A i \in Oldest(FollowUps), j \in Ids :
             Pending(j) /\ row[j].delivery = row[i].delivery => row[j].admitted >= row[i].admitted
      BY Numbers DEF Oldest, FollowUps
    <3>3. \A i \in Oldest(FollowUps), j \in Ids :
             /\ Pending(j) /\ row[j].delivery = row[i].delivery
             /\ row[j].admitted < row[i].admitted /\ row[i].admitted <= cutoff[r]
             => j \in Oldest(FollowUps)
      BY <3>1, <3>2, Numbers
    <3>4. /\ UNCHANGED <<head, row, edited, cutoff>>
          /\ selected' = [selected EXCEPT ![r] = Snapshot(Oldest(FollowUps))]
      BY <2>2 DEF SelectFollowUp, Store, history
    <3>5. QED
      BY <3>1, <3>3, <3>4, LineSelected
  <2>3. CASE SelectSteers(r)
    <3> DEFINE S == {i \in Steers : row[i].admitted <= cutoff[r]}
    <3>1. S \in SUBSET {i \in Ids : Pending(i)}
      BY DEF Steers
    <3>2. \A i \in S, j \in Ids :
             /\ Pending(j) /\ row[j].delivery = row[i].delivery
             /\ row[j].admitted < row[i].admitted /\ row[i].admitted <= cutoff[r]
             => j \in S
      BY Numbers DEF Steers
    <3>3. /\ UNCHANGED <<head, row, edited, cutoff>>
          /\ selected' = [selected EXCEPT ![r] = Snapshot(S)]
      BY <2>3 DEF SelectSteers, Store, history
    <3> HIDE DEF S
    <3>4. QED
      BY <3>1, <3>2, <3>3, LineSelected
  <2>4. ASSUME NEW s \in selected[r], PublishPrompted(r, s) PROVE Line'
    <3>1. CASE Pending(s.id) /\ Promote(r, s)
      <4> DEFINE i == s.id
                 q == [row[i] EXCEPT !.promoted = head + 1]
      <4>1. i \in Ids /\ row[i] \in Rows /\ head \in Nat
        BY <3>1, SelectedType, StoredRow DEF Pending, OInv, TypeOK
      <4>2. /\ q \in Rows /\ q.admitted = row[i].admitted /\ q.data = row[i].data
            /\ q.delivery = row[i].delivery /\ q.promoted # 0
        BY <4>1 DEF Rows
      <4>3. Commit(i, q) /\ UNCHANGED <<cutoff, edited>>
        BY <2>4, <3>1 DEF PublishPrompted, Promote, history
      <4>4. \A z \in Runners : /\ selected'[z] \subseteq selected[z]
                               /\ \A t \in selected[z] : t \in selected'[z] \/ t.id = i
        BY <3>1 DEF Promote, OInv, TypeOK
      <4> HIDE DEF i, q
      <4>5. QED
        BY <4>1, <4>2, <4>3, <4>4, LineLeft
    <3>2. CASE Rollback /\ UNCHANGED selected
      BY <2>4, <3>2, <1>1 DEF PublishPrompted, Rollback, Store, history
    <3>3. QED
      BY <2>4, <3>1, <3>2 DEF PublishPrompted
  <2>5. ASSUME NEW s \in selected[r], Recheck(r, s) PROVE Line'
    <3>1. CASE ~Pending(s.id) \/ row[s.id].admitted # s.row.admitted \/ ~Matches(s)
      BY <2>5, <3>1, LineMoved DEF Recheck, Store
    <3>2. CASE ~(~Pending(s.id) \/ row[s.id].admitted # s.row.admitted \/ ~Matches(s))
      <4>1. \A z \in Runners : selected'[z] = {} \/ selected'[z] = selected[z]
        BY <2>5, <3>2 DEF Recheck, OInv, TypeOK
      <4>2. QED
        BY <2>5, <4>1, LineKept DEF Recheck, Store, OInv
    <3>3. QED
      BY <3>1, <3>2
  <2>6. CASE \/ Drain(r) \/ PeekSteer(r) \/ PeekFollowUp(r) \/ Followed(r)
             \/ Answered(r) \/ CalledTools(r)
    BY <2>6, <1>1 DEF Drain, PeekSteer, PeekFollowUp, Followed, Answered, CalledTools,
                      Store, history
  <2>7. QED
    BY <1>4, <2>1, <2>2, <2>3, <2>4, <2>5, <2>6 DEF Drains
<1>5. ASSUME NEW r \in Runners, Cut(r) PROVE Line'
  <2>1. \A z \in Runners : selected'[z] = {} \/ selected'[z] = selected[z]
    BY <1>5 DEF Cut, OInv, TypeOK
  <2>2. QED
    BY <1>5, <2>1, LineKept DEF Cut, Store, history, OInv
<1>6. ASSUME Crash PROVE Line'
  BY <1>6, LineKept DEF Crash, Store, history, OInv
<1>7. CASE UNCHANGED vars
  BY <1>7, <1>1 DEF vars, Store, turn, history
<1>8. QED
  BY <1>2, <1>3, <1>4, <1>5, <1>6, <1>7 DEF Next

LEMMA NextOInv == OInv /\ [Next]_vars => OInv'
BY NextType, NextClock, NextHeld, NextLine DEF OInv

(* The statement of OrderIsKept for one step.                              *)
InOrder ==
  \A e \in entries' \ entries, r \in Runners, j \in Ids :
    ( /\ selected[r] # selected'[r]
      /\ Pending(j) /\ row[j].delivery = row[e.id].delivery
      /\ row[j].admitted < row[e.id].admitted /\ row[e.id].admitted <= cutoff[r] )
    => edited[j] > cutoff[r]

(* Only a promotion says something; what comes first of a selection leaves *)
(* none behind that is due before it.                                      *)
LEMMA PromotesInOrder == OInv /\ [Next]_vars => InOrder
<1> SUFFICES ASSUME OInv, [Next]_vars PROVE InOrder
  OBVIOUS
<1>1. ASSUME entries' = entries PROVE InOrder
  BY <1>1 DEF InOrder
<1>2. ASSUME NEW z \in Runners, NEW s \in selected[z], PublishPrompted(z, s),
             Pending(s.id), Matches(s), Promote(z, s)
      PROVE  InOrder
  <2> SUFFICES ASSUME NEW e \in entries' \ entries, NEW r \in Runners, NEW j \in Ids,
                      selected[r] # selected'[r],
                      Pending(j), row[j].delivery = row[e.id].delivery,
                      row[j].admitted < row[e.id].admitted,
                      row[e.id].admitted <= cutoff[r]
               PROVE  edited[j] > cutoff[r]
    BY DEF InOrder
  <2>1. r = z /\ e.id = s.id
    BY <1>2 DEF Promote, OInv, TypeOK
  <2>2. s.id \in Ids /\ s.row.admitted \in Nat /\ Aged(r, s) /\ NoneSkipped(r, s)
    BY <2>1, SelectedType DEF OInv, Line
  <2>3. row[s.id].admitted = s.row.admitted
    BY <2>1, <2>2, Numbers DEF Aged
  <2>4. Due(r, s, j)
    BY <1>2, <2>1, <2>3 DEF Due, Matches
  <2>5. ~Selected(r, j)
    <3> SUFFICES ASSUME NEW t \in selected[r], t.row.admitted = row[j].admitted
                 PROVE  FALSE
      BY DEF Selected
    <3>1. s.row.admitted <= t.row.admitted
      BY <1>2, <2>1 DEF PublishPrompted, First
    <3>2. QED
      BY <3>1, <2>1, <2>2, <2>3, Numbers
  <2>6. QED
    BY <2>2, <2>4, <2>5 DEF NoneSkipped
<1>3. ASSUME NEW r \in Runners, NEW s \in selected[r], PublishPrompted(r, s) PROVE InOrder
  BY <1>1, <1>2, <1>3 DEF PublishPrompted, Rollback
<1>4. ASSUME NEW c \in Clients, Asks(c) \/ Answers(c) PROVE InOrder
  BY <1>1, <1>4 DEF Asks, Cancel, Admit, Update, Answers, PublishAdmitted, Adopt,
                    PublishCancelled, PublishUpdated, Ring, Rollback
<1>5. ASSUME NEW r \in Runners, Drains(r) PROVE InOrder
  BY <1>1, <1>3, <1>5 DEF Drains, Drain, PeekSteer, PeekFollowUp, Open, SelectFollowUp,
                          SelectSteers, Followed, Answered, CalledTools, Recheck, Store
<1>6. CASE (\E r \in Runners : Cut(r)) \/ Crash \/ UNCHANGED vars
  BY <1>1, <1>6 DEF Cut, Crash, Store, vars
<1>7. QED
  BY <1>4, <1>5, <1>6 DEF Next

(* Prompts of one lane are promoted in the order of their admission,       *)
(* whatever clients edit, withdraw and admit again and however many drains *)
(* promote at once; only one edited since the turn opened may be overtaken *)
(* (inbox.ts:134).                                                         *)
THEOREM LanesKeepTheirOrder == Spec => OrderIsKept
<1>1. OInv /\ [Next]_vars => [InOrder]_vars
  BY PromotesInOrder
<1>2. Spec => []OInv
  BY InitOInv, NextOInv, PTL DEF Spec
<1>3. QED
  BY <1>1, <1>2, PTL DEF Spec, OrderIsKept, InOrder

-----------------------------------------------------------------------------
(* The inbox implements the queue: a commit of a projector is a step of    *)
(* it, and nothing else is.                                                *)

Item(i) == [id |-> i, data |-> row[i].data, lane |-> row[i].delivery,
            place |-> row[i].admitted]
Items == {Item(i) : i \in {j \in Ids : Pending(j)}}

LEMMA QueuedIsPending ==
  ASSUME NEW i \in Ids
  PROVE  Prompts!Queued(i) <=> Pending(i)
<1>1. Prompts!Queued(i) <=> \E w \in Items : w.id = i
  BY DEF Prompts!Queued, Items, Item
<1>2. \A w \in Items : \E j \in Ids : Pending(j) /\ w = Item(j) /\ w.id = j
  BY DEF Items, Item
<1>3. Pending(i) => Item(i) \in Items /\ Item(i).id = i
  BY DEF Items, Item
<1> QED BY <1>1, <1>2, <1>3

LEMMA WasSaidIsConversed ==
  ASSUME NEW i \in Ids
  PROVE  Prompts!WasSaid(i) <=> Conversed(i)
BY DEF Prompts!WasSaid, Conversed

(* A commit that takes a row out of the queue, or leaves it out.           *)
LEMMA CommitLeaves ==
  ASSUME TypeOK, NEW i \in Ids, NEW r \in Rows, Commit(i, r),
         r.promoted > 0 \/ r.cancelled > 0
  PROVE  Items' = Items \ {Item(i)}
<1>1. /\ row'[i] = r
      /\ \A j \in Ids : j # i => row'[j] = row[j]
  BY CommitRow
<1>2. \A j \in Ids : Pending(j)' <=> Pending(j) /\ j # i
  BY <1>1 DEF Pending, Stored, Rows
<1>3. \A j \in Ids : j # i => Item(j)' = Item(j) /\ Item(j) # Item(i)
  BY <1>1 DEF Item
<1>4. ASSUME NEW x PROVE x \in Items' <=> x \in Items \ {Item(i)}
  <2>1. ASSUME x \in Items' PROVE x \in Items \ {Item(i)}
    <3>1. PICK j \in Ids : Pending(j)' /\ x = Item(j)'
      BY <2>1 DEF Items
    <3> QED BY <3>1, <1>2, <1>3 DEF Items
  <2>2. ASSUME x \in Items \ {Item(i)} PROVE x \in Items'
    <3>1. PICK j \in Ids : Pending(j) /\ x = Item(j)
      BY <2>2 DEF Items
    <3>2. j # i
      BY <2>2, <3>1
    <3>3. Pending(j)' /\ x = Item(j)'
      BY <3>1, <3>2, <1>2, <1>3
    <3> QED BY <3>3 DEF Items
  <2> QED BY <2>1, <2>2
<1> QED BY <1>4

(* A commit that puts a row into the queue, or keeps it there.             *)
LEMMA CommitWaits ==
  ASSUME TypeOK, NEW i \in Ids, NEW r \in Rows, Commit(i, r),
         r.admitted > 0, r.promoted = 0, r.cancelled = 0
  PROVE  Items' = (Items \ {Item(i)})
           \cup {[id |-> i, data |-> r.data, lane |-> r.delivery,
                  place |-> r.admitted]}
<1>1. /\ row'[i] = r
      /\ \A j \in Ids : j # i => row'[j] = row[j]
  BY CommitRow
<1>2. \A j \in Ids : Pending(j)' <=> Pending(j) \/ j = i
  BY <1>1 DEF Pending, Stored
<1>3. \A j \in Ids : j # i => Item(j)' = Item(j) /\ Item(j) # Item(i)
  BY <1>1 DEF Item
<1>4. Item(i)' = [id |-> i, data |-> r.data, lane |-> r.delivery,
                  place |-> r.admitted]
  BY <1>1 DEF Item
<1>5. ASSUME NEW x
      PROVE  x \in Items' <=> x \in (Items \ {Item(i)}) \/ x = Item(i)'
  <2>1. ASSUME x \in Items' PROVE x \in (Items \ {Item(i)}) \/ x = Item(i)'
    <3>1. PICK j \in Ids : Pending(j)' /\ x = Item(j)'
      BY <2>1 DEF Items
    <3> QED BY <3>1, <1>2, <1>3 DEF Items
  <2>2. ASSUME x \in Items \ {Item(i)} PROVE x \in Items'
    <3>1. PICK j \in Ids : Pending(j) /\ x = Item(j)
      BY <2>2 DEF Items
    <3>2. Pending(j)' /\ x = Item(j)'
      BY <2>2, <3>1, <1>2, <1>3
    <3> QED BY <3>2 DEF Items
  <2>3. Item(i)' \in Items'
    BY <1>2 DEF Items
  <2> QED BY <2>1, <2>2, <2>3
<1> QED BY <1>4, <1>5

LEMMA PendingItem ==
  ASSUME NEW i \in Ids, Pending(i)
  PROVE  Item(i) \in Items
BY DEF Items

LEMMA AdmittedEnqueues ==
  ASSUME IInv, NEW c \in Clients, PublishAdmitted(c)
  PROVE  Prompts!Next \/ UNCHANGED Store
<1> DEFINE i == call[c].id
           r == Admitted(call[c].data, call[c].delivery)
<1>1. /\ call[c] \in Admissions /\ i \in Ids
      /\ call[c].data \in Data /\ call[c].delivery \in Deliveries
  BY DEF PublishAdmitted, IInv, TypeOK, Calls, Admissions, Changes, Idle, Wake
<1>2. CASE MayAdmit(i) /\ Commit(i, r) /\ UNCHANGED entries
  <2>1. /\ r \in Rows /\ r.admitted = head + 1 /\ r.admitted > 0
        /\ r.promoted = 0 /\ r.cancelled = 0
        /\ r.data = call[c].data /\ r.delivery = call[c].delivery
    BY <1>1 DEF Admitted, Rows, IInv, TypeOK
  <2>2. ~Pending(i) /\ ~Conversed(i)
    BY <1>1, <1>2 DEF MayAdmit, Pending, Stored, IInv, TypeOK, Rows, NoRow
  <2>3. Commit(i, r) /\ head' = head + 1 /\ UNCHANGED entries
    BY <1>2 DEF Commit
  <2>4. Item(i) \notin Items
    BY <1>1, <2>2 DEF Item, Items
  <2> HIDE DEF i, r
  <2>5. Items' = Items \cup {[id |-> i, data |-> r.data, lane |-> r.delivery,
                              place |-> head + 1]}
    BY <1>1, <2>1, <2>3, <2>4, CommitWaits DEF IInv
  <2>6. \E j \in Ids, d \in Data, v \in Deliveries : Prompts!Enqueue(j, d, v)
    BY <1>1, <2>1, <2>2, <2>3, <2>5, QueuedIsPending, WasSaidIsConversed
       DEF Prompts!Enqueue, Prompts!Tick, Items, Item
  <2> QED BY <2>6 DEF Prompts!Next
<1>3. CASE Rollback
  BY <1>3 DEF Rollback, Store
<1> QED BY <1>2, <1>3 DEF PublishAdmitted

LEMMA CancelledWithdraws ==
  ASSUME IInv, NEW c \in Clients, PublishCancelled(c)
  PROVE  Prompts!Next \/ UNCHANGED Store
<1> DEFINE i == call[c].id
           r == [row[i] EXCEPT !.cancelled = head + 1]
<1>1. i \in Ids
  BY DEF PublishCancelled, IInv, TypeOK, Calls, Admissions, Changes, Idle, Wake
<1>2. CASE Pending(i) /\ Withdraw(i) /\ UNCHANGED entries
  <2>1. row[i] \in Rows
    BY <1>1, <1>2, PendingIsNotSaid
  <2>2. r \in Rows /\ r.cancelled > 0
    BY <2>1 DEF Rows, IInv, TypeOK
  <2>3. Commit(i, r) /\ head' = head + 1
    BY <1>2 DEF Withdraw, Commit
  <2> HIDE DEF i, r
  <2>4. Items' = Items \ {Item(i)} /\ Item(i) \in Items
    BY <1>1, <1>2, <2>2, <2>3, CommitLeaves, PendingItem DEF IInv
  <2>5. \E w \in Items : Prompts!Withdraw(w)
    BY <1>2, <2>3, <2>4 DEF Prompts!Withdraw, Prompts!Tick, Items, Item
  <2> QED BY <2>5 DEF Prompts!Next, Items, Item
<1>3. CASE Rollback
  BY <1>3 DEF Rollback, Store
<1> QED BY <1>2, <1>3 DEF PublishCancelled

LEMMA UpdatedEdits ==
  ASSUME IInv, NEW c \in Clients, PublishUpdated(c)
  PROVE  Prompts!Next \/ UNCHANGED Store
<1> DEFINE i == call[c].id
           r == Patched(row[i], call[c])
<1>1. call[c] \in Changes /\ i \in Ids
  BY DEF PublishUpdated, IInv, TypeOK, Calls, Admissions, Changes, Idle, Wake
<1>2. CASE Pending(i) /\ Patches(i, call[c]) /\ UNCHANGED entries
  <2>1. /\ row[i] \in Rows /\ row[i].promoted = 0 /\ row[i].cancelled = 0
        /\ row[i].admitted > 0
    BY <1>1, <1>2, PendingIsNotSaid DEF Pending, Stored
  <2>2. /\ r \in Rows /\ r.admitted = row[i].admitted /\ r.admitted > 0
        /\ r.promoted = 0 /\ r.cancelled = 0
        /\ r.data \in Data /\ r.delivery \in Deliveries
    BY <1>1, <2>1, PatchedRow DEF Rows
  <2>3. Commit(i, r) /\ head' = head + 1
    BY <1>2 DEF Patches, Commit
  <2> HIDE DEF i, r
  <2>4. /\ Items' = (Items \ {Item(i)})
             \cup {[id |-> i, data |-> r.data, lane |-> r.delivery,
                    place |-> r.admitted]}
        /\ Item(i) \in Items
    BY <1>1, <1>2, <2>2, <2>3, CommitWaits, PendingItem DEF IInv
  <2>5. /\ Item(i).id = i /\ Item(i).place = row[i].admitted
        /\ head' = head + 1 /\ UNCHANGED entries
    BY <1>2, <2>3 DEF Item
  <2>6. /\ Items' = (Items \ {Item(i)})
             \cup {[id |-> Item(i).id, data |-> r.data, lane |-> r.delivery,
                    place |-> Item(i).place]}
        /\ Item(i) \in Items
    BY <2>2, <2>4, <2>5
  <2>7. \E w \in Items : \E d \in Data, v \in Deliveries :
          /\ head' = head + 1
          /\ Items' = (Items \ {w})
               \cup {[id |-> w.id, data |-> d, lane |-> v, place |-> w.place]}
          /\ UNCHANGED entries
    BY <2>2, <2>5, <2>6
  <2>8. \E w \in Items : \E d \in Data, v \in Deliveries : Prompts!Edit(w, d, v)
    BY <2>7, Zenon DEF Prompts!Edit, Prompts!Tick, Items, Item
  <2> QED BY <2>8 DEF Prompts!Next, Items, Item
<1>3. CASE Rollback
  BY <1>3 DEF Rollback, Store
<1> QED BY <1>2, <1>3 DEF PublishUpdated

LEMMA PromptedSays ==
  ASSUME IInv, NEW r \in Runners, NEW s \in selected[r], PublishPrompted(r, s)
  PROVE  Prompts!Next \/ UNCHANGED Store
<1> DEFINE i == s.id
           promoted == [row[i] EXCEPT !.promoted = head + 1]
<1>1. i \in Ids
  BY DEF IInv, TypeOK, Snapshots
<1>2. CASE Pending(i) /\ Matches(s) /\ Promote(r, s)
  <2>1. row[i] \in Rows
    BY <1>1, <1>2, PendingIsNotSaid
  <2>2. promoted \in Rows /\ promoted.promoted > 0
    BY <2>1 DEF Rows, IInv, TypeOK
  <2>3. /\ Commit(i, promoted) /\ head' = head + 1
        /\ entries' = entries \cup {[id |-> i, data |-> row[i].data, seq |-> head + 1]}
    BY <1>2 DEF Promote, Commit, Matches
  <2> HIDE DEF i, promoted
  <2>4. Items' = Items \ {Item(i)} /\ Item(i) \in Items
    BY <1>1, <1>2, <2>2, <2>3, CommitLeaves, PendingItem DEF IInv
  <2>5. \E w \in Items : Prompts!Say(w)
    BY <2>3, <2>4 DEF Prompts!Say, Prompts!Tick, Items, Item
  <2> QED BY <2>5 DEF Prompts!Next, Items, Item
<1>3. CASE Rollback
  BY <1>3 DEF Rollback, Store
<1> QED BY <1>2, <1>3 DEF PublishPrompted

LEMMA NextQueue ==
  IInv /\ [Next]_vars => [Prompts!Next]_(Prompts!queueVars)
<1> SUFFICES ASSUME IInv, [Next]_vars
             PROVE  Prompts!Next \/ UNCHANGED Store
  BY DEF Store, Prompts!queueVars, Pending, Stored
<1>1. ASSUME NEW c \in Clients, Asks(c) \/ Adopt(c) \/ Ring(c)
      PROVE  UNCHANGED Store
  BY <1>1 DEF Asks, Cancel, Admit, Update, Adopt, Ring, Store
<1>2. ASSUME NEW c \in Clients, Asks(c) \/ Answers(c)
      PROVE  Prompts!Next \/ UNCHANGED Store
  BY <1>1, <1>2, AdmittedEnqueues, CancelledWithdraws, UpdatedEdits DEF Answers
<1>3. ASSUME NEW r \in Runners,
             \/ Drain(r) \/ PeekSteer(r) \/ PeekFollowUp(r) \/ Open(r)
             \/ SelectFollowUp(r) \/ SelectSteers(r) \/ Followed(r)
             \/ Answered(r) \/ CalledTools(r) \/ Cut(r)
             \/ \E s \in selected[r] : Recheck(r, s)
      PROVE  UNCHANGED Store
  BY <1>3 DEF Drain, PeekSteer, PeekFollowUp, Open, SelectFollowUp,
              SelectSteers, Followed, Answered, CalledTools, Cut, Recheck, Store
<1>4. ASSUME NEW r \in Runners, Drains(r) \/ Cut(r)
      PROVE  Prompts!Next \/ UNCHANGED Store
  BY <1>3, <1>4, PromptedSays DEF Drains
<1>5. CASE Crash \/ UNCHANGED vars
  BY <1>5 DEF Crash, vars, Store
<1> QED BY <1>2, <1>4, <1>5 DEF Next

(* For any clients and drains, each event of the inbox is one step of a    *)
(* queue, and what callers read before it plays no part: nothing is said   *)
(* that does not wait, nor with another text than it reads then, and       *)
(* nothing waits that was said or withdrawn (inbox.ts:121-134, 212-242).   *)
THEOREM Refinement == Spec => ImplementsQueue
<1>1. Init => Prompts!Init
  BY DEF Init, NoRow, Pending, Stored, Prompts!Init
<1>2. IInv /\ [Next]_vars => [Prompts!Next]_(Prompts!queueVars)
  BY NextQueue
<1> QED BY <1>1, <1>2, Invariance, PTL
        DEF Spec, ImplementsQueue, Prompts!Spec

=============================================================================
