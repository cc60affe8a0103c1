----------------------------- MODULE StoreSync -----------------------------
(***************************************************************************)
(* The copy a desktop server keeps of the store of a CodeWork server.      *)
(*                                                                         *)
(* Every transaction of the store takes one revision and gives it to the   *)
(* rows it writes (harness/src/db/store.ts); a deleted session leaves a    *)
(* tombstone at the revision that deleted it. `index.sync` pages through   *)
(* the rows in the order of revision and key, then says `Synced` at the    *)
(* head the round began with, and again after each commit                  *)
(* (codework/src/server/rows.ts, harness/src/effect/sync.ts). The client   *)
(* applies what came up to each `Synced` in one transaction and keeps the  *)
(* revision as its cursor (apps/server/src/sync.ts, mirror.ts).            *)
(*                                                                         *)
(* Connections drop, the client restarts, and the store itself is swapped: *)
(* for a new one, with another id, or for a backup of itself, with the     *)
(* same id and a lower revision.                                           *)
(*                                                                         *)
(* Projects and spaces are rows like sessions that are never deleted, and  *)
(* are left out, as is the detail of a thread.                             *)
(***************************************************************************)
EXTENDS Integers, Sequences, FiniteSets, Functions

CONSTANTS
  NSessions,   \* sessions are the rows 1 .. NSessions
  Parent,      \* the sessions of the threads, which are the rows after them
  PageSize,    \* rows per page
  MaxRev,      \* bound: revisions of a store
  MaxSwaps,    \* bound: times the store is swapped
  MaxDrops     \* bound: connections lost, or restarts of the client

ASSUME SessionsAssumption == NSessions \in Nat \ {0}
ASSUME ParentAssumption   == Parent \in Seq(1 .. NSessions)
ASSUME PageAssumption     == PageSize \in Nat \ {0}
ASSUME BoundsAssumption   == {MaxRev, MaxSwaps, MaxDrops} \subseteq Nat

VARIABLES
  store,    \* the database of the server
  backup,   \* a copy of it, or the empty set
  unrung,   \* a transaction has committed and not rung the doorbell yet
  feed,     \* the stream of `index.sync` on the server
  bell,     \* its doorbell
  batch,    \* rows sent that no `Synced` follows yet
  due,      \* batches with their `Synced`, not applied yet
  link,     \* the connection: idle, asked or following
  full,     \* the next batch is of a full read
  cursor, storeId, copy,   \* the copy, durable
  origin,   \* history: the line of revisions the copy was read from, and
            \* the head it had by then
  overlooked, \* history: the client has gone on over another database that
              \* it could not tell from the one it read
  shared,   \* history: up to which revision a line has the rows of another
  drops     \* bounded by MaxDrops

db    == <<store, backup, unrung, shared>>
wire  == <<feed, bell, batch, due>>
read  == <<cursor, storeId, copy, origin>>
kept  == <<read, overlooked>>
syncVars == <<db, wire, link, full, kept, drops>>

----------------------------------------------------------------------------
(* The rows. Tombstones come before sessions, and sessions before threads, *)
(* in the order of the keys `removed`, `session`, `thread`.                *)

Sessions  == 1 .. NSessions
Threads   == NSessions + 1 .. NSessions + Len(Parent)
Rows      == Sessions \cup Threads
SessionOf(t) == Parent[t - NSessions]
Owner(r) == IF r \in Threads THEN SessionOf(r) ELSE r
Tombstone(s) == s - NSessions
LastKey   == NSessions + Len(Parent)

Lines   == 1 .. 1 + MaxSwaps
Mixed   == -1

(* A row, or a tombstone, at the revision that wrote it last. The line     *)
(* tells two writes at one revision apart, on either side of a restore.    *)
Never   == [rev |-> 0, line |-> 0]

Off == [phase |-> "off", sent |-> -1, from |-> <<0, 0>>]

(* A new database: its identity and revision 0.                            *)
Fresh(line) == [id |-> line, line |-> line, rev |-> 0,
                row  |-> [r \in Rows |-> Never],
                gone |-> [s \in Sessions |-> Never]]

SyncInit ==
  /\ store = Fresh(1)
  /\ backup = {}
  /\ unrung = FALSE
  /\ feed = Off
  /\ bell = FALSE
  /\ batch = {}
  /\ due = <<>>
  /\ link = "idle"
  /\ full = FALSE
  /\ cursor = 0
  /\ storeId = 0
  /\ copy = [r \in Rows |-> [at |-> Never, deleted |-> FALSE]]
  /\ origin = [line |-> 0, rev |-> 0]
  /\ overlooked = FALSE
  /\ shared = [l \in Lines |-> [a \in Lines |-> IF a = l THEN MaxRev ELSE 0]]
  /\ drops = 0

----------------------------------------------------------------------------
(* The store.                                                              *)

Present(r) == store.row[r].rev > 0
Next1   == [rev |-> store.rev + 1, line |-> store.line]

(* A transaction that writes the rows of `ws` at one new revision. Threads *)
(* are of sessions there are, and the id of a deleted session is not used  *)
(* again. The doorbell rings once it has committed.                        *)
Write(ws) ==
  /\ store.rev < MaxRev
  /\ \A t \in ws \cap Threads : Present(SessionOf(t)) \/ SessionOf(t) \in ws
  /\ \A s \in ws \cap Sessions : store.gone[s] = Never
  /\ store' = [store EXCEPT
       !.rev = @ + 1,
       !.row = [r \in Rows |-> IF r \in ws THEN Next1 ELSE @[r]]]
  /\ unrung' = TRUE
  /\ UNCHANGED <<backup, shared, wire, link, full, kept, drops>>

(* A session is deleted: its threads go with it, and a tombstone stays.    *)
RemoveSession(s) ==
  /\ store.rev < MaxRev
  /\ Present(s)
  /\ store' = [store EXCEPT
       !.rev = @ + 1,
       !.row = [r \in Rows |-> IF Owner(r) = s THEN Never ELSE @[r]],
       !.gone[s] = Next1]
  /\ unrung' = TRUE
  /\ UNCHANGED <<backup, shared, wire, link, full, kept, drops>>

(* Faulty: the doorbell of a stream that is reading is not heard.          *)
RingIfWaiting ==
  /\ unrung
  /\ unrung' = FALSE
  /\ bell' = (bell \/ feed.phase = "wait")
  /\ UNCHANGED <<store, backup, shared, feed, batch, due, link, full, kept,
                 drops>>

(* The doorbell keeps one wake for a stream that listens.                  *)
Ring ==
  /\ unrung
  /\ unrung' = FALSE
  /\ bell' = (feed.phase # "off")
  /\ UNCHANGED <<store, backup, shared, feed, batch, due, link, full, kept,
                 drops>>

(* A backup is taken.                                                      *)
BackUp ==
  /\ store.line <= MaxSwaps
  /\ store.rev > 0
  /\ backup = {}
  /\ backup' = {store}
  /\ UNCHANGED <<store, unrung, shared, wire, link, full, kept, drops>>

(* The server stops and starts on another database: its streams end. What  *)
(* the client has received of them is still there for it to apply. One     *)
(* that has asked does not notice: its socket reconnects by itself.        *)
Swap(new, before) ==
  /\ store.line <= MaxSwaps
  /\ store' = new
  /\ shared' = [shared EXCEPT ![new.line] =
       [before EXCEPT ![new.line] = MaxRev]]
  /\ unrung' = FALSE
  /\ feed' = Off
  /\ bell' = FALSE
  /\ overlooked' = (overlooked \/ link = "asked")
  /\ UNCHANGED <<batch, due, link, full, read, drops>>

(* A database created anew has another id (migrations.ts:20).              *)
Recreate ==
  /\ Swap(Fresh(store.line + 1), [a \in Lines |-> 0])
  /\ UNCHANGED backup

Smaller(m, n) == IF m < n THEN m ELSE n

(* A restored backup keeps its id, with a lower revision.                  *)
Restore ==
  \E old \in backup :
    /\ Swap([old EXCEPT !.line = store.line + 1],
            [a \in Lines |-> Smaller(shared[old.line][a], old.rev)])
    /\ backup' = {}

----------------------------------------------------------------------------
(* The stream of `index.sync` after a revision.                            *)

After(a, b) == a[1] > b[1] \/ (a[1] = b[1] /\ a[2] > b[2])

(* The rows and the tombstones of a database.                              *)
Items(S) == {[key |-> r, at |-> S.row[r]] : r \in Rows}
              \cup {[key |-> Tombstone(s), at |-> S.gone[s]] : s \in Sessions}

(* What a page can hold: what is past `from`, up to `upto`.                *)
InRange(from, upto) ==
  {i \in Items(store) :
     i.at.rev <= upto /\ After(<<i.at.rev, i.key>>, from)}

(* Its first PageSize rows, in the order of revision and key.              *)
FirstOf(items) ==
  {i \in items :
     Cardinality({j \in items :
       After(<<i.at.rev, i.key>>, <<j.at.rev, j.key>>)}) < PageSize}

(* A round reads the head, and is over at once if it has sent that one. It *)
(* pages from where the stream, or the round before it, left off.          *)
Round ==
  /\ feed.phase = "ready"
  /\ IF store.rev = feed.sent
     THEN feed' = [feed EXCEPT !.phase = "wait"]
     ELSE feed' = [feed EXCEPT !.phase = "paging", !.sent = store.rev]
  /\ UNCHANGED <<db, bell, batch, due, link, full, kept, drops>>

(* Faulty: the next page starts past the revision of the row.              *)
PastRevision(i) == <<i.at.rev, LastKey>>

(* Where the page after the row `i` starts.                                *)
Past(i) == <<i.at.rev, i.key>>

(* One page, read in a transaction; the last, which is not full, is        *)
(* followed by `Synced` at the head of the round.                          *)
Page ==
  LET items == FirstOf(InRange(feed.from, feed.sent))
      last  == CHOOSE i \in items :
                 \A j \in items \ {i} :
                   After(<<i.at.rev, i.key>>, <<j.at.rev, j.key>>)
  IN
  /\ feed.phase = "paging"
  /\ due = <<>>
  /\ IF Cardinality(items) = PageSize
     THEN /\ batch' = batch \cup items
          /\ feed' = [feed EXCEPT !.from = Past(last)]
          /\ UNCHANGED due
     ELSE /\ batch' = {}
          /\ due' = <<[rows |-> batch \cup items, rev |-> feed.sent,
                       id |-> store.id,
                       read |-> [line |-> store.line, rev |-> store.rev]]>>
          /\ feed' = [feed EXCEPT !.phase = "wait",
                                  !.from = <<feed.sent, LastKey>>]
  /\ UNCHANGED <<db, bell, link, full, kept, drops>>

Hear ==
  /\ feed.phase = "wait"
  /\ bell
  /\ bell' = FALSE
  /\ feed' = [feed EXCEPT !.phase = "ready"]
  /\ UNCHANGED <<db, batch, due, link, full, kept, drops>>

----------------------------------------------------------------------------
(* The client.                                                             *)

(* All the copy was read from is there in a line of revisions too. That    *)
(* this is so up to the cursor is not enough: a row overtaken while the    *)
(* pages were read is not in the copy, and is back in a restored store.    *)
GoesOnIn(line) ==
  origin.line \notin {0, Mixed} /\ shared[line][origin.line] >= origin.rev

(* Neither id nor revision tells that the store does not go on where the   *)
(* copy was read.                                                          *)
Overlooks ==
  origin.line # 0 /\ ~GoesOnIn(store.line)
    /\ store.id = storeId /\ store.rev >= cursor

(* Faulty: the revision is not looked at.                                  *)
NeedsFullOfAnother == store.id # storeId
(* A full read is needed of another store, or of one behind the cursor.    *)
NeedsFull == store.id # storeId \/ store.rev < cursor

(* `server.info`, against the row of the machine.                          *)
Ask ==
  /\ link = "idle"
  /\ link' = "asked"
  /\ full' = NeedsFull
  /\ overlooked' = (overlooked \/ Overlooks)
  /\ UNCHANGED <<db, wire, read, drops>>

(* `index.sync`. Its doorbell is there before the first head is read.      *)
Subscribe ==
  /\ link = "asked"
  /\ link' = "following"
  /\ feed' = [Off EXCEPT !.phase = "ready",
                         !.from = <<IF full THEN 0 ELSE cursor, LastKey>>]
  /\ bell' = FALSE
  /\ batch' = {}
  /\ due' = <<>>
  /\ UNCHANGED <<db, full, kept, drops>>

(* The copy after a batch: its rows as they are, a removed session with    *)
(* its threads deleted and, after a full read, all it did not bring.       *)
Applied(b) ==
  LET sent(r)    == {i \in b.rows : i.key = r}
      removed(s) == \E i \in b.rows : i.key = Tombstone(s)
  IN  [r \in Rows |->
         CASE sent(r) # {} -> [at |-> (CHOOSE i \in sent(r) : TRUE).at,
                               deleted |-> FALSE]
           [] sent(r) = {} /\ copy[r].at # Never ->
                [copy[r] EXCEPT !.deleted = @ \/ removed(Owner(r)) \/ full]
           [] OTHER -> copy[r]]

(* The foreign key of a thread, checked when the transaction commits.      *)
Consistent(c) ==
  \A t \in Threads : c[t].at # Never => c[SessionOf(t)].at # Never

(* The transaction that applies a batch.                                   *)
Apply ==
  \E b \in Range(due) :
    /\ Consistent(Applied(b))
    /\ copy' = Applied(b)
    /\ cursor' = b.rev
    /\ storeId' = b.id
    /\ full' = FALSE
    /\ overlooked' = (overlooked /\ ~full)
    /\ origin' = IF full \/ GoesOnIn(b.read.line)
                 THEN b.read ELSE [b.read EXCEPT !.line = Mixed]
    /\ due' = <<>>
    /\ UNCHANGED <<db, feed, bell, batch, link, drops>>

(* The connection is made again: nothing of the old one is applied.        *)
Disconnect ==
  /\ link' = "idle"
  /\ full' = FALSE
  /\ feed' = Off
  /\ bell' = FALSE
  /\ batch' = {}
  /\ due' = <<>>
  /\ UNCHANGED <<db, kept>>

(* A batch that cannot be applied ends the connection.                     *)
Reject ==
  /\ \E b \in Range(due) : ~Consistent(Applied(b))
  /\ Disconnect
  /\ UNCHANGED drops

(* The client finds that the stream has ended.                             *)
Lost ==
  /\ link = "following"
  /\ feed.phase = "off"
  /\ Disconnect
  /\ UNCHANGED drops

(* The connection is lost, or the client restarts.                         *)
Drop ==
  /\ link # "idle"
  /\ drops < MaxDrops
  /\ drops' = drops + 1
  /\ Disconnect

----------------------------------------------------------------------------
SyncNext ==
  \/ \E ws \in SUBSET Rows \ {{}} : Write(ws)
  \/ \E s \in Sessions : RemoveSession(s)
  \/ Ring \/ BackUp \/ Recreate \/ Restore
  \/ Round \/ Page \/ Hear
  \/ Ask \/ Subscribe \/ Apply \/ Reject \/ Lost \/ Drop

(* What the fibers of the server and of the client do on their own. The    *)
(* bounds end the writes, the swaps and the drops.                         *)
Fairness ==
  /\ WF_syncVars(Ring) /\ WF_syncVars(Round) /\ WF_syncVars(Page)
  /\ WF_syncVars(Hear) /\ WF_syncVars(Ask) /\ WF_syncVars(Subscribe)
  /\ WF_syncVars(Apply) /\ WF_syncVars(Reject) /\ WF_syncVars(Lost)

SyncSpec == SyncInit /\ [][SyncNext]_syncVars /\ Fairness

----------------------------------------------------------------------------
(* What `Synced` promises (contract.ts:172, mirror.ts): up to the cursor   *)
(* the copy is the store. A row last written by then is in the copy as it  *)
(* is; a session deleted by then is deleted in the copy with its threads,  *)
(* and so is what only an earlier store, or a future that was taken back,  *)
(* had. Commits, pages, swaps and drops may come in any order.             *)
CopyIsCurrent ==
  GoesOnIn(store.line) =>
    \A r \in Rows :
      LET at == store.row[r]
      IN  /\ at.rev \in 1 .. cursor => copy[r] = [at |-> at, deleted |-> FALSE]
          /\ at = Never /\ store.gone[Owner(r)].rev <= cursor =>
               copy[r].at = Never \/ copy[r].deleted

(* A copy that is left to catch up has what the store has at last, by the  *)
(* doorbell and by connecting again (rows.ts:15-19, sync.ts:304-322), and  *)
(* "a new or restored store is read again from zero" (sync.ts:46) if its   *)
(* id or its revision tells it from the one that was read.                 *)
InSync ==
  /\ cursor = store.rev
  /\ \A r \in Rows :
       IF Present(r) THEN copy[r] = [at |-> store.row[r], deleted |-> FALSE]
                     ELSE copy[r].at = Never \/ copy[r].deleted

CatchesUp == <>[](overlooked \/ InSync)

(* "A new or restored store is read again from zero" (sync.ts:46): a       *)
(* client that follows a store and has been told its head has what the     *)
(* store has, whatever was swapped before.                                 *)
RestoredIsReread ==
  link = "following" /\ feed.phase = "wait" /\ due = <<>>
    /\ cursor = store.rev =>
      \A r \in Rows :
        Present(r) => copy[r] = [at |-> store.row[r], deleted |-> FALSE]
============================================================================
