------------------------------ MODULE EventLog ------------------------------
(***************************************************************************)
(* The durable log of one aggregate and the streams that follow it         *)
(* (event/event.ts).                                                       *)
(*                                                                         *)
(* A commit takes the next sequence, runs the projectors and stores the    *)
(* row in one transaction of the one connection there is, so that nobody   *)
(* reads between them and a projector that rejects the event leaves        *)
(* nothing behind: that publish is no step here.  The wake of the          *)
(* followers is a step of its own, after it.                               *)
(*                                                                         *)
(* A follower's stream runs as its consumer pulls.  The consumer may close *)
(* it at any moment, and opens the next one after the last sequence it was *)
(* given, marker included.                                                 *)
(***************************************************************************)
EXTENDS Naturals, FiniteSets

CONSTANTS
  Events,      \* the events that may be published, by id
  Foreign,     \* those of a type the followers do not know
  Publishers,
  Followers,
  PageSize,    \* PAGE_SIZE
  MaxAdvance   \* bound: the head is advanced up to this sequence

ASSUME ForeignAssumption == Foreign \subseteq Events
ASSUME PageSizeAssumption == PageSize \in Nat \ {0}
ASSUME MaxAdvanceAssumption == MaxAdvance \in Nat

VARIABLES
  head,       \* table sequence
  rows,       \* table event
  publisher,  \* a publisher has stored its row, and not rung yet
  wakes,      \* the followers whose doorbell is registered
  rung,       \* their doorbells: one wake is kept, the others coalesce
  pc,         \* where each follower's stream is
  cursor,     \* its Ref
  from, through, page, more,  \* its pass: the next page, the bound, what was read
  synced,     \* its marker is out
  seen,       \* what its consumer resumes from
  delivered   \* history: the sequences its consumer was given

table == <<head, rows>>
pass == <<from, through, page, more>>
consumer == <<synced, seen, delivered>>
vars == <<table, publisher, wakes, rung, pc, cursor, pass, consumer>>

Stored(e) == \E r \in rows : r.event = e

(* What a follower can read: the rows of the types it knows.               *)
Known == {r.seq : r \in {x \in rows : x.event \notin Foreign}}
Window(after, upto) == {n \in Known : after < n /\ n <= upto}

(* The PageSize lowest.                                                    *)
Lowest(S) == {n \in S : Cardinality({k \in S : k < n}) < PageSize}

Greatest(S) == CHOOSE n \in S : \A k \in S : k <= n
Later(a, b) == IF a < b THEN b ELSE a

TypeOK ==
  /\ head \in Nat
  /\ rows \subseteq [seq : Nat \ {0}, event : Events]
  /\ publisher \in [Publishers -> {"idle", "stored"}]
  /\ wakes \subseteq Followers
  /\ rung \in [Followers -> BOOLEAN]
  /\ pc \in [Followers -> {"off", "opening", "paging", "emitting", "marking", "live",
                           "awake"}]
  /\ cursor \in [Followers -> Nat]
  /\ from \in [Followers -> Nat]
  /\ through \in [Followers -> Nat]
  /\ page \in [Followers -> SUBSET Nat]
  /\ more \in [Followers -> BOOLEAN]
  /\ synced \in [Followers -> BOOLEAN]
  /\ seen \in [Followers -> Nat]
  /\ delivered \in [Followers -> SUBSET Nat]
  /\ \A f \in Followers : Cardinality(page[f]) <= PageSize

Init ==
  /\ head = 0 /\ rows = {}
  /\ publisher = [p \in Publishers |-> "idle"]
  /\ wakes = {}
  /\ rung = [f \in Followers |-> FALSE]
  /\ pc = [f \in Followers |-> "off"]
  /\ cursor = [f \in Followers |-> 0]
  /\ from = [f \in Followers |-> 0]
  /\ through = [f \in Followers |-> 0]
  /\ page = [f \in Followers |-> {}]
  /\ more = [f \in Followers |-> FALSE]
  /\ synced = [f \in Followers |-> FALSE]
  /\ seen = [f \in Followers |-> 0]
  /\ delivered = [f \in Followers |-> {}]

-----------------------------------------------------------------------------
(* The publishers.                                                         *)

(* An id is published once: the second time is a defect, and rolled back.  *)
Publish(p, e) ==
  /\ publisher[p] = "idle" /\ ~Stored(e)
  /\ head' = head + 1
  /\ rows' = rows \cup {[seq |-> head + 1, event |-> e]}
  /\ publisher' = [publisher EXCEPT ![p] = "stored"]
  /\ UNCHANGED <<wakes, rung, pc, cursor, pass, consumer>>

(* Faulty: a wake is for a follower that waits for one.                    *)
WakeLive(p) ==
  /\ publisher[p] = "stored"
  /\ rung' = [f \in Followers |-> rung[f] \/ (f \in wakes /\ pc[f] = "live")]
  /\ publisher' = [publisher EXCEPT ![p] = "idle"]
  /\ UNCHANGED <<table, wakes, pc, cursor, pass, consumer>>

WakeFollowers(p) ==
  /\ publisher[p] = "stored"
  /\ rung' = [f \in Followers |-> rung[f] \/ f \in wakes]
  /\ publisher' = [publisher EXCEPT ![p] = "idle"]
  /\ UNCHANGED <<table, wakes, pc, cursor, pass, consumer>>

(* Faulty: the head is set, not raised.                                    *)
AdvanceBlind(n) ==
  /\ head' = n
  /\ UNCHANGED <<rows, publisher, wakes, rung, pc, cursor, pass, consumer>>

(* A fork reserves the prefix it inherits: no row, and no wake.            *)
Advance(n) ==
  /\ head' = Later(head, n)
  /\ UNCHANGED <<rows, publisher, wakes, rung, pc, cursor, pass, consumer>>

-----------------------------------------------------------------------------
(* A follower: log({ after, follow: true }).                               *)

Goto(f, l) == pc' = [pc EXCEPT ![f] = l]

(* The doorbell is registered before the head is read.                     *)
Follow(f) ==
  /\ pc[f] = "off"
  /\ wakes' = wakes \cup {f}
  /\ cursor' = [cursor EXCEPT ![f] = seen[f]]
  /\ Goto(f, "opening")
  /\ UNCHANGED <<table, publisher, rung, pass, consumer>>

(* A pass over what lies between the cursor and the head as it is now.     *)
Pass(f) ==
  /\ through' = [through EXCEPT ![f] = head]
  /\ from' = [from EXCEPT ![f] = cursor[f]]
  /\ Goto(f, "paging")
  /\ UNCHANGED <<page, more>>

ReadHead(f) ==
  /\ pc[f] = "opening"
  /\ Pass(f)
  /\ UNCHANGED <<table, publisher, wakes, rung, cursor, consumer>>

(* Faulty: the next page starts after the row that told there is one.      *)
ReadPageSkips(f) ==
  LET window == Window(from[f], through[f])
      read == {n \in window : Cardinality({k \in window : k < n}) <= PageSize}
  IN /\ pc[f] = "paging"
     /\ page' = [page EXCEPT ![f] = Lowest(window)]
     /\ more' = [more EXCEPT ![f] = Cardinality(window) > PageSize]
     /\ from' = [from EXCEPT ![f] = IF window = {} THEN @ ELSE Greatest(read)]
     /\ Goto(f, "emitting")
     /\ UNCHANGED <<table, publisher, wakes, rung, cursor, through, consumer>>

ReadPage(f) ==
  LET window == Window(from[f], through[f])
  IN /\ pc[f] = "paging"
     /\ page' = [page EXCEPT ![f] = Lowest(window)]
     /\ more' = [more EXCEPT ![f] = Cardinality(window) > PageSize]
     /\ from' = [from EXCEPT ![f] = IF window = {} THEN @ ELSE Greatest(Lowest(window))]
     /\ Goto(f, "emitting")
     /\ UNCHANGED <<table, publisher, wakes, rung, cursor, through, consumer>>

Emit(f) ==
  /\ pc[f] = "emitting"
  /\ \E n \in page[f] :
       /\ \A k \in page[f] : n <= k
       /\ cursor' = [cursor EXCEPT ![f] = n]
       /\ seen' = [seen EXCEPT ![f] = n]
       /\ delivered' = [delivered EXCEPT ![f] = @ \cup {n}]
       /\ page' = [page EXCEPT ![f] = @ \ {n}]
  /\ UNCHANGED <<table, publisher, wakes, rung, pc, from, through, more, synced>>

NextPage(f) ==
  /\ pc[f] = "emitting" /\ page[f] = {} /\ more[f]
  /\ Goto(f, "paging")
  /\ UNCHANGED <<table, publisher, wakes, rung, cursor, pass, consumer>>

(* A finished pass leaves the cursor at its bound, rows or no rows.        *)
EndPass(f) ==
  /\ pc[f] = "emitting" /\ page[f] = {} /\ ~more[f]
  /\ cursor' = [cursor EXCEPT ![f] = Later(@, through[f])]
  /\ Goto(f, IF synced[f] THEN "live" ELSE "marking")
  /\ UNCHANGED <<table, publisher, wakes, rung, pass, consumer>>

(* The marker carries the head that was read first, if there was one.      *)
Mark(f) ==
  /\ pc[f] = "marking"
  /\ synced' = [synced EXCEPT ![f] = TRUE]
  /\ seen' = [seen EXCEPT ![f] = Later(@, through[f])]
  /\ Goto(f, "live")
  /\ UNCHANGED <<table, publisher, wakes, rung, cursor, pass, delivered>>

TakeWake(f) ==
  /\ pc[f] = "live" /\ rung[f]
  /\ rung' = [rung EXCEPT ![f] = FALSE]
  /\ Goto(f, "awake")
  /\ UNCHANGED <<table, publisher, wakes, cursor, pass, consumer>>

(* A wake for what the last pass has read already leads to nothing.        *)
Target(f) ==
  /\ pc[f] = "awake"
  /\ \/ head > cursor[f] /\ Pass(f)
     \/ head <= cursor[f] /\ Goto(f, "live") /\ UNCHANGED pass
  /\ UNCHANGED <<table, publisher, wakes, rung, cursor, consumer>>

(* The scope of the streams of S closes, and what they held is gone.       *)
Drop(S) ==
  /\ wakes' = wakes \ S
  /\ rung' = [f \in Followers |-> f \notin S /\ rung[f]]
  /\ pc' = [f \in Followers |-> IF f \in S THEN "off" ELSE pc[f]]
  /\ cursor' = [f \in Followers |-> IF f \in S THEN 0 ELSE cursor[f]]
  /\ from' = [f \in Followers |-> IF f \in S THEN 0 ELSE from[f]]
  /\ through' = [f \in Followers |-> IF f \in S THEN 0 ELSE through[f]]
  /\ page' = [f \in Followers |-> IF f \in S THEN {} ELSE page[f]]
  /\ more' = [f \in Followers |-> f \notin S /\ more[f]]
  /\ synced' = [f \in Followers |-> f \notin S /\ synced[f]]
  /\ UNCHANGED <<table, seen, delivered>>

Close(f) == pc[f] # "off" /\ Drop({f}) /\ UNCHANGED publisher

(* The process dies: the table stays, and the consumers' positions.        *)
Crash == Drop(Followers) /\ publisher' = [p \in Publishers |-> "idle"]

-----------------------------------------------------------------------------

Reads(f) ==
  \/ ReadHead(f) \/ ReadPage(f) \/ Emit(f) \/ NextPage(f) \/ EndPass(f)
  \/ Mark(f) \/ TakeWake(f) \/ Target(f)

Next ==
  \/ \E p \in Publishers : WakeFollowers(p) \/ \E e \in Events : Publish(p, e)
  \/ \E n \in 1..MaxAdvance : Advance(n)
  \/ \E f \in Followers : Follow(f) \/ Reads(f) \/ Close(f)
  \/ Crash

(* A commit and its wake are uninterruptible, and a consumer that keeps    *)
(* its stream open pulls.  Nobody need publish.                            *)
Spec ==
  /\ Init /\ [][Next]_vars
  /\ \A p \in Publishers : WF_vars(WakeFollowers(p))
  /\ \A f \in Followers : WF_vars(Reads(f))

-----------------------------------------------------------------------------
(* Properties.                                                             *)

(* A sequence is handed out once, whatever is reserved in between, and an  *)
(* id is stored once (event.ts:551, event.ts:114).                         *)
SequencesAreUnique ==
  \A r, s \in rows : r.seq = s.seq \/ r.event = s.event => r = s

(* What a consumer takes for its position is a whole prefix of the log:    *)
(* neither a page, a pass, the marker nor a resumed stream leaves out a    *)
(* row at or before it (event.ts:153-158).                                 *)
SeenIsWhole ==
  \A f \in Followers : \A n \in Known : n <= seen[f] => n \in delivered[f]

Stream == INSTANCE Feed WITH
            log <- rows, next <- head, position <- seen, given <- delivered

(* The log with its streams implements the feed: every id is stored once,  *)
(* under a sequence of its own; a consumer gets the rows one by one in     *)
(* their order and none twice, although it closes its stream, the process  *)
(* dies, and rows are committed while it reads; and no page, marker or     *)
(* resumed stream moves its position over a row it was not given           *)
(* (event.ts:153-158, event.ts:551).                                       *)
ImplementsFeed == Stream!Spec

(* A commit that lands while a follower opens, replays or reads is not     *)
(* lost to it: it is inside the window of a pass, or a wake is waiting     *)
(* (event.ts:652-654).                                                     *)
EveryRowIsFollowed ==
  \A f \in Followers : \A n \in 1..(MaxAdvance + Cardinality(Events)) :
    n \in Known /\ pc[f] # "off" ~> n \in delivered[f] \/ pc[f] = "off"
=============================================================================
