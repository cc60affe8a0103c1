--------------------------- MODULE EventLogProofs ---------------------------
(***************************************************************************)
(* What module EventLog promises a consumer of the log, for any events,    *)
(* publishers and followers, any size of a page, and any prefix reserved.  *)
(*                                                                         *)
(* That what a consumer has seen is whole is not inductive: the cursor     *)
(* runs ahead of it when a pass ends, and a page holds rows that are read  *)
(* and not given.  Follows says of each stage of a stream where the rows   *)
(* are that its consumer still lacks: on the page, or after `from` if      *)
(* there is another.  Everything a stream has ever read is at or below the *)
(* head, and a row is born above it (Table), so a commit disturbs nobody.  *)
(***************************************************************************)
EXTENDS EventLog, FiniteSetTheorems, WellFoundedInduction, TLAPS

(* No row is above the head of the sequence.                               *)
Table == /\ \A r \in rows : r.seq <= head
         /\ SequencesAreUnique

(* Every row up to n was given to the consumer of f.                       *)
Given(f, n) == \A k \in Known : k <= n => k \in delivered[f]

Seen(f) == /\ seen[f] <= head
           /\ Given(f, seen[f])
           /\ \A k \in delivered[f] : k <= seen[f]

Opened(f) == pc[f] # "off" =>
  /\ seen[f] <= cursor[f] /\ cursor[f] <= head
  /\ Given(f, cursor[f])

Paging(f) == pc[f] \in {"paging", "emitting"} =>
  cursor[f] <= from[f] /\ from[f] <= through[f] /\ through[f] <= head

NextRead(f) == pc[f] = "paging" => Given(f, from[f])

OnPage(f) == pc[f] = "emitting" =>
  /\ \A k \in page[f] : k \in Known /\ cursor[f] < k /\ k <= from[f]
  /\ \A k \in Known : k <= through[f] =>
       k \in delivered[f] \/ k \in page[f] \/ (more[f] /\ from[f] < k)

AtBound(f) == pc[f] = "marking" => through[f] <= cursor[f]

Follows(f) == /\ Seen(f) /\ Opened(f) /\ Paging(f)
              /\ NextRead(f) /\ OnPage(f) /\ AtBound(f)

PagesAreFinite == \A f \in Followers : IsFiniteSet(page[f])

IInv == TypeOK /\ PagesAreFinite /\ Table /\ \A f \in Followers : Follows(f)

-----------------------------------------------------------------------------
(* Sets of sequences, and the page that is read of one.                    *)

LEMMA LeastExists ==
  ASSUME NEW S \in SUBSET Nat, S # {}
  PROVE  \E m \in S : \A k \in S : m <= k
<1>1. PICK m \in S : \A k \in S : ~ (<<k, m>> \in OpToRel(<, Nat))
  BY NatLessThanWellFounded, WFMin
<1>2. \A k \in S : ~ (k < m)
  BY <1>1 DEF OpToRel
<1>3. QED
  BY <1>2

(* The least of the bounds of a set is in it.                              *)
LEMMA GreatestExists ==
  ASSUME NEW S \in SUBSET Nat, NEW h \in Nat, \A k \in S : k <= h, S # {}
  PROVE  /\ Greatest(S) \in S
         /\ \A k \in S : k <= Greatest(S)
<1> DEFINE B == {b \in Nat : \A k \in S : k <= b}
<1>1. B \in SUBSET Nat /\ h \in B
  OBVIOUS
<1>2. PICK m \in B : \A b \in B : m <= b
  BY <1>1, LeastExists
<1>3. m \in S
  <2>1. SUFFICES ASSUME m \notin S PROVE FALSE
    OBVIOUS
  <2>2. \A k \in S : k < m
    BY <1>2, <2>1
  <2>3. m # 0
    <3>1. PICK k \in S : TRUE
      OBVIOUS
    <3>2. k \in Nat /\ k < m
      BY <2>2, <3>1
    <3>3. QED
      BY <3>2
  <2>4. m - 1 \in B
    BY <1>2, <2>2, <2>3
  <2>5. QED
    BY <1>2, <2>4
<1>4. \E n \in S : \A k \in S : k <= n
  BY <1>2, <1>3
<1>5. QED
  BY <1>4 DEF Greatest

(* A page: at most PageSize of the set, before all others, and none only   *)
(* if there is none.  What is left over means that there is more.          *)
LEMMA LowestPage ==
  ASSUME NEW S \in SUBSET Nat, NEW h \in Nat, \A k \in S : k <= h
  PROVE  /\ IsFiniteSet(S) /\ IsFiniteSet(Lowest(S))
         /\ Lowest(S) \subseteq S
         /\ Cardinality(Lowest(S)) <= PageSize
         /\ S # {} => Lowest(S) # {}
         /\ \A n \in S \ Lowest(S) : \A m \in Lowest(S) : m < n
         /\ S \ Lowest(S) # {} => Cardinality(S) > PageSize
<1> DEFINE Below(n) == {k \in S : k < n}
<1>0. \A k \in S : k \in Nat
  OBVIOUS
<1>1. IsFiniteSet(S)
  BY FS_BoundedSetOfNaturals
<1>2. \A n \in S : IsFiniteSet(Below(n)) /\ Cardinality(Below(n)) \in Nat
  <2>1. TAKE n \in S
  <2>2. Below(n) \in SUBSET S
    OBVIOUS
  <2>3. IsFiniteSet(Below(n))
    BY <1>1, <2>2, FS_Subset
  <2>4. QED
    BY <2>3, FS_CardinalityType
<1>3. PageSize \in Nat /\ PageSize > 0
  BY PageSizeAssumption
<1>4. Lowest(S) = {n \in S : Cardinality(Below(n)) < PageSize}
  BY DEF Lowest
<1>5. Lowest(S) \subseteq S /\ IsFiniteSet(Lowest(S))
  BY <1>1, <1>4, FS_Subset
<1>6. S # {} => Lowest(S) # {}
  <2>1. SUFFICES ASSUME S # {} PROVE Lowest(S) # {}
    OBVIOUS
  <2>2. PICK m \in S : \A k \in S : m <= k
    BY <2>1, LeastExists
  <2>3. Below(m) = {}
    <3>1. \A k \in S : k \in Nat /\ m \in Nat /\ m <= k
      BY <2>2
    <3>2. \A k \in S : ~ (k < m)
      BY <3>1
    <3>3. QED
      BY <3>2
  <2>4. Cardinality(Below(m)) = 0
    BY <2>3, FS_EmptySet
  <2>5. QED
    BY <1>3, <1>4, <2>4
<1>7. \A n \in S \ Lowest(S) : \A m \in Lowest(S) : m < n
  <2>1. SUFFICES ASSUME NEW n \in S \ Lowest(S), NEW m \in Lowest(S), ~ (m < n)
                 PROVE FALSE
    OBVIOUS
  <2>2. m \in S /\ n \in S
    BY <1>5, <2>1
  <2>. m \in Nat /\ n \in Nat /\ n <= m
    BY <1>0, <2>1, <2>2
  <2>3. Below(n) \in SUBSET Below(m)
    <3>1. \A k \in S : k < n => k < m
      BY <1>0
    <3>2. QED
      BY <3>1
  <2>4. Cardinality(Below(n)) <= Cardinality(Below(m))
    BY <1>2, <2>2, <2>3, FS_Subset
  <2>5. Cardinality(Below(m)) < PageSize
    BY <1>4
  <2>6. Cardinality(Below(n)) < PageSize
    BY <1>2, <1>3, <2>2, <2>4, <2>5
  <2>7. QED
    BY <1>4, <2>1, <2>2, <2>6
<1>8. Cardinality(Lowest(S)) <= PageSize
  <2>1. CASE Lowest(S) = {}
    BY <1>3, <2>1, FS_EmptySet
  <2>2. CASE Lowest(S) # {}
    <3> DEFINE m == Greatest(Lowest(S))
    <3>1. m \in Lowest(S) /\ \A k \in Lowest(S) : k <= m
      BY <1>5, <2>2, GreatestExists
    <3> HIDE DEF m
    <3> m \in S /\ m \in Nat
      BY <1>0, <1>5, <3>1
    <3>2. Lowest(S) \in SUBSET (Below(m) \cup {m})
      <4>1. \A k \in Lowest(S) : k \in S /\ (k < m \/ k = m)
        BY <1>0, <1>5, <3>1
      <4>2. QED
        BY <4>1
    <3>3. m \notin Below(m) /\ IsFiniteSet(Below(m))
      <4>1. ~ (m < m)
        OBVIOUS
      <4>2. QED
        BY <1>2, <4>1
    <3>4. /\ IsFiniteSet(Below(m) \cup {m})
          /\ Cardinality(Below(m) \cup {m}) = Cardinality(Below(m)) + 1
      BY <3>3, FS_AddElement
    <3>5. Cardinality(Lowest(S)) <= Cardinality(Below(m) \cup {m})
      BY <3>2, <3>4, FS_Subset
    <3>6. Cardinality(Below(m)) < PageSize /\ Cardinality(Below(m)) \in Nat
      BY <1>2, <1>4, <3>1, <3>3
    <3>7. Cardinality(Lowest(S)) \in Nat
      BY <1>5, FS_CardinalityType
    <3>8. QED
      BY <1>3, <3>4, <3>5, <3>6, <3>7
  <2>3. QED
    BY <2>1, <2>2
<1>9. S \ Lowest(S) # {} => Cardinality(S) > PageSize
  <2>1. SUFFICES ASSUME NEW n \in S \ Lowest(S) PROVE Cardinality(S) > PageSize
    OBVIOUS
  <2>2. /\ Cardinality(Below(n)) >= PageSize
        /\ IsFiniteSet(Below(n)) /\ Cardinality(Below(n)) \in Nat
    BY <1>2, <1>3, <1>4, <2>1
  <2>3. /\ IsFiniteSet(Below(n) \cup {n})
        /\ Cardinality(Below(n) \cup {n}) = Cardinality(Below(n)) + 1
    BY <2>2, FS_AddElement
  <2>4. Below(n) \cup {n} \in SUBSET S
    OBVIOUS
  <2>5. Cardinality(Below(n) \cup {n}) <= Cardinality(S)
    BY <1>1, <2>4, FS_Subset
  <2>6. Cardinality(S) \in Nat
    BY <1>1, FS_CardinalityType
  <2>7. QED
    BY <1>3, <2>2, <2>3, <2>5, <2>6
<1>10. QED
  BY <1>1, <1>5, <1>6, <1>7, <1>8, <1>9

-----------------------------------------------------------------------------
(* The table.                                                              *)

LEMMA KnownRows ==
  ASSUME TypeOK, Table
  PROVE  \A n \in Known : n \in Nat /\ n <= head
BY DEF TypeOK, Table, Known

(* The table gets rows above its head, if any.                             *)
Grows == /\ head' \in Nat /\ head <= head'
         /\ Known \subseteq Known' /\ Known' \subseteq Nat
         /\ \A n \in Known' : n \in Known \/ n > head

LEMMA PublishGrows ==
  ASSUME IInv, NEW p \in Publishers, NEW e \in Events, Publish(p, e)
  PROVE  Table' /\ Grows
<1> DEFINE new == [seq |-> head + 1, event |-> e]
<1>1. /\ rows' = rows \cup {new} /\ head' = head + 1
      /\ head \in Nat /\ \A r \in rows : r.event # e
  BY DEF Publish, IInv, TypeOK, Stored
<1>2. \A r \in rows : r.seq \in Nat /\ r.seq <= head
  BY DEF IInv, TypeOK, Table
<1>3. new.seq = head + 1 /\ new.event = e
  OBVIOUS
<1> HIDE DEF new
<1>4. \A r \in rows' : r.seq <= head'
  BY <1>1, <1>2, <1>3
<1>5. \A r \in rows : r.seq # new.seq /\ r.event # new.event
  BY <1>1, <1>2, <1>3
<1>6. SequencesAreUnique'
  <2>1. SequencesAreUnique
    BY DEF IInv, Table
  <2>2. QED
    BY <1>1, <1>5, <2>1 DEF SequencesAreUnique
<1>7. Known \subseteq Known'
  BY <1>1 DEF Known
<1>8. \A n \in Known' : n \in Known \/ n = head + 1
  BY <1>1, <1>3 DEF Known
<1>9. \A n \in Known : n \in Nat
  BY KnownRows DEF IInv
<1>10. Grows
  BY <1>1, <1>7, <1>8, <1>9 DEF Grows
<1>11. QED
  BY <1>4, <1>6, <1>10 DEF Table

-----------------------------------------------------------------------------
(* The followers.                                                          *)

(* A stream that takes no step, while the table grows at its end.          *)
Idles(f) ==
  /\ pc'[f] = pc[f] /\ cursor'[f] = cursor[f] /\ from'[f] = from[f]
  /\ through'[f] = through[f] /\ page'[f] = page[f] /\ more'[f] = more[f]
  /\ seen'[f] = seen[f] /\ delivered'[f] = delivered[f]

LEMMA IdleFollows ==
  ASSUME TypeOK, Table, Grows, NEW f \in Followers, Follows(f), Idles(f)
  PROVE  Follows(f)'
<1>1. /\ head \in Nat /\ head' \in Nat /\ head <= head'
      /\ seen[f] \in Nat /\ cursor[f] \in Nat /\ from[f] \in Nat
      /\ through[f] \in Nat
  BY DEF TypeOK, Grows
<1>2. \A k \in Known' : k \in Nat /\ (k <= head => k \in Known)
  BY <1>1 DEF Grows
<1>3. ASSUME NEW n \in Nat, n <= head, Given(f, n)
      PROVE  \A k \in Known' : k <= n => k \in delivered'[f]
  <2>1. \A k \in Known' : k <= n => k <= head
    BY <1>1, <1>2, <1>3
  <2>2. QED
    BY <1>2, <1>3, <2>1 DEF Given, Idles
<1>4. Seen(f)'
  <2>1. seen[f] <= head /\ Given(f, seen[f]) /\ \A k \in delivered[f] : k <= seen[f]
    BY DEF Follows, Seen
  <2>2. seen[f] <= head'
    BY <1>1, <2>1
  <2>3. QED
    BY <1>1, <1>3, <2>1, <2>2 DEF Seen, Given, Idles
<1>5. Opened(f)'
  <2>1. SUFFICES ASSUME pc[f] # "off" PROVE Opened(f)'
    BY DEF Opened, Idles
  <2>2. seen[f] <= cursor[f] /\ cursor[f] <= head /\ Given(f, cursor[f])
    BY <2>1 DEF Follows, Opened
  <2>3. cursor[f] <= head'
    BY <1>1, <2>2
  <2>4. QED
    BY <1>1, <1>3, <2>2, <2>3 DEF Opened, Given, Idles
<1>6. Paging(f)'
  BY <1>1 DEF Follows, Paging, Idles
<1>7. NextRead(f)'
  <2>1. SUFFICES ASSUME pc[f] = "paging" PROVE NextRead(f)'
    BY DEF NextRead, Idles
  <2>2. from[f] <= head /\ Given(f, from[f])
    BY <1>1, <2>1 DEF Follows, NextRead, Paging
  <2>3. QED
    BY <1>1, <1>3, <2>2 DEF NextRead, Given, Idles
<1>8. OnPage(f)'
  <2>1. SUFFICES ASSUME pc[f] = "emitting" PROVE OnPage(f)'
    BY DEF OnPage, Idles
  <2>2. through[f] <= head /\ OnPage(f)
    BY <2>1 DEF Follows, Paging
  <2>3. \A k \in Known' : k <= through[f] => k \in Known
    BY <1>1, <1>2, <2>2
  <2>4. QED
    BY <2>1, <2>2, <2>3 DEF OnPage, Idles, Grows
<1>9. AtBound(f)'
  BY DEF Follows, AtBound, Idles
<1>10. QED
  BY <1>4, <1>5, <1>6, <1>7, <1>8, <1>9 DEF Follows

LEMMA TableStands ==
  ASSUME TypeOK, Table, UNCHANGED table
  PROVE  Table' /\ Grows
<1>1. head' = head /\ rows' = rows /\ Known' = Known /\ head \in Nat
  BY DEF table, Known, TypeOK
<1>2. \A n \in Known : n \in Nat
  BY KnownRows
<1>3. Table'
  BY <1>1 DEF Table, SequencesAreUnique
<1>4. QED
  BY <1>1, <1>2, <1>3 DEF Grows

LEMMA AdvanceGrows ==
  ASSUME TypeOK, Table, NEW n \in Nat, Advance(n)
  PROVE  Table' /\ Grows
<1>1. /\ head \in Nat /\ head' \in Nat /\ head <= head'
      /\ rows' = rows /\ Known' = Known
  BY DEF Advance, Later, TypeOK, Known
<1>2. \A r \in rows : r.seq \in Nat /\ r.seq <= head
  BY DEF Table, TypeOK
<1>3. \A r \in rows' : r.seq <= head'
  BY <1>1, <1>2
<1>4. SequencesAreUnique'
  BY <1>1 DEF Table, SequencesAreUnique
<1>5. \A n_1 \in Known : n_1 \in Nat
  BY KnownRows
<1>6. QED
  BY <1>1, <1>3, <1>4, <1>5 DEF Grows, Table

(* What ReadPage reads: a page of the window, and where the next begins.   *)
LEMMA PageRead ==
  ASSUME IInv, NEW f \in Followers, ReadPage(f)
  PROVE  /\ page'[f] \subseteq Known /\ page'[f] \subseteq Nat
         /\ IsFiniteSet(page'[f]) /\ Cardinality(page'[f]) <= PageSize
         /\ from'[f] \in Nat /\ more'[f] \in BOOLEAN
         /\ from[f] <= from'[f] /\ from'[f] <= through[f]
         /\ \A k \in page'[f] : from[f] < k /\ k <= from'[f]
         /\ \A k \in Known : from[f] < k /\ k <= through[f] =>
              k \in page'[f] \/ (more'[f] /\ from'[f] < k)
<1> DEFINE W == Window(from[f], through[f])
           h == through[f]
<1>1. /\ from[f] \in Nat /\ h \in Nat /\ from[f] <= h
      /\ from \in [Followers -> Nat] /\ page \in [Followers -> SUBSET Nat]
      /\ more \in [Followers -> BOOLEAN]
  BY DEF IInv, TypeOK, Follows, Paging, ReadPage
<1>2. \A k \in Known : k \in Nat
  BY KnownRows DEF IInv
<1>3. /\ W \in SUBSET Nat /\ W \subseteq Known
      /\ \A k \in W : from[f] < k /\ k <= h
      /\ \A k \in Known : from[f] < k /\ k <= h => k \in W
  BY <1>2 DEF Window
<1>4. /\ page'[f] = Lowest(W)
      /\ more'[f] = (Cardinality(W) > PageSize)
      /\ from'[f] = IF W = {} THEN from[f] ELSE Greatest(Lowest(W))
  BY <1>1 DEF ReadPage
<1> HIDE DEF W
<1>5. /\ IsFiniteSet(Lowest(W)) /\ Lowest(W) \subseteq W
      /\ Cardinality(Lowest(W)) <= PageSize
      /\ W # {} => Lowest(W) # {}
      /\ \A n \in W \ Lowest(W) : \A m \in Lowest(W) : m < n
      /\ W \ Lowest(W) # {} => Cardinality(W) > PageSize
  BY <1>1, <1>3, LowestPage
<1>6. /\ from'[f] \in Nat /\ from[f] <= from'[f] /\ from'[f] <= h
      /\ \A k \in Lowest(W) : k <= from'[f]
      /\ \A k \in W \ Lowest(W) : from'[f] < k
  <2>1. CASE W = {}
    BY <1>1, <1>4, <1>5, <2>1
  <2>2. CASE W # {}
    <3>1. /\ Lowest(W) \in SUBSET Nat /\ Lowest(W) # {}
          /\ \A k \in Lowest(W) : k <= h
      BY <1>3, <1>5, <2>2
    <3>2. /\ from'[f] \in Lowest(W)
          /\ \A k \in Lowest(W) : k <= from'[f]
      BY <1>1, <1>4, <2>2, <3>1, GreatestExists
    <3>3. from'[f] \in Nat /\ from[f] < from'[f] /\ from'[f] <= h
      BY <1>3, <1>5, <3>1, <3>2
    <3>4. QED
      BY <1>1, <1>5, <3>2, <3>3
  <2>3. QED
    BY <2>1, <2>2
<1>7. \A k \in Known : from[f] < k /\ k <= h =>
        k \in Lowest(W) \/ (more'[f] /\ from'[f] < k)
  BY <1>3, <1>4, <1>5, <1>6
<1>8. page'[f] \subseteq Known /\ page'[f] \subseteq Nat
  BY <1>3, <1>4, <1>5
<1>9. /\ IsFiniteSet(page'[f]) /\ Cardinality(page'[f]) <= PageSize
      /\ more'[f] \in BOOLEAN
  BY <1>4, <1>5
<1>10. \A k \in page'[f] : from[f] < k /\ k <= from'[f]
  BY <1>3, <1>4, <1>5, <1>6
<1>11. \A k \in Known : from[f] < k /\ k <= through[f] =>
         k \in page'[f] \/ (more'[f] /\ from'[f] < k)
  BY <1>4, <1>7
<1>12. QED
  BY <1>6, <1>8, <1>9, <1>10, <1>11

LEMMA TypeStep ==
  ASSUME IInv, Next
  PROVE  TypeOK' /\ PagesAreFinite'
<1> USE DEF table, pass, consumer, Goto
<1>0. TypeOK /\ PagesAreFinite /\ PageSize \in Nat
  BY PageSizeAssumption DEF IInv
<1>1. ASSUME NEW p \in Publishers, WakeFollowers(p) PROVE TypeOK' /\ PagesAreFinite'
  BY <1>0, <1>1 DEF WakeFollowers, TypeOK, PagesAreFinite
<1>2. ASSUME NEW p \in Publishers, NEW e \in Events, Publish(p, e)
      PROVE  TypeOK' /\ PagesAreFinite'
  BY <1>0, <1>2 DEF Publish, TypeOK, PagesAreFinite
<1>3. ASSUME NEW n \in 1..MaxAdvance, Advance(n) PROVE TypeOK' /\ PagesAreFinite'
  BY <1>0, <1>3 DEF Advance, Later, TypeOK, PagesAreFinite
<1>4. ASSUME NEW f \in Followers, Follow(f) PROVE TypeOK' /\ PagesAreFinite'
  BY <1>0, <1>4 DEF Follow, TypeOK, PagesAreFinite
<1>5. ASSUME NEW f \in Followers, ReadHead(f) PROVE TypeOK' /\ PagesAreFinite'
  BY <1>0, <1>5 DEF ReadHead, Pass, TypeOK, PagesAreFinite
<1>6. ASSUME NEW f \in Followers, ReadPage(f) PROVE TypeOK' /\ PagesAreFinite'
  <2>1. /\ page'[f] \subseteq Nat /\ IsFiniteSet(page'[f])
        /\ Cardinality(page'[f]) <= PageSize
        /\ from'[f] \in Nat /\ more'[f] \in BOOLEAN
    BY <1>6, PageRead
  <2>2. /\ page' = [page EXCEPT ![f] = page'[f]]
        /\ more' = [more EXCEPT ![f] = more'[f]]
        /\ from' = [from EXCEPT ![f] = from'[f]]
    BY <1>0, <1>6 DEF ReadPage, TypeOK
  <2>3. /\ pc' = [pc EXCEPT ![f] = "emitting"]
        /\ UNCHANGED <<head, rows, publisher, wakes, rung, cursor, through, consumer>>
    BY <1>6 DEF ReadPage
  <2>4. \A g \in Followers : g # f => page'[g] = page[g]
    BY <1>0, <2>2 DEF TypeOK
  <2>5. /\ page' \in [Followers -> SUBSET Nat] /\ more' \in [Followers -> BOOLEAN]
        /\ from' \in [Followers -> Nat]
    BY <1>0, <2>1, <2>2 DEF TypeOK
  <2>6. \A g \in Followers : IsFiniteSet(page'[g]) /\ Cardinality(page'[g]) <= PageSize
    BY <1>0, <2>1, <2>4 DEF TypeOK, PagesAreFinite
  <2>7. QED
    BY <1>0, <2>3, <2>5, <2>6 DEF TypeOK, PagesAreFinite
<1>7. ASSUME NEW f \in Followers, Emit(f) PROVE TypeOK' /\ PagesAreFinite'
  <2>1. PICK n \in page[f] :
          /\ cursor' = [cursor EXCEPT ![f] = n]
          /\ seen' = [seen EXCEPT ![f] = n]
          /\ delivered' = [delivered EXCEPT ![f] = @ \cup {n}]
          /\ page' = [page EXCEPT ![f] = @ \ {n}]
    BY <1>7 DEF Emit
  <2>2. n \in Nat
    BY <1>0, <2>1 DEF TypeOK
  <2>3. /\ IsFiniteSet(page[f]) /\ Cardinality(page[f]) <= PageSize
        /\ Cardinality(page[f]) \in Nat
    BY <1>0, FS_CardinalityType DEF TypeOK, PagesAreFinite
  <2>4. /\ IsFiniteSet(page[f] \ {n})
        /\ Cardinality(page[f] \ {n}) = Cardinality(page[f]) - 1
    BY <2>1, <2>3, FS_RemoveElement
  <2>5. page'[f] = page[f] \ {n} /\ \A g \in Followers : g # f => page'[g] = page[g]
    BY <1>0, <2>1 DEF TypeOK
  <2>6. \A g \in Followers : IsFiniteSet(page'[g]) /\ Cardinality(page'[g]) <= PageSize
    <3>1. IsFiniteSet(page'[f]) /\ Cardinality(page'[f]) <= PageSize
      BY <1>0, <2>3, <2>4, <2>5
    <3>2. \A g \in Followers : IsFiniteSet(page[g]) /\ Cardinality(page[g]) <= PageSize
      BY <1>0 DEF TypeOK, PagesAreFinite
    <3>3. QED
      BY <2>5, <3>1, <3>2
  <2>7. /\ page' \in [Followers -> SUBSET Nat] /\ delivered' \in [Followers -> SUBSET Nat]
        /\ cursor' \in [Followers -> Nat] /\ seen' \in [Followers -> Nat]
    BY <1>0, <2>1, <2>2 DEF TypeOK
  <2>8. QED
    BY <1>0, <1>7, <2>6, <2>7 DEF Emit, TypeOK, PagesAreFinite
<1>8. ASSUME NEW f \in Followers, NextPage(f) PROVE TypeOK' /\ PagesAreFinite'
  BY <1>0, <1>8 DEF NextPage, TypeOK, PagesAreFinite
<1>9. ASSUME NEW f \in Followers, EndPass(f) PROVE TypeOK' /\ PagesAreFinite'
  BY <1>0, <1>9 DEF EndPass, Later, TypeOK, PagesAreFinite
<1>10. ASSUME NEW f \in Followers, Mark(f) PROVE TypeOK' /\ PagesAreFinite'
  BY <1>0, <1>10 DEF Mark, Later, TypeOK, PagesAreFinite
<1>11. ASSUME NEW f \in Followers, TakeWake(f) PROVE TypeOK' /\ PagesAreFinite'
  BY <1>0, <1>11 DEF TakeWake, TypeOK, PagesAreFinite
<1>12. ASSUME NEW f \in Followers, Target(f) PROVE TypeOK' /\ PagesAreFinite'
  BY <1>0, <1>12 DEF Target, Pass, TypeOK, PagesAreFinite
<1>13. ASSUME NEW S \in SUBSET Followers, Drop(S),
              publisher' \in [Publishers -> {"idle", "stored"}]
       PROVE  TypeOK' /\ PagesAreFinite'
  <2>1. \A g \in Followers : IsFiniteSet(page'[g]) /\ Cardinality(page'[g]) <= PageSize
    <3>1. \A g \in Followers : page'[g] = {} \/ page'[g] = page[g]
      BY <1>13 DEF Drop
    <3>2. IsFiniteSet({}) /\ Cardinality({}) <= PageSize
      BY <1>0, FS_EmptySet
    <3>3. QED
      BY <1>0, <3>1, <3>2 DEF TypeOK, PagesAreFinite
  <2>2. QED
    BY <1>0, <1>13, <2>1 DEF Drop, TypeOK, PagesAreFinite
<1>14. ASSUME NEW f \in Followers, Close(f) PROVE TypeOK' /\ PagesAreFinite'
  BY <1>0, <1>13, <1>14 DEF Close, TypeOK
<1>15. ASSUME Crash PROVE TypeOK' /\ PagesAreFinite'
  BY <1>13, <1>15 DEF Crash
<1>16. QED
  BY <1>1, <1>2, <1>3, <1>4, <1>5, <1>6, <1>7, <1>8, <1>9, <1>10, <1>11, <1>12,
     <1>14, <1>15 DEF Next, Reads

(* One lemma per step: what it makes of the stream that takes it.          *)

LEMMA FollowSteps ==
  ASSUME IInv, TypeOK', NEW f \in Followers, Follow(f)
  PROVE  Follows(f)'
<1>1. /\ pc'[f] = "opening" /\ cursor'[f] = seen[f]
      /\ seen'[f] = seen[f] /\ delivered'[f] = delivered[f]
      /\ head' = head /\ Known' = Known /\ seen[f] \in Nat
  BY DEF Follow, Goto, IInv, TypeOK, table, consumer, Known
<1>2. Seen(f)
  BY DEF IInv, Follows
<1>3. QED
  BY <1>1, <1>2 DEF Follows, Seen, Opened, Paging, NextRead, OnPage, AtBound, Given

LEMMA PassSteps ==
  ASSUME IInv, TypeOK', NEW f \in Followers, pc[f] # "off", Pass(f),
         UNCHANGED <<table, cursor, consumer>>
  PROVE  Follows(f)'
<1>1. /\ pc'[f] = "paging" /\ cursor'[f] = cursor[f]
      /\ from'[f] = cursor[f] /\ through'[f] = head
      /\ seen'[f] = seen[f] /\ delivered'[f] = delivered[f]
      /\ head' = head /\ Known' = Known
      /\ cursor[f] \in Nat /\ head \in Nat
  BY DEF Pass, Goto, IInv, TypeOK, table, consumer, Known
<1>2. Seen(f) /\ Opened(f)
  BY DEF IInv, Follows
<1>3. QED
  BY <1>1, <1>2 DEF Follows, Seen, Opened, Paging, NextRead, OnPage, AtBound, Given

LEMMA ReadPageSteps ==
  ASSUME IInv, TypeOK', NEW f \in Followers, ReadPage(f)
  PROVE  Follows(f)'
<1>1. /\ pc[f] = "paging" /\ pc'[f] = "emitting" /\ cursor'[f] = cursor[f]
      /\ through'[f] = through[f]
      /\ seen'[f] = seen[f] /\ delivered'[f] = delivered[f]
      /\ head' = head /\ Known' = Known
  BY DEF ReadPage, Goto, IInv, TypeOK, table, consumer, Known
<1>2. /\ cursor[f] \in Nat /\ from[f] \in Nat /\ through[f] \in Nat
      /\ from'[f] \in Nat /\ page'[f] \subseteq Nat
  BY DEF IInv, TypeOK
<1>3. /\ Seen(f) /\ Opened(f)
      /\ cursor[f] <= from[f] /\ from[f] <= through[f] /\ through[f] <= head
      /\ Given(f, from[f])
  BY <1>1 DEF IInv, Follows, Paging, NextRead
<1>4. Seen(f)' /\ Opened(f)'
  BY <1>1, <1>3 DEF Seen, Opened, Given
<1>5. Paging(f)'
  BY <1>1, <1>2, <1>3, PageRead DEF Paging
<1>6. OnPage(f)'
  <2>1. \A k \in Known : k \in Nat
    BY KnownRows DEF IInv
  <2>2. \A k \in page'[f] : k \in Known' /\ cursor'[f] < k /\ k <= from'[f]
    BY <1>1, <1>2, <1>3, PageRead
  <2>3. \A k \in Known : k <= through[f] =>
          k \in delivered[f] \/ k \in page'[f] \/ (more'[f] /\ from'[f] < k)
    BY <1>2, <1>3, <2>1, PageRead DEF Given
  <2>4. QED
    BY <1>1, <2>2, <2>3 DEF OnPage
<1>7. QED
  BY <1>1, <1>4, <1>5, <1>6 DEF Follows, NextRead, AtBound

(* The row that is given is the next one: those before it were given, and  *)
(* nothing after it.                                                       *)
LEMMA EmitsNext ==
  ASSUME IInv, NEW f \in Followers, Emit(f)
  PROVE  \E n \in Known \ delivered[f] :
           /\ n \in page[f] /\ n \in Nat
           /\ cursor' = [cursor EXCEPT ![f] = n]
           /\ seen' = [seen EXCEPT ![f] = n]
           /\ delivered' = [delivered EXCEPT ![f] = @ \cup {n}]
           /\ page' = [page EXCEPT ![f] = @ \ {n}]
           /\ cursor[f] < n /\ n <= from[f]
           /\ \A k \in page[f] : n <= k
           /\ \A k \in Known : k < n => k \in delivered[f]
           /\ \A k \in delivered[f] : k < n
<1>1. PICK n \in page[f] :
        /\ \A k \in page[f] : n <= k
        /\ cursor' = [cursor EXCEPT ![f] = n]
        /\ seen' = [seen EXCEPT ![f] = n]
        /\ delivered' = [delivered EXCEPT ![f] = @ \cup {n}]
        /\ page' = [page EXCEPT ![f] = @ \ {n}]
  BY DEF Emit
<1>2. /\ pc[f] = "emitting"
      /\ n \in Known /\ cursor[f] < n /\ n <= from[f]
      /\ seen[f] <= cursor[f] /\ from[f] <= through[f]
      /\ \A k \in delivered[f] : k <= seen[f]
      /\ \A k \in Known : k <= through[f] =>
           k \in delivered[f] \/ k \in page[f] \/ (more[f] /\ from[f] < k)
  BY <1>1 DEF Emit, IInv, Follows, Seen, Opened, Paging, OnPage
<1>3. /\ n \in Nat /\ seen[f] \in Nat /\ cursor[f] \in Nat /\ from[f] \in Nat
      /\ through[f] \in Nat
      /\ \A k \in delivered[f] : k \in Nat
  BY <1>1 DEF IInv, TypeOK
<1>4. \A k \in Known : k \in Nat
  BY KnownRows DEF IInv
<1>5. \A k \in delivered[f] : k < n
  BY <1>2, <1>3
<1>6. n \notin delivered[f]
  BY <1>3, <1>5
<1>7. \A k \in Known : k < n => k \in delivered[f]
  <2>1. SUFFICES ASSUME NEW k \in Known, k < n PROVE k \in delivered[f]
    OBVIOUS
  <2>2. k \in Nat /\ k <= through[f] /\ ~ (from[f] < k)
    BY <1>2, <1>3, <1>4, <2>1
  <2>3. k \notin page[f]
    BY <1>1, <1>3, <2>1, <2>2
  <2>4. QED
    BY <1>2, <2>2, <2>3
<1>8. QED
  BY <1>1, <1>2, <1>3, <1>5, <1>6, <1>7

LEMMA EmitSteps ==
  ASSUME IInv, TypeOK', NEW f \in Followers, Emit(f)
  PROVE  Follows(f)'
<1>1. PICK n \in Known \ delivered[f] :
        /\ n \in page[f] /\ n \in Nat
        /\ cursor' = [cursor EXCEPT ![f] = n]
        /\ seen' = [seen EXCEPT ![f] = n]
        /\ delivered' = [delivered EXCEPT ![f] = @ \cup {n}]
        /\ page' = [page EXCEPT ![f] = @ \ {n}]
        /\ cursor[f] < n /\ n <= from[f]
        /\ \A k \in page[f] : n <= k
        /\ \A k \in Known : k < n => k \in delivered[f]
        /\ \A k \in delivered[f] : k < n
  BY EmitsNext
<1>2. /\ pc[f] = "emitting" /\ pc'[f] = "emitting"
      /\ cursor'[f] = n /\ seen'[f] = n
      /\ delivered'[f] = delivered[f] \cup {n} /\ page'[f] = page[f] \ {n}
      /\ from'[f] = from[f] /\ through'[f] = through[f] /\ more'[f] = more[f]
      /\ head' = head /\ Known' = Known
  BY <1>1 DEF Emit, IInv, TypeOK, table, Known
<1>3. /\ from[f] \in Nat /\ through[f] \in Nat /\ head \in Nat
      /\ \A k \in Known : k \in Nat
      /\ \A k \in page[f] : k \in Nat
      /\ \A k \in delivered[f] : k \in Nat
  BY KnownRows DEF IInv, TypeOK
<1>4. /\ from[f] <= through[f] /\ through[f] <= head
      /\ \A k \in page[f] : k \in Known /\ k <= from[f]
      /\ \A k \in Known : k <= through[f] =>
           k \in delivered[f] \/ k \in page[f] \/ (more[f] /\ from[f] < k)
  BY <1>2 DEF IInv, Follows, Paging, OnPage
<1>5. /\ n <= head
      /\ \A k \in Known : k <= n => k \in delivered'[f]
      /\ \A k \in delivered'[f] : k <= n
  BY <1>1, <1>2, <1>3, <1>4
<1>6. Seen(f)' /\ Opened(f)'
  BY <1>1, <1>2, <1>5 DEF Seen, Opened, Given
<1>7. Paging(f)'
  BY <1>1, <1>2, <1>4 DEF Paging
<1>8. OnPage(f)'
  <2>1. \A k \in page'[f] : k \in Known /\ n < k /\ k <= from[f]
    BY <1>1, <1>2, <1>3, <1>4
  <2>2. QED
    BY <1>2, <1>4, <2>1 DEF OnPage
<1>9. QED
  BY <1>2, <1>6, <1>7, <1>8 DEF Follows, NextRead, AtBound

LEMMA NextPageSteps ==
  ASSUME IInv, TypeOK', NEW f \in Followers, NextPage(f)
  PROVE  Follows(f)'
<1>1. /\ pc[f] = "emitting" /\ pc'[f] = "paging" /\ page[f] = {}
      /\ cursor' = cursor /\ seen' = seen /\ delivered' = delivered
      /\ from' = from /\ through' = through
      /\ head' = head /\ Known' = Known
  BY DEF NextPage, Goto, IInv, TypeOK, table, pass, consumer, Known
<1>2. /\ from[f] \in Nat /\ through[f] \in Nat /\ \A k \in Known : k \in Nat
  BY KnownRows DEF IInv, TypeOK
<1>3. Seen(f) /\ Opened(f) /\ Paging(f) /\ OnPage(f)
  BY DEF IInv, Follows
<1>4. Given(f, from[f])
  BY <1>1, <1>2, <1>3 DEF Paging, OnPage, Given
<1>5. QED
  BY <1>1, <1>3, <1>4 DEF Follows, Seen, Opened, Paging, NextRead, OnPage, AtBound, Given

LEMMA EndPassSteps ==
  ASSUME IInv, TypeOK', NEW f \in Followers, EndPass(f)
  PROVE  Follows(f)'
<1>1. /\ pc[f] = "emitting" /\ pc'[f] \in {"live", "marking"}
      /\ page[f] = {} /\ ~more[f]
      /\ cursor'[f] = Later(cursor[f], through[f])
      /\ seen' = seen /\ delivered' = delivered /\ through' = through
      /\ head' = head /\ Known' = Known
  BY DEF EndPass, Goto, IInv, TypeOK, table, pass, consumer, Known
<1>2. /\ cursor[f] \in Nat /\ through[f] \in Nat /\ head \in Nat /\ seen[f] \in Nat
      /\ \A k \in Known : k \in Nat
  BY KnownRows DEF IInv, TypeOK
<1>3. Seen(f) /\ Opened(f) /\ Paging(f) /\ OnPage(f)
  BY DEF IInv, Follows
<1>4. Given(f, through[f]) /\ Given(f, cursor[f])
  BY <1>1, <1>3 DEF Opened, OnPage, Given
<1>5. /\ Given(f, Later(cursor[f], through[f]))
      /\ seen[f] <= Later(cursor[f], through[f])
      /\ Later(cursor[f], through[f]) <= head
      /\ through[f] <= Later(cursor[f], through[f])
  BY <1>1, <1>2, <1>3, <1>4 DEF Later, Opened, Paging
<1>6. QED
  BY <1>1, <1>3, <1>5 DEF Follows, Seen, Opened, Paging, NextRead, OnPage, AtBound, Given

LEMMA MarkSteps ==
  ASSUME IInv, TypeOK', NEW f \in Followers, Mark(f)
  PROVE  Follows(f)'
<1>1. /\ pc[f] = "marking" /\ pc'[f] = "live"
      /\ cursor' = cursor /\ delivered' = delivered
      /\ seen'[f] = Later(seen[f], through[f])
      /\ head' = head /\ Known' = Known
  BY DEF Mark, Goto, IInv, TypeOK, table, pass, consumer, Known
<1>2. /\ cursor[f] \in Nat /\ through[f] \in Nat /\ head \in Nat /\ seen[f] \in Nat
      /\ \A k \in Known : k \in Nat
      /\ \A k \in delivered[f] : k \in Nat
  BY KnownRows DEF IInv, TypeOK
<1>3. Seen(f) /\ Opened(f) /\ AtBound(f)
  BY DEF IInv, Follows
<1>4. /\ Later(seen[f], through[f]) <= cursor[f]
      /\ seen[f] <= Later(seen[f], through[f])
      /\ Later(seen[f], through[f]) \in Nat
  BY <1>1, <1>2, <1>3 DEF Later, Opened, AtBound
<1>5. Given(f, Later(seen[f], through[f]))
  BY <1>1, <1>2, <1>3, <1>4 DEF Opened, Given
<1>6. \A k \in delivered[f] : k <= Later(seen[f], through[f])
  BY <1>2, <1>3, <1>4 DEF Seen
<1>7. Later(seen[f], through[f]) <= head
  BY <1>1, <1>2, <1>3, <1>4 DEF Opened
<1>8. QED
  BY <1>1, <1>3, <1>4, <1>5, <1>6, <1>7
     DEF Follows, Seen, Opened, Paging, NextRead, OnPage, AtBound, Given

(* The stream waits, was woken for nothing, or is gone.                    *)
LEMMA RestSteps ==
  ASSUME IInv, TypeOK', NEW f \in Followers,
         \/ pc'[f] = "off"
         \/ pc[f] # "off" /\ pc'[f] \in {"live", "awake"} /\ cursor'[f] = cursor[f],
         seen'[f] = seen[f], delivered'[f] = delivered[f], UNCHANGED table
  PROVE  Follows(f)'
<1>1. head' = head /\ Known' = Known
  BY DEF table, Known
<1>2. Seen(f) /\ Opened(f)
  BY DEF IInv, Follows
<1>3. QED
  BY <1>1, <1>2 DEF Follows, Seen, Opened, Paging, NextRead, OnPage, AtBound, Given

LEMMA InitIInv == Init => IInv
<1> SUFFICES ASSUME Init PROVE IInv
  OBVIOUS
<1>1. IsFiniteSet({}) /\ Cardinality({}) = 0
  BY FS_EmptySet
<1>2. TypeOK /\ PagesAreFinite
  BY <1>1, PageSizeAssumption DEF Init, TypeOK, PagesAreFinite
<1>3. Table /\ Known = {}
  BY DEF Init, Table, SequencesAreUnique, Known
<1>4. \A f \in Followers : Follows(f)
  BY <1>3 DEF Init, Follows, Seen, Opened, Paging, NextRead, OnPage, AtBound, Given
<1>5. QED
  BY <1>2, <1>3, <1>4 DEF IInv

LEMMA NextIInv == IInv /\ Next => IInv'
<1> SUFFICES ASSUME IInv, Next PROVE IInv'
  OBVIOUS
<1> DEFINE Rest(f) == \A g \in Followers : g # f => Idles(g)
<1>1. TypeOK /\ Table /\ TypeOK' /\ PagesAreFinite'
  BY TypeStep DEF IInv
<1>2. ASSUME Grows, NEW f \in Followers, Idles(f) PROVE Follows(f)'
  BY <1>1, <1>2, IdleFollows DEF IInv
<1>3. ASSUME UNCHANGED table PROVE Table' /\ Grows
  BY <1>1, <1>3, TableStands
(* The table's steps.                                                      *)
<1>4. ASSUME NEW p \in Publishers, WakeFollowers(p) PROVE IInv'
  <2>1. \A f \in Followers : Idles(f)
    BY <1>4 DEF WakeFollowers, Idles, pass, consumer
  <2>2. QED
    BY <1>1, <1>2, <1>3, <1>4, <2>1 DEF WakeFollowers, IInv
<1>5. ASSUME NEW p \in Publishers, NEW e \in Events, Publish(p, e) PROVE IInv'
  <2>1. \A f \in Followers : Idles(f)
    BY <1>5 DEF Publish, Idles, pass, consumer
  <2>2. Table' /\ Grows
    BY <1>5, PublishGrows
  <2>3. QED
    BY <1>1, <1>2, <2>1, <2>2 DEF IInv
<1>6. ASSUME NEW n \in 1..MaxAdvance, Advance(n) PROVE IInv'
  <2>1. \A f \in Followers : Idles(f)
    BY <1>6 DEF Advance, Idles, pass, consumer
  <2>2. Table' /\ Grows
    BY <1>1, <1>6, AdvanceGrows
  <2>3. QED
    BY <1>1, <1>2, <2>1, <2>2 DEF IInv
(* A stream's steps.                                                       *)
<1>7. ASSUME NEW f \in Followers, Rest(f), Follows(f)', UNCHANGED table PROVE IInv'
  <2>1. Table' /\ Grows
    BY <1>3, <1>7
  <2>2. \A g \in Followers : g # f => Follows(g)'
    BY <1>2, <1>7, <2>1
  <2>3. QED
    BY <1>1, <1>7, <2>1, <2>2 DEF IInv
<1>8. ASSUME NEW f \in Followers, Follow(f) PROVE IInv'
  <2>1. Rest(f) /\ UNCHANGED table
    BY <1>1, <1>8 DEF Follow, Goto, Idles, TypeOK, pass, consumer
  <2>2. QED
    BY <1>1, <1>7, <1>8, <2>1, FollowSteps
<1>9. ASSUME NEW f \in Followers, pc[f] # "off", Pass(f), UNCHANGED <<table, cursor, consumer>>
      PROVE  IInv'
  <2>1. Rest(f) /\ UNCHANGED table
    BY <1>1, <1>9 DEF Pass, Goto, Idles, TypeOK, pass, consumer
  <2>2. QED
    BY <1>1, <1>7, <1>9, <2>1, PassSteps
<1>10. ASSUME NEW f \in Followers, ReadHead(f) PROVE IInv'
  BY <1>9, <1>10 DEF ReadHead
<1>11. ASSUME NEW f \in Followers, ReadPage(f) PROVE IInv'
  <2>1. Rest(f) /\ UNCHANGED table
    BY <1>1, <1>11 DEF ReadPage, Goto, Idles, TypeOK, consumer
  <2>2. QED
    BY <1>1, <1>7, <1>11, <2>1, ReadPageSteps
<1>12. ASSUME NEW f \in Followers, Emit(f) PROVE IInv'
  <2>1. Rest(f) /\ UNCHANGED table
    BY <1>1, <1>12 DEF Emit, Idles, TypeOK
  <2>2. QED
    BY <1>1, <1>7, <1>12, <2>1, EmitSteps
<1>13. ASSUME NEW f \in Followers, NextPage(f) PROVE IInv'
  <2>1. Rest(f) /\ UNCHANGED table
    BY <1>1, <1>13 DEF NextPage, Goto, Idles, TypeOK, pass, consumer
  <2>2. QED
    BY <1>1, <1>7, <1>13, <2>1, NextPageSteps
<1>14. ASSUME NEW f \in Followers, EndPass(f) PROVE IInv'
  <2>1. Rest(f) /\ UNCHANGED table
    BY <1>1, <1>14 DEF EndPass, Goto, Idles, TypeOK, pass, consumer
  <2>2. QED
    BY <1>1, <1>7, <1>14, <2>1, EndPassSteps
<1>15. ASSUME NEW f \in Followers, Mark(f) PROVE IInv'
  <2>1. Rest(f) /\ UNCHANGED table
    BY <1>1, <1>15 DEF Mark, Goto, Idles, TypeOK, pass
  <2>2. QED
    BY <1>1, <1>7, <1>15, <2>1, MarkSteps
<1>16. ASSUME NEW f \in Followers, TakeWake(f) PROVE IInv'
  <2>1. /\ Rest(f) /\ UNCHANGED table
        /\ pc[f] # "off" /\ pc'[f] = "awake" /\ cursor'[f] = cursor[f]
        /\ seen'[f] = seen[f] /\ delivered'[f] = delivered[f]
    BY <1>1, <1>16 DEF TakeWake, Goto, Idles, TypeOK, pass, consumer
  <2>2. QED
    BY <1>1, <1>7, <2>1, RestSteps
<1>17. ASSUME NEW f \in Followers, Target(f) PROVE IInv'
  <2>1. CASE Pass(f)
    BY <1>9, <1>17, <2>1 DEF Target
  <2>2. CASE Goto(f, "live") /\ UNCHANGED pass
    <3>1. /\ Rest(f) /\ UNCHANGED table
          /\ pc[f] # "off" /\ pc'[f] = "live" /\ cursor'[f] = cursor[f]
          /\ seen'[f] = seen[f] /\ delivered'[f] = delivered[f]
      BY <1>1, <1>17, <2>2 DEF Target, Goto, Idles, TypeOK, pass, consumer
    <3>2. QED
      BY <1>1, <1>7, <3>1, RestSteps
  <2>3. QED
    BY <1>17, <2>1, <2>2 DEF Target
<1>18. ASSUME NEW S \in SUBSET Followers, Drop(S) PROVE IInv'
  <2>1. UNCHANGED table
    BY <1>18 DEF Drop
  <2>2. Table' /\ Grows
    BY <1>3, <2>1
  <2>3. ASSUME NEW g \in Followers, g \in S PROVE Follows(g)'
    <3>1. pc'[g] = "off" /\ seen'[g] = seen[g] /\ delivered'[g] = delivered[g]
      BY <1>18, <2>3 DEF Drop
    <3>2. QED
      BY <1>1, <2>1, <3>1, RestSteps
  <2>4. ASSUME NEW g \in Followers, g \notin S PROVE Follows(g)'
    <3>1. Idles(g)
      BY <1>1, <1>18, <2>4 DEF Drop, Idles, TypeOK
    <3>2. QED
      BY <1>2, <2>2, <3>1
  <2>5. QED
    BY <1>1, <2>2, <2>3, <2>4 DEF IInv
<1>19. ASSUME NEW f \in Followers, Close(f) PROVE IInv'
  BY <1>18, <1>19 DEF Close
<1>20. ASSUME Crash PROVE IInv'
  BY <1>18, <1>20 DEF Crash
<1>21. QED
  BY <1>4, <1>5, <1>6, <1>8, <1>10, <1>11, <1>12, <1>13, <1>14, <1>15, <1>16, <1>17,
     <1>19, <1>20 DEF Next, Reads

LEMMA StutterIInv == IInv /\ UNCHANGED vars => IInv'
<1> SUFFICES ASSUME IInv, UNCHANGED vars PROVE IInv'
  OBVIOUS
<1>1. TypeOK' /\ PagesAreFinite'
  BY DEF IInv, TypeOK, PagesAreFinite, vars, table, pass, consumer
<1>2. UNCHANGED table /\ \A f \in Followers : Idles(f)
  BY DEF vars, table, pass, consumer, Idles
<1>3. Table' /\ Grows
  BY <1>2, TableStands DEF IInv
<1>4. \A f \in Followers : Follows(f)'
  BY <1>2, <1>3, IdleFollows DEF IInv
<1>5. QED
  BY <1>1, <1>3, <1>4 DEF IInv

(* The rows, the pages and the streams of the log stay as Follows says:    *)
(* the argument of all that is promised below (event.ts:438-680).          *)
THEOREM Invariance == Spec => []IInv
<1>1. Init => IInv
  BY InitIInv
<1>2. IInv /\ [Next]_vars => IInv'
  BY NextIInv, StutterIInv
<1>3. QED
  BY <1>1, <1>2, PTL DEF Spec

(* The type invariant, the size of a page included (event.ts:404-406).     *)
THEOREM TypeCorrect == Spec => []TypeOK
<1>1. IInv => TypeOK
  BY DEF IInv
<1>2. QED
  BY <1>1, Invariance, PTL

(* No sequence is handed out twice and no id stored twice, whatever prefix *)
(* a fork reserves (event.ts:551).                                         *)
THEOREM UniqueSequences == Spec => []SequencesAreUnique
<1>1. IInv => SequencesAreUnique
  BY DEF IInv, Table
<1>2. QED
  BY <1>1, Invariance, PTL

(* What a consumer has seen is a whole prefix of the log: it may resume    *)
(* from its position after any close or crash (event.ts:643-650).          *)
THEOREM WholePrefix == Spec => []SeenIsWhole
<1>1. IInv => SeenIsWhole
  BY DEF IInv, Follows, Seen, Given, SeenIsWhole
<1>2. QED
  BY <1>1, Invariance, PTL

-----------------------------------------------------------------------------
(* The log with its streams implements the feed.                           *)

(* Only a given row and the marker move a position, and only the commits   *)
(* and the prefixes of forks the table.                                    *)
still == <<head, rows, seen, delivered>>

LEMMA SameRows == Stream!Readable = Known
BY DEF Stream!Readable, Known

LEMMA InitFeed == Init => Stream!Init
BY DEF Init, Stream!Init

LEMMA PublishAppends ==
  ASSUME NEW p \in Publishers, NEW e \in Events, Publish(p, e)
  PROVE  Stream!Append(e)
BY DEF Publish, Stored, consumer, Stream!Append

LEMMA AdvanceReserves ==
  ASSUME TypeOK, NEW n \in 1..MaxAdvance, Advance(n)
  PROVE  Stream!Reserve \/ UNCHANGED still
<1>1. head \in Nat /\ n \in Nat /\ head' = Later(head, n)
  BY MaxAdvanceAssumption DEF TypeOK, Advance
<1>2. UNCHANGED <<rows, seen, delivered>>
  BY DEF Advance, consumer
<1>3. CASE head < n
  BY <1>1, <1>2, <1>3 DEF Later, Stream!Reserve
<1>4. CASE ~(head < n)
  BY <1>1, <1>2, <1>4 DEF Later, still
<1>5. QED
  BY <1>3, <1>4

LEMMA EmitGives ==
  ASSUME IInv, NEW f \in Followers, Emit(f)
  PROVE  Stream!Give(f)
<1>1. PICK n \in Known \ delivered[f] :
        /\ n \in Nat
        /\ seen' = [seen EXCEPT ![f] = n]
        /\ delivered' = [delivered EXCEPT ![f] = @ \cup {n}]
        /\ cursor[f] < n
        /\ \A k \in Known : k < n => k \in delivered[f]
  BY EmitsNext
<1>2. /\ seen[f] <= cursor[f] /\ seen[f] \in Nat /\ cursor[f] \in Nat
      /\ \A k \in delivered[f] : k <= seen[f]
      /\ \A k \in Known : k \in Nat
  BY KnownRows DEF Emit, IInv, TypeOK, Follows, Opened, Seen
<1>3. seen[f] < n /\ \A k \in Known : k <= seen[f] \/ n <= k
  BY <1>1, <1>2
<1>4. UNCHANGED <<rows, head>>
  BY DEF Emit, table
<1>5. QED
  BY <1>1, <1>3, <1>4, SameRows DEF Stream!Give

LEMMA MarkMovesOn ==
  ASSUME IInv, NEW f \in Followers, Mark(f)
  PROVE  Stream!MoveOn(f) \/ UNCHANGED still
<1> DEFINE n == through[f]
<1>1. /\ seen' = [seen EXCEPT ![f] = Later(@, n)]
      /\ UNCHANGED <<rows, head, delivered>>
  BY DEF Mark, table
<1>2. /\ seen \in [Followers -> Nat] /\ n \in Nat /\ cursor[f] \in Nat
      /\ head \in Nat /\ \A k \in Known : k \in Nat
  BY KnownRows DEF IInv, TypeOK
<1>3. /\ n <= cursor[f] /\ cursor[f] <= head /\ Given(f, cursor[f])
      /\ \A k \in delivered[f] : k <= seen[f]
  BY DEF Mark, IInv, Follows, AtBound, Opened, Seen
<1> HIDE DEF n
<1>4. CASE seen[f] < n
  <2>1. n \in 1..head
    BY <1>2, <1>3, <1>4
  <2>2. \A k \in Known : k <= seen[f] \/ n < k
    BY <1>2, <1>3 DEF Given
  <2>3. seen' = [seen EXCEPT ![f] = n]
    BY <1>1, <1>4 DEF Later
  <2>4. QED
    BY <1>1, <1>4, <2>1, <2>2, <2>3, SameRows DEF Stream!MoveOn, Stream!Bare
<1>5. CASE ~(seen[f] < n)
  BY <1>1, <1>2, <1>5 DEF Later, still
<1>6. QED
  BY <1>4, <1>5

LEMMA OthersAreStill ==
  ASSUME \/ \E p \in Publishers : WakeFollowers(p)
         \/ \E f \in Followers :
               \/ Follow(f) \/ ReadHead(f) \/ ReadPage(f) \/ NextPage(f)
               \/ EndPass(f) \/ TakeWake(f) \/ Target(f) \/ Close(f)
         \/ Crash \/ UNCHANGED vars
  PROVE  UNCHANGED still
BY DEF WakeFollowers, Follow, ReadHead, ReadPage, NextPage, EndPass, TakeWake,
   Target, Close, Crash, Drop, vars, table, consumer, still

LEMMA NextFeed == IInv /\ [Next]_vars => [Stream!Next]_(Stream!feedVars)
<1> SUFFICES ASSUME IInv, [Next]_vars
             PROVE  Stream!Next \/ UNCHANGED still
  BY DEF still, Stream!feedVars
<1>1. ASSUME NEW p \in Publishers, NEW e \in Events, Publish(p, e)
      PROVE  Stream!Next
  BY <1>1, PublishAppends DEF Stream!Next
<1>2. ASSUME NEW n \in 1..MaxAdvance, Advance(n)
      PROVE  Stream!Next \/ UNCHANGED still
  BY <1>2, AdvanceReserves DEF IInv, Stream!Next
<1>3. ASSUME NEW f \in Followers, Emit(f) PROVE Stream!Next
  BY <1>3, EmitGives DEF Stream!Next
<1>4. ASSUME NEW f \in Followers, Mark(f)
      PROVE  Stream!Next \/ UNCHANGED still
  BY <1>4, MarkMovesOn DEF Stream!Next
<1>5. QED
  BY <1>1, <1>2, <1>3, <1>4, OthersAreStill DEF Next, Reads

(* An id is stored once under a sequence of its own; every row is given    *)
(* once and in its order, over any number of streams; and no position      *)
(* moves over a row that was not given (event.ts:153-158, 623-636).        *)
THEOREM Refinement == Spec => ImplementsFeed
<1>1. Init => Stream!Init
  BY InitFeed
<1>2. IInv /\ [Next]_vars => [Stream!Next]_(Stream!feedVars)
  BY NextFeed
<1>3. QED
  BY <1>1, <1>2, Invariance, PTL DEF Spec, ImplementsFeed, Stream!Spec
=============================================================================
