---------------------------- MODULE PagingProofs ----------------------------
(***************************************************************************)
(* What a walk through the pages misses and repeats, for any rows, page    *)
(* size and clock.                                                         *)
(*                                                                         *)
(* The argument counts, for each row, the rows of the listing before it: a *)
(* page that begins at an offset shows the rows that have about as many    *)
(* before them, and that number changes only when a row before it comes    *)
(* into the listing or goes out.                                           *)
(***************************************************************************)
EXTENDS Paging, FiniteSetTheorems, TLAPS

Total == Cardinality(Ids)

Preceding(i) == {j \in listed : Before(j, i)}

-----------------------------------------------------------------------------
LEMMA SubsetIs ==
  ASSUME NEW S, S \subseteq Ids
  PROVE  /\ IsFiniteSet(S) /\ Cardinality(S) \in Nat
         /\ Cardinality(S) <= Total /\ Total \in Nat
<1>1. IsFiniteSet(Ids)
  BY PagingInstance
<1>2. IsFiniteSet(S) /\ Cardinality(S) <= Cardinality(Ids)
  BY <1>1, FS_Subset
<1>3. QED BY <1>1, <1>2, FS_CardinalityType DEF Total

LEMMA Smaller ==
  ASSUME NEW S, NEW T, T \subseteq Ids, S \subseteq T
  PROVE  /\ Cardinality(S) <= Cardinality(T)
         /\ Cardinality(S) = Cardinality(T) => S = T
<1>1. IsFiniteSet(T)
  BY SubsetIs
<1>2. QED BY <1>1, FS_Subset

LEMMA Joined ==
  ASSUME NEW S, NEW T, S \subseteq Ids, T \subseteq Ids, S \intersect T = {}
  PROVE  Cardinality(S \union T) = Cardinality(S) + Cardinality(T)
<1>1. IsFiniteSet(S) /\ IsFiniteSet(T) /\ Cardinality(S) \in Nat /\ Cardinality(T) \in Nat
  BY SubsetIs
<1>2. Cardinality(S \intersect T) = 0
  BY FS_EmptySet
<1>3. Cardinality(S \union T) = Cardinality(S) + Cardinality(T) - Cardinality(S \intersect T)
  BY <1>1, FS_Union
<1>4. Cardinality(S) + Cardinality(T) - 0 = Cardinality(S) + Cardinality(T)
  BY <1>1
<1>5. QED BY <1>2, <1>3, <1>4

LEMMA OffsetIs ==
  ASSUME NEW p \in Nat
  PROVE  /\ OffsetOf(p) \in Nat /\ OffsetOf(0) = 0
         /\ OffsetOf(p + 1) = OffsetOf(p) + Limit
         /\ p <= OffsetOf(p)
         /\ Limit \in Nat /\ Limit > 0
<1>1. Limit \in Nat /\ Limit >= 1
  BY PagingInstance
<1>2. \A q \in Nat : OffsetOf(q) = Limit * q
  BY <1>1 DEF OffsetOf
<1>3. Limit * (p + 1) = Limit * p + Limit /\ Limit * p \in Nat
  BY <1>1
<1>4. PICK l \in Nat : Limit = l + 1
  BY <1>1
<1>5. Limit * p = l * p + p /\ l * p \in Nat
  BY <1>4
<1>6. p <= Limit * p
  BY <1>5
<1>7. Limit * 0 = 0
  BY <1>1
<1>8. QED BY <1>1, <1>2, <1>3, <1>6, <1>7

\* The first n rows are n or all of them, and none of the others is before one
\* of them.
LEMMA FirstIs ==
  ASSUME NEW R, R \subseteq Ids, NEW n \in Nat, NEW B \in FirstOf(n, R)
  PROVE  /\ B \subseteq R /\ Cardinality(B) \in Nat /\ Cardinality(B) <= n
         /\ Cardinality(B) = n \/ B = R
         /\ \A i \in B, j \in R \ B : ~Before(j, i)
<1>1. /\ B \subseteq R
      /\ Cardinality(B) = IF n < Cardinality(R) THEN n ELSE Cardinality(R)
      /\ \A i \in B, j \in R \ B : ~Before(j, i)
  BY DEF FirstOf
<1>2. Cardinality(R) \in Nat /\ Cardinality(B) \in Nat
  BY <1>1, SubsetIs
<1>3. Cardinality(B) = Cardinality(R) => B = R
  BY <1>1, Smaller
<1>4. QED BY <1>1, <1>2, <1>3

\* Of two rows with times of their own one is before the other.
LEMMA Ordered ==
  ASSUME TypeOK, NEW i \in Ids, ~Tied(i), NEW j \in Ids, i # j
  PROVE  Before(i, j) \/ Before(j, i)
<1>1. created[i] \in Nat /\ created[j] \in Nat /\ created[i] # created[j]
  BY DEF TypeOK, Tied
<1>2. QED BY <1>1 DEF Before

LEMMA PrecedingIs ==
  ASSUME TypeOK, NEW i \in Ids
  PROVE  /\ Preceding(i) \subseteq listed /\ Preceding(i) \subseteq Ids /\ i \notin Preceding(i)
         /\ Cardinality(Preceding(i)) \in Nat
<1>1. listed \subseteq Ids /\ created[i] \in Nat
  BY DEF TypeOK
<1>2. i \notin Preceding(i)
  BY <1>1 DEF Preceding, Before
<1>3. QED BY <1>1, <1>2, SubsetIs DEF Preceding

\* A page that shows rows has all its offset before it.
LEMMA PageIs ==
  ASSUME TypeOK, NEW p \in Nat, NEW P \in PageOf(p)
  PROVE  /\ P \subseteq listed /\ Cardinality(P) \in Nat /\ Cardinality(P) <= Limit
         /\ Cardinality(P) > 0 => OffsetOf(p) + Cardinality(P) <= Cardinality(listed)
<1>1. listed \subseteq Ids /\ OffsetOf(p) \in Nat /\ Limit \in Nat
  BY OffsetIs DEF TypeOK
<1>2. PICK B \in FirstOf(OffsetOf(p), listed) : P \in FirstOf(Limit, listed \ B)
  BY DEF PageOf
<1>3. /\ B \subseteq listed /\ Cardinality(B) \in Nat
      /\ Cardinality(B) = OffsetOf(p) \/ B = listed
  BY <1>1, FirstIs
<1>4. P \subseteq listed \ B /\ Cardinality(P) \in Nat /\ Cardinality(P) <= Limit
  BY <1>1, <1>2, FirstIs
<1>5. Cardinality(B \union P) = Cardinality(B) + Cardinality(P)
  BY <1>1, <1>3, <1>4, Joined
<1>6. Cardinality(B \union P) <= Cardinality(listed)
  BY <1>1, <1>3, <1>4, Smaller
<1>7. B = listed => Cardinality(P) = 0
  BY <1>4, FS_EmptySet
<1>8. QED BY <1>1, <1>3, <1>4, <1>5, <1>6, <1>7

\* A row with a time of its own that is shown has the rows of the earlier pages
\* before it, and of its own page fewer than all.
LEMMA ShownAt ==
  ASSUME TypeOK, NEW p \in Nat, NEW P \in PageOf(p), NEW i \in P, ~Tied(i)
  PROVE  /\ OffsetOf(p) <= Cardinality(Preceding(i))
         /\ Cardinality(Preceding(i)) < OffsetOf(p) + Limit
<1>1. listed \subseteq Ids /\ OffsetOf(p) \in Nat /\ Limit \in Nat
  BY OffsetIs DEF TypeOK
<1>2. PICK B \in FirstOf(OffsetOf(p), listed) : P \in FirstOf(Limit, listed \ B)
  BY DEF PageOf
<1>3. /\ B \subseteq listed /\ Cardinality(B) \in Nat /\ Cardinality(B) <= OffsetOf(p)
      /\ Cardinality(B) = OffsetOf(p) \/ B = listed
      /\ \A k \in B, j \in listed \ B : ~Before(j, k)
  BY <1>1, FirstIs
<1>4. /\ P \subseteq listed \ B /\ Cardinality(P) \in Nat /\ Cardinality(P) <= Limit
      /\ \A k \in P, j \in (listed \ B) \ P : ~Before(j, k)
  BY <1>1, <1>2, FirstIs
<1>5. i \in Ids /\ i \in listed /\ i \notin B
  BY <1>1, <1>4
<1>6. Cardinality(B) = OffsetOf(p)
  BY <1>3, <1>5
<1>7. B \subseteq Preceding(i)
  <2> SUFFICES ASSUME NEW j \in B PROVE Before(j, i)
    BY <1>3 DEF Preceding
  <2>1. ~Before(i, j) /\ i # j /\ j \in Ids
    BY <1>1, <1>3, <1>5
  <2>2. QED BY <1>5, <2>1, Ordered
<1>8. Cardinality(B) <= Cardinality(Preceding(i))
  BY <1>5, <1>7, PrecedingIs, Smaller
<1>9. Preceding(i) \subseteq (B \union P) \ {i}
  BY <1>4, <1>5, PrecedingIs DEF Preceding
<1>10. Cardinality(B \union P) = Cardinality(B) + Cardinality(P)
  BY <1>1, <1>3, <1>4, Joined
<1>11. B \union P \subseteq Ids /\ i \in B \union P
  BY <1>1, <1>3, <1>4
<1>12. Cardinality((B \union P) \ {i}) = Cardinality(B \union P) - 1
  BY <1>11, SubsetIs, FS_RemoveElement
<1>13. Cardinality(Preceding(i)) <= Cardinality((B \union P) \ {i})
  BY <1>9, <1>11, Smaller
<1>14. Cardinality(Preceding(i)) \in Nat
  BY <1>5, PrecedingIs
<1>15. QED BY <1>1, <1>3, <1>4, <1>6, <1>8, <1>10, <1>12, <1>13, <1>14

\* A row with a time of its own that the pages have not come to is shown on the
\* next page, or that page is full of rows before it.
LEMMA PassedOver ==
  ASSUME TypeOK, NEW p \in Nat, NEW P \in PageOf(p), NEW i \in listed \ P, ~Tied(i),
         OffsetOf(p) <= Cardinality(Preceding(i))
  PROVE  /\ Cardinality(P) = Limit
         /\ OffsetOf(p) + Limit <= Cardinality(Preceding(i))
<1>1. listed \subseteq Ids /\ OffsetOf(p) \in Nat /\ Limit \in Nat /\ i \in Ids
  BY OffsetIs DEF TypeOK
<1>2. PICK B \in FirstOf(OffsetOf(p), listed) : P \in FirstOf(Limit, listed \ B)
  BY DEF PageOf
<1>3. /\ B \subseteq listed /\ Cardinality(B) \in Nat /\ Cardinality(B) <= OffsetOf(p)
      /\ Cardinality(B) = OffsetOf(p) \/ B = listed
      /\ \A k \in B, j \in listed \ B : ~Before(j, k)
  BY <1>1, FirstIs
<1>4. listed \ B \subseteq Ids
  BY <1>1
<1>5. /\ P \subseteq listed \ B /\ Cardinality(P) \in Nat /\ Cardinality(P) <= Limit
      /\ Cardinality(P) = Limit \/ P = listed \ B
      /\ \A k \in P, j \in (listed \ B) \ P : ~Before(j, k)
  BY <1>1, <1>2, <1>4, FirstIs
<1>6. i \notin B
  <2> SUFFICES ASSUME i \in B PROVE FALSE
    OBVIOUS
  <2>1. Preceding(i) \subseteq B \ {i}
    BY <1>1, <1>3, PrecedingIs DEF Preceding
  <2>2. B \subseteq Ids
    BY <1>1, <1>3
  <2>3. Cardinality(B \ {i}) = Cardinality(B) - 1
    BY <2>2, SubsetIs, FS_RemoveElement
  <2>4. Cardinality(Preceding(i)) <= Cardinality(B \ {i})
    BY <2>1, <2>2, Smaller
  <2>5. QED BY <1>1, <1>3, <2>3, <2>4, PrecedingIs
<1>7. Cardinality(B) = OffsetOf(p) /\ Cardinality(P) = Limit
  BY <1>3, <1>5, <1>6
<1>8. B \union P \subseteq Preceding(i)
  <2> SUFFICES ASSUME NEW j \in B \union P PROVE j \in Preceding(i)
    OBVIOUS
  <2>1. ~Before(i, j)
    BY <1>3, <1>5, <1>6
  <2>2. i # j /\ j \in Ids /\ j \in listed
    BY <1>1, <1>3, <1>5, <1>6
  <2>3. Before(j, i)
    BY <1>1, <2>1, <2>2, Ordered
  <2>4. QED BY <2>2, <2>3 DEF Preceding
<1>9. Cardinality(B \union P) = Cardinality(B) + Cardinality(P)
  BY <1>1, <1>3, <1>5, Joined
<1>10. Cardinality(B \union P) <= Cardinality(Preceding(i))
  BY <1>1, <1>8, PrecedingIs, Smaller
<1>11. QED BY <1>7, <1>9, <1>10

-----------------------------------------------------------------------------
(***************************************************************************)
(* The invariant.                                                          *)
(***************************************************************************)

Timed == {i \in Ids : created[i] # 0}

\* The rows a walk has to do with have a time.
Known ==
  /\ walk.base \subseteq Timed /\ walk.joined \subseteq Timed /\ walk.left \subseteq Timed
  /\ walk.shown \subseteq Timed /\ walk.again \subseteq Timed

Answering == walk.pc \in {"count", "answered"}

\* How many pages the walk has read.
PagesRead == IF Answering THEN walk.page + 1 ELSE walk.page

\* A walk that goes on to the next page has rows for the pages before it.
PageBound == Answering /\ walk.size = Limit => OffsetOf(walk.page) + Limit <= Total

JoinedBefore(i) == \E j \in walk.joined : Before(j, i)
LeftBefore(i) == \E j \in walk.left : Before(j, i)

\* A row that was shown stays within the pages read.
ShownBehind ==
  Walking => \A i \in walk.shown :
    \/ Tied(i) \/ JoinedBefore(i)
    \/ Cardinality(Preceding(i)) < OffsetOf(PagesRead)

\* A row that was not shown is still ahead of the pages read.
OthersAhead ==
  Walking /\ (walk.named \/ ~Logs) =>
    \A i \in walk.base \ (walk.left \union walk.shown) :
      /\ i \in listed
      /\ \/ Tied(i) \/ LeftBefore(i)
         \/ /\ OffsetOf(PagesRead) <= Cardinality(Preceding(i))
            /\ Answering => walk.size = Limit

\* The logs up to the end of the page are still there when they are counted.
CountAhead ==
  Logs /\ walk.pc = "count" /\ walk.size > 0 =>
    OffsetOf(walk.page) + walk.size <= Cardinality(listed)

PagingInv ==
  /\ TypeOK /\ Known /\ PageBound
  /\ ShownBehind /\ RepeatsHaveCause
  /\ OthersAhead
  /\ CountAhead /\ CountCoversPage

\* What a step of the table may do: times are kept, and the walk learns what
\* comes into the listing and goes out of it.
Moves ==
  /\ listing' = listing
  /\ TypeOK' /\ \A i \in Timed : created'[i] = created[i]
  /\ walk' = [walk EXCEPT !.joined = walk'.joined, !.left = walk'.left]
  /\ walk.joined \subseteq walk'.joined /\ walk.left \subseteq walk'.left
  /\ walk'.joined \subseteq walk.joined \union listed'
  /\ walk'.left \subseteq walk.left \union listed
  /\ Walking => listed' \ listed \subseteq walk'.joined /\ listed \ listed' \subseteq walk'.left
  /\ Logs => /\ listed \subseteq listed'
             /\ listed' = counted' => listed = counted

-----------------------------------------------------------------------------
LEMMA WalkIs ==
  ASSUME TypeOK
  PROVE  /\ walk.pc \in {"idle", "user", "page", "count", "answered"}
         /\ walk.page \in 0 .. Total /\ walk.size \in 0 .. Limit /\ walk.total \in 0 .. Total
         /\ walk.named \in BOOLEAN
         /\ walk.base \subseteq Ids /\ walk.joined \subseteq Ids /\ walk.left \subseteq Ids
         /\ walk.shown \subseteq Ids /\ walk.again \subseteq Ids
BY DEF TypeOK, Walks, Total

LEMMA TickMoves ==
  ASSUME TypeOK, Tick
  PROVE  Moves
<1>1. TypeOK'
  BY PagingInstance DEF TypeOK, Tick
<1>2. QED BY <1>1 DEF Moves, Tick, TypeOK, Walks

LEMMA CreateMoves ==
  ASSUME TypeOK, NEW i \in Ids, Create(i)
  PROVE  Moves
<1>1. /\ created' \in [Ids -> 0 .. MaxTime] /\ created'[i] # 0
      /\ \A j \in Ids : j # i => created'[j] = created[j]
      /\ \A j \in Timed : created'[j] = created[j]
  BY PagingInstance DEF TypeOK, Create, Timed
<1>2. i \notin stored
  BY DEF TypeOK, Create
<1>3. TypeOK'
  BY <1>1, <1>2 DEF TypeOK, Create
<1>4. QED BY <1>1, <1>3 DEF Moves, Create, TypeOK, Walks

LEMMA JoinIs ==
  ASSUME TypeOK, NEW i \in Ids, Join(i)
  PROVE  /\ walk' \in Walks /\ walk' = [walk EXCEPT !.joined = walk'.joined, !.left = walk'.left]
         /\ walk.joined \subseteq walk'.joined /\ walk'.left = walk.left
         /\ walk'.joined \subseteq walk.joined \union listed'
         /\ Walking => listed' \ listed \subseteq walk'.joined
         /\ listed' = listed \union {i}
BY DEF TypeOK, Walks, Join

LEMMA CommitMoves ==
  ASSUME TypeOK, NEW i \in Ids, Commit(i)
  PROVE  Moves
<1>1. i \notin listed /\ i \notin counted /\ i \in pending
  BY DEF TypeOK, Commit
<1>2. CASE Join(i)
  <2>1. TypeOK'
    BY <1>1, <1>2, JoinIs DEF TypeOK, Commit
  <2>2. listed' = counted' => listed = counted
    BY <1>1, <1>2, JoinIs DEF TypeOK, Commit
  <2>3. QED BY <1>2, <2>1, <2>2, JoinIs DEF Moves, Commit
<1>3. CASE UNCHANGED <<listed, counted, walk>>
  <2>1. TypeOK'
    BY <1>3 DEF TypeOK, Commit
  <2>2. walk' = [walk EXCEPT !.joined = walk'.joined, !.left = walk'.left]
    BY <1>3 DEF TypeOK, Walks
  <2>3. QED BY <1>3, <2>1, <2>2 DEF Moves, Commit
<1>4. QED BY <1>2, <1>3 DEF Commit

LEMMA LeaveIs ==
  ASSUME TypeOK, NEW i \in Ids, Leave(i)
  PROVE  /\ walk' \in Walks /\ walk' = [walk EXCEPT !.joined = walk'.joined, !.left = walk'.left]
         /\ walk.left \subseteq walk'.left /\ walk'.joined = walk.joined
         /\ walk'.left \subseteq walk.left \union listed
         /\ Walking => listed \ listed' \subseteq walk'.left
         /\ listed' \subseteq listed /\ counted' \subseteq listed' /\ i \notin listed'
BY DEF TypeOK, Walks, Leave

LEMMA EditMoves ==
  ASSUME TypeOK, NEW i \in Ids, Edit(i)
  PROVE  Moves
<1>1. CASE i \in listed
  <2>1. TypeOK'
    BY <1>1, LeaveIs DEF TypeOK, Edit
  <2>2. QED BY <1>1, <2>1, LeaveIs DEF Moves, Edit
<1>2. CASE i \notin listed
  <2>1. Join(i)
    BY <1>2 DEF Edit
  <2>2. TypeOK'
    BY <1>2, <2>1, JoinIs DEF TypeOK, Edit
  <2>3. QED BY <1>2, <2>1, <2>2, JoinIs DEF Moves, Edit
<1>3. QED BY <1>1, <1>2

LEMMA EraseMoves ==
  ASSUME TypeOK, NEW i \in Ids, Erase(i)
  PROVE  Moves
<1>1. TypeOK'
  BY LeaveIs DEF TypeOK, Erase
<1>2. QED BY <1>1, LeaveIs DEF Moves, Erase

-----------------------------------------------------------------------------
LEMMA MovedWalk ==
  ASSUME TypeOK, Moves
  PROVE  /\ walk'.pc = walk.pc /\ walk'.page = walk.page /\ walk'.size = walk.size
         /\ walk'.total = walk.total /\ walk'.named = walk.named /\ walk'.base = walk.base
         /\ walk'.shown = walk.shown /\ walk'.again = walk.again
BY DEF TypeOK, Walks, Moves

\* Rows with a time keep their order and their ties, and a row that was before
\* another one because it came in or went out is so for good.
LEMMA OrderKept ==
  ASSUME TypeOK, Known, Moves, NEW i \in Timed
  PROVE  /\ i \in Timed' /\ \A j \in Timed : Before(j, i)' <=> Before(j, i)
         /\ Tied(i) => Tied(i)'
         /\ JoinedBefore(i) => JoinedBefore(i)'
         /\ LeftBefore(i) => LeftBefore(i)'
<1>1. i \in Ids /\ created'[i] = created[i] /\ i \in Timed'
  BY DEF Moves, Timed
<1>2. \A j \in Timed : Before(j, i)' <=> Before(j, i)
  BY <1>1 DEF Before, Logs, Moves
<1>3. Tied(i) => Tied(i)'
  <2> SUFFICES ASSUME NEW j \in Ids \ {i}, created[j] = created[i] PROVE Tied(i)'
    BY DEF Tied
  <2>1. j \in Timed /\ created'[j] = created[j]
    BY <1>1 DEF Timed, Moves
  <2>2. QED BY <1>1, <2>1 DEF Tied
<1>4. JoinedBefore(i) => JoinedBefore(i)'
  BY <1>2 DEF Known, JoinedBefore, Moves
<1>5. LeftBefore(i) => LeftBefore(i)'
  BY <1>2 DEF Known, LeftBefore, Moves
<1>6. QED BY <1>1, <1>2, <1>3, <1>4, <1>5

\* The rows before a row change only by one that came in or went out.
LEMMA PrecedingKept ==
  ASSUME TypeOK, Known, Moves, Walking, NEW i \in Timed
  PROVE  /\ ~JoinedBefore(i)' => Cardinality(Preceding(i)') <= Cardinality(Preceding(i))
         /\ ~LeftBefore(i)' => Cardinality(Preceding(i)) <= Cardinality(Preceding(i)')
         /\ Cardinality(Preceding(i)) \in Nat /\ Cardinality(Preceding(i)') \in Nat
<1>1. i \in Ids /\ listed \subseteq Timed /\ listed' \subseteq Ids /\ listed \subseteq Ids
  BY DEF Timed, TypeOK, Moves
<1>2. Preceding(i) \subseteq Ids /\ Preceding(i)' \subseteq Ids
  BY <1>1 DEF Preceding
<1>3. ~JoinedBefore(i)' => Preceding(i)' \subseteq Preceding(i)
  BY <1>1, OrderKept DEF Preceding, JoinedBefore, Moves
<1>4. ~LeftBefore(i)' => Preceding(i) \subseteq Preceding(i)'
  BY <1>1, OrderKept DEF Preceding, LeftBefore, Moves
<1>5. QED BY <1>2, <1>3, <1>4, Smaller, SubsetIs

LEMMA TableStep ==
  ASSUME PagingInv, Moves
  PROVE  PagingInv'
<1> USE MovedWalk DEF PagingInv
<1>1. TypeOK'
  BY DEF Moves
<1>2. Timed \subseteq Timed' /\ listed \subseteq Timed /\ listed' \subseteq Timed'
  <2>1. Timed \subseteq Timed'
    BY OrderKept
  <2>2. QED BY <1>1, <2>1 DEF TypeOK, Timed
<1>3. Known'
  BY <1>2 DEF Known, Moves
<1>4. /\ Answering' = Answering /\ PagesRead' = PagesRead /\ Walking' = Walking
      /\ Logs' = Logs
  BY DEF Answering, PagesRead, Walking, Logs, Moves
<1>5. PageBound'
  BY <1>4 DEF PageBound, OffsetOf, Total
<1>6. OffsetOf(PagesRead)' = OffsetOf(PagesRead) /\ OffsetOf(PagesRead) \in Nat
  <2>1. PagesRead \in Nat
    BY WalkIs, SubsetIs DEF PagesRead
  <2>2. QED BY <1>4, <2>1, OffsetIs DEF OffsetOf
<1>7. ShownBehind'
  <2> SUFFICES ASSUME Walking', NEW i \in walk.shown, ~Tied(i)', ~JoinedBefore(i)'
               PROVE  Cardinality(Preceding(i)') < OffsetOf(PagesRead)'
    BY DEF ShownBehind
  <2>1. i \in Timed /\ Walking
    BY <1>4 DEF Known
  <2>2. Cardinality(Preceding(i)) < OffsetOf(PagesRead)
    BY <2>1, OrderKept DEF ShownBehind
  <2>3. QED BY <1>6, <2>1, <2>2, PrecedingKept
<1>8. RepeatsHaveCause'
  <2> SUFFICES ASSUME Walking', NEW i \in walk.again PROVE Tied(i)' \/ JoinedBefore(i)'
    BY DEF RepeatsHaveCause, JoinedBefore
  <2>1. i \in Timed /\ Walking
    BY <1>4 DEF Known
  <2>2. Tied(i) \/ JoinedBefore(i)
    BY <2>1 DEF RepeatsHaveCause, JoinedBefore
  <2>3. QED BY <2>1, <2>2, OrderKept
<1>9. OthersAhead'
  <2> SUFFICES ASSUME Walking', walk.named \/ ~Logs,
                      NEW i \in walk.base \ (walk'.left \union walk.shown)
               PROVE  /\ i \in listed'
                      /\ \/ Tied(i)' \/ LeftBefore(i)'
                         \/ /\ OffsetOf(PagesRead)' <= Cardinality(Preceding(i)')
                            /\ Answering' => walk'.size = Limit
    BY <1>4 DEF OthersAhead
  <2>1. i \in Timed /\ Walking /\ i \in walk.base \ (walk.left \union walk.shown)
    BY <1>4 DEF Known, Moves
  <2>2. i \in listed /\ (Tied(i) \/ LeftBefore(i)
          \/ (OffsetOf(PagesRead) <= Cardinality(Preceding(i)) /\ (Answering => walk.size = Limit)))
    BY <2>1 DEF OthersAhead
  <2>3. i \in listed'
    BY <2>1, <2>2 DEF Moves
  <2>4. QED BY <1>4, <1>6, <2>1, <2>2, <2>3, OrderKept, PrecedingKept
<1>10. CountAhead'
  <2> SUFFICES ASSUME Logs, walk.pc = "count", walk.size > 0
               PROVE  OffsetOf(walk.page) + walk.size <= Cardinality(listed')
    BY <1>4 DEF CountAhead, OffsetOf
  <2>1. listed \subseteq listed' /\ listed' \subseteq Ids /\ listed \subseteq Ids
    BY <1>1 DEF Moves, TypeOK
  <2>2. /\ Cardinality(listed) <= Cardinality(listed')
        /\ Cardinality(listed) \in Nat /\ Cardinality(listed') \in Nat
    BY <2>1, Smaller, SubsetIs
  <2>3. OffsetOf(walk.page) \in Nat /\ walk.size \in Nat
    BY WalkIs, OffsetIs, SubsetIs
  <2>4. QED BY <2>2, <2>3 DEF CountAhead
<1>11. CountCoversPage'
  BY <1>4 DEF CountCoversPage, OffsetOf, Moves
<1>12. QED BY <1>1, <1>3, <1>5, <1>7, <1>8, <1>9, <1>10, <1>11

-----------------------------------------------------------------------------
\* The steps of the client leave the table alone.
Table == <<listing, now, created, pending, stored, listed, counted>>

LEMMA TableKept ==
  ASSUME UNCHANGED Table
  PROVE  /\ Logs' = Logs /\ Timed' = Timed
         /\ \A i, j \in Ids : Before(i, j)' <=> Before(i, j)
         /\ \A i \in Ids : (Tied(i)' <=> Tied(i)) /\ Preceding(i)' = Preceding(i)
         /\ TypeOK /\ walk' \in Walks => TypeOK'
BY DEF Table, Logs, Timed, Before, Tied, Preceding, TypeOK

\* A walk that has shown nothing and begins with the first page, or is of no
\* use for what it misses.
LEMMA FreshWalk ==
  ASSUME TypeOK, UNCHANGED Table, walk' \in Walks,
         walk'.pc \in {"idle", "user"}, walk'.base \subseteq listed,
         walk'.joined = {}, walk'.left = {}, walk'.shown = {}, walk'.again = {},
         walk'.named \/ ~Logs => walk'.page = 0
  PROVE  PagingInv'
<1>1. /\ TypeOK' /\ Logs' = Logs /\ Timed' = Timed /\ Answering' = FALSE
      /\ listed \subseteq Timed /\ listed' = listed
  BY TableKept DEF Table, Answering, TypeOK, Timed
<1>2. Known' /\ PageBound' /\ ShownBehind' /\ RepeatsHaveCause' /\ CountAhead' /\ CountCoversPage'
  BY <1>1 DEF Known, PageBound, ShownBehind, RepeatsHaveCause, CountAhead, CountCoversPage
<1>3. OthersAhead'
  <2> SUFFICES ASSUME walk'.named \/ ~Logs, NEW i \in walk'.base
               PROVE  i \in listed' /\ OffsetOf(PagesRead)' <= Cardinality(Preceding(i)')
    BY <1>1 DEF OthersAhead
  <2>1. OffsetOf(PagesRead)' = 0
    BY <1>1, OffsetIs DEF PagesRead, OffsetOf
  <2>2. i \in Ids /\ i \in listed
    BY DEF TypeOK
  <2>3. Cardinality(Preceding(i)') \in Nat
    BY <2>2, PrecedingIs, TableKept
  <2>4. QED BY <1>1, <2>1, <2>2, <2>3
<1>4. QED BY <1>1, <1>2, <1>3 DEF PagingInv

LEMMA NoWalkIs ==
  NoWalk \in Walks
<1>1. Cardinality(Ids) \in Nat /\ Limit \in Nat
  BY SubsetIs, PagingInstance DEF Total
<1>2. 0 \in 0 .. Limit /\ 0 \in 0 .. Cardinality(Ids)
  BY <1>1
<1>3. QED BY <1>2 DEF NoWalk, Walks

LEMMA TotalIs == Total \in Nat /\ Total >= 1
<1>1. Total \in Nat /\ IsFiniteSet(Ids)
  BY SubsetIs, PagingInstance
<1>2. Total # 0
  BY <1>1, PagingInstance, FS_EmptySet DEF Total
<1>3. QED BY <1>1, <1>2

LEMMA StartStep ==
  ASSUME PagingInv, StartWalk
  PROVE  PagingInv'
<1>1. PICK named \in BOOLEAN :
        Ask(IF named THEN 0 ELSE DefaultPage, [NoWalk EXCEPT !.named = named, !.base = listed])
  BY DEF StartWalk
<1> DEFINE page == IF named THEN 0 ELSE DefaultPage
<1>2. page \in 0 .. Total /\ (named \/ ~Logs => page = 0)
  BY TotalIs DEF DefaultPage
<1>3. walk' = [pc |-> "user", page |-> page, size |-> 0, total |-> 0, named |-> named,
               base |-> listed, joined |-> {}, left |-> {}, shown |-> {}, again |-> {}]
  BY <1>1 DEF Ask, NoWalk
<1> HIDE DEF page
<1>4. listed \subseteq Ids /\ 0 \in 0 .. Limit
  BY OffsetIs DEF PagingInv, TypeOK
<1>5. walk' \in Walks
  BY <1>2, <1>3, <1>4, TotalIs DEF Walks, Total
<1>6. QED BY <1>2, <1>3, <1>5, FreshWalk DEF PagingInv, StartWalk, Table

\* A step of the client that goes on with the walk it has.
LEMMA SameWalk ==
  ASSUME PagingInv, UNCHANGED Table, walk' \in Walks, Walking,
         ~Answering', PagesRead' = PagesRead,
         walk'.named = walk.named, walk'.base = walk.base,
         walk'.joined = walk.joined, walk'.left = walk.left,
         walk'.shown = walk.shown, walk'.again = walk.again
  PROVE  PagingInv'
<1> USE DEF PagingInv
<1>1. TypeOK' /\ Logs' = Logs /\ Timed' = Timed
  BY TableKept
<1>2. Known'
  BY <1>1 DEF Known
<1>3. PageBound' /\ CountAhead' /\ CountCoversPage'
  BY DEF PageBound, CountAhead, CountCoversPage, Answering
<1>4. OffsetOf(PagesRead)' = OffsetOf(PagesRead)
  BY DEF OffsetOf
<1>5. \A i \in Ids :
       /\ JoinedBefore(i)' <=> JoinedBefore(i)
       /\ LeftBefore(i)' <=> LeftBefore(i)
       /\ Tied(i)' <=> Tied(i)
       /\ Preceding(i)' = Preceding(i)
  BY TableKept, WalkIs DEF JoinedBefore, LeftBefore
<1>6. ShownBehind'
  BY <1>4, <1>5, WalkIs DEF ShownBehind
<1>7. RepeatsHaveCause'
  BY <1>5, WalkIs DEF RepeatsHaveCause, JoinedBefore
<1>8. OthersAhead'
  BY <1>1, <1>4, <1>5, WalkIs DEF OthersAhead, Table
<1>9. QED BY <1>1, <1>2, <1>3, <1>6, <1>7, <1>8

LEMMA NextStep ==
  ASSUME PagingInv, NextPage
  PROVE  PagingInv'
<1>1. walk.pc = "answered" /\ walk.size = Limit /\ walk.page \in 0 .. Total
  <2>1. walk.pc = "answered" /\ ~(walk.size < Limit)
    BY DEF NextPage, Finished
  <2>2. walk.size \in 0 .. Limit /\ walk.page \in 0 .. Total
    BY WalkIs DEF PagingInv
  <2>3. QED BY <2>1, <2>2, PagingInstance
<1>2. walk.page + 1 \in 0 .. Total
  <2>1. OffsetOf(walk.page) + Limit <= Total
    BY <1>1 DEF PagingInv, PageBound, Answering
  <2>2. QED BY <1>1, <2>1, OffsetIs, TotalIs
<1>3. walk' = [walk EXCEPT !.pc = "user", !.page = walk.page + 1]
  BY DEF NextPage, Ask
<1>4. walk' \in Walks
  BY <1>2, <1>3 DEF PagingInv, TypeOK, Walks, Total
<1>5. /\ walk'.pc = "user" /\ walk'.page = walk.page + 1
      /\ walk'.named = walk.named /\ walk'.base = walk.base
      /\ walk'.joined = walk.joined /\ walk'.left = walk.left
      /\ walk'.shown = walk.shown /\ walk'.again = walk.again
  BY <1>3 DEF PagingInv, TypeOK, Walks
<1>6. Walking /\ ~Answering' /\ PagesRead' = PagesRead
  BY <1>1, <1>5 DEF Walking, Answering, PagesRead
<1>7. QED BY <1>4, <1>5, <1>6, SameWalk DEF NextPage, Table

LEMMA UserStep ==
  ASSUME PagingInv, FindUser
  PROVE  PagingInv'
<1>1. CASE walk' = [walk EXCEPT !.pc = "page"]
  <2>1. walk' \in Walks
    BY <1>1 DEF PagingInv, TypeOK, Walks
  <2>2. /\ walk'.pc = "page" /\ walk'.page = walk.page
        /\ walk'.named = walk.named /\ walk'.base = walk.base
        /\ walk'.joined = walk.joined /\ walk'.left = walk.left
        /\ walk'.shown = walk.shown /\ walk'.again = walk.again
    BY <1>1 DEF PagingInv, TypeOK, Walks
  <2>3. Walking /\ ~Answering' /\ PagesRead' = PagesRead
    BY <2>2 DEF Walking, Answering, PagesRead, FindUser
  <2>4. QED BY <2>1, <2>2, <2>3, SameWalk DEF FindUser, Table
<1>2. CASE walk' = NoWalk
  <2>1. /\ NoWalk.pc = "idle" /\ NoWalk.base = {} /\ NoWalk.joined = {} /\ NoWalk.left = {}
        /\ NoWalk.shown = {} /\ NoWalk.again = {} /\ NoWalk.page = 0
    BY DEF NoWalk
  <2>2. QED BY <1>2, <2>1, NoWalkIs, FreshWalk DEF PagingInv, FindUser, Table
<1>3. QED BY <1>1, <1>2 DEF FindUser

LEMMA ReadStep ==
  ASSUME PagingInv, ReadPage
  PROVE  PagingInv'
<1> USE DEF PagingInv
<1>1. PICK P \in PageOf(walk.page) :
        walk' = [walk EXCEPT
          !.pc = IF Logs THEN "count" ELSE "answered",
          !.size = Cardinality(P), !.total = Cardinality(P),
          !.shown = @ \union P, !.again = @ \union (walk.shown \intersect P)]
  BY DEF ReadPage
<1>2. PICK p \in Nat : p = walk.page
  BY WalkIs, TotalIs
<1>3. /\ P \subseteq listed /\ Cardinality(P) \in Nat /\ Cardinality(P) <= Limit
      /\ Cardinality(P) > 0 => OffsetOf(p) + Cardinality(P) <= Cardinality(listed)
      /\ P \in PageOf(p)
  BY <1>1, <1>2, PageIs
<1>4. /\ listed \subseteq Ids /\ listed \subseteq Timed /\ Cardinality(listed) \in Nat
      /\ Cardinality(listed) <= Total /\ Total \in Nat
      /\ Limit \in Nat /\ Limit > 0 /\ OffsetOf(p) \in Nat
      /\ OffsetOf(p + 1) = OffsetOf(p) + Limit
  <2>1. listed \subseteq Ids /\ listed \subseteq Timed
    BY DEF TypeOK, Timed
  <2>2. QED BY <2>1, SubsetIs, OffsetIs
<1>5. /\ walk'.pc = (IF Logs THEN "count" ELSE "answered") /\ walk'.page = p
      /\ walk'.size = Cardinality(P) /\ walk'.total = Cardinality(P)
      /\ walk'.named = walk.named /\ walk'.base = walk.base
      /\ walk'.joined = walk.joined /\ walk'.left = walk.left
      /\ walk'.shown = walk.shown \union P
      /\ walk'.again = walk.again \union (walk.shown \intersect P)
  BY <1>1, <1>2 DEF TypeOK, Walks
<1>6. walk' \in Walks
  <2>1. Cardinality(P) \in 0 .. Limit /\ Cardinality(P) \in 0 .. Cardinality(Ids)
    <3>1. P \subseteq Ids
      BY <1>3, <1>4
    <3>2. QED BY <1>3, <1>4, <3>1, SubsetIs DEF Total
  <2>2. walk.shown \union P \subseteq Ids /\ walk.again \union (walk.shown \intersect P) \subseteq Ids
    BY <1>3, <1>4, WalkIs
  <2>3. QED BY <1>1, <2>1, <2>2 DEF TypeOK, Walks
<1>7. UNCHANGED Table /\ listed' = listed /\ counted' = counted
  BY DEF ReadPage, Table
<1>8. TypeOK' /\ Logs' = Logs /\ Timed' = Timed
  BY <1>6, <1>7, TableKept
<1>9. Walking /\ ~Answering /\ PagesRead = p /\ Answering' /\ PagesRead' = p + 1
  BY <1>2, <1>5 DEF ReadPage, Walking, Answering, PagesRead
<1>10. Known'
  BY <1>3, <1>4, <1>5, <1>8 DEF Known
<1>11. PageBound'
  BY <1>3, <1>4, <1>5 DEF PageBound, OffsetOf
<1>12. OffsetOf(PagesRead)' = OffsetOf(p) + Limit /\ OffsetOf(PagesRead) = OffsetOf(p)
  BY <1>4, <1>9 DEF OffsetOf
<1>13. \A i \in Ids :
       /\ JoinedBefore(i)' <=> JoinedBefore(i)
       /\ LeftBefore(i)' <=> LeftBefore(i)
       /\ Tied(i)' <=> Tied(i)
       /\ Preceding(i)' = Preceding(i)
  BY <1>5, <1>7, TableKept, WalkIs DEF JoinedBefore, LeftBefore
<1>14. ShownBehind'
  <2> SUFFICES ASSUME NEW i \in walk'.shown, ~Tied(i)', ~JoinedBefore(i)'
               PROVE  Cardinality(Preceding(i)') < OffsetOf(PagesRead)'
    BY DEF ShownBehind
  <2>1. i \in Ids /\ Cardinality(Preceding(i)) \in Nat
    BY <1>3, <1>4, <1>5, WalkIs, PrecedingIs
  <2>2. CASE i \in walk.shown
    <3>1. Cardinality(Preceding(i)) < OffsetOf(p)
      BY <1>9, <1>12, <1>13, <2>1, <2>2 DEF ShownBehind
    <3>2. QED BY <1>4, <1>12, <1>13, <2>1, <3>1
  <2>3. CASE i \in P
    <3>1. Cardinality(Preceding(i)) < OffsetOf(p) + Limit
      BY <1>3, <1>13, <2>1, <2>3, ShownAt
    <3>2. QED BY <1>12, <1>13, <2>1, <3>1
  <2>4. QED BY <1>5, <2>2, <2>3
<1>15. RepeatsHaveCause'
  <2> SUFFICES ASSUME NEW i \in walk'.again, ~Tied(i)', ~JoinedBefore(i)'
               PROVE  FALSE
    BY DEF RepeatsHaveCause, JoinedBefore
  <2>1. i \in Ids /\ Cardinality(Preceding(i)) \in Nat
    BY <1>3, <1>4, <1>5, WalkIs, PrecedingIs
  <2>2. CASE i \in walk.again
    BY <1>9, <1>13, <2>1, <2>2 DEF RepeatsHaveCause, JoinedBefore
  <2>3. CASE i \in walk.shown \intersect P
    <3>1. Cardinality(Preceding(i)) < OffsetOf(p)
      BY <1>9, <1>12, <1>13, <2>1, <2>3 DEF ShownBehind
    <3>2. OffsetOf(p) <= Cardinality(Preceding(i))
      BY <1>3, <1>13, <2>1, <2>3, ShownAt
    <3>3. QED BY <1>4, <2>1, <3>1, <3>2
  <2>4. QED BY <1>5, <2>2, <2>3
<1>16. OthersAhead'
  <2> SUFFICES ASSUME walk.named \/ ~Logs,
                      NEW i \in walk.base \ (walk.left \union (walk.shown \union P))
               PROVE  /\ i \in listed'
                      /\ \/ Tied(i)' \/ LeftBefore(i)'
                         \/ /\ OffsetOf(PagesRead)' <= Cardinality(Preceding(i)')
                            /\ walk'.size = Limit
    BY <1>5, <1>8 DEF OthersAhead
  <2>1. /\ i \in Ids /\ i \in listed /\ i \notin P
        /\ Tied(i) \/ LeftBefore(i) \/ OffsetOf(p) <= Cardinality(Preceding(i))
    BY <1>9, <1>12, WalkIs DEF OthersAhead
  <2>2. CASE Tied(i) \/ LeftBefore(i)
    BY <1>7, <1>13, <2>1, <2>2
  <2>3. CASE ~Tied(i) /\ ~LeftBefore(i)
    <3>1. Cardinality(P) = Limit /\ OffsetOf(p) + Limit <= Cardinality(Preceding(i))
      BY <1>3, <2>1, <2>3, PassedOver
    <3>2. QED BY <1>5, <1>7, <1>12, <1>13, <2>1, <3>1
  <2>4. QED BY <2>2, <2>3
<1>17. CountAhead'
  BY <1>3, <1>5, <1>7 DEF CountAhead, OffsetOf
<1>18. CountCoversPage'
  BY <1>5, <1>8 DEF CountCoversPage
<1>19. QED BY <1>8, <1>10, <1>11, <1>14, <1>15, <1>16, <1>17, <1>18

LEMMA CountStep ==
  ASSUME PagingInv, Count
  PROVE  PagingInv'
<1> USE DEF PagingInv
<1>1. /\ walk.pc = "count" /\ walk' = [walk EXCEPT !.pc = "answered", !.total = Cardinality(counted)]
      /\ UNCHANGED Table /\ listed' = listed /\ counted' = counted
  BY DEF Count, CountRows, Table
<1>2. /\ walk'.pc = "answered" /\ walk'.total = Cardinality(counted)
      /\ walk'.page = walk.page /\ walk'.size = walk.size
      /\ walk'.named = walk.named /\ walk'.base = walk.base
      /\ walk'.joined = walk.joined /\ walk'.left = walk.left
      /\ walk'.shown = walk.shown /\ walk'.again = walk.again
  BY <1>1 DEF TypeOK, Walks
<1>3. walk' \in Walks
  <2>1. counted \subseteq Ids
    BY DEF TypeOK
  <2>2. Cardinality(counted) \in 0 .. Cardinality(Ids)
    BY <2>1, SubsetIs DEF Total
  <2>3. QED BY <1>1, <2>2 DEF TypeOK, Walks
<1>4. TypeOK' /\ Logs' = Logs /\ Timed' = Timed
  BY <1>1, <1>3, TableKept
<1>5. Walking /\ Answering /\ Answering' /\ PagesRead' = PagesRead
  BY <1>1, <1>2 DEF Walking, Answering, PagesRead
<1>6. OffsetOf(PagesRead)' = OffsetOf(PagesRead) /\ OffsetOf(walk.page)' = OffsetOf(walk.page)
  BY <1>2, <1>5 DEF OffsetOf
<1>7. \A i \in Ids :
       /\ JoinedBefore(i)' <=> JoinedBefore(i)
       /\ LeftBefore(i)' <=> LeftBefore(i)
       /\ Tied(i)' <=> Tied(i)
       /\ Preceding(i)' = Preceding(i)
  BY <1>1, <1>2, TableKept, WalkIs DEF JoinedBefore, LeftBefore
<1>8. Known' /\ PageBound'
  BY <1>2, <1>4, <1>5, <1>6 DEF Known, PageBound
<1>9. ShownBehind'
  BY <1>2, <1>5, <1>6, <1>7, WalkIs DEF ShownBehind
<1>10. RepeatsHaveCause'
  BY <1>2, <1>5, <1>7, WalkIs DEF RepeatsHaveCause, JoinedBefore
<1>11. OthersAhead'
  BY <1>1, <1>2, <1>4, <1>5, <1>6, <1>7, WalkIs DEF OthersAhead
<1>12. CountAhead'
  BY <1>2 DEF CountAhead
<1>13. CountCoversPage'
  BY <1>1, <1>2, <1>4, <1>6 DEF CountCoversPage, CountAhead
<1>14. QED BY <1>4, <1>8, <1>9, <1>10, <1>11, <1>12, <1>13

-----------------------------------------------------------------------------
LEMMA InitInv == Init => PagingInv
<1> SUFFICES ASSUME Init PROVE PagingInv
  OBVIOUS
<1>1. /\ walk = NoWalk /\ listed = {} /\ counted = {}
      /\ walk.pc = "idle" /\ walk.base = {} /\ walk.joined = {} /\ walk.left = {}
      /\ walk.shown = {} /\ walk.again = {} /\ walk.size = 0
  BY DEF Init, NoWalk
<1>2. TypeOK
  BY NoWalkIs, PagingInstance DEF Init, TypeOK
<1>3. QED
  BY <1>1, <1>2
  DEF PagingInv, Known, PageBound, ShownBehind, RepeatsHaveCause, OthersAhead, CountAhead,
      CountCoversPage, Walking, Answering

LEMMA StepInv == PagingInv /\ [Next]_vars => PagingInv'
<1> SUFFICES ASSUME PagingInv, [Next]_vars PROVE PagingInv'
  OBVIOUS
<1> USE DEF PagingInv
<1>1. CASE Tick
  BY <1>1, TickMoves, TableStep
<1>2. ASSUME NEW i \in Ids, Create(i) \/ Commit(i) \/ Edit(i) \/ Erase(i) PROVE PagingInv'
  <2>1. Moves
    BY <1>2, CreateMoves, CommitMoves, EditMoves, EraseMoves
  <2>2. QED BY <2>1, TableStep
<1>3. CASE StartWalk
  BY <1>3, StartStep
<1>4. CASE NextPage
  BY <1>4, NextStep
<1>5. CASE FindUser
  BY <1>5, UserStep
<1>6. CASE ReadPage
  BY <1>6, ReadStep
<1>7. CASE Count
  BY <1>7, CountStep
<1>8. CASE UNCHANGED vars
  <2>1. /\ listing' = listing /\ created' = created /\ listed' = listed /\ counted' = counted
        /\ walk' = walk /\ walk = [walk EXCEPT !.joined = walk.joined, !.left = walk.left]
    BY <1>8 DEF vars, TypeOK, Walks
  <2>2. TypeOK'
    BY <1>8 DEF vars, TypeOK
  <2>3. Moves
    BY <2>1, <2>2 DEF Moves
  <2>4. QED BY <2>3, TableStep
<1>9. QED BY <1>1, <1>2, <1>3, <1>4, <1>5, <1>6, <1>7, <1>8 DEF Next

LEMMA Invariant == Spec => []PagingInv
BY InitInv, StepInv, PTL DEF Spec

\* Whatever rows, page size and clock: a walk asks for no page beyond the rows
\* there can be, and what is listed and counted is stored.
THEOREM TypeCorrect == Spec => []TypeOK
<1>1. PagingInv => TypeOK
  BY DEF PagingInv
<1>2. QED BY <1>1, Invariant, PTL

\* For any number of rows and any page size, a walk from the first page to the
\* last shows every row that was listed all the time and has a created_at of its
\* own, unless a row before it went out of the listing meanwhile.
THEOREM MissesAlwaysCaused == Spec => []MissesHaveCause
<1>1. PagingInv => MissesHaveCause
  <2> SUFFICES ASSUME PagingInv, Finished, walk.named \/ ~Logs,
                      NEW i \in walk.base \ (walk.left \union walk.shown)
               PROVE  Tied(i) \/ LeftBefore(i)
    BY DEF MissesHaveCause, LeftBefore
  <2>1. Walking /\ Answering /\ walk.size # Limit
    BY OffsetIs, WalkIs DEF Finished, Walking, Answering, PagingInv
  <2>2. QED BY <2>1 DEF PagingInv, OthersAhead
<1>2. QED BY <1>1, Invariant, PTL

\* For any number of rows and any page size, a walk shows a row with a
\* created_at of its own twice only if a row before it came into the listing.
THEOREM RepeatsAlwaysCaused == Spec => []RepeatsHaveCause
<1>1. PagingInv => RepeatsHaveCause
  BY DEF PagingInv
<1>2. QED BY <1>1, Invariant, PTL

\* For any number of logs and any page size, the count that comes with a page
\* covers the rows up to its end, unless it leaves out a row listed.
THEOREM CountAlwaysCovers == Spec => []CountCoversPage
<1>1. PagingInv => CountCoversPage
  BY DEF PagingInv
<1>2. QED BY <1>1, Invariant, PTL
=============================================================================
