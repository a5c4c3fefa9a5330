------------------------------- MODULE Paging -------------------------------
(***************************************************************************)
(* The listings: GET forms-ptp, laudos-crm, laudos-crm/ptp/:id and         *)
(* app-logs/all, read page by page by a client while other requests        *)
(* insert, change and delete rows.                                         *)
(*                                                                         *)
(* Each page is a query of its own with ORDER BY created_at, LIMIT and     *)
(* OFFSET, so a walk is a sequence of looks at a table that moves.  A      *)
(* removal leaves the listings alone: none looks at canceled_at.           *)
(***************************************************************************)
EXTENDS Naturals, FiniteSets

CONSTANTS
  Ids,        \* ids of rows: bounds the inserts
  Limit,      \* the page size of the client
  MaxTime,    \* bounds the clock
  Listings    \* the listings of this instance

AllListings == {"forms", "laudos", "laudosOfForm", "logs"}

ASSUME PagingInstance ==
  /\ IsFiniteSet(Ids) /\ Ids # {}
  /\ Limit \in Nat \ {0}
  /\ MaxTime \in Nat \ {0}
  /\ Listings \subseteq AllListings

VARIABLES
  listing,    \* the listing this behaviour is about
  now,        \* the clock, in the unit of created_at (a millisecond)
  created,    \* created_at of each row; 0 when it has none yet
  pending,    \* rows whose insert is not committed
  stored,     \* rows stored
  listed,     \* those the where of findMany selects
  counted,    \* those the where of count selects
  walk        \* the client that reads the listing page by page

vars == <<listing, now, created, pending, stored, listed, counted, walk>>

\* base, joined, left: the rows listed when the walk began, and those that came
\* into the listing and went out of it since.  again: the rows shown twice.
Walks ==
  [pc : {"idle", "user", "page", "count", "answered"}, page : 0 .. Cardinality(Ids),
   size : 0 .. Limit, total : 0 .. Cardinality(Ids), named : BOOLEAN,
   base : SUBSET Ids, joined : SUBSET Ids, left : SUBSET Ids,
   shown : SUBSET Ids, again : SUBSET Ids]

NoWalk ==
  [pc |-> "idle", page |-> 0, size |-> 0, total |-> 0, named |-> FALSE,
   base |-> {}, joined |-> {}, left |-> {}, shown |-> {}, again |-> {}]

TypeOK ==
  /\ listing \in Listings
  /\ now \in 1 .. MaxTime
  /\ created \in [Ids -> 0 .. MaxTime]
  /\ pending \union stored \subseteq {i \in Ids : created[i] # 0}
  /\ pending \intersect stored = {}
  /\ listed \subseteq stored
  /\ counted \subseteq listed
  /\ walk \in Walks

Init ==
  /\ listing \in Listings
  /\ now = 1
  /\ created = [i \in Ids |-> 0]
  /\ pending = {} /\ stored = {} /\ listed = {} /\ counted = {}
  /\ walk = NoWalk

Walking == walk.pc # "idle"

Finished == walk.pc = "answered" /\ walk.size < Limit

-----------------------------------------------------------------------------
\* The table.

Logs == listing = "logs"

Join(i) ==
  /\ listed' = listed \union {i}
  /\ walk' = IF Walking THEN [walk EXCEPT !.joined = @ \union {i}] ELSE walk

Leave(i) ==
  /\ listed' = listed \ {i}
  /\ counted' = counted \ {i}
  /\ walk' = IF Walking /\ i \in listed
             THEN [walk EXCEPT !.left = @ \union {i}] ELSE walk

Tick ==
  /\ now < MaxTime
  /\ now' = now + 1
  /\ UNCHANGED <<listing, created, pending, stored, listed, counted, walk>>

\* create: created_at is fixed before the row is visible to other queries.
Create(i) ==
  /\ created[i] = 0
  /\ created' = [created EXCEPT ![i] = now]
  /\ pending' = pending \union {i}
  /\ UNCHANGED <<listing, now, stored, listed, counted, walk>>

\* Whether a query selects the row depends on its columns and on the search.
\* The where of log.count leaves out id_entity.
Commit(i) ==
  /\ i \in pending
  /\ pending' = pending \ {i}
  /\ stored' = stored \union {i}
  /\ \/ Join(i) /\ counted' = counted \union {i}
     \/ Logs /\ Join(i) /\ UNCHANGED counted
     \/ UNCHANGED <<listed, counted, walk>>
  /\ UNCHANGED <<listing, now, created>>

\* PATCH may change the columns searched, or the form of a laudo.
Edit(i) ==
  /\ ~Logs
  /\ i \in stored
  /\ IF i \in listed
     THEN Leave(i)
     ELSE Join(i) /\ counted' = counted \union {i}
  /\ UNCHANGED <<listing, now, created, pending, stored>>

\* DELETE.  No route deletes a log.
Erase(i) ==
  /\ ~Logs
  /\ i \in stored
  /\ stored' = stored \ {i}
  /\ Leave(i)
  /\ UNCHANGED <<listing, now, created, pending>>

-----------------------------------------------------------------------------
\* A page.

\* orderBy created_at: asc for forms and laudos, desc for logs.
Before(i, j) == IF Logs THEN created[j] < created[i] ELSE created[i] < created[j]

\* A page that was not asked for: '0', but '1' for logs.
DefaultPage == IF Logs THEN 1 ELSE 0

\* pgNumber is the page plus one.  Variants: the page itself; an offset one
\* row too far.
OffsetByPage(page) == IF page > 1 THEN Limit * (page - 1) ELSE 0
OffsetPast(page) == IF page + 1 > 1 THEN Limit * page + 1 ELSE 0
OffsetOf(page) == IF page + 1 > 1 THEN Limit * page ELSE 0

\* The first n rows of R; rows with the same created_at come in any order, and
\* in another order the next time.
FirstOf(n, R) ==
  {B \in SUBSET R :
     /\ Cardinality(B) = IF n < Cardinality(R) THEN n ELSE Cardinality(R)
     /\ \A i \in B, j \in R \ B : ~Before(j, i)}

PageOf(page) ==
  UNION {FirstOf(Limit, listed \ B) : B \in FirstOf(OffsetOf(page), listed)}

Ask(page, w) == walk' = [w EXCEPT !.pc = "user", !.page = page]

\* The client begins with the first page, or without naming one.
StartWalk ==
  /\ walk.pc = "idle" \/ Finished
  /\ \E named \in BOOLEAN :
       Ask(IF named THEN 0 ELSE DefaultPage,
           [NoWalk EXCEPT !.named = named, !.base = listed])
  /\ UNCHANGED <<listing, now, created, pending, stored, listed, counted>>

\* It goes on while the pages are full.
NextPage ==
  /\ walk.pc = "answered" /\ ~Finished
  /\ Ask(walk.page + 1, walk)
  /\ UNCHANGED <<listing, now, created, pending, stored, listed, counted>>

\* The user named in the header is looked up first; the listing of logs also
\* fails when the client sends no date.
FindUser ==
  /\ walk.pc = "user"
  /\ walk' \in {[walk EXCEPT !.pc = "page"], NoWalk}
  /\ UNCHANGED <<listing, now, created, pending, stored, listed, counted>>

\* formsPtpCount and laudosCrmCount are the length of the page.
ReadPage ==
  /\ walk.pc = "page"
  /\ \E P \in PageOf(walk.page) :
       walk' = [walk EXCEPT
         !.pc = IF Logs THEN "count" ELSE "answered",
         !.size = Cardinality(P), !.total = Cardinality(P),
         !.shown = @ \union P, !.again = @ \union (walk.shown \intersect P)]
  /\ UNCHANGED <<listing, now, created, pending, stored, listed, counted>>

\* log.count is a query of its own.  Variant: the length of the page.
CountPage == walk.size
CountRows == Cardinality(counted)

Count ==
  /\ walk.pc = "count"
  /\ walk' = [walk EXCEPT !.pc = "answered", !.total = CountRows]
  /\ UNCHANGED <<listing, now, created, pending, stored, listed, counted>>

Next ==
  \/ Tick
  \/ \E i \in Ids : Create(i) \/ Commit(i) \/ Edit(i) \/ Erase(i)
  \/ StartWalk \/ NextPage \/ FindUser \/ ReadPage \/ Count

Spec == Init /\ [][Next]_vars

-----------------------------------------------------------------------------
(***************************************************************************)
(* Properties.                                                             *)
(***************************************************************************)

Tied(i) == \E j \in Ids \ {i} : created[j] = created[i]

\* A walk from the first page to the last shows every row that was in the
\* listing all the time, unless its created_at is not unique or a row before it
\* went out of the listing meanwhile.  So a walk of the logs, which are read
\* backwards and never deleted, loses none, whatever is inserted meanwhile.
MissesHaveCause ==
  (Finished /\ (walk.named \/ ~Logs)) =>
    \A i \in walk.base \ (walk.left \union walk.shown) :
      Tied(i) \/ \E j \in walk.left : Before(j, i)

\* A walk shows a row twice only if its created_at is not unique or a row
\* before it came into the listing meanwhile: for logs any new one, for forms
\* and laudos one committed late or edited into the search.
RepeatsHaveCause ==
  Walking =>
    \A i \in walk.again : Tied(i) \/ \E j \in walk.joined : Before(j, i)

\* The count that comes with a page of logs, read after it, covers the rows up
\* to the end of that page, unless one is found by its id_entity only.
CountCoversPage ==
  (Logs /\ walk.pc = "answered" /\ walk.size > 0 /\ listed = counted)
    => OffsetOf(walk.page) + walk.size <= walk.total
=============================================================================
