----------------------------- MODULE AuditTrail -----------------------------
(***************************************************************************)
(* What the audit trail says about a file: PATCH files/:id is the one      *)
(* handler that hands createLog the row before and the row after, and      *)
(* AppLogsHelper keeps the columns in which they differ.                   *)
(*                                                                         *)
(* Before is the row as this call read it, two statements ahead of the     *)
(* change; after is the row as the change returned it.  A log therefore    *)
(* tells what happened between those two statements, whoever did it, and   *)
(* the logs are in the order of their own inserts, not of the changes.     *)
(*                                                                         *)
(* Module Records has the look-ups that refuse a call and the keys that    *)
(* refuse a change; here there is one file, which no route deletes, and    *)
(* what is written in it.                                                  *)
(***************************************************************************)
EXTENDS Naturals, Sequences

CONSTANTS
  Fields,    \* the columns of files that a body may name
  Values,    \* what they may hold
  Seed,      \* the file at the start
  Calls,     \* the calls clients make: a bound
  None       \* no row

ASSUME TrailInstance ==
  /\ "updated_at" \notin Fields
  /\ Seed \in [Fields -> Values]

Columns == Fields \union {"updated_at"}

\* What a body names, and what a log tells: some columns and a value for each.
Parts == UNION {[S -> Values] : S \in SUBSET Fields}

VARIABLES
  file,      \* the row in table files; updated_at counts the updates
  call,      \* the calls
  trail,     \* their rows in table logs, in the order of created_at
  versions   \* history: the row after each update, and whose update it was

vars == <<file, call, trail, versions>>

IsRow(r) ==
  /\ DOMAIN r = Columns
  /\ \A k \in Fields : r[k] \in Values
  /\ r["updated_at"] \in Nat

\* pc is the statement a call runs next; before and after are its variables
\* fileExists and file.
IsCall(c) ==
  /\ c.pc \in {"idle", "row", "user", "update", "log", "done", "failed"}
  /\ c.body \in Parts
  /\ c.before = None \/ IsRow(c.before)
  /\ c.after = None \/ IsRow(c.after)

TypeOK ==
  /\ IsRow(file)
  /\ DOMAIN call = Calls /\ \A c \in Calls : IsCall(call[c])
  /\ \A i \in DOMAIN trail :
       /\ trail[i].by \in Calls
       /\ trail[i].old_value \in Parts /\ trail[i].new_value \in Parts
       /\ DOMAIN trail[i].old_value = DOMAIN trail[i].new_value
  /\ \A v \in DOMAIN versions :
       versions[v].by \in Calls /\ versions[v].row["updated_at"] = v

NoPart == [k \in {} |-> None]

Init ==
  /\ file = [k \in Columns |-> IF k \in Fields THEN Seed[k] ELSE 0]
  /\ call = [c \in Calls |->
               [pc |-> "idle", body |-> NoPart, before |-> None, after |-> None]]
  /\ trail = <<>>
  /\ versions = <<>>

-----------------------------------------------------------------------------
(***************************************************************************)
(* AppLogsHelper.                                                          *)
(***************************************************************************)

\* json-diff of two rows, which have the same columns: those that differ.
Diff(obj1, obj2) == {k \in DOMAIN obj1 : obj1[k] # obj2[k]}

\* The columns of a file among keysToNotLog.  Variant: updated_at is not.
KeysOfIdentity == {"id", "created_at"}
KeysToNotLog == {"id", "created_at", "updated_at"}

\* Variant: every column is kept, changed or not.
KeepColumns(obj, changed) == [k \in DOMAIN obj \ KeysToNotLog |-> obj[k]]
FilterObjForUpdateLog(obj, changed) ==
  [k \in (DOMAIN obj \intersect changed) \ KeysToNotLog |-> obj[k]]

\* JSON.stringify of the two parts, which the listing parses again; the values
\* are strings and numbers, and come back as they were.  Variant: swapped.
GetLogDataSwapped(before, after) ==
  [old_value |-> FilterObjForUpdateLog(after, Diff(before, after)),
   new_value |-> FilterObjForUpdateLog(before, Diff(before, after))]
GetLogData(before, after) ==
  [old_value |-> FilterObjForUpdateLog(before, Diff(before, after)),
   new_value |-> FilterObjForUpdateLog(after, Diff(before, after))]

-----------------------------------------------------------------------------
(***************************************************************************)
(* PATCH files/:id, a statement at a time.                                 *)
(***************************************************************************)

\* The body names some of the columns; one that names a column the table has
\* not is refused by the client library (a call that fails).
Call(c) ==
  /\ call[c].pc = "idle"
  /\ \E body \in Parts :
       call' = [call EXCEPT ![c].pc = "row", ![c].body = body]
  /\ UNCHANGED <<file, trail, versions>>

FindFile(c) ==
  /\ call[c].pc = "row"
  /\ call' = [call EXCEPT ![c].pc = "user", ![c].before = file]
  /\ UNCHANGED <<file, trail, versions>>

FindUser(c) ==
  /\ call[c].pc = "user"
  /\ call' = [call EXCEPT ![c].pc = "update"]
  /\ UNCHANGED <<file, trail, versions>>

\* The row after prisma.file.update; @updatedAt moves with every update.
Written(row, body) ==
  [k \in Columns |-> IF k = "updated_at" THEN row[k] + 1
                     ELSE IF k \in DOMAIN body THEN body[k] ELSE row[k]]

Update(c) ==
  /\ call[c].pc = "update"
  /\ file' = Written(file, call[c].body)
  /\ call' = [call EXCEPT ![c].pc = "log", ![c].after = file']
  /\ versions' = Append(versions, [by |-> c, row |-> file'])
  /\ UNCHANGED trail

\* upto is history: the number of updates when the log was written.
WriteLog(c) ==
  LET data == GetLogData(call[c].before, call[c].after) IN
  /\ call[c].pc = "log"
  /\ trail' = Append(trail, [by |-> c, upto |-> Len(versions),
                             old_value |-> data.old_value, new_value |-> data.new_value])
  /\ call' = [call EXCEPT ![c].pc = "done"]
  /\ UNCHANGED <<file, versions>>

\* A look-up refuses the call, a statement fails without effect, or the process
\* dies, which is this step of every call in flight.
Fail(c) ==
  /\ call[c].pc \in {"row", "user", "update", "log"}
  /\ call' = [call EXCEPT ![c].pc = "failed"]
  /\ UNCHANGED <<file, trail, versions>>

Next ==
  \E c \in Calls :
    Call(c) \/ FindFile(c) \/ FindUser(c) \/ Update(c) \/ WriteLog(c) \/ Fail(c)

Spec == Init /\ [][Next]_vars

-----------------------------------------------------------------------------
(***************************************************************************)
(* Properties.                                                             *)
(***************************************************************************)

Names(c, k) == k \in DOMAIN call[c].body

\* The row as of update v, 0 for the seed.
RowAt(v) == IF v = 0 THEN Seed ELSE versions[v].row

\* The updates between the read of a logged call and its own.
Unseen(log) ==
  (call[log.by].before["updated_at"] + 1) .. (call[log.by].after["updated_at"] - 1)

\* A log tells the column its call changed, and no other, unless the update of
\* another call that names the column fell between the read and the update: the
\* log then claims that change too, or is silent on a change that put back the
\* value that had been read.
LogTellsItsCall ==
  \A i \in DOMAIN trail, k \in Fields :
    LET log == trail[i]
        v == call[log.by].after["updated_at"]
        told == k \in DOMAIN log.new_value
        made == RowAt(v)[k] # RowAt(v - 1)[k]
    IN told # made => \E u \in Unseen(log) : Names(versions[u].by, k)

\* The file as a reader of the trail would rebuild it: of each column, what the
\* last log that tells it says is new.
Telling(k) == {i \in DOMAIN trail : k \in DOMAIN trail[i].new_value}
LastOf(S) == CHOOSE i \in S : \A j \in S : j <= i
Replayed ==
  [k \in Fields |-> IF Telling(k) = {} THEN Seed[k]
                    ELSE trail[LastOf(Telling(k))].new_value[k]]

\* The updates that name a column.
Naming(k) == {v \in DOMAIN versions : Names(versions[v].by, k)}

Unlogged(c) == \A i \in DOMAIN trail : trail[i].by # c

\* Two updates named the column, one of them while another call was between its
\* read and its log.
Overlapping(k) ==
  \E v, w \in Naming(k), i \in DOMAIN trail :
    /\ v # w /\ trail[i].by # versions[v].by
    /\ v \in (call[trail[i].by].before["updated_at"] + 1) .. trail[i].upto

\* Reading the trail from the start gives the file, except in a column that an
\* update without a log named, or that was named by updates that overlapped.
TrailReplays ==
  \A k \in Fields : Replayed[k] # file[k] =>
    (\E v \in Naming(k) : Unlogged(versions[v].by)) \/ Overlapping(k)
=============================================================================
