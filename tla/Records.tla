------------------------------ MODULE Records -------------------------------
(***************************************************************************)
(* The records of the loading dock and their audit trail: the handlers of  *)
(* FormsPtpController, LaudosCrmController, FilesController and            *)
(* AppLogsController, and the one of UsersController that writes a log,    *)
(* over the tables forms_ptp, laudos_crm, files, users and logs.           *)
(*                                                                         *)
(* Each handler is a straight line of Prisma statements without a          *)
(* transaction: it reads the acting user and the rows involved, changes    *)
(* one row, and writes the log of the change: after it, but for the        *)
(* removal of a file, which is logged first.  Script is that line, one     *)
(* action below is one statement, and calls interleave between any two of  *)
(* them.  The columns no guard reads are left out.                         *)
(***************************************************************************)
EXTENDS HttpErrors, Sequences, FiniteSets

CONSTANTS
  UserIds,     \* the users that may be stored
  FormIds,     \* ids of forms_ptp: bounds the uuids drawn
  LaudoIds,    \* ids of laudos_crm
  FileIds,     \* ids of files
  Calls,       \* the calls clients make: a bound
  Routes,      \* the routes they call in this instance
  Headers,     \* what they send as the acting user in this instance
  SeedRows,    \* rows before the first call: no route inserts a laudo or a file
  None         \* SQL NULL / undefined

RowIds == FormIds \union LaudoIds \union FileIds

\* A row of these tables; form is laudos_crm.form_ptp_id, user is files.user_id.
Row ==
  [canceled : BOOLEAN, form : FormIds \union {None}, user : UserIds \union {None}]

IsTable(tbl) == \E S \in SUBSET RowIds : tbl \in [S -> Row]

\* The statements of each handler, in order; at the end the answer is sent.
CreateForm == <<"user", "insert", "log", "reply">>
UpdateForm == <<"user", "row", "update", "log", "reply">>
RemoveForm == <<"row", "user", "cancel", "log", "reply">>
DeleteForm == <<"row", "user", "erase", "log", "reply">>
UpdateLaudo == <<"user", "row", "form", "update", "log", "reply">>
RemoveLaudo == <<"row", "user", "cancel", "log", "reply">>
DeleteLaudo == <<"row", "user", "erase", "log", "reply">>
CreateLog == <<"user", "log", "reply">>
UpdateFile == <<"row", "user", "update", "log", "reply">>
DisableUser == <<"admin", "target", "disable", "log", "reply">>

\* The service looks the file up and hands on (id, userId, ip) as (id, companyId,
\* userId): the repository takes the address of the client for the user.
RemoveFile == <<"user", "row", "row", "address", "log", "cancel", "reply">>

\* POST laudos-crm is missing: the ValidationPipe refuses every body, since the
\* DTO wants tipsoNaoConformidade to be an array and a single enum value.
Script ==
  [createForm |-> CreateForm, updateForm |-> UpdateForm,
   removeForm |-> RemoveForm, deleteForm |-> DeleteForm,
   updateLaudo |-> UpdateLaudo, removeLaudo |-> RemoveLaudo,
   deleteLaudo |-> DeleteLaudo, createLog |-> CreateLog,
   updateFile |-> UpdateFile, removeFile |-> RemoveFile,
   disableUser |-> DisableUser]

AllRoutes == DOMAIN Script

\* The table a route works on; createForm and createLog name no row.
Named(op) ==
  CASE op \in {"updateForm", "removeForm", "deleteForm"} -> FormIds
    [] op \in {"updateLaudo", "removeLaudo", "deleteLaudo"} -> LaudoIds
    [] op \in {"updateFile", "removeFile"} -> FileIds
    [] op = "disableUser" -> UserIds
    [] OTHER -> {None}

Removals == {"removeForm", "removeLaudo", "removeFile"}
Deletions == {"deleteForm", "deleteLaudo"}

ASSUME RecordsNone == None \notin UserIds \union RowIds \union AllRoutes

ASSUME RecordsInstance ==
  /\ FormIds \intersect LaudoIds = {}
  /\ FileIds \intersect (FormIds \union LaudoIds) = {}
  /\ Routes \subseteq AllRoutes
  /\ Headers \subseteq UserIds \union {None}
  /\ IsTable(SeedRows)
  /\ \A i \in DOMAIN SeedRows :
       /\ IF i \in LaudoIds THEN SeedRows[i].form \in DOMAIN SeedRows
                            ELSE SeedRows[i].form = None
       /\ IF i \in FileIds THEN SeedRows[i].user \in UserIds
                           ELSE SeedRows[i].user = None

-----------------------------------------------------------------------------
VARIABLES
  users,     \* the users stored
  rows,      \* tables forms_ptp, laudos_crm and files, by id
  used,      \* history: the ids ever stored
  req,       \* the calls
  changed,   \* history: the calls whose change of a row is committed
  logs,      \* table logs: the calls that have written theirs
  faulted    \* history: the calls a fault or a crash has hit

vars == <<users, rows, used, req, changed, logs, faulted>>

Statuses == {0, 200, 400, 404, 500}   \* 0: no answer (yet); 201 counts as 200

\* at is the position in Script, 0 before and after the call; actor is the user
\* whose id the header gives (userId, or adminId for disableUser), and after an
\* address was taken for a user that user.
Requests ==
  [op : Routes \union {None}, at : 0 .. 7, actor : UserIds \union {None},
   id : RowIds \union UserIds \union {None}, form : FormIds \union {None},
   owner : UserIds \union {None}, status : Statuses]

Blank == [op |-> None, at |-> 0, actor |-> None, id |-> None, form |-> None,
          owner |-> None, status |-> 0]

TypeOK ==
  /\ users \in SUBSET UserIds
  /\ IsTable(rows)
  /\ used \in SUBSET RowIds
  /\ req \in [Calls -> Requests]
  /\ changed \in SUBSET Calls
  /\ logs \in SUBSET Calls
  /\ faulted \in SUBSET Calls

Init ==
  /\ users = UserIds
  /\ rows = SeedRows
  /\ used = DOMAIN SeedRows
  /\ req = [c \in Calls |-> Blank]
  /\ changed = {}
  /\ logs = {}
  /\ faulted = {}

-----------------------------------------------------------------------------
Running(c) == req[c].at # 0

At(c, statement) == Running(c) /\ Script[req[c].op][req[c].at] = statement

Proceed(c) == req' = [req EXCEPT ![c].at = @ + 1]

Answer(c, status) == req' = [req EXCEPT ![c].at = 0, ![c].status = status]

Throw(c, error) == Answer(c, StatusOf(error))

\* Bounds the calls of an instance: an id is left for every insert to come.
CanDraw ==
  Cardinality({c \in Calls : req[c].op = "createForm" /\ req[c].at \in 1 .. 2})
    < Cardinality(FormIds \ used)

\* A call starts with the header, the id in the path and, in the body,
\* form_ptp_id of a laudo or user_id of a file, any of which may name what is
\* not (or no longer) stored; the header and the body's ids may be missing.
\* The body names no unknown column: that would be one more refusal of update.
Call(c) ==
  /\ req[c] = Blank
  /\ \E op \in Routes, actor \in Headers :
     /\ op = "createForm" => CanDraw
     /\ \E id \in Named(op),
           form \in (IF op = "updateLaudo" THEN FormIds \union {None} ELSE {None}),
           owner \in (IF op = "updateFile" THEN UserIds \union {None} ELSE {None}) :
          req' = [req EXCEPT ![c] =
                    [op |-> op, at |-> 1, actor |-> actor, id |-> id,
                     form |-> form, owner |-> owner, status |-> 0]]
  /\ UNCHANGED <<users, rows, used, changed, logs, faulted>>

\* prisma.x.findUnique({ where: { id } }) and the check of its result: no id is
\* an error of the client library, no row the error of the handler.  Variant:
\* the handler waits for the row.
LookupWaiting(c, id, stored, missing) == id \in stored /\ Proceed(c)
Lookup(c, id, stored, missing) ==
  IF id = None THEN Throw(c, Error("PrismaClientValidationError"))
  ELSE IF id \in stored THEN Proceed(c)
  ELSE Throw(c, missing)

NotFound == Error("NotFoundError")

FindUser(c) ==
  /\ At(c, "user")
  /\ Lookup(c, req[c].actor, users, NotFound)
  /\ UNCHANGED <<users, rows, used, changed, logs, faulted>>

FindRow(c) ==
  /\ At(c, "row")
  /\ Lookup(c, req[c].id, DOMAIN rows, NotFound)
  /\ UNCHANGED <<users, rows, used, changed, logs, faulted>>

FindForm(c) ==
  /\ At(c, "form")
  /\ Lookup(c, req[c].form, DOMAIN rows, NotFound)
  /\ UNCHANGED <<users, rows, used, changed, logs, faulted>>

\* getIP prefers what the client puts into its forwarding headers, so the address
\* may be the id of a user, whose log it will be; any other (None) is of nobody.
FindAddress(c) ==
  /\ At(c, "address")
  /\ \/ Throw(c, NotFound)
     \/ \E u \in users : req' = [req EXCEPT ![c].at = @ + 1, ![c].actor = u]
  /\ UNCHANGED <<users, rows, used, changed, logs, faulted>>

\* disableUser refuses with a BadRequestException.
FindAdmin(c) ==
  /\ At(c, "admin")
  /\ Lookup(c, req[c].actor, users, HttpException(400))
  /\ UNCHANGED <<users, rows, used, changed, logs, faulted>>

FindTarget(c) ==
  /\ At(c, "target")
  /\ Lookup(c, req[c].id, users, HttpException(400))
  /\ UNCHANGED <<users, rows, used, changed, logs, faulted>>

\* prisma.formPtp.create
InsertForm(c) ==
  \E i \in FormIds \ used :
    /\ At(c, "insert")
    /\ rows' = [x \in DOMAIN rows \union {i} |->
                  IF x = i THEN [canceled |-> FALSE, form |-> None, user |-> None]
                  ELSE rows[x]]
    /\ used' = used \union {i}
    /\ req' = [req EXCEPT ![c].at = @ + 1, ![c].id = i]
    /\ changed' = changed \union {c}
    /\ UNCHANGED <<users, logs, faulted>>

\* The row after an update; none of the DTOs names canceled_at.  Variants: the
\* row is reopened; the id of the wrong table is written.
SelfReferring(c) == [rows[req[c].id] EXCEPT !.form = req[c].id]
Reopened(c) == [rows[req[c].id] EXCEPT !.form = req[c].form, !.canceled = FALSE]
Updated(c) ==
  [rows[req[c].id] EXCEPT !.form = req[c].form,
                          !.user = IF req[c].owner = None THEN @ ELSE req[c].owner]

\* prisma.x.update and delete throw when the row is gone.  Variant: they do
\* not, as updateMany and deleteMany do not.
Tolerated(c) == TRUE
Found(c) == req[c].id \in DOMAIN rows

\* prisma.x.update; foreign keys check the new form of a laudo and the new user
\* of a file.
UpdateRow(c) ==
  LET i == req[c].id
      stored == /\ req[c].form \in DOMAIN rows \union {None}
                /\ req[c].owner \in users \union {None}
  IN
  /\ At(c, "update")
  /\ IF Found(c) /\ stored
     THEN /\ rows' = [x \in DOMAIN rows |-> IF x = i THEN Updated(c) ELSE rows[x]]
          /\ changed' = changed \union {c}
          /\ Proceed(c)
     ELSE /\ Throw(c, Error(IF Found(c) THEN "P2003" ELSE "P2025"))
          /\ UNCHANGED <<rows, changed>>
  /\ UNCHANGED <<users, used, logs, faulted>>

\* disableUser: users.status, which nothing here reads.
Disable(c) ==
  /\ At(c, "disable")
  /\ IF req[c].id \in users
     THEN changed' = changed \union {c} /\ Proceed(c)
     ELSE Throw(c, Error("P2025")) /\ UNCHANGED changed
  /\ UNCHANGED <<users, rows, used, logs, faulted>>

\* remove: canceled_at is set (again, when it was set before).
CancelRow(c) ==
  /\ At(c, "cancel")
  /\ IF Found(c)
     THEN /\ rows' = [x \in DOMAIN rows |->
                        IF x = req[c].id THEN [rows[x] EXCEPT !.canceled = TRUE]
                        ELSE rows[x]]
          /\ changed' = changed \union {c}
          /\ Proceed(c)
     ELSE Throw(c, Error("P2025")) /\ UNCHANGED <<rows, changed>>
  /\ UNCHANGED <<users, used, logs, faulted>>

\* laudos_crm_form_ptp_id_fkey restricts the deletion of a form.  Variant: it
\* does not.
Unreferenced(i) == FALSE
HasLaudos(i) == \E l \in DOMAIN rows : rows[l].form = i

\* prisma.x.delete
EraseRow(c) ==
  LET i == req[c].id IN
  /\ At(c, "erase")
  /\ IF Found(c) /\ ~HasLaudos(i)
     THEN /\ rows' = [x \in DOMAIN rows \ {i} |-> rows[x]]
          /\ changed' = changed \union {c}
          /\ Proceed(c)
     ELSE /\ Throw(c, Error(IF Found(c) THEN "P2003" ELSE "P2025"))
          /\ UNCHANGED <<rows, changed>>
  /\ UNCHANGED <<users, used, logs, faulted>>

\* appLogsService.createLog: the log refers to the user read at the start.
\* Variants: a log that cannot be written is no error; one log per user and row.
WriteLogQuietly(c) ==
  /\ At(c, "log")
  /\ logs' = IF req[c].actor \in users THEN logs \union {c} ELSE logs
  /\ Proceed(c)
  /\ UNCHANGED <<users, rows, used, changed, faulted>>

WriteLogOnce(c) ==
  LET same == {d \in logs : req[d].actor = req[c].actor /\ req[d].id = req[c].id} IN
  /\ At(c, "log")
  /\ IF req[c].actor \in users
     THEN logs' = (IF same = {} THEN logs \union {c} ELSE logs) /\ Proceed(c)
     ELSE Throw(c, Error("P2003")) /\ UNCHANGED logs
  /\ UNCHANGED <<users, rows, used, changed, faulted>>

WriteLog(c) ==
  /\ At(c, "log")
  /\ IF req[c].actor \in users
     THEN logs' = logs \union {c} /\ Proceed(c)
     ELSE Throw(c, Error("P2003")) /\ UNCHANGED logs
  /\ UNCHANGED <<users, rows, used, changed, faulted>>

Reply(c) ==
  /\ At(c, "reply")
  /\ Answer(c, 200)
  /\ UNCHANGED <<users, rows, used, changed, logs, faulted>>

-----------------------------------------------------------------------------
\* The environment.

\* logs_user_id_fkey restricts the deletion of a user.  Variant: it does not.
Unlogged(u) == FALSE
HasLogs(u) == \E c \in logs : req[c].actor = u

\* files_user_id_fkey does too.  Variant: it does not.
Fileless(u) == FALSE
HasFiles(u) == \E i \in DOMAIN rows : rows[i].user = u

\* DELETE users/:id, which may also fail for rows of other tables.
DeleteUser(u) ==
  /\ u \in users
  /\ ~HasLogs(u) /\ ~HasFiles(u)
  /\ users' = users \ {u}
  /\ UNCHANGED <<rows, used, req, changed, logs, faulted>>

\* A statement fails without effect, within the client library or not.  One that
\* commits and loses its acknowledgement is a fault at the next position, which
\* for the last statement is "reply".
Fault(c) ==
  /\ Running(c)
  /\ \E class \in {"P2024", "PrismaClientInitializationError"} :
       Throw(c, Error(class))
  /\ faulted' = faulted \union {c}
  /\ UNCHANGED <<users, rows, used, changed, logs>>

\* The process dies: the calls in flight get no answer.
Crash ==
  LET lost == {c \in Calls : Running(c)} IN
  /\ lost # {}
  /\ req' = [c \in Calls |-> IF c \in lost THEN [req[c] EXCEPT !.at = 0] ELSE req[c]]
  /\ faulted' = faulted \union lost
  /\ UNCHANGED <<users, rows, used, changed, logs>>

Statement(c) ==
  \/ FindUser(c) \/ FindRow(c) \/ FindForm(c) \/ FindAddress(c)
  \/ FindAdmin(c) \/ FindTarget(c)
  \/ InsertForm(c) \/ UpdateRow(c) \/ CancelRow(c) \/ EraseRow(c) \/ Disable(c)
  \/ WriteLog(c) \/ Reply(c)

Next ==
  \/ \E c \in Calls : Call(c) \/ Statement(c) \/ Fault(c)
  \/ \E u \in UserIds : DeleteUser(u)
  \/ Crash

Spec == Init /\ [][Next]_vars

\* Every awaited statement settles and its handler is resumed.
FairSpec == Spec /\ \A c \in Calls : WF_vars(Statement(c))

-----------------------------------------------------------------------------
(***************************************************************************)
(* Properties.                                                             *)
(***************************************************************************)

Answered(c) == req[c].op # None /\ req[c].at = 0

\* Every laudo has its form, also when the form is deleted between the check
\* of form_ptp_id and the update that moves the laudo to it.
LaudosKeepForm ==
  \A i \in DOMAIN rows \intersect LaudoIds : rows[i].form \in DOMAIN rows

\* Every file has its user, although the user a file is handed to may be
\* deleted by another request before or after the update.
FilesKeepUser ==
  \A i \in DOMAIN rows \intersect FileIds : rows[i].user \in users

\* The removal of a file is logged before canceled_at is set.
Unfinished(c) == req[c].op = "removeFile" /\ (At(c, "cancel") \/ c \in faulted)

\* The trail claims what is not so for one reason only.  A row whose deletion is
\* logged is gone, and a row whose removal is logged carries its mark or is gone,
\* although updates that read the row before may finish after it; unless it is a
\* file, and the mark is still to come or a fault or a crash has kept it from
\* coming.
LogsAgreeWithRows ==
  \A c \in logs :
    /\ req[c].op \in Deletions => req[c].id \notin DOMAIN rows
    /\ req[c].op \in Removals /\ req[c].id \in DOMAIN rows
         => rows[req[c].id].canceled \/ Unfinished(c)

\* A change that stays without a log has a cause: its user was deleted while
\* the call ran, or a fault or a crash fell between the two statements.
UnloggedHasCause ==
  \A c \in changed \ logs :
    Answered(c) => req[c].actor \notin users \/ c \in faulted

\* What the status tells a client: success means changed and logged, and 404
\* means that nothing was changed (400 and 500 leave it open).
StatusIsHonest ==
  \A c \in Calls :
    /\ req[c].status = 200
         => c \in logs /\ (req[c].op # "createLog" => c \in changed)
    /\ req[c].status = 404 => c \notin changed \union logs

\* Of several deletions of a row one succeeds.
OneDeletion ==
  \A c, d \in changed :
    (req[c].op \in Deletions /\ req[d].op \in Deletions /\ req[c].id = req[d].id)
      => c = d

\* No log outlives its user, although the user is read at the start of the
\* call and the log inserted at its end.
LogsKeepUser == \A c \in logs : req[c].actor \in users

\* Every call that was made is answered or lost in a crash.
EveryCallEnds == \A c \in Calls : Running(c) ~> ~Running(c)
=============================================================================
