--------------------------- MODULE RecordsProofs ----------------------------
(***************************************************************************)
(* The audit trail and the references of Records, for any number of calls, *)
(* users and rows.                                                         *)
(*                                                                         *)
(* The inductive invariant says where a call can be (Shaped), what it has  *)
(* done by then (Progress) and what the rows changed so far still look     *)
(* like (Trail).                                                           *)
(***************************************************************************)
EXTENDS Records, TLAPS

LEMMA Statuses200 ==
  /\ StatusOf(Error("NotFoundError")) = 404
  /\ StatusOf(HttpException(400)) = 400
  /\ StatusOf(Error("PrismaClientValidationError")) = 500
  /\ StatusOf(Error("PrismaClientInitializationError")) = 500
  /\ StatusOf(Error("P2003")) = 400
  /\ StatusOf(Error("P2024")) = 400
  /\ StatusOf(Error("P2025")) = 400
BY DEF StatusOf, Error, HttpException, KnownCodes, NotFoundInterceptor,
       UnauthorizedInterceptor, HandleDatabaseErrors, DatabaseInterceptor,
       ConflictInterceptor, AllExceptionsFilter

-----------------------------------------------------------------------------
\* What the scripts have in common: some look-ups, then the change and the log,
\* in this order but for removeFile, then the answer.

FormOps == {"updateForm", "removeForm", "deleteForm"}
LaudoOps == {"updateLaudo", "removeLaudo", "deleteLaudo"}
FileOps == {"updateFile", "removeFile"}

Finders == {"user", "row", "form", "address", "admin", "target"}
Writers == {"insert", "update", "cancel", "erase", "disable"}

\* Where the log and (but for createLog) the change are in the script.
LogAt(op) == IF op = "removeFile" THEN 5 ELSE Len(Script[op]) - 1
ChangeAt(op) == IF op = "removeFile" THEN 6 ELSE Len(Script[op]) - 2

LEMMA Names ==
  AllRoutes = FormOps \union LaudoOps \union FileOps
                \union {"createForm", "createLog", "disableUser"}
BY DEF AllRoutes, Script, FormOps, LaudoOps, FileOps

LEMMA Lengths ==
  /\ Len(Script.createForm) = 4 /\ Len(Script.updateForm) = 5
  /\ Len(Script.removeForm) = 5 /\ Len(Script.deleteForm) = 5
  /\ Len(Script.updateLaudo) = 6 /\ Len(Script.removeLaudo) = 5
  /\ Len(Script.deleteLaudo) = 5 /\ Len(Script.createLog) = 3
  /\ Len(Script.updateFile) = 5 /\ Len(Script.removeFile) = 7
  /\ Len(Script.disableUser) = 5
BY DEF Script, CreateForm, UpdateForm, RemoveForm, DeleteForm, UpdateLaudo, RemoveLaudo,
       DeleteLaudo, CreateLog, UpdateFile, RemoveFile, DisableUser

LEMMA Spots ==
  ASSUME NEW op \in AllRoutes
  PROVE  /\ Len(Script[op]) \in 3 .. 7 /\ LogAt(op) \in 2 .. 5 /\ ChangeAt(op) \in 1 .. 6
         /\ LogAt(op) < Len(Script[op]) /\ ChangeAt(op) < Len(Script[op])
         /\ op # "removeFile" => ChangeAt(op) + 1 = LogAt(op)
<1>1. \E n \in {3, 4, 5, 6, 7} :
        Len(Script[op]) = n /\ (op = "removeFile" <=> n = 7)
  BY Names, Lengths DEF FormOps, LaudoOps, FileOps
<1>2. QED BY <1>1 DEF LogAt, ChangeAt

LEMMA Scripts ==
  ASSUME NEW op \in AllRoutes, NEW i \in 1 .. Len(Script[op])
  PROVE  /\ i \in 1 .. 7
         /\ i = 1 => Script[op][i] \in {"user", "row", "admin"}
         /\ Script[op][i] \in Finders
              => i < LogAt(op) /\ (op # "createLog" => i < ChangeAt(op))
         /\ Script[op][i] \in Writers <=> op # "createLog" /\ i = ChangeAt(op)
         /\ Script[op][i] = "log" <=> i = LogAt(op)
         /\ Script[op][i] = "reply" <=> i = Len(Script[op])
         /\ Script[op][i] = "insert" => op = "createForm"
         /\ Script[op][i] = "update" => op \in {"updateForm", "updateLaudo", "updateFile"}
         /\ Script[op][i] = "cancel" => op \in Removals
         /\ Script[op][i] = "erase" => op \in Deletions
         /\ Script[op][i] = "disable" => op = "disableUser"
         /\ Script[op][i] = "address" => op = "removeFile"
         /\ op = "removeFile" /\ i = 6 => Script[op][i] = "cancel"
         /\ op = "updateLaudo" /\ Script[op][i] = "update" => Script[op][i - 1] = "form"
<1>1. CASE op = "createForm"
  <2>1. Script[op] = CreateForm /\ i \in 1 .. 4
    BY <1>1, Lengths DEF Script
  <2>2. i = 1 \/ i = 2 \/ i = 3 \/ i = 4
    BY <2>1
  <2>3. LogAt(op) = 3 /\ ChangeAt(op) = 2 /\ Len(Script[op]) = 4
    BY <1>1, Lengths DEF LogAt, ChangeAt
  <2>4. QED BY <1>1, <2>1, <2>2, <2>3 DEF CreateForm, Finders, Writers, Removals, Deletions
<1>2. CASE op = "updateForm"
  <2>1. Script[op] = UpdateForm /\ i \in 1 .. 5
    BY <1>2, Lengths DEF Script
  <2>2. i = 1 \/ i = 2 \/ i = 3 \/ i = 4 \/ i = 5
    BY <2>1
  <2>3. LogAt(op) = 4 /\ ChangeAt(op) = 3 /\ Len(Script[op]) = 5
    BY <1>2, Lengths DEF LogAt, ChangeAt
  <2>4. QED BY <1>2, <2>1, <2>2, <2>3 DEF UpdateForm, Finders, Writers, Removals, Deletions
<1>3. CASE op = "removeForm"
  <2>1. Script[op] = RemoveForm /\ i \in 1 .. 5
    BY <1>3, Lengths DEF Script
  <2>2. i = 1 \/ i = 2 \/ i = 3 \/ i = 4 \/ i = 5
    BY <2>1
  <2>3. LogAt(op) = 4 /\ ChangeAt(op) = 3 /\ Len(Script[op]) = 5
    BY <1>3, Lengths DEF LogAt, ChangeAt
  <2>4. QED BY <1>3, <2>1, <2>2, <2>3 DEF RemoveForm, Finders, Writers, Removals, Deletions
<1>4. CASE op = "deleteForm"
  <2>1. Script[op] = DeleteForm /\ i \in 1 .. 5
    BY <1>4, Lengths DEF Script
  <2>2. i = 1 \/ i = 2 \/ i = 3 \/ i = 4 \/ i = 5
    BY <2>1
  <2>3. LogAt(op) = 4 /\ ChangeAt(op) = 3 /\ Len(Script[op]) = 5
    BY <1>4, Lengths DEF LogAt, ChangeAt
  <2>4. QED BY <1>4, <2>1, <2>2, <2>3 DEF DeleteForm, Finders, Writers, Removals, Deletions
<1>5. CASE op = "updateLaudo"
  <2>1. Script[op] = UpdateLaudo /\ i \in 1 .. 6
    BY <1>5, Lengths DEF Script
  <2>2. i = 1 \/ i = 2 \/ i = 3 \/ i = 4 \/ i = 5 \/ i = 6
    BY <2>1
  <2>3. LogAt(op) = 5 /\ ChangeAt(op) = 4 /\ Len(Script[op]) = 6
    BY <1>5, Lengths DEF LogAt, ChangeAt
  <2>4. QED BY <1>5, <2>1, <2>2, <2>3 DEF UpdateLaudo, Finders, Writers, Removals, Deletions
<1>6. CASE op = "removeLaudo"
  <2>1. Script[op] = RemoveLaudo /\ i \in 1 .. 5
    BY <1>6, Lengths DEF Script
  <2>2. i = 1 \/ i = 2 \/ i = 3 \/ i = 4 \/ i = 5
    BY <2>1
  <2>3. LogAt(op) = 4 /\ ChangeAt(op) = 3 /\ Len(Script[op]) = 5
    BY <1>6, Lengths DEF LogAt, ChangeAt
  <2>4. QED BY <1>6, <2>1, <2>2, <2>3 DEF RemoveLaudo, Finders, Writers, Removals, Deletions
<1>7. CASE op = "deleteLaudo"
  <2>1. Script[op] = DeleteLaudo /\ i \in 1 .. 5
    BY <1>7, Lengths DEF Script
  <2>2. i = 1 \/ i = 2 \/ i = 3 \/ i = 4 \/ i = 5
    BY <2>1
  <2>3. LogAt(op) = 4 /\ ChangeAt(op) = 3 /\ Len(Script[op]) = 5
    BY <1>7, Lengths DEF LogAt, ChangeAt
  <2>4. QED BY <1>7, <2>1, <2>2, <2>3 DEF DeleteLaudo, Finders, Writers, Removals, Deletions
<1>8. CASE op = "createLog"
  <2>1. Script[op] = CreateLog /\ i \in 1 .. 3
    BY <1>8, Lengths DEF Script
  <2>2. i = 1 \/ i = 2 \/ i = 3
    BY <2>1
  <2>3. LogAt(op) = 2 /\ ChangeAt(op) = 1 /\ Len(Script[op]) = 3
    BY <1>8, Lengths DEF LogAt, ChangeAt
  <2>4. QED BY <1>8, <2>1, <2>2, <2>3 DEF CreateLog, Finders, Writers, Removals, Deletions
<1>9. CASE op = "updateFile"
  <2>1. Script[op] = UpdateFile /\ i \in 1 .. 5
    BY <1>9, Lengths DEF Script
  <2>2. i = 1 \/ i = 2 \/ i = 3 \/ i = 4 \/ i = 5
    BY <2>1
  <2>3. LogAt(op) = 4 /\ ChangeAt(op) = 3 /\ Len(Script[op]) = 5
    BY <1>9, Lengths DEF LogAt, ChangeAt
  <2>4. QED BY <1>9, <2>1, <2>2, <2>3 DEF UpdateFile, Finders, Writers, Removals, Deletions
<1>10. CASE op = "removeFile"
  <2>1. Script[op] = RemoveFile /\ i \in 1 .. 7
    BY <1>10, Lengths DEF Script
  <2>2. i = 1 \/ i = 2 \/ i = 3 \/ i = 4 \/ i = 5 \/ i = 6 \/ i = 7
    BY <2>1
  <2>3. LogAt(op) = 5 /\ ChangeAt(op) = 6 /\ Len(Script[op]) = 7
    BY <1>10, Lengths DEF LogAt, ChangeAt
  <2>4. QED BY <1>10, <2>1, <2>2, <2>3 DEF RemoveFile, Finders, Writers, Removals, Deletions
<1>11. CASE op = "disableUser"
  <2>1. Script[op] = DisableUser /\ i \in 1 .. 5
    BY <1>11, Lengths DEF Script
  <2>2. i = 1 \/ i = 2 \/ i = 3 \/ i = 4 \/ i = 5
    BY <2>1
  <2>3. LogAt(op) = 4 /\ ChangeAt(op) = 3 /\ Len(Script[op]) = 5
    BY <1>11, Lengths DEF LogAt, ChangeAt
  <2>4. QED BY <1>11, <2>1, <2>2, <2>3 DEF DisableUser, Finders, Writers, Removals, Deletions
<1>12. QED BY <1>1, <1>2, <1>3, <1>4, <1>5, <1>6, <1>7, <1>8, <1>9, <1>10, <1>11, Names
          DEF FormOps, LaudoOps, FileOps

-----------------------------------------------------------------------------
\* Where a call can be and what it carries there.

Stmt(r) == Script[r.op][r.at]

Shaped(r) ==
  /\ r.op = None => r = Blank
  /\ r.at # 0 => r.op \in Routes /\ r.at \in 1 .. Len(Script[r.op]) /\ r.status = 0
  /\ r.op \in FormOps => r.id \in FormIds
  /\ r.op \in LaudoOps => r.id \in LaudoIds
  /\ r.op \in FileOps => r.id \in FileIds
  /\ r.op = "disableUser" => r.id \in UserIds
  /\ r.op # "updateLaudo" => r.form = None
  /\ r.op # "updateFile" => r.owner = None
  /\ (r.at # 0 /\ Stmt(r) = "update" /\ r.op = "updateLaudo") => r.form # None

AllShaped == \A c \in Calls : Shaped(req[c])

Typed == TypeOK /\ AllShaped

-----------------------------------------------------------------------------
\* What a step does, by kind.

Alone(c) == \A d \in Calls \ {c} : req'[d] = req[d]

Starts(c) ==
  /\ req[c] = Blank /\ req'[c].op \in Routes /\ req'[c].at = 1 /\ req'[c].status = 0
  /\ UNCHANGED <<users, rows, used, changed, logs, faulted>>

Moves(c) ==
  /\ Running(c)
  /\ req'[c].op = req[c].op /\ req'[c].at = req[c].at + 1
  /\ req'[c].status = req[c].status
  /\ Stmt(req[c]) # "address" => req'[c].actor = req[c].actor
  /\ Stmt(req[c]) # "insert" => req'[c].id = req[c].id

Finds(c) ==
  /\ Moves(c) /\ Stmt(req[c]) \in Finders
  /\ UNCHANGED <<users, rows, used, changed, logs, faulted>>

Stops(c, status) ==
  /\ Running(c)
  /\ req'[c] = [req[c] EXCEPT !.at = 0, !.status = status]

Fails(c) ==
  /\ Stmt(req[c]) \in Finders \union Writers
  /\ Stmt(req[c]) = "cancel" => ~Found(c)
  /\ \E status \in {400, 404, 500} :
       Stops(c, status) /\ (status = 404 => Stmt(req[c]) \in Finders)
  /\ UNCHANGED <<users, rows, used, changed, logs, faulted>>

Faults(c) ==
  /\ \E status \in {400, 500} : Stops(c, status)
  /\ faulted' = faulted \union {c}
  /\ UNCHANGED <<users, rows, used, changed, logs>>

Commits(c) ==
  /\ Moves(c) /\ Stmt(req[c]) \in Writers
  /\ changed' = changed \union {c}
  /\ UNCHANGED <<users, logs, faulted>>

Logs(c) ==
  /\ Moves(c) /\ Stmt(req[c]) = "log" /\ req[c].actor \in users
  /\ logs' = logs \union {c}
  /\ UNCHANGED <<users, rows, used, changed, faulted>>

LosesLog(c) ==
  /\ Stops(c, 400) /\ Stmt(req[c]) = "log" /\ req[c].actor \notin users
  /\ UNCHANGED <<users, rows, used, changed, logs, faulted>>

Replies(c) ==
  /\ Stops(c, 200) /\ Stmt(req[c]) = "reply"
  /\ UNCHANGED <<users, rows, used, changed, logs, faulted>>

-----------------------------------------------------------------------------
LEMMA TableIs ==
  ASSUME NEW tbl
  PROVE  IsTable(tbl) <=> /\ tbl = [x \in DOMAIN tbl |-> tbl[x]]
                          /\ DOMAIN tbl \subseteq RowIds
                          /\ \A x \in DOMAIN tbl : tbl[x] \in Row
BY DEF IsTable

LEMMA Wrote ==
  ASSUME Typed, NEW c \in Calls, NEW r \in Requests, Shaped(r),
         req' = [req EXCEPT ![c] = r]
  PROVE  req' \in [Calls -> Requests] /\ AllShaped'
BY DEF Typed, TypeOK, AllShaped

LEMMA RequestIs ==
  ASSUME Typed, NEW c \in Calls
  PROVE  req[c] \in Requests /\ Shaped(req[c])
BY DEF Typed, TypeOK, AllShaped

LEMMA TypedIfReq ==
  ASSUME Typed, req' \in [Calls -> Requests], AllShaped',
         UNCHANGED <<users, rows, used, changed, logs>>,
         faulted' \in SUBSET Calls
  PROVE  Typed'
BY DEF Typed, TypeOK

LEMMA Ended ==
  ASSUME Typed, NEW c \in Calls, Running(c), NEW status \in Statuses, Answer(c, status)
  PROVE  req' \in [Calls -> Requests] /\ AllShaped' /\ Stops(c, status) /\ Alone(c)
<1> DEFINE r == [req[c] EXCEPT !.at = 0, !.status = status]
<1>1. req[c] \in Requests /\ Shaped(req[c]) /\ req[c].op \in Routes
  BY RequestIs DEF Running, Shaped
<1>2. r \in Requests
  <2>1. 0 \in 0 .. 7
    OBVIOUS
  <2>2. \A q \in Requests : \A n \in 0 .. 7 :
          [q EXCEPT !.at = n, !.status = status] \in Requests
    BY DEF Requests
  <2>3. QED BY <1>1, <2>1, <2>2
<1>3. req[c].op # None
  BY <1>1, RecordsInstance, RecordsNone, RequestIs DEF Shaped, Blank, Running
<1>4. Shaped(r)
  BY <1>1, <1>3 DEF Shaped, Requests
<1>5. req' = [req EXCEPT ![c] = r]
  BY <1>1 DEF Answer, Requests, Typed, TypeOK
<1> HIDE DEF r
<1>6. req' \in [Calls -> Requests] /\ AllShaped'
  BY <1>2, <1>4, <1>5, Wrote
<1>7. QED BY <1>5, <1>6 DEF r, Typed, TypeOK, Stops, Alone

LEMMA Advanced ==
  ASSUME Typed, NEW c \in Calls, Running(c), NEW r \in Requests,
         Stmt(req[c]) # "reply",
         Stmt(req[c]) = "form" => req[c].form # None,
         r.op = req[c].op, r.at = req[c].at + 1, r.status = req[c].status,
         r.form = req[c].form, r.owner = req[c].owner,
         r.id = req[c].id \/ r.op = "createForm",
         Stmt(req[c]) # "address" => r.actor = req[c].actor,
         Stmt(req[c]) # "insert" => r.id = req[c].id,
         req' = [req EXCEPT ![c] = r]
  PROVE  req' \in [Calls -> Requests] /\ AllShaped' /\ req'[c] = r /\ Alone(c) /\ Moves(c)
<1>1. req[c] \in Requests /\ Shaped(req[c])
  BY RequestIs
<1>2. req[c].op \in AllRoutes /\ req[c].at \in 1 .. Len(Script[req[c].op])
  BY <1>1, RecordsInstance DEF Running, Shaped
<1>3. r.at \in 1 .. Len(Script[r.op])
  BY <1>2, Scripts, Spots DEF Stmt
<1>4. r.op # None
  BY <1>1, <1>2 DEF Shaped, Blank, Running
<1>5. (Stmt(r) = "update" /\ r.op = "updateLaudo") => Stmt(req[c]) = "form"
  <2>1. r.at - 1 = req[c].at
    BY <1>2
  <2>2. QED BY <1>2, <1>3, <2>1, Scripts DEF Stmt
<1>6. Shaped(r)
  BY <1>1, <1>3, <1>4, <1>5 DEF Shaped, Running, FormOps, LaudoOps, FileOps
<1>7. req' \in [Calls -> Requests] /\ AllShaped' /\ req'[c] = r
  BY <1>6, Wrote DEF Typed, TypeOK
<1>8. QED BY <1>7 DEF Alone, Moves, Typed, TypeOK

LEMMA CallStep ==
  ASSUME Typed, NEW c \in Calls, Call(c)
  PROVE  Typed' /\ Alone(c) /\ Starts(c)
<1>1. PICK op \in Routes, actor \in Headers :
        \E id \in Named(op),
           form \in (IF op = "updateLaudo" THEN FormIds \union {None} ELSE {None}),
           owner \in (IF op = "updateFile" THEN UserIds \union {None} ELSE {None}) :
          req' = [req EXCEPT ![c] =
                    [op |-> op, at |-> 1, actor |-> actor, id |-> id,
                     form |-> form, owner |-> owner, status |-> 0]]
  BY DEF Call
<1>2. PICK id \in Named(op),
           form \in (IF op = "updateLaudo" THEN FormIds \union {None} ELSE {None}),
           owner \in (IF op = "updateFile" THEN UserIds \union {None} ELSE {None}) :
          req' = [req EXCEPT ![c] =
                    [op |-> op, at |-> 1, actor |-> actor, id |-> id,
                     form |-> form, owner |-> owner, status |-> 0]]
  BY <1>1
<1> DEFINE r == [op |-> op, at |-> 1, actor |-> actor, id |-> id, form |-> form,
                 owner |-> owner, status |-> 0]
<1>3. op \in AllRoutes
  BY RecordsInstance
<1>4. 1 \in 1 .. Len(Script[op])
  BY <1>3, Spots
<1>5. r \in Requests
  BY <1>4, RecordsInstance DEF Requests, Named, RowIds, Statuses
<1>6. Stmt(r) # "update"
  BY <1>3, <1>4, Scripts DEF Stmt
<1>7. op # None
  BY <1>3, RecordsNone
<1>8. Shaped(r)
  BY <1>4, <1>6, <1>7 DEF Shaped, Named, FormOps, LaudoOps, FileOps
<1>9. QED BY <1>2, <1>5, <1>8, Wrote DEF Call, Typed, TypeOK, Alone, Starts

LEMMA NextSpot ==
  ASSUME Typed, NEW c \in Calls, Running(c), Stmt(req[c]) # "reply"
  PROVE  req[c].at + 1 \in 0 .. 7
<1>1. req[c].op \in AllRoutes /\ req[c].at \in 1 .. Len(Script[req[c].op])
  BY RequestIs, RecordsInstance DEF Running, Shaped
<1>2. req[c].at # Len(Script[req[c].op])
  BY <1>1, Scripts DEF Stmt
<1>3. PICK n \in 3 .. 7 : n = Len(Script[req[c].op])
  BY <1>1, Spots
<1>4. req[c].at \in 1 .. n /\ req[c].at # n
  BY <1>1, <1>2, <1>3
<1>5. QED BY <1>4

LEMMA LookupStep ==
  ASSUME Typed, NEW c \in Calls, Running(c), NEW id, NEW stored, NEW missing,
         Lookup(c, id, stored, missing), StatusOf(missing) \in {400, 404},
         Stmt(req[c]) \in Finders,
         Stmt(req[c]) = "form" => id = req[c].form,
         None \notin stored,
         UNCHANGED <<users, rows, used, changed, logs, faulted>>
  PROVE  Typed' /\ Alone(c) /\ (Finds(c) \/ Fails(c))
<1>1. CASE \E status \in {400, 404, 500} : Answer(c, status)
  <2>1. PICK status \in {400, 404, 500} : Answer(c, status)
    BY <1>1
  <2>2. status \in Statuses
    BY DEF Statuses
  <2>3. Typed' /\ Alone(c) /\ Stops(c, status)
    BY <2>1, <2>2, Ended, TypedIfReq DEF Typed, TypeOK
  <2>4. QED BY <2>3 DEF Fails, Finders
<1>2. CASE id \in stored /\ Proceed(c)
  <2> DEFINE r == [req[c] EXCEPT !.at = @ + 1]
  <2>1. req[c] \in Requests /\ Shaped(req[c])
    BY RequestIs
  <2>3. Stmt(req[c]) # "reply"
    BY DEF Finders
  <2>4. req[c].at + 1 \in 0 .. 7
    BY <2>3, NextSpot
  <2>5. r \in Requests
    BY <2>1, <2>4 DEF Requests
  <2>6. /\ r.op = req[c].op /\ r.at = req[c].at + 1 /\ r.status = req[c].status
        /\ r.form = req[c].form /\ r.owner = req[c].owner /\ r.id = req[c].id
        /\ r.actor = req[c].actor
    BY <2>1 DEF Requests
  <2>7. req' = [req EXCEPT ![c] = r]
    BY <1>2, <2>1 DEF Proceed, Typed, TypeOK
  <2>8. Stmt(req[c]) = "form" => req[c].form # None
    BY <1>2
  <2> HIDE DEF r
  <2>9. req' \in [Calls -> Requests] /\ AllShaped' /\ Alone(c) /\ Moves(c)
    BY <2>3, <2>5, <2>6, <2>7, <2>8, Advanced
  <2>10. QED BY <2>9 DEF Finds, Typed, TypeOK
<1>3. QED BY <1>1, <1>2, Statuses200 DEF Lookup, Throw

LEMMA AddressStep ==
  ASSUME Typed, NEW c \in Calls, FindAddress(c)
  PROVE  Typed' /\ Alone(c) /\ (Finds(c) \/ Fails(c))
<1>1. Running(c) /\ Stmt(req[c]) = "address"
  BY DEF FindAddress, At, Stmt
<1>2. UNCHANGED <<users, rows, used, changed, logs, faulted>>
  BY DEF FindAddress
<1>3. CASE Throw(c, NotFound)
  <2>1. Answer(c, 404) /\ 404 \in Statuses
    BY <1>3, Statuses200 DEF Throw, NotFound, Statuses
  <2>2. Typed' /\ Alone(c) /\ Stops(c, 404)
    BY <1>1, <1>2, <2>1, Ended, TypedIfReq DEF Typed, TypeOK
  <2>3. QED BY <1>1, <1>2, <2>2 DEF Fails, Finders
<1>4. ASSUME NEW u \in users, req' = [req EXCEPT ![c].at = @ + 1, ![c].actor = u]
      PROVE  Typed' /\ Alone(c) /\ Finds(c)
  <2> DEFINE r == [req[c] EXCEPT !.at = @ + 1, !.actor = u]
  <2>1. req[c] \in Requests /\ Shaped(req[c])
    BY RequestIs
  <2>2. req[c].at + 1 \in 0 .. 7
    BY <1>1, NextSpot
  <2>3. r \in Requests
    BY <2>1, <2>2 DEF Requests, Typed, TypeOK
  <2>4. /\ r.op = req[c].op /\ r.at = req[c].at + 1 /\ r.status = req[c].status
        /\ r.form = req[c].form /\ r.owner = req[c].owner /\ r.id = req[c].id
    BY <2>1 DEF Requests
  <2>5. req' = [req EXCEPT ![c] = r]
    BY <1>4, <2>1 DEF Typed, TypeOK
  <2> HIDE DEF r
  <2>6. req' \in [Calls -> Requests] /\ AllShaped' /\ Alone(c) /\ Moves(c)
    BY <1>1, <2>3, <2>4, <2>5, Advanced
  <2>7. QED BY <1>1, <1>2, <2>6 DEF Finds, Finders, Typed, TypeOK
<1>5. QED BY <1>3, <1>4 DEF FindAddress

LEMMA FindStep ==
  ASSUME Typed, NEW c \in Calls,
         \/ FindUser(c) \/ FindRow(c) \/ FindForm(c) \/ FindAddress(c)
         \/ FindAdmin(c) \/ FindTarget(c)
  PROVE  Typed' /\ Alone(c) /\ (Finds(c) \/ Fails(c))
<1>1. None \notin users /\ None \notin DOMAIN rows
  BY RecordsNone, TableIs DEF Typed, TypeOK
<1>2. StatusOf(NotFound) \in {400, 404} /\ StatusOf(HttpException(400)) \in {400, 404}
  BY Statuses200 DEF NotFound
<1>3. CASE FindUser(c)
  BY <1>1, <1>2, <1>3, LookupStep DEF FindUser, At, Stmt, Finders
<1>4. CASE FindRow(c)
  BY <1>1, <1>2, <1>4, LookupStep DEF FindRow, At, Stmt, Finders
<1>5. CASE FindForm(c)
  BY <1>1, <1>2, <1>5, LookupStep DEF FindForm, At, Stmt, Finders
<1>6. CASE FindAdmin(c)
  BY <1>1, <1>2, <1>6, LookupStep DEF FindAdmin, At, Stmt, Finders
<1>7. CASE FindTarget(c)
  BY <1>1, <1>2, <1>7, LookupStep DEF FindTarget, At, Stmt, Finders
<1>8. QED BY <1>3, <1>4, <1>5, <1>6, <1>7, AddressStep

\* A change is followed by another statement.
LEMMA ChangeStep ==
  ASSUME Typed, NEW c \in Calls, Running(c), NEW id \in RowIds \union UserIds,
         Stmt(req[c]) \in Writers,
         id = req[c].id \/ (Stmt(req[c]) = "insert" /\ id \in FormIds),
         req' = [req EXCEPT ![c] = [req[c] EXCEPT !.at = @ + 1, !.id = id]],
         changed' = changed \union {c},
         UNCHANGED <<users, logs, faulted>>,
         IsTable(rows'), used' \subseteq RowIds
  PROVE  Typed' /\ Alone(c) /\ Commits(c) /\ req'[c].id = id
<1> DEFINE r == [req[c] EXCEPT !.at = @ + 1, !.id = id]
<1>1. req[c] \in Requests /\ Shaped(req[c])
  BY RequestIs
<1>2. req[c].op \in AllRoutes /\ req[c].at \in 1 .. Len(Script[req[c].op])
  BY <1>1, RecordsInstance DEF Running, Shaped
<1>3. Stmt(req[c]) \notin {"reply", "form", "address"}
  BY DEF Writers
<1>4. req[c].at + 1 \in 0 .. 7
  BY <1>3, NextSpot
<1>5. r \in Requests
  BY <1>1, <1>4 DEF Requests
<1>6. /\ r.op = req[c].op /\ r.at = req[c].at + 1 /\ r.status = req[c].status
      /\ r.form = req[c].form /\ r.owner = req[c].owner /\ r.id = id
      /\ r.actor = req[c].actor
  BY <1>1 DEF Requests
<1>7. id = req[c].id \/ (Stmt(req[c]) = "insert" /\ r.op = "createForm")
  BY <1>2, <1>6, Scripts DEF Stmt
<1> HIDE DEF r
<1>8. req' \in [Calls -> Requests] /\ AllShaped' /\ req'[c] = r /\ Alone(c) /\ Moves(c)
  BY <1>3, <1>5, <1>6, <1>7, Advanced DEF r
<1>9. QED BY <1>6, <1>8 DEF Commits, Typed, TypeOK

\* The rows an insert, an update and a removal leave.
Inserted(i) ==
  [x \in DOMAIN rows \union {i} |->
     IF x = i THEN [canceled |-> FALSE, form |-> None, user |-> None] ELSE rows[x]]

Written(c) ==
  [x \in DOMAIN rows |-> IF x = req[c].id THEN Updated(c) ELSE rows[x]]

Marked(c) ==
  [x \in DOMAIN rows |->
     IF x = req[c].id THEN [rows[x] EXCEPT !.canceled = TRUE] ELSE rows[x]]

Inserts(c) ==
  /\ Commits(c) /\ Stmt(req[c]) = "insert" /\ req[c].op = "createForm"
  /\ \E i \in FormIds \ used :
       req'[c].id = i /\ rows' = Inserted(i) /\ used' = used \union {i}

Updates(c) ==
  /\ Commits(c) /\ Stmt(req[c]) = "update" /\ req'[c].id = req[c].id /\ Found(c)
  /\ req[c].form \in DOMAIN rows \union {None}
  /\ req[c].owner \in users \union {None}
  /\ rows' = Written(c) /\ UNCHANGED used

Cancels(c) ==
  /\ Commits(c) /\ Stmt(req[c]) = "cancel" /\ req'[c].id = req[c].id /\ Found(c)
  /\ rows' = Marked(c) /\ UNCHANGED used

Erases(c) ==
  /\ Commits(c) /\ Stmt(req[c]) = "erase" /\ req'[c].id = req[c].id /\ Found(c)
  /\ ~HasLaudos(req[c].id)
  /\ rows' = [x \in DOMAIN rows \ {req[c].id} |-> rows[x]] /\ UNCHANGED used

Disables(c) ==
  /\ Commits(c) /\ Stmt(req[c]) = "disable" /\ UNCHANGED <<rows, used>>

LEMMA InsertStep ==
  ASSUME Typed, NEW c \in Calls, InsertForm(c)
  PROVE  Typed' /\ Alone(c) /\ Inserts(c)
<1> PICK i \in FormIds \ used :
           /\ At(c, "insert") /\ rows' = Inserted(i) /\ used' = used \union {i}
           /\ req' = [req EXCEPT ![c].at = @ + 1, ![c].id = i]
           /\ changed' = changed \union {c}
           /\ UNCHANGED <<users, logs, faulted>>
  BY DEF InsertForm, Inserted
<1>1. Running(c) /\ Stmt(req[c]) = "insert" /\ Stmt(req[c]) \in Writers
  BY DEF At, Stmt, Writers
<1>2. req[c] \in Requests /\ Shaped(req[c])
  BY RequestIs
<1>3. req[c].op = "createForm"
  BY <1>1, <1>2, RecordsInstance, Scripts DEF Shaped, Running, Stmt
<1>4. IsTable(rows')
  <2>1. \A x \in DOMAIN Inserted(i) : Inserted(i)[x] \in Row
    BY TableIs DEF Inserted, Typed, TypeOK, Row
  <2>2. DOMAIN Inserted(i) \subseteq RowIds
        /\ Inserted(i) = [x \in DOMAIN Inserted(i) |-> Inserted(i)[x]]
    BY TableIs DEF Inserted, Typed, TypeOK, RowIds
  <2>3. QED BY <2>1, <2>2, TableIs
<1>5. req' = [req EXCEPT ![c] = [req[c] EXCEPT !.at = @ + 1, !.id = i]]
  BY <1>2 DEF Typed, TypeOK, Requests
<1>6. i \in RowIds /\ used' \subseteq RowIds
  BY DEF RowIds, Typed, TypeOK
<1>7. QED BY <1>1, <1>3, <1>4, <1>5, <1>6, ChangeStep DEF Inserts

\* A change of the row or user named.
LEMMA ExistingStep ==
  ASSUME Typed, NEW c \in Calls, Running(c),
         Stmt(req[c]) \in Writers, Found(c) \/ req[c].id \in UserIds,
         Proceed(c), changed' = changed \union {c},
         UNCHANGED <<users, used, logs, faulted>>, IsTable(rows')
  PROVE  Typed' /\ Alone(c) /\ Commits(c) /\ req'[c].id = req[c].id
<1>1. req[c] \in Requests
  BY RequestIs
<1>2. req[c].id \in RowIds \union UserIds
  BY TableIs DEF Found, Typed, TypeOK
<1>3. req' = [req EXCEPT ![c] = [req[c] EXCEPT !.at = @ + 1, !.id = req[c].id]]
  BY <1>1 DEF Proceed, Typed, TypeOK, Requests
<1>4. used' \subseteq RowIds
  BY DEF Typed, TypeOK
<1>5. QED BY <1>2, <1>3, <1>4, ChangeStep

LEMMA FailStep ==
  ASSUME Typed, NEW c \in Calls, Running(c), Stmt(req[c]) \in Writers,
         Stmt(req[c]) = "cancel" => ~Found(c), Answer(c, 400), UNCHANGED <<users, rows, used, changed, logs, faulted>>
  PROVE  Typed' /\ Alone(c) /\ Fails(c)
<1>1. 400 \in Statuses
  BY DEF Statuses
<1>2. Typed' /\ Alone(c) /\ Stops(c, 400)
  BY <1>1, Ended, TypedIfReq DEF Typed, TypeOK
<1>3. QED BY <1>2 DEF Fails

LEMMA UpdateStep ==
  ASSUME Typed, NEW c \in Calls, UpdateRow(c)
  PROVE  Typed' /\ Alone(c) /\ (Fails(c) \/ Updates(c))
<1>1. Running(c) /\ Stmt(req[c]) = "update" /\ Stmt(req[c]) \in Writers
  BY DEF UpdateRow, At, Stmt, Writers
<1>2. CASE Found(c) /\ req[c].form \in DOMAIN rows \union {None}
           /\ req[c].owner \in users \union {None}
  <2>1. /\ rows' = Written(c) /\ changed' = changed \union {c} /\ Proceed(c)
        /\ UNCHANGED <<users, used, logs, faulted>>
    BY <1>2 DEF UpdateRow, Written
  <2>2. Updated(c) \in Row
    <3>1. rows[req[c].id] \in Row /\ req[c] \in Requests
      BY <1>2, TableIs, RequestIs DEF Found, Typed, TypeOK
    <3>2. QED BY <3>1 DEF Updated, Row, Requests
  <2>3. IsTable(Written(c))
    <3>1. \A x \in DOMAIN Written(c) : Written(c)[x] \in Row
      BY <2>2, TableIs DEF Written, Typed, TypeOK
    <3>2. DOMAIN Written(c) \subseteq RowIds
          /\ Written(c) = [x \in DOMAIN Written(c) |-> Written(c)[x]]
      BY TableIs DEF Written, Typed, TypeOK
    <3>3. QED BY <3>1, <3>2, TableIs
  <2>4. QED BY <1>1, <1>2, <2>1, <2>3, ExistingStep DEF Updates
<1>3. CASE ~(Found(c) /\ req[c].form \in DOMAIN rows \union {None}
             /\ req[c].owner \in users \union {None})
  BY <1>1, <1>3, FailStep, Statuses200 DEF UpdateRow, Throw
<1>4. QED BY <1>2, <1>3

LEMMA CancelStep ==
  ASSUME Typed, NEW c \in Calls, CancelRow(c)
  PROVE  Typed' /\ Alone(c) /\ (Fails(c) \/ Cancels(c))
<1>1. Running(c) /\ Stmt(req[c]) = "cancel" /\ Stmt(req[c]) \in Writers
  BY DEF CancelRow, At, Stmt, Writers
<1>2. CASE Found(c)
  <2>1. /\ rows' = Marked(c) /\ changed' = changed \union {c} /\ Proceed(c)
        /\ UNCHANGED <<users, used, logs, faulted>>
    BY <1>2 DEF CancelRow, Marked
  <2>2. IsTable(Marked(c))
    <3>1. \A x \in DOMAIN Marked(c) : Marked(c)[x] \in Row
      <4>1. \A r \in Row : [r EXCEPT !.canceled = TRUE] \in Row
        BY DEF Row
      <4>2. QED BY <4>1, TableIs DEF Marked, Typed, TypeOK
    <3>2. DOMAIN Marked(c) \subseteq RowIds
          /\ Marked(c) = [x \in DOMAIN Marked(c) |-> Marked(c)[x]]
      BY TableIs DEF Marked, Typed, TypeOK
    <3>3. QED BY <3>1, <3>2, TableIs
  <2>3. QED BY <1>1, <1>2, <2>1, <2>2, ExistingStep DEF Cancels
<1>3. CASE ~Found(c)
  BY <1>1, <1>3, FailStep, Statuses200 DEF CancelRow, Throw
<1>4. QED BY <1>2, <1>3

LEMMA EraseStep ==
  ASSUME Typed, NEW c \in Calls, EraseRow(c)
  PROVE  Typed' /\ Alone(c) /\ (Fails(c) \/ Erases(c))
<1>1. Running(c) /\ Stmt(req[c]) = "erase" /\ Stmt(req[c]) \in Writers
  BY DEF EraseRow, At, Stmt, Writers
<1>2. CASE Found(c) /\ ~HasLaudos(req[c].id)
  <2> DEFINE t == [x \in DOMAIN rows \ {req[c].id} |-> rows[x]]
  <2>1. /\ rows' = t /\ changed' = changed \union {c} /\ Proceed(c)
        /\ UNCHANGED <<users, used, logs, faulted>>
    BY <1>2 DEF EraseRow
  <2>2. IsTable(t)
    BY TableIs DEF Typed, TypeOK
  <2>3. QED BY <1>1, <1>2, <2>1, <2>2, ExistingStep DEF Erases
<1>3. CASE ~(Found(c) /\ ~HasLaudos(req[c].id))
  BY <1>1, <1>3, FailStep, Statuses200 DEF EraseRow, Throw
<1>4. QED BY <1>2, <1>3

LEMMA DisableStep ==
  ASSUME Typed, NEW c \in Calls, Disable(c)
  PROVE  Typed' /\ Alone(c) /\ (Fails(c) \/ Disables(c))
<1>1. Running(c) /\ Stmt(req[c]) = "disable" /\ Stmt(req[c]) \in Writers
  BY DEF Disable, At, Stmt, Writers
<1>2. CASE req[c].id \in users
  <2>1. /\ changed' = changed \union {c} /\ Proceed(c)
        /\ UNCHANGED <<users, rows, used, logs, faulted>>
    BY <1>2 DEF Disable
  <2>2. req[c].id \in UserIds /\ IsTable(rows')
    BY <1>2, <2>1 DEF Typed, TypeOK
  <2>3. QED BY <1>1, <2>1, <2>2, ExistingStep DEF Disables
<1>3. CASE req[c].id \notin users
  BY <1>1, <1>3, FailStep, Statuses200 DEF Disable, Throw
<1>4. QED BY <1>2, <1>3

LEMMA LogStep ==
  ASSUME Typed, NEW c \in Calls, WriteLog(c)
  PROVE  Typed' /\ Alone(c) /\ (Logs(c) \/ LosesLog(c))
<1>1. Running(c) /\ Stmt(req[c]) = "log"
  BY DEF WriteLog, At, Stmt
<1>2. CASE req[c].actor \in users
  <2> DEFINE r == [req[c] EXCEPT !.at = @ + 1]
  <2>1. /\ Proceed(c) /\ logs' = logs \union {c}
        /\ UNCHANGED <<users, rows, used, changed, faulted>>
    BY <1>2 DEF WriteLog
  <2>2. req[c] \in Requests /\ Shaped(req[c])
    BY RequestIs
  <2>4. req[c].at + 1 \in 0 .. 7
    BY <1>1, NextSpot
  <2>5. r \in Requests
    BY <2>2, <2>4 DEF Requests
  <2>6. /\ r.op = req[c].op /\ r.at = req[c].at + 1 /\ r.status = req[c].status
        /\ r.form = req[c].form /\ r.owner = req[c].owner /\ r.id = req[c].id
        /\ r.actor = req[c].actor
    BY <2>2 DEF Requests
  <2>7. req' = [req EXCEPT ![c] = r]
    BY <2>1, <2>2 DEF Proceed, Typed, TypeOK
  <2> HIDE DEF r
  <2>8. req' \in [Calls -> Requests] /\ AllShaped' /\ Alone(c) /\ Moves(c)
    BY <1>1, <2>5, <2>6, <2>7, Advanced
  <2>9. Typed'
    BY <2>1, <2>8 DEF Typed, TypeOK
  <2>10. QED BY <1>1, <1>2, <2>1, <2>8, <2>9 DEF Logs
<1>3. CASE req[c].actor \notin users
  <2>1. Answer(c, 400) /\ UNCHANGED <<users, rows, used, changed, logs, faulted>>
    BY <1>3, Statuses200 DEF WriteLog, Throw
  <2>2. 400 \in Statuses
    BY DEF Statuses
  <2>3. Typed' /\ Alone(c) /\ Stops(c, 400)
    BY <1>1, <2>1, <2>2, Ended, TypedIfReq DEF Typed, TypeOK
  <2>4. QED BY <1>1, <1>3, <2>1, <2>3 DEF LosesLog
<1>4. QED BY <1>2, <1>3

LEMMA ReplyStep ==
  ASSUME Typed, NEW c \in Calls, Reply(c)
  PROVE  Typed' /\ Alone(c) /\ Replies(c)
<1>1. Running(c) /\ Stmt(req[c]) = "reply" /\ Answer(c, 200)
      /\ UNCHANGED <<users, rows, used, changed, logs, faulted>>
  BY DEF Reply, At, Stmt
<1>2. 200 \in Statuses
  BY DEF Statuses
<1>3. Typed' /\ Alone(c) /\ Stops(c, 200)
  BY <1>1, <1>2, Ended, TypedIfReq DEF Typed, TypeOK
<1>4. QED BY <1>1, <1>3 DEF Replies

LEMMA FaultStep ==
  ASSUME Typed, NEW c \in Calls, Fault(c)
  PROVE  Typed' /\ Alone(c) /\ Faults(c)
<1>1. PICK status \in {400, 500} : Answer(c, status)
  BY Statuses200 DEF Fault, Throw
<1>2. status \in Statuses
  BY DEF Statuses
<1>3. /\ Running(c) /\ faulted' = faulted \union {c}
      /\ UNCHANGED <<users, rows, used, changed, logs>>
  BY DEF Fault
<1>4. Typed' /\ Alone(c) /\ Stops(c, status)
  BY <1>1, <1>2, <1>3, Ended, TypedIfReq DEF Typed, TypeOK
<1>5. QED BY <1>3, <1>4 DEF Faults

Changes(c) == Inserts(c) \/ Updates(c) \/ Cancels(c) \/ Erases(c) \/ Disables(c)

\* Any step of a call.
Acts(c) ==
  \/ Starts(c) \/ Finds(c) \/ Fails(c) \/ Faults(c) \/ Changes(c)
  \/ Logs(c) \/ LosesLog(c) \/ Replies(c)

LEMMA Steps ==
  ASSUME Typed, [Next]_vars
  PROVE  /\ Typed'
         /\ \/ UNCHANGED vars
            \/ \E c \in Calls : Alone(c) /\ Acts(c)
            \/ \E u \in UserIds : DeleteUser(u)
            \/ Crash
<1>1. CASE UNCHANGED vars
  BY <1>1 DEF vars, Typed, TypeOK, AllShaped
<1>2. ASSUME NEW c \in Calls, Statement(c)
      PROVE  Typed' /\ Alone(c) /\ Acts(c)
  BY <1>2, FindStep, InsertStep, UpdateStep, CancelStep, EraseStep, DisableStep, LogStep,
     ReplyStep DEF Statement, Changes, Acts
<1>3. ASSUME NEW u \in UserIds, DeleteUser(u)
      PROVE  Typed'
  BY <1>3 DEF DeleteUser, Typed, TypeOK, AllShaped
<1>4. CASE Crash
  <2>1. \A r \in Requests : [r EXCEPT !.at = 0] \in Requests
    BY DEF Requests
  <2>2. \A c \in Calls : req'[c] = req[c] \/ (Running(c) /\ req'[c] = [req[c] EXCEPT !.at = 0])
    BY <1>4 DEF Crash
  <2>3. req' \in [Calls -> Requests]
    BY <1>4, <2>1 DEF Crash, Typed, TypeOK
  <2>4. ASSUME NEW c \in Calls
        PROVE  Shaped(req'[c])
    <3>1. req[c] \in Requests /\ Shaped(req[c])
      BY RequestIs
    <3>2. CASE Running(c) /\ req'[c] = [req[c] EXCEPT !.at = 0]
      <4>1. req[c].op # None
        BY <3>1, <3>2, RecordsInstance, RecordsNone DEF Running, Shaped
      <4>2. QED BY <3>1, <3>2, <4>1 DEF Shaped, Requests
    <3>3. QED BY <2>2, <3>1, <3>2
  <2>5. QED BY <1>4, <2>3, <2>4 DEF Crash, Typed, TypeOK, AllShaped
<1>5. QED BY <1>1, <1>2, <1>3, <1>4, CallStep, FaultStep DEF Next, Acts

LEMMA InitTyped == Init => Typed
<1> SUFFICES ASSUME Init PROVE Typed
  OBVIOUS
<1>1. Blank \in Requests /\ Shaped(Blank)
  <2>1. None \notin FormOps \union LaudoOps \union FileOps \union {"disableUser"}
    BY RecordsNone, Names
  <2>2. 0 \in 0 .. 7 /\ 0 \in Statuses
    BY DEF Statuses
  <2>3. QED BY <2>1, <2>2 DEF Blank, Requests, Shaped
<1>2. IsTable(SeedRows)
  BY RecordsInstance
<1>3. DOMAIN SeedRows \subseteq RowIds
  BY <1>2, TableIs
<1>4. QED BY <1>1, <1>2, <1>3 DEF Init, Typed, TypeOK, AllShaped

LEMMA AlwaysTyped == Spec => []Typed
BY InitTyped, Steps, PTL DEF Spec

\* The type invariant of Records.
THEOREM TypeCorrect == Spec => []TypeOK
<1>1. Typed => TypeOK
  BY DEF Typed
<1>2. QED BY <1>1, AlwaysTyped, PTL

-----------------------------------------------------------------------------
(***************************************************************************)
(* What a call has done when it gets where it is.  A call that runs has    *)
(* written its log exactly when it stands after it, and committed its      *)
(* change exactly when it stands after that; so one that fails elsewhere   *)
(* has done neither, and one that fails at the log has lost its user.      *)
(***************************************************************************)
Progress(c) ==
  /\ req[c].op = None => c \notin changed /\ c \notin logs
  /\ Running(c) =>
       /\ c \in logs <=> req[c].at > LogAt(req[c].op)
       /\ c \in changed <=> req[c].op # "createLog" /\ req[c].at > ChangeAt(req[c].op)
  /\ c \in logs =>
       /\ req[c].actor \in users
       /\ req[c].op \notin {"createLog", "removeFile"} => c \in changed
  /\ req[c].status = 200 => c \in logs /\ (req[c].op # "createLog" => c \in changed)
  /\ req[c].status = 404 => c \notin changed /\ c \notin logs
  /\ (c \in changed /\ c \notin logs /\ ~Running(c))
       => req[c].actor \notin users \/ c \in faulted

AllProgress == \A c \in Calls : Progress(c)

LEMMA Untouched ==
  ASSUME NEW d, Progress(d), req'[d] = req[d], UNCHANGED users,
         d \in changed' <=> d \in changed, d \in logs' <=> d \in logs,
         d \in faulted => d \in faulted'
  PROVE  Progress(d)'
BY DEF Progress, Running, LogAt, ChangeAt

LEMMA ScriptOf ==
  ASSUME Typed, NEW c \in Calls, Running(c)
  PROVE  /\ req[c].op \in AllRoutes /\ req[c].op # None
         /\ req[c].at \in 1 .. Len(Script[req[c].op]) /\ req[c].status = 0
BY RequestIs, RecordsInstance, RecordsNone DEF Running, Shaped

\* Where a call that runs stands.
LEMMA Stands ==
  ASSUME Typed, AllProgress, NEW c \in Calls, Running(c)
  PROVE  /\ Stmt(req[c]) \in Finders => c \notin changed /\ c \notin logs
         /\ Stmt(req[c]) \in Writers
              => c \notin changed /\ (c \in logs => Stmt(req[c]) = "cancel")
         /\ Stmt(req[c]) = "log"
              => c \notin logs
                 /\ (req[c].op \notin {"createLog", "removeFile"} => c \in changed)
         /\ Stmt(req[c]) = "reply"
              => c \in logs /\ (req[c].op # "createLog" => c \in changed)
<1>1. req[c].op \in AllRoutes /\ req[c].at \in 1 .. Len(Script[req[c].op])
  BY ScriptOf
<1>2. Progress(c)
  BY DEF AllProgress
<1> DEFINE op == req[c].op
           i == req[c].at
<1>3. /\ i \in Nat /\ LogAt(op) \in Nat /\ ChangeAt(op) \in Nat /\ Len(Script[op]) \in Nat
      /\ LogAt(op) < Len(Script[op]) /\ ChangeAt(op) < Len(Script[op])
      /\ op # "removeFile" => ChangeAt(op) + 1 = LogAt(op)
  BY <1>1, Spots
<1>4. CASE Stmt(req[c]) \in Finders
  <2>1. i < LogAt(op) /\ (op # "createLog" => i < ChangeAt(op))
    BY <1>1, <1>4, Scripts DEF Stmt
  <2>2. Stmt(req[c]) \notin Writers /\ Stmt(req[c]) \notin {"log", "reply"}
    BY <1>4 DEF Finders, Writers
  <2>3. QED BY <1>2, <1>3, <2>1, <2>2 DEF Progress
<1>5. CASE Stmt(req[c]) \in Writers
  <2>1. op # "createLog" /\ i = ChangeAt(op)
    BY <1>1, <1>5, Scripts DEF Stmt
  <2>2. Stmt(req[c]) \notin Finders /\ Stmt(req[c]) \notin {"log", "reply"}
    BY <1>5 DEF Finders, Writers
  <2>3. c \in logs => op = "removeFile" /\ i = 6
    BY <1>2, <1>3, <2>1 DEF Progress, ChangeAt
  <2>4. c \in logs => Stmt(req[c]) = "cancel"
    BY <1>1, <2>3, Scripts DEF Stmt
  <2>5. QED BY <1>2, <1>3, <2>1, <2>2, <2>4 DEF Progress
<1>6. CASE Stmt(req[c]) = "log"
  <2>1. i = LogAt(op)
    BY <1>1, <1>6, Scripts DEF Stmt
  <2>2. Stmt(req[c]) \notin Finders /\ Stmt(req[c]) \notin Writers
    BY <1>6 DEF Finders, Writers
  <2>3. QED BY <1>2, <1>3, <1>6, <2>1, <2>2 DEF Progress
<1>7. CASE Stmt(req[c]) = "reply"
  <2>1. i = Len(Script[op])
    BY <1>1, <1>7, Scripts DEF Stmt
  <2>2. Stmt(req[c]) \notin Finders /\ Stmt(req[c]) \notin Writers
    BY <1>7 DEF Finders, Writers
  <2>3. QED BY <1>2, <1>3, <1>7, <2>1, <2>2 DEF Progress
<1>8. QED BY <1>4, <1>5, <1>6, <1>7

\* One statement further.
LEMMA Moved ==
  ASSUME Typed, NEW c \in Calls, Moves(c)
  PROVE  /\ Running(c)' /\ req'[c].op = req[c].op /\ req[c].op # None /\ req'[c].status = 0
         /\ req'[c].at > LogAt(req[c].op)
              <=> req[c].at > LogAt(req[c].op) \/ Stmt(req[c]) = "log"
         /\ req[c].op # "createLog" =>
              (req'[c].at > ChangeAt(req[c].op)
                 <=> req[c].at > ChangeAt(req[c].op) \/ Stmt(req[c]) \in Writers)
         /\ Stmt(req[c]) \in Writers => req[c].op # "createLog"
<1>1. Running(c) /\ req[c].op \in AllRoutes /\ req[c].at \in 1 .. Len(Script[req[c].op])
      /\ req[c].op # None /\ req[c].status = 0
  BY ScriptOf DEF Moves
<1>2. LogAt(req[c].op) \in Nat /\ ChangeAt(req[c].op) \in Nat /\ req[c].at \in Nat
  BY <1>1, Spots
<1>3. /\ Stmt(req[c]) = "log" <=> req[c].at = LogAt(req[c].op)
      /\ Stmt(req[c]) \in Writers
           <=> req[c].op # "createLog" /\ req[c].at = ChangeAt(req[c].op)
  BY <1>1, Scripts DEF Stmt
<1>4. req'[c].op = req[c].op /\ req'[c].at = req[c].at + 1 /\ req'[c].status = 0
  BY <1>1 DEF Moves
<1>5. Running(c)'
  BY <1>1, <1>4 DEF Running
<1>6. QED BY <1>1, <1>2, <1>3, <1>4, <1>5

LEMMA OwnProgress ==
  ASSUME Typed, Typed', AllProgress, NEW c \in Calls, Acts(c)
  PROVE  Progress(c)'
<1>1. req[c] \in Requests /\ Progress(c)
  BY RequestIs DEF AllProgress
<1>2. ASSUME NEW status, Stops(c, status)
      PROVE  /\ ~Running(c)' /\ req'[c].op # None /\ req'[c].status = status
             /\ req'[c].op = req[c].op /\ req'[c].actor = req[c].actor
             /\ Running(c)
  BY <1>1, <1>2, ScriptOf DEF Stops, Running, Requests
<1>3. CASE Starts(c)
  <2>1. Running(c)'
    BY <1>3 DEF Starts, Running
  <2>2. req'[c].op \in AllRoutes /\ req'[c].op # None
    BY <2>1, <1>3, RecordsInstance, RecordsNone DEF Starts
  <2>3. c \notin changed /\ c \notin logs
    BY <1>1, <1>3 DEF Starts, Progress, Blank
  <2>4. LogAt(req'[c].op) \in 2 .. 5 /\ ChangeAt(req'[c].op) \in 1 .. 6
    BY <2>2, Spots
  <2>5. ~(1 > LogAt(req'[c].op)) /\ ~(1 > ChangeAt(req'[c].op))
    BY <2>4
  <2>6. /\ req'[c].at = 1 /\ req'[c].status = 0
        /\ UNCHANGED <<users, rows, used, changed, logs, faulted>>
    BY <1>3 DEF Starts
  <2>7. LogAt(req[c].op)' = LogAt(req'[c].op) /\ ChangeAt(req[c].op)' = ChangeAt(req'[c].op)
    BY DEF LogAt, ChangeAt
  <2>8. QED BY <2>1, <2>2, <2>3, <2>5, <2>6, <2>7 DEF Progress
<1>4. CASE Finds(c)
  <2>1. Running(c) /\ Stmt(req[c]) \in Finders /\ Stmt(req[c]) \notin Writers
        /\ Stmt(req[c]) # "log"
    BY <1>4 DEF Finds, Moves, Finders, Writers
  <2>2. c \notin changed /\ c \notin logs
    BY <2>1, Stands
  <2>3. LogAt(req[c].op)' = LogAt(req[c].op) /\ ChangeAt(req[c].op)' = ChangeAt(req[c].op)
    BY <1>4 DEF LogAt, ChangeAt, Finds, Moves
  <2>4. QED BY <1>1, <1>4, <2>1, <2>2, <2>3, Moved DEF Finds, Progress
<1>5. CASE Fails(c)
  <2>1. PICK status \in {400, 404, 500} :
          Stops(c, status) /\ (status = 404 => Stmt(req[c]) \in Finders)
    BY <1>5 DEF Fails
  <2>2. c \notin changed /\ (status = 404 => c \notin logs)
    BY <1>2, <1>5, <2>1, Stands DEF Fails
  <2>3. QED BY <1>1, <1>2, <1>5, <2>1, <2>2 DEF Fails, Progress
<1>6. CASE Faults(c)
  <2>1. PICK status \in {400, 500} : Stops(c, status)
    BY <1>6 DEF Faults
  <2>2. QED BY <1>1, <1>2, <1>6, <2>1 DEF Faults, Progress
<1>7. CASE Changes(c)
  <2>1. Commits(c)
    BY <1>7 DEF Changes, Inserts, Updates, Cancels, Erases, Disables
  <2>2. /\ Running(c) /\ Stmt(req[c]) \in Writers
        /\ Stmt(req[c]) \notin {"log", "address"} /\ Moves(c)
    BY <2>1 DEF Commits, Moves, Writers
  <2>3. LogAt(req[c].op)' = LogAt(req[c].op) /\ ChangeAt(req[c].op)' = ChangeAt(req[c].op)
    BY <2>2 DEF LogAt, ChangeAt, Moves
  <2>4. req'[c].actor = req[c].actor
    BY <2>2 DEF Moves
  <2>5. QED BY <1>1, <2>1, <2>2, <2>3, <2>4, Moved DEF Commits, Progress
<1>8. CASE Logs(c)
  <2>1. /\ Running(c) /\ Stmt(req[c]) = "log" /\ Stmt(req[c]) \notin Writers
        /\ Stmt(req[c]) # "address" /\ Moves(c) /\ req[c].actor \in users
    BY <1>8 DEF Logs, Moves, Writers
  <2>2. req[c].op \notin {"createLog", "removeFile"} => c \in changed
    BY <2>1, Stands
  <2>3. LogAt(req[c].op)' = LogAt(req[c].op) /\ ChangeAt(req[c].op)' = ChangeAt(req[c].op)
    BY <2>1 DEF LogAt, ChangeAt, Moves
  <2>4. req'[c].actor = req[c].actor
    BY <2>1 DEF Moves
  <2>5. QED BY <1>1, <1>8, <2>1, <2>2, <2>3, <2>4, Moved DEF Logs, Progress
<1>9. CASE LosesLog(c)
  <2>1. Stops(c, 400) /\ c \notin logs
    BY <1>2, <1>9, Stands DEF LosesLog
  <2>2. QED BY <1>2, <1>9, <2>1 DEF LosesLog, Progress
<1>10. CASE Replies(c)
  <2>1. Stops(c, 200) /\ c \in logs /\ (req[c].op # "createLog" => c \in changed)
    BY <1>2, <1>10, Stands DEF Replies
  <2>2. QED BY <1>1, <1>2, <1>10, <2>1 DEF Replies, Progress
<1>11. QED BY <1>3, <1>4, <1>5, <1>6, <1>7, <1>8, <1>9, <1>10 DEF Acts

LEMMA OthersHistory ==
  ASSUME NEW c \in Calls, NEW d \in Calls \ {c}, Acts(c)
  PROVE  /\ UNCHANGED users /\ (d \in changed' <=> d \in changed)
         /\ (d \in logs' <=> d \in logs) /\ (d \in faulted => d \in faulted')
BY DEF Acts, Starts, Finds, Fails, Faults, Changes, Inserts, Updates, Cancels, Erases,
       Disables, Commits, Logs, LosesLog, Replies

LEMMA ProgressKept ==
  ASSUME Typed, AllProgress, [Next]_vars
  PROVE  AllProgress'
<1>1. CASE UNCHANGED vars
  BY <1>1 DEF vars, AllProgress, Progress, Running, LogAt, ChangeAt
<1>2. ASSUME NEW c \in Calls, Alone(c), Acts(c)
      PROVE  AllProgress'
  <2>1. Progress(c)'
    BY <1>2, OwnProgress, Steps
  <2>2. ASSUME NEW d \in Calls \ {c}
        PROVE  Progress(d)'
    BY <1>2, OthersHistory, Untouched DEF AllProgress, Alone
  <2>3. QED BY <2>1, <2>2 DEF AllProgress
<1>3. ASSUME NEW u \in UserIds, DeleteUser(u), NEW c \in Calls
      PROVE  Progress(c)'
  <2>1. UNCHANGED <<req, changed, logs, faulted>> /\ users' = users \ {u}
    BY <1>3 DEF DeleteUser
  <2>2. c \in logs => req[c].actor # u
    BY <1>3 DEF DeleteUser, HasLogs
  <2>3. Progress(c)
    BY DEF AllProgress
  <2>4. QED BY <2>1, <2>2, <2>3 DEF Progress, Running, LogAt, ChangeAt
<1>4. ASSUME Crash, NEW c \in Calls
      PROVE  Progress(c)'
  <2>1. Progress(c) /\ req[c] \in Requests
    BY RequestIs DEF AllProgress
  <2>2. UNCHANGED <<users, changed, logs>> /\ (c \in faulted => c \in faulted')
    BY <1>4 DEF Crash
  <2>3. CASE Running(c)
    <3>1. /\ req'[c] = [req[c] EXCEPT !.at = 0] /\ c \in faulted'
      BY <1>4, <2>3 DEF Crash
    <3>2. /\ ~Running(c)' /\ req'[c].op = req[c].op /\ req'[c].status = 0
          /\ req'[c].actor = req[c].actor /\ req[c].op # None
      BY <2>1, <2>3, <3>1, ScriptOf DEF Running, Requests
    <3>3. QED BY <2>1, <2>2, <3>1, <3>2 DEF Progress
  <2>4. CASE ~Running(c)
    BY <1>4, <2>1, <2>2, <2>4, Untouched DEF Crash
  <2>5. QED BY <2>3, <2>4
<1>5. QED BY <1>1, <1>2, <1>3, <1>4, Steps DEF AllProgress

LEMMA ProgressFirst == Init => AllProgress
BY DEF Init, Blank, AllProgress, Progress, Running

\* For any number of calls: success means changed and logged, and 404 that
\* nothing was changed.
THEOREM AlwaysHonest == Spec => []StatusIsHonest
<1>1. AllProgress => StatusIsHonest
  BY DEF AllProgress, Progress, StatusIsHonest
<1>2. QED BY <1>1, ProgressFirst, ProgressKept, AlwaysTyped, PTL DEF Spec

\* For any number of calls: a change that stays without a log has lost its
\* user, or a fault or a crash fell in between.
THEOREM AlwaysCaused == Spec => []UnloggedHasCause
<1>1. AllProgress /\ Typed => UnloggedHasCause
  BY DEF AllProgress, Progress, UnloggedHasCause, Answered, Running, Typed, TypeOK
<1>2. QED BY <1>1, ProgressFirst, ProgressKept, AlwaysTyped, PTL DEF Spec

\* For any number of calls and deletions of users: every log keeps its user.
THEOREM LogsAlwaysKeepUser == Spec => []LogsKeepUser
<1>1. AllProgress /\ Typed => LogsKeepUser
  BY DEF AllProgress, Progress, LogsKeepUser, Typed, TypeOK
<1>2. QED BY <1>1, ProgressFirst, ProgressKept, AlwaysTyped, PTL DEF Spec

-----------------------------------------------------------------------------
(***************************************************************************)
(* What is left of a change.  Ids are never stored twice, so a row that is *)
(* gone stays gone, and no statement takes the mark of a removal away.     *)
(* The removal of a file that was logged and ended unmarked was faulted or *)
(* has not found its row.                                                  *)
(***************************************************************************)
Unmarked(c) ==
  req[c].op = "removeFile" /\ c \in logs /\ c \notin changed /\ ~Running(c)

TrailOf(c) ==
  /\ c \in changed =>
       /\ req[c].op # "disableUser" => req[c].id \in used
       /\ req[c].op \in Deletions => req[c].id \notin DOMAIN rows
       /\ (req[c].op \in Removals /\ req[c].id \in DOMAIN rows)
            => rows[req[c].id].canceled
  /\ Unmarked(c) => c \in faulted \/ req[c].id \notin DOMAIN rows

Trail == DOMAIN rows \subseteq used /\ \A c \in Calls : TrailOf(c)

\* What a change does to a row it did not create.
LEMMA ChangedRows ==
  ASSUME Typed, Trail, NEW c \in Calls, Changes(c)
  PROVE  /\ used \subseteq used' /\ DOMAIN rows' \subseteq used'
         /\ \A i \in used : i \in DOMAIN rows' => i \in DOMAIN rows
         /\ \A i \in used \intersect DOMAIN rows' :
              rows[i].canceled => rows'[i].canceled
         /\ \A i \in FileIds : i \in DOMAIN rows' => i \in DOMAIN rows
<1>1. CASE Inserts(c)
  <2>1. PICK i \in FormIds \ used : rows' = Inserted(i) /\ used' = used \union {i}
    BY <1>1 DEF Inserts
  <2>2. i \notin FileIds
    BY RecordsInstance
  <2>3. QED BY <2>1, <2>2 DEF Inserted, Trail
<1>2. CASE Updates(c)
  <2>1. rows' = Written(c) /\ used' = used /\ Found(c)
    BY <1>2 DEF Updates
  <2>2. DOMAIN rows' = DOMAIN rows
    BY <2>1 DEF Written
  <2>3. ASSUME NEW i \in DOMAIN rows, rows[i].canceled
        PROVE  rows'[i].canceled
    <3>1. rows[i] \in Row
      BY TableIs DEF Typed, TypeOK
    <3>2. CASE i = req[c].id
      <4>1. rows'[i] = Updated(c)
        BY <2>1, <3>2 DEF Written
      <4>2. Updated(c).canceled = rows[i].canceled
        BY <3>1, <3>2 DEF Updated, Row
      <4>3. QED BY <2>3, <4>1, <4>2
    <3>3. CASE i # req[c].id
      BY <2>1, <2>3, <3>3 DEF Written
    <3>4. QED BY <3>2, <3>3
  <2>4. QED BY <2>1, <2>2, <2>3 DEF Trail
<1>3. CASE Cancels(c)
  <2>1. rows' = Marked(c) /\ used' = used
    BY <1>3 DEF Cancels
  <2>2. ASSUME NEW i \in DOMAIN rows, rows[i].canceled
        PROVE  rows'[i].canceled
    <3>1. rows[i] \in Row
      BY TableIs DEF Typed, TypeOK
    <3>2. QED BY <2>1, <2>2, <3>1 DEF Marked, Row
  <2>3. QED BY <2>1, <2>2 DEF Marked, Trail
<1>4. CASE Erases(c)
  BY <1>4 DEF Erases, Trail
<1>5. CASE Disables(c)
  BY <1>5 DEF Disables, Trail
<1>6. QED BY <1>1, <1>2, <1>3, <1>4, <1>5 DEF Changes

LEMMA OwnTrail ==
  ASSUME Typed, Trail, NEW c \in Calls, Changes(c)
  PROVE  TrailOf(c)'
<1>1. Moves(c) /\ c \in changed'
  BY DEF Changes, Inserts, Updates, Cancels, Erases, Disables, Commits
<1>2. ~Unmarked(c)' /\ req'[c].op = req[c].op
  BY <1>1 DEF Unmarked, Moves
<1>3. req[c].op \in AllRoutes /\ req[c].at \in 1 .. Len(Script[req[c].op])
  BY <1>1, ScriptOf DEF Moves
<1>4. CASE Inserts(c)
  <2>1. req[c].op = "createForm" /\ req'[c].id \in used'
    BY <1>4 DEF Inserts
  <2>2. QED BY <1>2, <2>1 DEF TrailOf, Deletions, Removals
<1>5. CASE Updates(c)
  <2>1. req[c].op \in {"updateForm", "updateLaudo", "updateFile"}
    BY <1>3, <1>5, Scripts DEF Updates, Stmt
  <2>2. req'[c].id \in used'
    BY <1>5 DEF Updates, Found, Trail
  <2>3. QED BY <1>2, <2>1, <2>2 DEF TrailOf, Deletions, Removals
<1>6. CASE Cancels(c)
  <2>1. req[c].op \in Removals
    BY <1>3, <1>6, Scripts DEF Cancels, Stmt
  <2>2. req'[c].id \in used' /\ req'[c].id = req[c].id /\ req[c].id \in DOMAIN rows
    BY <1>6 DEF Cancels, Found, Trail
  <2>3. rows'[req[c].id].canceled
    <3>1. rows[req[c].id] \in Row
      BY <2>2, TableIs DEF Typed, TypeOK
    <3>2. QED BY <1>6, <2>2, <3>1 DEF Cancels, Marked, Row
  <2>4. QED BY <1>2, <2>1, <2>2, <2>3 DEF TrailOf, Deletions, Removals
<1>7. CASE Erases(c)
  <2>1. req[c].op \in Deletions
    BY <1>3, <1>7, Scripts DEF Erases, Stmt
  <2>2. /\ req'[c].id \in used' /\ req'[c].id = req[c].id
        /\ req[c].id \notin DOMAIN rows'
    BY <1>7 DEF Erases, Found, Trail
  <2>3. QED BY <1>2, <2>1, <2>2 DEF TrailOf, Removals, Deletions
<1>8. CASE Disables(c)
  <2>1. req[c].op = "disableUser"
    BY <1>3, <1>8, Scripts DEF Disables, Stmt
  <2>2. QED BY <1>2, <2>1 DEF TrailOf, Deletions, Removals
<1>9. QED BY <1>4, <1>5, <1>6, <1>7, <1>8 DEF Changes

\* The calls whose change is committed are as they were.
LEMMA CallsKept ==
  ASSUME Typed, AllProgress, [Next]_vars, NEW d \in Calls, d \in changed
  PROVE  req'[d].op = req[d].op /\ req'[d].id = req[d].id /\ d \in changed'
<1>1. req[d] \in Requests /\ Progress(d)
  BY RequestIs DEF AllProgress
<1>2. ASSUME NEW c \in Calls, Alone(c), Acts(c)
      PROVE  req'[d].op = req[d].op /\ req'[d].id = req[d].id /\ d \in changed'
  <2>1. CASE d = c /\ Starts(c)
    BY <1>1, <2>1 DEF Starts, Blank, Progress
  <2>2. CASE d = c /\ Moves(c)
    <3>1. Stmt(req[c]) # "insert"
      BY <2>2, Stands DEF Moves, Writers
    <3>2. changed \subseteq changed'
      BY <1>2 DEF Acts, Starts, Finds, Fails, Faults, Changes, Inserts, Updates, Cancels,
                  Erases, Disables, Commits, Logs, LosesLog, Replies
    <3>3. QED BY <2>2, <3>1, <3>2 DEF Moves
  <2>3. CASE d = c /\ (Fails(c) \/ Faults(c) \/ LosesLog(c) \/ Replies(c))
    <3>1. ASSUME NEW status, Stops(c, status)
          PROVE  req'[c].op = req[c].op /\ req'[c].id = req[c].id
      BY <1>1, <2>3, <3>1 DEF Stops, Requests
    <3>2. UNCHANGED changed /\ \E status : Stops(c, status)
      BY <2>3 DEF Fails, Faults, LosesLog, Replies
    <3>3. QED BY <2>3, <3>1, <3>2
  <2>4. CASE d # c
    BY <1>2, <2>4, OthersHistory DEF Alone
  <2>5. Starts(c) \/ Moves(c) \/ Fails(c) \/ Faults(c) \/ LosesLog(c) \/ Replies(c)
    BY <1>2 DEF Acts, Finds, Changes, Inserts, Updates, Cancels, Erases, Disables, Commits,
                Logs
  <2>6. QED BY <2>1, <2>2, <2>3, <2>4, <2>5
<1>3. CASE Crash
  BY <1>1, <1>3 DEF Crash, Requests
<1>4. QED BY <1>2, <1>3, Steps DEF vars, DeleteUser

\* A removal that is unmarked now was so before, or has ended in this step.
LEMMA UnmarkedBefore ==
  ASSUME Typed, AllProgress, Trail, [Next]_vars, NEW d \in Calls, Unmarked(d)'
  PROVE  /\ req'[d].id = req[d].id /\ req[d].id \in FileIds
         /\ Unmarked(d) \/ d \in faulted' \/ req[d].id \notin DOMAIN rows
         /\ d \in faulted => d \in faulted'
<1>1. req[d] \in Requests /\ Shaped(req[d]) /\ Progress(d)
  BY RequestIs DEF AllProgress
<1>2. ASSUME req'[d].op = req[d].op
      PROVE  req[d].id \in FileIds
  BY <1>1, <1>2 DEF Unmarked, Shaped, FileOps
<1>3. ASSUME NEW c \in Calls, Alone(c), Acts(c), c = d
      PROVE  /\ req'[d].id = req[d].id /\ req'[d].op = req[d].op
             /\ Unmarked(d) \/ d \in faulted' \/ req[d].id \notin DOMAIN rows
             /\ d \in faulted => d \in faulted'
  <2>1. CASE Starts(c) \/ Moves(c)
    <3>1. Running(c)'
      BY <2>1, Moved DEF Starts, Running
    <3>2. QED BY <1>3, <3>1 DEF Unmarked
  <2>2. ASSUME NEW status, Stops(c, status)
        PROVE  req'[c].op = req[c].op /\ req'[c].id = req[c].id /\ Running(c)
    BY <1>1, <1>3, <2>2 DEF Stops, Requests
  <2>3. CASE Fails(c)
    <3>1. Running(c) /\ UNCHANGED <<changed, logs, faulted>>
          /\ req'[c].op = req[c].op /\ req'[c].id = req[c].id
      BY <2>2, <2>3 DEF Fails
    <3>2. c \in logs
      BY <1>3, <3>1 DEF Unmarked
    <3>3. Stmt(req[c]) = "cancel" /\ ~Found(c)
      BY <2>3, <3>1, <3>2, Stands DEF Fails
    <3>4. QED BY <1>3, <3>1, <3>3 DEF Found
  <2>4. CASE Faults(c)
    <3>1. req'[c].op = req[c].op /\ req'[c].id = req[c].id /\ c \in faulted'
      BY <2>2, <2>4 DEF Faults
    <3>2. QED BY <1>3, <3>1
  <2>5. CASE LosesLog(c)
    <3>1. c \notin logs'
      BY <2>2, <2>5, Stands DEF LosesLog
    <3>2. QED BY <1>3, <3>1 DEF Unmarked
  <2>6. CASE Replies(c)
    <3>1. req'[c].op = req[c].op /\ Running(c) /\ UNCHANGED <<changed, logs>>
      BY <2>2, <2>6 DEF Replies
    <3>2. c \in changed'
      BY <1>3, <2>6, <3>1, Stands DEF Replies, Unmarked
    <3>3. QED BY <1>3, <3>2 DEF Unmarked
  <2>7. Starts(c) \/ Moves(c) \/ Fails(c) \/ Faults(c) \/ LosesLog(c) \/ Replies(c)
    BY <1>3 DEF Acts, Finds, Changes, Inserts, Updates, Cancels, Erases, Disables, Commits,
                Logs
  <2>8. QED BY <2>1, <2>3, <2>4, <2>5, <2>6, <2>7
<1>4. ASSUME NEW c \in Calls, Alone(c), Acts(c), c # d
      PROVE  req'[d] = req[d] /\ Unmarked(d) /\ (d \in faulted => d \in faulted')
  BY <1>4, OthersHistory DEF Alone, Unmarked, Running
<1>5. CASE Crash
  <2>1. req'[d].op = req[d].op /\ req'[d].id = req[d].id
    BY <1>1, <1>5 DEF Crash, Requests
  <2>2. Running(d) => d \in faulted'
    BY <1>5 DEF Crash
  <2>3. ~Running(d) => req'[d] = req[d]
    BY <1>5 DEF Crash
  <2>4. QED BY <1>2, <1>5, <2>1, <2>2, <2>3 DEF Crash, Unmarked
<1>6. CASE UNCHANGED <<req, changed, logs, faulted>>
  BY <1>2, <1>6 DEF Unmarked, Running
<1>7. QED BY <1>2, <1>3, <1>4, <1>5, <1>6, Steps DEF vars, DeleteUser

LEMMA TrailKept ==
  ASSUME Typed, AllProgress, Trail, [Next]_vars
  PROVE  Trail'
<1>1. ASSUME NEW c \in Calls, Changes(c), NEW d \in Calls \ {c}, Alone(c)
      PROVE  TrailOf(d)'
  <2>1. UNCHANGED <<req[d], logs>> /\ (d \in changed' <=> d \in changed)
        /\ (d \in faulted => d \in faulted')
    BY <1>1, OthersHistory DEF Alone, Changes, Inserts, Updates, Cancels, Erases, Disables,
                               Commits, Acts
  <2>2. ASSUME Unmarked(d)'
        PROVE  d \in faulted' \/ req'[d].id \notin DOMAIN rows'
    BY <1>1, <2>1, <2>2, UnmarkedBefore, ChangedRows DEF Trail, TrailOf
  <2>3. (d \in changed /\ req[d].op \in Deletions \union Removals) => req[d].id \in used
    BY DEF Trail, TrailOf, Deletions, Removals
  <2>4. QED BY <1>1, <2>1, <2>2, <2>3, ChangedRows DEF Trail, TrailOf
<1>2. ASSUME NEW c \in Calls, Alone(c), Changes(c)
      PROVE  Trail'
  BY <1>1, <1>2, OwnTrail, ChangedRows DEF Trail
<1>3. CASE UNCHANGED <<rows, used, changed>>
  <2>1. ASSUME NEW d \in Calls
        PROVE  TrailOf(d)'
    BY <1>3, CallsKept, UnmarkedBefore DEF Trail, TrailOf
  <2>2. QED BY <1>3, <2>1 DEF Trail
<1>4. QED BY <1>2, <1>3, Steps
          DEF Acts, Starts, Finds, Fails, Faults, Logs, LosesLog, Replies, DeleteUser, Crash,
              vars

LEMMA TrailFirst == Init => Trail
BY DEF Init, Trail, TrailOf, Unmarked

LEMMA AlwaysTrail == Spec => [](Typed /\ AllProgress /\ Trail)
BY ProgressFirst, ProgressKept, TrailFirst, TrailKept, AlwaysTyped, PTL DEF Spec

\* For any number of calls: the trail claims no deletion that is not so, and no
\* removal, but for that of a file which a fault or a crash has cut off between
\* its log and its mark.
THEOREM AlwaysAgree == Spec => []LogsAgreeWithRows
<1>1. Typed /\ AllProgress /\ Trail => LogsAgreeWithRows
  <2> SUFFICES ASSUME Typed, AllProgress, Trail, NEW c \in logs
               PROVE  /\ req[c].op \in Deletions => req[c].id \notin DOMAIN rows
                      /\ req[c].op \in Removals /\ req[c].id \in DOMAIN rows
                           => rows[req[c].id].canceled \/ Unfinished(c)
    BY DEF LogsAgreeWithRows
  <2>1. c \in Calls /\ Progress(c) /\ TrailOf(c)
    BY DEF Typed, TypeOK, AllProgress, Trail
  <2>2. CASE c \in changed
    BY <2>1, <2>2 DEF TrailOf
  <2>3. CASE c \notin changed /\ req[c].op \in Deletions \union Removals
    <3>1. req[c].op = "removeFile"
      BY <2>1, <2>3 DEF Progress, Deletions, Removals
    <3>2. CASE Running(c)
      <4>1. req[c].op \in AllRoutes /\ req[c].at \in 1 .. 7
        BY <2>1, <3>1, <3>2, ScriptOf, Lengths
      <4>2. req[c].at > 5 /\ ~(req[c].at > 6)
        BY <2>1, <2>3, <3>1, <3>2 DEF Progress, LogAt, ChangeAt
      <4>3. req[c].at = 6 /\ req[c].at \in 1 .. Len(Script[req[c].op])
        BY <2>1, <3>2, <4>1, <4>2, ScriptOf
      <4>4. Script[req[c].op][req[c].at] = "cancel"
        BY <3>1, <4>1, <4>3, Scripts
      <4>5. QED BY <3>1, <3>2, <4>4 DEF Unfinished, At, Deletions
    <3>3. CASE ~Running(c)
      BY <2>1, <2>3, <3>1, <3>3 DEF TrailOf, Unmarked, Unfinished, Deletions
    <3>4. QED BY <3>2, <3>3
  <2>4. QED BY <2>2, <2>3
<1>2. QED BY <1>1, AlwaysTrail, PTL

LEMMA OneDeletionKept ==
  ASSUME Typed, AllProgress, Trail, OneDeletion, [Next]_vars
  PROVE  OneDeletion'
<1>1. changed \subseteq Calls
  BY DEF Typed, TypeOK
<1>2. ASSUME NEW c \in changed, NEW d \in changed,
             req'[c].op \in Deletions, req'[d].op \in Deletions, req'[c].id = req'[d].id
      PROVE  c = d
  BY <1>1, <1>2, CallsKept DEF OneDeletion
<1>3. ASSUME NEW c \in Calls, NEW d \in changed, Changes(c), c \notin changed,
             req'[c].op \in Deletions, req'[d].op \in Deletions, req'[c].id = req'[d].id
      PROVE  FALSE
  <2>1. req'[c].op = req[c].op /\ Running(c) /\ req[c].op \in Deletions
    BY <1>3 DEF Changes, Inserts, Updates, Cancels, Erases, Disables, Commits, Moves
  <2>2. Erases(c)
    BY <1>3, <2>1, ScriptOf, Scripts
       DEF Changes, Inserts, Updates, Cancels, Disables, Stmt, Deletions, Removals
  <2>3. req'[c].id \in DOMAIN rows
    BY <2>2 DEF Erases, Found
  <2>4. req'[d].op = req[d].op /\ req'[d].id = req[d].id
    BY <1>1, CallsKept
  <2>5. QED BY <1>1, <1>3, <2>3, <2>4 DEF Trail, TrailOf, Deletions
<1>4. CASE \E c \in Calls : Changes(c)
  <2>1. PICK c \in Calls : Changes(c)
    BY <1>4
  <2>2. changed' = changed \union {c}
    BY <2>1 DEF Changes, Inserts, Updates, Cancels, Erases, Disables, Commits
  <2>3. QED BY <1>2, <1>3, <2>1, <2>2 DEF OneDeletion
<1>5. CASE UNCHANGED changed
  BY <1>2, <1>5 DEF OneDeletion
<1>6. QED BY <1>4, <1>5, Steps
          DEF Acts, Starts, Finds, Fails, Faults, Logs, LosesLog, Replies, DeleteUser, Crash,
              vars

\* For any number of calls: of several deletions of a row one succeeds.
THEOREM AlwaysOneDeletion == Spec => []OneDeletion
<1>1. Init => OneDeletion
  BY DEF Init, OneDeletion
<1>2. QED BY <1>1, OneDeletionKept, AlwaysTrail, PTL DEF Spec

-----------------------------------------------------------------------------
\* The references between rows.

LEMMA LaudosKept ==
  ASSUME Typed, LaudosKeepForm, [Next]_vars
  PROVE  LaudosKeepForm'
<1> SUFFICES ASSUME NEW l \in DOMAIN rows' \intersect LaudoIds
             PROVE  rows'[l].form \in DOMAIN rows'
  BY DEF LaudosKeepForm
<1>1. CASE UNCHANGED rows
  BY <1>1 DEF LaudosKeepForm
<1>2. ASSUME NEW c \in Calls, Inserts(c)
      PROVE  rows'[l].form \in DOMAIN rows'
  <2>1. PICK i \in FormIds \ used : rows' = Inserted(i)
    BY <1>2 DEF Inserts
  <2>2. QED BY <2>1, RecordsInstance DEF Inserted, LaudosKeepForm
<1>3. ASSUME NEW c \in Calls, Updates(c)
      PROVE  rows'[l].form \in DOMAIN rows'
  <2>1. rows' = Written(c) /\ Found(c) /\ DOMAIN rows' = DOMAIN rows
    BY <1>3 DEF Updates, Written
  <2>2. CASE l # req[c].id
    BY <2>1, <2>2 DEF Written, LaudosKeepForm
  <2>3. CASE l = req[c].id
    <3>1. req[c] \in Requests /\ Shaped(req[c]) /\ Running(c) /\ Stmt(req[c]) = "update"
      BY <1>3, RequestIs DEF Updates, Commits, Moves
    <3>2. req[c].op \in {"updateForm", "updateLaudo", "updateFile"}
      BY <3>1, ScriptOf, Scripts DEF Stmt
    <3>3. req[c].op = "updateLaudo"
      BY <2>3, <3>1, <3>2, RecordsInstance DEF Shaped, FormOps, FileOps
    <3>4. req[c].form \in DOMAIN rows
      BY <1>3, <3>1, <3>3 DEF Updates, Shaped, Running
    <3>5. rows[l] \in Row /\ rows'[l] = Updated(c)
      BY <2>1, <2>3, TableIs DEF Found, Written, Typed, TypeOK
    <3>6. Updated(c).form = req[c].form
      BY <2>3, <3>5 DEF Updated, Row
    <3>7. QED BY <2>1, <3>4, <3>5, <3>6
  <2>4. QED BY <2>2, <2>3
<1>4. ASSUME NEW c \in Calls, Cancels(c)
      PROVE  rows'[l].form \in DOMAIN rows'
  <2>1. rows' = Marked(c) /\ DOMAIN rows' = DOMAIN rows
    BY <1>4 DEF Cancels, Marked
  <2>2. rows[l] \in Row
    BY <2>1, TableIs DEF Typed, TypeOK
  <2>3. rows'[l].form = rows[l].form
    BY <2>1, <2>2 DEF Marked, Row
  <2>4. QED BY <2>1, <2>3 DEF LaudosKeepForm
<1>5. ASSUME NEW c \in Calls, Erases(c)
      PROVE  rows'[l].form \in DOMAIN rows'
  BY <1>5 DEF Erases, HasLaudos, LaudosKeepForm
<1>6. QED BY <1>1, <1>2, <1>3, <1>4, <1>5, Steps
          DEF Acts, Changes, Disables, Starts, Finds, Fails, Faults, Logs, LosesLog, Replies,
              DeleteUser, Crash, vars

\* For any number of calls: no deletion of a form leaves a laudo behind, whenever
\* it falls between the check of an update and its write.
THEOREM LaudosAlwaysKeepForm == Spec => []LaudosKeepForm
<1>1. Init => LaudosKeepForm
  BY RecordsInstance DEF Init, LaudosKeepForm
<1>2. QED BY <1>1, LaudosKept, AlwaysTyped, PTL DEF Spec

LEMMA FilesKept ==
  ASSUME Typed, FilesKeepUser, [Next]_vars
  PROVE  FilesKeepUser'
<1> SUFFICES ASSUME NEW i \in DOMAIN rows' \intersect FileIds
             PROVE  rows'[i].user \in users'
  BY DEF FilesKeepUser
<1>1. CASE UNCHANGED <<rows, users>>
  BY <1>1 DEF FilesKeepUser
<1>2. ASSUME NEW c \in Calls, Inserts(c)
      PROVE  rows'[i].user \in users'
  <2>1. PICK f \in FormIds \ used : rows' = Inserted(f) /\ users' = users
    BY <1>2 DEF Inserts, Commits
  <2>2. QED BY <2>1, RecordsInstance DEF Inserted, FilesKeepUser
<1>3. ASSUME NEW c \in Calls, Updates(c)
      PROVE  rows'[i].user \in users'
  <2>1. rows' = Written(c) /\ DOMAIN rows' = DOMAIN rows /\ users' = users
        /\ req[c].owner \in users \union {None}
    BY <1>3 DEF Updates, Written, Commits
  <2>2. CASE i # req[c].id
    BY <2>1, <2>2 DEF Written, FilesKeepUser
  <2>3. CASE i = req[c].id
    <3>1. rows[i] \in Row /\ rows'[i] = Updated(c)
      BY <2>1, <2>3, TableIs DEF Written, Typed, TypeOK
    <3>2. Updated(c).user \in {rows[i].user, req[c].owner}
          /\ (req[c].owner = None => Updated(c).user = rows[i].user)
      BY <2>3, <3>1 DEF Updated, Row
    <3>3. QED BY <2>1, <3>1, <3>2 DEF FilesKeepUser
  <2>4. QED BY <2>2, <2>3
<1>4. ASSUME NEW c \in Calls, Cancels(c)
      PROVE  rows'[i].user \in users'
  <2>1. rows' = Marked(c) /\ DOMAIN rows' = DOMAIN rows /\ users' = users
    BY <1>4 DEF Cancels, Marked, Commits
  <2>2. rows[i] \in Row
    BY <2>1, TableIs DEF Typed, TypeOK
  <2>3. rows'[i].user = rows[i].user
    BY <2>1, <2>2 DEF Marked, Row
  <2>4. QED BY <2>1, <2>3 DEF FilesKeepUser
<1>5. ASSUME NEW c \in Calls, Erases(c)
      PROVE  rows'[i].user \in users'
  BY <1>5 DEF Erases, Commits, FilesKeepUser
<1>6. ASSUME NEW u \in UserIds, DeleteUser(u)
      PROVE  rows'[i].user \in users'
  BY <1>6 DEF DeleteUser, HasFiles, FilesKeepUser
<1>7. QED BY <1>1, <1>2, <1>3, <1>4, <1>5, <1>6, Steps
          DEF Acts, Changes, Disables, Commits, Starts, Finds, Fails, Faults, Logs, LosesLog,
              Replies, Crash, vars

\* For any number of calls and deletions of users: every file keeps its user.
THEOREM FilesAlwaysKeepUser == Spec => []FilesKeepUser
<1>1. Init => FilesKeepUser
  BY RecordsInstance DEF Init, FilesKeepUser
<1>2. QED BY <1>1, FilesKept, AlwaysTyped, PTL DEF Spec
=============================================================================
