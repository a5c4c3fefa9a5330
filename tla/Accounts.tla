------------------------------ MODULE Accounts ------------------------------
(***************************************************************************)
(* Users, reset links and sessions: the handlers of AuthController,        *)
(* UsersController and ResetController over the tables users and           *)
(* reset_password.  Of POST auth/code only what it does to a user is here: *)
(* the table codes is that of TwoFactor.                                   *)
(*                                                                         *)
(* No handler opens a transaction: every awaited Prisma call is a          *)
(* statement of its own, and between two of them the event loop runs the   *)
(* statements of other requests.  A request is therefore a slot with a     *)
(* program counter that names the statement it is about to run, and one    *)
(* action is one statement together with the code up to the next one.      *)
(* Reads whose result is never used are merged with the statement that     *)
(* follows them.                                                           *)
(***************************************************************************)
EXTENDS Naturals, FiniteSets

CONSTANTS
  UserIds,     \* the users that may be stored
  Emails,      \* e-mail addresses
  Passwords,   \* passwords (stored hashed; equal iff bcrypt.compare accepts)
  Tokens,      \* values of reset_password.refresh_token: bounds uuidV4 draws
  Slots,       \* requests the server works on at the same time: a bound
  Routes,      \* the routes clients call in this instance
  SeedUsers,   \* table users before the first request: no route creates one
  None         \* SQL NULL / undefined

AllRoutes ==
  {"signIn", "fastLogin", "signInWithCode", "refresh", "refreshBiometric",
   "forgotPassword", "changePassword", "updatePassword", "resendInvite",
   "getInvite", "update", "disable", "remove", "delete",
   "resetCreate", "resetUpdate", "resetRemove"}

ResetAdmin == {"resetCreate", "resetUpdate", "resetRemove"}

\* UserStatus: US1 active, US2 inactive, US3 pending.
Status == {"US1", "US2", "US3"}

\* A row of users; rt is the column hashedRefreshToken.
UserRow == [email : Emails, pw : Passwords, status : Status,
            canceled : BOOLEAN, rt : UserIds \union {None}]

\* A row of reset_password, keyed by its unique column refresh_token.
ResetRow == [user : UserIds, expired : BOOLEAN]

\* Tables: functions on the set of keys stored.
UserTables == UNION {[S -> UserRow] : S \in SUBSET UserIds}
ResetTables == UNION {[S -> ResetRow] : S \in SUBSET Tokens}

DistinctEmails(tbl) ==
  \A u, v \in DOMAIN tbl : tbl[u].email = tbl[v].email => u = v

ASSUME NoneAssumption ==
  /\ None \notin UserIds
  /\ None \notin Emails
  /\ None \notin Passwords
  /\ None \notin Tokens
  /\ None \notin UserRow \union AllRoutes
  /\ None \notin [user : UserIds, key : Tokens \union Passwords]

ASSUME InstanceAssumption ==
  /\ Routes \subseteq AllRoutes
  /\ SeedUsers \in UserTables
  /\ DistinctEmails(SeedUsers)
  /\ \A u \in DOMAIN SeedUsers : SeedUsers[u].rt = None

-----------------------------------------------------------------------------
VARIABLES
  users,    \* table users
  resets,   \* table reset_password
  audit,    \* the users referenced by a row of logs (logs.user_id)
  mails,    \* links sent by e-mail
  fate,     \* history: what became of each token (see Fates)
  req       \* the requests in flight, by slot

tables == <<users, resets, audit>>
vars == <<users, resets, audit, mails, fate, req>>

\* fresh: never drawn; drawn: returned by uuidV4, not yet inserted; lost: the
\* insert has failed; stored: in the table; withdrawn: deleted by getInvite or
\* edited away; spent: deleted by the password change of its user that finished.
Fates == {"fresh", "drawn", "lost", "stored", "withdrawn", "spent"}

\* The statement a request runs next.
PCs == {"done", "login", "find", "write", "rotate", "purge", "spend", "insert",
        "clear", "mail", "list", "renew", "disableFind", "disableWrite", "log"}

\* ok: 2xx; refused: 4xx; failed: 5xx, and whatever error a fault raises.
Outcomes == {"ok", "refused", "failed"}

Requests ==
  [op : Routes \union {None}, pc : PCs, user : UserIds \union {None},
   actor : UserIds \union {None}, email : Emails \union {None},
   pw : Passwords \union {None}, row : UserRow \union {None},
   token : Tokens \union {None}, out : Outcomes \union {None}]

Blank == [op |-> None, pc |-> "done", user |-> None, actor |-> None,
          email |-> None, pw |-> None, row |-> None, token |-> None,
          out |-> None]

Mails == [kind : {"recovery", "invite"}, token : Tokens]

TypeOK ==
  /\ users \in UserTables
  /\ resets \in ResetTables
  /\ audit \in SUBSET UserIds
  /\ mails \in SUBSET Mails
  /\ fate \in [Tokens -> Fates]
  /\ req \in [Slots -> Requests]

Init ==
  /\ users = SeedUsers
  /\ resets = [t \in {} |-> Blank]
  /\ audit = {}
  /\ mails = {}
  /\ fate = [t \in Tokens |-> "fresh"]
  /\ req = [s \in Slots |-> Blank]

-----------------------------------------------------------------------------
\* What a request does with its slot.

\* The answer is sent and the slot is free again.
Answer(s, out) == req' = [req EXCEPT ![s] = [Blank EXCEPT !.out = out]]

Continue(s, pc) == req' = [req EXCEPT ![s].pc = pc]

\* A route called on a slot that is free.
Called(s, op) == op \in Routes /\ req[s].pc = "done"

At(s, pc) == req[s].pc = pc

-----------------------------------------------------------------------------
\* Statements and library calls the handlers share.

UsersWith(email) == {u \in DOMAIN users : users[u].email = email}

\* bcrypt reads 72 bytes: of a JWT that is the header and the first
\* characters of the subject, never the e-mail, the dates or the signature.
HashData(jwt) == jwt.sub

\* bcrypt.compare; it throws when the stored hash is NULL.
\* Variants: a NULL hash accepted; any session of the user accepted.
CompareOrNull(jwt, hash) == hash = None \/ HashData(jwt) = hash
ComparePresence(jwt, hash) == hash # None
Compare(jwt, hash) == hash # None /\ HashData(jwt) = hash

RefreshJwt(u) == [sub |-> u, email |-> users[u].email]

\* The unique index on users.email.
EmailTaken(u, email) == \E v \in DOMAIN users \ {u} : users[v].email = email

\* prisma.resetPassword.deleteMany({ where: { user_id } }).  Variant: only the
\* links that have expired.
WithoutExpiredLinksOf(u) ==
  [t \in {x \in DOMAIN resets : resets[x].user = u => ~resets[x].expired}
     |-> resets[t]]
WithoutLinksOf(u) ==
  [t \in {x \in DOMAIN resets : resets[x].user # u} |-> resets[t]]

Stored(t, u, expired) ==
  [x \in DOMAIN resets \union {t} |->
     IF x = t THEN [user |-> u, expired |-> expired] ELSE resets[x]]

\* dayjs(expires_date).isBefore(now).  Variant: the comparison swapped.
LinkNotExpired(t) == ~resets[t].expired
LinkExpired(t) == resets[t].expired

Fresh == {t \in Tokens : fate[t] = "fresh"}

\* Bounds the draws of an instance: a token is left for every request that
\* may still need one.
CanDraw == Cardinality({s \in Slots : At(s, "list")}) < Cardinality(Fresh)

-----------------------------------------------------------------------------
\* Sign-in and token rotation.

\* validateUser: the user stored under the e-mail, if the password matches.
Validated(email, pw) == {u \in UsersWith(email) : users[u].pw = pw}

\* POST sign-in validates, then hands over to fastLogin, which reads again.
SignIn(s) ==
  \E e \in Emails, p \in Passwords :
    /\ Called(s, "signIn")
    /\ IF Validated(e, p) = {}
       THEN Answer(s, "refused")
       ELSE req' = [req EXCEPT ![s] = [Blank EXCEPT
              !.op = "signIn", !.pc = "login", !.email = e, !.pw = p]]
    /\ UNCHANGED <<tables, mails, fate>>

\* fastLogin up to the statement of updateRefreshToken.
LoginWith(s, op, e, p) ==
  \/ /\ Validated(e, p) = {}
     /\ Answer(s, "refused")
  \/ \E u \in Validated(e, p) :
       req' = [req EXCEPT ![s] = [Blank EXCEPT
                 !.op = op, !.pc = "rotate", !.user = u, !.actor = u]]

FastLogin(s) ==
  /\ Called(s, "fastLogin")
  /\ \E e \in Emails, p \in Passwords : LoginWith(s, "fastLogin", e, p)
  /\ UNCHANGED <<tables, mails, fate>>

Login(s) ==
  /\ At(s, "login")
  /\ LoginWith(s, "signIn", req[s].email, req[s].pw)
  /\ UNCHANGED <<tables, mails, fate>>

\* POST code: the user of the live code that was read, if the e-mail sent is
\* that user's.  Which code that is, is the table's of TwoFactor; no user is read
\* as null and dereferenced.
SignInWithCode(s) ==
  /\ Called(s, "signInWithCode")
  /\ \/ Answer(s, "refused")
     \/ \E u \in UserIds \ DOMAIN users : Answer(s, "failed")
     \/ \E u \in DOMAIN users :
          req' = [req EXCEPT ![s] = [Blank EXCEPT
                    !.op = "signInWithCode", !.pc = "rotate",
                    !.user = u, !.actor = u]]
  /\ UNCHANGED <<tables, mails, fate>>

\* The check both refresh routes make on the user they read.
CheckRefresh(s, op, found, jwt) ==
  \/ /\ found = {}
     /\ Answer(s, "refused")
  \/ \E u \in found :
       IF Compare(jwt, users[u].rt)
       THEN req' = [req EXCEPT ![s] = [Blank EXCEPT
              !.op = op, !.pc = "rotate", !.user = u, !.actor = jwt.sub]]
       ELSE Answer(s, IF users[u].rt = None THEN "failed" ELSE "refused")

\* POST refresh: the guard has verified the JWT; the user is its subject.
Refresh(s) ==
  /\ Called(s, "refresh")
  /\ \E u \in UserIds :
       CheckRefresh(s, "refresh", {u} \intersect DOMAIN users, [sub |-> u])
  /\ UNCHANGED <<tables, mails, fate>>

\* POST biometric-refresh: the user is looked up by e-mail.
RefreshBiometric(s) ==
  /\ Called(s, "refreshBiometric")
  /\ \E e \in Emails, u \in UserIds :
       CheckRefresh(s, "refreshBiometric", UsersWith(e), [sub |-> u])
  /\ UNCHANGED <<tables, mails, fate>>

\* updateRefreshToken; changePassword goes on to delete the links, and
\* signInWithCode to delete the code.
Rotate(s) ==
  LET u == req[s].user IN
  /\ At(s, "rotate")
  /\ IF u \in DOMAIN users
     THEN /\ users' = [users EXCEPT ![u].rt = HashData(RefreshJwt(u))]
          /\ CASE req[s].op = "changePassword" -> Continue(s, "purge")
              [] req[s].op = "signInWithCode" -> Continue(s, "spend")
              [] OTHER -> Answer(s, "ok")
     ELSE Answer(s, "failed") /\ UNCHANGED users
  /\ UNCHANGED <<resets, audit, mails, fate>>

\* The session is open by now, whether or not the code is still there.
SpendCode(s) ==
  /\ At(s, "spend")
  /\ \E out \in {"ok", "refused"} : Answer(s, out)
  /\ UNCHANGED <<tables, mails, fate>>

-----------------------------------------------------------------------------
\* Changing the password.

\* POST change-password/:refreshToken.  An unknown link is read as null and
\* dereferenced; an expired one is refused.
ChangePassword(s) ==
  \E t \in Tokens, p \in Passwords :
    /\ Called(s, "changePassword")
    /\ IF t \notin DOMAIN resets
       THEN Answer(s, "failed")
       ELSE IF LinkExpired(t)
       THEN Answer(s, "refused")
       ELSE req' = [req EXCEPT ![s] = [Blank EXCEPT
              !.op = "changePassword", !.pc = "find", !.token = t,
              !.user = resets[t].user, !.pw = p]]
    /\ UNCHANGED <<tables, mails, fate>>

\* The row changePassword writes back: all of it, as read, but for two columns.
\* Variants: the removal undone; a status outside the enum.
RestoredRow(u, p) ==
  [users[u] EXCEPT !.pw = p, !.status = "US1", !.canceled = FALSE]
RenamedStatusRow(u, p) == [users[u] EXCEPT !.pw = p, !.status = "ACTIVE"]
ActivatedRow(u, p) == [users[u] EXCEPT !.pw = p, !.status = "US1"]

FindUser(s) ==
  LET u == req[s].user IN
  /\ At(s, "find")
  /\ IF u \in DOMAIN users
     THEN req' = [req EXCEPT ![s].pc = "write", ![s].pw = None,
                             ![s].row = ActivatedRow(u, req[s].pw)]
     ELSE Answer(s, "refused")
  /\ UNCHANGED <<tables, mails, fate>>

\* POST update-password: the row validateUser read, with the new password; pw
\* stays the password shown.
UpdatePassword(s) ==
  \E e \in Emails, old, p \in Passwords :
    /\ Called(s, "updatePassword")
    /\ \/ /\ Validated(e, old) = {}
          /\ Answer(s, "refused")
       \/ \E u \in Validated(e, old) :
            req' = [req EXCEPT ![s] = [Blank EXCEPT
                      !.op = "updatePassword", !.pc = "write", !.user = u,
                      !.pw = old, !.row = [users[u] EXCEPT !.pw = p]]]
    /\ UNCHANGED <<tables, mails, fate>>

\* userService.update with the whole row: it fails when the user is gone or
\* when the e-mail it restores is taken by now.
WriteRow(s) ==
  LET u == req[s].user
      r == req[s].row
  IN
  /\ At(s, "write")
  /\ IF u \in DOMAIN users /\ ~EmailTaken(u, r.email)
     THEN /\ users' = [users EXCEPT ![u] = r]
          /\ req' = [req EXCEPT ![s].pc = "rotate", ![s].row = None,
                                ![s].pw = None, ![s].actor = u]
     ELSE Answer(s, "refused") /\ UNCHANGED users
  /\ UNCHANGED <<resets, audit, mails, fate>>

\* The last statement of changePassword deletes every link of the user.
Purge(s) ==
  LET u == req[s].user IN
  /\ At(s, "purge")
  /\ resets' = WithoutLinksOf(u)
  /\ fate' = [t \in Tokens |->
                IF t = req[s].token \/ (t \in DOMAIN resets /\ resets[t].user = u)
                THEN "spent" ELSE fate[t]]
  /\ Answer(s, "ok")
  /\ UNCHANGED <<users, audit, mails>>

-----------------------------------------------------------------------------
\* Issuing links.

\* A request that has drawn a token for user u and will run pc next.
Drawn(s, op, pc, u, t) ==
  /\ fate[t] = "fresh"
  /\ fate' = [fate EXCEPT ![t] = "drawn"]
  /\ req' = [req EXCEPT ![s] = [Blank EXCEPT
               !.op = op, !.pc = pc, !.user = u, !.token = t]]

\* canceled_at is looked at before the link is made, not when it is inserted.
\* Variant: it is not looked at.
AnyUser(u) == TRUE
MayRecover(u) == ~users[u].canceled

\* POST forgot-password.  Every error is turned into a plain Error.
ForgotPassword(s) ==
  \E e \in Emails :
    /\ Called(s, "forgotPassword") /\ CanDraw
    /\ \/ /\ \A u \in UsersWith(e) : ~MayRecover(u)
          /\ Answer(s, "failed")
          /\ UNCHANGED fate
       \/ \E u \in UsersWith(e), t \in Tokens :
            /\ MayRecover(u)
            /\ Drawn(s, "forgotPassword", "insert", u, t)
    /\ UNCHANGED <<tables, mails>>

\* POST resend-invite/:id.  An active user is not invited again.
ResendInvite(s) ==
  \E u \in UserIds :
    /\ Called(s, "resendInvite") /\ CanDraw
    /\ \/ /\ u \in DOMAIN users => users[u].status = "US1"
          /\ Answer(s, "refused")
          /\ UNCHANGED fate
       \/ /\ u \in DOMAIN users
          /\ users[u].status # "US1"
          /\ \E t \in Tokens : Drawn(s, "resendInvite", "insert", u, t)
    /\ UNCHANGED <<tables, mails>>

Lose(t) ==
  fate' = [fate EXCEPT ![t] = IF @ \in {"fresh", "drawn"} THEN "lost" ELSE @]

\* resetService.create: any error is swallowed and reported as false, a
\* committed insert whose answer is lost included.
InsertLink(s, created) ==
  LET t == req[s].token
      u == req[s].user
  IN
  \/ /\ u \in DOMAIN users /\ t \notin DOMAIN resets
     /\ resets' = Stored(t, u, FALSE)
     /\ fate' = [fate EXCEPT ![t] = "stored"]
  \/ /\ ~created
     /\ UNCHANGED resets
     /\ Lose(t)

\* Only resendInvite looks at the result.  Variant: nobody does.
InsertUnchecked(s) ==
  \E created \in BOOLEAN :
    /\ At(s, "insert")
    /\ InsertLink(s, created)
    /\ CASE req[s].op = "forgotPassword" -> Continue(s, "clear")
         [] req[s].op = "resendInvite" -> Continue(s, "mail")
         [] OTHER -> Answer(s, "ok")
    /\ UNCHANGED <<users, audit, mails>>

Insert(s) ==
  \E created \in BOOLEAN :
    /\ At(s, "insert")
    /\ InsertLink(s, created)
    /\ CASE req[s].op = "forgotPassword" -> Continue(s, "clear")
         [] req[s].op = "resendInvite" /\ created -> Continue(s, "mail")
         [] OTHER -> Answer(s, "ok")
    /\ UNCHANGED <<users, audit, mails>>

\* forgotPassword ends the session of the user.
ClearSession(s) ==
  LET u == req[s].user IN
  /\ At(s, "clear")
  /\ IF u \in DOMAIN users
     THEN users' = [users EXCEPT ![u].rt = None] /\ Continue(s, "mail")
     ELSE Answer(s, "failed") /\ UNCHANGED users
  /\ UNCHANGED <<resets, audit, mails, fate>>

\* emailService.sendMail answers false when the provider fails; the request
\* succeeds either way.
SendMail(s) ==
  LET kind == IF req[s].op = "resendInvite" THEN "invite" ELSE "recovery" IN
  /\ At(s, "mail")
  /\ \/ mails' = mails \union {[kind |-> kind, token |-> req[s].token]}
     \/ UNCHANGED mails
  /\ Answer(s, "ok")
  /\ UNCHANGED <<tables, fate>>

\* GET get-invite/:id.
GetInvite(s) ==
  \E u \in UserIds :
    /\ Called(s, "getInvite") /\ CanDraw
    /\ IF u \in DOMAIN users
       THEN req' = [req EXCEPT ![s] = [Blank EXCEPT
              !.op = "getInvite", !.pc = "list", !.user = u]]
       ELSE Answer(s, "refused")
    /\ UNCHANGED <<tables, mails, fate>>

\* Variant: the request waits for a first link.
AwaitLinks(s) == FALSE
AnswerNoLinks(s) == Answer(s, "refused")

\* findMany has no orderBy: the last row may be any link of the user.  An
\* expired one is replaced, a live one is the answer.
ListLinks(s) ==
  LET u == req[s].user
      links == {t \in DOMAIN resets : resets[t].user = u}
  IN
  /\ At(s, "list")
  /\ \/ /\ links = {}
        /\ AnswerNoLinks(s)
        /\ UNCHANGED fate
     \/ \E last \in links :
          \/ /\ LinkExpired(last)
             /\ \E t \in Tokens : Drawn(s, "getInvite", "renew", u, t)
          \/ /\ ~LinkExpired(last)
             /\ Answer(s, "ok")
             /\ UNCHANGED fate
  /\ UNCHANGED <<tables, mails>>

DropLinks(s) ==
  LET u == req[s].user IN
  /\ At(s, "renew")
  /\ resets' = WithoutLinksOf(u)
  /\ fate' = [t \in Tokens |->
                IF t \in DOMAIN resets /\ resets[t].user = u
                THEN "withdrawn" ELSE fate[t]]
  /\ Continue(s, "insert")
  /\ UNCHANGED <<users, audit, mails>>

-----------------------------------------------------------------------------
\* UsersController.  Each of update, remove and delete reads the user first
\* and ignores the result (findById never answers null): one statement.

\* PATCH users/:id: any of the columns the DTO names, unchanged ones included.
UpdateUser(s) ==
  \E u \in UserIds, e \in Emails, st \in Status :
    /\ Called(s, "update")
    /\ IF u \in DOMAIN users /\ ~EmailTaken(u, e)
       THEN /\ users' = [users EXCEPT ![u].email = e, ![u].status = st]
            /\ Answer(s, "ok")
       ELSE Answer(s, "refused") /\ UNCHANGED users
    /\ UNCHANGED <<resets, audit, mails, fate>>

\* PATCH users/remove/:id
RemoveUser(s) ==
  \E u \in UserIds :
    /\ Called(s, "remove")
    /\ IF u \in DOMAIN users
       THEN /\ users' = [users EXCEPT ![u].canceled = TRUE]
            /\ Answer(s, "ok")
       ELSE Answer(s, "refused") /\ UNCHANGED users
    /\ UNCHANGED <<resets, audit, mails, fate>>

\* The foreign keys of reset_password and logs restrict the deletion.
\* Variants: one of them missing.
ReferencedByLink(u) == \E t \in DOMAIN resets : resets[t].user = u
ReferencedByLog(u) == u \in audit
Referenced(u) == u \in audit \/ \E t \in DOMAIN resets : resets[t].user = u

\* DELETE users/:id, which rows of the tables that are not here may also
\* prevent.
DeleteUser(s) ==
  \E u \in UserIds :
    /\ Called(s, "delete")
    /\ \/ /\ u \in DOMAIN users /\ ~Referenced(u)
          /\ users' = [v \in DOMAIN users \ {u} |-> users[v]]
          /\ Answer(s, "ok")
       \/ Answer(s, "refused") /\ UNCHANGED users
    /\ UNCHANGED <<resets, audit, mails, fate>>

\* PATCH users/disable-user/:id reads the administrator and the user,
\* updates the user and then writes the log.
DisableUser(s) ==
  \E u, admin \in UserIds :
    /\ Called(s, "disable")
    /\ IF admin \in DOMAIN users
       THEN req' = [req EXCEPT ![s] = [Blank EXCEPT
              !.op = "disable", !.pc = "disableFind", !.user = u,
              !.actor = admin]]
       ELSE Answer(s, "refused")
    /\ UNCHANGED <<tables, mails, fate>>

DisableFind(s) ==
  /\ At(s, "disableFind")
  /\ IF req[s].user \in DOMAIN users
     THEN Continue(s, "disableWrite")
     ELSE Answer(s, "refused")
  /\ UNCHANGED <<tables, mails, fate>>

DisableWrite(s) ==
  LET u == req[s].user IN
  /\ At(s, "disableWrite")
  /\ IF u \in DOMAIN users
     THEN users' = [users EXCEPT ![u].status = "US2"] /\ Continue(s, "log")
     ELSE Answer(s, "refused") /\ UNCHANGED users
  /\ UNCHANGED <<resets, audit, mails, fate>>

\* createLog: the insert fails when the administrator is gone by now.
WriteLog(s) ==
  LET admin == req[s].actor IN
  /\ At(s, "log")
  /\ IF admin \in DOMAIN users
     THEN audit' = audit \union {admin} /\ Answer(s, "ok")
     ELSE Answer(s, "refused") /\ UNCHANGED audit
  /\ UNCHANGED <<users, resets, mails, fate>>

-----------------------------------------------------------------------------
\* ResetController: the table edited directly, with values of the client.

Unless(was, becomes) == IF was = "spent" THEN was ELSE becomes

MarkStored(t) == fate' = [fate EXCEPT ![t] = Unless(@, "stored")]

MarkMoved(old, t) ==
  fate' = [y \in Tokens |-> IF y = t THEN Unless(fate[y], "stored")
                            ELSE IF y = old THEN Unless(fate[y], "withdrawn")
                            ELSE fate[y]]

\* The client names a token itself; the bound on draws covers it.
MayName(t) == fate[t] = "fresh" => CanDraw

\* POST reset answers false instead of an error.
ResetCreate(s) ==
  \E t \in Tokens, u \in UserIds, x \in BOOLEAN :
    /\ Called(s, "resetCreate") /\ MayName(t)
    /\ IF t \notin DOMAIN resets /\ u \in DOMAIN users
       THEN resets' = Stored(t, u, x) /\ MarkStored(t)
       ELSE UNCHANGED <<resets, fate>>
    /\ Answer(s, "ok")
    /\ UNCHANGED <<users, audit, mails>>

\* PATCH reset/:id may give the row another token, user or date.
ResetUpdate(s) ==
  \E old, t \in Tokens, u \in UserIds, x \in BOOLEAN :
    /\ Called(s, "resetUpdate") /\ MayName(t)
    /\ IF old \in DOMAIN resets /\ (t = old \/ t \notin DOMAIN resets)
          /\ u \in DOMAIN users
       THEN /\ resets' = [y \in (DOMAIN resets \ {old}) \union {t} |->
                            IF y = t THEN [user |-> u, expired |-> x]
                            ELSE resets[y]]
            /\ MarkMoved(old, t)
            /\ Answer(s, "ok")
       ELSE Answer(s, "refused") /\ UNCHANGED <<resets, fate>>
    /\ UNCHANGED <<users, audit, mails>>

\* DELETE reset/:id
ResetRemove(s) ==
  \E t \in Tokens :
    /\ Called(s, "resetRemove")
    /\ IF t \in DOMAIN resets
       THEN /\ resets' = [y \in DOMAIN resets \ {t} |-> resets[y]]
            /\ fate' = [fate EXCEPT ![t] = Unless(@, "withdrawn")]
            /\ Answer(s, "ok")
       ELSE Answer(s, "refused") /\ UNCHANGED <<resets, fate>>
    /\ UNCHANGED <<users, audit, mails>>

-----------------------------------------------------------------------------
\* The environment.

\* A month passes for a link.
Expire ==
  \E t \in DOMAIN resets :
    /\ ~resets[t].expired
    /\ resets' = [resets EXCEPT ![t].expired = TRUE]
    /\ UNCHANGED <<users, audit, mails, fate, req>>

\* A statement fails without effect and the error reaches the client (only
\* resetService.create swallows its own).  One that commits and loses its
\* acknowledgement is a fault at the next statement; after the last statement
\* of a handler that changes no more than the answer, which no property reads.
Fault(s) ==
  /\ req[s].pc \notin {"done", "insert"}
  /\ Answer(s, "failed")
  /\ UNCHANGED <<tables, mails, fate>>

\* The process dies and restarts: requests in flight are lost, the database
\* keeps what their statements have done.
Crash ==
  /\ \E s \in Slots : ~At(s, "done")
  /\ req' = [s \in Slots |-> Blank]
  /\ UNCHANGED <<tables, mails, fate>>

Call(s) ==
  \/ SignIn(s) \/ FastLogin(s) \/ SignInWithCode(s)
  \/ Refresh(s) \/ RefreshBiometric(s)
  \/ ForgotPassword(s) \/ ChangePassword(s) \/ UpdatePassword(s)
  \/ ResendInvite(s) \/ GetInvite(s)
  \/ UpdateUser(s) \/ DisableUser(s) \/ RemoveUser(s) \/ DeleteUser(s)
  \/ ResetCreate(s) \/ ResetUpdate(s) \/ ResetRemove(s)

Step(s) ==
  \/ Login(s) \/ Rotate(s) \/ SpendCode(s)
  \/ FindUser(s) \/ WriteRow(s) \/ Purge(s)
  \/ Insert(s) \/ ClearSession(s) \/ SendMail(s) \/ ListLinks(s)
  \/ DropLinks(s) \/ DisableFind(s) \/ DisableWrite(s) \/ WriteLog(s)

Next ==
  \/ \E s \in Slots : Call(s) \/ Step(s) \/ Fault(s)
  \/ Expire
  \/ Crash

Spec == Init /\ [][Next]_vars

\* Every awaited statement settles, with a result or (Fault) with an error, and
\* the event loop then resumes its handler.  Nothing obliges a client to call.
FairSpec == Spec /\ \A s \in Slots : WF_vars(Step(s))

-----------------------------------------------------------------------------
(***************************************************************************)
(* Properties.                                                             *)
(***************************************************************************)

\* A link that a finished password change has spent, or one that the change
\* deleted with it, is never stored again, however the requests that issue,
\* replace and consume links interleave (only the CRUD of ResetController
\* can put it back).
SpentLinkIsDead == \A t \in Tokens : fate[t] = "spent" => t \notin DOMAIN resets

\* A link that was mailed leads somewhere: it is stored, unless a finished
\* change has spent it or it was withdrawn since.  forgotPassword ignores whether
\* its insert succeeds, so its mail has one more excuse: the insert failed.  An
\* invitation has not: resendInviteToUser mails only what create says is stored.
MailedLinkStands ==
  \A m \in mails : m.token \notin DOMAIN resets =>
    \/ fate[m.token] \in {"withdrawn", "spent"}
    \/ m.kind = "recovery" /\ fate[m.token] = "lost"

\* A password change whose link is still stored finds its user, and the link
\* is still that user's, at every statement: the user cannot be deleted nor
\* the link handed over under the request, so the write cannot be lost.
LinkHolderExists ==
  \A s \in Slots :
    (req[s].op = "changePassword" /\ req[s].token \in DOMAIN resets)
      => /\ req[s].user \in DOMAIN users
         /\ resets[req[s].token].user = req[s].user

\* No link and no log refers to a user who is gone, whatever a request that
\* read the user earlier inserts after the deletion.
ReferencesHold ==
  /\ \A t \in DOMAIN resets : resets[t].user \in DOMAIN users
  /\ audit \subseteq DOMAIN users

\* Both refresh routes issue tokens to the subject of the token presented and
\* to nobody else, although refreshBiometric looks the user up by an e-mail
\* that update may have moved to another user.
RefreshKeepsIdentity ==
  \A s \in Slots :
    (req[s].op \in {"refresh", "refreshBiometric"} /\ At(s, "rotate"))
      => req[s].user = req[s].actor

\* A user whose row says canceled and whom no password write in flight would
\* revive with the row it read before.
Retired(u) ==
  /\ u \in DOMAIN users
  /\ users[u].canceled
  /\ \A s \in Slots : (At(s, "write") /\ req[s].user = u) => req[s].row.canceled

\* Once retired a user stays so until deleted: only a full-row write whose
\* read preceded the removal can undo it, and no later request can.
RemovalSettles ==
  [][\A u \in UserIds : (Retired(u) /\ u \in DOMAIN users') => Retired(u)']_vars

\* A removed user without a link, without a request about to issue one and
\* without a password write that would undo the removal.
Barred(u) ==
  /\ u \in DOMAIN users
  /\ users[u].canceled /\ users[u].status = "US1"
  /\ \A t \in DOMAIN resets : resets[t].user # u
  /\ \A s \in Slots : req[s].user = u =>
       /\ req[s].pc \notin {"insert", "renew"}
       /\ At(s, "write") => req[s].row.canceled /\ req[s].row.status = "US1"

\* No link is issued for a barred user, by recovery, by invitation or by renewal,
\* until the user is deleted or made pending or inactive: the checks that keep
\* removed and active users from new links are made statements before the insert.
RemovalBars ==
  [][\A u \in UserIds :
       (Barred(u) /\ u \in DOMAIN users' /\ users'[u].status = "US1")
         => Barred(u)']_vars

\* A user without a session and without a request about to open one.
LoggedOut(u) ==
  /\ u \in DOMAIN users
  /\ users[u].rt = None
  /\ \A s \in Slots : req[s].user = u => req[s].pc \notin {"find", "write", "rotate"}

\* Sessions start from a password, from a link or from a two-factor code: once
\* forgotPassword has cleared the session of a user and the refreshes that read
\* it before have finished, no refresh opens it again.
SessionNeedsCredential ==
  [][\A u \in UserIds :
       (LoggedOut(u) /\ u \in DOMAIN users')
         => \/ LoggedOut(u)'
            \/ \E s \in Slots : /\ req'[s] # req[s] /\ req'[s].user = u
                                /\ req'[s].op \in {"signIn", "fastLogin",
                                     "signInWithCode", "changePassword",
                                     "updatePassword"}]_vars

\* The password a request may still write, and what was shown for it.
HolderOf(s) ==
  IF req[s].pc \in {"find", "write"}
  THEN [user |-> req[s].user,
        key |-> IF req[s].op = "changePassword" THEN req[s].token ELSE req[s].pw]
  ELSE None

PhaseOf(t) ==
  IF t \in DOMAIN resets
  THEN IF resets[t].expired THEN "expired" ELSE "live"
  ELSE IF fate[t] \in {"fresh", "drawn", "lost"} THEN "none" ELSE "dead"

Recovery ==
  INSTANCE PasswordRecovery WITH
    phase <- [t \in Tokens |-> PhaseOf(t)],
    owner <- [t \in Tokens |-> IF t \in DOMAIN resets THEN resets[t].user ELSE None],
    password <- [u \in UserIds |-> IF u \in DOMAIN users THEN users[u].pw ELSE None],
    holder <- [s \in Slots |-> HolderOf(s)]

\* The routes of AuthController and UsersController keep the promise of
\* PasswordRecovery (those of ResetController need not: they edit the table).
KeepsRecoveryPromise == Recovery!Spec

\* Every request is answered or lost in a crash: no handler waits for another.
EveryRequestEnds == \A s \in Slots : ~At(s, "done") ~> At(s, "done")
=============================================================================
