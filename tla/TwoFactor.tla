----------------------------- MODULE TwoFactor ------------------------------
(***************************************************************************)
(* Two-factor codes: POST auth/code and POST auth/resend-code over the     *)
(* tables codes and users.                                                 *)
(*                                                                         *)
(* A sign-in reads the code, reads its user, stores the hash of a new      *)
(* refresh token and only then deletes the code, by its digits.  A resend  *)
(* draws digits for a further code and leaves the old one alone.  Each is  *)
(* a statement of its own; calls interleave between any two.               *)
(*                                                                         *)
(* No route inserts the first code: the table is seeded.                   *)
(***************************************************************************)
EXTENDS HttpErrors

CONSTANTS
  UserIds,     \* the users that may be stored
  Emails,      \* e-mail addresses
  Codes,       \* the digits of codes: bounds the million that may be drawn
  Calls,       \* the calls clients make: a bound
  SeedUsers,   \* table users before the first call
  SeedCodes,   \* table codes before the first call
  None         \* undefined

\* A row of users is the e-mail of the user here.
UserTables == UNION {[S -> Emails] : S \in SUBSET UserIds}

\* A row of codes, keyed by its unique column code; live while created_at is
\* less than ten minutes ago.  by identifies the row: the call that inserted it.
CodeRow == [user : UserIds, by : Calls \union {None}, live : BOOLEAN]
CodeTables == UNION {[S -> CodeRow] : S \in SUBSET Codes}

DistinctEmails(tbl) == \A u, v \in DOMAIN tbl : tbl[u] = tbl[v] => u = v

\* A row of codes as a call remembers it.
RowRef == [code : Codes, by : Calls \union {None}]

Ops == {"signInWithCode", "resendCode"}

ASSUME TwoFactorNone ==
  None \notin UserIds \union Emails \union Calls \union RowRef \union Ops

ASSUME TwoFactorInstance ==
  /\ SeedUsers \in UserTables /\ DistinctEmails(SeedUsers)
  /\ SeedCodes \in CodeTables
  /\ \A k \in DOMAIN SeedCodes :
       SeedCodes[k].by = None /\ SeedCodes[k].user \in DOMAIN SeedUsers

-----------------------------------------------------------------------------
VARIABLES
  users,     \* table users
  codes,     \* table codes
  req,       \* the calls
  opened,    \* history: the calls that have stored the hash of their token
  spent,     \* history: the calls that have deleted the code they had read
  faulted    \* history: the calls a fault or a crash has hit

vars == <<users, codes, req, opened, spent, faulted>>

Statements == {"user", "rotate", "spend", "reply", "owner", "insert", "mail"}
Statuses == {0, 200, 400, 401, 404, 409, 500}   \* 0: no answer (yet)

\* pc is the statement a call runs next; row is the code a sign-in has read, or
\* the one a resend has inserted.
Requests ==
  [op : Ops \union {None}, pc : Statements \union {"idle", "end"},
   email : Emails \union {None}, user : UserIds \union {None},
   row : RowRef \union {None}, status : Statuses]

Blank == [op |-> None, pc |-> "idle", email |-> None, user |-> None,
          row |-> None, status |-> 0]

TypeOK ==
  /\ users \in UserTables
  /\ codes \in CodeTables
  /\ req \in [Calls -> Requests]
  /\ opened \in SUBSET Calls
  /\ spent \in SUBSET Calls
  /\ faulted \in SUBSET Calls

Init ==
  /\ users = SeedUsers
  /\ codes = SeedCodes
  /\ req = [c \in Calls |-> Blank]
  /\ opened = {}
  /\ spent = {}
  /\ faulted = {}

-----------------------------------------------------------------------------
At(c, pc) == req[c].pc = pc

Running(c) == req[c].pc \in Statements

Proceed(c, pc) == req' = [req EXCEPT ![c].pc = pc]

Answer(c, op, status) ==
  req' = [req EXCEPT ![c].op = op, ![c].pc = "end", ![c].status = status]

Throw(c, op, error) == Answer(c, op, StatusOf(error))

\* created_at: { gte: now - 10 min }.  Variant: codes of any age.
AnyAge(accepted) == accepted \intersect DOMAIN codes
LiveCodes(accepted) == {k \in accepted \intersect DOMAIN codes : codes[k].live}

-----------------------------------------------------------------------------
(***************************************************************************)
(* POST auth/code                                                          *)
(***************************************************************************)

\* The digits in the body, and the e-mail in a header, which may be missing.
SignInWithCode(c) ==
  \E k \in Codes, e \in Emails \union {None} :
    /\ At(c, "idle")
    /\ IF LiveCodes({k}) = {}
       THEN Throw(c, "signInWithCode", Error("UnauthorizedError"))
       ELSE req' = [req EXCEPT ![c] = [Blank EXCEPT
              !.op = "signInWithCode", !.pc = "user", !.email = e,
              !.user = codes[k].user, !.row = [code |-> k, by |-> codes[k].by]]]
    /\ UNCHANGED <<users, codes, opened, spent, faulted>>

\* No user is read as null and dereferenced.
FindUser(c) ==
  LET u == req[c].user IN
  /\ At(c, "user")
  /\ IF u \notin DOMAIN users
     THEN Throw(c, "signInWithCode", Error("TypeError"))
     ELSE IF users[u] # req[c].email
     THEN Throw(c, "signInWithCode", Error("NotFoundError"))
     ELSE Proceed(c, "rotate")
  /\ UNCHANGED <<users, codes, opened, spent, faulted>>

\* updateRefreshToken turns every error into a plain one.
Rotate(c) ==
  /\ At(c, "rotate")
  /\ IF req[c].user \in DOMAIN users
     THEN opened' = opened \union {c} /\ Proceed(c, "spend")
     ELSE Throw(c, "signInWithCode", Error("Error")) /\ UNCHANGED opened
  /\ UNCHANGED <<users, codes, spent, faulted>>

\* prisma.codes.delete({ where: { code } }) throws when the code is gone.
\* Variants: it does not, as deleteMany does not; an expired code is gone too.
Tolerated(k) == TRUE
SpendableLive(k) == k \in DOMAIN codes /\ codes[k].live
Spendable(k) == k \in DOMAIN codes

Spend(c) ==
  LET k == req[c].row.code IN
  /\ At(c, "spend")
  /\ IF Spendable(k)
     THEN /\ codes' = [x \in DOMAIN codes \ {k} |-> codes[x]]
          /\ spent' = spent \union {c}
          /\ Proceed(c, "reply")
     ELSE /\ Throw(c, "signInWithCode", Error("P2025"))
          /\ UNCHANGED <<codes, spent>>
  /\ UNCHANGED <<users, opened, faulted>>

Reply(c) ==
  /\ At(c, "reply")
  /\ Answer(c, "signInWithCode", 200)
  /\ UNCHANGED <<users, codes, opened, spent, faulted>>

-----------------------------------------------------------------------------
(***************************************************************************)
(* POST auth/resend-code                                                   *)
(***************************************************************************)

\* The body as a whole is the filter of the column code.  One that the client
\* library does not accept (None) is an error; another matches some digits, and
\* one live code among them is enough, whose user is not looked at.
ResendCode(c) ==
  /\ At(c, "idle")
  /\ \/ Throw(c, "resendCode", Error("PrismaClientValidationError"))
     \/ \E accepted \in SUBSET Codes, e \in Emails \union {None} :
          IF LiveCodes(accepted) = {}
          THEN Throw(c, "resendCode", Error("UnauthorizedError"))
          ELSE req' = [req EXCEPT ![c] = [Blank EXCEPT
                 !.op = "resendCode", !.pc = "owner", !.email = e]]
  /\ UNCHANGED <<users, codes, opened, spent, faulted>>

\* Without an e-mail any user is found, whose e-mail is then another.
FindOwner(c) ==
  LET found == {u \in DOMAIN users : users[u] = req[c].email} IN
  /\ At(c, "owner")
  /\ \/ found = {} /\ Throw(c, "resendCode", Error("NotFoundError"))
     \/ \E u \in found :
          req' = [req EXCEPT ![c].pc = "insert", ![c].user = u]
  /\ UNCHANGED <<users, codes, opened, spent, faulted>>

\* Variant: the row refers to the e-mail.
CodeOfEmail(c) == [user |-> req[c].email, by |-> c, live |-> TRUE]
NewCode(c) == [user |-> req[c].user, by |-> c, live |-> TRUE]

\* codes_code_key and codes_user_id_fkey.
Insert(c) ==
  /\ At(c, "insert")
  /\ \E k \in Codes :
       IF k \notin DOMAIN codes /\ req[c].user \in DOMAIN users
       THEN /\ codes' = [x \in DOMAIN codes \union {k} |->
                           IF x = k THEN NewCode(c) ELSE codes[x]]
            /\ req' = [req EXCEPT ![c].pc = "mail",
                                  ![c].row = [code |-> k, by |-> c]]
       ELSE /\ Throw(c, "resendCode",
                     Error(IF k \in DOMAIN codes THEN "P2002" ELSE "P2003"))
            /\ UNCHANGED codes
  /\ UNCHANGED <<users, opened, spent, faulted>>

\* sendMail answers false when the provider fails; the call succeeds anyway.
SendMail(c) ==
  /\ At(c, "mail")
  /\ Answer(c, "resendCode", 200)
  /\ UNCHANGED <<users, codes, opened, spent, faulted>>

-----------------------------------------------------------------------------
(***************************************************************************)
(* The environment.                                                        *)
(***************************************************************************)

\* Ten minutes pass for a code.
Expire ==
  \E k \in DOMAIN codes :
    /\ codes[k].live
    /\ codes' = [codes EXCEPT ![k].live = FALSE]
    /\ UNCHANGED <<users, req, opened, spent, faulted>>

\* PATCH users/:id
MoveEmail ==
  \E u \in DOMAIN users, e \in Emails :
    /\ \A v \in DOMAIN users : users[v] # e
    /\ users' = [users EXCEPT ![u] = e]
    /\ UNCHANGED <<codes, req, opened, spent, faulted>>

\* codes_user_id_fkey restricts the deletion of a user.  Variant: it does not.
Codeless(u) == FALSE
HasCodes(u) == \E k \in DOMAIN codes : codes[k].user = u

\* DELETE users/:id, which may also fail for rows of other tables.
DeleteUser ==
  \E u \in DOMAIN users :
    /\ ~HasCodes(u)
    /\ users' = [v \in DOMAIN users \ {u} |-> users[v]]
    /\ UNCHANGED <<codes, req, opened, spent, faulted>>

\* A statement fails without effect, or its acknowledgement is lost once it has
\* committed: that is a fault at the next statement, or at "reply" or "mail",
\* which have none of their own (sendMail hides its errors).  updateRefreshToken
\* hides the class of the error.
Fault(c) ==
  /\ Running(c)
  /\ \E class \in IF At(c, "rotate") THEN {"Error"}
                  ELSE {"P2024", "PrismaClientInitializationError"} :
       Throw(c, req[c].op, Error(class))
  /\ faulted' = faulted \union {c}
  /\ UNCHANGED <<users, codes, opened, spent>>

\* The process dies: the calls in flight get no answer.
Crash ==
  LET lost == {c \in Calls : Running(c)} IN
  /\ lost # {}
  /\ req' = [c \in Calls |-> IF c \in lost THEN [req[c] EXCEPT !.pc = "end"] ELSE req[c]]
  /\ faulted' = faulted \union lost
  /\ UNCHANGED <<users, codes, opened, spent>>

Call(c) == SignInWithCode(c) \/ ResendCode(c)

Statement(c) ==
  \/ FindUser(c) \/ Rotate(c) \/ Spend(c) \/ Reply(c)
  \/ FindOwner(c) \/ Insert(c) \/ SendMail(c)

Next ==
  \/ \E c \in Calls : Call(c) \/ Statement(c) \/ Fault(c)
  \/ Expire \/ MoveEmail \/ DeleteUser \/ Crash

Spec == Init /\ [][Next]_vars

-----------------------------------------------------------------------------
(***************************************************************************)
(* Properties.                                                             *)
(***************************************************************************)

\* The sign-ins that have succeeded.
SignedIn == {c \in Calls : req[c].op = "signInWithCode" /\ req[c].status = 200}

\* The same digits have been drawn once more, for another row.
DrawnAgain(row) ==
  \E d \in Calls : /\ req[d].op = "resendCode" /\ req[d].row # None
                   /\ req[d].row.code = row.code /\ d # row.by

\* Every code has its user, although a resend inserts it after another read and
\* the user may be deleted in between.
CodesKeepUser == \A k \in DOMAIN codes : codes[k].user \in DOMAIN users

\* Of the sign-ins that have read a code one gets past its deletion, which it
\* takes to succeed, unless a resend has drawn the same digits in between: the
\* deletion is by the digits, so a late sign-in then succeeds by deleting the
\* code of somebody else.
OneSignInPerCode ==
  \A c, d \in SignedIn \union spent :
    (c # d /\ req[c].row = req[d].row) => DrawnAgain(req[c].row)

\* A sign-in that has replaced the session of the user and is then answered
\* with an error has a cause: another sign-in that has deleted the code, whatever
\* it was answered itself, or a fault or a crash of its own.
ErrorAfterSessionHasCause ==
  \A c \in opened :
    (At(c, "end") /\ c \notin SignedIn)
      => \/ c \in faulted
         \/ \E d \in spent : d # c /\ req[d].row.code = req[c].row.code

\* No live code, and no resend past its check of one.
Dry ==
  /\ \A k \in DOMAIN codes : ~codes[k].live
  /\ \A c \in Calls : ~At(c, "owner") /\ ~At(c, "insert")

\* A code is issued only for a live one: once the last has expired or is spent
\* and the resends past their check have ended, none is ever issued again.
DryForGood == [][Dry => Dry']_vars

\* An expired code that no sign-in has read and not yet deleted.
Stale(k) ==
  /\ k \in DOMAIN codes /\ ~codes[k].live
  /\ \A c \in Calls :
       req[c].pc \in {"user", "rotate", "spend"} => req[c].row.code # k

StaysStale(k) ==
  Stale(k)' /\ codes'[k] = codes[k] /\ codes[k].user \in DOMAIN users'

\* Nothing clears expired codes: one stays for good, its digits are never free
\* again, and its user can no longer be deleted.
StaleForGood ==
  [][\A k \in Codes : Stale(k) => StaysStale(k)]_vars
=============================================================================
