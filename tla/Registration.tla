---------------------------- MODULE Registration ----------------------------
(***************************************************************************)
(* POST users and POST auth/sign-up.                                       *)
(*                                                                         *)
(* Both look up the owner and the e-mail and then hand the DTO to          *)
(* prisma.user.create.  The DTO requires userId and users has no such      *)
(* column, so the client library rejects the arguments of every insert:    *)
(* no user is ever stored.                                                 *)
(***************************************************************************)
EXTENDS HttpErrors

CONSTANTS
  UserIds,    \* the users stored
  Emails,     \* e-mail addresses
  Calls,      \* the calls clients make: a bound
  None        \* no value

Routes == {"create", "signUp"}

VARIABLES
  email,      \* the e-mail of each user stored
  req         \* the calls

vars == <<email, req>>

\* at is the statement a call runs next or, with a status, the one that threw.
Requests ==
  [op : Routes, at : {"owner", "email", "insert"}, owner : UserIds \union {None},
   email : Emails, status : {0, 400, 409, 500}]

Init ==
  /\ email \in {f \in [UserIds -> Emails] :
                  \A u, v \in UserIds : f[u] = f[v] => u = v}
  /\ req = [c \in Calls |-> None]

At(c, statement) ==
  req[c] # None /\ req[c].at = statement /\ req[c].status = 0

Proceed(c, statement) == req' = [req EXCEPT ![c].at = statement]

\* UsersRepository.create turns every error into a BadRequestException; signUp
\* lets it pass.
Thrown(op, e) == IF op = "create" THEN HttpException(400) ELSE e

Throw(c, e) == req' = [req EXCEPT ![c].status = StatusOf(Thrown(req[c].op, e))]

\* The owner named in the body may be unknown.
Call(c) ==
  /\ req[c] = None
  /\ \E op \in Routes, owner \in UserIds \union {None}, e \in Emails :
       req' = [req EXCEPT ![c] =
                 [op |-> op, at |-> "owner", owner |-> owner, email |-> e, status |-> 0]]
  /\ UNCHANGED email

FindOwner(c) ==
  /\ At(c, "owner")
  /\ IF req[c].owner \in UserIds
     THEN Proceed(c, "email")
     ELSE Throw(c, HttpException(400))
  /\ UNCHANGED email

FindEmail(c) ==
  /\ At(c, "email")
  /\ IF \E u \in UserIds : email[u] = req[c].email
     THEN Throw(c, HttpException(400))
     ELSE Proceed(c, "insert")
  /\ UNCHANGED email

Insert(c) ==
  /\ At(c, "insert")
  /\ Throw(c, Error("PrismaClientValidationError"))
  /\ UNCHANGED email

Next == \E c \in Calls : Call(c) \/ FindOwner(c) \/ FindEmail(c) \/ Insert(c)

Spec == Init /\ [][Next]_vars

-----------------------------------------------------------------------------
\* POST users documents the status 409, 'Conflito de e-mail': a call that the
\* look-up of its e-mail refuses is answered so.
EmailConflictIs409 ==
  \A c \in Calls :
    (req[c] # None /\ req[c].status # 0 /\ req[c].op = "create" /\ req[c].at = "email")
      => req[c].status = 409
=============================================================================
