------------------------------- MODULE Access -------------------------------
(***************************************************************************)
(* Who is let in, and for how long: the guard of all routes, the guard of  *)
(* POST auth/refresh and the tokens they accept, over time.                *)
(*                                                                         *)
(* The server keeps no list of tokens.  An access token is accepted until  *)
(* it expires, whatever has become of its user or of the session; what a   *)
(* deletion or a cleared session ends is the renewal.  Renewal and sign-in *)
(* both read the user and sign new tokens first, and store the hash of the *)
(* refresh token and hand the tokens out in a later statement.             *)
(*                                                                         *)
(* Accounts has the routes that open, renew and clear sessions one by one; *)
(* here there is a clock, one sign-in for the routes that read a user and  *)
(* sign, and one change of the password for the two that write back the    *)
(* whole row they read, with the session it had, before they sign.         *)
(***************************************************************************)
EXTENDS Naturals

CONSTANTS
  UserIds,      \* the users stored at the start
  AccessLife,   \* lifetime of an access token: 14 hours
  RefreshLife,  \* lifetime of a refresh token: 6 days
  MaxTime,      \* where the clock of an instance stops: a bound
  Slots,        \* requests the server works on at the same time: a bound
  None          \* undefined

ASSUME AccessInstance ==
  /\ AccessLife \in Nat /\ RefreshLife \in Nat /\ MaxTime \in Nat
  /\ None \notin UserIds \union Nat

Time == 0 .. MaxTime

\* sub and iat of a JWT; the two kinds are signed with different secrets.
Jwt == [sub : UserIds, iat : Time]

\* Of the row a change of the password has read: whose it is, and whether its
\* hashedRefreshToken was not NULL.
Row == [user : UserIds, session : BOOLEAN]

VARIABLES
  now,       \* the clock
  users,     \* the users stored
  sessions,  \* those whose column hashedRefreshToken is not NULL
  issued,    \* the pairs handed out: an access and a refresh token with this
             \* subject and time
  row,       \* by slot, the row a request has read and will write back
  req,       \* by slot, the pair a request has signed and not handed out
  reply,     \* the last answer of the server
  gone,      \* history: when each user was deleted
  quiet      \* history: when each user who has not signed in since logged out

vars == <<now, users, sessions, issued, row, req, reply, gone, quiet>>

\* The routes by what they document: those behind the guard, the public ones
\* that open or renew a session, and sign-out.
Routes == {"guarded", "session", "signOut"}

Replies == [route : Routes \union {None}, status : {0, 200, 400, 401, 404, 500}]

TypeOK ==
  /\ now \in Time
  /\ users \in SUBSET UserIds
  /\ sessions \in SUBSET UserIds
  /\ issued \in SUBSET Jwt
  /\ row \in [Slots -> Row \union {None}]
  /\ req \in [Slots -> Jwt \union {None}]
  /\ reply \in Replies
  /\ gone \in [UserIds -> Time \union {None}]
  /\ quiet \in [UserIds -> Time \union {None}]

Init ==
  /\ now = 0
  /\ users = UserIds
  /\ sessions = {}
  /\ issued = {}
  /\ row = [s \in Slots |-> None]
  /\ req = [s \in Slots |-> None]
  /\ reply = [route |-> None, status |-> 0]
  /\ gone = [u \in UserIds |-> None]
  /\ quiet = [u \in UserIds |-> 0]

-----------------------------------------------------------------------------
Free(s) == row[s] = None /\ req[s] = None

Answer(s, route, status) ==
  /\ row' = [row EXCEPT ![s] = None]
  /\ req' = [req EXCEPT ![s] = None]
  /\ reply' = [route |-> route, status |-> status]

\* getTokens, and on to updateRefreshToken.  Variant: iat and exp confused.
SignLate(s, u) ==
  /\ row' = [row EXCEPT ![s] = None]
  /\ req' = [req EXCEPT ![s] = [sub |-> u, iat |-> now + AccessLife]]
  /\ UNCHANGED reply

Sign(s, u) ==
  /\ row' = [row EXCEPT ![s] = None]
  /\ req' = [req EXCEPT ![s] = [sub |-> u, iat |-> now]]
  /\ UNCHANGED reply

\* jsonwebtoken accepts a token until exp = iat + life.
Unexpired(jwt, life) == now < jwt.iat + life

\* AccessTokenGuard, on every route that is not @Public: the bearer token must
\* be an access token and valid.  Nothing is looked up.
Guarded(s) ==
  /\ Free(s)
  /\ \/ Answer(s, "guarded", 401)   \* no token, or one that is no access token
     \/ \E jwt \in issued :
          Answer(s, "guarded", IF Unexpired(jwt, AccessLife) THEN 200 ELSE 401)
  /\ UNCHANGED <<now, users, sessions, issued, gone>>

\* sign-in, code and fast-login: a user who has shown a password or a code.
SignIn(s) ==
  \E u \in users :
    /\ Free(s)
    /\ Sign(s, u)
    /\ quiet' = [quiet EXCEPT ![u] = None]
    /\ UNCHANGED <<now, users, sessions, issued, gone>>

\* change-password and update-password read the row of a user who has shown a
\* link or a password, and hash the new password.
ReadRow(s) ==
  \E u \in users :
    /\ Free(s)
    /\ row' = [row EXCEPT ![s] = [user |-> u, session |-> u \in sessions]]
    /\ quiet' = [quiet EXCEPT ![u] = None]
    /\ UNCHANGED <<now, users, sessions, issued, req, reply, gone>>

\* userService.update stores the row as it was read: a session cleared since is
\* there again, one opened since is not.  It looks the user up itself, and the
\* user may be deleted before that or between that and the update.
WriteRow(s) ==
  LET u == row[s].user IN
  /\ row[s] # None
  /\ IF u \in users
     THEN /\ sessions' = IF row[s].session THEN sessions \union {u} ELSE sessions \ {u}
          /\ Sign(s, u)
     ELSE /\ \E status \in {400, 404} : Answer(s, "session", status)
          /\ UNCHANGED sessions
  /\ UNCHANGED <<now, users, issued, gone>>

\* bcrypt.compare with the hash of the session, which is of the subject's first
\* characters; it throws when there is none.  Variant: no hash is accepted.
HashOrNull(u) == TRUE
HasHash(u) == u \in sessions

\* The check of both refresh routes on the user found.
Renew(s, u, jwt) ==
  IF u \notin users THEN Answer(s, "session", 401)
  ELSE IF ~HasHash(u) THEN Answer(s, "session", 500)
  ELSE IF jwt.sub # u THEN Answer(s, "session", 401)
  ELSE Sign(s, u)

\* POST auth/refresh, behind RefreshTokenGuard.
Refresh(s) ==
  /\ Free(s)
  /\ \/ Answer(s, "session", 401)   \* no token, or one that is no refresh token
     \/ \E jwt \in issued :
          IF Unexpired(jwt, RefreshLife)
          THEN Renew(s, jwt.sub, jwt)
          ELSE Answer(s, "session", 401)
  /\ UNCHANGED <<now, users, sessions, issued, gone>>

\* POST auth/biometric-refresh: the token in its header is not verified, so its
\* age does not count; the user is found by an e-mail.
RefreshBiometric(s) ==
  \E u \in UserIds, jwt \in issued :
    /\ Free(s)
    /\ Renew(s, u, jwt)
    /\ UNCHANGED <<now, users, sessions, issued, gone>>

\* POST auth/sign-out: the route is public, so no guard has set request.user,
\* and the decorator that reads its subject throws.
SignOut(s) ==
  /\ Free(s)
  /\ Answer(s, "signOut", 500)
  /\ UNCHANGED <<now, users, sessions, issued, gone>>

\* updateRefreshToken stores the hash and the pair is handed out; it fails for a
\* user who is gone.
Rotate(s) ==
  LET jwt == req[s] IN
  /\ req[s] # None
  /\ IF jwt.sub \in users
     THEN /\ sessions' = sessions \union {jwt.sub}
          /\ issued' = issued \union {jwt}
          /\ Answer(s, "session", 200)
     ELSE Answer(s, "session", 500) /\ UNCHANGED <<sessions, issued>>
  /\ UNCHANGED <<now, users, gone>>

-----------------------------------------------------------------------------
\* The rest of the server, and time.

\* forgotPassword stores NULL in hashedRefreshToken.
ClearSession(u) ==
  /\ u \in users
  /\ sessions' = sessions \ {u}
  /\ UNCHANGED <<now, users, issued, row, req, reply, gone>>

\* Variant: the row is only marked, as PATCH users/remove/:id does.
Marked(u) == users
Without(u) == users \ {u}

\* DELETE users/:id
DeleteUser(u) ==
  /\ u \in users
  /\ users' = Without(u)
  /\ sessions' = sessions \ {u}
  /\ gone' = [gone EXCEPT ![u] = now]
  /\ UNCHANGED <<now, issued, row, req, reply>>

\* The statement of updateRefreshToken fails, with a plain error.  Or it commits
\* and loses its acknowledgement, or the statement that a sign-in with a code and
\* change-password have after it fails, and the pair is not handed out.  So may
\* userService.update fail, whose error goes on as it is.  A crash ends a request
\* the same way, but that nobody hears of it.
Fault(s) ==
  /\ \/ /\ req[s] # None
        /\ Answer(s, "session", 500)
        /\ UNCHANGED sessions
     \/ /\ req[s] # None /\ req[s].sub \in users
        /\ \E status \in {400, 500} : Answer(s, "session", status)
        /\ sessions' = sessions \union {req[s].sub}
     \/ /\ row[s] # None
        /\ \E status \in {400, 500} : Answer(s, "session", status)
        /\ UNCHANGED sessions
  /\ UNCHANGED <<now, users, issued, gone>>

Tick ==
  /\ now < MaxTime
  /\ now' = now + 1
  /\ UNCHANGED <<users, sessions, issued, row, req, reply, gone>>

\* Without a session, and without a request about to open one.
LoggedOut(u) ==
  /\ u \notin sessions
  /\ \A s \in Slots : /\ row[s] # None => row[s].user # u
                      /\ req[s] # None => req[s].sub # u

Settle ==
  quiet' = [u \in UserIds |-> IF quiet[u] = None /\ LoggedOut(u)' THEN now ELSE quiet[u]]

Move ==
  \/ \E s \in Slots :
       \/ Guarded(s) \/ Refresh(s) \/ RefreshBiometric(s) \/ SignOut(s)
       \/ WriteRow(s) \/ Rotate(s) \/ Fault(s)
  \/ \E u \in UserIds : ClearSession(u) \/ DeleteUser(u)
  \/ Tick

Next == (Move /\ Settle) \/ \E s \in Slots : SignIn(s) \/ ReadRow(s)

Spec == Init /\ [][Next]_vars

-----------------------------------------------------------------------------
(***************************************************************************)
(* Properties.                                                             *)
(***************************************************************************)

\* The guard would let the user in.
LetIn(u) == \E jwt \in issued : jwt.sub = u /\ Unexpired(jwt, AccessLife)

\* A user who was deleted is let in for the lifetime of an access token at
\* most, although nothing looks the user up and renewals may be in flight when
\* the user is deleted.
GoneLoseAccess ==
  \A u \in UserIds :
    (gone[u] # None /\ now >= gone[u] + AccessLife) => ~LetIn(u)

\* So is a user whose session was cleared, counted from when the requests that
\* had read it before have ended: the renewals, and the changes of the password
\* that write an old row back.  Only a credential shown later lets the user in
\* again, no token handed out earlier and no refresh.
LoggedOutLoseAccess ==
  \A u \in UserIds :
    (quiet[u] # None /\ now >= quiet[u] + AccessLife) => ~LetIn(u)

\* UsersController documents one refusal for its routes, 403 'Acesso negado': a
\* call the guard denies is answered so.
DenialIs403 ==
  (reply.route = "guarded" /\ reply.status # 200) => reply.status = 403
=============================================================================
