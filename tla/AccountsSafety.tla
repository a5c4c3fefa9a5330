---------------------------- MODULE AccountsSafety ----------------------------
(***************************************************************************)
(* The safety properties of Accounts, for every instance of its constants. *)
(***************************************************************************)
EXTENDS AccountsProofs

-----------------------------------------------------------------------------
\* Which actions can change a table.

UsersWrites(s) ==
  \/ WriteRow(s) \/ Rotate(s) \/ ClearSession(s) \/ DisableWrite(s)
  \/ UpdateUser(s) \/ RemoveUser(s) \/ DeleteUser(s)

LEMMA WhoWritesUsers ==
  ASSUME [Next]_vars
  PROVE  UNCHANGED users \/ \E s \in Slots : UsersWrites(s)
<1>1. ASSUME NEW s \in Slots, Call(s)
      PROVE  UNCHANGED users \/ UsersWrites(s)
  BY <1>1
     DEF Call, UsersWrites, SignIn, FastLogin, SignInWithCode, Refresh, RefreshBiometric, ForgotPassword,
         ChangePassword, UpdatePassword, ResendInvite, GetInvite, DisableUser,
         ResetCreate, ResetUpdate, ResetRemove, tables
<1>2. ASSUME NEW s \in Slots, Step(s)
      PROVE  UNCHANGED users \/ UsersWrites(s)
  BY <1>2
     DEF Step, UsersWrites, Login, SpendCode, FindUser, Purge, Insert, SendMail, ListLinks,
         DropLinks, DisableFind, WriteLog, tables
<1>3. QED BY <1>1, <1>2 DEF Next, Fault, Expire, Crash, vars, tables

LinksWrites(s) ==
  \/ Insert(s) \/ Purge(s) \/ DropLinks(s)
  \/ ResetCreate(s) \/ ResetUpdate(s) \/ ResetRemove(s)

LEMMA WhoWritesLinks ==
  ASSUME [Next]_vars
  PROVE  UNCHANGED resets \/ Expire \/ \E s \in Slots : LinksWrites(s)
<1>1. ASSUME NEW s \in Slots, Call(s)
      PROVE  UNCHANGED resets \/ LinksWrites(s)
  BY <1>1
     DEF Call, LinksWrites, SignIn, FastLogin, SignInWithCode, Refresh, RefreshBiometric, ForgotPassword,
         ChangePassword, UpdatePassword, ResendInvite, GetInvite, UpdateUser, DisableUser,
         RemoveUser, DeleteUser, tables
<1>2. ASSUME NEW s \in Slots, Step(s)
      PROVE  UNCHANGED resets \/ LinksWrites(s)
  BY <1>2
     DEF Step, LinksWrites, Login, SpendCode, Rotate, FindUser, WriteRow, ClearSession, SendMail,
         ListLinks, DisableFind, DisableWrite, WriteLog, tables
<1>3. QED BY <1>1, <1>2 DEF Next, Fault, Expire, Crash, vars, tables

-----------------------------------------------------------------------------
\* What the actions on users leave of a row.

LEMMA RowsKept ==
  ASSUME Typed, NEW s \in Slots, UsersWrites(s), ~DeleteUser(s)
  PROVE  DOMAIN users' = DOMAIN users
BY DEF UsersWrites, WriteRow, Rotate, ClearSession, DisableWrite, UpdateUser, RemoveUser

\* A deletion takes one user whom nothing refers to.
LEMMA Deletes ==
  ASSUME NEW s \in Slots, DeleteUser(s)
  PROVE  \/ UNCHANGED users
         \/ \E u \in UserIds : /\ ~Referenced(u)
                               /\ users' = [v \in DOMAIN users \ {u} |-> users[v]]
BY DEF DeleteUser

-----------------------------------------------------------------------------
\* Every link belongs to a user who was stored before the step, by a row that
\* was there already or by one the step inserts.
LEMMA LinkOwners ==
  ASSUME Typed, [Next]_vars, NEW t \in DOMAIN resets'
  PROVE  \/ t \in DOMAIN resets /\ resets'[t].user = resets[t].user
         \/ resets'[t].user \in DOMAIN users
<1>1. CASE UNCHANGED resets
  BY <1>1
<1>2. CASE Expire
  BY <1>2, ResetTableIs DEF Expire, Typed, TypeOK, ResetRow
<1>3. CASE \E s \in Slots : LinksWrites(s)
  <2>1. PICK s \in Slots : LinksWrites(s)
    BY <1>3
  <2>2. CASE Insert(s)
    BY <2>2 DEF Insert, InsertLink, Stored
  <2>3. CASE Purge(s) \/ DropLinks(s)
    BY <2>3 DEF Purge, DropLinks, WithoutLinksOf
  <2>4. CASE ResetCreate(s)
    BY <2>4 DEF ResetCreate, Stored
  <2>5. CASE ResetUpdate(s)
    BY <2>5 DEF ResetUpdate
  <2>6. CASE ResetRemove(s)
    BY <2>6 DEF ResetRemove
  <2>7. QED BY <2>1, <2>2, <2>3, <2>4, <2>5, <2>6 DEF LinksWrites
<1>4. QED BY <1>1, <1>2, <1>3, WhoWritesLinks

\* No action writes links and deletes a user, nor logs and deletes a user.
LEMMA DeletionIsAlone ==
  ASSUME NEW s \in Slots, DeleteUser(s)
  PROVE  UNCHANGED <<resets, audit>>
BY DEF DeleteUser

LEMMA AuditGrows ==
  ASSUME [Next]_vars
  PROVE  audit' = audit \/ \E u \in DOMAIN users : audit' = audit \union {u}
<1>1. ASSUME NEW s \in Slots, Call(s)
      PROVE  UNCHANGED audit
  BY <1>1
     DEF Call, SignIn, FastLogin, SignInWithCode, Refresh, RefreshBiometric, ForgotPassword,
         ChangePassword, UpdatePassword, ResendInvite, GetInvite, UpdateUser, DisableUser,
         RemoveUser, DeleteUser, ResetCreate, ResetUpdate, ResetRemove, tables
<1>2. ASSUME NEW s \in Slots, Step(s), ~WriteLog(s)
      PROVE  UNCHANGED audit
  BY <1>2
     DEF Step, Login, SpendCode, Rotate, FindUser, WriteRow, Purge, Insert, ClearSession, SendMail,
         ListLinks, DropLinks, DisableFind, DisableWrite, tables
<1>3. ASSUME NEW s \in Slots, WriteLog(s)
      PROVE  audit' = audit \/ \E u \in DOMAIN users : audit' = audit \union {u}
  BY <1>3 DEF WriteLog
<1>4. QED BY <1>1, <1>2, <1>3 DEF Next, Fault, Expire, Crash, vars, tables

LEMMA ReferencesKept ==
  ASSUME Typed, ReferencesHold, [Next]_vars
  PROVE  ReferencesHold'
<1>1. CASE \E s \in Slots : DeleteUser(s)
  <2>1. PICK s \in Slots : DeleteUser(s)
    BY <1>1
  <2>2. UNCHANGED <<resets, audit>>
    BY <2>1, DeletionIsAlone
  <2>3. CASE UNCHANGED users
    BY <2>2, <2>3 DEF ReferencesHold
  <2>4. ASSUME NEW u \in UserIds, ~Referenced(u),
               users' = [v \in DOMAIN users \ {u} |-> users[v]]
        PROVE  ReferencesHold'
    BY <2>2, <2>4 DEF ReferencesHold, Referenced
  <2>5. QED BY <2>1, <2>3, <2>4, Deletes
<1>2. CASE ~ \E s \in Slots : DeleteUser(s)
  <2>1. DOMAIN users' = DOMAIN users
    BY <1>2, WhoWritesUsers, RowsKept
  <2>2. QED BY <2>1, LinkOwners, AuditGrows DEF ReferencesHold
<1>3. QED BY <1>1, <1>2

\* No link and no log ever refers to a user who is not stored, for any number
\* of requests and with every route in use: the foreign keys hold although a
\* handler reads the user in one statement and inserts in a later one.
THEOREM AlwaysReferences == Spec => []ReferencesHold
<1>1. Init => ReferencesHold
  BY DEF Init, ReferencesHold
<1>2. Typed /\ ReferencesHold /\ [Next]_vars => ReferencesHold'
  BY ReferencesKept
<1>3. QED BY <1>1, <1>2, AlwaysTyped, PTL DEF Spec

-----------------------------------------------------------------------------
\* What an action does to the request it serves.

Acts(s) == Call(s) \/ Step(s) \/ Fault(s)

\* The request ends; the other disjuncts name the statement it comes to.
Ends(s) == \E out \in Outcomes : req'[s] = [Blank EXCEPT !.out = out]

MovesOn(s, pc) == req'[s] = [req[s] EXCEPT !.pc = pc]

StartsLogin(s) ==
  /\ SignIn(s)
  /\ req'[s].op = "signIn" /\ req'[s].pc = "login"

StartsRotation(s) ==
  \E u \in DOMAIN users :
    /\ req'[s].pc = "rotate" /\ req'[s].user = u
    /\ \/ /\ FastLogin(s) \/ Login(s) \/ SignInWithCode(s)
          /\ req'[s].op \in {"signIn", "fastLogin", "signInWithCode"}
       \/ /\ Refresh(s) \/ RefreshBiometric(s)
          /\ req'[s].op \in {"refresh", "refreshBiometric"}
          /\ users[u].rt # None /\ req'[s].actor = users[u].rt

StartsChange(s) ==
  \E t \in DOMAIN resets :
    /\ ChangePassword(s)
    /\ ~resets[t].expired
    /\ req'[s].op = "changePassword" /\ req'[s].pc = "find"
    /\ req'[s].token = t /\ req'[s].user = resets[t].user

ReadsRow(s) ==
  /\ FindUser(s)
  /\ req[s].user \in DOMAIN users
  /\ req'[s].op = req[s].op /\ req'[s].pc = "write"
  /\ req'[s].user = req[s].user /\ req'[s].token = req[s].token
  /\ req'[s].row = ActivatedRow(req[s].user, req[s].pw)

StartsUpdate(s) ==
  \E u \in DOMAIN users, p \in Passwords :
    /\ UpdatePassword(s)
    /\ req'[s].op = "updatePassword" /\ req'[s].pc = "write"
    /\ req'[s].user = u /\ req'[s].pw = users[u].pw
    /\ req'[s].row = [users[u] EXCEPT !.pw = p]

WroteRow(s) ==
  /\ WriteRow(s)
  /\ req[s].user \in DOMAIN users
  /\ users' = [users EXCEPT ![req[s].user] = req[s].row]
  /\ req'[s].op = req[s].op /\ req'[s].pc = "rotate"
  /\ req'[s].user = req[s].user /\ req'[s].token = req[s].token

Draws(s) ==
  \E t \in Tokens :
    /\ fate[t] = "fresh" /\ fate' = [fate EXCEPT ![t] = "drawn"]
    /\ req'[s].token = t
    /\ \/ /\ ForgotPassword(s) \/ ResendInvite(s)
          /\ req'[s].op \in {"forgotPassword", "resendInvite"}
          /\ req'[s].pc = "insert"
       \/ /\ ListLinks(s)
          /\ req'[s].op = "getInvite" /\ req'[s].pc = "renew"

StartsList(s) ==
  /\ GetInvite(s)
  /\ req'[s].op = "getInvite" /\ req'[s].pc = "list"

StartsDisable(s) ==
  /\ DisableUser(s)
  /\ req'[s].op = "disable" /\ req'[s].pc = "disableFind"

Continues(s) ==
  \/ Rotate(s) /\ req[s].op = "changePassword" /\ MovesOn(s, "purge")
  \/ Rotate(s) /\ req[s].op = "signInWithCode" /\ MovesOn(s, "spend")
  \/ /\ Insert(s) /\ req[s].op = "forgotPassword" /\ MovesOn(s, "clear")
     /\ fate'[req[s].token] \notin {"fresh", "drawn"}
  \/ /\ Insert(s) /\ req[s].op = "resendInvite" /\ MovesOn(s, "mail")
     /\ fate'[req[s].token] = "stored"
  \/ DropLinks(s) /\ MovesOn(s, "insert")
  \/ ClearSession(s) /\ MovesOn(s, "mail")
  \/ DisableFind(s) /\ MovesOn(s, "disableWrite")
  \/ DisableWrite(s) /\ MovesOn(s, "log")

Moves(s) ==
  \/ Ends(s) \/ StartsLogin(s) \/ StartsRotation(s) \/ StartsChange(s)
  \/ ReadsRow(s) \/ StartsUpdate(s) \/ WroteRow(s) \/ Draws(s)
  \/ StartsList(s) \/ StartsDisable(s) \/ Continues(s)

\* A slot that is written keeps only what is written to it.
LEMMA SlotWritten ==
  ASSUME Typed, NEW s \in Slots
  PROVE  /\ \A r : req' = [req EXCEPT ![s] = r] =>
              /\ req'[s] = r
              /\ \A z \in Slots \ {s} : req'[z] = req[z]
         /\ \A out \in Outcomes : Answer(s, out) =>
              /\ Ends(s)
              /\ \A z \in Slots \ {s} : req'[z] = req[z]
         /\ \A pc : Continue(s, pc) =>
              /\ MovesOn(s, pc)
              /\ \A z \in Slots \ {s} : req'[z] = req[z]
BY DEF Typed, TypeOK, Answer, Continue, Ends, MovesOn

\* An action of one request leaves the others where they are.
Alone(s) == \A z \in Slots \ {s} : req'[z] = req[z]

LEMMA LoginMoves ==
  ASSUME Typed, NEW s \in Slots,
         SignIn(s) \/ FastLogin(s) \/ Login(s) \/ Refresh(s) \/ RefreshBiometric(s)
  PROVE  Moves(s) /\ Alone(s)
<1>1. CASE SignIn(s)
  <2>1. PICK e \in Emails, p \in Passwords :
          \/ Answer(s, "refused")
          \/ req' = [req EXCEPT ![s] = [Blank EXCEPT
               !.op = "signIn", !.pc = "login", !.email = e, !.pw = p]]
    BY <1>1 DEF SignIn
  <2>2. CASE Answer(s, "refused")
    BY <2>2, SlotWritten DEF Moves, Alone, Outcomes
  <2>3. CASE req' = [req EXCEPT ![s] = [Blank EXCEPT
               !.op = "signIn", !.pc = "login", !.email = e, !.pw = p]]
    <3>1. /\ req'[s] = [Blank EXCEPT !.op = "signIn", !.pc = "login", !.email = e, !.pw = p]
          /\ Alone(s)
      BY <2>3, SlotWritten DEF Alone
    <3>2. StartsLogin(s)
      BY <1>1, <3>1 DEF StartsLogin, Blank
    <3>3. QED BY <3>1, <3>2 DEF Moves
  <2>4. QED BY <2>1, <2>2, <2>3
<1>2. ASSUME NEW op, NEW e, NEW p, LoginWith(s, op, e, p)
      PROVE  /\ Alone(s)
             /\ \/ Ends(s)
                \/ \E u \in DOMAIN users :
                     req'[s].op = op /\ req'[s].pc = "rotate" /\ req'[s].user = u
  <2>1. CASE Answer(s, "refused")
    BY <2>1, SlotWritten DEF Alone, Outcomes
  <2>2. ASSUME NEW u \in Validated(e, p),
               req' = [req EXCEPT ![s] = [Blank EXCEPT
                         !.op = op, !.pc = "rotate", !.user = u, !.actor = u]]
        PROVE  /\ Alone(s)
               /\ u \in DOMAIN users
               /\ req'[s].op = op /\ req'[s].pc = "rotate" /\ req'[s].user = u
    <3>1. /\ req'[s] = [Blank EXCEPT !.op = op, !.pc = "rotate", !.user = u, !.actor = u]
          /\ Alone(s)
      BY <2>2, SlotWritten DEF Alone
    <3>2. QED BY <3>1 DEF Blank, Validated, UsersWith
  <2>3. QED BY <1>2, <2>1, <2>2 DEF LoginWith
<1>3. CASE FastLogin(s)
  BY <1>2, <1>3 DEF FastLogin, Moves, StartsRotation
<1>4. CASE Login(s)
  BY <1>2, <1>4 DEF Login, Moves, StartsRotation
<1>5. ASSUME NEW op, NEW found, found \subseteq DOMAIN users, NEW v,
             CheckRefresh(s, op, found, [sub |-> v])
      PROVE  /\ Alone(s)
             /\ \/ Ends(s)
                \/ \E u \in DOMAIN users :
                     /\ req'[s].op = op /\ req'[s].pc = "rotate" /\ req'[s].user = u
                     /\ users[u].rt # None /\ req'[s].actor = users[u].rt
  <2>1. ASSUME NEW out \in Outcomes, Answer(s, out)
        PROVE  Ends(s) /\ Alone(s)
    BY <2>1, SlotWritten DEF Alone
  <2>2. ASSUME NEW u \in found, Compare([sub |-> v], users[u].rt),
               req' = [req EXCEPT ![s] = [Blank EXCEPT
                         !.op = op, !.pc = "rotate", !.user = u, !.actor = v]]
        PROVE  /\ Alone(s)
               /\ req'[s].op = op /\ req'[s].pc = "rotate" /\ req'[s].user = u
               /\ users[u].rt # None /\ req'[s].actor = users[u].rt
    <3>1. /\ req'[s] = [Blank EXCEPT !.op = op, !.pc = "rotate", !.user = u, !.actor = v]
          /\ Alone(s)
      BY <2>2, SlotWritten DEF Alone
    <3>2. users[u].rt # None /\ users[u].rt = v
      BY <2>2 DEF Compare, HashData
    <3>3. /\ req'[s].op = op /\ req'[s].pc = "rotate" /\ req'[s].user = u
          /\ req'[s].actor = v
      BY <3>1 DEF Blank
    <3>4. QED BY <3>1, <3>2, <3>3
  <2>3. CASE Answer(s, "refused")
    BY <2>1, <2>3 DEF Outcomes
  <2>4. CASE \E u \in found :
               IF Compare([sub |-> v], users[u].rt)
               THEN req' = [req EXCEPT ![s] = [Blank EXCEPT
                      !.op = op, !.pc = "rotate", !.user = u, !.actor = v]]
               ELSE Answer(s, IF users[u].rt = None THEN "failed" ELSE "refused")
    <3>1. PICK u \in found :
            \/ /\ Compare([sub |-> v], users[u].rt)
               /\ req' = [req EXCEPT ![s] = [Blank EXCEPT
                            !.op = op, !.pc = "rotate", !.user = u, !.actor = v]]
            \/ Answer(s, "failed")
            \/ Answer(s, "refused")
      BY <2>4
    <3>2. QED BY <1>5, <2>1, <2>2, <3>1 DEF Outcomes
  <2>5. QED BY <1>5, <2>3, <2>4 DEF CheckRefresh
<1>6. CASE Refresh(s)
  BY <1>5, <1>6 DEF Refresh, Moves, StartsRotation
<1>7. CASE RefreshBiometric(s)
  BY <1>5, <1>7 DEF RefreshBiometric, UsersWith, Moves, StartsRotation
<1>8. QED BY <1>1, <1>3, <1>4, <1>6, <1>7

LEMMA CodeMoves ==
  ASSUME Typed, NEW s \in Slots, SignInWithCode(s) \/ SpendCode(s)
  PROVE  Moves(s) /\ Alone(s)
<1>1. ASSUME NEW u \in DOMAIN users, SignInWithCode(s),
             req' = [req EXCEPT ![s] = [Blank EXCEPT
               !.op = "signInWithCode", !.pc = "rotate", !.user = u, !.actor = u]]
      PROVE  Moves(s) /\ Alone(s)
  <2>1. /\ req'[s] = [Blank EXCEPT !.op = "signInWithCode", !.pc = "rotate",
                                   !.user = u, !.actor = u]
        /\ Alone(s)
    BY <1>1, SlotWritten DEF Alone
  <2>2. /\ req'[s].op = "signInWithCode" /\ req'[s].pc = "rotate"
        /\ req'[s].user = u
    BY <2>1 DEF Blank
  <2>3. StartsRotation(s)
    BY <1>1, <2>2 DEF StartsRotation
  <2>4. QED BY <2>1, <2>3 DEF Moves
<1>2. ASSUME NEW out \in Outcomes, Answer(s, out)
      PROVE  Moves(s) /\ Alone(s)
  BY <1>2, SlotWritten DEF Moves, Alone
<1>3. QED BY <1>1, <1>2 DEF SignInWithCode, SpendCode, Outcomes

LEMMA PasswordMoves ==
  ASSUME Typed, NEW s \in Slots,
         ChangePassword(s) \/ FindUser(s) \/ UpdatePassword(s) \/ WriteRow(s)
  PROVE  Moves(s) /\ Alone(s)
<1>1. ASSUME NEW out \in Outcomes, Answer(s, out)
      PROVE  Moves(s) /\ Alone(s)
  BY <1>1, SlotWritten DEF Moves, Alone
<1>2. CASE ChangePassword(s)
  <2>1. PICK t \in Tokens, p \in Passwords :
          \/ \E out \in Outcomes : Answer(s, out)
          \/ /\ t \in DOMAIN resets /\ ~resets[t].expired
             /\ req' = [req EXCEPT ![s] = [Blank EXCEPT
                  !.op = "changePassword", !.pc = "find", !.token = t,
                  !.user = resets[t].user, !.pw = p]]
    BY <1>2 DEF ChangePassword, LinkExpired, Outcomes
  <2>2. ASSUME t \in DOMAIN resets, ~resets[t].expired,
               req' = [req EXCEPT ![s] = [Blank EXCEPT
                  !.op = "changePassword", !.pc = "find", !.token = t,
                  !.user = resets[t].user, !.pw = p]]
        PROVE  Moves(s) /\ Alone(s)
    <3>1. /\ req'[s] = [Blank EXCEPT !.op = "changePassword", !.pc = "find", !.token = t,
                                     !.user = resets[t].user, !.pw = p]
          /\ Alone(s)
      BY <2>2, SlotWritten DEF Alone
    <3>2. /\ req'[s].op = "changePassword" /\ req'[s].pc = "find"
          /\ req'[s].token = t /\ req'[s].user = resets[t].user
      BY <3>1 DEF Blank
    <3>3. StartsChange(s)
      BY <1>2, <2>2, <3>2 DEF StartsChange
    <3>4. QED BY <3>1, <3>3 DEF Moves
  <2>3. QED BY <1>1, <2>1, <2>2
<1>3. CASE FindUser(s)
  <2>1. CASE req[s].user \in DOMAIN users
    <3> DEFINE w == ActivatedRow(req[s].user, req[s].pw)
    <3>1. req' = [req EXCEPT ![s] = [req[s] EXCEPT !.pc = "write", !.pw = None, !.row = w]]
      BY <1>3, <2>1 DEF FindUser, Typed, TypeOK
    <3>2. req'[s] = [req[s] EXCEPT !.pc = "write", !.pw = None, !.row = w] /\ Alone(s)
      BY <3>1, SlotWritten DEF Alone
    <3>3. req[s] \in Requests
      BY DEF Typed, TypeOK
    <3> HIDE DEF w
    <3>4. /\ req'[s].op = req[s].op /\ req'[s].pc = "write"
          /\ req'[s].user = req[s].user /\ req'[s].token = req[s].token
          /\ req'[s].row = w
      BY <3>2, <3>3 DEF Requests
    <3>5. ReadsRow(s)
      BY <1>3, <2>1, <3>4 DEF ReadsRow, w
    <3>6. QED BY <3>2, <3>5 DEF Moves
  <2>2. CASE req[s].user \notin DOMAIN users
    BY <1>1, <1>3, <2>2 DEF FindUser, Outcomes
  <2>3. QED BY <2>1, <2>2
<1>4. CASE UpdatePassword(s)
  <2>1. PICK e \in Emails, old \in Passwords, p \in Passwords :
          \/ Answer(s, "refused")
          \/ \E u \in Validated(e, old) :
               req' = [req EXCEPT ![s] = [Blank EXCEPT
                 !.op = "updatePassword", !.pc = "write", !.user = u,
                 !.pw = old, !.row = [users[u] EXCEPT !.pw = p]]]
    BY <1>4 DEF UpdatePassword
  <2>2. ASSUME NEW u \in Validated(e, old),
               req' = [req EXCEPT ![s] = [Blank EXCEPT
                 !.op = "updatePassword", !.pc = "write", !.user = u,
                 !.pw = old, !.row = [users[u] EXCEPT !.pw = p]]]
        PROVE  Moves(s) /\ Alone(s)
    <3> DEFINE w == [users[u] EXCEPT !.pw = p]
    <3>1. /\ req'[s] = [Blank EXCEPT !.op = "updatePassword", !.pc = "write", !.user = u,
                                     !.pw = old, !.row = w]
          /\ Alone(s)
      BY <2>2, SlotWritten DEF Alone
    <3> HIDE DEF w
    <3>2. /\ req'[s].op = "updatePassword" /\ req'[s].pc = "write"
          /\ req'[s].user = u /\ req'[s].pw = old /\ req'[s].row = w
      BY <3>1 DEF Blank
    <3>3. u \in DOMAIN users /\ users[u].pw = old
      BY DEF Validated, UsersWith
    <3>4. StartsUpdate(s)
      BY <1>4, <3>2, <3>3 DEF StartsUpdate, w
    <3>5. QED BY <3>1, <3>4 DEF Moves
  <2>3. QED BY <1>1, <2>1, <2>2 DEF Outcomes
<1>5. CASE WriteRow(s)
  <2> DEFINE u == req[s].user
  <2>1. CASE u \in DOMAIN users /\ ~EmailTaken(u, req[s].row.email)
    <3>1. req' = [req EXCEPT ![s] = [req[s] EXCEPT !.pc = "rotate", !.row = None,
                                                   !.pw = None, !.actor = u]]
      BY <1>5, <2>1 DEF WriteRow, Typed, TypeOK
    <3>2. /\ req'[s] = [req[s] EXCEPT !.pc = "rotate", !.row = None, !.pw = None, !.actor = u]
          /\ Alone(s)
      BY <3>1, SlotWritten DEF Alone
    <3>3. req[s] \in Requests
      BY DEF Typed, TypeOK
    <3>4. /\ req'[s].op = req[s].op /\ req'[s].pc = "rotate"
          /\ req'[s].user = req[s].user /\ req'[s].token = req[s].token
      BY <3>2, <3>3 DEF Requests
    <3>5. WroteRow(s)
      BY <1>5, <2>1, <3>4 DEF WriteRow, WroteRow
    <3>6. QED BY <3>2, <3>5 DEF Moves
  <2>2. CASE ~(u \in DOMAIN users /\ ~EmailTaken(u, req[s].row.email))
    BY <1>1, <1>5, <2>2 DEF WriteRow, Outcomes
  <2>3. QED BY <2>1, <2>2
<1>6. QED BY <1>2, <1>3, <1>4, <1>5

LEMMA IssueMoves ==
  ASSUME Typed, NEW s \in Slots,
         ForgotPassword(s) \/ ResendInvite(s) \/ GetInvite(s) \/ ListLinks(s)
  PROVE  Moves(s) /\ Alone(s)
<1>1. ASSUME NEW out \in Outcomes, Answer(s, out)
      PROVE  Moves(s) /\ Alone(s)
  BY <1>1, SlotWritten DEF Moves, Alone
<1>2. ASSUME NEW op, NEW pc, NEW u, NEW t \in Tokens, Drawn(s, op, pc, u, t)
      PROVE  /\ Alone(s)
             /\ fate[t] = "fresh" /\ fate' = [fate EXCEPT ![t] = "drawn"]
             /\ req'[s].op = op /\ req'[s].pc = pc /\ req'[s].token = t
  <2>1. /\ req'[s] = [Blank EXCEPT !.op = op, !.pc = pc, !.user = u, !.token = t]
        /\ Alone(s)
    BY <1>2, SlotWritten DEF Drawn, Alone
  <2>2. req'[s].op = op /\ req'[s].pc = pc /\ req'[s].token = t
    BY <2>1 DEF Blank
  <2>3. QED BY <1>2, <2>1, <2>2 DEF Drawn
<1>3. CASE ForgotPassword(s)
  <2>1. \/ Answer(s, "failed")
        \/ \E u, t : t \in Tokens /\ Drawn(s, "forgotPassword", "insert", u, t)
    BY <1>3 DEF ForgotPassword
  <2>2. ASSUME NEW u, NEW t \in Tokens, Drawn(s, "forgotPassword", "insert", u, t)
        PROVE  Moves(s) /\ Alone(s)
    BY <1>2, <1>3, <2>2 DEF Draws, Moves
  <2>3. QED BY <1>1, <2>1, <2>2 DEF Outcomes
<1>4. CASE ResendInvite(s)
  <2>1. \/ Answer(s, "refused")
        \/ \E u, t : t \in Tokens /\ Drawn(s, "resendInvite", "insert", u, t)
    BY <1>4 DEF ResendInvite
  <2>2. ASSUME NEW u, NEW t \in Tokens, Drawn(s, "resendInvite", "insert", u, t)
        PROVE  Moves(s) /\ Alone(s)
    BY <1>2, <1>4, <2>2 DEF Draws, Moves
  <2>3. QED BY <1>1, <2>1, <2>2 DEF Outcomes
<1>5. CASE GetInvite(s)
  <2>1. PICK u \in UserIds :
          \/ Answer(s, "refused")
          \/ req' = [req EXCEPT ![s] = [Blank EXCEPT
               !.op = "getInvite", !.pc = "list", !.user = u]]
    BY <1>5 DEF GetInvite
  <2>2. ASSUME req' = [req EXCEPT ![s] = [Blank EXCEPT
                         !.op = "getInvite", !.pc = "list", !.user = u]]
        PROVE  Moves(s) /\ Alone(s)
    <3>1. /\ req'[s] = [Blank EXCEPT !.op = "getInvite", !.pc = "list", !.user = u]
          /\ Alone(s)
      BY <2>2, SlotWritten DEF Alone
    <3>2. req'[s].op = "getInvite" /\ req'[s].pc = "list"
      BY <3>1 DEF Blank
    <3>3. QED BY <1>5, <3>1, <3>2 DEF StartsList, Moves
  <2>3. QED BY <1>1, <2>1, <2>2 DEF Outcomes
<1>6. CASE ListLinks(s)
  <2>1. \/ \E out \in Outcomes : Answer(s, out)
        \/ \E u, t : t \in Tokens /\ Drawn(s, "getInvite", "renew", u, t)
    BY <1>6 DEF ListLinks, AnswerNoLinks, Outcomes
  <2>2. ASSUME NEW u, NEW t \in Tokens, Drawn(s, "getInvite", "renew", u, t)
        PROVE  Moves(s) /\ Alone(s)
    BY <1>2, <1>6, <2>2 DEF Draws, Moves
  <2>3. QED BY <1>1, <2>1, <2>2
<1>7. QED BY <1>3, <1>4, <1>5, <1>6

LEMMA OtherMoves ==
  ASSUME Typed, NEW s \in Slots,
         \/ Rotate(s) \/ Purge(s) \/ Insert(s) \/ ClearSession(s) \/ SendMail(s)
         \/ DropLinks(s) \/ DisableUser(s) \/ DisableFind(s) \/ DisableWrite(s)
         \/ WriteLog(s) \/ Fault(s)
         \/ UpdateUser(s) \/ RemoveUser(s) \/ DeleteUser(s)
         \/ ResetCreate(s) \/ ResetUpdate(s) \/ ResetRemove(s)
  PROVE  Moves(s) /\ Alone(s)
<1>1. ASSUME NEW out \in Outcomes, Answer(s, out)
      PROVE  Moves(s) /\ Alone(s)
  BY <1>1, SlotWritten DEF Moves, Alone
<1>2. ASSUME NEW pc, Continue(s, pc)
      PROVE  MovesOn(s, pc) /\ Alone(s)
  BY <1>2, SlotWritten DEF Alone
<1>3. CASE Purge(s) \/ SendMail(s) \/ WriteLog(s) \/ Fault(s)
  BY <1>1, <1>3 DEF Purge, SendMail, WriteLog, Fault, Outcomes
<1>4. CASE UpdateUser(s) \/ RemoveUser(s) \/ DeleteUser(s)
  BY <1>1, <1>4 DEF UpdateUser, RemoveUser, DeleteUser, Outcomes
<1>5. CASE ResetCreate(s) \/ ResetUpdate(s) \/ ResetRemove(s)
  <2>1. \E out \in Outcomes : Answer(s, out)
    BY <1>5 DEF ResetCreate, ResetUpdate, ResetRemove, Outcomes
  <2>2. QED BY <1>1, <2>1
<1>6. CASE Rotate(s)
  BY <1>1, <1>2, <1>6 DEF Rotate, Continues, Moves, Outcomes
<1>7. CASE Insert(s)
  <2>1. PICK created \in BOOLEAN :
          /\ InsertLink(s, created)
          /\ CASE req[s].op = "forgotPassword" -> Continue(s, "clear")
               [] req[s].op = "resendInvite" /\ created -> Continue(s, "mail")
               [] OTHER -> Answer(s, "ok")
    BY <1>7 DEF Insert
  <2>2. CASE req[s].op = "forgotPassword"
    <3>1. req[s].token \in Tokens
      BY <1>7, RequestTyped DEF Insert, At, Typed, Shaped, HasToken
    <3>2. fate'[req[s].token] \notin {"fresh", "drawn"}
      BY <2>1, <3>1 DEF InsertLink, Lose, Typed, TypeOK
    <3>3. QED BY <1>2, <1>7, <2>1, <2>2, <3>2 DEF Continues, Moves
  <2>3. CASE req[s].op = "resendInvite" /\ created
    <3>1. fate' = [fate EXCEPT ![req[s].token] = "stored"]
      BY <2>1, <2>3 DEF InsertLink
    <3>2. req[s].token \in Tokens
      BY <1>7, RequestTyped DEF Insert, At, Typed, Shaped, HasToken
    <3>3. fate'[req[s].token] = "stored"
      BY <3>1, <3>2 DEF Typed, TypeOK
    <3>4. QED BY <1>2, <1>7, <2>1, <2>3, <3>3 DEF Continues, Moves
  <2>4. CASE req[s].op # "forgotPassword" /\ ~(req[s].op = "resendInvite" /\ created)
    BY <1>1, <2>1, <2>4 DEF Outcomes
  <2>5. QED BY <2>2, <2>3, <2>4
<1>8. CASE ClearSession(s) \/ DropLinks(s)
  BY <1>1, <1>2, <1>8 DEF ClearSession, DropLinks, Continues, Moves, Outcomes
<1>9. CASE DisableFind(s) \/ DisableWrite(s)
  BY <1>1, <1>2, <1>9 DEF DisableFind, DisableWrite, Continues, Moves, Outcomes
<1>10. CASE DisableUser(s)
  <2>1. PICK u \in UserIds, admin \in UserIds :
          \/ Answer(s, "refused")
          \/ req' = [req EXCEPT ![s] = [Blank EXCEPT
               !.op = "disable", !.pc = "disableFind", !.user = u, !.actor = admin]]
    BY <1>10 DEF DisableUser
  <2>2. ASSUME req' = [req EXCEPT ![s] = [Blank EXCEPT
               !.op = "disable", !.pc = "disableFind", !.user = u, !.actor = admin]]
        PROVE  Moves(s) /\ Alone(s)
    <3>1. /\ req'[s] = [Blank EXCEPT !.op = "disable", !.pc = "disableFind", !.user = u,
                                     !.actor = admin]
          /\ Alone(s)
      BY <2>2, SlotWritten DEF Alone
    <3>2. req'[s].op = "disable" /\ req'[s].pc = "disableFind"
      BY <3>1 DEF Blank
    <3>3. QED BY <1>10, <3>1, <3>2 DEF StartsDisable, Moves
  <2>3. QED BY <1>1, <2>1, <2>2 DEF Outcomes
<1>11. QED BY <1>3, <1>4, <1>5, <1>6, <1>7, <1>8, <1>9, <1>10

LEMMA EveryMove ==
  ASSUME Typed, NEW s \in Slots, Acts(s)
  PROVE  Moves(s) /\ Alone(s)
BY LoginMoves, CodeMoves, PasswordMoves, IssueMoves, OtherMoves DEF Acts, Call, Step

\* What a step does to a given slot.
LEMMA SlotSteps ==
  ASSUME Typed, [Next]_vars, NEW z \in Slots
  PROVE  req'[z] = req[z] \/ req'[z] = Blank \/ (Acts(z) /\ Moves(z))
<1>1. ASSUME NEW s \in Slots, Acts(s)
      PROVE  req'[z] = req[z] \/ (Acts(z) /\ Moves(z))
  BY <1>1, EveryMove DEF Alone
<1>2. CASE Crash
  BY <1>2 DEF Crash
<1>3. QED BY <1>1, <1>2 DEF Next, Acts, Expire, vars

\* Which moves lead to the statement write, and with which row.
LEMMA ComesToWrite ==
  ASSUME Typed, NEW z \in Slots, Moves(z), req'[z].pc = "write"
  PROVE  ReadsRow(z) \/ StartsUpdate(z)
<1>1. req[z] \in Requests
  BY DEF Typed, TypeOK
<1>2. ~Ends(z)
  BY DEF Ends, Blank
<1>3. ASSUME NEW pc, MovesOn(z, pc)
      PROVE  req'[z].pc = pc
  BY <1>1, <1>3 DEF MovesOn, Requests
<1>4. ~Continues(z)
  BY <1>3 DEF Continues
<1>5. ~StartsLogin(z) /\ ~StartsRotation(z) /\ ~StartsChange(z) /\ ~WroteRow(z)
  BY DEF StartsLogin, StartsRotation, StartsChange, WroteRow
<1>6. ~Draws(z) /\ ~StartsList(z) /\ ~StartsDisable(z)
  BY DEF Draws, StartsList, StartsDisable
<1>7. QED BY <1>2, <1>4, <1>5, <1>6 DEF Moves

\* Which moves lead to the statement find.
LEMMA ComesToFind ==
  ASSUME Typed, NEW z \in Slots, Moves(z), req'[z].pc = "find"
  PROVE  StartsChange(z)
<1>1. req[z] \in Requests
  BY DEF Typed, TypeOK
<1>2. ~Ends(z)
  BY DEF Ends, Blank
<1>3. ASSUME NEW pc, MovesOn(z, pc)
      PROVE  req'[z].pc = pc
  BY <1>1, <1>3 DEF MovesOn, Requests
<1>4. ~Continues(z)
  BY <1>3 DEF Continues
<1>5. ~StartsLogin(z) /\ ~StartsRotation(z) /\ ~ReadsRow(z) /\ ~StartsUpdate(z)
     /\ ~WroteRow(z)
  BY DEF StartsLogin, StartsRotation, ReadsRow, StartsUpdate, WroteRow
<1>6. ~Draws(z) /\ ~StartsList(z) /\ ~StartsDisable(z)
  BY DEF Draws, StartsList, StartsDisable
<1>7. QED BY <1>2, <1>4, <1>5, <1>6 DEF Moves

\* Which moves lead to the statement rotate.
LEMMA ComesToRotate ==
  ASSUME Typed, NEW z \in Slots, Moves(z), req'[z].pc = "rotate"
  PROVE  StartsRotation(z) \/ WroteRow(z)
<1>1. req[z] \in Requests
  BY DEF Typed, TypeOK
<1>2. ~Ends(z)
  BY DEF Ends, Blank
<1>3. ASSUME NEW pc, MovesOn(z, pc)
      PROVE  req'[z].pc = pc
  BY <1>1, <1>3 DEF MovesOn, Requests
<1>4. ~Continues(z)
  BY <1>3 DEF Continues
<1>5. ~StartsLogin(z) /\ ~StartsChange(z) /\ ~ReadsRow(z) /\ ~StartsUpdate(z)
  BY DEF StartsLogin, StartsChange, ReadsRow, StartsUpdate
<1>6. ~Draws(z) /\ ~StartsList(z) /\ ~StartsDisable(z)
  BY DEF Draws, StartsList, StartsDisable
<1>7. QED BY <1>2, <1>4, <1>5, <1>6 DEF Moves

-----------------------------------------------------------------------------
LEMMA RetiredKept ==
  ASSUME Typed, [Next]_vars, NEW u \in UserIds, Retired(u), u \in DOMAIN users'
  PROVE  Retired(u)'
<1>1. users'[u].canceled
  <2>1. CASE UNCHANGED users
    BY <2>1 DEF Retired
  <2>2. ASSUME NEW s \in Slots, UsersWrites(s)
        PROVE  users'[u].canceled
    <3>1. CASE WriteRow(s)
      BY <3>1 DEF WriteRow, Retired
    <3>2. CASE Rotate(s) \/ ClearSession(s) \/ DisableWrite(s)
      BY <3>2, UserTableIs
         DEF Rotate, ClearSession, DisableWrite, Retired, Typed, TypeOK, UserRow
    <3>3. CASE UpdateUser(s)
      <4>1. PICK v \in UserIds, e \in Emails, st \in Status :
              \/ UNCHANGED users
              \/ users' = [users EXCEPT ![v].email = e, ![v].status = st]
        BY <3>3 DEF UpdateUser
      <4>2. \/ users'[u] = users[u]
            \/ users'[u] = [users[u] EXCEPT !.email = e, !.status = st]
        BY <4>1, UserTableIs DEF Retired, Typed, TypeOK
      <4>3. users[u] \in UserRow /\ users[u].canceled
        BY RowOfUser DEF Retired, Typed
      <4>4. QED BY <4>2, <4>3 DEF UserRow
    <3>4. CASE RemoveUser(s)
      BY <3>4, UserTableIs DEF RemoveUser, Retired, Typed, TypeOK, UserRow
    <3>5. CASE DeleteUser(s)
      BY <3>5 DEF DeleteUser, Retired
    <3>6. QED BY <2>2, <3>1, <3>2, <3>3, <3>4, <3>5 DEF UsersWrites
  <2>3. QED BY <2>1, <2>2, WhoWritesUsers
<1>2. ASSUME NEW z \in Slots, req'[z].pc = "write", req'[z].user = u
      PROVE  req'[z].row.canceled
  <2>1. CASE req'[z] = req[z]
    BY <1>2, <2>1 DEF Retired, At
  <2>2. CASE ReadsRow(z)
    <3>1. PICK p : req'[z].row = ActivatedRow(u, p)
      BY <1>2, <2>2 DEF ReadsRow
    <3>2. req'[z].row.canceled = users[u].canceled
      BY <3>1, RowOfUser DEF ActivatedRow, Retired, Typed, UserRow
    <3>3. QED BY <3>2 DEF Retired
  <2>3. CASE StartsUpdate(z)
    <3>1. PICK p \in Passwords : req'[z].row = [users[u] EXCEPT !.pw = p]
      BY <1>2, <2>3 DEF StartsUpdate
    <3>2. req'[z].row.canceled = users[u].canceled
      BY <3>1, RowOfUser DEF Retired, Typed, UserRow
    <3>3. QED BY <3>2 DEF Retired
  <2>4. req'[z] # Blank
    BY <1>2 DEF Blank
  <2>5. QED BY <1>2, <2>1, <2>2, <2>3, <2>4, SlotSteps, ComesToWrite
<1>3. QED BY <1>1, <1>2 DEF Retired, At

\* In every instance a removal is final once no row read before it is waiting
\* to be written: no interleaving of later requests brings the user back.
THEOREM AlwaysSettled == Spec => RemovalSettles
<1>1. Typed /\ [Next]_vars
        => [\A u \in UserIds : (Retired(u) /\ u \in DOMAIN users') => Retired(u)']_vars
  BY RetiredKept
<1>2. QED BY <1>1, AlwaysTyped, PTL DEF Spec, RemovalSettles

-----------------------------------------------------------------------------
(***************************************************************************)
(* Whose tokens the handlers issue, and to whom a session is opened.       *)
(***************************************************************************)
\* The column hashedRefreshToken holds a token of the user of its row, and so
\* does a row that a password write has read.  A refresh has compared the token
\* presented with that column, hence the user it found is its subject.

OwnSessions == \A u \in DOMAIN users : users[u].rt \in {None, u}

OwnRowsRead ==
  \A s \in Slots : At(s, "write") => req[s].row.rt \in {None, req[s].user}

SessionsOwned == OwnSessions /\ OwnRowsRead /\ RefreshKeepsIdentity

LEMMA RowsOwned ==
  ASSUME Typed, SessionsOwned, [Next]_vars
  PROVE  OwnSessions'
<1>1. CASE UNCHANGED users
  BY <1>1 DEF SessionsOwned, OwnSessions
<1>2. ASSUME NEW s \in Slots, UsersWrites(s)
      PROVE  OwnSessions'
  <2>1. CASE WriteRow(s)
    BY <2>1 DEF WriteRow, SessionsOwned, OwnSessions, OwnRowsRead
  <2>2. CASE Rotate(s)
    BY <2>2, UserTableIs
       DEF Rotate, HashData, RefreshJwt, SessionsOwned, OwnSessions, Typed, TypeOK, UserRow
  <2>3. CASE ClearSession(s)
    BY <2>3, UserTableIs
       DEF ClearSession, SessionsOwned, OwnSessions, Typed, TypeOK, UserRow
  <2>4. CASE DisableWrite(s)
    BY <2>4, UserTableIs
       DEF DisableWrite, SessionsOwned, OwnSessions, Typed, TypeOK, UserRow
  <2>5. CASE UpdateUser(s)
    <3>1. PICK u \in UserIds, e \in Emails, st \in Status :
            \/ UNCHANGED users
            \/ users' = [users EXCEPT ![u].email = e, ![u].status = st]
      BY <2>5 DEF UpdateUser
    <3>2. /\ DOMAIN users' = DOMAIN users
          /\ \A v \in DOMAIN users : users'[v].rt = users[v].rt
      BY <3>1, UserTableIs DEF Typed, TypeOK, UserRow
    <3>3. QED BY <3>2 DEF SessionsOwned, OwnSessions
  <2>6. CASE RemoveUser(s)
    BY <2>6, UserTableIs
       DEF RemoveUser, SessionsOwned, OwnSessions, Typed, TypeOK, UserRow
  <2>7. CASE DeleteUser(s)
    BY <2>7 DEF DeleteUser, SessionsOwned, OwnSessions
  <2>8. QED BY <1>2, <2>1, <2>2, <2>3, <2>4, <2>5, <2>6, <2>7 DEF UsersWrites
<1>3. QED BY <1>1, <1>2, WhoWritesUsers

LEMMA SlotsOwned ==
  ASSUME Typed, SessionsOwned, [Next]_vars
  PROVE  OwnRowsRead' /\ RefreshKeepsIdentity'
<1>1. ASSUME NEW z \in Slots, req'[z].pc = "write"
      PROVE  req'[z].row.rt \in {None, req'[z].user}
  <2>1. CASE req'[z] = req[z]
    BY <1>1, <2>1 DEF SessionsOwned, OwnRowsRead, At
  <2>2. CASE Moves(z)
    <3>1. CASE ReadsRow(z)
      <4>1. PICK u \in DOMAIN users :
              req'[z].user = u /\ req'[z].row = ActivatedRow(u, req[z].pw)
        BY <3>1 DEF ReadsRow
      <4>2. req'[z].row.rt = users[u].rt
        BY <4>1, RowOfUser DEF ActivatedRow, Typed, UserRow
      <4>3. QED BY <4>1, <4>2 DEF SessionsOwned, OwnSessions
    <3>2. CASE StartsUpdate(z)
      <4>1. PICK u \in DOMAIN users, p \in Passwords :
              req'[z].user = u /\ req'[z].row = [users[u] EXCEPT !.pw = p]
        BY <3>2 DEF StartsUpdate
      <4>2. req'[z].row.rt = users[u].rt
        BY <4>1, RowOfUser DEF Typed, UserRow
      <4>3. QED BY <4>1, <4>2 DEF SessionsOwned, OwnSessions
    <3>3. QED BY <1>1, <2>2, <3>1, <3>2, ComesToWrite
  <2>3. req'[z] # Blank
    BY <1>1 DEF Blank
  <2>4. QED BY <2>1, <2>2, <2>3, SlotSteps
<1>2. ASSUME NEW z \in Slots, req'[z].pc = "rotate",
             req'[z].op \in {"refresh", "refreshBiometric"}
      PROVE  req'[z].user = req'[z].actor
  <2>1. CASE req'[z] = req[z]
    BY <1>2, <2>1 DEF SessionsOwned, RefreshKeepsIdentity, At
  <2>2. CASE Moves(z)
    <3>1. CASE StartsRotation(z)
      BY <1>2, <3>1 DEF StartsRotation, SessionsOwned, OwnSessions
    <3>2. CASE WroteRow(z)
      BY <1>2, <3>2, RequestTyped DEF WroteRow, WriteRow, At, Typed, Shaped
    <3>3. QED BY <1>2, <2>2, <3>1, <3>2, ComesToRotate
  <2>3. req'[z] # Blank
    BY <1>2 DEF Blank
  <2>4. QED BY <2>1, <2>2, <2>3, SlotSteps
<1>3. QED BY <1>1, <1>2 DEF OwnRowsRead, RefreshKeepsIdentity, At

\* In every instance a refresh issues tokens to the subject of the token it was
\* given: no interleaving with e-mail changes, deletions or full-row writes
\* makes refreshBiometric serve the user who now has the e-mail.
THEOREM AlwaysOwnIdentity == Spec => []RefreshKeepsIdentity
<1>1. Init => SessionsOwned
  BY InstanceAssumption
     DEF Init, Blank, SessionsOwned, OwnSessions, OwnRowsRead, RefreshKeepsIdentity, At
<1>2. Typed /\ SessionsOwned /\ [Next]_vars => SessionsOwned'
  BY RowsOwned, SlotsOwned DEF SessionsOwned
<1>3. SessionsOwned => RefreshKeepsIdentity
  BY DEF SessionsOwned
<1>4. QED BY <1>1, <1>2, <1>3, AlwaysTyped, PTL DEF Spec

-----------------------------------------------------------------------------
\* The routes that open a session with a credential.
WithCredential ==
  {"signIn", "fastLogin", "signInWithCode", "changePassword", "updatePassword"}

Opens(s, u) ==
  /\ req'[s] # req[s] /\ req'[s].user = u
  /\ req'[s].op \in WithCredential

LEMMA StaysLoggedOut ==
  ASSUME Typed, [Next]_vars, NEW u \in UserIds, LoggedOut(u), u \in DOMAIN users',
         \A s \in Slots : ~Opens(s, u)
  PROVE  LoggedOut(u)'
<1>1. users'[u].rt = None
  <2>1. CASE UNCHANGED users
    BY <2>1 DEF LoggedOut
  <2>2. ASSUME NEW s \in Slots, UsersWrites(s)
        PROVE  users'[u].rt = None
    <3>1. CASE WriteRow(s) \/ Rotate(s)
      <4>1. req[s].user # u
        BY <3>1 DEF WriteRow, Rotate, At, LoggedOut
      <4>2. QED BY <3>1, <4>1 DEF WriteRow, Rotate, LoggedOut
    <3>2. CASE ClearSession(s) \/ DisableWrite(s)
      BY <3>2, UserTableIs
         DEF ClearSession, DisableWrite, LoggedOut, Typed, TypeOK, UserRow
    <3>3. CASE UpdateUser(s)
      <4>1. PICK v \in UserIds, e \in Emails, st \in Status :
              \/ UNCHANGED users
              \/ users' = [users EXCEPT ![v].email = e, ![v].status = st]
        BY <3>3 DEF UpdateUser
      <4>2. users'[u].rt = users[u].rt
        BY <4>1, UserTableIs DEF LoggedOut, Typed, TypeOK, UserRow
      <4>3. QED BY <4>2 DEF LoggedOut
    <3>4. CASE RemoveUser(s)
      BY <3>4, UserTableIs DEF RemoveUser, LoggedOut, Typed, TypeOK, UserRow
    <3>5. CASE DeleteUser(s)
      BY <3>5 DEF DeleteUser, LoggedOut
    <3>6. QED BY <2>2, <3>1, <3>2, <3>3, <3>4, <3>5 DEF UsersWrites
  <2>3. QED BY <2>1, <2>2, WhoWritesUsers
<1>2. ASSUME NEW z \in Slots, req'[z].user = u,
             req'[z].pc \in {"find", "write", "rotate"}
      PROVE  FALSE
  <2>1. req'[z] # req[z] /\ req'[z].op \notin WithCredential
    BY <1>2 DEF LoggedOut, Opens
  <2>2. req'[z] # Blank
    BY <1>2 DEF Blank
  <2>3. Moves(z)
    BY <2>1, <2>2, SlotSteps
  <2>4. CASE req'[z].pc = "find"
    BY <2>1, <2>3, <2>4, ComesToFind DEF StartsChange, WithCredential
  <2>5. CASE req'[z].pc = "write"
    <3>1. ~ReadsRow(z)
      BY <1>2 DEF ReadsRow, FindUser, At, LoggedOut
    <3>2. ~StartsUpdate(z)
      BY <2>1 DEF StartsUpdate, WithCredential
    <3>3. QED BY <2>3, <2>5, <3>1, <3>2, ComesToWrite
  <2>6. CASE req'[z].pc = "rotate"
    <3>1. ~WroteRow(z)
      BY <1>2 DEF WroteRow, WriteRow, At, LoggedOut
    <3>2. ~StartsRotation(z)
      BY <1>2, <2>1 DEF StartsRotation, LoggedOut, WithCredential
    <3>3. QED BY <2>3, <2>6, <3>1, <3>2, ComesToRotate
  <2>7. QED BY <1>2, <2>4, <2>5, <2>6
<1>3. QED BY <1>1, <1>2 DEF LoggedOut

\* In every instance a session that forgotPassword has cleared is opened again
\* by a password, a link or a two-factor code only, once no earlier refresh is
\* left in flight.
THEOREM AlwaysNeedsCredential == Spec => SessionNeedsCredential
<1>1. Typed /\ [Next]_vars =>
        [\A u \in UserIds :
           (LoggedOut(u) /\ u \in DOMAIN users')
             => \/ LoggedOut(u)'
                \/ \E s \in Slots : /\ req'[s] # req[s] /\ req'[s].user = u
                                    /\ req'[s].op \in {"signIn", "fastLogin",
                                         "signInWithCode", "changePassword",
                                         "updatePassword"}]_vars
  BY StaysLoggedOut DEF Opens, WithCredential
<1>2. QED BY <1>1, AlwaysTyped, PTL DEF Spec, SessionNeedsCredential
=============================================================================
