--------------------------- MODULE AccountsProofs ---------------------------
(***************************************************************************)
(* Theorems about Accounts, for every instance of its constants.           *)
(***************************************************************************)
EXTENDS Accounts, TLAPS

-----------------------------------------------------------------------------
\* Tables as functions on the set of stored keys.

LEMMA UserTableIs ==
  \A f : f \in UserTables
           <=> /\ f = [x \in DOMAIN f |-> f[x]]
               /\ DOMAIN f \subseteq UserIds
               /\ \A x \in DOMAIN f : f[x] \in UserRow
<1>1. ASSUME NEW f, f \in UserTables
      PROVE  /\ f = [x \in DOMAIN f |-> f[x]]
             /\ DOMAIN f \subseteq UserIds
             /\ \A x \in DOMAIN f : f[x] \in UserRow
  <2>1. PICK S \in SUBSET UserIds : f \in [S -> UserRow]
    BY <1>1 DEF UserTables
  <2>2. QED BY <2>1
<1>2. ASSUME NEW f, f = [x \in DOMAIN f |-> f[x]], DOMAIN f \subseteq UserIds,
             \A x \in DOMAIN f : f[x] \in UserRow
      PROVE  f \in UserTables
  <2>1. f \in [DOMAIN f -> UserRow]
    BY <1>2
  <2>2. QED BY <1>2, <2>1 DEF UserTables
<1>3. QED BY <1>1, <1>2

LEMMA ResetTableIs ==
  \A f : f \in ResetTables
           <=> /\ f = [x \in DOMAIN f |-> f[x]]
               /\ DOMAIN f \subseteq Tokens
               /\ \A x \in DOMAIN f : f[x] \in ResetRow
<1>1. ASSUME NEW f, f \in ResetTables
      PROVE  /\ f = [x \in DOMAIN f |-> f[x]]
             /\ DOMAIN f \subseteq Tokens
             /\ \A x \in DOMAIN f : f[x] \in ResetRow
  <2>1. PICK S \in SUBSET Tokens : f \in [S -> ResetRow]
    BY <1>1 DEF ResetTables
  <2>2. QED BY <2>1
<1>2. ASSUME NEW f, f = [x \in DOMAIN f |-> f[x]], DOMAIN f \subseteq Tokens,
             \A x \in DOMAIN f : f[x] \in ResetRow
      PROVE  f \in ResetTables
  <2>1. f \in [DOMAIN f -> ResetRow]
    BY <1>2
  <2>2. QED BY <1>2, <2>1 DEF ResetTables
<1>3. QED BY <1>1, <1>2

\* Reading a row.
LEMMA RowOfUser ==
  ASSUME TypeOK, NEW u \in DOMAIN users
  PROVE  u \in UserIds /\ users[u] \in UserRow
BY UserTableIs DEF TypeOK

LEMMA RowOfLink ==
  ASSUME TypeOK, NEW t \in DOMAIN resets
  PROVE  t \in Tokens /\ resets[t] \in ResetRow
BY ResetTableIs DEF TypeOK

\* Writing one keeps the table.
LEMMA UserWritten ==
  ASSUME TypeOK, NEW u \in DOMAIN users, NEW r \in UserRow,
         users' = [users EXCEPT ![u] = r]
  PROVE  users' \in UserTables /\ DOMAIN users' = DOMAIN users
<1>1. users' = [x \in DOMAIN users' |-> users'[x]] /\ DOMAIN users' = DOMAIN users
  BY UserTableIs DEF TypeOK
<1>2. \A x \in DOMAIN users' : users'[x] \in UserRow
  BY <1>1, UserTableIs DEF TypeOK
<1>3. DOMAIN users' \subseteq UserIds
  BY <1>1, UserTableIs DEF TypeOK
<1>4. QED BY <1>1, <1>2, <1>3, UserTableIs

LEMMA LinkStored ==
  ASSUME TypeOK, NEW t \in Tokens, NEW u \in UserIds, NEW x \in BOOLEAN
  PROVE  Stored(t, u, x) \in ResetTables
<1> DEFINE f == Stored(t, u, x)
<1>1. DOMAIN f = DOMAIN resets \union {t} /\ f = [y \in DOMAIN f |-> f[y]]
  BY DEF Stored
<1>2. DOMAIN f \subseteq Tokens
  BY <1>1, ResetTableIs DEF TypeOK
<1>3. \A y \in DOMAIN f : f[y] \in ResetRow
  BY <1>1, ResetTableIs DEF TypeOK, Stored, ResetRow
<1>4. QED BY <1>1, <1>2, <1>3, ResetTableIs

LEMMA LinksDropped ==
  ASSUME TypeOK, NEW u
  PROVE  WithoutLinksOf(u) \in ResetTables
<1> DEFINE f == WithoutLinksOf(u)
<1>1. DOMAIN f = {y \in DOMAIN resets : resets[y].user # u}
      /\ f = [y \in DOMAIN f |-> f[y]]
  BY DEF WithoutLinksOf
<1>2. DOMAIN f \subseteq Tokens
  BY <1>1, ResetTableIs DEF TypeOK
<1>3. \A y \in DOMAIN f : f[y] \in ResetRow
  BY <1>1, ResetTableIs DEF TypeOK, WithoutLinksOf
<1>4. QED BY <1>1, <1>2, <1>3, ResetTableIs

-----------------------------------------------------------------------------
\* What a request carries at each statement.
HasUser == PCs \ {"done", "login"}
HasToken == {"insert", "renew", "mail", "clear", "purge", "find"}
HasActor == {"disableFind", "disableWrite", "log"}

Shaped(r) ==
  /\ r.pc \in HasUser => r.user \in UserIds
  /\ r.pc \in HasToken => r.token \in Tokens
  /\ r.pc \in HasActor => r.actor \in UserIds
  /\ r.pc = "write"
       => r.row \in UserRow /\ r.op \in {"changePassword", "updatePassword"}
  /\ r.pc = "write" /\ r.op = "updatePassword" => r.pw \in Passwords
  /\ r.pc = "find" => r.pw \in Passwords
  /\ r.pc = "login" => r.op = "signIn"
  /\ r.pc \in {"find", "purge"} => r.op = "changePassword"
  /\ r.pc \in {"list", "renew"} => r.op = "getInvite"
  /\ r.pc = "clear" => r.op = "forgotPassword"
  /\ r.pc = "mail" => r.op \in {"forgotPassword", "resendInvite"}
  /\ r.pc = "insert" => r.op \in {"forgotPassword", "resendInvite", "getInvite"}
  /\ r.op = "changePassword"
       => r.pc \in {"find", "write", "rotate", "purge"} /\ r.token \in Tokens
  /\ r.op \in {"refresh", "refreshBiometric"} => r.pc = "rotate"

ShapedRequests == {r \in Requests : Shaped(r)}

RequestShape == req \in [Slots -> ShapedRequests]

Typed == TypeOK /\ RequestShape

LEMMA Placed ==
  ASSUME RequestShape, NEW s \in Slots, NEW r \in ShapedRequests,
         req' = [req EXCEPT ![s] = r]
  PROVE  RequestShape' /\ req'[s] = r /\ \A z \in Slots \ {s} : req'[z] = req[z]
BY DEF RequestShape

LEMMA BlankShaped ==
  ASSUME NEW out \in Outcomes \union {None}
  PROVE  [Blank EXCEPT !.out = out] \in ShapedRequests
BY NoneAssumption
   DEF AllRoutes, Blank, ShapedRequests, Shaped, Requests, PCs, HasUser, HasToken, HasActor

LEMMA Answered ==
  ASSUME RequestShape, NEW s \in Slots, NEW out \in Outcomes, Answer(s, out)
  PROVE  /\ RequestShape'
         /\ req'[s] = [Blank EXCEPT !.out = out]
         /\ \A z \in Slots \ {s} : req'[z] = req[z]
BY BlankShaped, Placed DEF Answer

LEMMA RequestTyped ==
  ASSUME RequestShape, NEW s \in Slots
  PROVE  req[s] \in Requests /\ Shaped(req[s])
BY DEF RequestShape, ShapedRequests

LEMMA Continued ==
  ASSUME RequestShape, NEW s \in Slots, NEW pc \in PCs, Continue(s, pc),
         Shaped([req[s] EXCEPT !.pc = pc])
  PROVE  /\ RequestShape'
         /\ req'[s] = [req[s] EXCEPT !.pc = pc]
         /\ \A z \in Slots \ {s} : req'[z] = req[z]
<1>1. req' = [req EXCEPT ![s] = [req[s] EXCEPT !.pc = pc]]
  BY DEF Continue
<1>2. [req[s] EXCEPT !.pc = pc] \in ShapedRequests
  BY RequestTyped DEF ShapedRequests, Requests
<1>3. QED BY <1>1, <1>2, Placed

LEMMA DrawnShaped ==
  ASSUME Typed, NEW s \in Slots, NEW op \in Routes, NEW pc \in PCs,
         NEW u \in UserIds, NEW t \in Tokens, Drawn(s, op, pc, u, t),
         \/ op \in {"forgotPassword", "resendInvite"} /\ pc = "insert"
         \/ op = "getInvite" /\ pc = "renew"
  PROVE  RequestShape' /\ fate' \in [Tokens -> Fates]
<1> DEFINE r == [Blank EXCEPT !.op = op, !.pc = pc, !.user = u, !.token = t]
<1>1. r \in ShapedRequests
  BY NoneAssumption
     DEF AllRoutes, Blank, ShapedRequests, Shaped, Requests, PCs, HasUser, HasToken, HasActor
<1>2. req' = [req EXCEPT ![s] = r]
  BY DEF Drawn
<1>3. fate' \in [Tokens -> Fates]
  BY DEF Drawn, Typed, TypeOK, Fates
<1>4. QED BY <1>1, <1>2, <1>3, Placed DEF Typed

-----------------------------------------------------------------------------
\* Types are preserved by every action.

LEMMA InitTyped == Init => Typed
<1> SUFFICES ASSUME Init PROVE Typed
  OBVIOUS
<1>1. Blank \in ShapedRequests
  BY NoneAssumption
     DEF AllRoutes, Blank, ShapedRequests, Shaped, Requests, PCs, HasUser, HasToken, HasActor
<1>2. resets \in ResetTables
  <2>1. DOMAIN resets = {} /\ resets = [x \in DOMAIN resets |-> resets[x]]
    BY DEF Init
  <2>2. QED BY <2>1, ResetTableIs
<1>3. RequestShape
  BY <1>1 DEF Init, RequestShape
<1>4. req \in [Slots -> Requests]
  BY <1>3 DEF RequestShape, ShapedRequests
<1>5. QED BY <1>2, <1>3, <1>4, InstanceAssumption DEF Init, Typed, TypeOK, Fates

\* What is left to show for an action that leaves the tables alone.
LEMMA TypedIfReq ==
  ASSUME Typed, RequestShape', UNCHANGED <<tables, mails, fate>>
  PROVE  Typed'
<1>1. req' \in [Slots -> Requests]
  BY DEF RequestShape, ShapedRequests
<1>2. QED BY <1>1 DEF Typed, TypeOK, tables

LEMMA TypedCallLogin ==
  ASSUME Typed, NEW s \in Slots,
         SignIn(s) \/ FastLogin(s) \/ Login(s)
  PROVE  Typed'
<1>1. CASE SignIn(s)
  <2>1. PICK e \in Emails, p \in Passwords :
          /\ Called(s, "signIn")
          /\ IF Validated(e, p) = {}
             THEN Answer(s, "refused")
             ELSE req' = [req EXCEPT ![s] = [Blank EXCEPT
                    !.op = "signIn", !.pc = "login", !.email = e, !.pw = p]]
    BY <1>1 DEF SignIn
  <2>2. CASE Answer(s, "refused")
    BY <1>1, <2>2, Answered, TypedIfReq DEF SignIn, Typed, Outcomes
  <2>3. CASE req' = [req EXCEPT ![s] = [Blank EXCEPT
                    !.op = "signIn", !.pc = "login", !.email = e, !.pw = p]]
    <3> DEFINE r == [Blank EXCEPT !.op = "signIn", !.pc = "login", !.email = e, !.pw = p]
    <3>1. r \in ShapedRequests
      BY <2>1, NoneAssumption DEF AllRoutes, Called, Blank, ShapedRequests, Shaped, Requests,
                                  PCs, HasUser, HasToken, HasActor
    <3>2. RequestShape'
      BY <2>3, <3>1, Placed DEF Typed
    <3>3. QED BY <1>1, <3>2, TypedIfReq DEF SignIn
  <2>4. QED BY <2>1, <2>2, <2>3
<1>2. ASSUME NEW op \in Routes, op \in {"signIn", "fastLogin"}, NEW e, NEW p,
             LoginWith(s, op, e, p)
      PROVE  RequestShape'
  <2>1. CASE Answer(s, "refused")
    BY <2>1, Answered DEF Typed, Outcomes
  <2>2. CASE \E u \in Validated(e, p) :
               req' = [req EXCEPT ![s] = [Blank EXCEPT
                         !.op = op, !.pc = "rotate", !.user = u, !.actor = u]]
    <3>1. PICK u \in Validated(e, p) :
               req' = [req EXCEPT ![s] = [Blank EXCEPT
                         !.op = op, !.pc = "rotate", !.user = u, !.actor = u]]
      BY <2>2
    <3>2. u \in UserIds
      BY RowOfUser DEF Validated, UsersWith, Typed
    <3>3. [Blank EXCEPT !.op = op, !.pc = "rotate", !.user = u, !.actor = u]
            \in ShapedRequests
      BY <1>2, <3>2, NoneAssumption DEF AllRoutes, Blank, ShapedRequests, Shaped, Requests,
                                        PCs, HasUser, HasToken, HasActor
    <3>4. QED BY <3>1, <3>3, Placed DEF Typed
  <2>3. QED BY <1>2, <2>1, <2>2 DEF LoginWith
<1>3. CASE FastLogin(s)
  BY <1>2, <1>3, TypedIfReq DEF FastLogin, Called
<1>4. CASE Login(s)
  <2>1. "signIn" \in Routes
    BY <1>4, RequestTyped, NoneAssumption
       DEF Login, At, Typed, Shaped, Requests, AllRoutes
  <2>2. QED BY <1>2, <1>4, <2>1, TypedIfReq DEF Login
<1>5. QED BY <1>1, <1>3, <1>4

LEMMA TypedCode ==
  ASSUME Typed, NEW s \in Slots, SignInWithCode(s) \/ SpendCode(s)
  PROVE  Typed'
<1>1. ASSUME NEW u \in DOMAIN users, SignInWithCode(s),
             req' = [req EXCEPT ![s] = [Blank EXCEPT
               !.op = "signInWithCode", !.pc = "rotate", !.user = u, !.actor = u]]
      PROVE  RequestShape'
  <2>1. u \in UserIds /\ "signInWithCode" \in Routes
    BY <1>1, RowOfUser DEF Typed, SignInWithCode, Called
  <2>2. [Blank EXCEPT !.op = "signInWithCode", !.pc = "rotate", !.user = u, !.actor = u]
          \in ShapedRequests
    BY <2>1, NoneAssumption DEF AllRoutes, Blank, ShapedRequests, Shaped, Requests,
                                PCs, HasUser, HasToken, HasActor
  <2>3. QED BY <1>1, <2>2, Placed DEF Typed
<1>2. ASSUME NEW out \in Outcomes, Answer(s, out)
      PROVE  RequestShape'
  BY <1>2, Answered DEF Typed
<1>3. RequestShape'
  BY <1>1, <1>2 DEF SignInWithCode, SpendCode, Outcomes
<1>4. QED BY <1>3, TypedIfReq DEF SignInWithCode, SpendCode

LEMMA TypedParts ==
  ASSUME users' \in UserTables, resets' \in ResetTables, audit' \in SUBSET UserIds,
         mails' \in SUBSET Mails, fate' \in [Tokens -> Fates], RequestShape'
  PROVE  Typed'
<1>1. req' \in [Slots -> Requests]
  BY DEF RequestShape, ShapedRequests
<1>2. QED BY <1>1 DEF Typed, TypeOK

LEMMA TypedRefresh ==
  ASSUME Typed, NEW s \in Slots, Refresh(s) \/ RefreshBiometric(s)
  PROVE  Typed'
<1>1. ASSUME NEW op \in Routes, op \in {"refresh", "refreshBiometric"},
             NEW found \in SUBSET UserIds, NEW v \in UserIds,
             CheckRefresh(s, op, found, [sub |-> v])
      PROVE  RequestShape'
  <2>1. CASE \E out \in Outcomes : Answer(s, out)
    BY <2>1, Answered DEF Typed
  <2>2. CASE \E u \in found : req' = [req EXCEPT ![s] = [Blank EXCEPT
                !.op = op, !.pc = "rotate", !.user = u, !.actor = v]]
    <3>1. PICK u \in found : req' = [req EXCEPT ![s] = [Blank EXCEPT
                !.op = op, !.pc = "rotate", !.user = u, !.actor = v]]
      BY <2>2
    <3>2. [Blank EXCEPT !.op = op, !.pc = "rotate", !.user = u, !.actor = v]
            \in ShapedRequests
      BY <1>1, NoneAssumption DEF AllRoutes, Blank, ShapedRequests, Shaped, Requests,
                                  PCs, HasUser, HasToken, HasActor
    <3>3. QED BY <3>1, <3>2, Placed DEF Typed
  <2>3. QED BY <1>1, <2>1, <2>2 DEF CheckRefresh, Outcomes
<1>2. CASE Refresh(s)
  BY <1>1, <1>2, TypedIfReq DEF Refresh, Called
<1>3. CASE RefreshBiometric(s)
  <2>1. \A e : UsersWith(e) \in SUBSET UserIds
    BY RowOfUser DEF UsersWith, Typed
  <2>2. QED BY <1>1, <1>3, <2>1, TypedIfReq DEF RefreshBiometric, Called
<1>4. QED BY <1>2, <1>3

LEMMA TypedRotate ==
  ASSUME Typed, NEW s \in Slots, Rotate(s)
  PROVE  Typed'
<1> DEFINE u == req[s].user
<1>1. CASE u \in DOMAIN users
  <2>1. [users[u] EXCEPT !.rt = u] \in UserRow
    BY <1>1, RowOfUser DEF UserRow, Typed
  <2>2. users' = [users EXCEPT ![u] = [users[u] EXCEPT !.rt = u]]
    BY <1>1 DEF Rotate, HashData, RefreshJwt
  <2>3. users' \in UserTables
    BY <1>1, <2>1, <2>2, UserWritten DEF Typed
  <2>4. RequestShape'
    <3>1. CASE req[s].op = "changePassword"
      <4>1. Shaped([req[s] EXCEPT !.pc = "purge"])
        BY <3>1, RequestTyped, NoneAssumption
           DEF Typed, Shaped, Rotate, At, HasUser, HasToken, HasActor, PCs, Requests, AllRoutes
      <4>2. QED BY <1>1, <3>1, <4>1, Continued DEF Rotate, Typed, PCs
    <3>2. CASE req[s].op = "signInWithCode"
      <4>1. Shaped([req[s] EXCEPT !.pc = "spend"])
        BY <3>2, RequestTyped, NoneAssumption
           DEF Typed, Shaped, Rotate, At, HasUser, HasToken, HasActor, PCs, Requests, AllRoutes
      <4>2. QED BY <1>1, <3>2, <4>1, Continued DEF Rotate, Typed, PCs
    <3>3. CASE req[s].op \notin {"changePassword", "signInWithCode"}
      BY <1>1, <3>3, Answered DEF Rotate, Typed, Outcomes
    <3>4. QED BY <3>1, <3>2, <3>3
  <2>5. QED BY <2>3, <2>4, TypedParts DEF Rotate, Typed, TypeOK
<1>2. CASE u \notin DOMAIN users
  <2>1. RequestShape'
    BY <1>2, Answered DEF Rotate, Typed, Outcomes
  <2>2. QED BY <1>2, <2>1, TypedIfReq DEF Rotate, tables
<1>3. QED BY <1>1, <1>2

LEMMA TypedPasswordRoutes ==
  ASSUME Typed, NEW s \in Slots, ChangePassword(s) \/ UpdatePassword(s) \/ FindUser(s)
  PROVE  Typed'
<1>1. CASE ChangePassword(s)
  <2>1. PICK t \in Tokens, p \in Passwords :
          /\ Called(s, "changePassword")
          /\ \/ \E out \in Outcomes : Answer(s, out)
             \/ /\ t \in DOMAIN resets
                /\ req' = [req EXCEPT ![s] = [Blank EXCEPT
                     !.op = "changePassword", !.pc = "find", !.token = t,
                     !.user = resets[t].user, !.pw = p]]
    BY <1>1 DEF ChangePassword, Outcomes
  <2>2. CASE \E out \in Outcomes : Answer(s, out)
    BY <1>1, <2>2, Answered, TypedIfReq DEF ChangePassword, Typed
  <2>3. CASE /\ t \in DOMAIN resets
             /\ req' = [req EXCEPT ![s] = [Blank EXCEPT
                  !.op = "changePassword", !.pc = "find", !.token = t,
                  !.user = resets[t].user, !.pw = p]]
    <3>1. resets[t].user \in UserIds
      BY <2>3, RowOfLink DEF Typed, ResetRow
    <3>2. [Blank EXCEPT !.op = "changePassword", !.pc = "find", !.token = t,
             !.user = resets[t].user, !.pw = p] \in ShapedRequests
      BY <2>1, <3>1, NoneAssumption
         DEF AllRoutes, Called, Blank, ShapedRequests, Shaped, Requests,
             PCs, HasUser, HasToken, HasActor
    <3>3. RequestShape'
      BY <2>3, <3>2, Placed DEF Typed
    <3>4. QED BY <1>1, <3>3, TypedIfReq DEF ChangePassword
  <2>4. QED BY <2>1, <2>2, <2>3
<1>2. CASE UpdatePassword(s)
  <2>1. PICK e \in Emails, old \in Passwords, p \in Passwords :
          /\ Called(s, "updatePassword")
          /\ \/ Answer(s, "refused")
             \/ \E u \in Validated(e, old) :
                  req' = [req EXCEPT ![s] = [Blank EXCEPT
                    !.op = "updatePassword", !.pc = "write", !.user = u,
                    !.pw = old, !.row = [users[u] EXCEPT !.pw = p]]]
    BY <1>2 DEF UpdatePassword
  <2>2. CASE Answer(s, "refused")
    BY <1>2, <2>2, Answered, TypedIfReq DEF UpdatePassword, Typed, Outcomes
  <2>3. CASE \E u \in Validated(e, old) :
               req' = [req EXCEPT ![s] = [Blank EXCEPT
                 !.op = "updatePassword", !.pc = "write", !.user = u,
                 !.pw = old, !.row = [users[u] EXCEPT !.pw = p]]]
    <3>1. PICK u \in Validated(e, old) :
               req' = [req EXCEPT ![s] = [Blank EXCEPT
                 !.op = "updatePassword", !.pc = "write", !.user = u,
                 !.pw = old, !.row = [users[u] EXCEPT !.pw = p]]]
      BY <2>3
    <3>2. u \in UserIds /\ users[u] \in UserRow
      BY RowOfUser DEF Validated, UsersWith, Typed
    <3>3. [users[u] EXCEPT !.pw = p] \in UserRow
      BY <3>2 DEF UserRow
    <3>4. ASSUME NEW w \in UserRow
          PROVE  [Blank EXCEPT !.op = "updatePassword", !.pc = "write", !.user = u,
                    !.pw = old, !.row = w] \in ShapedRequests
      BY <2>1, <3>2, NoneAssumption
         DEF AllRoutes, Called, Blank, ShapedRequests, Shaped, Requests,
             PCs, HasUser, HasToken, HasActor
    <3>5. RequestShape'
      BY <3>1, <3>3, <3>4, Placed DEF Typed
    <3>6. QED BY <1>2, <3>5, TypedIfReq DEF UpdatePassword
  <2>4. QED BY <2>1, <2>2, <2>3
<1>3. CASE FindUser(s)
  <2> DEFINE u == req[s].user
  <2>1. CASE u \in DOMAIN users
    <3> DEFINE w == ActivatedRow(u, req[s].pw)
    <3>1. req[s] \in Requests /\ Shaped(req[s]) /\ req[s].pc = "find"
      BY <1>3, RequestTyped DEF Typed, FindUser, At
    <3>2. w \in UserRow
      BY <2>1, <3>1, RowOfUser DEF Typed, Shaped, ActivatedRow, UserRow, Status
    <3>3. ASSUME NEW x \in UserRow
          PROVE  [req[s] EXCEPT !.pc = "write", !.pw = None, !.row = x]
                   \in ShapedRequests
      BY <3>1, NoneAssumption
         DEF AllRoutes, ShapedRequests, Shaped, Requests, PCs, HasUser, HasToken, HasActor
    <3>4. req' = [req EXCEPT ![s] = [req[s] EXCEPT !.pc = "write", !.pw = None, !.row = w]]
      BY <1>3, <2>1 DEF FindUser, Typed, TypeOK
    <3>5. RequestShape'
      BY <3>2, <3>3, <3>4, Placed DEF Typed
    <3>6. QED BY <1>3, <3>5, TypedIfReq DEF FindUser
  <2>2. CASE u \notin DOMAIN users
    BY <1>3, <2>2, Answered, TypedIfReq DEF FindUser, Typed, Outcomes
  <2>3. QED BY <2>1, <2>2
<1>4. QED BY <1>1, <1>2, <1>3

LEMMA TypedWriteRow ==
  ASSUME Typed, NEW s \in Slots, WriteRow(s)
  PROVE  Typed'
<1> DEFINE u == req[s].user
           r == req[s].row
<1>1. req[s] \in Requests /\ Shaped(req[s]) /\ req[s].pc = "write"
  BY RequestTyped DEF Typed, WriteRow, At
<1>2. CASE u \in DOMAIN users /\ ~EmailTaken(u, r.email)
  <2>1. r \in UserRow
    BY <1>1 DEF Shaped
  <2>2. users' \in UserTables
    BY <1>2, <2>1, UserWritten DEF WriteRow, Typed
  <2>3. [req[s] EXCEPT !.pc = "rotate", !.row = None, !.pw = None, !.actor = u] \in ShapedRequests
    <3>1. u \in UserIds
      BY <1>1 DEF Shaped, HasUser, PCs
    <3>2. ASSUME NEW v \in UserIds
          PROVE  [req[s] EXCEPT !.pc = "rotate", !.row = None, !.pw = None, !.actor = v] \in Requests
      BY <1>1 DEF Requests, PCs
    <3>3. ASSUME NEW v \in UserIds
          PROVE  Shaped([req[s] EXCEPT !.pc = "rotate", !.row = None, !.pw = None, !.actor = v])
      BY <1>1, <3>1 DEF Shaped, Requests, PCs, HasUser, HasToken, HasActor
    <3>4. QED BY <3>1, <3>2, <3>3 DEF ShapedRequests
  <2>4. req' = [req EXCEPT ![s] = [req[s] EXCEPT !.pc = "rotate", !.row = None, !.pw = None, !.actor = u]]
    BY <1>2 DEF WriteRow, Typed, TypeOK
  <2>5. RequestShape'
    BY <2>3, <2>4, Placed DEF Typed
  <2>6. QED BY <2>2, <2>5, TypedParts DEF WriteRow, Typed, TypeOK
<1>3. CASE ~(u \in DOMAIN users /\ ~EmailTaken(u, r.email))
  BY <1>3, Answered, TypedIfReq DEF WriteRow, Typed, Outcomes, tables
<1>4. QED BY <1>2, <1>3

LEMMA TypedPurge ==
  ASSUME Typed, NEW s \in Slots, Purge(s)
  PROVE  Typed'
<1>1. RequestShape'
  BY Answered DEF Purge, Typed, Outcomes
<1>2. resets' \in ResetTables
  BY LinksDropped DEF Purge, Typed
<1>3. fate' \in [Tokens -> Fates]
  BY DEF Purge, Typed, TypeOK, Fates
<1>4. QED BY <1>1, <1>2, <1>3, TypedParts DEF Purge, Typed, TypeOK

LEMMA TypedDraw ==
  ASSUME Typed, NEW s \in Slots,
         ForgotPassword(s) \/ ResendInvite(s) \/ ListLinks(s)
  PROVE  Typed'
<1>1. RequestShape' /\ fate' \in [Tokens -> Fates]
  <2>1. CASE \E out \in Outcomes : Answer(s, out) /\ UNCHANGED fate
    BY <2>1, Answered DEF Typed, TypeOK
  <2>2. CASE /\ ForgotPassword(s)
             /\ \E e \in Emails : \E u \in UsersWith(e), t \in Tokens :
                  Drawn(s, "forgotPassword", "insert", u, t)
    <3>1. PICK e \in Emails : \E u \in UsersWith(e), t \in Tokens :
                  Drawn(s, "forgotPassword", "insert", u, t)
      BY <2>2
    <3>2. PICK u \in UsersWith(e), t \in Tokens :
                  Drawn(s, "forgotPassword", "insert", u, t)
      BY <3>1
    <3>3. u \in UserIds
      BY RowOfUser DEF UsersWith, Typed
    <3>4. QED BY <2>2, <3>2, <3>3, DrawnShaped DEF ForgotPassword, Called, PCs
  <2>3. CASE /\ ResendInvite(s)
             /\ \E u \in UserIds, t \in Tokens :
                  Drawn(s, "resendInvite", "insert", u, t)
    BY <2>3, DrawnShaped DEF ResendInvite, Called, PCs
  <2>4. CASE /\ ListLinks(s)
             /\ \E t \in Tokens : Drawn(s, "getInvite", "renew", req[s].user, t)
    <3>1. req[s].user \in UserIds /\ "getInvite" \in Routes
      BY <2>4, RequestTyped, NoneAssumption
         DEF Typed, ListLinks, At, Shaped, Requests, HasUser, PCs, AllRoutes
    <3>2. QED BY <2>4, <3>1, DrawnShaped DEF PCs
  <2>5. QED BY <2>1, <2>2, <2>3, <2>4
            DEF ForgotPassword, ResendInvite, ListLinks, AnswerNoLinks, Outcomes
<1>2. UNCHANGED <<tables, mails>>
  BY DEF ForgotPassword, ResendInvite, ListLinks
<1>3. QED BY <1>1, <1>2, TypedParts DEF Typed, TypeOK, tables

LEMMA TypedInsert ==
  ASSUME Typed, NEW s \in Slots, Insert(s)
  PROVE  Typed'
<1>1. req[s] \in Requests /\ Shaped(req[s]) /\ req[s].pc = "insert"
  BY RequestTyped DEF Typed, Insert, At
<1>2. PICK created \in BOOLEAN : InsertLink(s, created)
  BY DEF Insert
<1>3. resets' \in ResetTables /\ fate' \in [Tokens -> Fates]
  <2>1. req[s].token \in Tokens /\ req[s].user \in UserIds
    BY <1>1 DEF Shaped, HasToken, HasUser, PCs
  <2>2. Stored(req[s].token, req[s].user, FALSE) \in ResetTables
    BY <2>1, LinkStored DEF Typed
  <2>3. QED BY <1>2, <2>1, <2>2 DEF InsertLink, Lose, Typed, TypeOK, Fates
<1>4. RequestShape'
  <2>1. CASE Answer(s, "ok")
    BY <2>1, Answered DEF Typed, Outcomes
  <2>2. CASE req[s].op = "forgotPassword" /\ Continue(s, "clear")
    <3>1. Shaped([req[s] EXCEPT !.pc = "clear"])
      BY <1>1, <2>2 DEF Shaped, Requests, HasUser, HasToken, HasActor, PCs
    <3>2. QED BY <2>2, <3>1, Continued DEF Typed, PCs
  <2>3. CASE req[s].op = "resendInvite" /\ Continue(s, "mail")
    <3>1. Shaped([req[s] EXCEPT !.pc = "mail"])
      BY <1>1, <2>3 DEF Shaped, Requests, HasUser, HasToken, HasActor, PCs
    <3>2. QED BY <2>3, <3>1, Continued DEF Typed, PCs
  <2>4. QED BY <2>1, <2>2, <2>3 DEF Insert
<1>5. QED BY <1>3, <1>4, TypedParts DEF Insert, Typed, TypeOK

LEMMA TypedIssue ==
  ASSUME Typed, NEW s \in Slots,
         ClearSession(s) \/ SendMail(s) \/ GetInvite(s) \/ DropLinks(s)
  PROVE  Typed'
<1>1. CASE ClearSession(s)
  <2> DEFINE u == req[s].user
  <2>1. req[s] \in Requests /\ Shaped(req[s]) /\ req[s].pc = "clear"
    BY <1>1, RequestTyped DEF Typed, ClearSession, At
  <2>2. CASE u \in DOMAIN users
    <3>1. [users[u] EXCEPT !.rt = None] \in UserRow
      BY <2>2, RowOfUser DEF UserRow, Typed
    <3>2. users' = [users EXCEPT ![u] = [users[u] EXCEPT !.rt = None]]
      BY <1>1, <2>2 DEF ClearSession
    <3>3. users' \in UserTables
      BY <2>2, <3>1, <3>2, UserWritten DEF Typed
    <3>4. Shaped([req[s] EXCEPT !.pc = "mail"])
      BY <2>1 DEF Shaped, Requests, HasUser, HasToken, HasActor, PCs
    <3>5. RequestShape'
      BY <1>1, <2>2, <3>4, Continued DEF ClearSession, Typed, PCs
    <3>6. QED BY <1>1, <3>3, <3>5, TypedParts DEF ClearSession, Typed, TypeOK
  <2>3. CASE u \notin DOMAIN users
    BY <1>1, <2>3, Answered, TypedIfReq DEF ClearSession, Typed, Outcomes, tables
  <2>4. QED BY <2>2, <2>3
<1>2. CASE SendMail(s)
  <2>1. req[s].token \in Tokens
    BY <1>2, RequestTyped DEF Typed, SendMail, At, Shaped, HasToken
  <2>2. RequestShape'
    BY <1>2, Answered DEF SendMail, Typed, Outcomes
  <2>3. mails' \in SUBSET Mails
    BY <1>2, <2>1 DEF SendMail, Typed, TypeOK, Mails
  <2>4. QED BY <1>2, <2>2, <2>3, TypedParts DEF SendMail, Typed, TypeOK, tables
<1>3. CASE GetInvite(s)
  <2>1. PICK u \in UserIds :
          /\ Called(s, "getInvite")
          /\ \/ Answer(s, "refused")
             \/ req' = [req EXCEPT ![s] = [Blank EXCEPT
                          !.op = "getInvite", !.pc = "list", !.user = u]]
    BY <1>3 DEF GetInvite
  <2>2. [Blank EXCEPT !.op = "getInvite", !.pc = "list", !.user = u] \in ShapedRequests
    BY <2>1, NoneAssumption DEF AllRoutes, Called, Blank, ShapedRequests, Shaped, Requests,
                                PCs, HasUser, HasToken, HasActor
  <2>3. RequestShape'
    BY <2>1, <2>2, Answered, Placed DEF Typed, Outcomes
  <2>4. QED BY <1>3, <2>3, TypedIfReq DEF GetInvite
<1>4. CASE DropLinks(s)
  <2>1. req[s] \in Requests /\ Shaped(req[s]) /\ req[s].pc = "renew"
    BY <1>4, RequestTyped DEF Typed, DropLinks, At
  <2>2. Shaped([req[s] EXCEPT !.pc = "insert"])
    BY <2>1 DEF Shaped, Requests, HasUser, HasToken, HasActor, PCs
  <2>3. RequestShape'
    BY <1>4, <2>2, Continued DEF DropLinks, Typed, PCs
  <2>4. resets' \in ResetTables
    BY <1>4, LinksDropped DEF DropLinks, Typed
  <2>5. fate' \in [Tokens -> Fates]
    BY <1>4 DEF DropLinks, Typed, TypeOK, Fates
  <2>6. QED BY <1>4, <2>3, <2>4, <2>5, TypedParts DEF DropLinks, Typed, TypeOK
<1>5. QED BY <1>1, <1>2, <1>3, <1>4

LEMMA TypedUsersRoutes ==
  ASSUME Typed, NEW s \in Slots, UpdateUser(s) \/ RemoveUser(s) \/ DeleteUser(s)
  PROVE  Typed'
<1>1. RequestShape'
  BY Answered DEF UpdateUser, RemoveUser, DeleteUser, Typed, Outcomes
<1>2. users' \in UserTables
  <2>1. CASE UpdateUser(s)
    <3>1. PICK u \in UserIds, e \in Emails, st \in Status :
            \/ UNCHANGED users
            \/ /\ u \in DOMAIN users
               /\ users' = [users EXCEPT ![u].email = e, ![u].status = st]
      BY <2>1 DEF UpdateUser
    <3>2. CASE u \in DOMAIN users
      <4>1. [users[u] EXCEPT !.email = e, !.status = st] \in UserRow
        BY <3>2, RowOfUser DEF Typed, UserRow
      <4>2. CASE UNCHANGED users
        BY <4>2 DEF Typed, TypeOK
      <4>3. CASE users' = [users EXCEPT ![u].email = e, ![u].status = st]
        <5>1. users' = [users EXCEPT ![u] = [users[u] EXCEPT !.email = e, !.status = st]]
          BY <4>3, UserTableIs DEF Typed, TypeOK
        <5>2. QED BY <3>2, <4>1, <5>1, UserWritten DEF Typed
      <4>4. QED BY <3>1, <4>2, <4>3
    <3>3. QED BY <3>1, <3>2 DEF Typed, TypeOK
  <2>2. CASE RemoveUser(s)
    <3>1. PICK u \in UserIds :
            \/ UNCHANGED users
            \/ /\ u \in DOMAIN users
               /\ users' = [users EXCEPT ![u] = [users[u] EXCEPT !.canceled = TRUE]]
      BY <2>2 DEF RemoveUser
    <3>2. CASE u \in DOMAIN users
      <4>1. [users[u] EXCEPT !.canceled = TRUE] \in UserRow
        BY <3>2, RowOfUser DEF Typed, UserRow
      <4>2. QED BY <3>1, <3>2, <4>1, UserWritten DEF Typed, TypeOK
    <3>3. QED BY <3>1, <3>2 DEF Typed, TypeOK
  <2>3. CASE DeleteUser(s)
    <3>1. PICK u \in UserIds :
            \/ UNCHANGED users
            \/ users' = [v \in DOMAIN users \ {u} |-> users[v]]
      BY <2>3 DEF DeleteUser
    <3>2. [v \in DOMAIN users \ {u} |-> users[v]] \in UserTables
      BY UserTableIs DEF Typed, TypeOK
    <3>3. QED BY <3>1, <3>2 DEF Typed, TypeOK
  <2>4. QED BY <2>1, <2>2, <2>3
<1>3. UNCHANGED <<resets, audit, mails, fate>>
  BY DEF UpdateUser, RemoveUser, DeleteUser
<1>4. QED BY <1>1, <1>2, <1>3, TypedParts DEF Typed, TypeOK

LEMMA TypedDisable ==
  ASSUME Typed, NEW s \in Slots,
         DisableUser(s) \/ DisableFind(s) \/ DisableWrite(s) \/ WriteLog(s)
  PROVE  Typed'
<1>1. CASE DisableUser(s)
  <2>1. PICK u \in UserIds, admin \in UserIds :
          /\ Called(s, "disable")
          /\ \/ Answer(s, "refused")
             \/ req' = [req EXCEPT ![s] = [Blank EXCEPT
                          !.op = "disable", !.pc = "disableFind", !.user = u,
                          !.actor = admin]]
    BY <1>1 DEF DisableUser
  <2>2. [Blank EXCEPT !.op = "disable", !.pc = "disableFind", !.user = u,
           !.actor = admin] \in ShapedRequests
    BY <2>1, NoneAssumption DEF AllRoutes, Called, Blank, ShapedRequests, Shaped, Requests,
                                PCs, HasUser, HasToken, HasActor
  <2>3. RequestShape'
    BY <2>1, <2>2, Answered, Placed DEF Typed, Outcomes
  <2>4. QED BY <1>1, <2>3, TypedIfReq DEF DisableUser
<1>2. CASE DisableFind(s)
  <2>1. req[s] \in Requests /\ Shaped(req[s]) /\ req[s].pc = "disableFind"
    BY <1>2, RequestTyped DEF Typed, DisableFind, At
  <2>2. Shaped([req[s] EXCEPT !.pc = "disableWrite"])
    BY <2>1 DEF Shaped, Requests, HasUser, HasToken, HasActor, PCs
  <2>3. RequestShape'
    BY <1>2, <2>2, Continued, Answered DEF DisableFind, Typed, PCs, Outcomes
  <2>4. QED BY <1>2, <2>3, TypedIfReq DEF DisableFind
<1>3. CASE DisableWrite(s)
  <2> DEFINE u == req[s].user
  <2>1. req[s] \in Requests /\ Shaped(req[s]) /\ req[s].pc = "disableWrite"
    BY <1>3, RequestTyped DEF Typed, DisableWrite, At
  <2>2. CASE u \in DOMAIN users
    <3>1. [users[u] EXCEPT !.status = "US2"] \in UserRow
      BY <2>2, RowOfUser DEF UserRow, Typed, Status
    <3>2. users' = [users EXCEPT ![u] = [users[u] EXCEPT !.status = "US2"]]
      BY <1>3, <2>2 DEF DisableWrite
    <3>3. users' \in UserTables
      BY <2>2, <3>1, <3>2, UserWritten DEF Typed
    <3>4. Shaped([req[s] EXCEPT !.pc = "log"])
      BY <2>1 DEF Shaped, Requests, HasUser, HasToken, HasActor, PCs
    <3>5. RequestShape'
      BY <1>3, <2>2, <3>4, Continued DEF DisableWrite, Typed, PCs
    <3>6. QED BY <1>3, <3>3, <3>5, TypedParts DEF DisableWrite, Typed, TypeOK
  <2>3. CASE u \notin DOMAIN users
    BY <1>3, <2>3, Answered, TypedIfReq DEF DisableWrite, Typed, Outcomes, tables
  <2>4. QED BY <2>2, <2>3
<1>4. CASE WriteLog(s)
  <2>1. RequestShape'
    BY <1>4, Answered DEF WriteLog, Typed, Outcomes
  <2>2. audit' \in SUBSET UserIds
    BY <1>4, RowOfUser DEF WriteLog, Typed, TypeOK
  <2>3. QED BY <1>4, <2>1, <2>2, TypedParts DEF WriteLog, Typed, TypeOK
<1>5. QED BY <1>1, <1>2, <1>3, <1>4

LEMMA TypedResetRoutes ==
  ASSUME Typed, NEW s \in Slots, ResetCreate(s) \/ ResetUpdate(s) \/ ResetRemove(s)
  PROVE  Typed'
<1>1. RequestShape'
  BY Answered DEF ResetCreate, ResetUpdate, ResetRemove, Typed, Outcomes
<1>2. resets' \in ResetTables
  <2>1. CASE ResetCreate(s)
    BY <2>1, LinkStored DEF ResetCreate, Typed, TypeOK
  <2>2. CASE ResetUpdate(s)
    <3>1. PICK old \in Tokens, t \in Tokens, u \in UserIds, x \in BOOLEAN :
            /\ Called(s, "resetUpdate") /\ MayName(t)
            /\ IF old \in DOMAIN resets /\ (t = old \/ t \notin DOMAIN resets)
                  /\ u \in DOMAIN users
               THEN /\ resets' = [y \in (DOMAIN resets \ {old}) \union {t} |->
                                    IF y = t THEN [user |-> u, expired |-> x]
                                    ELSE resets[y]]
                    /\ MarkMoved(old, t)
                    /\ Answer(s, "ok")
               ELSE Answer(s, "refused") /\ UNCHANGED <<resets, fate>>
            /\ UNCHANGED <<users, audit, mails>>
      BY <2>2, Zenon DEF ResetUpdate
    <3> DEFINE f == [y \in (DOMAIN resets \ {old}) \union {t} |->
                       IF y = t THEN [user |-> u, expired |-> x] ELSE resets[y]]
    <3>2. f \in ResetTables
      <4>1. /\ DOMAIN f = (DOMAIN resets \ {old}) \union {t}
            /\ f = [y \in DOMAIN f |-> f[y]]
        OBVIOUS
      <4>2. \A y \in DOMAIN f : f[y] \in ResetRow
        BY <4>1, ResetTableIs DEF Typed, TypeOK, ResetRow
      <4>3. DOMAIN f \subseteq Tokens
        BY <4>1, ResetTableIs DEF Typed, TypeOK
      <4>4. QED BY <4>1, <4>2, <4>3, ResetTableIs
    <3>3. resets' = f \/ resets' = resets
      BY <3>1
    <3>4. QED BY <3>2, <3>3 DEF Typed, TypeOK
  <2>3. CASE ResetRemove(s)
    <3>1. PICK t \in Tokens :
            \/ UNCHANGED resets
            \/ resets' = [y \in DOMAIN resets \ {t} |-> resets[y]]
      BY <2>3 DEF ResetRemove
    <3>2. [y \in DOMAIN resets \ {t} |-> resets[y]] \in ResetTables
      BY ResetTableIs DEF Typed, TypeOK
    <3>3. QED BY <3>1, <3>2 DEF Typed, TypeOK
  <2>4. QED BY <2>1, <2>2, <2>3
<1>3. fate' \in [Tokens -> Fates]
  <2>1. CASE UNCHANGED fate
    BY <2>1 DEF Typed, TypeOK
  <2>2. ASSUME NEW t \in Tokens, NEW becomes \in {"stored", "withdrawn"}
        PROVE  Unless(fate[t], becomes) \in Fates
    BY <2>2 DEF Unless, Typed, TypeOK, Fates
  <2>3. ASSUME NEW t \in Tokens, NEW becomes \in {"stored", "withdrawn"},
               fate' = [fate EXCEPT ![t] = Unless(@, becomes)]
        PROVE  fate' \in [Tokens -> Fates]
    BY <2>2, <2>3 DEF Typed, TypeOK
  <2>4. ASSUME NEW old \in Tokens, NEW t \in Tokens, MarkMoved(old, t)
        PROVE  fate' \in [Tokens -> Fates]
    BY <2>2, <2>4 DEF MarkMoved, Typed, TypeOK
  <2>5. QED BY <2>1, <2>3, <2>4
            DEF ResetCreate, ResetUpdate, ResetRemove, MarkStored
<1>4. QED BY <1>1, <1>2, <1>3, TypedParts
          DEF ResetCreate, ResetUpdate, ResetRemove, Typed, TypeOK

LEMMA TypedEnvironment ==
  ASSUME Typed, Expire \/ Crash \/ \E s \in Slots : Fault(s)
  PROVE  Typed'
<1>1. CASE Expire
  <2>1. PICK t \in DOMAIN resets : resets' = [resets EXCEPT ![t].expired = TRUE]
    BY <1>1 DEF Expire
  <2>2. [resets[t] EXCEPT !.expired = TRUE] \in ResetRow
    BY RowOfLink DEF Typed, ResetRow
  <2>3. resets' \in ResetTables
    <3>1. /\ resets = [y \in DOMAIN resets |-> resets[y]]
          /\ \A y \in DOMAIN resets : resets[y] \in ResetRow
          /\ DOMAIN resets \subseteq Tokens
      BY ResetTableIs DEF Typed, TypeOK
    <3> DEFINE old == [resets[t] EXCEPT !.expired = TRUE]
               g == [y \in DOMAIN resets |-> IF y = t THEN old ELSE resets[y]]
    <3>2. resets' = g
      BY <2>1, <3>1
    <3>3. old \in ResetRow
      BY <2>2
    <3> HIDE DEF old
    <3>4. /\ DOMAIN g = DOMAIN resets
          /\ g = [y \in DOMAIN g |-> g[y]]
          /\ \A y \in DOMAIN g : g[y] \in ResetRow
      BY <3>1, <3>3
    <3> HIDE DEF g
    <3>5. g \in ResetTables
      BY <3>1, <3>4, ResetTableIs
    <3>6. QED BY <3>2, <3>5
  <2>4. UNCHANGED <<users, audit, mails, fate, req>>
    BY <1>1 DEF Expire
  <2>5. RequestShape'
    BY <2>4 DEF RequestShape, Typed
  <2>6. QED BY <2>3, <2>4, <2>5, TypedParts DEF Typed, TypeOK
<1>2. CASE Crash
  <2>1. Blank \in ShapedRequests
    BY NoneAssumption DEF AllRoutes, Blank, ShapedRequests, Shaped, Requests,
                          PCs, HasUser, HasToken, HasActor
  <2>2. RequestShape'
    BY <1>2, <2>1 DEF Crash, RequestShape
  <2>3. QED BY <1>2, <2>2, TypedIfReq DEF Crash
<1>3. CASE \E s \in Slots : Fault(s)
  <2>1. PICK s \in Slots : Fault(s)
    BY <1>3
  <2>2. Answer(s, "failed") /\ UNCHANGED <<tables, mails, fate>>
    BY <2>1 DEF Fault
  <2>3. RequestShape'
    BY <2>2, Answered DEF Typed, Outcomes
  <2>4. QED BY <2>2, <2>3, TypedIfReq
<1>4. QED BY <1>1, <1>2, <1>3

LEMMA NextTyped == Typed /\ [Next]_vars => Typed'
<1> SUFFICES ASSUME Typed, [Next]_vars PROVE Typed'
  OBVIOUS
<1>1. CASE UNCHANGED vars
  <2>1. RequestShape'
    BY <1>1 DEF vars, RequestShape, Typed
  <2>2. QED BY <1>1, <2>1, TypedIfReq DEF vars, tables
<1>2. ASSUME NEW s \in Slots, Call(s)
      PROVE  Typed'
  BY <1>2, TypedCallLogin, TypedCode, TypedRefresh, TypedPasswordRoutes, TypedDraw, TypedIssue,
     TypedUsersRoutes, TypedDisable, TypedResetRoutes
     DEF Call
<1>3. ASSUME NEW s \in Slots, Step(s)
      PROVE  Typed'
  BY <1>3, TypedCallLogin, TypedCode, TypedRotate, TypedPasswordRoutes, TypedWriteRow, TypedPurge,
     TypedDraw, TypedInsert, TypedIssue, TypedDisable
     DEF Step
<1>4. QED BY <1>1, <1>2, <1>3, TypedEnvironment DEF Next

\* Every column, history value and request keeps its type, and a request
\* carries at each statement what that statement needs.
THEOREM AlwaysTyped == Spec => []Typed
<1>1. Init => Typed
  BY InitTyped
<1>2. Typed /\ [Next]_vars => Typed'
  BY NextTyped
<1>3. QED BY <1>1, <1>2, PTL DEF Spec

\* The type invariant of Accounts.
THEOREM TypeCorrect == Spec => []TypeOK
<1>1. Typed => TypeOK
  BY DEF Typed
<1>2. QED BY <1>1, AlwaysTyped, PTL
=============================================================================
