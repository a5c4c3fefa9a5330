-------------------------- MODULE TwoFactorProofs ---------------------------
(***************************************************************************)
(* Two-factor codes, for any number of calls, users and digits.            *)
(***************************************************************************)
EXTENDS TwoFactor, TLAPS

LEMMA ErrorStatus ==
  /\ StatusOf(Error("UnauthorizedError")) = 401
  /\ StatusOf(Error("NotFoundError")) = 404
  /\ StatusOf(Error("TypeError")) = 500
  /\ StatusOf(Error("Error")) = 500
  /\ StatusOf(Error("PrismaClientValidationError")) = 500
  /\ StatusOf(Error("PrismaClientInitializationError")) = 500
  /\ StatusOf(Error("P2002")) = 409
  /\ StatusOf(Error("P2003")) = 400
  /\ StatusOf(Error("P2024")) = 400
  /\ StatusOf(Error("P2025")) = 400
<1> USE DEF StatusOf, Error, HttpException, KnownCodes, NotFoundInterceptor,
            UnauthorizedInterceptor, HandleDatabaseErrors, DatabaseInterceptor,
            ConflictInterceptor, AllExceptionsFilter
<1>1. /\ StatusOf(Error("UnauthorizedError")) = 401
      /\ StatusOf(Error("NotFoundError")) = 404
      /\ StatusOf(Error("TypeError")) = 500
      /\ StatusOf(Error("Error")) = 500
  OBVIOUS
<1>2. /\ StatusOf(Error("PrismaClientValidationError")) = 500
      /\ StatusOf(Error("PrismaClientInitializationError")) = 500
  OBVIOUS
<1>3. StatusOf(Error("P2002")) = 409 /\ StatusOf(Error("P2003")) = 400
  OBVIOUS
<1>4. StatusOf(Error("P2024")) = 400 /\ StatusOf(Error("P2025")) = 400
  OBVIOUS
<1> HIDE DEF StatusOf, Error
<1>5. QED BY <1>1, <1>2, <1>3, <1>4

-----------------------------------------------------------------------------
\* What a call carries at each statement.

SigningIn == {"user", "rotate", "spend"}

Shaped(c, r) ==
  /\ r.pc = "idle" => r = Blank
  /\ r.pc \in SigningIn
       => r.op = "signInWithCode" /\ r.user \in UserIds /\ r.row \in RowRef /\ r.status = 0
  /\ r.pc = "reply" => r.op = "signInWithCode" /\ r.row \in RowRef /\ r.status = 0
  /\ r.pc \in {"owner", "insert"} => r.op = "resendCode" /\ r.row = None /\ r.status = 0
  /\ r.pc = "insert" => r.user \in UserIds
  /\ r.pc = "mail" => r.op = "resendCode" /\ r.row \in RowRef /\ r.status = 0
  /\ r.pc = "end" => r.op # None
  /\ (r.op = "resendCode" /\ r.row # None) => r.row \in RowRef /\ r.row.by = c
  /\ (r.op = "signInWithCode" /\ r.row # None) => r.row \in RowRef
  /\ (r.op = "signInWithCode" /\ r.status = 200) => r.pc = "end" /\ r.row \in RowRef

AllShaped == \A c \in Calls : Shaped(c, req[c])

Typed == TypeOK /\ AllShaped

LEMMA CodesAre ==
  ASSUME NEW tbl
  PROVE  tbl \in CodeTables <=> /\ tbl = [x \in DOMAIN tbl |-> tbl[x]]
                                /\ DOMAIN tbl \subseteq Codes
                                /\ \A x \in DOMAIN tbl : tbl[x] \in CodeRow
BY DEF CodeTables

LEMMA UsersAre ==
  ASSUME NEW tbl
  PROVE  tbl \in UserTables <=> /\ tbl = [x \in DOMAIN tbl |-> tbl[x]]
                                /\ DOMAIN tbl \subseteq UserIds
                                /\ \A x \in DOMAIN tbl : tbl[x] \in Emails
BY DEF UserTables

LEMMA RequestIs ==
  ASSUME Typed, NEW c \in Calls
  PROVE  req[c] \in Requests /\ Shaped(c, req[c])
BY DEF Typed, TypeOK, AllShaped

Alone(c) == \A d \in Calls \ {c} : req'[d] = req[d]

LEMMA Wrote ==
  ASSUME Typed, NEW c \in Calls, NEW r \in Requests, Shaped(c, r),
         req' = [req EXCEPT ![c] = r]
  PROVE  req' \in [Calls -> Requests] /\ AllShaped' /\ req'[c] = r /\ Alone(c)
BY DEF Typed, TypeOK, AllShaped, Alone

Ended(c, op, status) ==
  req'[c] = [req[c] EXCEPT !.op = op, !.pc = "end", !.status = status]

\* An answer, which is 200 only to a call that has got beyond its first step.
LEMMA Answered ==
  ASSUME Typed, NEW c \in Calls, NEW op \in Ops, NEW status \in Statuses,
         Answer(c, op, status),
         \/ req[c].op = op /\ (op = "signInWithCode" => req[c].row \in RowRef)
         \/ (req[c].op = op \/ req[c] = Blank) /\ status # 200
  PROVE  /\ req' \in [Calls -> Requests] /\ AllShaped' /\ Alone(c)
         /\ Ended(c, op, status)
<1> DEFINE r == [req[c] EXCEPT !.op = op, !.pc = "end", !.status = status]
<1>1. req[c] \in Requests /\ Shaped(c, req[c])
  BY RequestIs
<1>2. r \in Requests
  BY <1>1 DEF Requests, Statements
<1>3. /\ r.op = op /\ r.pc = "end" /\ r.status = status /\ r.row = req[c].row
      /\ r.user = req[c].user
  BY <1>1 DEF Requests
<1>4. op # None
  BY TwoFactorNone
<1>5. Shaped(c, r)
  BY <1>1, <1>3, <1>4 DEF Shaped, Blank, SigningIn
<1>6. req' = [req EXCEPT ![c] = r]
  BY <1>1 DEF Answer, Requests, Typed, TypeOK
<1> HIDE DEF r
<1>7. QED BY <1>2, <1>5, <1>6, Wrote DEF r, Ended

-----------------------------------------------------------------------------
\* What a step does to a call and to the table codes, as far as the invariants
\* below tell.

Signed(c) == req[c].op = "signInWithCode" /\ req[c].status = 200

SpentBy(c) ==
  /\ At(c, "spend") /\ req[c].op = "signInWithCode" /\ req[c].row \in RowRef
  /\ Alone(c) /\ req'[c].row = req[c].row /\ req'[c].pc = "reply" /\ c \in spent'
  /\ req[c].row.code \in DOMAIN codes
  /\ DOMAIN codes' = DOMAIN codes \ {req[c].row.code}

ReadBy(c) ==
  /\ req[c].row = None /\ req'[c].row \in RowRef /\ codes' = codes
  /\ req'[c].row.code \in DOMAIN codes
  /\ req'[c].row.by = codes[req'[c].row.code].by
  /\ codes[req'[c].row.code].live

InsertedBy(c, k) ==
  /\ At(c, "insert") /\ req[c].row = None /\ k \in Codes \ DOMAIN codes
  /\ req'[c].op = "resendCode" /\ req'[c].row = [code |-> k, by |-> c]
  /\ codes'[k].by = c /\ codes'[k].user \in DOMAIN users'

CallStep(c) ==
  /\ req[c].row # None => req'[c].row = req[c].row /\ req'[c].op = req[c].op
  /\ At(c, "end") => req'[c] = req[c]
  /\ At(c, "spend") => req'[c].pc \in {"spend", "reply", "end"}
  /\ At(c, "reply") => req'[c].pc \in {"reply", "end"}
  /\ c \in spent => c \in spent'
  /\ c \in spent' => c \in spent \/ SpentBy(c)
  /\ Signed(c)' => Signed(c) \/ At(c, "reply")
  /\ req'[c].pc = "reply" => At(c, "reply") \/ SpentBy(c)
  /\ (req'[c].op = "signInWithCode" /\ req'[c].row # None /\ req[c].row = None)
       => ReadBy(c)
  /\ req'[c].pc \in SigningIn => req[c].pc \in SigningIn \/ ReadBy(c)
  /\ c \in opened' => c \in opened \/ (At(c, "rotate") /\ req'[c].pc = "spend")
  /\ c \in faulted => c \in faulted'
  /\ req'[c].pc = "end" => \/ At(c, "end") \/ c \in faulted' \/ Signed(c)'
                          \/ /\ ~At(c, "reply")
                             /\ At(c, "spend") => req[c].row.code \notin DOMAIN codes

CodesStep ==
  /\ \A k \in DOMAIN codes' :
       \/ /\ k \in DOMAIN codes
          /\ codes'[k].by = codes[k].by /\ codes'[k].user = codes[k].user
          /\ ~codes[k].live => codes'[k] = codes[k]
       \/ \E c \in Calls : InsertedBy(c, k)
  /\ \A k \in DOMAIN codes \ DOMAIN codes' :
       \E c \in Calls : SpentBy(c) /\ req[c].row.code = k
  /\ \A k \in DOMAIN codes :
       codes[k].user \in DOMAIN users => codes[k].user \in DOMAIN users'

Steps == Typed' /\ CodesStep /\ \A c \in Calls : CallStep(c)

LEMMA Unmoved ==
  ASSUME NEW c \in Calls, req'[c] = req[c],
         c \in opened' => c \in opened, c \in spent' <=> c \in spent,
         c \in faulted => c \in faulted'
  PROVE  CallStep(c)
BY DEF CallStep, At, Signed

\* A step of one call that leaves the tables alone.
LEMMA OnlyCall ==
  ASSUME Typed, NEW c \in Calls,
         req' \in [Calls -> Requests], AllShaped', Alone(c), CallStep(c),
         codes' = codes, users' = users, spent' = spent,
         opened' = opened \/ opened' = opened \union {c},
         faulted' = faulted \/ faulted' = faulted \union {c}
  PROVE  Steps
<1>1. Typed'
  BY DEF Typed, TypeOK
<1>2. ASSUME NEW d \in Calls PROVE CallStep(d)
  <2>1. CASE d = c
    BY <2>1
  <2>2. CASE d # c
    <3>1. req'[d] = req[d]
      BY <2>2 DEF Alone
    <3>2. /\ d \in opened' => d \in opened
          /\ d \in spent' <=> d \in spent
          /\ d \in faulted => d \in faulted'
      BY <2>2
    <3>3. QED BY <3>1, <3>2, Unmoved
  <2>3. QED BY <2>1, <2>2
<1>3. CodesStep
  BY DEF CodesStep
<1>4. QED BY <1>1, <1>2, <1>3 DEF Steps

LEMMA Throws ==
  ASSUME Typed, NEW c \in Calls, NEW op \in Ops, NEW status \in Statuses, status # 200,
         Answer(c, op, status), req[c].op = op \/ req[c] = Blank, ~At(c, "end"),
         \/ c \in faulted'
         \/ ~At(c, "reply") /\ (At(c, "spend") => req[c].row.code \notin DOMAIN codes),
         codes' = codes, users' = users, opened' = opened, spent' = spent,
         faulted' = faulted \/ faulted' = faulted \union {c}
  PROVE  Steps
<1>1. /\ req' \in [Calls -> Requests] /\ AllShaped' /\ Alone(c)
      /\ Ended(c, op, status)
  <2>1. (req[c].op = op \/ req[c] = Blank) /\ status # 200
    OBVIOUS
  <2>2. QED BY <2>1, Answered
<1>2. req[c] \in Requests /\ Shaped(c, req[c])
  BY RequestIs
<1>3. req'[c].op = op /\ req'[c].pc = "end" /\ req'[c].status = status /\ req'[c].row = req[c].row
  BY <1>1, <1>2 DEF Requests, Ended
<1>4. CallStep(c)
  BY <1>2, <1>3 DEF CallStep, Shaped, Blank, SigningIn, Signed, At
<1>5. QED BY <1>1, <1>4, OnlyCall

-----------------------------------------------------------------------------
\* The actions.

LEMMA SignInWithCodeStep ==
  ASSUME Typed, NEW c \in Calls, SignInWithCode(c)
  PROVE  Steps
<1>1. PICK k \in Codes, e \in Emails \union {None} :
        /\ At(c, "idle")
        /\ IF LiveCodes({k}) = {}
           THEN Throw(c, "signInWithCode", Error("UnauthorizedError"))
           ELSE req' = [req EXCEPT ![c] = [Blank EXCEPT
                  !.op = "signInWithCode", !.pc = "user", !.email = e,
                  !.user = codes[k].user, !.row = [code |-> k, by |-> codes[k].by]]]
        /\ UNCHANGED <<users, codes, opened, spent, faulted>>
  BY DEF SignInWithCode
<1>2. req[c] = Blank /\ ~At(c, "end") /\ ~At(c, "spend") /\ ~At(c, "reply")
  BY <1>1, RequestIs DEF Shaped, At
<1>3. CASE LiveCodes({k}) = {}
  <2>1. Answer(c, "signInWithCode", 401)
    BY <1>1, <1>3, ErrorStatus DEF Throw
  <2>2. QED BY <1>1, <1>2, <2>1, Throws DEF Ops, Statuses
<1>4. CASE LiveCodes({k}) # {}
  <2> DEFINE r == [Blank EXCEPT
        !.op = "signInWithCode", !.pc = "user", !.email = e,
        !.user = codes[k].user, !.row = [code |-> k, by |-> codes[k].by]]
  <2>1. k \in DOMAIN codes /\ codes[k] \in CodeRow /\ codes[k].live
    BY <1>4, CodesAre DEF LiveCodes, Typed, TypeOK
  <2>2. [code |-> k, by |-> codes[k].by] \in RowRef
    BY <2>1 DEF RowRef, CodeRow
  <2>3. /\ r.op = "signInWithCode" /\ r.pc = "user" /\ r.user = codes[k].user
        /\ r.row = [code |-> k, by |-> codes[k].by] /\ r.status = 0 /\ r.email = e
    BY DEF Blank
  <2>4. r \in Requests
    BY <2>1, <2>2 DEF Blank, Requests, Statements, CodeRow, Ops, Statuses
  <2>5. Shaped(c, r)
    BY <2>1, <2>2, <2>3 DEF Shaped, SigningIn, CodeRow
  <2>6. req' = [req EXCEPT ![c] = r]
    BY <1>1, <1>4
  <2> HIDE DEF r
  <2>7. req' \in [Calls -> Requests] /\ AllShaped' /\ req'[c] = r /\ Alone(c)
    BY <2>4, <2>5, <2>6, Wrote
  <2>8. ReadBy(c)
    BY <1>1, <1>2, <2>1, <2>2, <2>3, <2>7 DEF ReadBy, Blank
  <2>9. CallStep(c)
    BY <1>1, <1>2, <2>3, <2>7, <2>8 DEF CallStep, Signed, At, Blank
  <2>10. QED BY <1>1, <2>7, <2>9, OnlyCall
<1>5. QED BY <1>3, <1>4

\* A statement that goes on to the next one and leaves the tables alone.
LEMMA Proceeds ==
  ASSUME Typed, NEW c \in Calls,
         \/ At(c, "user") /\ Proceed(c, "rotate") /\ opened' = opened
         \/ At(c, "rotate") /\ Proceed(c, "spend") /\ opened' = opened \union {c},
         UNCHANGED <<users, codes, spent, faulted>>
  PROVE  Steps
<1>1. PICK pc \in {"rotate", "spend"} :
        /\ Proceed(c, pc)
        /\ \/ At(c, "user") /\ pc = "rotate" /\ opened' = opened
           \/ At(c, "rotate") /\ pc = "spend" /\ opened' = opened \union {c}
  OBVIOUS
<1> DEFINE r == [req[c] EXCEPT !.pc = pc]
<1>2. req[c] \in Requests /\ Shaped(c, req[c])
  BY RequestIs
<1>3. /\ r.op = req[c].op /\ r.pc = pc /\ r.row = req[c].row
      /\ r.status = req[c].status /\ r.user = req[c].user
  BY <1>2 DEF Requests
<1>4. r \in Requests
  BY <1>2 DEF Requests, Statements
<1>5. /\ req[c].op = "signInWithCode" /\ req[c].row \in RowRef
      /\ req[c].status = 0 /\ req[c].user \in UserIds
  BY <1>1, <1>2 DEF Shaped, SigningIn, At
<1>6. Shaped(c, r)
  BY <1>3, <1>5 DEF Shaped, SigningIn
<1>7. req' = [req EXCEPT ![c] = r]
  BY <1>1, <1>2 DEF Proceed, Requests, Typed, TypeOK
<1> HIDE DEF r
<1>8. req' \in [Calls -> Requests] /\ AllShaped' /\ req'[c] = r /\ Alone(c)
  BY <1>4, <1>6, <1>7, Wrote
<1>9. req[c].row # None
  BY <1>5, TwoFactorNone
<1>10. CallStep(c)
  BY <1>1, <1>3, <1>5, <1>8, <1>9 DEF CallStep, Signed, At, SigningIn
<1>11. QED BY <1>1, <1>8, <1>10, OnlyCall

LEMMA FindUserStep ==
  ASSUME Typed, NEW c \in Calls, FindUser(c)
  PROVE  Steps
<1>1. /\ At(c, "user") /\ ~At(c, "end") /\ ~At(c, "spend") /\ ~At(c, "reply")
      /\ req[c].op = "signInWithCode"
      /\ UNCHANGED <<users, codes, opened, spent, faulted>>
  BY RequestIs DEF FindUser, Shaped, SigningIn, At
<1>2. \/ Answer(c, "signInWithCode", 500) \/ Answer(c, "signInWithCode", 404)
      \/ Proceed(c, "rotate")
  BY ErrorStatus DEF FindUser, Throw
<1>3. CASE Answer(c, "signInWithCode", 500)
  BY <1>1, <1>3, Throws DEF Ops, Statuses
<1>4. CASE Answer(c, "signInWithCode", 404)
  BY <1>1, <1>4, Throws DEF Ops, Statuses
<1>5. CASE Proceed(c, "rotate")
  BY <1>1, <1>5, Proceeds
<1>6. QED BY <1>2, <1>3, <1>4, <1>5

LEMMA RotateStep ==
  ASSUME Typed, NEW c \in Calls, Rotate(c)
  PROVE  Steps
<1>1. /\ At(c, "rotate") /\ ~At(c, "end") /\ ~At(c, "spend") /\ ~At(c, "reply")
      /\ req[c].op = "signInWithCode"
      /\ UNCHANGED <<users, codes, spent, faulted>>
  BY RequestIs DEF Rotate, Shaped, SigningIn, At
<1>2. \/ Answer(c, "signInWithCode", 500) /\ opened' = opened
      \/ Proceed(c, "spend") /\ opened' = opened \union {c}
  BY ErrorStatus DEF Rotate, Throw
<1>3. CASE Answer(c, "signInWithCode", 500) /\ opened' = opened
  BY <1>1, <1>3, Throws DEF Ops, Statuses
<1>4. CASE Proceed(c, "spend") /\ opened' = opened \union {c}
  BY <1>1, <1>4, Proceeds
<1>5. QED BY <1>2, <1>3, <1>4

LEMMA SpendStep ==
  ASSUME Typed, NEW c \in Calls, Spend(c)
  PROVE  Steps
<1> DEFINE k == req[c].row.code
<1>1. /\ At(c, "spend") /\ ~At(c, "end") /\ ~At(c, "reply")
      /\ UNCHANGED <<users, opened, faulted>>
  BY DEF Spend, At
<1>2. req[c] \in Requests /\ Shaped(c, req[c])
  BY RequestIs
<1>3. req[c].op = "signInWithCode" /\ req[c].row \in RowRef /\ req[c].status = 0
  BY <1>1, <1>2 DEF Shaped, SigningIn, At
<1>4. CASE k \notin DOMAIN codes
  <2>1. /\ Answer(c, "signInWithCode", 400)
        /\ codes' = codes /\ spent' = spent
    BY <1>4, ErrorStatus DEF Spend, Spendable, Throw
  <2>2. QED BY <1>1, <1>3, <1>4, <2>1, Throws DEF Ops, Statuses
<1>5. CASE k \in DOMAIN codes
  <2> DEFINE r == [req[c] EXCEPT !.pc = "reply"]
  <2>1. /\ codes' = [x \in DOMAIN codes \ {k} |-> codes[x]]
        /\ spent' = spent \union {c} /\ Proceed(c, "reply")
    BY <1>5 DEF Spend, Spendable
  <2>2. /\ r.op = "signInWithCode" /\ r.pc = "reply" /\ r.row = req[c].row
        /\ r.status = 0 /\ r \in Requests
    BY <1>2, <1>3 DEF Requests, Statements
  <2>3. Shaped(c, r) /\ req' = [req EXCEPT ![c] = r]
    BY <1>2, <1>3, <2>1, <2>2 DEF Shaped, SigningIn, Proceed, Requests, Typed, TypeOK
  <2> HIDE DEF r
  <2>4. req' \in [Calls -> Requests] /\ AllShaped' /\ req'[c] = r /\ Alone(c)
    BY <2>2, <2>3, Wrote
  <2>5. codes' \in CodeTables
    <3>1. codes \in CodeTables
      BY DEF Typed, TypeOK
    <3>2. QED BY <2>1, <3>1, CodesAre
  <2>6. DOMAIN codes' = DOMAIN codes \ {k} /\ \A x \in DOMAIN codes' : codes'[x] = codes[x]
    BY <2>1
  <2>7. SpentBy(c)
    BY <1>1, <1>3, <1>5, <2>1, <2>2, <2>4, <2>6 DEF SpentBy
  <2>8. CallStep(c)
    <3>1. spent \subseteq spent'
      BY <2>1
    <3>2. QED
      BY <1>1, <1>3, <2>2, <2>4, <2>7, <3>1 DEF CallStep, Signed, At, SigningIn
  <2>9. ASSUME NEW d \in Calls PROVE CallStep(d)
    <3>1. CASE d = c
      BY <2>8, <3>1
    <3>2. CASE d # c
      BY <1>1, <2>1, <2>4, <3>2, Unmoved DEF Alone
    <3>3. QED BY <3>1, <3>2
  <2>10. CodesStep
    BY <1>1, <2>6, <2>7 DEF CodesStep
  <2>11. Typed'
    BY <1>1, <2>1, <2>4, <2>5 DEF Typed, TypeOK
  <2>12. QED BY <2>9, <2>10, <2>11 DEF Steps
<1>6. QED BY <1>4, <1>5

LEMMA ReplyStep ==
  ASSUME Typed, NEW c \in Calls, Reply(c)
  PROVE  Steps
<1>1. /\ At(c, "reply") /\ Answer(c, "signInWithCode", 200)
      /\ UNCHANGED <<users, codes, opened, spent, faulted>>
  BY DEF Reply
<1>2. req[c] \in Requests /\ Shaped(c, req[c])
  BY RequestIs
<1>3. req[c].op = "signInWithCode" /\ req[c].row \in RowRef
  BY <1>1, <1>2 DEF Shaped, At
<1>4. /\ req' \in [Calls -> Requests] /\ AllShaped' /\ Alone(c)
      /\ Ended(c, "signInWithCode", 200)
  <2>1. "signInWithCode" \in Ops /\ 200 \in Statuses
    BY DEF Ops, Statuses
  <2>2. QED BY <1>1, <1>3, <2>1, Answered
<1>5. /\ req'[c].op = "signInWithCode" /\ req'[c].pc = "end"
      /\ req'[c].status = 200 /\ req'[c].row = req[c].row
  BY <1>2, <1>4 DEF Requests, Ended
<1>6. req[c].row # None
  BY <1>3, TwoFactorNone
<1>7. CallStep(c)
  BY <1>1, <1>3, <1>5, <1>6 DEF CallStep, Signed, At, SigningIn
<1>8. QED BY <1>1, <1>4, <1>7, OnlyCall

LEMMA ResendCodeStep ==
  ASSUME Typed, NEW c \in Calls, ResendCode(c)
  PROVE  Steps
<1>1. /\ At(c, "idle") /\ req[c] = Blank /\ ~At(c, "end") /\ ~At(c, "spend") /\ ~At(c, "reply")
      /\ UNCHANGED <<users, codes, opened, spent, faulted>>
  BY RequestIs DEF ResendCode, Shaped, At
<1>2. \/ Answer(c, "resendCode", 500) \/ Answer(c, "resendCode", 401)
      \/ \E e \in Emails \union {None} :
           req' = [req EXCEPT ![c] = [Blank EXCEPT
             !.op = "resendCode", !.pc = "owner", !.email = e]]
  <2>1. ASSUME Throw(c, "resendCode", Error("PrismaClientValidationError"))
        PROVE  Answer(c, "resendCode", 500)
    <3>1. StatusOf(Error("PrismaClientValidationError")) = 500
      BY ErrorStatus
    <3>2. QED BY <2>1, <3>1 DEF Throw
  <2>2. ASSUME NEW accepted \in SUBSET Codes, NEW e \in Emails \union {None},
               IF LiveCodes(accepted) = {}
               THEN Throw(c, "resendCode", Error("UnauthorizedError"))
               ELSE req' = [req EXCEPT ![c] = [Blank EXCEPT
                      !.op = "resendCode", !.pc = "owner", !.email = e]]
        PROVE  \/ Answer(c, "resendCode", 401)
               \/ req' = [req EXCEPT ![c] = [Blank EXCEPT
                    !.op = "resendCode", !.pc = "owner", !.email = e]]
    <3>1. StatusOf(Error("UnauthorizedError")) = 401
      BY ErrorStatus
    <3>2. QED BY <2>2, <3>1 DEF Throw
  <2>3. \/ Throw(c, "resendCode", Error("PrismaClientValidationError"))
        \/ \E accepted \in SUBSET Codes, e \in Emails \union {None} :
             IF LiveCodes(accepted) = {}
             THEN Throw(c, "resendCode", Error("UnauthorizedError"))
             ELSE req' = [req EXCEPT ![c] = [Blank EXCEPT
                    !.op = "resendCode", !.pc = "owner", !.email = e]]
    BY DEF ResendCode
  <2>4. QED BY <2>1, <2>2, <2>3, Zenon
<1>3. CASE Answer(c, "resendCode", 500)
  BY <1>1, <1>3, Throws DEF Ops, Statuses
<1>4. CASE Answer(c, "resendCode", 401)
  BY <1>1, <1>4, Throws DEF Ops, Statuses
<1>5. ASSUME NEW e \in Emails \union {None},
             req' = [req EXCEPT ![c] = [Blank EXCEPT
               !.op = "resendCode", !.pc = "owner", !.email = e]]
      PROVE  Steps
  <2> DEFINE r == [Blank EXCEPT !.op = "resendCode", !.pc = "owner", !.email = e]
  <2>1. /\ r.op = "resendCode" /\ r.pc = "owner" /\ r.row = None /\ r.status = 0
        /\ r \in Requests
    BY DEF Blank, Requests, Statements, Ops, Statuses
  <2>2. Shaped(c, r)
    BY <2>1 DEF Shaped, SigningIn
  <2>3. req' = [req EXCEPT ![c] = r]
    BY <1>5
  <2> HIDE DEF r
  <2>4. req' \in [Calls -> Requests] /\ AllShaped' /\ req'[c] = r /\ Alone(c)
    BY <2>1, <2>2, <2>3, Wrote
  <2>5. CallStep(c)
    BY <1>1, <2>1, <2>4 DEF CallStep, Signed, At, Blank, SigningIn
  <2>6. QED BY <1>1, <2>4, <2>5, OnlyCall
<1>6. QED BY <1>2, <1>3, <1>4, <1>5

LEMMA FindOwnerStep ==
  ASSUME Typed, NEW c \in Calls, FindOwner(c)
  PROVE  Steps
<1>1. /\ At(c, "owner") /\ ~At(c, "end") /\ ~At(c, "spend") /\ ~At(c, "reply")
      /\ UNCHANGED <<users, codes, opened, spent, faulted>>
  BY DEF FindOwner, At
<1>2. req[c] \in Requests /\ Shaped(c, req[c])
  BY RequestIs
<1>3. req[c].op = "resendCode" /\ req[c].row = None /\ req[c].status = 0
  BY <1>1, <1>2 DEF Shaped, At
<1>4. \/ Answer(c, "resendCode", 404)
      \/ \E u \in DOMAIN users : req' = [req EXCEPT ![c].pc = "insert", ![c].user = u]
  BY ErrorStatus DEF FindOwner, Throw
<1>5. CASE Answer(c, "resendCode", 404)
  BY <1>1, <1>3, <1>5, Throws DEF Ops, Statuses
<1>6. ASSUME NEW u \in DOMAIN users, req' = [req EXCEPT ![c].pc = "insert", ![c].user = u]
      PROVE  Steps
  <2> DEFINE r == [req[c] EXCEPT !.pc = "insert", !.user = u]
  <2>1. u \in UserIds
    BY UsersAre DEF Typed, TypeOK
  <2>2. /\ r.op = "resendCode" /\ r.pc = "insert" /\ r.row = None /\ r.status = 0
        /\ r.user = u
    BY <1>2, <1>3 DEF Requests
  <2>3. r \in Requests
    BY <1>2, <2>1 DEF Requests, Statements
  <2>4. Shaped(c, r)
    BY <2>1, <2>2 DEF Shaped, SigningIn
  <2>5. req' = [req EXCEPT ![c] = r]
    BY <1>2, <1>6 DEF Requests, Typed, TypeOK
  <2> HIDE DEF r
  <2>6. req' \in [Calls -> Requests] /\ AllShaped' /\ req'[c] = r /\ Alone(c)
    BY <2>3, <2>4, <2>5, Wrote
  <2>7. CallStep(c)
    BY <1>1, <1>3, <2>2, <2>6 DEF CallStep, Signed, At, SigningIn
  <2>8. QED BY <1>1, <2>6, <2>7, OnlyCall
<1>7. QED BY <1>4, <1>5, <1>6

LEMMA SendMailStep ==
  ASSUME Typed, NEW c \in Calls, SendMail(c)
  PROVE  Steps
<1>1. /\ At(c, "mail") /\ Answer(c, "resendCode", 200)
      /\ UNCHANGED <<users, codes, opened, spent, faulted>>
  BY DEF SendMail
<1>2. req[c] \in Requests /\ Shaped(c, req[c])
  BY RequestIs
<1>3. req[c].op = "resendCode" /\ req[c].row \in RowRef
  BY <1>1, <1>2 DEF Shaped, At
<1>4. /\ req' \in [Calls -> Requests] /\ AllShaped' /\ Alone(c)
      /\ Ended(c, "resendCode", 200)
  <2>1. "resendCode" \in Ops /\ 200 \in Statuses /\ "resendCode" # "signInWithCode"
    BY DEF Ops, Statuses
  <2>2. QED BY <1>1, <1>3, <2>1, Answered
<1>5. req'[c].op = "resendCode" /\ req'[c].pc = "end" /\ req'[c].row = req[c].row
  BY <1>2, <1>4 DEF Requests, Ended
<1>6. CallStep(c)
  BY <1>1, <1>3, <1>5 DEF CallStep, Signed, At, SigningIn
<1>7. QED BY <1>1, <1>4, <1>6, OnlyCall

LEMMA InsertStep ==
  ASSUME Typed, NEW c \in Calls, Insert(c)
  PROVE  Steps
<1>1. PICK k \in Codes :
        IF k \notin DOMAIN codes /\ req[c].user \in DOMAIN users
        THEN /\ codes' = [x \in DOMAIN codes \union {k} |->
                            IF x = k THEN NewCode(c) ELSE codes[x]]
             /\ req' = [req EXCEPT ![c].pc = "mail",
                                   ![c].row = [code |-> k, by |-> c]]
        ELSE /\ Throw(c, "resendCode",
                      Error(IF k \in DOMAIN codes THEN "P2002" ELSE "P2003"))
             /\ UNCHANGED codes
  BY DEF Insert
<1>2. /\ At(c, "insert") /\ ~At(c, "end") /\ ~At(c, "spend") /\ ~At(c, "reply")
      /\ UNCHANGED <<users, opened, spent, faulted>>
  BY DEF Insert, At
<1>3. req[c] \in Requests /\ Shaped(c, req[c])
  BY RequestIs
<1>4. /\ req[c].op = "resendCode" /\ req[c].row = None /\ req[c].status = 0
      /\ req[c].user \in UserIds
  BY <1>2, <1>3 DEF Shaped, At
<1>5. CASE ~(k \notin DOMAIN codes /\ req[c].user \in DOMAIN users)
  <2>1. codes' = codes /\ (Answer(c, "resendCode", 409) \/ Answer(c, "resendCode", 400))
    BY <1>1, <1>5, ErrorStatus DEF Throw
  <2>2. CASE Answer(c, "resendCode", 409)
    BY <1>2, <1>4, <2>1, <2>2, Throws DEF Ops, Statuses
  <2>3. CASE Answer(c, "resendCode", 400)
    BY <1>2, <1>4, <2>1, <2>3, Throws DEF Ops, Statuses
  <2>4. QED BY <2>1, <2>2, <2>3
<1>6. CASE k \notin DOMAIN codes /\ req[c].user \in DOMAIN users
  <2> DEFINE r == [req[c] EXCEPT !.pc = "mail", !.row = [code |-> k, by |-> c]]
  <2>1. /\ codes' = [x \in DOMAIN codes \union {k} |->
                        IF x = k THEN NewCode(c) ELSE codes[x]]
        /\ req' = [req EXCEPT ![c].pc = "mail", ![c].row = [code |-> k, by |-> c]]
    BY <1>1, <1>6
  <2>2. [code |-> k, by |-> c] \in RowRef
    BY DEF RowRef
  <2>3. /\ r.op = "resendCode" /\ r.pc = "mail" /\ r.row = [code |-> k, by |-> c]
        /\ r.status = 0 /\ r.user = req[c].user
    BY <1>3, <1>4 DEF Requests
  <2>4. r \in Requests
    BY <1>3, <2>2 DEF Requests, Statements
  <2>5. Shaped(c, r)
    BY <2>2, <2>3 DEF Shaped, SigningIn
  <2>6. req' = [req EXCEPT ![c] = r]
    BY <1>3, <2>1 DEF Requests, Typed, TypeOK
  <2> HIDE DEF r
  <2>7. req' \in [Calls -> Requests] /\ AllShaped' /\ req'[c] = r /\ Alone(c)
    BY <2>4, <2>5, <2>6, Wrote
  <2>8. /\ NewCode(c) \in CodeRow
        /\ NewCode(c).by = c /\ NewCode(c).user = req[c].user
    BY <1>4 DEF NewCode, CodeRow
  <2>9. codes' \in CodeTables
    <3>1. codes \in CodeTables
      BY DEF Typed, TypeOK
    <3>2. QED BY <2>1, <2>8, <3>1, CodesAre
  <2>10. /\ DOMAIN codes' = DOMAIN codes \union {k} /\ codes'[k] = NewCode(c)
         /\ \A x \in DOMAIN codes : x # k => codes'[x] = codes[x]
    BY <2>1
  <2>11. InsertedBy(c, k)
    BY <1>2, <1>4, <1>6, <2>3, <2>7, <2>8, <2>10 DEF InsertedBy
  <2>12. CallStep(c)
    BY <1>2, <1>4, <2>3, <2>7 DEF CallStep, Signed, At, SigningIn
  <2>13. ASSUME NEW d \in Calls PROVE CallStep(d)
    <3>1. CASE d = c
      BY <2>12, <3>1
    <3>2. CASE d # c
      BY <1>2, <2>7, <3>2, Unmoved DEF Alone
    <3>3. QED BY <3>1, <3>2
  <2>14. CodesStep
    BY <1>2, <1>6, <2>10, <2>11 DEF CodesStep
  <2>15. Typed'
    BY <1>2, <2>7, <2>9 DEF Typed, TypeOK
  <2>16. QED BY <2>13, <2>14, <2>15 DEF Steps
<1>7. QED BY <1>5, <1>6

\* A step of no call.
LEMMA NoCall ==
  ASSUME Typed, codes' \in CodeTables, users' \in UserTables,
         DOMAIN codes' = DOMAIN codes,
         \A k \in DOMAIN codes :
           /\ codes'[k].by = codes[k].by /\ codes'[k].user = codes[k].user
           /\ ~codes[k].live => codes'[k] = codes[k]
           /\ codes[k].user \in DOMAIN users => codes[k].user \in DOMAIN users',
         UNCHANGED <<req, opened, spent, faulted>>
  PROVE  Steps
<1>1. Typed'
  BY DEF Typed, TypeOK, AllShaped, Shaped
<1>2. CodesStep
  BY DEF CodesStep
<1>3. \A c \in Calls : CallStep(c)
  BY Unmoved
<1>4. QED BY <1>1, <1>2, <1>3 DEF Steps

LEMMA ExpireStep ==
  ASSUME Typed, Expire
  PROVE  Steps
<1>1. PICK k \in DOMAIN codes :
        /\ codes[k].live /\ codes' = [codes EXCEPT ![k].live = FALSE]
        /\ UNCHANGED <<users, req, opened, spent, faulted>>
  BY DEF Expire
<1>2. /\ codes \in CodeTables /\ codes = [x \in DOMAIN codes |-> codes[x]]
      /\ DOMAIN codes \subseteq Codes /\ \A x \in DOMAIN codes : codes[x] \in CodeRow
  BY CodesAre DEF Typed, TypeOK
<1> DEFINE r == [codes[k] EXCEPT !.live = FALSE]
<1>3. r \in CodeRow /\ r.by = codes[k].by /\ r.user = codes[k].user
  BY <1>2 DEF CodeRow
<1>4. /\ DOMAIN codes' = DOMAIN codes /\ codes' = [x \in DOMAIN codes' |-> codes'[x]]
      /\ codes'[k] = r /\ \A x \in DOMAIN codes : x # k => codes'[x] = codes[x]
  BY <1>1, <1>2, <1>3 DEF CodeRow
<1> HIDE DEF r
<1>5. codes' \in CodeTables
  BY <1>2, <1>3, <1>4, CodesAre
<1>6. \A x \in DOMAIN codes :
        /\ codes'[x].by = codes[x].by /\ codes'[x].user = codes[x].user
        /\ ~codes[x].live => codes'[x] = codes[x]
  BY <1>1, <1>3, <1>4
<1>7. users' \in UserTables
  BY <1>1 DEF Typed, TypeOK
<1>8. QED BY <1>1, <1>4, <1>5, <1>6, <1>7, NoCall

LEMMA MoveEmailStep ==
  ASSUME Typed, MoveEmail
  PROVE  Steps
<1>1. PICK u \in DOMAIN users, e \in Emails :
        users' = [users EXCEPT ![u] = e] /\ UNCHANGED <<codes, req, opened, spent, faulted>>
  BY DEF MoveEmail
<1>2. users \in UserTables /\ codes \in CodeTables
  BY DEF Typed, TypeOK
<1>3. users' \in UserTables /\ DOMAIN users' = DOMAIN users
  BY <1>1, <1>2, UsersAre
<1>4. QED BY <1>1, <1>2, <1>3, NoCall

LEMMA DeleteUserStep ==
  ASSUME Typed, DeleteUser
  PROVE  Steps
<1>1. PICK u \in DOMAIN users :
        /\ ~HasCodes(u) /\ users' = [v \in DOMAIN users \ {u} |-> users[v]]
        /\ UNCHANGED <<codes, req, opened, spent, faulted>>
  BY DEF DeleteUser
<1>2. users \in UserTables /\ codes \in CodeTables
  BY DEF Typed, TypeOK
<1>3. users' \in UserTables /\ DOMAIN users' = DOMAIN users \ {u}
  BY <1>1, <1>2, UsersAre
<1>4. \A k \in DOMAIN codes : codes[k].user # u
  BY <1>1 DEF HasCodes
<1>5. QED BY <1>1, <1>2, <1>3, <1>4, NoCall

LEMMA FaultStep ==
  ASSUME Typed, NEW c \in Calls, Fault(c)
  PROVE  Steps
<1>1. /\ Running(c) /\ faulted' = faulted \union {c}
      /\ UNCHANGED <<users, codes, opened, spent>>
  BY DEF Fault
<1>2. ~At(c, "end") /\ c \in faulted'
  BY <1>1 DEF Running, At, Statements
<1>3. req[c].op \in Ops
  BY <1>1, RequestIs DEF Running, At, Statements, Shaped, SigningIn, Ops
<1>4. Answer(c, req[c].op, 500) \/ Answer(c, req[c].op, 400)
  BY ErrorStatus DEF Fault, Throw
<1>5. CASE Answer(c, req[c].op, 500)
  BY <1>1, <1>2, <1>3, <1>5, Throws DEF Statuses
<1>6. CASE Answer(c, req[c].op, 400)
  BY <1>1, <1>2, <1>3, <1>6, Throws DEF Statuses
<1>7. QED BY <1>4, <1>5, <1>6

LEMMA CrashStep ==
  ASSUME Typed, Crash
  PROVE  Steps
<1> DEFINE lost == {c \in Calls : Running(c)}
<1>1. /\ req' = [c \in Calls |-> IF c \in lost THEN [req[c] EXCEPT !.pc = "end"] ELSE req[c]]
      /\ faulted' = faulted \union lost /\ UNCHANGED <<users, codes, opened, spent>>
  BY DEF Crash
<1>2. ASSUME NEW c \in Calls
      PROVE  req'[c] \in Requests /\ Shaped(c, req'[c]) /\ CallStep(c)
  <2>1. req[c] \in Requests /\ Shaped(c, req[c])
    BY RequestIs
  <2>2. CASE c \notin lost
    <3>1. req'[c] = req[c]
      BY <1>1, <2>2
    <3>2. /\ c \in opened' => c \in opened
          /\ c \in spent' <=> c \in spent
          /\ c \in faulted => c \in faulted'
      BY <1>1
    <3>3. QED BY <2>1, <3>1, <3>2, Unmoved
  <2>3. CASE c \in lost
    <3> DEFINE r == [req[c] EXCEPT !.pc = "end"]
    <3>1. req'[c] = r
      BY <1>1, <2>3
    <3>2. /\ r.op = req[c].op /\ r.pc = "end" /\ r.row = req[c].row
          /\ r.status = req[c].status
      BY <2>1 DEF Requests
    <3>3. r \in Requests
      BY <2>1 DEF Requests
    <3> HIDE DEF r
    <3>4. ~At(c, "end") /\ ~At(c, "idle") /\ req[c].pc \in Statements
      BY <2>3 DEF Running, At, Statements
    <3>5. req[c].op # None /\ req[c].status = 0
      BY <2>1, <3>4, TwoFactorNone DEF Statements, Shaped, SigningIn, Ops
    <3>6. Shaped(c, r)
      BY <2>1, <3>2, <3>5 DEF Shaped, SigningIn
    <3>7. /\ c \in faulted' /\ c \in Calls /\ (c \in opened' => c \in opened)
          /\ c \in spent' <=> c \in spent
      BY <1>1, <2>3
    <3>8. CallStep(c)
      BY <3>1, <3>2, <3>4, <3>5, <3>7 DEF CallStep, Signed, At, SigningIn
    <3>9. QED BY <3>1, <3>3, <3>6, <3>8
  <2>4. QED BY <2>2, <2>3
<1>3. req' \in [Calls -> Requests]
  <2>1. req' = [c \in Calls |-> req'[c]]
    BY <1>1
  <2>2. QED BY <1>2, <2>1
<1>4. faulted' \in SUBSET Calls
  BY <1>1 DEF Typed, TypeOK
<1>5. Typed'
  BY <1>1, <1>2, <1>3, <1>4 DEF Typed, TypeOK, AllShaped
<1>6. CodesStep
  BY <1>1 DEF CodesStep
<1>7. QED BY <1>2, <1>5, <1>6 DEF Steps

LEMMA EveryStep ==
  ASSUME Typed, Next
  PROVE  Steps
BY SignInWithCodeStep, FindUserStep, RotateStep, SpendStep, ReplyStep, ResendCodeStep,
   FindOwnerStep, InsertStep, SendMailStep, ExpireStep, MoveEmailStep,
   DeleteUserStep, FaultStep, CrashStep DEF Next, Call, Statement

LEMMA TypedInit == Init => Typed
<1> SUFFICES ASSUME Init PROVE Typed
  OBVIOUS
<1>1. Blank \in Requests
  BY DEF Blank, Requests, Statuses
<1>2. \A c \in Calls : Shaped(c, Blank)
  BY DEF Shaped, Blank, SigningIn
<1>3. TypeOK
  BY <1>1, TwoFactorInstance DEF Init, TypeOK
<1>4. AllShaped
  BY <1>2 DEF Init, AllShaped
<1>5. QED BY <1>3, <1>4 DEF Typed

LEMMA TypedNext == Typed /\ [Next]_vars => Typed'
<1>1. Typed /\ UNCHANGED vars => Typed'
  BY DEF vars, Typed, TypeOK, AllShaped, Shaped
<1>2. QED BY <1>1, EveryStep DEF Steps

LEMMA AlwaysTyped == Spec => []Typed
BY TypedInit, TypedNext, PTL DEF Spec

-----------------------------------------------------------------------------
\* Every variable stays in its type.
THEOREM TypeCorrect == Spec => []TypeOK
<1>1. Typed => TypeOK
  BY DEF Typed
<1>2. QED BY <1>1, AlwaysTyped, PTL

\* A code is inserted for a user who is stored then, and its user cannot go
\* before it: every code has its user.
THEOREM AlwaysKeepUser == Spec => []CodesKeepUser
<1>1. Init => CodesKeepUser
  BY TwoFactorInstance DEF Init, CodesKeepUser
<1>2. CodesKeepUser /\ Typed /\ [Next]_vars => CodesKeepUser'
  <2>1. ASSUME CodesKeepUser, Typed, Next PROVE CodesKeepUser'
    <3>1. CodesStep
      BY <2>1, EveryStep DEF Steps
    <3>2. QED BY <2>1, <3>1 DEF CodesKeepUser, CodesStep, InsertedBy
  <2>2. CodesKeepUser /\ UNCHANGED vars => CodesKeepUser'
    BY DEF vars, CodesKeepUser
  <2>3. QED BY <2>1, <2>2
<1>3. QED BY <1>1, <1>2, AlwaysTyped, PTL DEF Spec

-----------------------------------------------------------------------------
\* A code that a sign-in deletes is gone, and only a draw brings its digits
\* back.  For that, a row is told from an earlier one with the same digits: it
\* names the resend that inserted it, which names it.

RowsNameResend ==
  /\ \A k \in DOMAIN codes :
       codes[k].by # None =>
         /\ req[codes[k].by].op = "resendCode"
         /\ req[codes[k].by].row # None /\ req[codes[k].by].row.code = k
  /\ \A c \in Calls :
       (req[c].op = "signInWithCode" /\ req[c].row # None /\ req[c].row.by # None) =>
         /\ req[req[c].row.by].op = "resendCode" /\ req[req[c].row.by].row # None
         /\ req[req[c].row.by].row.code = req[c].row.code

SpentIsGone ==
  \A c \in spent : DrawnAgain(req[c].row) \/ req[c].row.code \notin DOMAIN codes

\* A sign-in that has deleted its code is on its way to the answer or has ended,
\* and one at the answer, or successful, has deleted its code.
SpentIs ==
  /\ \A c \in spent :
       /\ At(c, "reply") \/ At(c, "end")
       /\ req[c].op = "signInWithCode" /\ req[c].row # None
  /\ \A c \in Calls : At(c, "reply") \/ Signed(c) => c \in spent

OnePerCode ==
  \A c, d \in spent : (c # d /\ req[c].row = req[d].row) => DrawnAgain(req[c].row)

SpendInv == RowsNameResend /\ SpentIs /\ SpentIsGone /\ OnePerCode

\* Rows stay: what a call has read or inserted it keeps.
LEMMA RowStays ==
  ASSUME Steps, NEW c \in Calls, req[c].row # None
  PROVE  req'[c].row = req[c].row /\ req'[c].op = req[c].op
BY DEF Steps, CallStep

LEMMA DrawnStays ==
  ASSUME Steps, NEW row, DrawnAgain(row)
  PROVE  DrawnAgain(row)'
<1>1. PICK d \in Calls : /\ req[d].op = "resendCode" /\ req[d].row # None
                         /\ req[d].row.code = row.code /\ d # row.by
  BY DEF DrawnAgain
<1>2. req'[d].row = req[d].row /\ req'[d].op = req[d].op
  BY <1>1, RowStays
<1>3. QED BY <1>1, <1>2 DEF DrawnAgain

LEMMA SpentRow ==
  ASSUME Typed, SpentIs, NEW c \in spent
  PROVE  /\ c \in Calls /\ (At(c, "reply") \/ At(c, "end"))
         /\ req[c].op = "signInWithCode" /\ req[c].row \in RowRef /\ req[c].row # None
<1>1. c \in Calls
  BY DEF Typed, TypeOK
<1>2. QED BY <1>1, RequestIs DEF SpentIs, Shaped

LEMMA SpentIsStep ==
  ASSUME Typed, Steps, SpentIs
  PROVE  SpentIs'
<1>1. spent \subseteq Calls /\ spent' \subseteq Calls
  BY DEF Steps, Typed, TypeOK
<1>2. ASSUME NEW c \in spent'
      PROVE  /\ At(c, "reply")' \/ At(c, "end")'
             /\ req'[c].op = "signInWithCode" /\ req'[c].row # None
  <2>1. CallStep(c)
    BY <1>1 DEF Steps
  <2>2. CASE c \in spent
    <3>1. /\ At(c, "reply") \/ At(c, "end")
          /\ req[c].op = "signInWithCode" /\ req[c].row # None
      BY <2>2 DEF SpentIs
    <3>2. req'[c].pc \in {"reply", "end"}
      BY <2>1, <3>1 DEF CallStep, At
    <3>3. QED BY <2>1, <3>1, <3>2 DEF CallStep, At
  <2>3. CASE SpentBy(c)
    BY <2>1, <2>3, TwoFactorNone DEF CallStep, SpentBy, At
  <2>4. QED BY <2>1, <2>2, <2>3 DEF CallStep
<1>3. ASSUME NEW c \in Calls, At(c, "reply")' \/ Signed(c)'
      PROVE  c \in spent'
  <2>1. CallStep(c)
    BY DEF Steps
  <2>2. SpentBy(c) => c \in spent'
    BY DEF SpentBy
  <2>3. QED BY <1>3, <2>1, <2>2 DEF CallStep, SpentIs, At
<1>4. QED BY <1>2, <1>3 DEF SpentIs

\* The row of a sign-in, before and after a step.
LEMMA RowBefore ==
  ASSUME Steps, NEW c \in Calls, req'[c].op = "signInWithCode", req'[c].row # None
  PROVE  \/ req[c].op = "signInWithCode" /\ req[c].row # None /\ req'[c].row = req[c].row
         \/ ReadBy(c)
<1>1. CallStep(c)
  BY DEF Steps
<1>2. CASE req[c].row = None
  BY <1>1, <1>2 DEF CallStep
<1>3. CASE req[c].row # None
  BY <1>3, RowStays
<1>4. QED BY <1>2, <1>3

LEMMA RowsNameResendStep ==
  ASSUME Typed, Steps, RowsNameResend
  PROVE  RowsNameResend'
<1>1. ASSUME NEW b \in Calls, req[b].op = "resendCode", req[b].row # None
      PROVE  req'[b].op = "resendCode" /\ req'[b].row = req[b].row
  BY <1>1, RowStays
<1>2. ASSUME NEW k \in DOMAIN codes', codes'[k].by # None
      PROVE  /\ req'[codes'[k].by].op = "resendCode"
             /\ req'[codes'[k].by].row # None /\ req'[codes'[k].by].row.code = k
  <2>1. CASE k \in DOMAIN codes /\ codes'[k].by = codes[k].by
    <3>1. codes[k].by \in Calls
      BY <1>2, <2>1, CodesAre DEF Typed, TypeOK, CodeRow
    <3>2. /\ req[codes[k].by].op = "resendCode"
          /\ req[codes[k].by].row # None /\ req[codes[k].by].row.code = k
      BY <1>2, <2>1 DEF RowsNameResend
    <3>3. QED BY <1>1, <2>1, <3>1, <3>2
  <2>2. ASSUME NEW c \in Calls, InsertedBy(c, k)
        PROVE  /\ req'[codes'[k].by].op = "resendCode"
               /\ req'[codes'[k].by].row # None /\ req'[codes'[k].by].row.code = k
    <3>1. [code |-> k, by |-> c] \in RowRef
      BY <2>2 DEF InsertedBy, RowRef
    <3>2. QED BY <2>2, <3>1, TwoFactorNone DEF InsertedBy
  <2>3. QED BY <2>1, <2>2 DEF Steps, CodesStep
<1>3. ASSUME NEW c \in Calls, req'[c].op = "signInWithCode",
             req'[c].row # None, req'[c].row.by # None
      PROVE  /\ req'[req'[c].row.by].op = "resendCode" /\ req'[req'[c].row.by].row # None
             /\ req'[req'[c].row.by].row.code = req'[c].row.code
  <2>1. CASE req[c].op = "signInWithCode" /\ req[c].row # None /\ req'[c].row = req[c].row
    <3>1. req[c].row.by \in Calls
      BY <1>3, <2>1, RequestIs DEF Requests, RowRef
    <3>2. /\ req[req[c].row.by].op = "resendCode" /\ req[req[c].row.by].row # None
          /\ req[req[c].row.by].row.code = req[c].row.code
      BY <1>3, <2>1 DEF RowsNameResend
    <3>3. QED BY <1>1, <2>1, <3>1, <3>2
  <2>2. CASE ReadBy(c)
    <3>1. req'[c].row.code \in DOMAIN codes'
          /\ req'[c].row.by = codes'[req'[c].row.code].by
      BY <2>2 DEF ReadBy
    <3>2. QED BY <1>2, <1>3, <3>1
  <2>3. QED BY <1>3, <2>1, <2>2, RowBefore
<1>4. QED BY <1>2, <1>3 DEF RowsNameResend

LEMMA SpentIsGoneStep ==
  ASSUME Typed, Steps, RowsNameResend, SpentIs, SpentIsGone
  PROVE  SpentIsGone'
<1> SUFFICES ASSUME NEW c \in Calls, c \in spent'
             PROVE  DrawnAgain(req[c].row)' \/ req'[c].row.code \notin DOMAIN codes'
  BY DEF SpentIsGone, Steps, Typed, TypeOK
<1>1. CASE c \in spent
  <2>1. /\ c \in spent /\ req[c].op = "signInWithCode"
        /\ req[c].row \in RowRef /\ req[c].row # None
    BY <1>1, SpentRow
  <2>2. req'[c].row = req[c].row
    BY <2>1, RowStays
  <2>3. CASE DrawnAgain(req[c].row)
    BY <2>2, <2>3, DrawnStays DEF DrawnAgain
  <2>4. CASE req[c].row.code \notin DOMAIN codes
    <3>1. SUFFICES ASSUME req'[c].row.code \in DOMAIN codes'
                   PROVE  DrawnAgain(req[c].row)'
      OBVIOUS
    <3>2. PICK d \in Calls : InsertedBy(d, req[c].row.code)
      BY <2>2, <2>4, <3>1 DEF Steps, CodesStep
    <3>3. d # req[c].row.by
      <4>1. SUFFICES ASSUME d = req[c].row.by PROVE FALSE
        OBVIOUS
      <4>2. req[c].row.by # None
        BY <4>1, TwoFactorNone
      <4>3. req[d].row # None
        BY <1>1, <2>1, <4>1, <4>2 DEF RowsNameResend
      <4>4. QED BY <3>2, <4>3 DEF InsertedBy
    <3>4. [code |-> req[c].row.code, by |-> d] \in RowRef
      BY <2>1 DEF RowRef
    <3>5. QED BY <2>2, <3>2, <3>3, <3>4, TwoFactorNone DEF InsertedBy, DrawnAgain
  <2>5. QED BY <2>1, <2>3, <2>4 DEF SpentIsGone
<1>2. CASE SpentBy(c)
  BY <1>2 DEF SpentBy
<1>3. QED BY <1>1, <1>2 DEF Steps, CallStep

LEMMA OnePerCodeStep ==
  ASSUME Typed, Steps, SpentIs, SpentIsGone, OnePerCode
  PROVE  OnePerCode'
<1>1. ASSUME NEW c \in Calls, NEW d \in Calls, c \in spent, SpentBy(d),
             req'[c].row = req'[d].row
      PROVE  DrawnAgain(req[c].row)' /\ req'[c].row = req[c].row
  <2>1. c \in spent /\ req[c].row # None
    BY <1>1, SpentRow
  <2>2. req'[c].row = req[c].row
    BY <2>1, RowStays
  <2>3. req[c].row.code \in DOMAIN codes
    BY <1>1, <2>2 DEF SpentBy
  <2>4. DrawnAgain(req[c].row)
    BY <2>1, <2>3 DEF SpentIsGone
  <2>5. QED BY <2>2, <2>4, DrawnStays DEF DrawnAgain
<1> SUFFICES ASSUME NEW c \in Calls, NEW d \in Calls, c \in spent', d \in spent',
                    c # d, req'[c].row = req'[d].row
             PROVE  DrawnAgain(req[c].row)'
  BY DEF OnePerCode, Steps, Typed, TypeOK
<1>2. CASE c \in spent /\ d \in spent
  <2>1. req[c].row # None /\ req[d].row # None
    BY <1>2, SpentRow
  <2>2. req'[c].row = req[c].row /\ req'[d].row = req[d].row
    BY <2>1, RowStays
  <2>3. DrawnAgain(req[c].row)
    BY <1>2, <2>2 DEF OnePerCode
  <2>4. QED BY <2>2, <2>3, DrawnStays DEF DrawnAgain
<1>3. CASE c \in spent /\ SpentBy(d)
  BY <1>1, <1>3
<1>4. CASE SpentBy(c) /\ d \in spent
  BY <1>1, <1>4 DEF DrawnAgain
<1>5. CASE SpentBy(c) /\ SpentBy(d)
  BY <1>5 DEF SpentBy, At, Alone
<1>6. (c \in spent \/ SpentBy(c)) /\ (d \in spent \/ SpentBy(d))
  BY DEF Steps, CallStep
<1>7. QED BY <1>2, <1>3, <1>4, <1>5, <1>6

\* Of the sign-ins with the same code two delete it, as they do to succeed, only
\* after its digits have been drawn again.
THEOREM AlwaysOneSignIn == Spec => []OneSignInPerCode
<1>1. Init => SpendInv
  <2>1. SUFFICES ASSUME Init PROVE SpendInv
    OBVIOUS
  <2>2. \A c \in Calls : req[c].op = None /\ req[c].row = None /\ req[c].status = 0
    BY <2>1 DEF Init, Blank
  <2>3. spent = {} /\ SpentIs
    BY <2>1 DEF Init, Blank, SpentIs, At, Signed
  <2>4. RowsNameResend
    BY <2>1, <2>2, TwoFactorInstance DEF Init, RowsNameResend
  <2>5. QED BY <2>3, <2>4 DEF SpendInv, SpentIsGone, OnePerCode
<1>2. SpendInv /\ Typed /\ [Next]_vars => SpendInv'
  <2>1. ASSUME SpendInv, Typed, Next PROVE SpendInv'
    BY <2>1, EveryStep, RowsNameResendStep, SpentIsStep, SpentIsGoneStep, OnePerCodeStep
       DEF SpendInv
  <2>2. ASSUME SpendInv, UNCHANGED vars PROVE SpendInv'
    BY <2>2 DEF vars, SpendInv, RowsNameResend, SpentIs, SpentIsGone, OnePerCode, At, Signed,
                DrawnAgain
  <2>3. QED BY <2>1, <2>2
<1>3. SpendInv => OneSignInPerCode
  BY DEF SpendInv, SpentIs, OnePerCode, OneSignInPerCode, SignedIn, Signed
<1>4. QED BY <1>1, <1>2, <1>3, AlwaysTyped, PTL DEF Spec

LEMMA AlwaysSpend == Spec => []SpentIs
<1>1. Init => SpentIs
  BY DEF Init, Blank, SpentIs, At, Signed
<1>2. SpentIs /\ Typed /\ [Next]_vars => SpentIs'
  <2>1. ASSUME SpentIs, UNCHANGED vars PROVE SpentIs'
    BY <2>1 DEF vars, SpentIs, At, Signed
  <2>2. QED BY <2>1, EveryStep, SpentIsStep
<1>3. QED BY <1>1, <1>2, AlwaysTyped, PTL DEF Spec

-----------------------------------------------------------------------------
\* A sign-in past its read of the code finds the code until another sign-in has
\* deleted one with the same digits.

Contended(c) == \E d \in spent : d # c /\ req[d].row.code = req[c].row.code

HoldsOrContended ==
  \A c \in Calls :
    req[c].pc \in SigningIn => req[c].row.code \in DOMAIN codes \/ Contended(c)

OpenedIs ==
  \A c \in opened :
    At(c, "spend") \/ ((At(c, "reply") \/ At(c, "end")) /\ req[c].row # None)

SessionInv == HoldsOrContended /\ OpenedIs /\ ErrorAfterSessionHasCause

LEMMA ContendedStays ==
  ASSUME Typed, Steps, SpentIs, NEW c \in Calls, req'[c].row = req[c].row, Contended(c)
  PROVE  Contended(c)'
<1>1. PICK d \in spent : d # c /\ req[d].row.code = req[c].row.code
  BY DEF Contended
<1>2. d \in Calls /\ req[d].row # None
  BY SpentRow
<1>3. req'[d].row = req[d].row /\ d \in spent'
  BY <1>2, RowStays DEF Steps, CallStep
<1>4. QED BY <1>1, <1>3 DEF Contended

LEMMA HoldsStep ==
  ASSUME Typed, Steps, SpentIs, HoldsOrContended
  PROVE  HoldsOrContended'
<1> SUFFICES ASSUME NEW c \in Calls, req'[c].pc \in SigningIn
             PROVE  req'[c].row.code \in DOMAIN codes' \/ Contended(c)'
  BY DEF HoldsOrContended
<1>1. CASE ReadBy(c)
  BY <1>1 DEF ReadBy
<1>2. CASE req[c].pc \in SigningIn
  <2>1. req[c].row \in RowRef /\ req[c].row # None
    BY <1>2, RequestIs, TwoFactorNone DEF Shaped
  <2>2. req'[c].row = req[c].row
    BY <2>1, RowStays
  <2>3. CASE Contended(c)
    BY <2>2, <2>3, ContendedStays
  <2>4. CASE req[c].row.code \in DOMAIN codes
    <3>1. SUFFICES ASSUME req[c].row.code \notin DOMAIN codes' PROVE Contended(c)'
      BY <2>2
    <3>2. PICK d \in Calls : SpentBy(d) /\ req[d].row.code = req[c].row.code
      BY <2>4, <3>1 DEF Steps, CodesStep
    <3>3. d \in spent' /\ req'[d].row = req[d].row /\ req'[d].pc = "reply"
      BY <3>2 DEF SpentBy
    <3>4. d # c
      BY <3>3 DEF SigningIn
    <3>5. QED BY <2>2, <3>2, <3>3, <3>4 DEF Contended
  <2>5. QED BY <1>2, <2>3, <2>4 DEF HoldsOrContended
<1>3. QED BY <1>1, <1>2 DEF Steps, CallStep

LEMMA OpenedStep ==
  ASSUME Typed, Steps, OpenedIs
  PROVE  OpenedIs'
<1> SUFFICES ASSUME NEW c \in Calls, c \in opened'
             PROVE  \/ At(c, "spend")'
                    \/ (At(c, "reply")' \/ At(c, "end")') /\ req'[c].row # None
  BY DEF OpenedIs, Steps, Typed, TypeOK
<1>1. CallStep(c)
  BY DEF Steps
<1>2. CASE c \in opened /\ (At(c, "reply") \/ At(c, "end")) /\ req[c].row # None
  BY <1>1, <1>2 DEF CallStep, At
<1>3. CASE c \in opened /\ At(c, "spend")
  <2>1. req[c].row \in RowRef /\ req[c].row # None
    BY <1>3, RequestIs, TwoFactorNone DEF Shaped, SigningIn, At
  <2>2. QED BY <1>1, <1>3, <2>1 DEF CallStep, At
<1>4. CASE req'[c].pc = "spend"
  BY <1>4 DEF At
<1>5. QED BY <1>1, <1>2, <1>3, <1>4 DEF CallStep, OpenedIs

LEMMA ErrorCauseStep ==
  ASSUME Typed, Steps, SpentIs, SpentIs', SessionInv
  PROVE  ErrorAfterSessionHasCause'
<1> SUFFICES ASSUME NEW c \in Calls, c \in opened', req'[c].pc = "end", ~Signed(c)'
             PROVE  c \in faulted' \/ Contended(c)'
  BY DEF ErrorAfterSessionHasCause, Contended, SignedIn, Signed, At, Steps, Typed, TypeOK
<1>1. CallStep(c)
  BY DEF Steps
<1>2. c \in opened
  BY <1>1 DEF CallStep, At
<1>3. CASE At(c, "end")
  <2>1. req'[c] = req[c]
    BY <1>1, <1>3 DEF CallStep
  <2>2. c \notin SignedIn
    BY <2>1 DEF SignedIn, Signed
  <2>3. c \in faulted \/ Contended(c)
    BY <1>2, <1>3, <2>2 DEF SessionInv, ErrorAfterSessionHasCause, Contended
  <2>4. QED BY <1>1, <2>1, <2>3, ContendedStays DEF CallStep
<1>4. CASE At(c, "spend") /\ c \notin faulted'
  <2>1. req[c].row \in RowRef /\ req[c].row # None
    BY <1>4, RequestIs, TwoFactorNone DEF Shaped, SigningIn, At
  <2>2. req[c].row.code \notin DOMAIN codes
    BY <1>1, <1>4 DEF CallStep, At
  <2>3. Contended(c)
    BY <1>4, <2>2 DEF SessionInv, HoldsOrContended, SigningIn, At
  <2>4. QED BY <2>1, <2>3, RowStays, ContendedStays
<1>5. CASE At(c, "reply") /\ c \notin faulted'
  BY <1>1, <1>5 DEF CallStep, At
<1>6. QED BY <1>2, <1>3, <1>4, <1>5 DEF SessionInv, OpenedIs

\* A sign-in that has stored its session and is answered with an error lost to
\* another one with the same digits, or to a fault or a crash.
THEOREM AlwaysCause == Spec => []ErrorAfterSessionHasCause
<1>1. Init => SessionInv
  <2>1. SUFFICES ASSUME Init PROVE SessionInv
    OBVIOUS
  <2>2. opened = {} /\ \A c \in Calls : req[c].pc = "idle"
    BY <2>1 DEF Init, Blank
  <2>3. QED BY <2>2 DEF SessionInv, HoldsOrContended, OpenedIs, ErrorAfterSessionHasCause,
                         SigningIn
<1>2. SessionInv /\ SpentIs /\ Typed /\ [Next]_vars => SessionInv'
  <2>1. ASSUME SessionInv, SpentIs, Typed, Next PROVE SessionInv'
    BY <2>1, EveryStep, SpentIsStep, HoldsStep, OpenedStep, ErrorCauseStep DEF SessionInv
  <2>2. ASSUME SessionInv, UNCHANGED vars PROVE SessionInv'
    BY <2>2 DEF vars, SessionInv, HoldsOrContended, OpenedIs, ErrorAfterSessionHasCause,
                Contended, SignedIn, At
  <2>3. QED BY <2>1, <2>2
<1>3. SessionInv => ErrorAfterSessionHasCause
  BY DEF SessionInv
<1>4. QED BY <1>1, <1>2, <1>3, AlwaysTyped, AlwaysSpend, PTL DEF Spec

-----------------------------------------------------------------------------
\* Only the sign-in that has read a code deletes it, and none reads an expired
\* one.
LEMMA StaleStays ==
  ASSUME Typed, Steps, NEW k \in Codes, Stale(k)
  PROVE  Stale(k)' /\ codes'[k] = codes[k]
<1>1. k \in DOMAIN codes /\ ~codes[k].live
  BY DEF Stale
<1>2. ASSUME NEW c \in Calls, req[c].pc \in SigningIn PROVE req[c].row.code # k
  BY <1>2 DEF Stale, SigningIn
<1>3. k \in DOMAIN codes'
  <2>1. ASSUME NEW c \in Calls, SpentBy(c) PROVE req[c].row.code # k
    BY <1>2, <2>1 DEF SpentBy, At, SigningIn
  <2>2. QED BY <1>1, <2>1 DEF Steps, CodesStep
<1>4. codes'[k] = codes[k]
  BY <1>1, <1>3 DEF Steps, CodesStep, InsertedBy
<1>5. ASSUME NEW c \in Calls, req'[c].pc \in SigningIn PROVE req'[c].row.code # k
  <2>1. CASE req[c].pc \in SigningIn
    <3>1. req[c].row # None
      BY <2>1, RequestIs, TwoFactorNone DEF Shaped
    <3>2. QED BY <1>2, <2>1, <3>1, RowStays
  <2>2. CASE ReadBy(c)
    BY <1>1, <2>2 DEF ReadBy
  <2>3. QED BY <1>5, <2>1, <2>2 DEF Steps, CallStep
<1>6. QED BY <1>1, <1>3, <1>4, <1>5 DEF Stale, SigningIn

LEMMA StaleKept ==
  ASSUME Typed, CodesKeepUser, Next, NEW k \in Codes, Stale(k)
  PROVE  StaysStale(k)
<1>1. Steps
  BY EveryStep
<1>2. codes[k].user \in DOMAIN users'
  BY <1>1 DEF Stale, Steps, CodesStep, CodesKeepUser
<1>3. QED BY <1>1, <1>2, StaleStays DEF StaysStale

\* An expired code that no sign-in holds is in the table for good, with the user
\* it belongs to.
THEOREM AlwaysStale == Spec => StaleForGood
<1>1. Typed /\ CodesKeepUser /\ [Next]_vars
        => [\A k \in Codes : Stale(k) => StaysStale(k)]_vars
  BY StaleKept
<1>2. QED BY <1>1, AlwaysTyped, AlwaysKeepUser, PTL DEF Spec, StaleForGood

-----------------------------------------------------------------------------
\* A step of one call to the end, or of no call, with codes that only go.
LEMMA DryStays ==
  ASSUME Typed, Dry,
         \A k \in DOMAIN codes' : k \in DOMAIN codes /\ codes'[k].live = codes[k].live,
         \A c \in Calls : req'[c].pc = req[c].pc \/ req'[c].pc \notin {"owner", "insert"}
  PROVE  Dry'
BY DEF Dry, At

LEMMA DryCall ==
  ASSUME Typed, Dry, NEW c \in Calls, Call(c) \/ Statement(c) \/ Fault(c)
  PROVE  Dry'
<1>1. req \in [Calls -> Requests] /\ \A d \in Calls : req[d] \in Requests
  BY DEF Typed, TypeOK
<1>2. ASSUME NEW op, NEW status, Answer(c, op, status)
      PROVE  \A d \in Calls : req'[d].pc = req[d].pc \/ req'[d].pc \notin {"owner", "insert"}
  BY <1>1, <1>2 DEF Answer, Requests
<1>3. ASSUME NEW pc \in {"rotate", "spend", "reply"}, Proceed(c, pc)
      PROVE  \A d \in Calls : req'[d].pc = req[d].pc \/ req'[d].pc \notin {"owner", "insert"}
  BY <1>1, <1>3 DEF Proceed, Requests
<1>4. \A accepted : LiveCodes(accepted) = {}
  BY DEF LiveCodes, Dry
<1>5. CASE SignInWithCode(c)
  BY <1>2, <1>4, <1>5, DryStays DEF SignInWithCode, Throw
<1>6. CASE ResendCode(c)
  BY <1>2, <1>4, <1>6, DryStays DEF ResendCode, Throw
<1>7. CASE FindUser(c)
  BY <1>2, <1>3, <1>7, DryStays DEF FindUser, Throw
<1>8. CASE Rotate(c)
  BY <1>2, <1>3, <1>8, DryStays DEF Rotate, Throw
<1>9. CASE Spend(c)
  <2>1. \A k \in DOMAIN codes' : k \in DOMAIN codes /\ codes'[k] = codes[k]
    BY <1>9 DEF Spend
  <2>2. QED BY <1>2, <1>3, <1>9, <2>1, DryStays DEF Spend, Throw
<1>10. CASE FindOwner(c) \/ Insert(c)
  BY <1>10 DEF FindOwner, Insert, Dry
<1>11. CASE SendMail(c) \/ Reply(c)
  BY <1>2, <1>11, DryStays DEF SendMail, Reply
<1>12. CASE Fault(c)
  BY <1>2, <1>12, DryStays DEF Fault, Throw
<1>13. QED BY <1>5, <1>6, <1>7, <1>8, <1>9, <1>10, <1>11, <1>12 DEF Call, Statement

LEMMA DryNext ==
  ASSUME Typed, Dry, Next
  PROVE  Dry'
<1>1. CASE Expire
  BY <1>1 DEF Expire, Dry
<1>2. CASE MoveEmail \/ DeleteUser
  BY <1>2, DryStays DEF MoveEmail, DeleteUser
<1>3. CASE Crash
  <2>1. \A c \in Calls : req[c] \in Requests
    BY DEF Typed, TypeOK
  <2>2. \A c \in Calls : req'[c].pc = req[c].pc \/ req'[c].pc = "end"
    BY <1>3, <2>1 DEF Crash, Requests
  <2>3. QED BY <1>3, <2>2, DryStays DEF Crash
<1>4. QED BY <1>1, <1>2, <1>3, DryCall DEF Next

\* Once no code is live and no resend is past its check, that is so forever.
THEOREM AlwaysDry == Spec => DryForGood
<1>1. Typed /\ [Next]_vars => [Dry => Dry']_vars
  BY DryNext
<1>2. QED BY <1>1, AlwaysTyped, PTL DEF Spec, DryForGood

\* No route inserts a first code: on a table that was never seeded nobody signs
\* in with one.
THEOREM UnseededNoSignIn ==
  ASSUME DOMAIN SeedCodes = {}
  PROVE  Spec => [](SignedIn = {})
<1> DEFINE Bare == Dry /\ DOMAIN codes = {} /\ spent = {} /\ SpentIs
<1>1. Init => Bare
  BY DEF Init, Dry, SpentIs, Signed, At, Blank
<1>2. Bare /\ Typed /\ [Next]_vars => Bare'
  <2>1. ASSUME Bare, Typed, Next PROVE Bare'
    <3>1. Dry' /\ Steps
      BY <2>1, DryNext, EveryStep
    <3>2. DOMAIN codes' = {}
      BY <2>1, <3>1 DEF Steps, CodesStep, InsertedBy, Dry
    <3>3. spent' = {}
      BY <2>1, <3>1 DEF Steps, CallStep, SpentBy, Typed, TypeOK
    <3>4. QED BY <2>1, <3>1, <3>2, <3>3, SpentIsStep
  <2>2. Bare /\ UNCHANGED vars => Bare'
    BY DEF vars, Dry, SpentIs, Signed, At
  <2>3. QED BY <2>1, <2>2
<1>3. Bare => SignedIn = {}
  BY DEF SpentIs, SignedIn, Signed
<1>4. QED BY <1>1, <1>2, <1>3, AlwaysTyped, PTL DEF Spec
=============================================================================
