---------------------------- MODULE AccessProofs ----------------------------
(***************************************************************************)
(* Access, for any users, lifetimes and number of requests at a time, and  *)
(* for a clock that stops anywhere.                                        *)
(***************************************************************************)
EXTENDS Access, TLAPS

\* What every move does besides the clock: a request is answered, or signs a
\* pair for a user who is stored and has a session or signs in, or reads the row
\* of one, or writes it back and signs; or a pair is handed out.

Answers(s) ==
  /\ row' = [row EXCEPT ![s] = None]
  /\ req' = [req EXCEPT ![s] = None] /\ reply' \in Replies
  /\ UNCHANGED <<now, users, sessions, issued, gone>>

SignsFor(s, u) ==
  /\ row' = [row EXCEPT ![s] = None]
  /\ req' = [req EXCEPT ![s] = [sub |-> u, iat |-> now]]
  /\ UNCHANGED <<now, users, issued, gone, reply>>

Signs(s, u) == SignsFor(s, u) /\ UNCHANGED sessions

\* sessions gets or loses the user of the row.
Writes(s) ==
  /\ row[s] # None /\ row[s].user \in users
  /\ sessions' \in {sessions \union {row[s].user}, sessions \ {row[s].user}}
  /\ SignsFor(s, row[s].user)

Reads(s, u) ==
  /\ row' = [row EXCEPT ![s] = [user |-> u, session |-> u \in sessions]]
  /\ UNCHANGED <<now, users, sessions, issued, gone, req, reply>>

\* Or its hash is stored, and the caller never hears of it.
HandsOut(s) ==
  /\ req[s] # None /\ req[s].sub \in users
  /\ sessions' = sessions \union {req[s].sub}
  /\ issued' \in {issued, issued \union {req[s]}}
  /\ row' = [row EXCEPT ![s] = None]
  /\ req' = [req EXCEPT ![s] = None] /\ reply' \in Replies
  /\ UNCHANGED <<now, users, gone>>

LEMMA RepliesAre ==
  /\ [route |-> "guarded", status |-> 200] \in Replies
  /\ [route |-> "guarded", status |-> 401] \in Replies
  /\ [route |-> "session", status |-> 200] \in Replies
  /\ [route |-> "session", status |-> 400] \in Replies
  /\ [route |-> "session", status |-> 401] \in Replies
  /\ [route |-> "session", status |-> 404] \in Replies
  /\ [route |-> "session", status |-> 500] \in Replies
  /\ [route |-> "signOut", status |-> 500] \in Replies
BY DEF Replies, Routes

LEMMA GuardedMove ==
  ASSUME NEW s \in Slots, Guarded(s)
  PROVE  Answers(s)
BY RepliesAre DEF Guarded, Answer, Answers

LEMMA RenewMove ==
  ASSUME TypeOK, NEW s \in Slots, NEW u \in UserIds, NEW jwt, Renew(s, u, jwt),
         UNCHANGED <<now, users, sessions, issued, gone>>
  PROVE  Answers(s) \/ (u \in sessions /\ Signs(s, u))
BY RepliesAre DEF Renew, HasHash, Answer, Answers, Sign, Signs, SignsFor

LEMMA RefreshMove ==
  ASSUME TypeOK, NEW s \in Slots, Refresh(s)
  PROVE  Answers(s) \/ \E u \in sessions : Signs(s, u)
<1>1. UNCHANGED <<now, users, sessions, issued, gone>>
  BY DEF Refresh
<1>2. CASE Answer(s, "session", 401)
  BY <1>1, <1>2, RepliesAre DEF Answer, Answers
<1>3. ASSUME NEW jwt \in issued, Renew(s, jwt.sub, jwt)
      PROVE  Answers(s) \/ \E u \in sessions : Signs(s, u)
  <2>1. jwt.sub \in UserIds
    BY DEF TypeOK, Jwt
  <2>2. QED BY <1>1, <1>3, <2>1, RenewMove
<1>4. QED BY <1>2, <1>3 DEF Refresh

LEMMA RefreshBiometricMove ==
  ASSUME TypeOK, NEW s \in Slots, RefreshBiometric(s)
  PROVE  Answers(s) \/ \E u \in sessions : Signs(s, u)
BY RenewMove DEF RefreshBiometric

LEMMA RotateMove ==
  ASSUME TypeOK, NEW s \in Slots, Rotate(s)
  PROVE  Answers(s) \/ HandsOut(s)
BY RepliesAre DEF Rotate, Answer, Answers, HandsOut

LEMMA WriteMove ==
  ASSUME TypeOK, NEW s \in Slots, WriteRow(s)
  PROVE  Answers(s) \/ Writes(s)
<1>1. CASE row[s].user \in users
  BY <1>1 DEF WriteRow, Sign, SignsFor, Writes
<1>2. CASE row[s].user \notin users
  BY <1>2, RepliesAre DEF WriteRow, Answer, Answers
<1>3. QED BY <1>1, <1>2

LEMMA FaultMove ==
  ASSUME TypeOK, NEW s \in Slots, Fault(s)
  PROVE  Answers(s) \/ HandsOut(s)
BY RepliesAre DEF Fault, Answer, Answers, HandsOut

LEMMA SignOutMove ==
  ASSUME NEW s \in Slots, SignOut(s)
  PROVE  Answers(s)
BY RepliesAre DEF SignOut, Answer, Answers

\* The cases of a step of the specification but for the histories.
Cases ==
  \/ \E s \in Slots : \/ Answers(s) \/ HandsOut(s) \/ Writes(s)
                     \/ \E u \in sessions : Signs(s, u)
  \/ \E u \in UserIds : ClearSession(u) \/ DeleteUser(u)
  \/ Tick

LEMMA MoveCases ==
  ASSUME TypeOK, Move
  PROVE  Cases
BY GuardedMove, RefreshMove, RefreshBiometricMove, WriteMove, RotateMove, FaultMove,
   SignOutMove DEF Move, Cases

\* What a user who shows a credential begins with.
Opens(s, u) == Signs(s, u) \/ Reads(s, u)

LEMMA OpenCase ==
  ASSUME NEW s \in Slots, SignIn(s) \/ ReadRow(s)
  PROVE  \E u \in users : Opens(s, u) /\ quiet' = [quiet EXCEPT ![u] = None]
BY DEF SignIn, ReadRow, Sign, Signs, SignsFor, Reads, Opens

-----------------------------------------------------------------------------
\* The core of the types, without the history quiet.
Core ==
  /\ now \in Time
  /\ users \in SUBSET UserIds
  /\ sessions \in SUBSET UserIds
  /\ issued \in SUBSET Jwt
  /\ row \in [Slots -> Row \union {None}]
  /\ req \in [Slots -> Jwt \union {None}]
  /\ reply \in Replies
  /\ gone \in [UserIds -> Time \union {None}]

LEMMA CoreStep ==
  ASSUME TypeOK, \/ Cases
                 \/ \E s \in Slots, u \in users : Opens(s, u)
  PROVE  Core'
<1>1. ASSUME NEW s \in Slots, Answers(s) PROVE Core'
  BY <1>1 DEF Answers, TypeOK, Core
<1>2. ASSUME NEW s \in Slots, HandsOut(s) PROVE Core'
  <2>1. req[s] \in Jwt
    BY <1>2 DEF HandsOut, TypeOK
  <2>2. req' \in [Slots -> Jwt \union {None}]
    BY <1>2 DEF HandsOut, TypeOK
  <2>3. sessions' \in SUBSET UserIds /\ issued' \in SUBSET Jwt
    BY <1>2, <2>1 DEF HandsOut, TypeOK
  <2>4. row' \in [Slots -> Row \union {None}]
    BY <1>2 DEF HandsOut, TypeOK
  <2>5. QED BY <1>2, <2>2, <2>3, <2>4 DEF HandsOut, TypeOK, Core
<1>3. ASSUME NEW s \in Slots, NEW u \in UserIds, SignsFor(s, u), sessions' \subseteq UserIds
      PROVE  Core'
  <2>1. [sub |-> u, iat |-> now] \in Jwt
    BY DEF TypeOK, Jwt
  <2>2. QED BY <1>3, <2>1 DEF SignsFor, TypeOK, Core
<1>4. ASSUME NEW s \in Slots, NEW u \in UserIds, Signs(s, u) PROVE Core'
  BY <1>3, <1>4 DEF Signs, TypeOK
<1>5. ASSUME NEW s \in Slots, Writes(s) PROVE Core'
  BY <1>3, <1>5 DEF Writes, TypeOK
<1>6. ASSUME NEW s \in Slots, NEW u \in UserIds, Reads(s, u) PROVE Core'
  <2>1. [user |-> u, session |-> u \in sessions] \in Row
    BY DEF Row
  <2>2. QED BY <1>6, <2>1 DEF Reads, TypeOK, Core
<1>7. ASSUME NEW u \in UserIds, ClearSession(u) PROVE Core'
  BY <1>7 DEF ClearSession, TypeOK, Core
<1>8. ASSUME NEW u \in UserIds, DeleteUser(u) PROVE Core'
  BY <1>8 DEF DeleteUser, Without, TypeOK, Core
<1>9. CASE Tick
  <2>1. now' \in Time
    BY <1>9, AccessInstance DEF Tick, TypeOK, Time
  <2>2. QED BY <1>9, <2>1 DEF Tick, TypeOK, Core
<1>10. sessions \subseteq UserIds /\ users \subseteq UserIds
  BY DEF TypeOK
<1>11. QED BY <1>1, <1>2, <1>4, <1>5, <1>6, <1>7, <1>8, <1>9, <1>10 DEF Cases, Opens

LEMMA TypeStep == TypeOK /\ [Next]_vars => TypeOK'
<1>1. ASSUME TypeOK, Move, Settle PROVE TypeOK'
  <2>1. Core'
    BY <1>1, MoveCases, CoreStep
  <2>2. quiet' \in [UserIds -> Time \union {None}]
    BY <1>1 DEF Settle, TypeOK
  <2>3. QED BY <2>1, <2>2 DEF Core, TypeOK
<1>2. ASSUME TypeOK, NEW s \in Slots, SignIn(s) \/ ReadRow(s) PROVE TypeOK'
  <2>1. PICK u \in users : Opens(s, u) /\ quiet' = [quiet EXCEPT ![u] = None]
    BY <1>2, OpenCase
  <2>2. Core'
    BY <1>2, <2>1, CoreStep
  <2>3. quiet' \in [UserIds -> Time \union {None}]
    BY <1>2, <2>1 DEF TypeOK
  <2>4. QED BY <2>2, <2>3 DEF Core, TypeOK
<1>3. TypeOK /\ UNCHANGED vars => TypeOK'
  BY DEF vars, TypeOK
<1>4. QED BY <1>1, <1>2, <1>3 DEF Next

\* Every variable stays in its type.
THEOREM TypeCorrect == Spec => []TypeOK
<1>1. Init => TypeOK
  <2>1. 0 \in Time
    BY AccessInstance DEF Time
  <2>2. [route |-> None, status |-> 0] \in Replies
    BY DEF Replies
  <2>3. QED BY <2>1, <2>2 DEF Init, TypeOK
<1>2. QED BY <1>1, TypeStep, PTL DEF Spec

-----------------------------------------------------------------------------
\* Nothing is signed ahead of its time.
Dated ==
  /\ \A jwt \in issued : jwt.iat <= now
  /\ \A s \in Slots : req[s] # None => req[s].iat <= now

\* The last pair of a deleted user was signed before the deletion: nothing is
\* signed for the user later, and what was signed earlier is not handed out.
GoneInv ==
  \A u \in UserIds :
    gone[u] # None => u \notin users /\ \A jwt \in issued : jwt.sub = u => jwt.iat <= gone[u]

\* A user who logged out has no session, so no refresh signs anything, and no
\* request under way.
QuietInv ==
  \A u \in UserIds :
    quiet[u] # None =>
      LoggedOut(u) /\ \A jwt \in issued : jwt.sub = u => jwt.iat <= quiet[u]

LEMMA DatedStep ==
  ASSUME TypeOK, Dated, \/ Cases
                        \/ \E s \in Slots, u \in users : Opens(s, u)
  PROVE  Dated'
<1>1. ASSUME NEW s \in Slots, Answers(s) PROVE Dated'
  BY <1>1 DEF Answers, TypeOK, Dated
<1>2. ASSUME NEW s \in Slots, HandsOut(s) PROVE Dated'
  BY <1>2 DEF HandsOut, TypeOK, Dated
<1>3. ASSUME NEW s \in Slots, NEW u \in UserIds, SignsFor(s, u) PROVE Dated'
  <2>1. now <= now
    BY AccessInstance DEF TypeOK, Time
  <2>2. QED BY <1>3, <2>1 DEF SignsFor, TypeOK, Dated
<1>4. ASSUME NEW u \in UserIds, ClearSession(u) \/ DeleteUser(u) PROVE Dated'
  BY <1>4 DEF ClearSession, DeleteUser, Dated
<1>5. CASE Tick
  <2>1. \A i \in Time : i <= now => i <= now'
    BY <1>5, AccessInstance DEF Tick, TypeOK, Time
  <2>2. (\A jwt \in issued : jwt.iat \in Time) /\ \A s \in Slots : req[s] # None => req[s].iat \in Time
    BY DEF TypeOK, Jwt
  <2>3. issued' = issued /\ req' = req
    BY <1>5 DEF Tick
  <2>4. QED BY <2>1, <2>2, <2>3 DEF Dated
<1>6. ASSUME NEW s \in Slots, NEW u \in UserIds, Reads(s, u) PROVE Dated'
  BY <1>6 DEF Reads, Dated
<1>7. sessions \subseteq UserIds /\ users \subseteq UserIds
  BY DEF TypeOK
<1>8. QED BY <1>1, <1>2, <1>3, <1>4, <1>5, <1>6, <1>7 DEF Cases, Opens, Signs, Writes

LEMMA GoneStep ==
  ASSUME TypeOK, Dated, GoneInv, \/ Cases
                                 \/ \E s \in Slots, u \in users : Opens(s, u)
  PROVE  GoneInv'
<1>1. ASSUME NEW s \in Slots, NEW u \in UserIds, SignsFor(s, u) PROVE GoneInv'
  BY <1>1 DEF SignsFor, GoneInv
<1>2. ASSUME NEW s \in Slots, HandsOut(s) PROVE GoneInv'
  BY <1>2 DEF HandsOut, GoneInv
<1>3. ASSUME NEW u \in UserIds, ClearSession(u) PROVE GoneInv'
  BY <1>3 DEF ClearSession, GoneInv
<1>4. ASSUME NEW u \in UserIds, DeleteUser(u) PROVE GoneInv'
  BY <1>4 DEF DeleteUser, Without, TypeOK, Dated, GoneInv
<1>5. CASE Tick
  BY <1>5 DEF Tick, GoneInv
<1>6. ASSUME NEW s \in Slots, Answers(s) PROVE GoneInv'
  BY <1>6 DEF Answers, GoneInv
<1>7. ASSUME NEW s \in Slots, NEW u \in UserIds, Reads(s, u) PROVE GoneInv'
  BY <1>7 DEF Reads, GoneInv
<1>8. sessions \subseteq UserIds /\ users \subseteq UserIds
  BY DEF TypeOK
<1>9. QED BY <1>1, <1>2, <1>3, <1>4, <1>5, <1>6, <1>7, <1>8 DEF Cases, Opens, Signs, Writes

\* A user who is logged out stays so unless the user signs in.
StaysOut(v) == LoggedOut(v)' /\ \A jwt \in issued' : jwt.sub = v => jwt \in issued

LEMMA StaysLoggedOut ==
  ASSUME TypeOK, NEW v \in UserIds, LoggedOut(v),
         \/ Cases
         \/ \E s \in Slots, u \in UserIds \ {v} : Opens(s, u)
  PROVE  StaysOut(v)
<1>1. ASSUME NEW s \in Slots, Answers(s) PROVE StaysOut(v)
  BY <1>1 DEF Answers, TypeOK, LoggedOut, StaysOut
<1>2. ASSUME NEW s \in Slots, HandsOut(s) PROVE StaysOut(v)
  BY <1>2 DEF HandsOut, TypeOK, LoggedOut, StaysOut
<1>3. ASSUME NEW s \in Slots, NEW u \in UserIds \ {v}, SignsFor(s, u), v \notin sessions'
      PROVE  StaysOut(v)
  BY <1>3 DEF SignsFor, TypeOK, LoggedOut, StaysOut
<1>4. ASSUME NEW s \in Slots, NEW u \in UserIds \ {v}, Signs(s, u) PROVE StaysOut(v)
  BY <1>3, <1>4 DEF Signs, LoggedOut
<1>5. ASSUME NEW s \in Slots, Writes(s) PROVE StaysOut(v)
  <2>1. row[s].user \in UserIds \ {v}
    BY <1>5 DEF Writes, TypeOK, LoggedOut
  <2>2. QED BY <1>3, <1>5, <2>1 DEF Writes, LoggedOut
<1>6. ASSUME NEW s \in Slots, NEW u \in UserIds \ {v}, Reads(s, u) PROVE StaysOut(v)
  BY <1>6 DEF Reads, TypeOK, LoggedOut, StaysOut
<1>7. ASSUME NEW u \in UserIds, ClearSession(u) \/ DeleteUser(u) PROVE StaysOut(v)
  BY <1>7 DEF ClearSession, DeleteUser, LoggedOut, StaysOut
<1>8. ASSUME Tick PROVE StaysOut(v)
  BY <1>8 DEF Tick, LoggedOut, StaysOut
<1>9. \A u \in sessions : u \in UserIds \ {v}
  BY DEF TypeOK, LoggedOut
<1>10. QED BY <1>1, <1>2, <1>4, <1>5, <1>6, <1>7, <1>8, <1>9 DEF Cases, Opens

LEMMA IssuedDated ==
  ASSUME TypeOK, Dated, Cases
  PROVE  \A jwt \in issued' : jwt.iat <= now
BY DEF Cases, Dated, Answers, HandsOut, Signs, Writes, SignsFor, ClearSession, DeleteUser, Tick

LEMMA QuietStep == TypeOK /\ Dated /\ QuietInv /\ [Next]_vars => QuietInv'
<1>1. ASSUME TypeOK, Dated, QuietInv, Move, Settle PROVE QuietInv'
  <2>1. Cases
    BY <1>1, MoveCases
  <2> SUFFICES ASSUME NEW u \in UserIds, quiet'[u] # None
               PROVE  LoggedOut(u)' /\ \A jwt \in issued' : jwt.sub = u => jwt.iat <= quiet'[u]
    BY DEF QuietInv
  <2>2. CASE quiet[u] = None
    <3>1. LoggedOut(u)' /\ quiet'[u] = now
      BY <1>1, <2>2 DEF Settle
    <3>2. QED BY <1>1, <2>1, <3>1, IssuedDated
  <2>3. CASE quiet[u] # None
    <3>1. quiet'[u] = quiet[u]
      BY <1>1, <2>3 DEF Settle
    <3>2. StaysOut(u)
      BY <1>1, <2>1, <2>3, StaysLoggedOut DEF QuietInv
    <3>3. QED BY <1>1, <2>3, <3>1, <3>2 DEF QuietInv, StaysOut
  <2>4. QED BY <2>2, <2>3
<1>2. ASSUME TypeOK, Dated, QuietInv, NEW s \in Slots, SignIn(s) \/ ReadRow(s) PROVE QuietInv'
  <2>1. PICK v \in users : Opens(s, v) /\ quiet' = [quiet EXCEPT ![v] = None]
    BY <1>2, OpenCase
  <2> SUFFICES ASSUME NEW u \in UserIds, quiet'[u] # None
               PROVE  LoggedOut(u)' /\ \A jwt \in issued' : jwt.sub = u => jwt.iat <= quiet'[u]
    BY DEF QuietInv
  <2>2. u # v /\ quiet'[u] = quiet[u] /\ v \in UserIds
    BY <1>2, <2>1 DEF TypeOK
  <2>3. StaysOut(u)
    BY <1>2, <2>1, <2>2, StaysLoggedOut DEF QuietInv
  <2>4. QED BY <1>2, <2>2, <2>3 DEF QuietInv, StaysOut
<1>3. QuietInv /\ UNCHANGED vars => QuietInv'
  BY DEF vars, QuietInv, LoggedOut
<1>4. QED BY <1>1, <1>2, <1>3 DEF Next

AccessInv == Dated /\ GoneInv /\ QuietInv

LEMMA AlwaysInv == Spec => []AccessInv
<1>1. Init => AccessInv
  BY DEF Init, AccessInv, Dated, GoneInv, QuietInv, LoggedOut
<1>2. AccessInv /\ TypeOK /\ [Next]_vars => AccessInv'
  <2>1. ASSUME AccessInv, TypeOK, Next PROVE Dated' /\ GoneInv'
    <3>1. Cases \/ \E s \in Slots, u \in users : Opens(s, u)
      BY <2>1, MoveCases, OpenCase DEF Next
    <3>2. QED BY <2>1, <3>1, DatedStep, GoneStep DEF AccessInv
  <2>2. AccessInv /\ UNCHANGED vars => Dated' /\ GoneInv'
    BY DEF vars, AccessInv, Dated, GoneInv
  <2>3. QED BY <2>1, <2>2, QuietStep DEF AccessInv
<1>3. QED BY <1>1, <1>2, TypeCorrect, PTL DEF Spec

\* Tokens signed by a time are not accepted a lifetime later.
LEMMA Lapsed ==
  ASSUME TypeOK, NEW u \in UserIds, NEW t \in Time,
         \A jwt \in issued : jwt.sub = u => jwt.iat <= t,
         now >= t + AccessLife
  PROVE  ~LetIn(u)
<1>1. \A jwt \in issued : jwt.iat \in Time
  BY DEF TypeOK, Jwt
<1>2. Time \subseteq Nat /\ AccessLife \in Nat /\ now \in Nat
  BY AccessInstance DEF Time, TypeOK
<1>3. ASSUME NEW jwt \in issued, jwt.sub = u PROVE ~(now < jwt.iat + AccessLife)
  <2>1. jwt.iat <= t /\ jwt.iat \in Nat /\ t \in Nat
    BY <1>1, <1>2, <1>3
  <2>2. QED BY <1>2, <2>1
<1>4. QED BY <1>3 DEF LetIn, Unexpired

\* A deleted user is let in for the lifetime of an access token at most.
THEOREM AlwaysLoseGone == Spec => []GoneLoseAccess
<1>1. TypeOK /\ AccessInv => GoneLoseAccess
  BY Lapsed DEF TypeOK, AccessInv, GoneInv, GoneLoseAccess
<1>2. QED BY <1>1, TypeCorrect, AlwaysInv, PTL

\* So is a user whose session was cleared, unless the user signs in again.
THEOREM AlwaysLoseLoggedOut == Spec => []LoggedOutLoseAccess
<1>1. TypeOK /\ AccessInv => LoggedOutLoseAccess
  BY Lapsed DEF TypeOK, AccessInv, QuietInv, LoggedOutLoseAccess
<1>2. QED BY <1>1, TypeCorrect, AlwaysInv, PTL
=============================================================================
