-------------------------- MODULE PasswordRecovery --------------------------
(***************************************************************************)
(* What the password routes promise, without statements, rows or sessions. *)
(*                                                                         *)
(* A link is issued once, to a user who exists, stays that user's until    *)
(* all links of the user are withdrawn together, and never comes back.  A  *)
(* user with links cannot be removed.  A password changes only by the hand *)
(* of a request that holds the right to change it, and a request obtains   *)
(* that right from a live link of the user or from the current password,   *)
(* and uses it for that user only.                                         *)
(***************************************************************************)
CONSTANTS UserIds, Passwords, Tokens, Slots, None

VARIABLES
  phase,      \* of each link
  owner,      \* of each link that is issued and not withdrawn
  password,   \* of each user; None when there is no such user
  holder      \* the right a request has to change a password, or None

vars == <<phase, owner, password, holder>>

Phases == {"none", "live", "expired", "dead"}

\* Whose password, and the link or password that was shown for it.
Rights == [user : UserIds, key : Tokens \union Passwords]

TypeOK ==
  /\ phase \in [Tokens -> Phases]
  /\ owner \in [Tokens -> UserIds \union {None}]
  /\ password \in [UserIds -> Passwords \union {None}]
  /\ holder \in [Slots -> Rights \union {None}]

Init ==
  /\ phase = [t \in Tokens |-> "none"]
  /\ owner = [t \in Tokens |-> None]
  /\ password \in [UserIds -> Passwords \union {None}]
  /\ holder = [s \in Slots |-> None]

Issue(t, u) ==
  /\ phase[t] = "none"
  /\ password[u] # None
  /\ phase' = [phase EXCEPT ![t] = "live"]
  /\ owner' = [owner EXCEPT ![t] = u]
  /\ UNCHANGED <<password, holder>>

Expire(t) ==
  /\ phase[t] = "live"
  /\ phase' = [phase EXCEPT ![t] = "expired"]
  /\ UNCHANGED <<owner, password, holder>>

\* All the links of a user at once.
Withdraw(u) ==
  /\ phase' = [t \in Tokens |-> IF owner[t] = u THEN "dead" ELSE phase[t]]
  /\ owner' = [t \in Tokens |-> IF owner[t] = u THEN None ELSE owner[t]]
  /\ UNCHANGED <<password, holder>>

Present(s, t) ==
  /\ holder[s] = None
  /\ phase[t] = "live"
  /\ holder' = [holder EXCEPT ![s] = [user |-> owner[t], key |-> t]]
  /\ UNCHANGED <<phase, owner, password>>

Authenticate(s, u, p) ==
  /\ holder[s] = None
  /\ password[u] = p
  /\ holder' = [holder EXCEPT ![s] = [user |-> u, key |-> p]]
  /\ UNCHANGED <<phase, owner, password>>

\* The right is used up by one change.
Change(s, p) ==
  /\ holder[s] # None
  /\ password[holder[s].user] # None
  /\ password' = [password EXCEPT ![holder[s].user] = p]
  /\ holder' = [holder EXCEPT ![s] = None]
  /\ UNCHANGED <<phase, owner>>

\* Requests that end or are lost give up their right.
GiveUp(S) ==
  /\ holder' = [s \in Slots |-> IF s \in S THEN None ELSE holder[s]]
  /\ UNCHANGED <<phase, owner, password>>

RemoveUser(u) ==
  /\ \A t \in Tokens : owner[t] # u
  /\ password' = [password EXCEPT ![u] = None]
  /\ UNCHANGED <<phase, owner, holder>>

Next ==
  \/ \E t \in Tokens, u \in UserIds : Issue(t, u)
  \/ \E t \in Tokens : Expire(t)
  \/ \E u \in UserIds : Withdraw(u) \/ RemoveUser(u)
  \/ \E s \in Slots, t \in Tokens : Present(s, t)
  \/ \E s \in Slots, u \in UserIds, p \in Passwords : Authenticate(s, u, p)
  \/ \E s \in Slots, p \in Passwords : Change(s, p)
  \/ \E S \in SUBSET Slots : GiveUp(S)

Spec == Init /\ [][Next]_vars
=============================================================================
