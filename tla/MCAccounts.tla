----------------------------- MODULE MCAccounts -----------------------------
(***************************************************************************)
(* Accounts on small instances.                                            *)
(***************************************************************************)
EXTENDS Accounts, TLC

CONSTANTS u1, u2, e1, e2, p1, p2

Row(email, pw, status) ==
  [email |-> email, pw |-> pw, status |-> status, canceled |-> FALSE, rt |-> None]

\* One user who has been invited and has not chosen a password.
OnePending == u1 :> Row(e1, p1, "US3")

\* An administrator and a pending user.
AdminAndPending == u1 :> Row(e1, p1, "US1") @@ u2 :> Row(e2, p1, "US3")

RecoveryRoutes ==
  {"forgotPassword", "changePassword", "resendInvite", "getInvite", "remove",
   "delete"}

PromiseRoutes ==
  {"forgotPassword", "changePassword", "updatePassword", "getInvite", "delete"}

AdminRoutes ==
  {"fastLogin", "changePassword", "disable", "delete", "resendInvite",
   "resetCreate", "resetUpdate", "resetRemove"}

SessionRoutes ==
  {"signIn", "signInWithCode", "refresh", "refreshBiometric", "forgotPassword",
   "changePassword", "update"}

LiveRoutes ==
  {"signIn", "changePassword", "forgotPassword", "getInvite", "delete"}

Interchangeable == Permutations(Slots) \union Permutations(Tokens)
=============================================================================
