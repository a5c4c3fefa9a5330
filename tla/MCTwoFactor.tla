---------------------------- MODULE MCTwoFactor -----------------------------
(***************************************************************************)
(* TwoFactor on a small instance.                                          *)
(***************************************************************************)
EXTENDS TwoFactor, TLC

CONSTANTS u1, u2, e1, e2, k1

TwoUsers == u1 :> e1 @@ u2 :> e2

\* One code is under way when the model starts.
OneCode == k1 :> [user |-> u1, by |-> None, live |-> TRUE]

CallsAlike == Permutations(Calls)
=============================================================================
