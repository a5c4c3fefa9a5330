---------------------------- MODULE MCAuditTrail ----------------------------
(***************************************************************************)
(* AuditTrail on a small instance.                                         *)
(***************************************************************************)
EXTENDS AuditTrail, TLC

CONSTANTS a, b

FileColumns == {"url", "user_id"}

SeedFile == [k \in FileColumns |-> a]

CallsAlike == Permutations(Calls)
=============================================================================
