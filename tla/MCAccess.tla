------------------------------ MODULE MCAccess ------------------------------
(***************************************************************************)
(* Access on small instances.                                              *)
(***************************************************************************)
EXTENDS Access, TLC

Interchangeable == Permutations(UserIds) \union Permutations(Slots)
=============================================================================
