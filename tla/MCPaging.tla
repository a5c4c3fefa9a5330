------------------------------ MODULE MCPaging ------------------------------
(***************************************************************************)
(* Paging on small instances.                                              *)
(***************************************************************************)
EXTENDS Paging, TLC

RowsAlike == Permutations(Ids)
=============================================================================
