----------------------------- MODULE MCRecords ------------------------------
(***************************************************************************)
(* Records on small instances.                                             *)
(***************************************************************************)
EXTENDS Records, TLC

CONSTANTS u1, u2, f1, f2, l1, x1

FormRow == [canceled |-> FALSE, form |-> None, user |-> None]

\* A form with a laudo, and a form without.
OneLaudo == f1 :> FormRow @@ f2 :> FormRow
              @@ l1 :> [canceled |-> FALSE, form |-> f1, user |-> None]

\* The same with a file, of a user who sends no request.
OneOfEach == OneLaudo @@ x1 :> [canceled |-> FALSE, form |-> None, user |-> u2]

EveryRoute == AllRoutes

\* One user sends requests, some without the header.
OneSender == {u1, None}
=============================================================================
