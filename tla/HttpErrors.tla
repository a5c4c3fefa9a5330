----------------------------- MODULE HttpErrors -----------------------------
(***************************************************************************)
(* The status a client sees for an error thrown below a controller.        *)
(*                                                                         *)
(* main.ts registers four interceptors and a filter.  The interceptor      *)
(* registered first is the outermost, so an error passes the last one      *)
(* first, and each may replace it before the next one looks at it.         *)
(***************************************************************************)
EXTENDS Naturals

\* An error is its class; for HttpException and its subclasses, its status.
HttpException(status) == [class |-> "HttpException", status |-> status]
Error(class) == [class |-> class, status |-> 0]

\* Errors of PrismaClientKnownRequestError carry a code: P2002 a unique index,
\* P2003 a foreign key, P2024 no connection in time, P2025 no such row.
\* PrismaClientValidationError (an argument the schema does not allow) and
\* PrismaClientInitializationError carry none.
KnownCodes == {"P2002", "P2003", "P2024", "P2025"}

NotFoundInterceptor(e) ==
  IF e.class = "NotFoundError" THEN HttpException(404) ELSE e

UnauthorizedInterceptor(e) ==
  IF e.class = "UnauthorizedError" THEN HttpException(401) ELSE e

\* UniqueConstraintError is a ConflictError and no DatabaseError: it passes.
HandleDatabaseErrors(e) ==
  Error(IF e.class = "P2002" THEN "UniqueConstraintError" ELSE "DatabaseError")

DatabaseInterceptor(e) ==
  LET handled == IF e.class \in KnownCodes THEN HandleDatabaseErrors(e) ELSE e
  IN IF handled.class = "DatabaseError" THEN HttpException(400) ELSE handled

ConflictInterceptor(e) ==
  IF e.class \in {"ConflictError", "UniqueConstraintError"}
  THEN HttpException(409)
  ELSE e

AllExceptionsFilter(e) ==
  IF e.class = "HttpException" THEN e.status
  ELSE IF e.class \in KnownCodes THEN 400
  ELSE 500

StatusOf(e) ==
  AllExceptionsFilter(
    ConflictInterceptor(
      DatabaseInterceptor(
        UnauthorizedInterceptor(
          NotFoundInterceptor(e)))))
=============================================================================
