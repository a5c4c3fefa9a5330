# ptp-backend: models, checks and proofs

ptp-backend is a NestJS server for inspections at a loading dock. It keeps
users, reset links, PTP forms, laudos (CRM reports) and a log of who changed
what in PostgreSQL, through Prisma. Every process is a Node.js event loop: there
are no threads and no locks, and no handler opens a transaction. What makes the
system hard is therefore what happens *between two awaited statements of one
request*: the statements of every other request.

All the modules use that reading. One action is one awaited Prisma statement
together with the code that follows it up to the next await. A request (or a
call) is a slot with a program counter, and `Next` interleaves slots.

## Inventory

| Part | State it keeps | Operations | What is hard |
|---|---|---|---|
| auth: links and passwords (`src/src/auth`) | `reset_password`, `users.password`, `users.status` | forgot-password, change-password, update-password, resend-invite, get-invite | six or seven statements each, over rows that other requests move; writes of whole rows read earlier |
| auth: sessions | `users.hashedRefreshToken` | sign-in, fast-login, code, refresh, biometric-refresh, sign-out | compare, then write; look-up by an e-mail that can move; 72 bytes of a token |
| auth: two-factor codes | `codes` | code, resend-code | the session is replaced before the code is deleted, and the code is deleted by its digits; no route inserts the first code |
| auth: access guard (`src/src/auth/guards`, `strategies`) | none: a token is believed until it expires | let in or refuse | what was deleted or logged out is let in for a while, and a renewal may be in flight |
| users (`src/src/users`) | `users` | create, update, disable-user, remove, delete | change, then log; foreign keys against late inserts |
| reset links (`src/src/reset`) | `reset_password` | create, update, delete (reads apart) | edits the rows the handlers of auth rely on |
| e-mail (`src/src/email`) | none | sendMail | may fail, and says `false` |
| PTP forms (`src/src/forms-ptp`) | `forms_ptp` | create, update, remove, delete, listing | read, change, log without a transaction |
| laudos (`src/src/laudos-crm`) | `laudos_crm` | update, remove, delete, listings (create is always refused) | the form is checked before the laudo moves to it |
| application logs (`src/src/app-logs`) | `logs` | createLog (from the handlers), create, listing | the last statement of every change: the one that is lost |
| HTTP errors (`src/src/common`, `main.ts`) | none | four interceptors and a filter | their order decides the status |
| files (`src/src/files`) | `files`, Supabase | update, remove; upload (stores no row) | before and after of a log are two statements apart; remove passes shifted arguments, so the client's forwarding header decides whether it gets through, and it logs before it changes |
| divergencias | `divergencias` | none: the module is imported nowhere | |
| health, configuration, utilities | none | | |

How they interact. The guard runs before every route that is not `@Public`. The
handlers of auth call `UsersService` (find, update), `ResetService` (insert) and
`EmailsService` (send). The handlers of users, forms
and laudos call `AppLogsService.createLog` last. Everything else is shared
through the tables: `reset_password.user_id`, `codes.user_id`, `files.user_id`
and `logs.user_id` refer to `users`, `laudos_crm.form_ptp_id` to `forms_ptp`,
each with `ON DELETE RESTRICT`; `users.email`, `reset_password.refresh_token` and
`codes.code` are unique. These keys are the
only synchronisation the program has, so they are guards of the statements.

What makes each part correct:

- links: a spent link is dead, a link that was mailed leads somewhere unless it
  was spent, withdrawn or (for a recovery) its insert failed, a change reaches
  the user its link belongs to, and a password changes by no other way than a
  live link or the current password;
- sessions: tokens go to the subject of the token shown, and a session that was
  ended starts again only with a credential;
- codes: one sign-in gets past the deletion of a code, an error after the
  session was replaced has a cause, a code has its user, codes are issued from
  live codes only, and nothing clears the expired ones;
- guard: a user who was deleted or logged out is let in for the lifetime of one
  access token at most;
- users: a removal stays and bars new links, but for the requests that read the
  user before it; nothing refers to a user who is gone;
- records: the trail agrees with the rows but for file removals cut off after
  their log, a missing log has a cause, the status does not lie, a laudo has its
  form and a file its user;
- listings: a client that walks the pages sees each row once, unless rows are
  deleted under it.

`PROJECT.json` lists the hazards one by one, with the line where each bites.

## Modules

| Module | What it is |
|---|---|
| `Accounts` | users, links and sessions: 17 routes of AuthController, UsersController and ResetController |
| `PasswordRecovery` | what those routes promise about passwords, without statements, rows or sessions |
| `HttpErrors` | the chain of interceptors and the filter, as operators from an error to a status |
| `TwoFactor` | two-factor codes: sign-in with a code and the resend of one |
| `Access` | the two guards, the lifetimes of tokens and what ends a session, or brings it back, over a clock |
| `Records` | forms, laudos, files and logs, and disable-user, which writes a log too; each handler is a script of statements |
| `AuditTrail` | what the logs of a file tell: the one handler that logs old and new values |
| `Paging` | the listings, read page by page while rows come and go |
| `Registration` | `POST users` and sign-up, which never store a user |
| `MCAccounts`, `MCTwoFactor`, `MCAccess`, `MCRecords`, `MCAuditTrail`, `MCPaging` | small instances for TLC |
| `AccountsProofs` | `Accounts` is well typed: the invariant `Typed` |
| `AccountsSafety` | references, removals, identity of refreshes, credentials of sessions; and the lemmas on slots (`SlotWritten`, `EveryMove`, `Alone`, `SlotSteps`) that the modules after it use |
| `AccountsLinks` | mailed links, spent links, holders of links, links of removed users; `Accounts` implements `PasswordRecovery` |
| `TwoFactorProofs`, `AccessProofs`, `RecordsProofs`, `AuditTrailProofs`, `PagingProofs` | the theorems of the module each is named for |

How the modules meet. `Accounts`, `TwoFactor` and `Access` look at the same
table `users` with different eyes. `Accounts` has every route that changes a row
of it, with links and sessions; of `POST auth/code` it has what happens to the
user (`SignInWithCode`, `Rotate`, `SpendCode`) and leaves open which code is
accepted. That is the question of `TwoFactor`, which keeps of a user the e-mail
only and takes what the other routes do as steps of an environment (`MoveEmail`,
`DeleteUser`). `Access` keeps of a user that it exists and has a session, and
adds time. `Records` keeps of a user that it exists: it has `disable-user` once
more, for the log and the answer. `Records` and `TwoFactor` extend `HttpErrors`,
because what their calls answer is part of their properties.

### Accounts

`users` and `resets` are functions from the keys stored to rows; `audit` is the
set of users that `logs` refers to; `mails` holds the links that were mailed.
`req[s]` is the request in slot `s`: its route `op`, the statement `pc` it runs
next, and the local variables that survive an await (`user`, `actor`, `email`,
`pw`, `row`, `token`). `fate` is a history variable, what became of each token:
*fresh*, *drawn* by a request, *lost* when its insert failed, *stored*,
*withdrawn* when getInvite replaced it or ResetController edited it away, *spent*
by the change that used it or deleted it with the others. `MailedLinkStands`
reads the mails against it.

| `pc` | Statement | Action |
|---|---|---|
| `spend` | the deletion of the code, at the end of `signInWithCode` | `SpendCode` |
| `login` | the second `validateUser` of sign-in, in `fastLogin` | `Login` |
| `rotate` | `updateRefreshToken` | `Rotate` |
| `find`, `write`, `purge` | the rest of `changePassword` | `FindUser`, `WriteRow`, `Purge` |
| `insert` | `resetService.create` | `Insert` |
| `clear`, `mail` | the rest of `forgotPassword` | `ClearSession`, `SendMail` |
| `list`, `renew` | `getInviteByUserId` | `ListLinks`, `DropLinks` |
| `disableFind`, `disableWrite`, `log` | the rest of `disableUser` | `DisableFind`, `DisableWrite`, `WriteLog` |

The first statement of a route is the action named for the route. A password
write is a write of the *whole* row, as the code does
(`{...user, password, status}`): `row` is the row as it was read, and `WriteRow`
puts it back, with whatever is out of date in it.

A hash is abstracted to what `bcrypt.compare` can tell. For passwords that is
the password. For refresh tokens it is the first 72 bytes, which hold the JWT
header and the beginning of the subject: `HashData(jwt) == jwt.sub`. So a new
session of a user does not invalidate the user's earlier refresh tokens; the
properties state what is still guaranteed.

The environment expires links (`Expire`), makes a statement fail without effect
(`Fault`), kills the process (`Crash`: requests in flight are lost, tables
stay). A statement that commits and loses its acknowledgement is the statement
followed by a fault at the next one. The other modules use that convention too;
`Records` and `TwoFactor` have a position of their own for the answer, and
`Access` has it in `Fault`, with a late statement that fails after it, so that the last statement can lose its
acknowledgement as well. The insert of a link has
its own failure: `resetService.create` catches everything and answers `false`,
also when the row was committed and only the acknowledgement was lost. Users are
seeded, because no route creates one (see below).

### PasswordRecovery

The abstract specification has links with a phase (none, live, expired, dead)
and an owner, passwords, and for each request the *right* to change one
password. A right comes from presenting a live link or the current password, is
for one user, and is used up by one change. `Accounts` implements it: `Recovery`
is the refinement mapping, and the run `promise` checks `Recovery!Spec`. The
routes of ResetController are left out of that instance, since they edit the
table at will.

### TwoFactor

`codes` is the table, keyed by the unique digits; `live` is whether the row is
younger than ten minutes, and `by` tells a row from a later one with the same
digits. A call has a slot of its own, which ends with a status.

| `pc` | Statement | Action |
|---|---|---|
| `user`, `rotate`, `spend` | the rest of `signInWithCode` | `FindUser`, `Rotate`, `Spend` |
| `reply` | none: the code is deleted, the answer not yet sent | `Reply` |
| `owner`, `insert`, `mail` | the rest of `resendCode` | `FindOwner`, `Insert`, `SendMail` |

`opened` remembers which sign-ins have replaced the session of their user, and
`spent` which have deleted the code they had read, whatever they were answered:
`OneSignInPerCode` counts those, and they are a cause for
`ErrorAfterSessionHasCause`. No route inserts a first code, so the table is
seeded, and the theorem `UnseededNoSignIn` says what that means for a table that
is not. The resend passes its whole body as the filter of the code, so the body
may be one that the client library refuses, or one that several codes match:
`ResendCode` has both.

### Access

`issued` is the set of pairs of tokens handed out, each with a subject and a
time; a pair signed by a request that has not handed it out is in `req`. The
guard looks at the token only. A renewal and a sign-in (by password or by code)
are two statements: read the user and sign, then store the hash and answer.
change-password and update-password have one more: `ReadRow` takes the row with
the session it has at that time, and `WriteRow` writes it back, so that a session
cleared in between is there again, before it signs. `gone` and `quiet` are
history: when a user was deleted, and since when a user has been without a
session, without a renewal or a row to be written back in flight and without a
credential shown; `Settle` keeps `quiet` and is a conjunct of every step but
`SignIn` and `ReadRow`. `SignOut` is in the
model as it is: it throws before it does anything. Signatures are not modelled:
a token that verifies is one that was issued.

### HttpErrors and Records

An error is its class and, for an `HttpException`, a status. `StatusOf` applies
the interceptors in the order errors meet them (the last registered is the
innermost) and then the filter.

`Records` gives each handler as a sequence of statement kinds (`Script`): user,
row, form, address, admin, target (look-ups), insert, update, disable, cancel,
erase, log, reply. One action per kind; `req[c].at` is the position. `changed`
and `logs` remember which calls have changed a row and which have written their
log, `faulted` which were hit by a fault or a crash. `POST laudos-crm` has no
script: its DTO asks for an array and for a single enum value in the same field,
so the `ValidationPipe` refuses every body. `PATCH files/remove/:id` passes its
arguments shifted by one, so the address of the client is looked up as the user.
That address is what the client puts into `x-original-forwarded-for` or
`x-forwarded-for`, if it sends one: `FindAddress` takes it to be any stored
user, or nobody. If it is a user, the removal is logged as that user's and then
`canceled_at` is set. This is the one handler that logs first, so a fault or a
crash after its log leaves a trail that claims a removal that is not so:
`LogsAgreeWithRows` names that case (`Unfinished`) and excludes every other.

`disable-user` looks up the administrator and the user (both missing answer 400),
changes the status and logs with the administrator. The constant `Headers` is
what the clients of an instance send as the acting user.

### AuditTrail

Only `PATCH files/:id` hands `createLog` an old and a new value. `AuditTrail`
opens that one script of `Records` up: the row has columns, a body names some
of them, `before` and `after` are the two variables of the handler, and
`GetLogData` keeps the columns that differ. `updated_at` counts the updates, so
it also says which version of the row a call has read. `versions` and `upto`
are history. `PATCH files/remove/:id` sets `canceled_at` and writes a log without
an old and a new value: neither is among the columns and the logs of this module.
A reader of `trail` gets the logs in the order of their inserts and
takes, for each column, what the last log that tells it says (`Replayed`): the
row that putting the logs on top of one another gives.

### Paging and Registration

A listing is a query per page, with `OFFSET` and `LIMIT`, in the order of
`created_at` (ascending, but descending for logs). `Paging` follows one client
that asks page after page until one is short. `created_at` is fixed by `Create`
and the row becomes visible with `Commit`, so rows can appear out of order, and
rows with the same time come in any order on each page (`FirstOf`). `base`,
`joined` and `left` record what the table did during the walk. The four listings
behave in two ways: forms and both listings of laudos like `forms`, logs like
`logs`; which one a behaviour is about is chosen in `Init`. Pages and sizes are
natural numbers; text that is no number, and negative sizes, are left out.

`Registration` has the two routes that should create users. It is the model of a
disagreement: `users.controller.ts:22` documents 409 for a taken e-mail, and the
repository answers 400 (run `conflict`).

## Runs

| Run | Instance | What it shows |
|---|---|---|
| `recovery` | 1 pending user, 3 tokens, 2 requests, 6 routes | types; spent links stay dead; links that were mailed stand; holders of links exist; a removal settles, and bars new links |
| `promise` | 1 user, 2 passwords, 2 tokens, 2 requests | `Accounts` implements `PasswordRecovery` |
| `sessions` | 2 users, 3 e-mails, 1 password, 1 token, 2 requests, 7 routes | refreshes keep their identity; sessions need a credential: a password, a link or a code |
| `admin` | 2 users, 1 token, 8 routes with the CRUD of reset | no link and no log outlives its user |
| `live` | 1 user, 2 tokens, 2 requests, `FairSpec` | every request ends |
| `codes` | 2 users, 2 codes of which one is seeded, 3 calls | types; one sign-in past the deletion of each code; errors after the session was replaced have a cause; codes keep their user and run dry for good; expired codes stay for good |
| `access` | 2 users, 2 requests, access tokens for 1 instant and refresh tokens for 2, a clock to 3 | types; who is deleted or logged out is let in for one access token at most |
| `denied` | 1 user, 1 request | violated: a refused call is answered 401, not the 403 of the controller's documentation |
| `answers` | 2 users, 3 forms of which 2 are seeded, 1 laudo, 1 file, 2 calls of any route by one user or without a user, `FairSpec` | types; rows keep what they refer to; logs and statuses agree with what the calls did; one deletion; every call ends |
| `trail` | 1 file with 2 columns of 2 values, 3 calls | types; a log tells its own call's change, and the trail adds up to the file, unless there is a cause |
| `listings` | 3 rows, 3 instants, pages of one row | what a walk misses or repeats has a cause; the count of logs covers the page |
| `conflict` | 1 user, 2 e-mails, 1 call | violated: a taken e-mail is answered 400, not 409 |

Bounds. `Slots` and `Calls` bound how many requests are in flight; slots are
reused without limit, calls are not (the history variables of `Records`,
`TwoFactor` and `AuditTrail` speak of calls). Two requests give every race
between a read and a write of the handlers, since each hazard of `Accounts` and
`Records` involves one reader and one writer; for `Records` the theorems below
cover any number. Three calls are what the other two modules need: in `TwoFactor`
two sign-ins and the resend that draws the same digits, in `AuditTrail` two
updates between the read and the log of a third. `Headers` is one user, or none:
the second user is whom a file is handed to, a removal is logged as, or
disable-user names.

`Tokens` bounds the draws of `uuidV4`: `CanDraw` lets a request that needs a
token start only when one is left for every request in flight that may still
draw, so that the bound never blocks a request half-way. Three tokens let a link
be issued, replaced, and replaced again. E-mails: two users and a third address
are what a swap needs. `Codes` stands for the million digits; with two, a resend
meets digits that are taken and digits that are free. `FormIds` bounds inserts.

In `Access` the lifetimes are one and two instants: what matters is that an
access token ends before a refresh token and that the clock runs past a refresh
token handed out at the start (`MaxTime` is 3); the theorems cover 14 hours and 6
days. In `Paging` three rows that may have three different times or share one let
a row go out before, at and after the place a walk has reached; pages of one row
make every step of the walk a place where the table can move. Symmetry is used
over users, slots, calls, tokens and rows where they are alike, never in a run
that checks liveness.

`CHECK_DEADLOCK FALSE` is set only for `Records`, `TwoFactor`, `AuditTrail` and
`Registration`, where calls run out and nothing further has to happen. In
`Accounts`, `Access` and `Paging` a deadlock would be an error.

Fairness. `FairSpec` asks weak fairness of the statements of each slot: an
awaited statement settles, with a result or with an error, and the event loop
then resumes its handler. It asks nothing of clients (`Call`), of the clock
(`Expire`), of faults and of crashes.

Every property that holds has a mutant in `PROJECT.json`: a change of one modelled
definition that a plausible slip in the code would make, under which the run
reports that property.

## Proofs

For arbitrary finite or infinite sets of users, e-mails, passwords, tokens,
codes, rows, columns, slots and calls, any choice of routes, any lifetimes and
any tables at the start that the named assumptions of the module admit
(`NoneAssumption`, `InstanceAssumption`, `TwoFactorNone`, `TwoFactorInstance`,
`AccessInstance`, `RecordsNone`, `RecordsInstance`, `TrailInstance`,
`PagingInstance`: `None` is no value of the sets; what is seeded is well typed,
with distinct e-mails, no open session and no reference to what is not there; the
rows of a listing are finitely many and at least one, and a page has a size).

| Theorem | Module | Statement |
|---|---|---|
| `TypeCorrect` | `AccountsProofs` | `Spec => []TypeOK` |
| `AlwaysReferences` | `AccountsSafety` | `Spec => []ReferencesHold` |
| `AlwaysSettled` | `AccountsSafety` | `Spec => RemovalSettles` |
| `AlwaysOwnIdentity` | `AccountsSafety` | `Spec => []RefreshKeepsIdentity` |
| `AlwaysNeedsCredential` | `AccountsSafety` | `Spec => SessionNeedsCredential` |
| `AlwaysMailStands` | `AccountsLinks` | `Spec => []MailedLinkStands` |
| `AlwaysDead` | `AccountsLinks` | `NoEdits` implies `Spec => []SpentLinkIsDead` |
| `AlwaysHeld` | `AccountsLinks` | `NoEdits` implies `Spec => []LinkHolderExists` |
| `AlwaysBarred` | `AccountsLinks` | `NoEdits` implies `Spec => RemovalBars` |
| `AlwaysPromised` | `AccountsLinks` | `NoEdits` implies `Spec => KeepsRecoveryPromise` |
| `TypeCorrect` | `TwoFactorProofs` | `Spec => []TypeOK` |
| `AlwaysKeepUser` | `TwoFactorProofs` | `Spec => []CodesKeepUser` |
| `AlwaysOneSignIn` | `TwoFactorProofs` | `Spec => []OneSignInPerCode` |
| `AlwaysCause` | `TwoFactorProofs` | `Spec => []ErrorAfterSessionHasCause` |
| `AlwaysDry` | `TwoFactorProofs` | `Spec => DryForGood` |
| `AlwaysStale` | `TwoFactorProofs` | `Spec => StaleForGood` |
| `UnseededNoSignIn` | `TwoFactorProofs` | `DOMAIN SeedCodes = {}` implies that no call of `Spec` signs in |
| `TypeCorrect` | `AccessProofs` | `Spec => []TypeOK` |
| `AlwaysLoseGone` | `AccessProofs` | `Spec => []GoneLoseAccess` |
| `AlwaysLoseLoggedOut` | `AccessProofs` | `Spec => []LoggedOutLoseAccess` |
| `TypeCorrect` | `RecordsProofs` | `Spec => []TypeOK` |
| `AlwaysHonest` | `RecordsProofs` | `Spec => []StatusIsHonest` |
| `AlwaysCaused` | `RecordsProofs` | `Spec => []UnloggedHasCause` |
| `LogsAlwaysKeepUser` | `RecordsProofs` | `Spec => []LogsKeepUser` |
| `AlwaysAgree` | `RecordsProofs` | `Spec => []LogsAgreeWithRows` |
| `AlwaysOneDeletion` | `RecordsProofs` | `Spec => []OneDeletion` |
| `LaudosAlwaysKeepForm` | `RecordsProofs` | `Spec => []LaudosKeepForm` |
| `FilesAlwaysKeepUser` | `RecordsProofs` | `Spec => []FilesKeepUser` |
| `TypeCorrect` | `AuditTrailProofs` | `Spec => []TypeOK` |
| `AlwaysTells` | `AuditTrailProofs` | `Fields \intersect KeysToNotLog = {}` implies `Spec => []LogTellsItsCall` |
| `AlwaysReplays` | `AuditTrailProofs` | `Fields \intersect KeysToNotLog = {}` implies `Spec => []TrailReplays` |
| `TypeCorrect` | `PagingProofs` | `Spec => []TypeOK` |
| `MissesAlwaysCaused` | `PagingProofs` | `Spec => []MissesHaveCause` |
| `RepeatsAlwaysCaused` | `PagingProofs` | `Spec => []RepeatsHaveCause` |
| `CountAlwaysCovers` | `PagingProofs` | `Spec => []CountCoversPage` |

The argument for `Accounts`.

1. *Typed.* `TypeOK` is not inductive: a request at `write` needs a row in its
   slot, one at `rotate` a user, one at `insert` a token. The invariant `Typed`
   adds, for each `pc`, which local variables are present. `EveryMove` then says
   that an action changes its own slot and no other, and `SlotSteps` what a step
   can do to a given slot; every later invariant argues slot by slot from them.
2. *References* are inductive beside `Typed`: each insert checks the user, each
   deletion checks the references.
3. *Removals.* `RemovalSettles` is an action property. A retired user could only
   come back through a row that was read before, and `Retired` says that no such
   row is in flight; `ComesToWrite` shows that a request that arrives at `write`
   has just read the row. `RemovalBars` adds the links: `Barred` says that the
   user has none and that none is on its way, and `DrawnFor` that a link is
   drawn only for a user who is not removed, who is not active, or who has one.
4. *Sessions.* `SessionsOwned` says that the hash stored for a user is of a
   token of that user, so `Compare` succeeds only for a token of that subject.
   It is needed because `refreshBiometric` looks the user up by an e-mail: the
   identity of the tokens follows from the comparison, not from the look-up.
5. *Links.* `MailedLinkStands` needs to know that what is about to be mailed has
   been through its insert (`MailReady`), that the links already mailed have
   (`MailsReady`), and that a token recorded as stored is in the table
   (`StoredIsThere`); after that a fate only moves forward. `SpentLinkIsDead`
   alone is not inductive either: a pending insert could store a token that was
   spent, and a pending change could spend a token that is not its user's.
   `LinkInv` adds that stored rows are recorded as stored, that pending inserts
   hold drawn tokens, each its own, and that the token of a pending change is
   either that user's or gone for good. The CRUD of ResetController can put any
   token back under any user: `NoEdits` (`Routes` without those three) is a
   hypothesis of `AlwaysDead`, `AlwaysHeld`, `AlwaysBarred` and
   `AlwaysPromised`, and the run `admin` shows that those routes are in the
   model.
6. *The promise.* The refinement mapping reads four things off a state: the
   owner and the phase of each link, the password of each user, the right each
   slot holds. The proof says of each abstract step what it does to those four,
   then splits the concrete step: the few actions that change a link, a password
   or a right are one abstract step each, and all the others lose rights at
   most, which is the abstract `GiveUp` or a stutter. `LinkInv` supplies what
   the abstract guards ask, that a right was earned from a live link or a
   password.

The arguments for the other modules.

- `TwoFactor`: one lemma says what any step does to the calls and another to the
  codes. `AlwaysOneSignIn` rests on `SpendInv`: a row names the resend that
  inserted it, and once a row has been spent its digits are not in the table
  unless a resend has drawn them again, which the property allows for because
  the code deletes by digits. `AlwaysCause` rests on `SessionInv`: a call that
  has found its code still finds it at the end unless another sign-in has
  deleted the same digits, answered or not. `AlwaysStale` needs only that a
  sign-in reads live codes and deletes the digits it has read, and
  `CodesKeepUser` for the user.
- `Access`: `AccessInv` says that every pair of tokens, handed out or held by a
  request, is dated no later than now (`Dated`), that a user who is gone has no
  pair handed out that is younger than the removal (`GoneInv`), and the same for
  a user who has been quiet (`QuietInv`). A renewal that is in flight at the
  logout can still hand out a pair, and a row that is to be written back can
  bring the session back, which is why `quiet` starts only when there is
  neither.
- `Records`: that progress of a call and its row agree (`AllProgress`) makes
  each status honest; `Trail` ties rows, logs and calls together, and says that
  the removal of a file that ended with its log and without its mark met a fault
  or a crash.
- `AuditTrail`: `AllKnow` says what a call knows: the row it has read (`before`)
  differs from the file only in columns that updates since have named, and, once
  it has updated, `after` is the version its own update made. `AllLogged`
  carries that into the trail. The theorems ask that no column is one that the
  helper always leaves out: a change of such a column alone would be told by no
  log. `AlwaysReplays` needs more about the order of updates and logs,
  `ReplayInv`: each version is the one update of its call (`OnceEach`), a column
  differs between two versions only if an update after the first named it
  (`SinceNamed`), and each column is in one of three states. Either updates of
  it overlapped, or an update with no log is older than another that named the
  column (`Late`), or the trail gives its value in some version after which no
  logged update named it (`UpTo`). The last is what a log establishes: a log
  that tells the column brings the trail to its own version, and one that does
  not has found it unchanged.
- `Paging`: counts, for a row of the listing, the rows before it (`Preceding`).
  A page at an offset shows rows that have at least that many before them and
  fewer than the end of the page (`ShownAt`), and passes over a row it could
  have shown only when it is full of rows before it (`PassedOver`). So
  `ShownBehind` says that what was shown lies before the pages read,
  `OthersAhead` that what was not lies behind them, and both are kept by the
  table: only a row before `i` that joins or leaves moves `i`, and that row is
  the cause the properties ask for. Rows that share a `created_at` have no place
  of their own and are excused from the start. `PageBound` and `CountAhead` say
  the same of the end of a page, for the types and for the count.

Only model-checked:

- liveness (`EveryRequestEnds`, `EveryCallEnds`): an argument from fairness needs
  `ENABLED`, which the prover does not handle;
- the runs `denied` and `conflict`, which are counterexamples.

## Not modelled

- the creation of users: sign-up and `POST users` pass the field `userId` to
  `prisma.user.create`, which has no such column, so they fail for every body
  that passes validation. `Registration` models the failure; `Accounts` starts
  from seeded users for that reason.
- divergencias: not imported by any module of the application, so none of its
  routes exist in the server.
- the upload of files hands the file to Supabase and stores no row. The rest of
  the files service is commented out or reached by no route; the module itself is
  in the server only because the health module imports it.
- reads of single rows, and the list of users: they change nothing.
- signatures of JWTs, templates and transport of e-mails, health probes,
  configuration, utilities: no state, or input and output only.

## Open ends

What the code does and no property excludes, on purpose: a row read before a
removal and written back undoes it; a link may be used twice until it is deleted;
getInvite may leave a user without a link; a refresh in flight outlives the
clearing of a session; sign-out ends nothing; a client that retries after a 400 or
500 may create a second form; a walk of the logs that names no page misses the
newest; the count of logs is too small for rows found by `id_entity`; the log of
a file removal names the user of the forwarding header. `PROJECT.json` says at
each of these hazards what the properties nevertheless bound.
