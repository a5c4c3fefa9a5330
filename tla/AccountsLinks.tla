---------------------------- MODULE AccountsLinks -----------------------------
(***************************************************************************)
(* The life of a reset link: drawn, stored, spent; and that Accounts       *)
(* implements PasswordRecovery, for every instance without the routes of   *)
(* ResetController.                                                        *)
(***************************************************************************)
EXTENDS AccountsSafety

-----------------------------------------------------------------------------
\* Which actions change the fate of a token, and how.

LEMMA DrawsIfFateChanges ==
  ASSUME Typed, NEW s \in Slots, ForgotPassword(s) \/ ResendInvite(s) \/ ListLinks(s)
  PROVE  UNCHANGED fate \/ Draws(s)
<1>1. ASSUME NEW op, NEW pc, NEW u, NEW t \in Tokens, Drawn(s, op, pc, u, t)
      PROVE  /\ fate[t] = "fresh" /\ fate' = [fate EXCEPT ![t] = "drawn"]
             /\ req'[s].op = op /\ req'[s].pc = pc /\ req'[s].token = t
  <2>1. req'[s] = [Blank EXCEPT !.op = op, !.pc = pc, !.user = u, !.token = t]
    BY <1>1, SlotWritten DEF Drawn
  <2>2. req'[s].op = op /\ req'[s].pc = pc /\ req'[s].token = t
    BY <2>1 DEF Blank
  <2>3. QED BY <1>1, <2>2 DEF Drawn
<1>2. CASE ForgotPassword(s)
  <2>1. \/ UNCHANGED fate
        \/ \E u, t : t \in Tokens /\ Drawn(s, "forgotPassword", "insert", u, t)
    BY <1>2 DEF ForgotPassword
  <2>2. QED BY <1>1, <1>2, <2>1 DEF Draws
<1>3. CASE ResendInvite(s)
  <2>1. \/ UNCHANGED fate
        \/ \E u, t : t \in Tokens /\ Drawn(s, "resendInvite", "insert", u, t)
    BY <1>3 DEF ResendInvite
  <2>2. QED BY <1>1, <1>3, <2>1 DEF Draws
<1>4. CASE ListLinks(s)
  <2>1. \/ UNCHANGED fate
        \/ \E u, t : t \in Tokens /\ Drawn(s, "getInvite", "renew", u, t)
    BY <1>4 DEF ListLinks
  <2>2. QED BY <1>1, <1>4, <2>1 DEF Draws
<1>5. QED BY <1>2, <1>3, <1>4

LEMMA WhoWritesFate ==
  ASSUME Typed, [Next]_vars
  PROVE  \/ UNCHANGED fate
         \/ \E s \in Slots : Draws(s) \/ LinksWrites(s)
<1>1. ASSUME NEW s \in Slots, Call(s)
      PROVE  UNCHANGED fate \/ Draws(s) \/ LinksWrites(s)
  BY <1>1, DrawsIfFateChanges
     DEF Call, SignIn, FastLogin, SignInWithCode, Refresh, RefreshBiometric, ChangePassword,
         UpdatePassword, GetInvite, UpdateUser, DisableUser, RemoveUser, DeleteUser,
         LinksWrites
<1>2. ASSUME NEW s \in Slots, Step(s)
      PROVE  UNCHANGED fate \/ Draws(s) \/ LinksWrites(s)
  BY <1>2, DrawsIfFateChanges
     DEF Step, Login, SpendCode, Rotate, FindUser, WriteRow, ClearSession, SendMail,
         DisableFind, DisableWrite, WriteLog, LinksWrites
<1>3. QED BY <1>1, <1>2 DEF Next, Fault, Expire, Crash, vars

\* What ResetController does to the fate of a token.
LEMMA EditedFate ==
  ASSUME Typed, NEW s \in Slots, ResetCreate(s) \/ ResetUpdate(s) \/ ResetRemove(s),
         NEW t \in Tokens
  PROVE  \/ fate'[t] = fate[t]
         \/ fate[t] # "spent" /\ fate'[t] \in {"stored", "withdrawn"}
<1>1. CASE UNCHANGED fate
  BY <1>1
<1>2. ASSUME NEW x \in Tokens, NEW becomes \in {"stored", "withdrawn"},
             fate' = [fate EXCEPT ![x] = Unless(@, becomes)]
      PROVE  \/ fate'[t] = fate[t]
             \/ fate[t] # "spent" /\ fate'[t] \in {"stored", "withdrawn"}
  BY <1>2 DEF Unless, Typed, TypeOK
<1>3. ASSUME NEW old \in Tokens, NEW x \in Tokens, MarkMoved(old, x)
      PROVE  \/ fate'[t] = fate[t]
             \/ fate[t] # "spent" /\ fate'[t] \in {"stored", "withdrawn"}
  BY <1>3 DEF MarkMoved, Unless, Typed, TypeOK
<1>4. QED BY <1>1, <1>2, <1>3 DEF ResetCreate, ResetUpdate, ResetRemove, MarkStored

\* A token whose insert has been tried stays so; one that was stored is stored,
\* withdrawn or spent for ever.
Tried(t) == fate[t] \in {"lost", "stored", "withdrawn", "spent"}
Settled(t) == fate[t] \in {"stored", "withdrawn", "spent"}

LEMMA FateProgress ==
  ASSUME Typed, [Next]_vars, NEW t \in Tokens
  PROVE  (Settled(t) => Settled(t)') /\ (Tried(t) => Tried(t)')
<1> USE DEF Settled, Tried
<1>1. CASE UNCHANGED fate
  BY <1>1
<1>2. ASSUME NEW s \in Slots, Draws(s)
      PROVE  (Settled(t) => Settled(t)') /\ (Tried(t) => Tried(t)')
  BY <1>2 DEF Draws, Typed, TypeOK
<1>3. ASSUME NEW s \in Slots, Insert(s)
      PROVE  (Settled(t) => Settled(t)') /\ (Tried(t) => Tried(t)')
  BY <1>3 DEF Insert, InsertLink, Lose, Typed, TypeOK
<1>4. ASSUME NEW s \in Slots, Purge(s) \/ DropLinks(s)
      PROVE  (Settled(t) => Settled(t)') /\ (Tried(t) => Tried(t)')
  BY <1>4 DEF Purge, DropLinks
<1>5. ASSUME NEW s \in Slots, ResetCreate(s) \/ ResetUpdate(s) \/ ResetRemove(s)
      PROVE  (Settled(t) => Settled(t)') /\ (Tried(t) => Tried(t)')
  BY <1>5, EditedFate
<1>6. QED BY <1>1, <1>2, <1>3, <1>4, <1>5, WhoWritesFate DEF LinksWrites

-----------------------------------------------------------------------------
\* A token whose fate is stored is in the table.
StoredIsThere == \A t \in Tokens : fate[t] = "stored" => t \in DOMAIN resets

LEMMA StoredIsThereWritten ==
  ASSUME Typed, StoredIsThere, NEW s \in Slots, LinksWrites(s)
  PROVE  StoredIsThere'
<1>1. CASE Insert(s)
  <2>1. req[s].token \in Tokens
    BY <1>1, RequestTyped DEF Insert, At, Typed, Shaped, HasToken
  <2>2. QED BY <1>1, <2>1
            DEF Insert, InsertLink, Stored, Lose, StoredIsThere, Typed, TypeOK
<1>2. CASE Purge(s) \/ DropLinks(s)
  BY <1>2 DEF Purge, DropLinks, WithoutLinksOf, StoredIsThere
<1>3. CASE ResetCreate(s)
  BY <1>3 DEF ResetCreate, Stored, MarkStored, StoredIsThere, Typed, TypeOK
<1>4. CASE ResetUpdate(s)
  <2>1. PICK old \in Tokens, t \in Tokens, u \in UserIds, x \in BOOLEAN :
          \/ UNCHANGED <<resets, fate>>
          \/ /\ resets' = [y \in (DOMAIN resets \ {old}) \union {t} |->
                             IF y = t THEN [user |-> u, expired |-> x] ELSE resets[y]]
             /\ MarkMoved(old, t)
    BY <1>4, Zenon DEF ResetUpdate
  <2>2. CASE UNCHANGED <<resets, fate>>
    BY <2>2 DEF StoredIsThere
  <2>3. CASE ~UNCHANGED <<resets, fate>>
    <3>1. DOMAIN resets' = (DOMAIN resets \ {old}) \union {t} /\ MarkMoved(old, t)
      BY <2>1, <2>3
    <3>2. QED BY <3>1 DEF MarkMoved, Unless, StoredIsThere
  <2>4. QED BY <2>2, <2>3
<1>5. CASE ResetRemove(s)
  BY <1>5 DEF ResetRemove, Unless, StoredIsThere, Typed, TypeOK
<1>6. QED BY <1>1, <1>2, <1>3, <1>4, <1>5 DEF LinksWrites

LEMMA StoredIsThereKept ==
  ASSUME Typed, StoredIsThere, [Next]_vars
  PROVE  StoredIsThere'
<1>1. CASE UNCHANGED fate /\ (UNCHANGED resets \/ Expire)
  BY <1>1 DEF Expire, StoredIsThere
<1>2. ASSUME NEW s \in Slots, Draws(s)
      PROVE  StoredIsThere'
  <2>1. UNCHANGED resets
    BY <1>2 DEF Draws, ForgotPassword, ResendInvite, ListLinks, tables
  <2>2. QED BY <1>2, <2>1 DEF Draws, StoredIsThere, Typed, TypeOK
<1>3. QED BY <1>1, <1>2, StoredIsThereWritten, WhoWritesFate, WhoWritesLinks

-----------------------------------------------------------------------------
\* A request is about to mail only a link whose insert has been tried, and an
\* invitation only one that was stored; so are the mails sent.

MailReady ==
  \A s \in Slots :
    /\ req[s].pc \in {"clear", "mail"} => Tried(req[s].token)
    /\ (At(s, "mail") /\ req[s].op = "resendInvite") => Settled(req[s].token)

MailsReady ==
  \A m \in mails : Tried(m.token) /\ (m.kind = "invite" => Settled(m.token))

LEMMA ComesToMail ==
  ASSUME Typed, NEW z \in Slots, Moves(z), req'[z].pc = "mail"
  PROVE  Continues(z) /\ MovesOn(z, "mail")
<1>1. req[z] \in Requests
  BY DEF Typed, TypeOK
<1>2. ~Ends(z)
  BY DEF Ends, Blank
<1>3. ~StartsLogin(z) /\ ~StartsRotation(z) /\ ~StartsChange(z) /\ ~WroteRow(z)
      /\ ~ReadsRow(z) /\ ~StartsUpdate(z)
  BY DEF StartsLogin, StartsRotation, StartsChange, WroteRow, ReadsRow, StartsUpdate
<1>4. ~Draws(z) /\ ~StartsList(z) /\ ~StartsDisable(z)
  BY DEF Draws, StartsList, StartsDisable
<1>5. Continues(z)
  BY <1>2, <1>3, <1>4 DEF Moves
<1>6. ASSUME NEW pc, MovesOn(z, pc)
      PROVE  req'[z].pc = pc
  BY <1>1, <1>6 DEF MovesOn, Requests
<1>7. QED BY <1>5, <1>6 DEF Continues

\* Which moves lead to clear.
LEMMA ComesToClear ==
  ASSUME Typed, NEW z \in Slots, Moves(z), req'[z].pc = "clear"
  PROVE  Insert(z) /\ req'[z].token = req[z].token /\ fate'[req[z].token] \notin {"fresh", "drawn"}
<1>1. req[z] \in Requests
  BY DEF Typed, TypeOK
<1>2. ~Ends(z)
  BY DEF Ends, Blank
<1>3. ~StartsLogin(z) /\ ~StartsRotation(z) /\ ~StartsChange(z) /\ ~WroteRow(z)
      /\ ~ReadsRow(z) /\ ~StartsUpdate(z)
  BY DEF StartsLogin, StartsRotation, StartsChange, WroteRow, ReadsRow, StartsUpdate
<1>4. ~Draws(z) /\ ~StartsList(z) /\ ~StartsDisable(z)
  BY DEF Draws, StartsList, StartsDisable
<1>5. Continues(z)
  BY <1>2, <1>3, <1>4 DEF Moves
<1>6. ASSUME NEW pc, MovesOn(z, pc)
      PROVE  req'[z].pc = pc /\ req'[z].token = req[z].token
  BY <1>1, <1>6 DEF MovesOn, Requests
<1>7. QED BY <1>5, <1>6 DEF Continues

LEMMA MailReadyKept ==
  ASSUME Typed, MailReady, [Next]_vars
  PROVE  MailReady'
<1> SUFFICES ASSUME NEW z \in Slots, req'[z].pc \in {"clear", "mail"}
             PROVE  /\ fate'[req'[z].token] \in {"lost", "stored", "withdrawn", "spent"}
                    /\ (req'[z].pc = "mail" /\ req'[z].op = "resendInvite")
                         => fate'[req'[z].token] \in {"stored", "withdrawn", "spent"}
  BY DEF MailReady, At, Settled, Tried
<1>1. ASSUME NEW t \in Tokens
      PROVE  /\ Settled(t) => fate'[t] \in {"stored", "withdrawn", "spent"}
             /\ Tried(t) => fate'[t] \in {"lost", "stored", "withdrawn", "spent"}
  BY FateProgress DEF Settled, Tried
<1>2. req[z] \in Requests
  BY DEF Typed, TypeOK
<1>3. CASE req'[z] = req[z]
  <2>1. req[z].token \in Tokens
    BY <1>3, RequestTyped DEF Typed, Shaped, HasToken
  <2>2. QED BY <1>1, <1>3, <2>1 DEF MailReady, At
<1>4. CASE Moves(z) /\ req'[z].pc = "mail"
  <2>1. Continues(z) /\ MovesOn(z, "mail")
    BY <1>4, ComesToMail
  <2>2. req'[z].op = req[z].op /\ req'[z].token = req[z].token
    BY <1>2, <2>1 DEF MovesOn, Requests
  <2>3. CASE ClearSession(z)
    <3>1. /\ req[z].pc = "clear" /\ req[z].op = "forgotPassword"
          /\ req[z].token \in Tokens
      BY <2>3, RequestTyped DEF ClearSession, At, Typed, Shaped, HasToken
    <3>2. QED BY <1>1, <2>2, <3>1 DEF MailReady
  <2>4. CASE Insert(z) /\ fate'[req[z].token] = "stored"
    BY <2>2, <2>4
  <2>5. ASSUME NEW pc, MovesOn(z, pc)
        PROVE  pc = "mail"
    BY <1>2, <2>1, <2>5 DEF MovesOn, Requests
  <2>6. QED BY <2>1, <2>3, <2>4, <2>5 DEF Continues
<1>5. CASE Moves(z) /\ req'[z].pc = "clear"
  <2>1. /\ Insert(z) /\ req'[z].token = req[z].token
        /\ fate'[req[z].token] \notin {"fresh", "drawn"}
    BY <1>5, ComesToClear
  <2>2. req[z].token \in Tokens
    BY <2>1, RequestTyped DEF Insert, At, Typed, Shaped, HasToken
  <2>3. fate'[req[z].token] \in Fates
    BY <2>2, NextTyped DEF Typed, TypeOK
  <2>4. QED BY <1>5, <2>1, <2>3 DEF Fates
<1>6. req'[z] # Blank
  BY DEF Blank
<1>7. QED BY <1>3, <1>4, <1>5, <1>6, SlotSteps

LEMMA WhoMails ==
  ASSUME [Next]_vars
  PROVE  UNCHANGED mails \/ \E s \in Slots : SendMail(s)
<1>1. ASSUME NEW s \in Slots, Call(s)
      PROVE  UNCHANGED mails
  BY <1>1
     DEF Call, SignIn, FastLogin, SignInWithCode, Refresh, RefreshBiometric, ForgotPassword,
         ChangePassword, UpdatePassword, ResendInvite, GetInvite, UpdateUser, DisableUser,
         RemoveUser, DeleteUser, ResetCreate, ResetUpdate, ResetRemove
<1>2. ASSUME NEW s \in Slots, Step(s)
      PROVE  UNCHANGED mails \/ SendMail(s)
  BY <1>2
     DEF Step, Login, SpendCode, Rotate, FindUser, WriteRow, Purge, Insert, ClearSession, ListLinks,
         DropLinks, DisableFind, DisableWrite, WriteLog
<1>3. QED BY <1>1, <1>2 DEF Next, Fault, Expire, Crash, vars

LEMMA MailsReadyKept ==
  ASSUME Typed, MailReady, MailsReady, [Next]_vars
  PROVE  MailsReady'
<1> SUFFICES ASSUME NEW m \in mails'
             PROVE  Tried(m.token)' /\ (m.kind = "invite" => Settled(m.token)')
  BY DEF MailsReady, Tried, Settled
<1>1. m \in mails => m.token \in Tokens
  BY DEF Typed, TypeOK, Mails
<1>2. ASSUME NEW s \in Slots, SendMail(s), m \notin mails
      PROVE  /\ m.token \in Tokens /\ Tried(m.token)
             /\ m.kind = "invite" => Settled(m.token)
  <2>1. /\ req[s].pc = "mail" /\ m.token = req[s].token
        /\ m.kind = "invite" => req[s].op = "resendInvite"
    BY <1>2 DEF SendMail, At
  <2>2. req[s].token \in Tokens
    BY <2>1, RequestTyped DEF Typed, Shaped, HasToken
  <2>3. QED BY <2>1, <2>2 DEF MailReady, At
<1>3. m.token \in Tokens /\ Tried(m.token) /\ (m.kind = "invite" => Settled(m.token))
  BY <1>1, <1>2, WhoMails DEF MailsReady
<1>4. QED BY <1>3, FateProgress

\* In every instance, the edits of ResetController included, a mailed link is
\* stored unless it was withdrawn or spent; only the link of a recovery mail may
\* never have been.
THEOREM AlwaysMailStands == Spec => []MailedLinkStands
<1> DEFINE I == StoredIsThere /\ MailReady /\ MailsReady
<1>1. Init => I
  BY DEF Init, Blank, StoredIsThere, MailReady, MailsReady, At
<1>2. Typed /\ I /\ [Next]_vars => I'
  BY StoredIsThereKept, MailReadyKept, MailsReadyKept
<1>3. Typed /\ I => MailedLinkStands
  <2> SUFFICES ASSUME Typed, I, NEW m \in mails, m.token \notin DOMAIN resets
               PROVE  \/ fate[m.token] \in {"withdrawn", "spent"}
                      \/ m.kind = "recovery" /\ fate[m.token] = "lost"
    BY DEF MailedLinkStands
  <2>1. m.token \in Tokens /\ m.kind \in {"recovery", "invite"}
    BY DEF Typed, TypeOK, Mails
  <2>2. fate[m.token] # "stored"
    BY <2>1 DEF StoredIsThere
  <2>3. QED BY <2>1, <2>2 DEF MailsReady, Tried, Settled
<1> HIDE DEF I
<1>4. QED BY <1>1, <1>2, <1>3, AlwaysTyped, PTL DEF Spec

-----------------------------------------------------------------------------
(***************************************************************************)
(* Without the edits of ResetController, links are stored once and spent   *)
(* once.  The inductive invariant says what every pending request knows of *)
(* its token: before the insert it is drawn, and nobody else's; a password *)
(* change holds one that was stored and, while it is stored, is its        *)
(* user's.                                                                 *)
(***************************************************************************)
NoEdits == Routes \intersect ResetAdmin = {}

RowsAreStored == \A t \in DOMAIN resets : fate[t] = "stored"

Pending(s) == req[s].pc \in {"insert", "renew"}

PendingDrawn == \A s \in Slots : Pending(s) => fate[req[s].token] = "drawn"

PendingApart ==
  \A s, z \in Slots : Pending(s) /\ Pending(z) /\ req[s].token = req[z].token => s = z

Changing(s) == req[s].op = "changePassword"

ChangesSettled == \A s \in Slots : Changing(s) => Settled(req[s].token)

ChangesOwn ==
  \A s \in Slots :
    (Changing(s) /\ req[s].token \in DOMAIN resets)
      => resets[req[s].token].user = req[s].user

LinkInv ==
  RowsAreStored /\ PendingDrawn /\ PendingApart /\ ChangesSettled /\ ChangesOwn

\* What a step does to links and tokens.
KeepsLinks ==
  /\ UNCHANGED fate
  /\ DOMAIN resets' \subseteq DOMAIN resets
  /\ \A t \in DOMAIN resets' : resets'[t].user = resets[t].user

DrawsOnly(s) == Draws(s) /\ UNCHANGED resets

Stores(s) ==
  /\ Insert(s)
  /\ req[s].token \in Tokens \ DOMAIN resets
  /\ resets' = Stored(req[s].token, req[s].user, FALSE)
  /\ fate' = [fate EXCEPT ![req[s].token] = "stored"]

Loses(s) == Insert(s) /\ req[s].token \in Tokens /\ Lose(req[s].token) /\ UNCHANGED resets

LEMMA LinkSteps ==
  ASSUME NoEdits, Typed, [Next]_vars
  PROVE  \/ KeepsLinks
         \/ \E s \in Slots :
              DrawsOnly(s) \/ Stores(s) \/ Loses(s) \/ DropLinks(s) \/ Purge(s)
<1>1. CASE UNCHANGED <<resets, fate>>
  BY <1>1 DEF KeepsLinks
<1>2. CASE Expire
  BY <1>2, ResetTableIs DEF Expire, KeepsLinks, Typed, TypeOK, ResetRow
<1>3. ASSUME NEW s \in Slots, Insert(s)
      PROVE  Loses(s) \/ Stores(s)
  <2>1. req[s].token \in Tokens
    BY <1>3, RequestTyped DEF Insert, At, Typed, Shaped, HasToken
  <2>2. QED BY <1>3, <2>1 DEF Insert, InsertLink, Loses, Stores
<1>4. ASSUME NEW s \in Slots
      PROVE  ~ResetCreate(s) /\ ~ResetUpdate(s) /\ ~ResetRemove(s)
  BY DEF NoEdits, ResetAdmin, ResetCreate, ResetUpdate, ResetRemove, Called
<1>5. ASSUME NEW s \in Slots, Draws(s)
      PROVE  DrawsOnly(s)
  BY <1>5 DEF Draws, DrawsOnly, ForgotPassword, ResendInvite, ListLinks, tables
<1>6. CASE UNCHANGED fate /\ (UNCHANGED resets \/ Expire)
  BY <1>1, <1>2, <1>6
<1>7. ASSUME NEW s \in Slots, LinksWrites(s)
      PROVE  Loses(s) \/ Stores(s) \/ DropLinks(s) \/ Purge(s)
  BY <1>3, <1>4, <1>7 DEF LinksWrites
<1>8. QED BY <1>5, <1>6, <1>7, WhoWritesFate, WhoWritesLinks

\* Which moves lead to a pending insert.
LEMMA ComesToPending ==
  ASSUME Typed, NEW z \in Slots, Moves(z), Pending(z)'
  PROVE  \/ Draws(z)
         \/ DropLinks(z) /\ Pending(z) /\ req'[z].token = req[z].token
<1>1. req[z] \in Requests
  BY DEF Typed, TypeOK
<1>2. req'[z].pc \in {"insert", "renew"}
  BY DEF Pending
<1>3. ~Ends(z)
  BY <1>2 DEF Ends, Blank
<1>4. ~StartsLogin(z) /\ ~StartsRotation(z) /\ ~StartsChange(z) /\ ~WroteRow(z)
      /\ ~ReadsRow(z) /\ ~StartsUpdate(z)
  BY <1>2 DEF StartsLogin, StartsRotation, StartsChange, WroteRow, ReadsRow, StartsUpdate
<1>5. ~StartsList(z) /\ ~StartsDisable(z)
  BY <1>2 DEF StartsList, StartsDisable
<1>6. ASSUME NEW pc, MovesOn(z, pc)
      PROVE  req'[z].pc = pc /\ req'[z].token = req[z].token
  BY <1>1, <1>6 DEF MovesOn, Requests
<1>7. CASE Continues(z)
  <2>1. DropLinks(z) /\ MovesOn(z, "insert")
    BY <1>2, <1>6, <1>7 DEF Continues
  <2>2. QED BY <1>6, <2>1 DEF DropLinks, At, Pending
<1>8. QED BY <1>3, <1>4, <1>5, <1>7 DEF Moves

\* Which moves lead into a password change by link.
LEMMA ComesToChange ==
  ASSUME Typed, NEW z \in Slots, Moves(z), Changing(z)'
  PROVE  \/ StartsChange(z)
         \/ /\ Changing(z) /\ ~Insert(z) /\ ~Purge(z)
            /\ req'[z].token = req[z].token /\ req'[z].user = req[z].user
<1>1. req[z] \in Requests
  BY DEF Typed, TypeOK
<1>2. req'[z].op = "changePassword"
  BY DEF Changing
<1>3. ~Ends(z)
  BY <1>2, NoneAssumption DEF Ends, Blank, AllRoutes
<1>4. ~StartsLogin(z) /\ ~StartsRotation(z) /\ ~StartsUpdate(z) /\ ~Draws(z)
      /\ ~StartsList(z) /\ ~StartsDisable(z)
  BY <1>2 DEF StartsLogin, StartsRotation, StartsUpdate, Draws, StartsList, StartsDisable
<1>5. CASE ReadsRow(z) \/ WroteRow(z)
  <2>1. ~Insert(z) /\ ~Purge(z)
    BY <1>5 DEF ReadsRow, WroteRow, FindUser, WriteRow, Insert, Purge, At
  <2>2. QED BY <1>2, <1>5, <2>1 DEF ReadsRow, WroteRow, Changing
<1>6. CASE Continues(z)
  <2>1. PICK pc : MovesOn(z, pc)
    BY <1>6 DEF Continues
  <2>2. /\ req'[z].op = req[z].op /\ req'[z].token = req[z].token
        /\ req'[z].user = req[z].user
    BY <1>1, <2>1 DEF MovesOn, Requests
  <2>3. ~Insert(z)
    BY <1>2, <2>2, RequestTyped DEF Insert, At, Typed, Shaped
  <2>4. ~Purge(z)
    BY <1>6 DEF Continues, Rotate, Insert, DropLinks, ClearSession, DisableFind,
                DisableWrite, Purge, At
  <2>5. QED BY <1>2, <2>2, <2>3, <2>4 DEF Changing
<1>7. QED BY <1>3, <1>4, <1>5, <1>6 DEF Moves

-----------------------------------------------------------------------------
\* The token of a finishing change, and the links of its user, are settled.
LEMMA PurgedAreSettled ==
  ASSUME Typed, LinkInv, NEW s \in Slots, Purge(s), NEW t \in Tokens
  PROVE  fate'[t] # fate[t] => fate'[t] = "spent" /\ Settled(t)
<1>1. Changing(s)
  BY RequestTyped DEF Purge, At, Typed, Shaped, Changing
<1>2. QED BY <1>1 DEF Purge, LinkInv, ChangesSettled, RowsAreStored, Settled

LEMMA DroppedWereStored ==
  ASSUME LinkInv, NEW s \in Slots, DropLinks(s), NEW t \in Tokens
  PROVE  fate'[t] # fate[t] => fate[t] = "stored" /\ t \notin DOMAIN resets'
BY DEF DropLinks, WithoutLinksOf, LinkInv, RowsAreStored

LEMMA RowsAreStoredKept ==
  ASSUME NoEdits, Typed, LinkInv, [Next]_vars
  PROVE  RowsAreStored'
<1>1. CASE KeepsLinks
  BY <1>1 DEF KeepsLinks, LinkInv, RowsAreStored
<1>2. ASSUME NEW s \in Slots, DrawsOnly(s)
      PROVE  RowsAreStored'
  BY <1>2, ResetTableIs DEF DrawsOnly, Draws, LinkInv, RowsAreStored, Typed, TypeOK
<1>3. ASSUME NEW s \in Slots, Stores(s)
      PROVE  RowsAreStored'
  BY <1>3, ResetTableIs DEF Stores, Stored, LinkInv, RowsAreStored, Typed, TypeOK
<1>4. ASSUME NEW s \in Slots, Purge(s), NEW t \in DOMAIN resets'
      PROVE  fate'[t] = "stored"
  <2>1. t \in DOMAIN resets /\ resets[t].user # req[s].user /\ t \in Tokens
    BY <1>4, ResetTableIs DEF Purge, WithoutLinksOf, Typed, TypeOK
  <2>2. Changing(s)
    BY <1>4, RequestTyped DEF Purge, At, Typed, Shaped, Changing
  <2>3. t # req[s].token
    BY <2>1, <2>2 DEF LinkInv, ChangesOwn
  <2>4. QED BY <1>4, <2>1, <2>3 DEF Purge, LinkInv, RowsAreStored
<1>5. ASSUME NEW s \in Slots, Loses(s)
      PROVE  RowsAreStored'
  BY <1>5, ResetTableIs DEF Loses, Lose, LinkInv, RowsAreStored, Typed, TypeOK
<1>6. ASSUME NEW s \in Slots, DropLinks(s)
      PROVE  RowsAreStored'
  BY <1>6, ResetTableIs
     DEF DropLinks, WithoutLinksOf, LinkInv, RowsAreStored, Typed, TypeOK
<1>7. QED BY <1>1, <1>2, <1>3, <1>4, <1>5, <1>6, LinkSteps DEF RowsAreStored

LEMMA PendingKept ==
  ASSUME NoEdits, Typed, LinkInv, [Next]_vars
  PROVE  PendingDrawn' /\ PendingApart'
<1>1. ASSUME NEW z \in Slots, Pending(z)'
      PROVE  \/ Acts(z) /\ Draws(z)
             \/ Pending(z) /\ req'[z].token = req[z].token /\ ~Insert(z)
  <2>1. CASE req'[z] = req[z]
    <3>1. ~Insert(z)
      <4>1. SUFFICES ASSUME Insert(z) PROVE FALSE
        OBVIOUS
      <4>2. req[z].pc = "insert"
        BY <4>1 DEF Insert, At
      <4>3. Moves(z)
        BY <4>1, OtherMoves
      <4>4. Draws(z) \/ DropLinks(z)
        BY <1>1, <4>3, ComesToPending
      <4>5. QED BY <4>2, <4>4 DEF Draws, ForgotPassword, ResendInvite, ListLinks, DropLinks,
                                  Called, At
    <3>2. QED BY <1>1, <2>1, <3>1 DEF Pending
  <2>2. CASE Acts(z) /\ Moves(z)
    <3>1. DropLinks(z) => ~Insert(z)
      BY DEF DropLinks, Insert, At
    <3>2. QED BY <1>1, <2>2, <3>1, ComesToPending
  <2>3. req'[z] # Blank
    BY <1>1 DEF Pending, Blank
  <2>4. QED BY <2>1, <2>2, <2>3, SlotSteps
<1>2. ASSUME NEW z \in Slots, Pending(z)'
      PROVE  fate'[req'[z].token] = "drawn"
  <2>1. CASE Draws(z)
    BY <2>1 DEF Draws, Typed, TypeOK
  <2>2. CASE Pending(z) /\ req'[z].token = req[z].token /\ ~Insert(z)
    <3> DEFINE t == req[z].token
    <3>1. t \in Tokens /\ fate[t] = "drawn"
      BY <2>2, RequestTyped DEF Pending, Typed, Shaped, HasToken, LinkInv, PendingDrawn
    <3>2. CASE KeepsLinks
      BY <2>2, <3>1, <3>2 DEF KeepsLinks
    <3>3. ASSUME NEW s \in Slots, DrawsOnly(s)
          PROVE  fate'[t] = "drawn"
      BY <3>1, <3>3 DEF DrawsOnly, Draws, Typed, TypeOK
    <3>4. ASSUME NEW s \in Slots, Stores(s) \/ Loses(s)
          PROVE  fate'[t] = "drawn"
      <4>1. s # z /\ Pending(s)
        BY <2>2, <3>4 DEF Stores, Loses, Insert, At, Pending
      <4>2. req[s].token # t
        BY <2>2, <4>1 DEF LinkInv, PendingApart
      <4>3. QED BY <3>1, <3>4, <4>2 DEF Stores, Loses, Lose, Typed, TypeOK
    <3>5. ASSUME NEW s \in Slots, Purge(s)
          PROVE  fate'[t] = "drawn"
      BY <3>1, <3>5, PurgedAreSettled DEF Settled
    <3>6. ASSUME NEW s \in Slots, DropLinks(s)
          PROVE  fate'[t] = "drawn"
      BY <3>1, <3>6, DroppedWereStored
    <3>7. QED BY <2>2, <3>2, <3>3, <3>4, <3>5, <3>6, LinkSteps
  <2>3. QED BY <1>1, <1>2, <2>1, <2>2
<1>3. ASSUME NEW s \in Slots, NEW z \in Slots, Pending(s)', Pending(z)',
             req'[s].token = req'[z].token, Acts(s) /\ Draws(s), s # z
      PROVE  FALSE
  <2>1. req'[z] = req[z]
    BY <1>3, EveryMove DEF Alone
  <2>2. fate[req[z].token] = "drawn"
    BY <1>3, <2>1 DEF Pending, LinkInv, PendingDrawn
  <2>3. fate[req'[s].token] = "fresh"
    BY <1>3 DEF Draws
  <2>4. QED BY <1>3, <2>1, <2>2, <2>3
<1>4. ASSUME NEW s \in Slots, NEW z \in Slots, Pending(s)', Pending(z)',
             req'[s].token = req'[z].token
      PROVE  s = z
  <2>1. CASE Acts(s) /\ Draws(s)
    BY <1>3, <1>4, <2>1
  <2>2. CASE Acts(z) /\ Draws(z)
    BY <1>3, <1>4, <2>2
  <2>3. CASE ~(Acts(s) /\ Draws(s)) /\ ~(Acts(z) /\ Draws(z))
    BY <1>1, <1>4, <2>3 DEF LinkInv, PendingApart
  <2>4. QED BY <2>1, <2>2, <2>3
<1>5. QED BY <1>2, <1>4 DEF PendingDrawn, PendingApart, Pending

LEMMA ChangesKept ==
  ASSUME NoEdits, Typed, LinkInv, [Next]_vars
  PROVE  ChangesSettled' /\ ChangesOwn'
<1>1. ASSUME NEW z \in Slots, Changing(z)'
      PROVE  \/ StartsChange(z)
             \/ /\ Changing(z)
                /\ req'[z].token = req[z].token /\ req'[z].user = req[z].user
  <2>1. CASE req'[z] = req[z]
    BY <1>1, <2>1 DEF Changing
  <2>2. CASE Moves(z)
    BY <1>1, <2>2, ComesToChange
  <2>3. req'[z] # Blank
    BY <1>1, NoneAssumption DEF Changing, Blank, AllRoutes
  <2>4. QED BY <2>1, <2>2, <2>3, SlotSteps
<1>2. ASSUME NEW z \in Slots, StartsChange(z)
      PROVE  /\ fate'[req'[z].token] \in {"stored", "withdrawn", "spent"}
             /\ req'[z].token \in DOMAIN resets
             /\ UNCHANGED <<resets, fate>>
             /\ resets[req'[z].token].user = req'[z].user
  BY <1>2 DEF StartsChange, ChangePassword, tables, LinkInv, RowsAreStored
<1>3. ASSUME NEW z \in Slots, Changing(z)
      PROVE  /\ req[z].token \in Tokens /\ Settled(req[z].token)
             /\ req[z].token \in DOMAIN resets => resets[req[z].token].user = req[z].user
  BY <1>3, RequestTyped
     DEF Changing, Typed, Shaped, LinkInv, ChangesSettled, ChangesOwn
<1>4. ASSUME NEW t \in Tokens, Settled(t)
      PROVE  fate'[t] \in {"stored", "withdrawn", "spent"}
  BY <1>4, FateProgress DEF Settled
<1>5. ASSUME NEW t \in Tokens, Settled(t), t \in DOMAIN resets'
      PROVE  t \in DOMAIN resets /\ resets'[t].user = resets[t].user
  <2>1. CASE KeepsLinks
    BY <1>5, <2>1 DEF KeepsLinks
  <2>2. ASSUME NEW s \in Slots, DrawsOnly(s)
        PROVE  t \in DOMAIN resets /\ resets'[t].user = resets[t].user
    BY <1>5, <2>2 DEF DrawsOnly
  <2>3. ASSUME NEW s \in Slots, Stores(s)
        PROVE  t \in DOMAIN resets /\ resets'[t].user = resets[t].user
    <3>1. fate[req[s].token] = "drawn"
      BY <2>3 DEF Stores, Insert, At, Pending, LinkInv, PendingDrawn
    <3>2. t # req[s].token
      BY <1>5, <3>1 DEF Settled
    <3>3. QED BY <1>5, <2>3, <3>2 DEF Stores, Stored
  <2>4. ASSUME NEW s \in Slots, Purge(s) \/ DropLinks(s)
        PROVE  t \in DOMAIN resets /\ resets'[t].user = resets[t].user
    BY <1>5, <2>4 DEF Purge, DropLinks, WithoutLinksOf
  <2>5. ASSUME NEW s \in Slots, Loses(s)
        PROVE  t \in DOMAIN resets /\ resets'[t].user = resets[t].user
    BY <1>5, <2>5 DEF Loses
  <2>6. QED BY <2>1, <2>2, <2>3, <2>4, <2>5, LinkSteps
<1>6. ASSUME NEW z \in Slots, Changing(z)'
      PROVE  /\ fate'[req'[z].token] \in {"stored", "withdrawn", "spent"}
             /\ req'[z].token \in DOMAIN resets'
                  => resets'[req'[z].token].user = req'[z].user
  <2>1. CASE StartsChange(z)
    BY <1>2, <2>1
  <2>2. CASE /\ Changing(z)
             /\ req'[z].token = req[z].token /\ req'[z].user = req[z].user
    BY <1>3, <1>4, <1>5, <2>2
  <2>3. QED BY <1>1, <1>6, <2>1, <2>2
<1>7. QED BY <1>6 DEF ChangesSettled, ChangesOwn, Settled, Changing

LEMMA LinkInvKept ==
  ASSUME NoEdits, Typed, LinkInv, [Next]_vars
  PROVE  LinkInv'
BY RowsAreStoredKept, PendingKept, ChangesKept DEF LinkInv

LEMMA LinkInvFirst == Init => LinkInv
BY NoneAssumption
   DEF Init, Blank, AllRoutes, LinkInv, RowsAreStored, Pending, PendingDrawn,
       PendingApart, Changing, ChangesSettled, ChangesOwn

\* In every instance without the routes of ResetController a spent link never
\* comes back, for any number of requests that issue, replace and consume links.
THEOREM AlwaysDead ==
  ASSUME NoEdits
  PROVE  Spec => []SpentLinkIsDead
<1>1. LinkInv => SpentLinkIsDead
  BY DEF LinkInv, RowsAreStored, SpentLinkIsDead
<1>2. Typed /\ LinkInv /\ [Next]_vars => LinkInv'
  BY LinkInvKept
<1>3. QED BY <1>1, <1>2, LinkInvFirst, AlwaysTyped, PTL DEF Spec

\* In every such instance a password change whose link is still stored finds
\* its user stored and the link still that user's.
THEOREM AlwaysHeld ==
  ASSUME NoEdits
  PROVE  Spec => []LinkHolderExists
<1>1. LinkInv /\ ReferencesHold => LinkHolderExists
  BY DEF LinkInv, ChangesOwn, Changing, ReferencesHold, LinkHolderExists
<1>2. Typed /\ LinkInv /\ [Next]_vars => LinkInv'
  BY LinkInvKept
<1>3. QED BY <1>1, <1>2, LinkInvFirst, AlwaysTyped, AlwaysReferences, PTL DEF Spec

-----------------------------------------------------------------------------
\* For whom a link is drawn: not for a removed user, nor for one who is active
\* and has no link.
LEMMA DrawnFor ==
  ASSUME Typed, NEW z \in Slots, Draws(z)
  PROVE  \/ req'[z].user \in DOMAIN users /\ ~users[req'[z].user].canceled
         \/ req'[z].user \in DOMAIN users /\ users[req'[z].user].status # "US1"
         \/ \E t \in DOMAIN resets : resets[t].user = req'[z].user
<1>1. ASSUME NEW op, NEW pc, NEW u, NEW t \in Tokens, Drawn(z, op, pc, u, t)
      PROVE  req'[z].user = u
  <2>1. req'[z] = [Blank EXCEPT !.op = op, !.pc = pc, !.user = u, !.token = t]
    BY <1>1, SlotWritten DEF Drawn
  <2>2. QED BY <2>1 DEF Blank
<1>2. req'[z].pc \in {"insert", "renew"}
  BY DEF Draws
<1>3. ASSUME NEW out \in Outcomes, Answer(z, out)
      PROVE  FALSE
  <2>1. req'[z].pc = "done"
    BY <1>3, SlotWritten DEF Ends, Blank
  <2>2. QED BY <1>2, <2>1
<1>4. CASE ForgotPassword(z)
  <2>1. PICK u \in DOMAIN users, t \in Tokens :
          MayRecover(u) /\ Drawn(z, "forgotPassword", "insert", u, t)
    BY <1>3, <1>4 DEF ForgotPassword, UsersWith, Outcomes
  <2>2. QED BY <1>1, <2>1 DEF MayRecover
<1>5. CASE ResendInvite(z)
  <2>1. PICK u \in DOMAIN users, t \in Tokens :
          users[u].status # "US1" /\ Drawn(z, "resendInvite", "insert", u, t)
    BY <1>3, <1>5 DEF ResendInvite, Outcomes
  <2>2. QED BY <1>1, <2>1
<1>6. CASE ListLinks(z)
  <2>1. PICK last \in DOMAIN resets, t \in Tokens :
          /\ resets[last].user = req[z].user
          /\ Drawn(z, "getInvite", "renew", req[z].user, t)
    BY <1>3, <1>6 DEF ListLinks, AnswerNoLinks, Outcomes
  <2>2. QED BY <1>1, <2>1
<1>7. QED BY <1>4, <1>5, <1>6 DEF Draws

LEMMA BarredKept ==
  ASSUME NoEdits, Typed, [Next]_vars, NEW u \in UserIds, Barred(u),
         u \in DOMAIN users', users'[u].status = "US1"
  PROVE  Barred(u)'
<1>1. Retired(u)'
  <2>1. Retired(u)
    BY DEF Barred, Retired
  <2>2. QED BY <2>1, RetiredKept
<1>2. ASSUME NEW t \in DOMAIN resets', resets'[t].user = u
      PROVE  FALSE
  <2>1. CASE KeepsLinks
    BY <1>2, <2>1 DEF KeepsLinks, Barred
  <2>2. ASSUME NEW s \in Slots, DrawsOnly(s) \/ Loses(s)
        PROVE  FALSE
    BY <1>2, <2>2 DEF DrawsOnly, Loses, Barred
  <2>3. ASSUME NEW s \in Slots, Stores(s)
        PROVE  FALSE
    <3>1. req[s].user # u
      BY <2>3 DEF Stores, Insert, At, Barred
    <3>2. QED BY <1>2, <2>3, <3>1 DEF Stores, Stored, Barred
  <2>4. ASSUME NEW s \in Slots, DropLinks(s) \/ Purge(s)
        PROVE  FALSE
    BY <1>2, <2>4 DEF DropLinks, Purge, WithoutLinksOf, Barred
  <2>5. QED BY <2>1, <2>2, <2>3, <2>4, LinkSteps
<1>3. ASSUME NEW z \in Slots, req'[z].user = u, Pending(z)'
      PROVE  FALSE
  <2>1. CASE req'[z] = req[z]
    BY <1>3, <2>1 DEF Pending, Barred
  <2>2. CASE Draws(z)
    BY <1>3, <2>2, DrawnFor DEF Barred
  <2>3. CASE DropLinks(z) /\ Acts(z)
    <3>1. req'[z].user = req[z].user /\ req[z].pc = "renew"
      BY <2>3 DEF DropLinks, Continue, At, Typed, TypeOK, Requests
    <3>2. QED BY <1>3, <3>1 DEF Barred
  <2>4. req'[z] # Blank
    BY <1>3 DEF Pending, Blank
  <2>5. QED BY <1>3, <2>1, <2>2, <2>3, <2>4, SlotSteps, ComesToPending
<1>4. ASSUME NEW z \in Slots, req'[z].user = u, req'[z].pc = "write"
      PROVE  req'[z].row.status = "US1"
  <2>1. CASE req'[z] = req[z]
    BY <1>4, <2>1 DEF At, Barred
  <2>2. CASE ReadsRow(z)
    <3>1. PICK p : req'[z].row = ActivatedRow(u, p)
      BY <1>4, <2>2 DEF ReadsRow
    <3>2. QED BY <3>1, RowOfUser DEF ActivatedRow, Barred, Typed, UserRow
  <2>3. CASE StartsUpdate(z)
    <3>1. PICK p \in Passwords : req'[z].row = [users[u] EXCEPT !.pw = p]
      BY <1>4, <2>3 DEF StartsUpdate
    <3>2. QED BY <3>1, RowOfUser DEF Barred, Typed, UserRow
  <2>4. req'[z] # Blank
    BY <1>4 DEF Blank
  <2>5. QED BY <1>4, <2>1, <2>2, <2>3, <2>4, SlotSteps, ComesToWrite
<1>5. QED BY <1>1, <1>2, <1>3, <1>4 DEF Retired, Barred, Pending, At

\* In every instance without the routes of ResetController no link is issued
\* for a removed user who has none, once no request that saw the user before the
\* removal is about to insert one or to write the row back.
THEOREM AlwaysBarred ==
  ASSUME NoEdits
  PROVE  Spec => RemovalBars
<1>1. Typed /\ [Next]_vars
        => [\A u \in UserIds :
              (Barred(u) /\ u \in DOMAIN users' /\ users'[u].status = "US1")
                => Barred(u)']_vars
  BY BarredKept
<1>2. QED BY <1>1, AlwaysTyped, PTL DEF Spec, RemovalBars

-----------------------------------------------------------------------------
\* The abstract variables, as Recovery reads them off the tables and slots.
OwnerOf(t) == IF t \in DOMAIN resets THEN resets[t].user ELSE None
PasswordOf(u) == IF u \in DOMAIN users THEN users[u].pw ELSE None

SamePhases == \A t \in Tokens : PhaseOf(t)' = PhaseOf(t)
SameOwners == \A t \in Tokens : OwnerOf(t)' = OwnerOf(t)
SamePasswords == \A u \in UserIds : PasswordOf(u)' = PasswordOf(u)
SameHolders == \A s \in Slots : HolderOf(s)' = HolderOf(s)

\* The steps of PasswordRecovery in terms of these.

LEMMA Issues ==
  ASSUME NEW t \in Tokens, NEW u \in UserIds, PhaseOf(t) = "none", PasswordOf(u) # None,
         \A x \in Tokens : PhaseOf(x)' = IF x = t THEN "live" ELSE PhaseOf(x),
         \A x \in Tokens : OwnerOf(x)' = IF x = t THEN u ELSE OwnerOf(x),
         SamePasswords, SameHolders
  PROVE  Recovery!Next
<1>1. Recovery!Issue(t, u)
  BY DEF Recovery!Issue, OwnerOf, PasswordOf, SamePasswords, SameHolders
<1>2. QED BY <1>1 DEF Recovery!Next

LEMMA Expires ==
  ASSUME NEW t \in Tokens, PhaseOf(t) = "live",
         \A x \in Tokens : PhaseOf(x)' = IF x = t THEN "expired" ELSE PhaseOf(x),
         SameOwners, SamePasswords, SameHolders
  PROVE  Recovery!Next
<1>1. Recovery!Expire(t)
  BY DEF Recovery!Expire, OwnerOf, PasswordOf, SameOwners, SamePasswords, SameHolders
<1>2. QED BY <1>1 DEF Recovery!Next

LEMMA Withdraws ==
  ASSUME NEW u \in UserIds,
         \A t \in Tokens : PhaseOf(t)' = IF OwnerOf(t) = u THEN "dead" ELSE PhaseOf(t),
         \A t \in Tokens : OwnerOf(t)' = IF OwnerOf(t) = u THEN None ELSE OwnerOf(t),
         SamePasswords, SameHolders
  PROVE  Recovery!Next
<1>1. Recovery!Withdraw(u)
  BY DEF Recovery!Withdraw, OwnerOf, PasswordOf, SamePasswords, SameHolders
<1>2. QED BY <1>1 DEF Recovery!Next

LEMMA Presents ==
  ASSUME NEW s \in Slots, NEW t \in Tokens, HolderOf(s) = None, PhaseOf(t) = "live",
         \A z \in Slots : HolderOf(z)' = IF z = s THEN [user |-> OwnerOf(t), key |-> t]
                                         ELSE HolderOf(z),
         SamePhases, SameOwners, SamePasswords
  PROVE  Recovery!Next
<1>1. Recovery!Present(s, t)
  BY DEF Recovery!Present, OwnerOf, PasswordOf, SamePhases, SameOwners, SamePasswords
<1>2. QED BY <1>1 DEF Recovery!Next

LEMMA Authenticates ==
  ASSUME NEW s \in Slots, NEW u \in UserIds, NEW p \in Passwords,
         HolderOf(s) = None, PasswordOf(u) = p,
         \A z \in Slots : HolderOf(z)' = IF z = s THEN [user |-> u, key |-> p]
                                         ELSE HolderOf(z),
         SamePhases, SameOwners, SamePasswords
  PROVE  Recovery!Next
<1>1. Recovery!Authenticate(s, u, p)
  BY DEF Recovery!Authenticate, OwnerOf, PasswordOf, SamePhases, SameOwners, SamePasswords
<1>2. QED BY <1>1 DEF Recovery!Next

LEMMA ChangesPassword ==
  ASSUME NEW s \in Slots, NEW p \in Passwords, HolderOf(s) # None,
         HolderOf(s).user \in UserIds, PasswordOf(HolderOf(s).user) # None,
         \A u \in UserIds : PasswordOf(u)' = IF u = HolderOf(s).user THEN p ELSE PasswordOf(u),
         \A z \in Slots : HolderOf(z)' = IF z = s THEN None ELSE HolderOf(z),
         SamePhases, SameOwners
  PROVE  Recovery!Next
<1>1. Recovery!Change(s, p)
  BY DEF Recovery!Change, OwnerOf, PasswordOf, SamePhases, SameOwners
<1>2. QED BY <1>1 DEF Recovery!Next

LEMMA GivesUp ==
  ASSUME \A z \in Slots : HolderOf(z)' = HolderOf(z) \/ HolderOf(z)' = None,
         SamePhases, SameOwners, SamePasswords
  PROVE  Recovery!Next
<1> DEFINE S == {z \in Slots : HolderOf(z)' = None}
<1>1. \A z \in Slots : HolderOf(z)' = IF z \in S THEN None ELSE HolderOf(z)
  OBVIOUS
<1>2. PICK T \in SUBSET Slots :
        \A z \in Slots : HolderOf(z)' = IF z \in T THEN None ELSE HolderOf(z)
  BY <1>1
<1>3. Recovery!GiveUp(T)
  BY <1>2 DEF Recovery!GiveUp, OwnerOf, PasswordOf, SamePhases, SameOwners, SamePasswords
<1>4. QED BY <1>3 DEF Recovery!Next

LEMMA Removes ==
  ASSUME NEW u \in UserIds, \A t \in Tokens : OwnerOf(t) # u,
         \A v \in UserIds : PasswordOf(v)' = IF v = u THEN None ELSE PasswordOf(v),
         SamePhases, SameOwners, SameHolders
  PROVE  Recovery!Next
<1>1. Recovery!RemoveUser(u)
  BY DEF Recovery!RemoveUser, OwnerOf, PasswordOf, SamePhases, SameOwners, SameHolders
<1>2. QED BY <1>1 DEF Recovery!Next

-----------------------------------------------------------------------------
\* Which steps of Accounts leave the abstract variables alone.

LEMMA LinksUntouched ==
  ASSUME Typed, UNCHANGED resets,
         \A t \in Tokens : \/ fate'[t] = fate[t]
                           \/ /\ fate[t] \in {"fresh", "drawn", "lost"}
                              /\ fate'[t] \in {"fresh", "drawn", "lost"}
  PROVE  SamePhases /\ SameOwners
<1>1. \A t \in Tokens : PhaseOf(t)' = PhaseOf(t)
  BY DEF PhaseOf
<1>2. QED BY <1>1 DEF SamePhases, SameOwners, OwnerOf

LEMMA InsertIs ==
  ASSUME Typed, NEW s \in Slots, Insert(s)
  PROVE  Loses(s) \/ Stores(s)
<1>1. req[s].token \in Tokens
  BY RequestTyped DEF Insert, At, Typed, Shaped, HasToken
<1>2. QED BY <1>1 DEF Insert, InsertLink, Loses, Stores

LEMMA LinksSame ==
  ASSUME NoEdits, Typed, LinkInv, [Next]_vars, ~Expire,
         \A s \in Slots : ~Stores(s) /\ ~DropLinks(s) /\ ~Purge(s)
  PROVE  SamePhases /\ SameOwners
<1>1. ASSUME NEW s \in Slots, LinksWrites(s)
      PROVE  Loses(s)
  <2>1. ~ResetCreate(s) /\ ~ResetUpdate(s) /\ ~ResetRemove(s)
    BY DEF NoEdits, ResetAdmin, ResetCreate, ResetUpdate, ResetRemove, Called
  <2>2. QED BY <1>1, <2>1, InsertIs DEF LinksWrites
<1>2. ASSUME NEW s \in Slots, Loses(s)
      PROVE  SamePhases /\ SameOwners
  <2>1. /\ req[s].token \in Tokens /\ UNCHANGED resets
        /\ fate' = [fate EXCEPT ![req[s].token] =
                      IF @ \in {"fresh", "drawn"} THEN "lost" ELSE @]
    BY <1>2 DEF Loses, Lose
  <2>2. QED BY <2>1, LinksUntouched DEF Typed, TypeOK
<1>3. ASSUME NEW s \in Slots, Draws(s)
      PROVE  SamePhases /\ SameOwners
  <2>1. UNCHANGED resets
    BY <1>3 DEF Draws, ForgotPassword, ResendInvite, ListLinks, tables
  <2>2. \E t \in Tokens : fate[t] = "fresh" /\ fate' = [fate EXCEPT ![t] = "drawn"]
    BY <1>3 DEF Draws
  <2>3. QED BY <2>1, <2>2, LinksUntouched DEF Typed, TypeOK
<1>4. CASE UNCHANGED <<resets, fate>>
  BY <1>4, LinksUntouched
<1>5. UNCHANGED resets \/ \E s \in Slots : Loses(s)
  BY <1>1, WhoWritesLinks
<1>6. UNCHANGED fate \/ \E s \in Slots : Draws(s) \/ Loses(s)
  BY <1>1, WhoWritesFate
<1>7. QED BY <1>2, <1>3, <1>4, <1>5, <1>6

LEMMA PasswordsSame ==
  ASSUME Typed, [Next]_vars, \A s \in Slots : ~WriteRow(s) /\ ~DeleteUser(s)
  PROVE  SamePasswords
<1>1. CASE UNCHANGED users
  BY <1>1 DEF SamePasswords, PasswordOf
<1>2. ASSUME NEW s \in Slots, UsersWrites(s)
      PROVE  /\ DOMAIN users' = DOMAIN users
             /\ \A u \in DOMAIN users : users'[u].pw = users[u].pw
  <2>1. CASE Rotate(s) \/ ClearSession(s) \/ DisableWrite(s) \/ RemoveUser(s)
    <3>1. CASE Rotate(s)
      BY <3>1, UserTableIs DEF Rotate, Typed, TypeOK, UserRow
    <3>2. CASE ClearSession(s) \/ DisableWrite(s)
      BY <3>2, UserTableIs DEF ClearSession, DisableWrite, Typed, TypeOK, UserRow
    <3>3. CASE RemoveUser(s)
      BY <3>3, UserTableIs DEF RemoveUser, Typed, TypeOK, UserRow
    <3>4. QED BY <2>1, <3>1, <3>2, <3>3
  <2>2. CASE UpdateUser(s)
    <3>1. PICK v \in UserIds, e \in Emails, st \in Status :
            \/ UNCHANGED users
            \/ users' = [users EXCEPT ![v].email = e, ![v].status = st]
      BY <2>2 DEF UpdateUser
    <3>2. QED BY <3>1, UserTableIs DEF Typed, TypeOK, UserRow
  <2>3. QED BY <1>2, <2>1, <2>2 DEF UsersWrites
<1>3. QED BY <1>1, <1>2, WhoWritesUsers DEF SamePasswords, PasswordOf

\* A request comes by a right in two ways only.
LEMMA RightsMove ==
  ASSUME Typed, [Next]_vars, NEW z \in Slots
  PROVE  \/ HolderOf(z)' = HolderOf(z) \/ HolderOf(z)' = None
         \/ StartsChange(z) \/ StartsUpdate(z)
<1>1. CASE req'[z] = req[z]
  BY <1>1 DEF HolderOf
<1>2. CASE req'[z].pc \notin {"find", "write"}
  BY <1>2 DEF HolderOf
<1>3. CASE ReadsRow(z)
  <2>1. req[z].pc = "find" /\ req[z].op = "changePassword"
    BY <1>3, RequestTyped DEF ReadsRow, FindUser, At, Typed, Shaped
  <2>2. /\ req'[z].pc = "write" /\ req'[z].op = "changePassword"
        /\ req'[z].user = req[z].user /\ req'[z].token = req[z].token
    BY <1>3, <2>1 DEF ReadsRow
  <2>3. QED BY <2>1, <2>2 DEF HolderOf
<1>4. Blank.pc = "done"
  BY DEF Blank
<1>5. QED BY <1>1, <1>2, <1>3, <1>4, SlotSteps, ComesToFind, ComesToWrite

\* A step of a request that is not changing a password gives nobody a right.
LEMMA RightsSame ==
  ASSUME Typed, [Next]_vars, NEW s \in Slots, Alone(s),
         req[s].pc \notin {"find", "write"}, ~StartsChange(s), ~StartsUpdate(s)
  PROVE  SameHolders
<1>1. HolderOf(s) = None
  BY DEF HolderOf
<1>2. HolderOf(s)' = HolderOf(s)
  BY <1>1, RightsMove
<1>3. \A z \in Slots \ {s} : HolderOf(z)' = HolderOf(z)
  BY DEF Alone, HolderOf
<1>4. QED BY <1>2, <1>3 DEF SameHolders

-----------------------------------------------------------------------------
\* The steps that do not.

LEMMA ExpireImplements ==
  ASSUME Typed, LinkInv, Expire
  PROVE  Recovery!Next
<1>1. PICK t \in DOMAIN resets :
        ~resets[t].expired /\ resets' = [resets EXCEPT ![t].expired = TRUE]
  BY DEF Expire
<1>2. UNCHANGED <<users, audit, mails, fate, req>>
  BY DEF Expire
<1>3. t \in Tokens /\ PhaseOf(t) = "live"
  BY <1>1, RowOfLink DEF Typed, PhaseOf
<1>4. /\ DOMAIN resets' = DOMAIN resets
      /\ resets'[t].expired /\ resets'[t].user = resets[t].user
      /\ \A x \in DOMAIN resets : x # t => resets'[x] = resets[x]
  BY <1>1, ResetTableIs DEF Typed, TypeOK, ResetRow
<1>5. \A x \in Tokens : PhaseOf(x)' = IF x = t THEN "expired" ELSE PhaseOf(x)
  BY <1>1, <1>2, <1>4 DEF PhaseOf
<1>6. SameOwners
  BY <1>4 DEF SameOwners, OwnerOf
<1>7. SamePasswords /\ SameHolders
  BY <1>2 DEF SamePasswords, PasswordOf, SameHolders, HolderOf
<1>8. QED BY <1>3, <1>5, <1>6, <1>7, Expires

LEMMA StoreImplements ==
  ASSUME Typed, LinkInv, [Next]_vars, NEW s \in Slots, Stores(s)
  PROVE  Recovery!Next
<1> DEFINE t == req[s].token
           u == req[s].user
<1>1. /\ req[s].pc = "insert" /\ UNCHANGED users
      /\ t \in Tokens /\ t \notin DOMAIN resets
      /\ resets' = Stored(t, u, FALSE) /\ fate' = [fate EXCEPT ![t] = "stored"]
  BY DEF Stores, Insert, At
<1>2. u \in UserIds
  BY <1>1, RequestTyped DEF Typed, Shaped, HasUser, PCs
<1>3. fate[t] = "drawn"
  BY <1>1 DEF LinkInv, PendingDrawn, Pending
<1>4. u \in DOMAIN users
  <2>1. t \in DOMAIN resets'
    BY <1>1 DEF Stored
  <2>2. resets'[t].user = u
    BY <1>1 DEF Stored
  <2>3. QED BY <1>1, <2>1, <2>2, LinkOwners
<1>5. PhaseOf(t) = "none" /\ PasswordOf(u) # None
  <2>1. users[u].pw \in Passwords
    BY <1>4, RowOfUser DEF Typed, UserRow
  <2>2. QED BY <1>1, <1>3, <1>4, <2>1, NoneAssumption DEF PhaseOf, PasswordOf
<1>6. \A x \in Tokens : PhaseOf(x)' = IF x = t THEN "live" ELSE PhaseOf(x)
  BY <1>1 DEF PhaseOf, Stored, Typed, TypeOK
<1>7. \A x \in Tokens : OwnerOf(x)' = IF x = t THEN u ELSE OwnerOf(x)
  BY <1>1 DEF OwnerOf, Stored
<1>8. SamePasswords
  BY <1>1 DEF SamePasswords, PasswordOf
<1>9. SameHolders
  <2>1. Alone(s)
    BY OtherMoves DEF Stores
  <2>2. ~StartsChange(s) /\ ~StartsUpdate(s)
    BY <1>1 DEF StartsChange, StartsUpdate, ChangePassword, UpdatePassword, Called
  <2>3. QED BY <1>1, <2>1, <2>2, RightsSame
<1> HIDE DEF t, u
<1>10. QED BY <1>1, <1>2, <1>5, <1>6, <1>7, <1>8, <1>9, Issues

LEMMA WithdrawImplements ==
  ASSUME Typed, LinkInv, [Next]_vars, NEW s \in Slots, DropLinks(s) \/ Purge(s)
  PROVE  Recovery!Next
<1> DEFINE u == req[s].user
<1>1. req[s].pc \in {"renew", "purge"} /\ UNCHANGED users /\ resets' = WithoutLinksOf(u)
  BY DEF DropLinks, Purge, At
<1>2. u \in UserIds /\ u # None
  BY <1>1, RequestTyped, NoneAssumption DEF Typed, Shaped, HasUser, PCs
<1>3. \A t \in Tokens : OwnerOf(t)' = IF OwnerOf(t) = u THEN None ELSE OwnerOf(t)
  BY <1>1, <1>2 DEF OwnerOf, WithoutLinksOf
<1>4. \A t \in DOMAIN resets : resets[t].user = u => fate'[t] \in {"withdrawn", "spent"}
  <2>1. \A t \in DOMAIN resets : t \in Tokens
    BY RowOfLink DEF Typed
  <2>2. QED BY <2>1 DEF DropLinks, Purge
<1>5. ASSUME NEW t \in Tokens, fate'[t] # fate[t], t \notin DOMAIN resets
      PROVE  /\ fate[t] \notin {"fresh", "drawn", "lost"}
             /\ fate'[t] \notin {"fresh", "drawn", "lost"}
  BY <1>5, PurgedAreSettled, DroppedWereStored DEF Settled, LinkInv, DropLinks
<1>6. /\ DOMAIN resets' = {t \in DOMAIN resets : resets[t].user # u}
      /\ \A t \in DOMAIN resets' : resets'[t] = resets[t]
  BY <1>1 DEF WithoutLinksOf
<1>7. \A t \in Tokens : PhaseOf(t)' = IF OwnerOf(t) = u THEN "dead" ELSE PhaseOf(t)
  <2>1. ASSUME NEW t \in Tokens, t \in DOMAIN resets, resets[t].user = u
        PROVE  OwnerOf(t) = u /\ PhaseOf(t)' = "dead"
    BY <1>4, <1>6, <2>1 DEF OwnerOf, PhaseOf
  <2>2. ASSUME NEW t \in Tokens, t \in DOMAIN resets, resets[t].user # u
        PROVE  OwnerOf(t) # u /\ PhaseOf(t)' = PhaseOf(t)
    BY <1>6, <2>2 DEF OwnerOf, PhaseOf
  <2>3. ASSUME NEW t \in Tokens, t \notin DOMAIN resets
        PROVE  OwnerOf(t) # u /\ PhaseOf(t)' = PhaseOf(t)
    BY <1>2, <1>5, <1>6, <2>3 DEF OwnerOf, PhaseOf
  <2>4. QED BY <2>1, <2>2, <2>3
<1>8. SamePasswords
  BY <1>1 DEF SamePasswords, PasswordOf
<1>9. SameHolders
  <2>1. Alone(s)
    BY OtherMoves
  <2>2. ~StartsChange(s) /\ ~StartsUpdate(s)
    BY <1>1 DEF StartsChange, StartsUpdate, ChangePassword, UpdatePassword, Called
  <2>3. QED BY <1>1, <2>1, <2>2, RightsSame
<1> HIDE DEF u
<1>10. QED BY <1>2, <1>3, <1>7, <1>8, <1>9, Withdraws

LEMMA DeleteImplements ==
  ASSUME Typed, [Next]_vars, NEW s \in Slots, DeleteUser(s)
  PROVE  Recovery!Next
<1>1. req[s].pc = "done" /\ UNCHANGED <<resets, fate>>
  BY DEF DeleteUser, Called
<1>2. SamePhases /\ SameOwners
  BY <1>1, LinksUntouched
<1>3. SameHolders
  <2>1. Alone(s)
    BY OtherMoves
  <2>2. ~StartsChange(s) /\ ~StartsUpdate(s)
    <3>1. Ends(s)
      BY SlotWritten DEF DeleteUser, Outcomes
    <3>2. req'[s].pc = "done"
      BY <3>1 DEF Ends, Blank
    <3>3. QED BY <3>2 DEF StartsChange, StartsUpdate
  <2>3. QED BY <1>1, <2>1, <2>2, RightsSame
<1>4. CASE UNCHANGED users
  <2>1. SamePasswords
    BY <1>4 DEF SamePasswords, PasswordOf
  <2>2. QED BY <1>2, <1>3, <2>1, GivesUp DEF SameHolders
<1>5. ASSUME NEW u \in UserIds, ~Referenced(u),
             users' = [v \in DOMAIN users \ {u} |-> users[v]]
      PROVE  Recovery!Next
  <2>1. \A t \in Tokens : OwnerOf(t) # u
    BY <1>5, NoneAssumption DEF OwnerOf, Referenced
  <2>2. \A v \in UserIds : PasswordOf(v)' = IF v = u THEN None ELSE PasswordOf(v)
    BY <1>5 DEF PasswordOf
  <2>3. QED BY <1>2, <1>3, <2>1, <2>2, Removes
<1>6. QED BY <1>4, <1>5, Deletes

LEMMA WriteImplements ==
  ASSUME Typed, [Next]_vars, NEW s \in Slots, WriteRow(s)
  PROVE  Recovery!Next
<1> DEFINE u == req[s].user
           r == req[s].row
<1>1. req[s].pc = "write" /\ UNCHANGED <<resets, fate>>
  BY DEF WriteRow, At
<1>2. SamePhases /\ SameOwners
  BY <1>1, LinksUntouched
<1>3. u \in UserIds /\ r \in UserRow
  BY <1>1, RequestTyped DEF Typed, Shaped, HasUser, PCs
<1>4. r.pw \in Passwords
  BY <1>3 DEF UserRow
<1>5. HolderOf(s) # None /\ HolderOf(s).user = u
  <2>1. /\ req[s].op = "changePassword" => req[s].token \in Tokens
        /\ req[s].op # "changePassword" => req[s].pw \in Passwords
    BY <1>1, RequestTyped DEF Typed, Shaped
  <2>2. HolderOf(s) \in [user : UserIds, key : Tokens \union Passwords] /\ HolderOf(s).user = u
    BY <1>1, <1>3, <2>1 DEF HolderOf
  <2>3. QED BY <2>2, NoneAssumption
<1>6. Alone(s)
  BY PasswordMoves
<1>7. \A z \in Slots \ {s} : HolderOf(z)' = HolderOf(z)
  BY <1>6 DEF Alone, HolderOf
<1>8. HolderOf(s)' = None
  <2>1. req'[s].pc \in {"rotate", "done"}
    BY DEF WriteRow, Answer, Blank, Typed, TypeOK, Requests
  <2>2. QED BY <2>1 DEF HolderOf
<1>9. CASE UNCHANGED users
  <2>1. SamePasswords
    BY <1>9 DEF SamePasswords, PasswordOf
  <2>2. QED BY <1>2, <1>7, <1>8, <2>1, GivesUp
<1>10. CASE u \in DOMAIN users /\ users' = [users EXCEPT ![u] = r]
  <2>1. PasswordOf(u) # None
    BY <1>10, RowOfUser, NoneAssumption DEF PasswordOf, Typed, UserRow
  <2>2. \A v \in UserIds : PasswordOf(v)' = IF v = u THEN r.pw ELSE PasswordOf(v)
    BY <1>10 DEF PasswordOf
  <2> HIDE DEF u, r
  <2>3. QED BY <1>2, <1>3, <1>4, <1>5, <1>7, <1>8, <2>1, <2>2, ChangesPassword
<1>11. QED BY <1>9, <1>10 DEF WriteRow

LEMMA PresentImplements ==
  ASSUME Typed, [Next]_vars, NEW s \in Slots, StartsChange(s)
  PROVE  Recovery!Next
<1>1. PICK t \in DOMAIN resets :
        /\ ~resets[t].expired
        /\ req'[s].op = "changePassword" /\ req'[s].pc = "find"
        /\ req'[s].token = t /\ req'[s].user = resets[t].user
  BY DEF StartsChange
<1>2. req[s].pc = "done" /\ UNCHANGED <<tables, mails, fate>> /\ ChangePassword(s)
  BY DEF StartsChange, ChangePassword, Called
<1>3. SamePhases /\ SameOwners /\ SamePasswords
  BY <1>2, LinksUntouched DEF tables, SamePasswords, PasswordOf
<1>4. t \in Tokens /\ PhaseOf(t) = "live" /\ OwnerOf(t) = resets[t].user
  BY <1>1, RowOfLink DEF Typed, PhaseOf, OwnerOf
<1>5. HolderOf(s) = None /\ HolderOf(s)' = [user |-> OwnerOf(t), key |-> t]
  BY <1>1, <1>2, <1>4 DEF HolderOf
<1>6. \A z \in Slots \ {s} : HolderOf(z)' = HolderOf(z)
  BY <1>2, PasswordMoves DEF Alone, HolderOf
<1>7. QED BY <1>3, <1>4, <1>5, <1>6, Presents

LEMMA AuthenticateImplements ==
  ASSUME Typed, [Next]_vars, NEW s \in Slots, StartsUpdate(s)
  PROVE  Recovery!Next
<1>1. PICK u \in DOMAIN users :
        /\ req'[s].op = "updatePassword" /\ req'[s].pc = "write"
        /\ req'[s].user = u /\ req'[s].pw = users[u].pw
  BY DEF StartsUpdate
<1>2. req[s].pc = "done" /\ UNCHANGED <<tables, mails, fate>> /\ UpdatePassword(s)
  BY DEF StartsUpdate, UpdatePassword, Called
<1>3. SamePhases /\ SameOwners /\ SamePasswords
  BY <1>2, LinksUntouched DEF tables, SamePasswords, PasswordOf
<1>4. u \in UserIds /\ users[u].pw \in Passwords /\ PasswordOf(u) = users[u].pw
  BY <1>1, RowOfUser DEF Typed, UserRow, PasswordOf
<1>5. HolderOf(s) = None /\ HolderOf(s)' = [user |-> u, key |-> users[u].pw]
  BY <1>1, <1>2 DEF HolderOf
<1>6. \A z \in Slots \ {s} : HolderOf(z)' = HolderOf(z)
  BY <1>2, PasswordMoves DEF Alone, HolderOf
<1>7. QED BY <1>3, <1>4, <1>5, <1>6, Authenticates

-----------------------------------------------------------------------------
LEMMA StepImplements ==
  ASSUME NoEdits, Typed, LinkInv, [Next]_vars
  PROVE  Recovery!Next
<1>1. CASE Expire
  BY <1>1, ExpireImplements
<1>2. CASE \E s \in Slots : Stores(s) \/ DropLinks(s) \/ Purge(s)
  BY <1>2, StoreImplements, WithdrawImplements
<1>3. CASE \E s \in Slots : DeleteUser(s) \/ WriteRow(s)
  BY <1>3, DeleteImplements, WriteImplements
<1>4. CASE \E s \in Slots : StartsChange(s) \/ StartsUpdate(s)
  BY <1>4, PresentImplements, AuthenticateImplements
<1>5. CASE /\ ~Expire
           /\ \A s \in Slots : ~Stores(s) /\ ~DropLinks(s) /\ ~Purge(s)
           /\ \A s \in Slots : ~DeleteUser(s) /\ ~WriteRow(s)
           /\ \A s \in Slots : ~StartsChange(s) /\ ~StartsUpdate(s)
  BY <1>5, LinksSame, PasswordsSame, RightsMove, GivesUp
<1>6. QED BY <1>1, <1>2, <1>3, <1>4, <1>5

LEMMA InitImplements == Init => Recovery!Init
<1> SUFFICES ASSUME Init PROVE Recovery!Init
  OBVIOUS
<1>1. \A t \in Tokens : t \notin DOMAIN resets /\ PhaseOf(t) = "none"
  BY DEF Init, PhaseOf
<1>2. \A s \in Slots : HolderOf(s) = None
  BY DEF Init, Blank, HolderOf
<1>3. \A u \in UserIds : PasswordOf(u) \in Passwords \union {None}
  BY InstanceAssumption, UserTableIs DEF Init, PasswordOf, UserRow
<1>4. QED BY <1>1, <1>2, <1>3 DEF Recovery!Init, PasswordOf

\* In every instance without the routes of ResetController the statements of
\* all requests together do nothing to links and passwords that PasswordRecovery
\* does not allow: a link is issued once and withdrawn with the others of its
\* user, and a password changes only by a right that a live link or the current
\* password gave, once, for that user.
THEOREM AlwaysPromised ==
  ASSUME NoEdits
  PROVE  Spec => KeepsRecoveryPromise
<1>1. Typed /\ LinkInv /\ [Next]_vars => [Recovery!Next]_(Recovery!vars)
  BY StepImplements
<1>2. Typed /\ LinkInv /\ [Next]_vars => LinkInv'
  BY LinkInvKept
<1>3. QED BY <1>1, <1>2, InitImplements, LinkInvFirst, AlwaysTyped, PTL
          DEF Spec, KeepsRecoveryPromise, Recovery!Spec
=============================================================================
