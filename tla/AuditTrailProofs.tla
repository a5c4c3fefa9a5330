-------------------------- MODULE AuditTrailProofs --------------------------
(***************************************************************************)
(* What a log of a file tells, for any columns, values and number of       *)
(* calls.                                                                  *)
(***************************************************************************)
EXTENDS AuditTrail, TLAPS

Rows == {r \in [Columns -> Values \union Nat] : IsRow(r)}

PCs == {"idle", "row", "user", "update", "log", "done", "failed"}

CallRecords == [pc : PCs, body : Parts, before : Rows \union {None}, after : Rows \union {None}]

LogRecords == [by : Calls, upto : Nat, old_value : Parts, new_value : Parts]

VersionRecords == [by : Calls, row : Rows]

Typed ==
  /\ file \in Rows
  /\ call \in [Calls -> CallRecords]
  /\ trail \in Seq(LogRecords)
  /\ \A i \in DOMAIN trail : DOMAIN trail[i].old_value = DOMAIN trail[i].new_value
  /\ versions \in Seq(VersionRecords)

\* The file is the last version, and a version is of a call that was made.
Versioned ==
  /\ file["updated_at"] = Len(versions)
  /\ \A k \in Fields : file[k] = RowAt(Len(versions))[k]
  /\ \A v \in DOMAIN versions :
       versions[v].row["updated_at"] = v /\ call[versions[v].by].pc # "idle"

\* An update after version b, up to version w, names k.
NamedSince(b, w, k) == \E u \in (b + 1) .. w : Names(versions[u].by, k)

\* What a call that has read the file knows of it: a column is as it was read
\* unless an update has named it since, and the update of the call itself is of
\* the version before its own.
HasRead(c) ==
  LET before == call[c].before IN
  /\ before \in Rows /\ before["updated_at"] \in 0 .. Len(versions)
  /\ \A k \in Fields :
       before[k] # file[k] => NamedSince(before["updated_at"], Len(versions), k)

HasUpdated(c) ==
  LET before == call[c].before
      after == call[c].after
      v == after["updated_at"]
  IN /\ before \in Rows /\ after \in Rows /\ before["updated_at"] \in 0 .. (v - 1)
     /\ v \in DOMAIN versions /\ versions[v].row = after /\ versions[v].by = c
     /\ \A k \in Fields :
          before[k] # RowAt(v - 1)[k] => NamedSince(before["updated_at"], v - 1, k)

Knows(c) ==
  /\ call[c].pc \in {"user", "update"} => HasRead(c)
  /\ call[c].pc \in {"log", "done"} => HasUpdated(c)

AllKnow == \A c \in Calls : Knows(c)

LoggedAs(i) ==
  LET c == trail[i].by IN
  /\ call[c].pc = "done"
  /\ trail[i].old_value = GetLogData(call[c].before, call[c].after).old_value
  /\ trail[i].new_value = GetLogData(call[c].before, call[c].after).new_value

AllLogged == \A i \in DOMAIN trail : LoggedAs(i)

TrailInv == Typed /\ Versioned /\ AllKnow /\ AllLogged

-----------------------------------------------------------------------------
LEMMA Keys ==
  /\ Columns = Fields \union {"updated_at"} /\ "updated_at" \notin Fields
  /\ \A k \in Fields : k \in Columns /\ k # "updated_at"
BY TrailInstance DEF Columns

LEMMA RowIs ==
  ASSUME NEW r \in Rows
  PROVE  /\ DOMAIN r = Columns /\ r = [k \in Columns |-> r[k]]
         /\ r["updated_at"] \in Nat /\ \A k \in Fields : r[k] \in Values
BY DEF Rows, IsRow

LEMMA WrittenIs ==
  ASSUME NEW r \in Rows, NEW body \in Parts
  PROVE  /\ Written(r, body) \in Rows
         /\ Written(r, body)["updated_at"] = r["updated_at"] + 1
         /\ \A k \in Fields : k \notin DOMAIN body => Written(r, body)[k] = r[k]
<1>1. /\ DOMAIN body \subseteq Fields /\ \A k \in DOMAIN body : body[k] \in Values
  BY DEF Parts
<1>2. \A k \in Columns : Written(r, body)[k] = IF k = "updated_at" THEN r[k] + 1
                                               ELSE IF k \in DOMAIN body THEN body[k] ELSE r[k]
  BY DEF Written
<1>3. Written(r, body) \in [Columns -> Values \union Nat]
  <2>1. \A k \in Columns : Written(r, body)[k] \in Values \union Nat
    <3>1. ASSUME NEW k \in Columns, k = "updated_at"
          PROVE  Written(r, body)[k] \in Nat
      BY <1>2, <3>1, RowIs
    <3>2. ASSUME NEW k \in Fields
          PROVE  Written(r, body)[k] \in Values
      BY <1>1, <1>2, Keys, RowIs
    <3>3. QED BY <3>1, <3>2, Keys
  <2>2. Written(r, body) = [k \in Columns |-> Written(r, body)[k]]
    BY DEF Written
  <2>3. QED BY <2>1, <2>2
<1>4. IsRow(Written(r, body))
  BY <1>1, <1>2, <1>3, Keys, RowIs DEF IsRow
<1>5. QED BY <1>2, <1>3, <1>4, Keys DEF Rows

\* What a log tells: the columns that differ, but for the three it leaves out.
LEMMA LogDataIs ==
  ASSUME NEW before \in Rows, NEW after \in Rows
  PROVE  LET data == GetLogData(before, after) IN
         /\ data.old_value \in Parts /\ data.new_value \in Parts
         /\ DOMAIN data.old_value = DOMAIN data.new_value
         /\ \A k \in Fields : k \in DOMAIN data.new_value
                                <=> before[k] # after[k] /\ k \notin KeysToNotLog
<1> DEFINE kept == (Columns \intersect Diff(before, after)) \ KeysToNotLog
<1>1. /\ GetLogData(before, after).old_value = [k \in kept |-> before[k]]
      /\ GetLogData(before, after).new_value = [k \in kept |-> after[k]]
  BY RowIs DEF GetLogData, FilterObjForUpdateLog
<1>2. kept \subseteq Fields
  BY Keys DEF KeysToNotLog
<1>3. \A k \in Fields : k \in kept <=> before[k] # after[k] /\ k \notin KeysToNotLog
  BY RowIs, Keys DEF Diff
<1> HIDE DEF kept
<1>4. [k \in kept |-> before[k]] \in Parts /\ [k \in kept |-> after[k]] \in Parts
  <2>1. [k \in kept |-> before[k]] \in [kept -> Values] /\ [k \in kept |-> after[k]] \in [kept -> Values]
    BY <1>2, RowIs
  <2>2. QED BY <1>2, <2>1 DEF Parts
<1>5. QED BY <1>1, <1>3, <1>4

-----------------------------------------------------------------------------
\* The steps that leave the file alone.

LEMMA VersionIs ==
  ASSUME Typed
  PROVE  /\ DOMAIN versions = 1 .. Len(versions) /\ Len(versions) \in Nat
         /\ \A v \in DOMAIN versions : versions[v].by \in Calls /\ versions[v].row \in Rows
<1>1. /\ DOMAIN versions = 1 .. Len(versions) /\ Len(versions) \in Nat
      /\ \A v \in 1 .. Len(versions) : versions[v] \in VersionRecords
  BY DEF Typed
<1>2. QED BY <1>1 DEF VersionRecords

LEMMA LogIs ==
  ASSUME Typed
  PROVE  /\ DOMAIN trail = 1 .. Len(trail) /\ Len(trail) \in Nat
         /\ \A i \in DOMAIN trail : trail[i].by \in Calls
<1>1. /\ DOMAIN trail = 1 .. Len(trail) /\ Len(trail) \in Nat
      /\ \A i \in 1 .. Len(trail) : trail[i] \in LogRecords
  BY DEF Typed
<1>2. QED BY <1>1 DEF LogRecords

\* A version names what it named.
SameNames ==
  \A d \in Calls : call[d].pc # "idle" => call'[d].pc # "idle" /\ call'[d].body = call[d].body

LEMMA NamedStays ==
  ASSUME Typed, Versioned, SameNames,
         NEW w \in 0 .. Len(versions), NEW b \in Nat, NEW k, NamedSince(b, w, k),
         Len(versions) <= Len(versions'),
         \A v \in DOMAIN versions : versions'[v] = versions[v]
  PROVE  NamedSince(b, w, k)'
<1>1. PICK u \in (b + 1) .. w : Names(versions[u].by, k)
  BY DEF NamedSince
<1>2. u \in DOMAIN versions /\ versions'[u] = versions[u]
  BY <1>1, VersionIs
<1>3. versions[u].by \in Calls /\ call[versions[u].by].pc # "idle"
  BY <1>2, VersionIs DEF Versioned
<1>4. call'[versions'[u].by].body = call[versions[u].by].body
  BY <1>2, <1>3 DEF SameNames
<1>5. k \in DOMAIN call'[versions'[u].by].body
  BY <1>1, <1>4 DEF Names
<1>6. QED BY <1>5 DEF NamedSince, Names

LEMMA VersionedStays ==
  ASSUME Typed, Versioned, SameNames, UNCHANGED <<file, versions>>
  PROVE  Versioned'
<1>1. RowAt(Len(versions))' = RowAt(Len(versions))
  BY DEF RowAt
<1>2. QED BY <1>1, VersionIs DEF Versioned, SameNames

LEMMA ReadStays ==
  ASSUME Typed, Versioned, SameNames, UNCHANGED <<file, versions>>,
         NEW c \in Calls, HasRead(c), call'[c].before = call[c].before
  PROVE  HasRead(c)'
<1>1. Len(versions) \in Nat /\ Len(versions) \in 0 .. Len(versions)
  BY DEF Typed
<1>2. call[c].before["updated_at"] \in Nat
  BY <1>1 DEF HasRead
<1>3. ASSUME NEW k \in Fields, call[c].before[k] # file[k]
      PROVE  NamedSince(call[c].before["updated_at"], Len(versions), k)'
  BY <1>1, <1>2, <1>3, NamedStays DEF HasRead
<1>4. QED BY <1>3 DEF HasRead, NamedSince

LEMMA UpdatedStays ==
  ASSUME Typed, Versioned, SameNames,
         Len(versions) <= Len(versions'), DOMAIN versions \subseteq DOMAIN versions',
         \A v \in DOMAIN versions : versions'[v] = versions[v],
         NEW c \in Calls, HasUpdated(c),
         call'[c].before = call[c].before, call'[c].after = call[c].after
  PROVE  HasUpdated(c)'
<1> DEFINE v == call[c].after["updated_at"]
           b == call[c].before["updated_at"]
<1>1. DOMAIN versions = 1 .. Len(versions) /\ Len(versions) \in Nat
  BY DEF Typed
<1>2. v \in DOMAIN versions /\ b \in Nat /\ v - 1 \in 0 .. Len(versions)
  BY <1>1 DEF HasUpdated
<1>3. RowAt(v - 1)' = RowAt(v - 1)
  BY <1>1, <1>2 DEF RowAt
<1>4. ASSUME NEW k \in Fields, call[c].before[k] # RowAt(v - 1)[k]
      PROVE  NamedSince(b, v - 1, k)'
  BY <1>2, <1>4, NamedStays DEF HasUpdated
<1>5. QED BY <1>2, <1>3, <1>4 DEF HasUpdated, NamedSince

LEMMA LoggedStays ==
  ASSUME Typed, AllLogged, NEW i \in DOMAIN trail, trail'[i] = trail[i],
         \A d \in Calls : call[d].pc = "done" => call'[d] = call[d]
  PROVE  LoggedAs(i)'
<1>1. trail[i].by \in Calls /\ LoggedAs(i)
  BY LogIs DEF AllLogged
<1>2. call'[trail'[i].by] = call[trail[i].by]
  BY <1>1 DEF LoggedAs
<1>3. QED BY <1>1, <1>2 DEF LoggedAs

-----------------------------------------------------------------------------
\* A step writes the record of one call, which is made and has not ended.
Moves(c, r) ==
  /\ c \in Calls /\ r \in CallRecords
  /\ call' = [call EXCEPT ![c] = r]
  /\ call[c].pc # "done" /\ r.pc # "idle"
  /\ call[c].pc # "idle" => r.body = call[c].body

LEMMA Moved ==
  ASSUME Typed, NEW c, NEW r, Moves(c, r)
  PROVE  /\ call' \in [Calls -> CallRecords] /\ call'[c] = r /\ SameNames
         /\ \A d \in Calls : d # c => call'[d] = call[d]
         /\ \A d \in Calls : call[d].pc = "done" => call'[d] = call[d]
BY DEF Typed, Moves, SameNames

\* A step that leaves the file and the logs alone.
LEMMA StillFile ==
  ASSUME TrailInv, NEW c, NEW r, Moves(c, r), UNCHANGED <<file, trail, versions>>,
         Knows(c)'
  PROVE  TrailInv'
<1>1. /\ call' \in [Calls -> CallRecords] /\ call'[c] = r /\ SameNames
      /\ \A d \in Calls : d # c => call'[d] = call[d]
      /\ \A d \in Calls : call[d].pc = "done" => call'[d] = call[d]
  BY Moved DEF TrailInv
<1>2. Typed'
  BY <1>1 DEF TrailInv, Typed
<1>3. Versioned'
  BY <1>1, VersionedStays DEF TrailInv
<1>4. ASSUME NEW d \in Calls PROVE Knows(d)'
  <2>1. CASE d = c
    BY <2>1
  <2>2. CASE d # c
    <3>1. call'[d] = call[d]
      BY <1>1, <2>2
    <3>2. HasRead(d) => HasRead(d)'
      BY <1>1, <3>1, ReadStays DEF TrailInv
    <3>3. HasUpdated(d) => HasUpdated(d)'
      BY <1>1, <3>1, UpdatedStays, VersionIs DEF TrailInv
    <3>4. Knows(d)
      BY DEF TrailInv, AllKnow
    <3>5. QED BY <3>1, <3>2, <3>3, <3>4 DEF Knows
  <2>3. QED BY <2>1, <2>2
<1>5. ASSUME NEW i \in DOMAIN trail PROVE LoggedAs(i)'
  BY <1>1, LoggedStays DEF TrailInv
<1>6. QED BY <1>2, <1>3, <1>4, <1>5 DEF TrailInv, AllKnow, AllLogged

LEMMA CallStep ==
  ASSUME TrailInv, NEW c \in Calls, Call(c)
  PROVE  TrailInv'
<1>1. PICK body \in Parts : call' = [call EXCEPT ![c].pc = "row", ![c].body = body]
  BY DEF Call
<1> DEFINE r == [call[c] EXCEPT !.pc = "row", !.body = body]
<1>2. call[c] \in CallRecords /\ call[c].pc = "idle"
  BY DEF TrailInv, Typed, Call
<1>3. r \in CallRecords /\ r.pc = "row"
  BY <1>2 DEF CallRecords, PCs
<1>4. call' = [call EXCEPT ![c] = r]
  BY <1>1, <1>2 DEF TrailInv, Typed, CallRecords
<1> HIDE DEF r
<1>5. Moves(c, r)
  BY <1>2, <1>3, <1>4 DEF Moves
<1>6. call'[c].pc = "row"
  BY <1>3, <1>5, Moved DEF TrailInv
<1>7. Knows(c)'
  BY <1>6 DEF Knows
<1>8. QED BY <1>5, <1>7, StillFile DEF Call

LEMMA FindFileStep ==
  ASSUME TrailInv, NEW c \in Calls, FindFile(c)
  PROVE  TrailInv'
<1> DEFINE r == [call[c] EXCEPT !.pc = "user", !.before = file]
<1>1. call[c] \in CallRecords /\ call[c].pc = "row" /\ file \in Rows
  BY DEF TrailInv, Typed, FindFile
<1>2. /\ r \in CallRecords /\ r.pc = "user" /\ r.before = file
      /\ r.body = call[c].body
  BY <1>1 DEF CallRecords, PCs
<1>3. call' = [call EXCEPT ![c] = r]
  BY <1>1 DEF TrailInv, Typed, CallRecords, FindFile
<1> HIDE DEF r
<1>4. Moves(c, r)
  BY <1>1, <1>2, <1>3 DEF Moves
<1>5. call'[c].pc = "user" /\ call'[c].before = file
  BY <1>2, <1>4, Moved DEF TrailInv
<1>6. file' = file /\ versions' = versions
  BY DEF FindFile
<1>7. file["updated_at"] \in 0 .. Len(versions)
  BY VersionIs DEF TrailInv, Versioned
<1>8. HasRead(c)'
  BY <1>1, <1>5, <1>6, <1>7 DEF HasRead
<1>9. Knows(c)'
  BY <1>5, <1>8 DEF Knows
<1>10. QED BY <1>4, <1>9, StillFile DEF FindFile

LEMMA FindUserStep ==
  ASSUME TrailInv, NEW c \in Calls, FindUser(c)
  PROVE  TrailInv'
<1> DEFINE r == [call[c] EXCEPT !.pc = "update"]
<1>1. call[c] \in CallRecords /\ call[c].pc = "user"
  BY DEF TrailInv, Typed, FindUser
<1>2. /\ r \in CallRecords /\ r.pc = "update" /\ r.before = call[c].before
      /\ r.body = call[c].body
  BY <1>1 DEF CallRecords, PCs
<1>3. call' = [call EXCEPT ![c] = r]
  BY <1>1 DEF TrailInv, Typed, CallRecords, FindUser
<1> HIDE DEF r
<1>4. Moves(c, r)
  BY <1>1, <1>2, <1>3 DEF Moves
<1>5. call'[c].pc = "update" /\ call'[c].before = call[c].before /\ SameNames
  BY <1>2, <1>4, Moved DEF TrailInv
<1>6. HasRead(c)
  BY <1>1 DEF TrailInv, AllKnow, Knows
<1>7. HasRead(c)'
  BY <1>5, <1>6, ReadStays DEF TrailInv, FindUser
<1>8. Knows(c)'
  BY <1>5, <1>7 DEF Knows
<1>9. QED BY <1>4, <1>8, StillFile DEF FindUser

LEMMA FailStep ==
  ASSUME TrailInv, NEW c \in Calls, Fail(c)
  PROVE  TrailInv'
<1> DEFINE r == [call[c] EXCEPT !.pc = "failed"]
<1>1. call[c] \in CallRecords /\ call[c].pc # "done"
  BY DEF TrailInv, Typed, Fail
<1>2. r \in CallRecords /\ r.pc = "failed" /\ r.body = call[c].body
  BY <1>1 DEF CallRecords, PCs
<1>3. call' = [call EXCEPT ![c] = r]
  BY <1>1 DEF TrailInv, Typed, CallRecords, Fail
<1> HIDE DEF r
<1>4. Moves(c, r)
  BY <1>1, <1>2, <1>3 DEF Moves
<1>5. call'[c].pc = "failed"
  BY <1>2, <1>4, Moved DEF TrailInv
<1>6. Knows(c)'
  BY <1>5 DEF Knows
<1>7. QED BY <1>4, <1>6, StillFile DEF Fail

LEMMA WriteLogStep ==
  ASSUME TrailInv, NEW c \in Calls, WriteLog(c)
  PROVE  TrailInv'
<1> DEFINE r == [call[c] EXCEPT !.pc = "done"]
           data == GetLogData(call[c].before, call[c].after)
           log == [by |-> c, upto |-> Len(versions),
                   old_value |-> data.old_value, new_value |-> data.new_value]
<1>1. call[c] \in CallRecords /\ call[c].pc = "log"
  BY DEF TrailInv, Typed, WriteLog
<1>2. /\ r \in CallRecords /\ r.pc = "done" /\ r.body = call[c].body
      /\ r.before = call[c].before /\ r.after = call[c].after
  BY <1>1 DEF CallRecords, PCs
<1>3. call' = [call EXCEPT ![c] = r]
  BY <1>1 DEF TrailInv, Typed, CallRecords, WriteLog
<1>4. trail' = Append(trail, log) /\ UNCHANGED <<file, versions>>
  BY DEF WriteLog
<1>5. HasUpdated(c)
  BY <1>1 DEF TrailInv, AllKnow, Knows
<1>6. log \in LogRecords /\ DOMAIN log.old_value = DOMAIN log.new_value
  <2>1. /\ data.old_value \in Parts /\ data.new_value \in Parts
        /\ DOMAIN data.old_value = DOMAIN data.new_value
    BY <1>5, LogDataIs DEF HasUpdated
  <2> HIDE DEF data
  <2>2. QED BY <2>1, VersionIs DEF LogRecords, TrailInv
<1>7. log.by = c /\ log.old_value = data.old_value /\ log.new_value = data.new_value
  OBVIOUS
<1> HIDE DEF r, log
<1>8. Moves(c, r)
  BY <1>1, <1>2, <1>3 DEF Moves
<1>9. /\ call' \in [Calls -> CallRecords] /\ call'[c] = r /\ SameNames
      /\ \A d \in Calls : d # c => call'[d] = call[d]
      /\ \A d \in Calls : call[d].pc = "done" => call'[d] = call[d]
  BY <1>8, Moved DEF TrailInv
<1>10. /\ trail' \in Seq(LogRecords) /\ trail \in Seq(LogRecords)
       /\ DOMAIN trail' = DOMAIN trail \union {Len(trail) + 1}
       /\ trail'[Len(trail) + 1] = log /\ \A i \in DOMAIN trail : trail'[i] = trail[i]
  BY <1>4, <1>6 DEF TrailInv, Typed
<1>11. Typed'
  BY <1>4, <1>6, <1>9, <1>10 DEF TrailInv, Typed
<1>12. Versioned'
  BY <1>4, <1>9, VersionedStays DEF TrailInv
<1>13. ASSUME NEW d \in Calls PROVE Knows(d)'
  <2>1. CASE d = c
    <3>1. HasUpdated(c)'
      BY <1>2, <1>4, <1>5, <1>9, UpdatedStays, VersionIs DEF TrailInv
    <3>2. QED BY <1>2, <1>9, <2>1, <3>1 DEF Knows
  <2>2. CASE d # c
    <3>1. call'[d] = call[d]
      BY <1>9, <2>2
    <3>2. HasRead(d) => HasRead(d)'
      BY <1>4, <1>9, <3>1, ReadStays DEF TrailInv
    <3>3. HasUpdated(d) => HasUpdated(d)'
      BY <1>4, <1>9, <3>1, UpdatedStays, VersionIs DEF TrailInv
    <3>4. Knows(d)
      BY DEF TrailInv, AllKnow
    <3>5. QED BY <3>1, <3>2, <3>3, <3>4 DEF Knows
  <2>3. QED BY <2>1, <2>2
<1>14. ASSUME NEW i \in DOMAIN trail' PROVE LoggedAs(i)'
  <2>1. CASE i \in DOMAIN trail
    BY <1>9, <1>10, <2>1, LoggedStays DEF TrailInv
  <2>2. CASE i = Len(trail) + 1
    BY <1>2, <1>7, <1>9, <1>10, <2>2 DEF LoggedAs
  <2>3. QED BY <1>10, <2>1, <2>2
<1>15. QED BY <1>11, <1>12, <1>13, <1>14 DEF TrailInv, AllKnow, AllLogged

\* The update: what another call has read may now differ, in a column that the
\* new version names.
LEMMA UpdateStep ==
  ASSUME TrailInv, NEW c \in Calls, Update(c)
  PROVE  TrailInv'
<1> DEFINE n == Len(versions)
           r == [call[c] EXCEPT !.pc = "log", !.after = Written(file, call[c].body)]
           version == [by |-> c, row |-> Written(file, call[c].body)]
<1>1. /\ call[c] \in CallRecords /\ call[c].pc = "update" /\ call[c].body \in Parts
      /\ file \in Rows /\ n \in Nat /\ file["updated_at"] = n
  BY VersionIs DEF TrailInv, Typed, Versioned, CallRecords, Update
<1>2. /\ file' = Written(file, call[c].body) /\ versions' = Append(versions, version)
      /\ call' = [call EXCEPT ![c].pc = "log", ![c].after = Written(file, call[c].body)]
      /\ trail' = trail
  BY DEF Update
<1>3. /\ file' \in Rows /\ file'["updated_at"] = n + 1
      /\ \A k \in Fields : k \notin DOMAIN call[c].body => file'[k] = file[k]
  BY <1>1, <1>2, WrittenIs
<1>4. /\ r \in CallRecords /\ r.pc = "log" /\ r.body = call[c].body
      /\ r.before = call[c].before /\ r.after = file'
  BY <1>1, <1>2, <1>3 DEF CallRecords, PCs
<1>5. call' = [call EXCEPT ![c] = r]
  BY <1>1, <1>2 DEF TrailInv, Typed, CallRecords
<1>6. version \in VersionRecords /\ version.by = c /\ version.row = file'
  BY <1>2, <1>3 DEF VersionRecords
<1> HIDE DEF r, version
<1>7. Moves(c, r)
  BY <1>1, <1>4, <1>5 DEF Moves
<1>8. /\ call' \in [Calls -> CallRecords] /\ call'[c] = r /\ SameNames
      /\ \A d \in Calls : d # c => call'[d] = call[d]
      /\ \A d \in Calls : call[d].pc = "done" => call'[d] = call[d]
  BY <1>7, Moved DEF TrailInv
<1>9. /\ versions' \in Seq(VersionRecords) /\ Len(versions') = n + 1
      /\ DOMAIN versions = 1 .. n /\ DOMAIN versions' = 1 .. (n + 1)
      /\ versions'[n + 1] = version /\ \A v \in DOMAIN versions : versions'[v] = versions[v]
  BY <1>2, <1>6 DEF TrailInv, Typed
<1>10. Typed'
  BY <1>2, <1>3, <1>8, <1>9 DEF TrailInv, Typed
<1>11. Versioned'
  <2>1. /\ Len(versions') # 0 /\ Len(versions') = n + 1 /\ versions'[n + 1].row = file'
    BY <1>1, <1>6, <1>9
  <2>4. \A k \in Fields : file'[k] = RowAt(Len(versions))'[k]
    BY <2>1 DEF RowAt
  <2>2. ASSUME NEW v \in DOMAIN versions'
        PROVE  versions'[v].row["updated_at"] = v /\ call'[versions'[v].by].pc # "idle"
    <3>1. CASE v = n + 1
      BY <1>3, <1>4, <1>6, <1>8, <1>9, <3>1
    <3>2. CASE v \in DOMAIN versions
      BY <1>8, <1>9, <3>2, VersionIs DEF TrailInv, Versioned, SameNames
    <3>3. QED BY <1>1, <1>9, <2>2, <3>1, <3>2
  <2>3. QED BY <1>3, <1>9, <2>4, <2>2 DEF Versioned
\* What was named up to version w stays so, and is so up to the new version.
<1>12. ASSUME NEW b \in Nat, NEW w \in 0 .. n, NEW k, NamedSince(b, w, k)
       PROVE  NamedSince(b, w, k)'
  BY <1>1, <1>8, <1>9, <1>12, NamedStays DEF TrailInv
<1>13. ASSUME NEW d \in Calls, HasRead(d), d # c PROVE HasRead(d)'
  <2>1. call'[d] = call[d]
    BY <1>8, <1>13
  <2>2. PICK b \in 0 .. n : b = call[d].before["updated_at"]
    BY <1>13 DEF HasRead
  <2>3. ASSUME NEW k \in Fields, call[d].before[k] # file'[k]
        PROVE  \E u \in (b + 1) .. (n + 1) : k \in DOMAIN call'[versions'[u].by].body
    <3>1. CASE call[d].before[k] # file[k]
      <4>1. PICK w \in 0 .. n : w = n
        BY <1>1
      <4>2. NamedSince(b, w, k)
        BY <1>13, <2>2, <3>1, <4>1 DEF HasRead
      <4>3. NamedSince(b, w, k)'
        BY <1>12, <2>2, <4>2
      <4>4. \A u \in (b + 1) .. w : u \in (b + 1) .. (n + 1)
        BY <1>1
      <4>5. QED BY <4>3, <4>4 DEF NamedSince, Names
    <3>2. CASE call[d].before[k] = file[k]
      <4>1. k \in DOMAIN call[c].body
        BY <1>3, <2>3, <3>2
      <4>2. k \in DOMAIN call'[versions'[n + 1].by].body
        BY <1>4, <1>6, <1>8, <1>9, <4>1
      <4>3. n + 1 \in (b + 1) .. (n + 1)
        BY <1>1, <2>2
      <4>4. QED BY <4>2, <4>3
    <3>3. QED BY <3>1, <3>2
  <2>4. call[d].before \in Rows /\ call[d].before["updated_at"] \in 0 .. (n + 1)
    BY <1>1, <1>13, <2>2 DEF HasRead
  <2>5. QED BY <1>9, <2>1, <2>2, <2>3, <2>4 DEF HasRead, NamedSince, Names
<1>14. ASSUME NEW d \in Calls, HasUpdated(d), d # c PROVE HasUpdated(d)'
  <2>1. call'[d] = call[d]
    BY <1>8, <1>14
  <2>2. Len(versions) <= Len(versions') /\ DOMAIN versions \subseteq DOMAIN versions'
    BY <1>1, <1>9
  <2>3. QED BY <1>8, <1>9, <1>14, <2>1, <2>2, UpdatedStays DEF TrailInv
<1>15. HasUpdated(c)'
  <2>1. HasRead(c)
    BY <1>1 DEF TrailInv, AllKnow, Knows
  <2>2. PICK b \in 0 .. n : b = call[c].before["updated_at"]
    BY <2>1 DEF HasRead
  <2>3. ASSUME NEW k \in Fields, call[c].before[k] # RowAt(n)[k]
        PROVE  \E u \in (b + 1) .. n : k \in DOMAIN call'[versions'[u].by].body
    <3>1. RowAt(n)[k] = file[k]
      BY DEF TrailInv, Versioned
    <3>2. NamedSince(b, n, k)
      BY <2>1, <2>2, <2>3, <3>1 DEF HasRead
    <3>3. PICK w \in 0 .. n : w = n
      BY <1>1
    <3>4. NamedSince(b, w, k)'
      BY <1>12, <2>2, <3>2, <3>3
    <3>5. QED BY <3>3, <3>4 DEF NamedSince, Names
  <2>4. n + 1 \in DOMAIN versions' /\ (n + 1) - 1 = n
    BY <1>1, <1>9
  <2>5. PICK w \in 0 .. n : w = n
    BY <1>1
  <2>6. RowAt(w)' = RowAt(w)
    BY <1>1, <1>9 DEF RowAt
  <2>7. /\ call'[c].before = call[c].before /\ call'[c].after = file'
        /\ call[c].before \in Rows /\ b \in 0 .. w
        /\ versions'[n + 1].row = file' /\ versions'[n + 1].by = c
    BY <1>4, <1>6, <1>8, <1>9, <2>1, <2>2, <2>5 DEF HasRead
  <2>8. \A k \in Fields : call[c].before[k] # RowAt(w)'[k] =>
          \E u \in (b + 1) .. w : k \in DOMAIN call'[versions'[u].by].body
    BY <2>3, <2>5, <2>6
  <2>9. file'["updated_at"] = w + 1 /\ (w + 1) - 1 = w
    BY <1>3, <2>5
  <2>10. QED BY <1>3, <2>2, <2>4, <2>5, <2>7, <2>8, <2>9 DEF HasUpdated, NamedSince, Names
<1>16. ASSUME NEW d \in Calls PROVE Knows(d)'
  <2>1. CASE d = c
    BY <1>4, <1>8, <1>15, <2>1 DEF Knows
  <2>2. CASE d # c
    <3>1. call'[d] = call[d] /\ Knows(d)
      BY <1>8, <2>2 DEF TrailInv, AllKnow
    <3>2. QED BY <1>13, <1>14, <2>2, <3>1 DEF Knows
  <2>3. QED BY <2>1, <2>2
<1>17. ASSUME NEW i \in DOMAIN trail PROVE LoggedAs(i)'
  BY <1>2, <1>8, LoggedStays DEF TrailInv
<1>18. QED BY <1>2, <1>10, <1>11, <1>16, <1>17 DEF TrailInv, AllKnow, AllLogged
-----------------------------------------------------------------------------
LEMMA InitInv == Init => TrailInv
<1> SUFFICES ASSUME Init PROVE TrailInv
  OBVIOUS
<1>1. /\ Seed \in [Fields -> Values]
      /\ file = [k \in Columns |-> IF k \in Fields THEN Seed[k] ELSE 0]
      /\ trail = <<>> /\ versions = <<>>
  BY TrailInstance DEF Init
<1>2. file \in [Columns -> Values \union Nat]
  BY <1>1, Keys
<1>3. /\ \A k \in Fields : file[k] = Seed[k] /\ file[k] \in Values
      /\ file["updated_at"] = 0 /\ DOMAIN file = Columns
  BY <1>1, Keys
<1>4. file \in Rows
  BY <1>2, <1>3 DEF Rows, IsRow
<1>5. NoPart \in Parts
  <2>1. NoPart \in [{} -> Values] /\ {} \in SUBSET Fields
    BY DEF NoPart
  <2>2. QED BY <2>1 DEF Parts
<1>6. /\ call \in [Calls -> CallRecords]
      /\ \A c \in Calls : call[c].pc = "idle"
  BY <1>5 DEF Init, CallRecords, PCs
<1>7. Typed
  BY <1>1, <1>4, <1>6 DEF Typed
<1>8. Versioned
  <2>1. Len(versions) = 0 /\ DOMAIN versions = {} /\ RowAt(0) = Seed
    BY <1>1 DEF RowAt
  <2>2. QED BY <1>3, <2>1 DEF Versioned
<1>9. AllKnow /\ AllLogged
  BY <1>1, <1>6 DEF AllKnow, Knows, AllLogged
<1>10. QED BY <1>7, <1>8, <1>9 DEF TrailInv

LEMMA UnchangedInv == TrailInv /\ UNCHANGED vars => TrailInv'
<1> SUFFICES ASSUME TrailInv, UNCHANGED vars PROVE TrailInv'
  OBVIOUS
<1>1. file' = file /\ call' = call /\ trail' = trail /\ versions' = versions
  BY DEF vars
<1>2. Typed'
  BY <1>1 DEF TrailInv, Typed
<1>3. Versioned'
  BY <1>1 DEF TrailInv, Versioned, RowAt
<1>4. AllKnow'
  BY <1>1 DEF TrailInv, AllKnow, Knows, HasRead, HasUpdated, NamedSince, Names, RowAt
<1>5. AllLogged'
  BY <1>1 DEF TrailInv, AllLogged, LoggedAs
<1>6. QED BY <1>2, <1>3, <1>4, <1>5 DEF TrailInv

LEMMA StepInv == TrailInv /\ [Next]_vars => TrailInv'
<1> SUFFICES ASSUME TrailInv, [Next]_vars PROVE TrailInv'
  OBVIOUS
<1>1. ASSUME NEW c \in Calls, Call(c) PROVE TrailInv'
  BY <1>1, CallStep
<1>2. ASSUME NEW c \in Calls, FindFile(c) PROVE TrailInv'
  BY <1>2, FindFileStep
<1>3. ASSUME NEW c \in Calls, FindUser(c) PROVE TrailInv'
  BY <1>3, FindUserStep
<1>4. ASSUME NEW c \in Calls, Update(c) PROVE TrailInv'
  BY <1>4, UpdateStep
<1>5. ASSUME NEW c \in Calls, WriteLog(c) PROVE TrailInv'
  BY <1>5, WriteLogStep
<1>6. ASSUME NEW c \in Calls, Fail(c) PROVE TrailInv'
  BY <1>6, FailStep
<1>7. CASE UNCHANGED vars
  BY <1>7, UnchangedInv
<1>8. QED BY <1>1, <1>2, <1>3, <1>4, <1>5, <1>6, <1>7 DEF Next

LEMMA Invariant == Spec => []TrailInv
BY InitInv, StepInv, PTL DEF Spec

LEMMA InvTypeOK == TrailInv => TypeOK
<1> SUFFICES ASSUME TrailInv PROVE TypeOK
  OBVIOUS
<1>1. IsRow(file)
  BY DEF TrailInv, Typed, Rows
<1>2. DOMAIN call = Calls /\ \A c \in Calls : IsCall(call[c])
  <2>1. call \in [Calls -> CallRecords]
    BY DEF TrailInv, Typed
  <2>2. ASSUME NEW r \in CallRecords PROVE IsCall(r)
    BY DEF CallRecords, PCs, IsCall, Rows
  <2>3. QED BY <2>1, <2>2
<1>3. \A i \in DOMAIN trail :
        /\ trail[i].by \in Calls
        /\ trail[i].old_value \in Parts /\ trail[i].new_value \in Parts
        /\ DOMAIN trail[i].old_value = DOMAIN trail[i].new_value
  <2>1. \A i \in DOMAIN trail : trail[i] \in LogRecords
    BY DEF TrailInv, Typed
  <2>2. QED BY <2>1 DEF TrailInv, Typed, LogRecords
<1>4. \A v \in DOMAIN versions :
        versions[v].by \in Calls /\ versions[v].row["updated_at"] = v
  BY VersionIs DEF TrailInv, Versioned
<1>5. QED BY <1>1, <1>2, <1>3, <1>4 DEF TypeOK

\* Whatever the columns, values and calls, the file and the rows a call holds
\* have every column, what a log tells is of columns a body may name, the same
\* in the old part and the new, and updated_at counts the updates.
THEOREM TypeCorrect == Spec => []TypeOK
BY Invariant, InvTypeOK, PTL

\* The log of a call differs from what its update changed only in a column that
\* an update named between the read and the update.
LEMMA InvTells ==
  ASSUME TrailInv, Fields \intersect KeysToNotLog = {}
  PROVE  LogTellsItsCall
<1> SUFFICES
      ASSUME NEW i \in DOMAIN trail, NEW k \in Fields,
             NEW v, v = call[trail[i].by].after["updated_at"],
             (k \in DOMAIN trail[i].new_value) # (RowAt(v)[k] # RowAt(v - 1)[k])
      PROVE  \E u \in Unseen(trail[i]) : Names(versions[u].by, k)
  BY DEF LogTellsItsCall
<1> DEFINE c == trail[i].by
<1>1. c \in Calls /\ LoggedAs(i)
  BY LogIs DEF TrailInv, AllLogged
<1>2. HasUpdated(c)
  BY <1>1 DEF LoggedAs, TrailInv, AllKnow, Knows
<1>3. /\ call[c].before \in Rows /\ call[c].after \in Rows
      /\ v \in DOMAIN versions /\ versions[v].row = call[c].after
  BY <1>2 DEF HasUpdated
<1>4. v \in Nat /\ v # 0
  BY <1>3, VersionIs DEF TrailInv
<1>5. RowAt(v) = call[c].after
  BY <1>3, <1>4 DEF RowAt
<1>6. trail[i].new_value = GetLogData(call[c].before, call[c].after).new_value
  BY <1>1 DEF LoggedAs
<1>7. k \in DOMAIN trail[i].new_value <=> call[c].before[k] # call[c].after[k]
  BY <1>3, <1>6, LogDataIs
<1>8. call[c].before[k] # RowAt(v - 1)[k]
  BY <1>5, <1>7
<1>9. NamedSince(call[c].before["updated_at"], v - 1, k)
  BY <1>2, <1>8 DEF HasUpdated
<1>10. QED BY <1>9 DEF NamedSince, Unseen

\* Where no column is one that the helper leaves out of every log, a log tells
\* the columns its call changed, and no other, unless another update that names
\* the column fell between the read of the row and the update.
THEOREM AlwaysTells ==
  ASSUME Fields \intersect KeysToNotLog = {}
  PROVE  Spec => []LogTellsItsCall
<1>1. TrailInv => LogTellsItsCall
  BY InvTells
<1>2. QED BY <1>1, Invariant, PTL

-----------------------------------------------------------------------------
(***************************************************************************)
(* The trail adds up to the file.                                          *)
(***************************************************************************)

Ended == {"log", "done", "failed"}

\* A version is the one update of its call.
OnceEach ==
  \A v \in DOMAIN versions :
    LET c == versions[v].by IN call[c].pc \in Ended /\ call[c].after["updated_at"] = v

\* A column differs between two versions only if an update after the one and up
\* to the other names it.
SinceNamed ==
  \A m, n \in 0 .. Len(versions), k \in Fields :
    m <= n /\ RowAt(m)[k] # RowAt(n)[k] => NamedSince(m, n, k)

\* Of the logs that tell a column one is the last.
HasLast ==
  \A k \in Fields :
    Telling(k) # {} => \E i \in Telling(k) : \A j \in Telling(k) : j <= i

\* An update that was followed by another one of the column has no log yet: when
\* the log comes, the two will have overlapped.
Late(k) == \E v, w \in Naming(k) : v < w /\ Unlogged(versions[v].by)

\* What the trail says of the column is what a version has, and no logged update
\* that names it is later.
UpTo(k) ==
  \E m \in 0 .. Len(versions) :
    /\ Replayed[k] = RowAt(m)[k]
    /\ \A v \in Naming(k) : ~Unlogged(versions[v].by) => v <= m

Replays(k) == Overlapping(k) \/ Late(k) \/ UpTo(k)

ReplayInv == OnceEach /\ SinceNamed /\ HasLast /\ \A k \in Fields : Replays(k)

\* What a step leaves of the calls: names, and the rows of those that have updated.
Frame ==
  /\ SameNames
  /\ \A d \in Calls : call[d].pc \in Ended =>
       /\ call'[d].pc \in Ended
       /\ call'[d].before = call[d].before /\ call'[d].after = call[d].after

\* Versions and logs are only added.
Grows ==
  /\ Len(versions) <= Len(versions') /\ DOMAIN versions \subseteq DOMAIN versions'
  /\ \A v \in DOMAIN versions : versions'[v] = versions[v]
  /\ DOMAIN trail \subseteq DOMAIN trail'
  /\ \A i \in DOMAIN trail : trail'[i] = trail[i]

LEMMA Framed ==
  ASSUME TrailInv, Next
  PROVE  Frame
<1>1. PICK c \in Calls :
        Call(c) \/ FindFile(c) \/ FindUser(c) \/ Update(c) \/ WriteLog(c) \/ Fail(c)
  BY DEF Next
<1>2. call \in [Calls -> CallRecords]
  BY DEF TrailInv, Typed
<1>3. call[c] \in CallRecords
  BY <1>2
<1>4. \A d \in Calls : d # c => call'[d] = call[d]
  BY <1>1, <1>2 DEF Call, FindFile, FindUser, Update, WriteLog, Fail
<1>5. call[c].pc # "idle" => call'[c].pc # "idle" /\ call'[c].body = call[c].body
  BY <1>1, <1>2, <1>3 DEF Call, FindFile, FindUser, Update, WriteLog, Fail, CallRecords
<1>6. call[c].pc \in Ended =>
        /\ call'[c].pc \in Ended
        /\ call'[c].before = call[c].before /\ call'[c].after = call[c].after
  BY <1>1, <1>2, <1>3
  DEF Ended, Call, FindFile, FindUser, Update, WriteLog, Fail, CallRecords
<1>7. QED BY <1>4, <1>5, <1>6 DEF Frame, SameNames

LEMMA NamesKept ==
  ASSUME TrailInv, Frame, Grows, NEW k, NEW v \in DOMAIN versions
  PROVE  v \in Naming(k)' <=> v \in Naming(k)
<1>1. versions'[v] = versions[v] /\ v \in DOMAIN versions' /\ versions[v].by \in Calls
  BY VersionIs DEF TrailInv, Grows
<1>2. call'[versions[v].by].body = call[versions[v].by].body
  BY <1>1 DEF Frame, SameNames, TrailInv, Versioned
<1>3. QED BY <1>1, <1>2 DEF Naming, Names

\* A log is of a call that has ended, and its interval stays.
LEMMA OverlapKept ==
  ASSUME TrailInv, Frame, Grows, NEW k, Overlapping(k)
  PROVE  Overlapping(k)'
<1>1. PICK v \in Naming(k), w \in Naming(k), i \in DOMAIN trail :
        /\ v # w /\ trail[i].by # versions[v].by
        /\ v \in (call[trail[i].by].before["updated_at"] + 1) .. trail[i].upto
  BY DEF Overlapping
<1>2. v \in Naming(k)' /\ w \in Naming(k)' /\ versions'[v] = versions[v]
  BY NamesKept DEF Naming, Grows
<1>3. i \in DOMAIN trail' /\ trail'[i] = trail[i] /\ trail[i].by \in Calls
  BY LogIs DEF TrailInv, Grows
<1>4. call'[trail[i].by].before = call[trail[i].by].before
  BY <1>3 DEF TrailInv, AllLogged, LoggedAs, Frame, Ended
<1>5. QED BY <1>1, <1>2, <1>3, <1>4 DEF Overlapping

LEMMA RowKept ==
  ASSUME TrailInv, Grows, NEW m \in 0 .. Len(versions)
  PROVE  RowAt(m)' = RowAt(m) /\ m \in 0 .. Len(versions')
<1>1. Len(versions) \in Nat /\ DOMAIN versions = 1 .. Len(versions)
  BY VersionIs DEF TrailInv
<1>2. m # 0 => m \in DOMAIN versions
  BY <1>1
<1>3. QED BY <1>1, <1>2 DEF RowAt, Grows

LEMMA SinceKept ==
  ASSUME TrailInv, Frame, Grows, NEW m \in 0 .. Len(versions), NEW n \in 0 .. Len(versions),
         NEW k, NamedSince(m, n, k)
  PROVE  NamedSince(m, n, k)'
<1>1. m \in Nat
  BY VersionIs DEF TrailInv
<1>2. QED BY <1>1, NamedStays DEF TrailInv, Frame, Grows

\* The steps that add no version and no log.
LEMMA QuietReplay ==
  ASSUME TrailInv, ReplayInv, Frame, UNCHANGED <<file, trail, versions>>
  PROVE  ReplayInv'
<1>1. Grows
  BY VersionIs DEF TrailInv, Grows
<1>2. /\ \A k : Telling(k)' = Telling(k) /\ \A c : Unlogged(c)' = Unlogged(c)
      /\ Replayed' = Replayed
  BY DEF Telling, Unlogged, Replayed
<1>3. OnceEach'
  BY VersionIs DEF ReplayInv, OnceEach, Frame, TrailInv
<1>4. SinceNamed'
  <2> SUFFICES ASSUME NEW m \in 0 .. Len(versions), NEW n \in 0 .. Len(versions), NEW k \in Fields,
                      m <= n, RowAt(m)[k] # RowAt(n)[k]
               PROVE  NamedSince(m, n, k)'
    BY DEF SinceNamed, RowAt
  <2>1. NamedSince(m, n, k)
    BY DEF ReplayInv, SinceNamed
  <2>2. QED BY <1>1, <2>1, SinceKept
<1>5. HasLast'
  BY <1>2 DEF ReplayInv, HasLast
<1>6. ASSUME NEW k \in Fields PROVE Replays(k)'
  <2>1. Naming(k)' = Naming(k)
    BY <1>1, NamesKept DEF Naming
  <2>2. CASE Overlapping(k)
    BY <1>1, <2>2, OverlapKept DEF Replays
  <2>3. CASE Late(k)
    BY <1>2, <2>1, <2>3 DEF Late, Replays
  <2>4. CASE UpTo(k)
    BY <1>2, <2>1, <2>4 DEF UpTo, Replays, RowAt
  <2>5. QED BY <2>2, <2>3, <2>4 DEF ReplayInv, Replays
<1>7. QED BY <1>3, <1>4, <1>5, <1>6 DEF ReplayInv

\* An update adds a version of a call that has no log: what was late stays so.
LEMMA UpdateReplay ==
  ASSUME TrailInv, ReplayInv, Frame, NEW c \in Calls, Update(c)
  PROVE  ReplayInv'
<1>0. PICK n \in Nat : n = Len(versions)
  BY VersionIs DEF TrailInv
<1> DEFINE r == Written(file, call[c].body)
<1>1. /\ call[c].pc = "update" /\ call \in [Calls -> CallRecords]
      /\ DOMAIN versions = 1 .. n /\ file["updated_at"] = n
      /\ file \in Rows /\ call[c].body \in Parts /\ trail' = trail
  BY <1>0, VersionIs DEF Update, TrailInv, Typed, Versioned, CallRecords
<1>2. /\ file' = r /\ versions' = Append(versions, [by |-> c, row |-> r])
      /\ call'[c].pc = "log" /\ call'[c].after = r /\ call'[c].body = call[c].body
  <2>1. call[c] \in CallRecords
    BY <1>1
  <2>2. QED BY <1>1, <2>1 DEF Update, CallRecords
<1>3. /\ r["updated_at"] = n + 1
      /\ \A k \in Fields : k \notin DOMAIN call[c].body => r[k] = file[k]
  BY <1>1, WrittenIs
<1> HIDE DEF r
<1>4. /\ Len(versions') = n + 1 /\ DOMAIN versions' = 1 .. (n + 1)
      /\ versions'[n + 1].by = c /\ versions'[n + 1].row = r
      /\ \A v \in DOMAIN versions : versions'[v] = versions[v]
  BY <1>0, <1>1, <1>2 DEF TrailInv, Typed
<1>5. Grows
  BY <1>0, <1>1, <1>4 DEF Grows
<1>6. \A v \in DOMAIN versions : versions[v].by # c /\ versions[v].by \in Calls
  BY <1>1, VersionIs DEF ReplayInv, OnceEach, Ended, TrailInv
<1>7. OnceEach'
  <2> SUFFICES ASSUME NEW v \in DOMAIN versions'
               PROVE  /\ call'[versions'[v].by].pc \in Ended
                      /\ call'[versions'[v].by].after["updated_at"] = v
    BY DEF OnceEach
  <2>1. CASE v = n + 1
    BY <1>2, <1>3, <1>4, <2>1 DEF Ended
  <2>2. CASE v \in DOMAIN versions
    <3>1. versions'[v] = versions[v] /\ versions[v].by \in Calls
      BY <1>4, <1>6, <2>2
    <3>2. call[versions[v].by].pc \in Ended /\ call[versions[v].by].after["updated_at"] = v
      BY <2>2 DEF ReplayInv, OnceEach
    <3>3. QED BY <3>1, <3>2 DEF Frame
  <2>3. QED BY <1>1, <1>4, <2>1, <2>2
<1>8. \A k : k \in DOMAIN call[c].body => NamedSince(n, n + 1, k)'
  <2>1. n + 1 \in (n + 1) .. (n + 1)
    BY <1>1
  <2>2. QED BY <1>2, <1>4, <2>1 DEF NamedSince, Names
<1>9. SinceNamed'
  <2> SUFFICES ASSUME NEW m \in 0 .. (n + 1), NEW l \in 0 .. (n + 1), NEW k \in Fields,
                      m <= l, RowAt(m)'[k] # RowAt(l)'[k]
               PROVE  NamedSince(m, l, k)'
    BY <1>4 DEF SinceNamed
  <2>1. CASE l \in 0 .. n
    <3>1. m \in 0 .. n
      BY <1>1, <2>1
    <3>2. NamedSince(m, l, k)
      BY <1>0, <1>5, <2>1, <3>1, RowKept DEF ReplayInv, SinceNamed
    <3>3. QED BY <1>0, <1>5, <2>1, <3>1, <3>2, SinceKept
  <2>2. CASE l = n + 1
    <3>1. m \in 0 .. n
      BY <1>1, <2>2
    <3>2. RowAt(l)' = r /\ RowAt(m)' = RowAt(m)
      BY <1>0, <1>1, <1>4, <1>5, <2>2, <3>1, RowKept DEF RowAt
    <3>3. CASE k \in DOMAIN call[c].body
      <4>1. PICK u \in (n + 1) .. (n + 1) : Names(versions[u].by, k)'
        BY <1>8, <3>3 DEF NamedSince
      <4>2. u \in (m + 1) .. l
        BY <1>1, <2>2, <3>1
      <4>3. QED BY <4>1, <4>2 DEF NamedSince
    <3>4. CASE k \notin DOMAIN call[c].body
      <4>1. r[k] = RowAt(n)[k]
        BY <1>0, <1>3, <3>4 DEF TrailInv, Versioned
      <4>2. n \in 0 .. n /\ m <= n
        BY <1>1, <3>1
      <4>3. NamedSince(m, n, k)
        BY <1>0, <3>1, <3>2, <4>1, <4>2 DEF ReplayInv, SinceNamed
      <4>4. NamedSince(m, n, k)'
        BY <1>0, <1>5, <3>1, <4>2, <4>3, SinceKept
      <4>5. PICK u \in (m + 1) .. n : Names(versions[u].by, k)'
        BY <4>4 DEF NamedSince
      <4>6. u \in (m + 1) .. l
        BY <1>1, <2>2, <3>1, <4>5
      <4>7. QED BY <4>5, <4>6 DEF NamedSince
    <3>5. QED BY <3>3, <3>4
  <2>3. QED BY <1>1, <2>1, <2>2
<1>10. /\ \A k : Telling(k)' = Telling(k) /\ \A d : Unlogged(d)' = Unlogged(d)
       /\ Replayed' = Replayed
  BY <1>1 DEF Telling, Unlogged, Replayed
<1>11. HasLast'
  BY <1>10 DEF ReplayInv, HasLast
<1>12. Unlogged(c)
  BY <1>1, LogIs DEF TrailInv, AllLogged, LoggedAs, Unlogged
<1>13. ASSUME NEW k \in Fields PROVE Replays(k)'
  <2>1. CASE Overlapping(k)
    BY <1>5, <2>1, OverlapKept DEF Replays
  <2>2. CASE Late(k)
    <3>1. PICK v \in Naming(k), w \in Naming(k) : v < w /\ Unlogged(versions[v].by)
      BY <2>2 DEF Late
    <3>2. /\ v \in Naming(k)' /\ w \in Naming(k)' /\ versions'[v] = versions[v]
      BY <1>4, <1>5, NamesKept DEF Naming
    <3>3. QED BY <1>10, <3>1, <3>2 DEF Late, Replays
  <2>3. CASE UpTo(k)
    <3>1. PICK m \in 0 .. n :
            /\ Replayed[k] = RowAt(m)[k]
            /\ \A v \in Naming(k) : ~Unlogged(versions[v].by) => v <= m
      BY <1>0, <2>3 DEF UpTo
    <3>2. Replayed'[k] = RowAt(m)'[k] /\ m \in 0 .. Len(versions')
      BY <1>0, <1>5, <1>10, <3>1, RowKept
    <3>3. ASSUME NEW v \in Naming(k)', ~Unlogged(versions[v].by)' PROVE v <= m
      <4>1. v \in DOMAIN versions'
        BY DEF Naming
      <4>2. v # n + 1
        BY <1>4, <1>10, <1>12, <3>3
      <4>3. v \in DOMAIN versions
        BY <1>1, <1>4, <4>1, <4>2
      <4>4. v \in Naming(k) /\ versions'[v] = versions[v]
        BY <1>4, <1>5, <4>3, NamesKept
      <4>5. ~Unlogged(versions[v].by)
        BY <1>10, <3>3, <4>4
      <4>6. QED BY <3>1, <4>4, <4>5
    <3>4. QED BY <3>2, <3>3 DEF UpTo, Replays
  <2>4. QED BY <2>1, <2>2, <2>3 DEF ReplayInv, Replays
<1>14. QED BY <1>7, <1>9, <1>11, <1>13 DEF ReplayInv

\* The last of a set that has one.
LEMMA LastIs ==
  ASSUME NEW S, S \subseteq Nat, NEW i \in S, \A j \in S : j <= i
  PROVE  LastOf(S) = i
<1>1. \A l \in S : (\A j \in S : j <= l) => l = i
  <2> SUFFICES ASSUME NEW l \in S, \A j \in S : j <= l PROVE l = i
    OBVIOUS
  <2>1. l <= i /\ i <= l /\ l \in Nat /\ i \in Nat
    OBVIOUS
  <2>2. QED BY <2>1
<1>2. QED BY <1>1 DEF LastOf

\* What a call that is about to log knows: its update is number a, it has read
\* the file as of update r, and n updates have been.
Logging(c, r, a, n) ==
  /\ call[c].pc = "log" /\ n = Len(versions)
  /\ r = call[c].before["updated_at"] /\ a = call[c].after["updated_at"]
  /\ r < a /\ a \in DOMAIN versions
  /\ versions[a].by = c /\ versions[a].row = call[c].after

\* The column differs between the read and the update of a call only if an
\* update in between, or its own, names it.
LEMMA TellsNamed ==
  ASSUME TrailInv, ReplayInv, NEW c \in Calls, NEW r \in Nat, NEW a \in Nat, NEW n \in Nat,
         Logging(c, r, a, n), NEW k \in Fields
  PROVE  /\ call[c].before[k] # RowAt(a - 1)[k] => \E u \in (r + 1) .. (a - 1) : u \in Naming(k)
         /\ call[c].before[k] # call[c].after[k] => \E u \in (r + 1) .. a : u \in Naming(k)
<1>1. DOMAIN versions = 1 .. n /\ a \in 1 .. n /\ HasUpdated(c)
  BY VersionIs DEF Logging, TrailInv, AllKnow, Knows
<1>2. call[c].before[k] # RowAt(a - 1)[k] => \E u \in (r + 1) .. (a - 1) : u \in Naming(k)
  <2> SUFFICES ASSUME call[c].before[k] # RowAt(a - 1)[k]
               PROVE  \E u \in (r + 1) .. (a - 1) : u \in Naming(k)
    OBVIOUS
  <2>1. NamedSince(r, a - 1, k)
    BY DEF HasUpdated, Logging, TrailInv, AllKnow, Knows
  <2>2. PICK u \in (r + 1) .. (a - 1) : Names(versions[u].by, k)
    BY <2>1 DEF NamedSince
  <2>3. u \in 1 .. n
    BY <1>1, <2>2
  <2>4. QED BY <1>1, <2>2, <2>3 DEF Naming
<1>3. RowAt(a - 1)[k] # RowAt(a)[k] => a \in Naming(k)
  <2> SUFFICES ASSUME RowAt(a - 1)[k] # RowAt(a)[k] PROVE a \in Naming(k)
    OBVIOUS
  <2>1. a - 1 \in 0 .. n /\ a \in 0 .. n /\ a - 1 <= a /\ n = Len(versions)
    BY <1>1 DEF Logging
  <2>2. NamedSince(a - 1, a, k)
    BY <2>1 DEF ReplayInv, SinceNamed
  <2>3. PICK u \in ((a - 1) + 1) .. a : Names(versions[u].by, k)
    BY <2>2 DEF NamedSince
  <2>4. u = a
    BY <1>1, <2>3
  <2>5. QED BY <1>1, <2>3, <2>4 DEF Naming
<1>4. RowAt(a) = call[c].after
  BY <1>1 DEF Logging, RowAt
<1>5. \A u \in (r + 1) .. (a - 1) : u \in (r + 1) .. a
  BY <1>1
<1>6. a \in (r + 1) .. a
  BY <1>1 DEF Logging
<1>7. QED BY <1>2, <1>3, <1>4, <1>5, <1>6

\* What the insert of a log adds, the first after l others.
LogAdded(c, r, a, n, l) ==
  /\ Logging(c, r, a, n)
  /\ Grows /\ versions' = versions /\ call'[c].before = call[c].before
  /\ DOMAIN trail = 1 .. l /\ DOMAIN trail' = 1 .. (l + 1)
  /\ trail'[l + 1].by = c /\ trail'[l + 1].upto = n
  /\ \A k \in Fields : k \in DOMAIN trail'[l + 1].new_value
                         <=> call[c].before[k] # call[c].after[k]
  /\ \A k \in DOMAIN trail'[l + 1].new_value :
       trail'[l + 1].new_value[k] = call[c].after[k]

LEMMA LogAdds ==
  ASSUME TrailInv, ReplayInv, Frame, NEW c \in Calls, WriteLog(c),
         Fields \intersect KeysToNotLog = {}
  PROVE  \E r, a, n, l \in Nat : LogAdded(c, r, a, n, l)
<1>1. /\ call[c].pc = "log" /\ HasUpdated(c)
      /\ DOMAIN versions = 1 .. Len(versions) /\ Len(versions) \in Nat
      /\ DOMAIN trail = 1 .. Len(trail) /\ Len(trail) \in Nat
  BY VersionIs, LogIs DEF WriteLog, TrailInv, AllKnow, Knows
<1>2. PICK r \in Nat, a \in Nat, n \in Nat, l \in Nat :
        /\ n = Len(versions) /\ l = Len(trail)
        /\ r = call[c].before["updated_at"] /\ a = call[c].after["updated_at"]
  <2>1. /\ call[c].after["updated_at"] \in 1 .. Len(versions)
        /\ call[c].before["updated_at"] \in 0 .. (call[c].after["updated_at"] - 1)
    BY <1>1 DEF HasUpdated
  <2>2. call[c].before["updated_at"] \in Nat /\ call[c].after["updated_at"] \in Nat
    BY <1>1, <2>1
  <2>3. QED BY <1>1, <2>2
<1>3. Logging(c, r, a, n)
  BY <1>1, <1>2 DEF HasUpdated, Logging
<1> DEFINE data == GetLogData(call[c].before, call[c].after)
           log == [by |-> c, upto |-> n,
                   old_value |-> data.old_value, new_value |-> data.new_value]
<1>4. versions' = versions /\ trail' = Append(trail, log)
  BY <1>2 DEF WriteLog
<1>5. /\ log.by = c /\ log.upto = n /\ log.new_value = data.new_value
  OBVIOUS
<1>6. /\ \A k \in Fields : k \in DOMAIN data.new_value <=> call[c].before[k] # call[c].after[k]
      /\ \A k \in DOMAIN data.new_value : data.new_value[k] = call[c].after[k]
  <2>1. call[c].before \in Rows /\ call[c].after \in Rows
    BY <1>1 DEF HasUpdated
  <2>2. \A k \in Fields : k \in DOMAIN data.new_value <=> call[c].before[k] # call[c].after[k]
    BY <2>1, LogDataIs
  <2>3. \A k \in DOMAIN data.new_value : data.new_value[k] = call[c].after[k]
    BY DEF GetLogData, FilterObjForUpdateLog
  <2>4. QED BY <2>2, <2>3
<1> HIDE DEF log
<1>7. /\ DOMAIN trail' = 1 .. (l + 1) /\ trail'[l + 1] = log
      /\ \A i \in DOMAIN trail : trail'[i] = trail[i]
  BY <1>1, <1>2, <1>4 DEF TrailInv, Typed
<1>8. Grows
  BY <1>1, <1>2, <1>4, <1>7 DEF Grows
<1>9. call'[c].before = call[c].before
  BY <1>1 DEF Frame, Ended
<1>10. LogAdded(c, r, a, n, l)
  BY <1>1, <1>2, <1>3, <1>4, <1>5, <1>6, <1>7, <1>8, <1>9 DEF LogAdded
<1>11. QED BY <1>10

LEMMA LogReplay ==
  ASSUME TrailInv, ReplayInv, Frame, NEW c \in Calls, WriteLog(c),
         Fields \intersect KeysToNotLog = {}
  PROVE  ReplayInv'
<1>0. PICK r \in Nat, a \in Nat, n \in Nat, l \in Nat : LogAdded(c, r, a, n, l)
  BY LogAdds
<1>1. /\ Logging(c, r, a, n)
      /\ Grows /\ versions' = versions /\ call'[c].before = call[c].before
      /\ DOMAIN trail = 1 .. l /\ DOMAIN trail' = 1 .. (l + 1)
      /\ trail'[l + 1].by = c /\ trail'[l + 1].upto = n
      /\ \A k \in Fields : k \in DOMAIN trail'[l + 1].new_value
                             <=> call[c].before[k] # call[c].after[k]
      /\ \A k \in DOMAIN trail'[l + 1].new_value :
           trail'[l + 1].new_value[k] = call[c].after[k]
  BY <1>0 DEF LogAdded
<1>2. /\ n = Len(versions) /\ DOMAIN versions = 1 .. n
      /\ r < a /\ a <= n /\ a \in DOMAIN versions /\ versions[a].by = c
      /\ r = call[c].before["updated_at"] /\ a = call[c].after["updated_at"]
  BY <1>1, VersionIs DEF Logging, TrailInv
<1>3. \A i \in 1 .. l : trail'[i] = trail[i]
  BY <1>1 DEF Grows
<1>4. \A k \in Fields : Naming(k)' = Naming(k)
  BY <1>1, NamesKept DEF Naming
<1>5. \A d : Unlogged(d)' <=> Unlogged(d) /\ d # c
  <2>1. \A i \in 1 .. (l + 1) : i \in 1 .. l \/ i = l + 1
    OBVIOUS
  <2>2. \A i \in 1 .. l : i \in 1 .. (l + 1)
    OBVIOUS
  <2>3. l + 1 \in 1 .. (l + 1)
    OBVIOUS
  <2>4. QED BY <1>1, <1>3, <2>1, <2>2, <2>3 DEF Unlogged
<1>6. \A v \in DOMAIN versions : versions[v].by = c => v = a
  BY <1>2 DEF ReplayInv, OnceEach
<1>7. OnceEach'
  BY <1>1, VersionIs DEF ReplayInv, OnceEach, Frame, TrailInv
<1>8. SinceNamed'
  <2> SUFFICES ASSUME NEW m \in 0 .. n, NEW p \in 0 .. n, NEW k \in Fields,
                      m <= p, RowAt(m)[k] # RowAt(p)[k]
               PROVE  NamedSince(m, p, k)'
    BY <1>1, <1>2 DEF SinceNamed, RowAt
  <2>1. NamedSince(m, p, k)
    BY <1>2 DEF ReplayInv, SinceNamed
  <2>2. QED BY <1>1, <1>2, <2>1, SinceKept
<1>9. ASSUME NEW k \in Fields
      PROVE  Telling(k)' = IF call[c].before[k] # call[c].after[k]
                           THEN Telling(k) \union {l + 1} ELSE Telling(k)
  <2>1. \A i \in 1 .. (l + 1) : i \in 1 .. l \/ i = l + 1
    OBVIOUS
  <2>2. (\A i \in 1 .. l : i \in 1 .. (l + 1)) /\ l + 1 \in 1 .. (l + 1) /\ l + 1 \notin 1 .. l
    OBVIOUS
  <2>3. QED BY <1>1, <1>3, <2>1, <2>2 DEF Telling
<1>10. \A k \in Fields : Telling(k) \subseteq 1 .. l
  BY <1>1 DEF Telling
<1>11. ASSUME NEW k \in Fields, call[c].before[k] # call[c].after[k]
       PROVE  /\ l + 1 \in Telling(k)' /\ \A j \in Telling(k)' : j <= l + 1
              /\ Replayed'[k] = call[c].after[k]
  <2>1. Telling(k)' = Telling(k) \union {l + 1}
    BY <1>9, <1>11
  <2>2. l + 1 \in Telling(k)' /\ \A j \in Telling(k)' : j <= l + 1
    BY <1>10, <2>1
  <2>3. Telling(k)' \subseteq Nat
    BY <1>10, <2>1
  <2>4. LastOf(Telling(k)') = l + 1
    BY <2>2, <2>3, LastIs
  <2>5. Replayed'[k] = trail'[l + 1].new_value[k]
    BY <2>2, <2>4 DEF Replayed, LastOf
  <2>6. QED BY <1>1, <1>11, <2>2, <2>5
<1>12. ASSUME NEW k \in Fields, call[c].before[k] = call[c].after[k]
       PROVE  Telling(k)' = Telling(k) /\ Replayed'[k] = Replayed[k]
  <2>1. Telling(k)' = Telling(k)
    BY <1>9, <1>12
  <2>2. CASE Telling(k) = {}
    BY <2>1, <2>2 DEF Replayed
  <2>3. CASE Telling(k) # {}
    <3>1. PICK i \in Telling(k) : \A j \in Telling(k) : j <= i
      BY <2>3 DEF ReplayInv, HasLast
    <3>2. LastOf(Telling(k)) = i
      BY <1>10, <3>1, LastIs
    <3>3. trail'[i] = trail[i]
      BY <1>3, <1>10, <3>1
    <3>4. Replayed[k] = trail[i].new_value[k]
      BY <2>3, <3>2 DEF Replayed
    <3>5. LastOf(Telling(k)') = i
      BY <2>1, <3>2
    <3>6. Replayed'[k] = trail'[i].new_value[k]
      BY <2>1, <2>3, <3>5 DEF Replayed, LastOf
    <3>7. QED BY <2>1, <3>3, <3>4, <3>6
  <2>4. QED BY <2>2, <2>3
<1>13. HasLast'
  BY <1>11, <1>12 DEF ReplayInv, HasLast
\* Another call's update of the column that the new log overlaps is the only one.
<1>14. ASSUME NEW k \in Fields, ~Overlapping(k)',
              NEW v \in Naming(k), NEW w \in Naming(k), v # w, versions[v].by # c
       PROVE  v \notin (r + 1) .. n
  <2>1. l + 1 \in DOMAIN trail'
    BY <1>1
  <2>2. v \in Naming(k)' /\ w \in Naming(k)' /\ versions'[v].by # c
    BY <1>1, <1>4, <1>14
  <2>3. call'[trail'[l + 1].by].before["updated_at"] = r /\ trail'[l + 1].upto = n
    BY <1>1, <1>2
  <2>4. QED BY <1>1, <1>14, <2>1, <2>2, <2>3 DEF Overlapping
<1>15. ASSUME NEW k \in Fields, ~Overlapping(k)', ~Late(k)' PROVE UpTo(k)'
  <2>1. ~Overlapping(k)
    BY <1>1, <1>15, OverlapKept
  <2>2. ~Late(k)
    <3> SUFFICES ASSUME NEW v \in Naming(k), NEW w \in Naming(k),
                        v < w, Unlogged(versions[v].by)
                 PROVE  FALSE
      BY DEF Late
    <3>1. v \in 1 .. n /\ w \in 1 .. n
      BY <1>2 DEF Naming
    <3>2. CASE versions[v].by = c
      <4>1. v = a
        BY <1>6, <3>2 DEF Naming
      <4>2. versions[w].by # c
        BY <1>2, <1>6, <3>1, <4>1
      <4>3. w \in (r + 1) .. n /\ v # w
        BY <1>2, <3>1, <4>1
      <4>4. QED BY <1>14, <1>15, <4>2, <4>3
    <3>3. CASE versions[v].by # c
      BY <1>1, <1>4, <1>5, <1>15, <3>3 DEF Late
    <3>4. QED BY <3>2, <3>3
  <2>3. PICK m \in 0 .. n :
          /\ Replayed[k] = RowAt(m)[k]
          /\ \A v \in Naming(k) : ~Unlogged(versions[v].by) => v <= m
    BY <1>2, <2>1, <2>2 DEF ReplayInv, Replays, UpTo
  <2>4. /\ \A i \in 0 .. n : RowAt(i)' = RowAt(i) /\ i \in 0 .. Len(versions')
        /\ a \in 0 .. n /\ RowAt(a) = call[c].after
    BY <1>1, <1>2 DEF RowAt, Logging
  <2>5. ASSUME NEW v \in Naming(k)', ~Unlogged(versions[v].by)'
        PROVE  v \in Naming(k) /\ v \in 1 .. n /\ (v = a \/ v <= m)
    <3>1. v \in Naming(k) /\ v \in 1 .. n
      BY <1>2, <1>4 DEF Naming
    <3>2. ~Unlogged(versions[v].by) \/ versions[v].by = c
      BY <1>1, <1>5, <2>5
    <3>3. QED BY <1>2, <1>6, <2>3, <3>1, <3>2
  <2>6. CASE call[c].before[k] # call[c].after[k]
    <3>1. Replayed'[k] = RowAt(a)'[k]
      BY <1>11, <2>4, <2>6
    <3>2. PICK u \in (r + 1) .. a : u \in Naming(k)
      BY <1>1, <2>6, TellsNamed
    <3>3. ASSUME NEW v \in Naming(k)', ~Unlogged(versions[v].by)' PROVE v <= a
      <4>1. v \in Naming(k) /\ v \in 1 .. n
        BY <2>5, <3>3
      <4> SUFFICES ASSUME v > a PROVE FALSE
        BY <1>2, <4>1
      <4>2. v # u /\ v \in (r + 1) .. n /\ versions[v].by # c
        BY <1>2, <1>6, <3>2, <4>1
      <4>3. QED BY <1>14, <1>15, <3>2, <4>1, <4>2
    <3>4. QED BY <2>4, <3>1, <3>3 DEF UpTo
  <2>7. CASE call[c].before[k] = call[c].after[k] /\ (a \notin Naming(k) \/ a <= m)
    <3>1. Replayed'[k] = RowAt(m)'[k]
      BY <1>12, <2>3, <2>4, <2>7
    <3>2. ASSUME NEW v \in Naming(k)', ~Unlogged(versions[v].by)' PROVE v <= m
      BY <2>5, <2>7, <3>2
    <3>3. QED BY <2>4, <3>1, <3>2 DEF UpTo
  <2>8. CASE call[c].before[k] = call[c].after[k] /\ a \in Naming(k) /\ ~(a <= m)
    <3>1. /\ m \in 0 .. n /\ a - 1 \in 0 .. n /\ m <= a - 1 /\ m < a
          /\ \A u \in (m + 1) .. (a - 1) : u \in 1 .. n /\ u < a /\ ~(u <= m)
          /\ \A u \in (r + 1) .. (a - 1) : u \in (r + 1) .. n /\ u # a
      BY <1>2, <2>8
    <3>2. RowAt(m)[k] = RowAt(a - 1)[k]
      <4> SUFFICES ASSUME RowAt(m)[k] # RowAt(a - 1)[k] PROVE FALSE
        OBVIOUS
      <4>1. NamedSince(m, a - 1, k)
        BY <1>2, <3>1 DEF ReplayInv, SinceNamed
      <4>2. PICK u \in (m + 1) .. (a - 1) : Names(versions[u].by, k)
        BY <4>1 DEF NamedSince
      <4>3. u \in Naming(k) /\ u < a /\ ~(u <= m) /\ u \in DOMAIN versions
        BY <1>2, <3>1, <4>2 DEF Naming
      <4>4. Unlogged(versions[u].by)
        BY <2>3, <4>3
      <4>5. versions[u].by # c
        BY <1>2, <1>6, <4>3
      <4>6. Unlogged(versions[u].by)'
        BY <1>1, <1>5, <4>4, <4>5
      <4>7. QED BY <1>4, <1>15, <2>8, <4>3, <4>6 DEF Late
    <3>3. call[c].before[k] = RowAt(a - 1)[k]
      <4> SUFFICES ASSUME call[c].before[k] # RowAt(a - 1)[k] PROVE FALSE
        OBVIOUS
      <4>1. PICK u \in (r + 1) .. (a - 1) : u \in Naming(k)
        BY <1>1, TellsNamed
      <4>2. u # a /\ u \in (r + 1) .. n /\ versions[u].by # c
        BY <1>6, <3>1, <4>1 DEF Naming
      <4>3. QED BY <1>14, <1>15, <2>8, <4>1, <4>2
    <3>4. Replayed'[k] = RowAt(a)'[k]
      BY <1>12, <2>3, <2>4, <2>8, <3>2, <3>3
    <3>5. ASSUME NEW v \in Naming(k)', ~Unlogged(versions[v].by)' PROVE v <= a
      <4>1. v \in 1 .. n /\ (v = a \/ v <= m)
        BY <2>5, <3>5
      <4>2. QED BY <1>2, <2>3, <3>1, <4>1
    <3>6. QED BY <2>4, <3>4, <3>5 DEF UpTo
  <2>9. QED BY <2>6, <2>7, <2>8
<1>16. QED BY <1>7, <1>8, <1>13, <1>15 DEF ReplayInv, Replays

-----------------------------------------------------------------------------
LEMMA InitReplay == Init => ReplayInv
<1> SUFFICES ASSUME Init PROVE ReplayInv
  OBVIOUS
<1>1. trail = <<>> /\ versions = <<>>
  BY DEF Init
<1>2. /\ DOMAIN versions = {} /\ Len(versions) = 0
      /\ \A k \in Fields : Naming(k) = {} /\ Telling(k) = {}
  BY <1>1 DEF Naming, Telling
<1>3. OnceEach /\ HasLast
  BY <1>2 DEF OnceEach, HasLast
<1>4. SinceNamed
  <2> SUFFICES ASSUME NEW m \in 0 .. 0, NEW n \in 0 .. 0 PROVE m = n
    BY <1>2 DEF SinceNamed
  <2>1. QED OBVIOUS
<1>5. ASSUME NEW k \in Fields PROVE UpTo(k)
  <2>1. Replayed[k] = RowAt(0)[k] /\ 0 \in 0 .. 0
    BY <1>2 DEF Replayed, RowAt
  <2>2. QED BY <1>2, <2>1 DEF UpTo
<1>6. QED BY <1>3, <1>4, <1>5 DEF ReplayInv, Replays

LEMMA StepReplay ==
  ASSUME Fields \intersect KeysToNotLog = {}
  PROVE  TrailInv /\ ReplayInv /\ [Next]_vars => ReplayInv'
<1> SUFFICES ASSUME TrailInv, ReplayInv, [Next]_vars PROVE ReplayInv'
  OBVIOUS
<1>1. CASE Next
  <2>1. Frame
    BY <1>1, Framed
  <2>2. PICK c \in Calls :
          Call(c) \/ FindFile(c) \/ FindUser(c) \/ Update(c) \/ WriteLog(c) \/ Fail(c)
    BY <1>1 DEF Next
  <2>3. CASE Update(c)
    BY <2>1, <2>3, UpdateReplay
  <2>4. CASE WriteLog(c)
    BY <2>1, <2>4, LogReplay
  <2>5. CASE Call(c) \/ FindFile(c) \/ FindUser(c) \/ Fail(c)
    <3>1. UNCHANGED <<file, trail, versions>>
      BY <2>5 DEF Call, FindFile, FindUser, Fail
    <3>2. QED BY <2>1, <3>1, QuietReplay
  <2>6. QED BY <2>2, <2>3, <2>4, <2>5
<1>2. CASE UNCHANGED vars
  <2>1. UNCHANGED <<file, trail, versions>> /\ call' = call
    BY <1>2 DEF vars
  <2>2. Frame
    BY <2>1 DEF Frame, SameNames
  <2>3. QED BY <2>1, <2>2, QuietReplay
<1>3. QED BY <1>1, <1>2

\* If every update of a column is logged and none has overlapped, the last log
\* that tells the column says what the file has.
LEMMA InvReplays == TrailInv /\ ReplayInv => TrailReplays
<1> SUFFICES ASSUME TrailInv, ReplayInv, NEW k \in Fields, ~Overlapping(k),
                    \A v \in Naming(k) : ~Unlogged(versions[v].by)
             PROVE  Replayed[k] = file[k]
  BY DEF TrailReplays
<1>1. UpTo(k)
  BY DEF ReplayInv, Replays, Late
<1>2. PICK m \in 0 .. Len(versions) :
        Replayed[k] = RowAt(m)[k] /\ \A v \in Naming(k) : v <= m
  BY <1>1 DEF UpTo
<1>3. file[k] = RowAt(Len(versions))[k]
  BY DEF TrailInv, Versioned
<1>4. Len(versions) \in Nat /\ DOMAIN versions = 1 .. Len(versions)
  BY VersionIs DEF TrailInv
<1> SUFFICES ASSUME RowAt(m)[k] # RowAt(Len(versions))[k] PROVE FALSE
  BY <1>2, <1>3
<1>5. NamedSince(m, Len(versions), k)
  BY <1>4 DEF ReplayInv, SinceNamed
<1>6. PICK u \in (m + 1) .. Len(versions) : Names(versions[u].by, k)
  BY <1>5 DEF NamedSince
<1>7. u \in Naming(k) /\ ~(u <= m)
  BY <1>4, <1>6 DEF Naming
<1>8. QED BY <1>2, <1>7

\* Where no column is one that the helper leaves out of every log, whoever reads
\* the trail from the start ends with the file, for any number of calls, except
\* in a column of which an update has no log or overlapped with another one.
THEOREM AlwaysReplays ==
  ASSUME Fields \intersect KeysToNotLog = {}
  PROVE  Spec => []TrailReplays
<1>1. TrailInv /\ ReplayInv /\ [Next]_vars => ReplayInv'
  BY StepReplay
<1>2. QED BY <1>1, InitReplay, InvReplays, Invariant, PTL DEF Spec
=============================================================================
