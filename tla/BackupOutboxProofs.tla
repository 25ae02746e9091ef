-------------------------- MODULE BackupOutboxProofs ---------------------------
(***************************************************************************)
(* BackupOutbox's safety properties and its implementation of the backup   *)
(* ledger, for any set of assets, retry policy and bounds.  What a step    *)
(* does to one asset is nothing, a restore, or one of five kinds of save;  *)
(* each part of the invariant is shown for a kind and not for every        *)
(* operation.                                                              *)
(***************************************************************************)
EXTENDS BackupOutbox, FiniteSetTheorems, TLAPS

(* The delay is a duration within the policy's maximum.                    *)
LEMMA DelayBounded ==
  ASSUME NEW attempts \in Nat
  PROVE  DelayForAttempt(attempts) \in 0..MaxDelay
<1> DEFINE wanted == Base * 2 ^ (attempts - 1)
<1>1. DelayForAttempt(attempts) = IF wanted \in 0..MaxDelay THEN wanted ELSE MaxDelay
  BY DEF DelayForAttempt
<1> HIDE DEF wanted
<1>2. QED
  BY <1>1, PolicyAssumption

-------------------------------------------------------------------------------
(***************************************************************************)
(* The kinds of save.                                                      *)
(***************************************************************************)
Left(type, a, i) == \E x \in receipts' : x.type = type /\ x.asset = a /\ x.sequence = i

SameCounts(a, r) == r.attempts = row[a].attempts /\ r.remote = row[a].remote

(* Queue, Retry and the recovery of one asset.                             *)
Waits(a, r) ==
    /\ row[a].state \in {"absent", "failed", "cancelled", "uploading"}
    /\ r.state = "queued" /\ r.nextAt \in Times /\ SameCounts(a, r)
    /\ row[a].state = "cancelled" =>
          Left("retry", a, Len(events[a]) + 1)

Cancels(a, r) ==
    /\ row[a].state \in {"queued", "uploading", "failed"}
    /\ r.state = "cancelled" /\ r.nextAt = Never /\ SameCounts(a, r)
    /\ Left("cancel", a, Len(events[a]) + 1)

Claims(a, r) ==
    /\ row[a].state \in {"queued", "failed"} /\ row[a].nextAt <= r.updatedAt
    /\ r.state = "uploading" /\ r.nextAt = Never
    /\ r.attempts = row[a].attempts + 1 /\ r.remote = row[a].remote

Uploads(a, r) ==
    /\ row[a].state = "uploading"
    /\ r.state = "backedUp" /\ r.nextAt = Never /\ r.remote
    /\ r.attempts = row[a].attempts

Fails(a, r) ==
    /\ row[a].state = "uploading"
    /\ r.state = "failed" /\ SameCounts(a, r) /\ r.updatedAt \in Times
    /\ r.nextAt = r.updatedAt + DelayForAttempt(r.attempts)

Change(a, r) == Waits(a, r) \/ Cancels(a, r) \/ Claims(a, r) \/ Uploads(a, r) \/ Fails(a, r)

(* One asset's part of a step.                                             *)
Quiet(a) == row'[a] = row[a] /\ events'[a] = events[a]

Moves(a, r) ==
    /\ row'[a] = r /\ events'[a] = Append(events[a], Event(r.state, r))
    /\ r.revision = row[a].revision + 1 /\ r.state \in States
    /\ Change(a, r)

Restores(a) ==
    /\ row'[a] = row[a] /\ events'[a] = Append(events[a], Event("restored", row[a]))
    /\ row[a].state = "backedUp" /\ row[a].remote
    /\ Left("restore", a, Len(events[a]) + 1)

StepOf(a) == Quiet(a) \/ Restores(a) \/ \E r \in Row : Moves(a, r)

(* A save writes the row it is given, with a new revision and time.        *)
LEMMA SavedFields ==
  ASSUME TypeOK, NEW a \in Assets, NEW r \in Row, NEW now \in Times
  PROVE  /\ Saved(a, r, now) \in Row
         /\ Saved(a, r, now).state = r.state /\ Saved(a, r, now).nextAt = r.nextAt
         /\ Saved(a, r, now).attempts = r.attempts /\ Saved(a, r, now).remote = r.remote
         /\ Saved(a, r, now).revision = row[a].revision + 1
         /\ Saved(a, r, now).updatedAt = now
<1>1. row[a].revision + 1 \in Nat /\ now \in Nat
  BY DEF TypeOK, Row, Times
<1>2. QED
  BY <1>1 DEF Saved, Row

(* A save touches one asset, and there appends the event of the new row.   *)
LEMMA SaveWrites ==
  ASSUME TypeOK, NEW a \in Assets, NEW r, NEW type, NEW now, Save(a, r, type, now)
  PROVE  /\ row'[a] = Saved(a, r, now)
         /\ events'[a] = Append(events[a], Event(type, Saved(a, r, now)))
         /\ Len(events'[a]) = Len(events[a]) + 1
         /\ \A b \in Assets : b # a => Quiet(b)
  BY DEF Save, TypeOK, Quiet

LEMMA SaveMoves ==
  ASSUME TypeOK, NEW a \in Assets, NEW r \in Row, NEW now \in Times,
         r.state \in States, Save(a, r, r.state, now), Change(a, Saved(a, r, now))
  PROVE  \A b \in Assets : StepOf(b)
<1>1. Moves(a, Saved(a, r, now))
  BY SaveWrites, SavedFields DEF Moves
<1>2. Saved(a, r, now) \in Row
  BY SavedFields
<1>3. QED
  BY <1>1, <1>2, SaveWrites DEF StepOf

(* A committed command leaves a receipt with the number of the last event. *)
LEMMA CommitWrites ==
  ASSUME NEW command, NEW key, NEW type, NEW a, NEW expected,
         Commit(command, key, type, a, expected)
  PROVE  Left(type, a, Len(events'[a]))
<1> DEFINE x == Receipt(command, key, type, a, expected)
<1>1. x.type = type /\ x.asset = a /\ x.sequence = Len(events'[a])
  BY DEF Receipt
<1>2. x \in receipts'
  BY DEF Commit
<1>3. QED
  BY <1>1, <1>2 DEF Left

(* A row that is queued again, and one written into its other states.      *)
LEMMA RowWrites ==
  ASSUME TypeOK, NEW a \in Assets, NEW now \in Times
  PROVE  /\ Waiting(a, now) \in Row /\ Waiting(a, now).state = "queued"
         /\ Waiting(a, now).nextAt = now
         /\ Waiting(a, now).attempts = row[a].attempts
         /\ Waiting(a, now).remote = row[a].remote
<1>1. row[a] \in Row /\ now \in Nat
  BY DEF TypeOK, Times
<1>2. QED
  BY <1>1 DEF Row, Waiting, States

(* Every operation is, for every asset, a step of one of the kinds.        *)
LEMMA StepOfAsset ==
  ASSUME TypeOK, [Next]_vars, NEW b \in Assets
  PROVE  StepOf(b)
<1>0. \A a \in Assets : row[a] \in Row
  BY DEF TypeOK
<1>a. NoOp => StepOf(b)
  BY DEF NoOp, StepOf, Quiet
<1>b. {"queued", "uploading", "backedUp", "failed", "cancelled"} = States
  BY DEF States
<1>1. ASSUME NEW command \in Ids, NEW key \in Ids, NEW a \in Assets, NEW now \in Times,
             Queue(command, key, a, now)
      PROVE  StepOf(b)
  <2>1. CASE ~Exists(a)
    <3>1. Save(a, Waiting(a, now), "queued", now)
      BY <1>1, <2>1 DEF Queue
    <3>2. Waits(a, Saved(a, Waiting(a, now), now))
      BY <2>1, SavedFields, RowWrites DEF Waits, SameCounts, Exists
    <3>3. QED
      BY <1>b, <3>1, <3>2, RowWrites, SaveMoves DEF Change
  <2>2. QED
    BY <1>a, <1>1, <2>1 DEF Queue
<1>2. ASSUME NEW command \in Ids, NEW key \in Ids, NEW a \in Assets, NEW now \in Times,
             NEW expected \in 1..MaxRevision, Retry(command, key, a, expected, now)
      PROVE  StepOf(b)
  <2>1. CASE /\ row[a].state \in {"failed", "cancelled"}
             /\ Save(a, Waiting(a, now), "queued", now)
    <3>1. Left("retry", a, Len(events[a]) + 1)
      BY <1>2, <2>1, CommitWrites, SaveWrites DEF Retry
    <3>2. Waits(a, Saved(a, Waiting(a, now), now))
      BY <2>1, <3>1, SavedFields, RowWrites DEF Waits, SameCounts
    <3>3. QED
      BY <1>b, <2>1, <3>2, RowWrites, SaveMoves DEF Change
  <2>2. QED
    BY <1>a, <1>2, <2>1 DEF Retry
<1>3. ASSUME NEW command \in Ids, NEW key \in Ids, NEW a \in Assets, NEW now \in Times,
             NEW expected \in 1..MaxRevision, Cancel(command, key, a, expected, now)
      PROVE  StepOf(b)
  <2> DEFINE r == [row[a] EXCEPT !.state = "cancelled", !.nextAt = Never]
  <2>1. /\ r \in Row /\ r.state = "cancelled" /\ r.nextAt = Never
        /\ r.attempts = row[a].attempts /\ r.remote = row[a].remote
    BY <1>0 DEF Row, Never, States
  <2>2. CASE /\ row[a].state \in {"queued", "uploading", "failed"}
             /\ Save(a, r, "cancelled", now)
    <3> HIDE DEF r
    <3>1. Left("cancel", a, Len(events[a]) + 1)
      BY <1>3, <2>2, CommitWrites, SaveWrites DEF Cancel
    <3>2. Cancels(a, Saved(a, r, now))
      BY <2>1, <2>2, <3>1, SavedFields DEF Cancels, SameCounts
    <3>3. QED
      BY <1>b, <2>1, <2>2, <3>2, SaveMoves DEF Change
  <2>3. QED
    BY <1>a, <1>3, <2>2 DEF Cancel
<1>4. ASSUME NEW command \in Ids, NEW key \in Ids, NEW a \in Assets,
             NEW expected \in 1..MaxRevision, CompleteRestore(command, key, a, expected)
      PROVE  StepOf(b)
  <2>1. /\ events' = [events EXCEPT ![a] = Append(@, Event("restored", row[a]))]
        /\ row' = row /\ row[a].state = "backedUp" /\ row[a].remote
    BY <1>4 DEF CompleteRestore
  <2>2. /\ events'[a] = Append(events[a], Event("restored", row[a]))
        /\ Len(events'[a]) = Len(events[a]) + 1
        /\ b # a => events'[b] = events[b]
    BY <2>1 DEF TypeOK
  <2>3. Left("restore", a, Len(events[a]) + 1)
    BY <1>4, <2>2, CommitWrites DEF CompleteRestore
  <2>4. QED
    BY <2>1, <2>2, <2>3 DEF StepOf, Restores, Quiet
<1>5. ASSUME NEW a \in Assets, NEW now \in Times, Claim(a, now)
      PROVE  StepOf(b)
  <2> DEFINE r == [row[a] EXCEPT !.state = "uploading", !.attempts = @ + 1, !.nextAt = Never]
  <2>1. /\ r \in Row /\ r.state = "uploading" /\ r.nextAt = Never
        /\ r.attempts = row[a].attempts + 1 /\ r.remote = row[a].remote
    <3>1. row[a] \in Row /\ row[a].attempts + 1 \in Nat
      BY <1>0 DEF Row
    <3>2. QED
      BY <3>1 DEF Row, Never, States
  <2>2. Save(a, r, "uploading", now)
    BY <1>5 DEF Claim
  <2> HIDE DEF r
  <2>3. Claims(a, Saved(a, r, now))
    BY <1>5, <2>1, SavedFields DEF Claims, Claim, Due
  <2>4. QED
    BY <1>b, <2>1, <2>2, <2>3, SaveMoves DEF Change
<1>6. ASSUME NEW a \in Assets, NEW now \in Times, NEW expected \in 1..MaxRevision,
             MarkBackedUp(a, expected, now)
      PROVE  StepOf(b)
  <2> DEFINE r == [row[a] EXCEPT !.state = "backedUp", !.nextAt = Never, !.remote = TRUE]
  <2>1. /\ r \in Row /\ r.state = "backedUp" /\ r.nextAt = Never
        /\ r.attempts = row[a].attempts /\ r.remote
    BY <1>0 DEF Row, Never, States
  <2>2. Save(a, r, "backedUp", now)
    BY <1>6 DEF MarkBackedUp
  <2> HIDE DEF r
  <2>3. Uploads(a, Saved(a, r, now))
    BY <1>6, <2>1, SavedFields DEF Uploads, MarkBackedUp, Owns
  <2>4. QED
    BY <1>b, <2>1, <2>2, <2>3, SaveMoves DEF Change
<1>7. ASSUME NEW a \in Assets, NEW now \in Times, NEW expected \in 1..MaxRevision,
             MarkFailed(a, expected, now)
      PROVE  StepOf(b)
  <2> DEFINE delay == DelayForAttempt(row[a].attempts)
             r == [row[a] EXCEPT !.state = "failed", !.nextAt = now + delay]
  <2>1. delay \in Nat /\ now + delay \in Nat
    BY <1>0, DelayBounded DEF Row, Times
  <2>2. Save(a, r, "failed", now)
    BY <1>7 DEF MarkFailed
  <2>3. /\ r \in Row /\ r.state = "failed" /\ r.nextAt = now + delay
        /\ r.attempts = row[a].attempts /\ r.remote = row[a].remote
    <3> HIDE DEF delay
    <3>1. QED
      BY <1>0, <2>1 DEF Row, States
  <2> HIDE DEF r
  <2>4. Fails(a, Saved(a, r, now))
    BY <1>7, <2>3, SavedFields DEF Fails, SameCounts, MarkFailed, Owns
  <2>5. QED
    BY <1>b, <2>2, <2>3, <2>4, SaveMoves DEF Change
<1>8. ASSUME NEW now \in Times, Recover(now)
      PROVE  StepOf(b)
  <2>1. CASE b \in Uploading
    <3> DEFINE r == Recovered(b, now)
    <3>1. /\ r \in Row /\ r.revision = row[b].revision + 1
          /\ r.state = "queued" /\ r.nextAt = now /\ SameCounts(b, r)
      BY SavedFields, RowWrites DEF Recovered, SameCounts
    <3>2. row'[b] = r /\ events'[b] = Append(events[b], Event("queued", r))
      BY <1>8, <2>1 DEF Recover
    <3> HIDE DEF r
    <3>3. Waits(b, r)
      BY <2>1, <3>1 DEF Waits, Uploading
    <3>4. QED
      BY <1>b, <3>1, <3>2, <3>3 DEF StepOf, Moves, Change
  <2>2. CASE b \notin Uploading
    BY <1>8, <2>2 DEF Recover, StepOf, Quiet
  <2>3. QED
    BY <2>1, <2>2
<1>9. CASE UNCHANGED vars
  BY <1>9 DEF vars, StepOf, Quiet
<1>10. QED
  BY <1>1, <1>2, <1>3, <1>4, <1>5, <1>6, <1>7, <1>8, <1>9 DEF Next

-------------------------------------------------------------------------------
(***************************************************************************)
(* The invariant of one asset: the named properties, and why the back-off  *)
(* holds: a failed row's next attempt is the delay after its failure, and  *)
(* the last event names the row's state unless it is a restore.            *)
(***************************************************************************)
DelayMatches(a) ==
    row[a].state = "failed" =>
        row[a].nextAt = row[a].updatedAt + DelayForAttempt(row[a].attempts)

LastTold(a) ==
    Exists(a) => \/ events[a][Len(events[a])].type = row[a].state
                 \/ /\ events[a][Len(events[a])].type = "restored"
                    /\ row[a].state = "backedUp"

AssetInv(a) ==
    /\ ColumnsMatch(row[a]) /\ DelayMatches(a)
    /\ EventsReplay(a) /\ LastTold(a)
    /\ BackoffObserved(a) /\ StaysCancelled(a) /\ CommandedByReceipt(a)

(* A sequence and the sequence with one more event.                        *)
LEMMA Appended ==
  ASSUME NEW s \in Seq(EventRow), NEW e \in EventRow
  PROVE  /\ Append(s, e) \in Seq(EventRow)
         /\ Len(s) \in Nat /\ Len(Append(s, e)) = Len(s) + 1
         /\ DOMAIN s = 1..Len(s) /\ DOMAIN Append(s, e) = 1..(Len(s) + 1)
         /\ \A i \in 1..Len(s) : Append(s, e)[i] = s[i] /\ s[i] \in EventRow
         /\ Append(s, e)[Len(s) + 1] = e
  OBVIOUS

LEMMA EventTyped ==
  ASSUME NEW r \in Row
  PROVE  /\ Event("restored", r) \in EventRow
         /\ r.state \in States => Event(r.state, r) \in EventRow
         /\ \A type : Event(type, r).type = type /\ Event(type, r).row = r
  BY DEF Event, EventRow, EventTypes, States

(* Rows keep their columns matched to their state.                         *)
LEMMA RowKept ==
  ASSUME TypeOK, NEW a \in Assets, AssetInv(a), StepOf(a)
  PROVE  /\ row'[a] \in Row /\ events'[a] \in Seq(EventRow)
         /\ ColumnsMatch(row'[a]) /\ DelayMatches(a)'
<1>0. row[a] \in Row /\ events[a] \in Seq(EventRow)
  BY DEF TypeOK
<1>a. ColumnsMatch(row[a]) /\ DelayMatches(a)
  BY DEF AssetInv
<1>1. CASE Quiet(a)
  BY <1>0, <1>1, <1>a DEF Quiet, DelayMatches
<1>2. CASE Restores(a)
  BY <1>0, <1>2, <1>a, EventTyped, Appended DEF Restores, DelayMatches
<1>3. ASSUME NEW r \in Row, Moves(a, r)
      PROVE  /\ row'[a] \in Row /\ events'[a] \in Seq(EventRow)
             /\ ColumnsMatch(row'[a]) /\ DelayMatches(a)'
  <2>1. row'[a] = r /\ events'[a] \in Seq(EventRow)
    BY <1>0, <1>3, EventTyped, Appended DEF Moves
  <2>2. Change(a, r)
    BY <1>3 DEF Moves
  <2>3. ColumnsMatch(r)
    <3>1. r.state = "failed" => r.nextAt # Never
      <4>1. CASE Fails(a, r)
        BY <4>1, DelayBounded DEF Fails, Times, Never, Row
      <4>2. QED
        BY <2>2, <4>1 DEF Change, Waits, Cancels, Claims, Uploads
    <3>2. QED
      BY <1>0, <1>a, <2>2, <3>1
      DEF ColumnsMatch, Change, Waits, Cancels, Claims, Uploads, Fails, SameCounts, Times,
          Never, Row
  <2>4. r.state = "failed" => r.nextAt = r.updatedAt + DelayForAttempt(r.attempts)
    BY <2>2 DEF Change, Waits, Cancels, Claims, Uploads, Fails
  <2>5. QED
    BY <2>1, <2>3, <2>4 DEF DelayMatches
<1>4. QED
  BY <1>1, <1>2, <1>3 DEF StepOf

(* The last event of a row with a past holds the row.                      *)
LEMMA LastEvent ==
  ASSUME TypeOK, NEW a \in Assets, AssetInv(a)
  PROVE  /\ row[a] \in Row /\ events[a] \in Seq(EventRow) /\ Len(events[a]) \in Nat
         /\ DOMAIN events[a] = 1..Len(events[a])
         /\ Exists(a) <=> Len(events[a]) > 0
         /\ Exists(a) => events[a][Len(events[a])].row = row[a]
<1>1. row[a] \in Row /\ events[a] \in Seq(EventRow)
  BY DEF TypeOK
<1>2. QED
  BY <1>1 DEF AssetInv, EventsReplay

(* The events go on replaying to the row.                                  *)
LEMMA ReplayKept ==
  ASSUME TypeOK, NEW a \in Assets, AssetInv(a), StepOf(a)
  PROVE  EventsReplay(a)' /\ LastTold(a)'
<1> DEFINE n == Len(events[a])
           Goal == EventsReplay(a)' /\ LastTold(a)'
<1>0. EventsReplay(a) /\ LastTold(a)
  BY DEF AssetInv
<1>1. CASE Quiet(a)
  BY <1>0, <1>1 DEF Quiet, EventsReplay, LastTold, Exists
<1>2. ASSUME NEW e \in EventRow, events'[a] = Append(events[a], e), e.row = row'[a],
             row'[a].state # "absent",
             e.type = row'[a].state \/ (e.type = "restored" /\ row'[a].state = "backedUp"),
             Exists(a) => Follows(events[a][n], e)
      PROVE  Goal
  <2>1. /\ n \in Nat /\ Len(events'[a]) = n + 1 /\ DOMAIN events'[a] = 1..(n + 1)
        /\ events'[a][n + 1] = e
        /\ \A i \in 1..n : events'[a][i] = events[a][i]
        /\ events'[a] \in Seq(EventRow)
    BY <1>2, LastEvent, Appended
  <2>2. ASSUME NEW i \in DOMAIN events'[a], i > 1
        PROVE  Follows(events'[a][i - 1], events'[a][i])
    <3>1. CASE i = n + 1
      BY <1>2, <2>1, <2>2, <3>1, LastEvent
    <3>2. CASE i # n + 1
      <4>1. i \in 1..n /\ i - 1 \in 1..n
        BY <2>1, <2>2, <3>2
      <4>2. i \in DOMAIN events[a]
        BY <4>1, LastEvent
      <4>3. QED
        BY <1>0, <2>1, <2>2, <4>1, <4>2 DEF EventsReplay
    <3>3. QED
      BY <3>1, <3>2
  <2>3. events'[a] # <<>> /\ events'[a][Len(events'[a])] = e
    BY <2>1
  <2>4. EventsReplay(a)'
    BY <1>2, <2>2, <2>3 DEF EventsReplay, Exists
  <2>5. LastTold(a)'
    BY <1>2, <2>3 DEF LastTold, Exists
  <2>6. QED
    BY <2>4, <2>5
<1>3. CASE Restores(a)
  <2> DEFINE e == Event("restored", row[a])
  <2>1. e \in EventRow /\ e.row = row[a] /\ e.type = "restored"
    BY EventTyped, LastEvent
  <2>2. events'[a] = Append(events[a], e) /\ row'[a] = row[a] /\ row[a].state = "backedUp"
    BY <1>3 DEF Restores
  <2> HIDE DEF e
  <2>3. Exists(a) => Follows(events[a][n], e)
    BY <2>1, LastEvent DEF Follows
  <2>4. QED
    BY <1>2, <2>1, <2>2, <2>3
<1>4. ASSUME NEW r \in Row, Moves(a, r)
      PROVE  Goal
  <2> DEFINE e == Event(r.state, r)
  <2>1. /\ r.state \in States /\ row'[a] = r /\ events'[a] = Append(events[a], e)
        /\ r.revision = row[a].revision + 1 /\ Change(a, r)
    BY <1>4 DEF Moves
  <2>2. e \in EventRow /\ e.row = r /\ e.type = r.state /\ r.state # "absent"
        /\ r.state # "restored"
    BY <2>1, EventTyped DEF States
  <2> HIDE DEF e
  <2>3. r.attempts = row[a].attempts + IF r.state = "uploading" THEN 1 ELSE 0
    BY <2>1, LastEvent
    DEF Change, Waits, Cancels, Claims, Uploads, Fails, SameCounts, Row
  <2>4. Exists(a) => Follows(events[a][n], e)
    BY <2>1, <2>2, <2>3, LastEvent DEF Follows
  <2>5. QED
    BY <1>2, <2>1, <2>2, <2>4
<1>5. QED
  BY <1>1, <1>3, <1>4 DEF StepOf

(* What is in the receipts stays in them.                                  *)
LEMMA ReceiptStays ==
  ASSUME receipts \subseteq receipts', NEW type, NEW a, NEW i, HasReceipt(type, a, i)
  PROVE  Left(type, a, i)
  BY DEF HasReceipt, Left

(* Back-off, cancellations and their receipts, in a log that grows by one. *)
LEMMA LogKept ==
  ASSUME TypeOK, NEW a \in Assets, AssetInv(a), StepOf(a), receipts \subseteq receipts'
  PROVE  BackoffObserved(a)' /\ StaysCancelled(a)' /\ CommandedByReceipt(a)'
<1> DEFINE n == Len(events[a])
           Goal == BackoffObserved(a)' /\ StaysCancelled(a)' /\ CommandedByReceipt(a)'
           WaitedOut(e) ==
              events[a][n].type = "failed" /\ e.type = "uploading" =>
                 e.row.updatedAt >= row[a].updatedAt + DelayForAttempt(row[a].attempts)
           Wanted(e) ==
              /\ events[a][n].type = "cancelled" => Left("retry", a, n + 1)
              /\ e.type = "cancelled" => Left("cancel", a, n + 1)
              /\ e.type = "restored" => Left("restore", a, n + 1)
<1>0. BackoffObserved(a) /\ StaysCancelled(a) /\ CommandedByReceipt(a)
  BY DEF AssetInv
<1>1. CASE Quiet(a)
  <2>1. events'[a] = events[a]
    BY <1>1 DEF Quiet
  <2>2. \A type, i : HasReceipt(type, a, i) => HasReceipt(type, a, i)'
    BY DEF HasReceipt
  <2>3. BackoffObserved(a)'
    BY <1>0, <2>1 DEF BackoffObserved
  <2>4. StaysCancelled(a)'
    BY <1>0, <2>1, <2>2 DEF StaysCancelled
  <2>5. CommandedByReceipt(a)'
    BY <1>0, <2>1, <2>2 DEF CommandedByReceipt
  <2>6. QED
    BY <2>3, <2>4, <2>5
<1>2. ASSUME NEW e \in EventRow, events'[a] = Append(events[a], e),
             n > 0 => WaitedOut(e), n > 0 => Wanted(e),
             e.type \in {"cancelled", "restored"} => n > 0
      PROVE  Goal
  <2>1. /\ n \in Nat /\ DOMAIN events'[a] = 1..(n + 1) /\ events'[a][n + 1] = e
        /\ \A i \in 1..n : events'[a][i] = events[a][i]
        /\ DOMAIN events[a] = 1..n /\ (n > 0 => events[a][n].row = row[a])
    BY <1>2, LastEvent, Appended
  <2>2. ASSUME NEW i \in 1..n
        PROVE  /\ i \in DOMAIN events[a] /\ events'[a][i] = events[a][i]
               /\ i > 1 => i - 1 \in 1..n /\ events'[a][i - 1] = events[a][i - 1]
    BY <2>1
  <2>3. n > 0 => n + 1 - 1 = n /\ events'[a][n] = events[a][n]
    BY <2>1
  <2>4. BackoffObserved(a)'
    <3>1. ASSUME NEW i \in DOMAIN events'[a], i > 1,
                 events'[a][i].type = "uploading", events'[a][i - 1].type = "failed"
          PROVE  events'[a][i].row.updatedAt >= events'[a][i - 1].row.updatedAt
                    + DelayForAttempt(events'[a][i - 1].row.attempts)
      <4>1. CASE i = n + 1
        BY <1>2, <2>1, <2>3, <3>1, <4>1
      <4>2. CASE i # n + 1
        BY <1>0, <2>1, <2>2, <3>1, <4>2 DEF BackoffObserved
      <4>3. QED
        BY <4>1, <4>2
    <3>2. QED
      BY <3>1 DEF BackoffObserved
  <2>5. StaysCancelled(a)'
    <3>1. ASSUME NEW i \in DOMAIN events'[a], i > 1, events'[a][i - 1].type = "cancelled"
          PROVE  Left("retry", a, i)
      <4>1. CASE i = n + 1
        BY <1>2, <2>1, <2>3, <3>1, <4>1
      <4>2. CASE i # n + 1
        <5>1. HasReceipt("retry", a, i)
          BY <1>0, <2>1, <2>2, <3>1, <4>2 DEF StaysCancelled
        <5>2. QED
          BY <5>1, ReceiptStays
      <4>3. QED
        BY <4>1, <4>2
    <3>2. QED
      BY <3>1 DEF StaysCancelled, HasReceipt, Left
  <2>6. CommandedByReceipt(a)'
    <3>1. ASSUME NEW i \in DOMAIN events'[a]
          PROVE  /\ events'[a][i].type = "cancelled" => Left("cancel", a, i)
                 /\ events'[a][i].type = "restored" => Left("restore", a, i)
      <4>1. CASE i = n + 1
        BY <1>2, <2>1, <3>1, <4>1
      <4>2. CASE i # n + 1
        BY <1>0, <2>1, <2>2, <3>1, <4>2, ReceiptStays DEF CommandedByReceipt
      <4>3. QED
        BY <4>1, <4>2
    <3>2. QED
      BY <3>1 DEF CommandedByReceipt, HasReceipt, Left
  <2>7. QED
    BY <2>4, <2>5, <2>6
<1>3. CASE Restores(a)
  <2> DEFINE e == Event("restored", row[a])
  <2>1. e \in EventRow /\ e.type = "restored"
    BY EventTyped, LastEvent
  <2>2. events'[a] = Append(events[a], e) /\ row[a].state = "backedUp"
        /\ Left("restore", a, n + 1)
    BY <1>3 DEF Restores
  <2> HIDE DEF e
  <2>3. n > 0 /\ events[a][n].type # "cancelled"
    BY <2>2, LastEvent DEF AssetInv, LastTold, Exists
  <2>4. QED
    BY <1>2, <2>1, <2>2, <2>3
<1>4. ASSUME NEW r \in Row, Moves(a, r)
      PROVE  Goal
  <2> DEFINE e == Event(r.state, r)
  <2>1. r.state \in States /\ events'[a] = Append(events[a], e) /\ Change(a, r)
    BY <1>4 DEF Moves
  <2>2. e \in EventRow /\ e.type = r.state /\ e.row = r /\ r.state # "restored"
    BY <2>1, EventTyped DEF States
  <2> HIDE DEF e
  <2>3. n > 0 => WaitedOut(e)
    <3>1. ASSUME n > 0, events[a][n].type = "failed", r.state = "uploading"
          PROVE  r.updatedAt >= row[a].updatedAt + DelayForAttempt(row[a].attempts)
      <4>1. row[a].state = "failed"
        BY <3>1, LastEvent DEF AssetInv, LastTold
      <4>2. row[a].nextAt <= r.updatedAt
        BY <2>1, <3>1 DEF Change, Waits, Cancels, Claims, Uploads, Fails
      <4>3. /\ row[a].nextAt = row[a].updatedAt + DelayForAttempt(row[a].attempts)
            /\ row[a].nextAt \in Nat /\ r.updatedAt \in Nat
        BY <4>1, LastEvent DEF AssetInv, DelayMatches, Row
      <4>4. QED
        BY <4>2, <4>3
    <3>2. QED
      BY <2>2, <3>1
  <2>4. n > 0 => Wanted(e)
    <3>1. ASSUME n > 0, events[a][n].type = "cancelled"
          PROVE  Left("retry", a, n + 1)
      <4>1. row[a].state = "cancelled"
        BY <3>1, LastEvent DEF AssetInv, LastTold
      <4>2. QED
        BY <2>1, <4>1 DEF Change, Waits, Cancels, Claims, Uploads, Fails
    <3>2. r.state = "cancelled" => Left("cancel", a, n + 1)
      BY <2>1 DEF Change, Waits, Cancels, Claims, Uploads, Fails
    <3>3. QED
      BY <2>2, <3>1, <3>2
  <2>5. r.state = "cancelled" => n > 0
    BY <2>1, LastEvent DEF Change, Waits, Cancels, Claims, Uploads, Fails, Exists
  <2>6. QED
    BY <1>2, <2>1, <2>2, <2>3, <2>4, <2>5
<1>5. QED
  BY <1>1, <1>3, <1>4 DEF StepOf

-------------------------------------------------------------------------------
(***************************************************************************)
(* Receipts.                                                               *)
(***************************************************************************)
CommandTypes == {"queue", "retry", "cancel", "restore"}

(* What a command has done by the time it writes its receipt.              *)
Answered(type, a, expected) ==
    /\ row'[a].state # "absent"
    /\ type = "cancel" => row'[a].state = "cancelled"
    /\ type = "retry" => row'[a].state = "queued"
    /\ type = "restore" =>
          row'[a].remote /\ events'[a][Len(events'[a])].type = "restored"
    /\ type # "queue" => expected \in {row'[a].revision - 1, row'[a].revision}

CommandStep ==
    \E command, key \in Ids, type \in CommandTypes, a \in Assets, expected \in 0..MaxRevision :
        Commit(command, key, type, a, expected) /\ Answered(type, a, expected)

LEMMA CommandOrNone ==
  ASSUME TypeOK, [Next]_vars
  PROVE  CommandStep \/ receipts' = receipts
<1>0. \A a \in Assets : row[a] \in Row /\ events[a] \in Seq(EventRow)
  BY DEF TypeOK
<1>a. /\ {"queue", "retry", "cancel", "restore"} \subseteq CommandTypes
      /\ 0 \in 0..MaxRevision /\ \A expected \in 1..MaxRevision : expected \in 0..MaxRevision
  BY PolicyAssumption DEF CommandTypes
<1>1. ASSUME NEW command \in Ids, NEW key \in Ids, NEW a \in Assets, NEW now \in Times,
             Queue(command, key, a, now)
      PROVE  CommandStep
  <2>1. row'[a].state # "absent"
    <3>1. CASE Exists(a)
      BY <1>1, <3>1 DEF Queue, NoOp, Exists
    <3>2. CASE ~Exists(a)
      BY <1>1, <3>2, SaveWrites, SavedFields, RowWrites DEF Queue
    <3>3. QED
      BY <3>1, <3>2
  <2>2. Answered("queue", a, 0) /\ Commit(command, key, "queue", a, 0)
    BY <1>1, <2>1 DEF Queue, Answered
  <2>3. QED
    BY <1>a, <2>2 DEF CommandStep
<1>2. ASSUME NEW command \in Ids, NEW key \in Ids, NEW a \in Assets, NEW now \in Times,
             NEW expected \in 1..MaxRevision, Retry(command, key, a, expected, now)
      PROVE  CommandStep
  <2>1. row[a].revision = expected /\ expected \in Nat
    BY <1>2 DEF Retry
  <2>2. Answered("retry", a, expected)
    <3>1. CASE Save(a, Waiting(a, now), "queued", now)
      <4>1. row'[a].state = "queued" /\ row'[a].revision = row[a].revision + 1
        BY <3>1, SaveWrites, SavedFields, RowWrites
      <4>2. QED
        BY <2>1, <4>1 DEF Answered
    <3>2. CASE row[a].state = "queued" /\ NoOp
      BY <2>1, <3>2 DEF NoOp, Answered
    <3>3. QED
      BY <1>2, <3>1, <3>2 DEF Retry
  <2>3. Commit(command, key, "retry", a, expected)
    BY <1>2 DEF Retry
  <2>4. QED
    BY <1>a, <2>2, <2>3 DEF CommandStep
<1>3. ASSUME NEW command \in Ids, NEW key \in Ids, NEW a \in Assets, NEW now \in Times,
             NEW expected \in 1..MaxRevision, Cancel(command, key, a, expected, now)
      PROVE  CommandStep
  <2> DEFINE r == [row[a] EXCEPT !.state = "cancelled", !.nextAt = Never]
  <2>1. row[a].revision = expected /\ expected \in Nat
    BY <1>3 DEF Cancel
  <2>2. Answered("cancel", a, expected)
    <3>1. CASE Save(a, r, "cancelled", now)
      <4>1. r \in Row /\ r.state = "cancelled"
        BY <1>0 DEF Row, Never, States
      <4> HIDE DEF r
      <4>2. row'[a].state = "cancelled" /\ row'[a].revision = row[a].revision + 1
        BY <3>1, <4>1, SaveWrites, SavedFields
      <4>3. QED
        BY <2>1, <4>2 DEF Answered
    <3>2. CASE row[a].state = "cancelled" /\ NoOp
      BY <2>1, <3>2 DEF NoOp, Answered
    <3>3. QED
      BY <1>3, <3>1, <3>2 DEF Cancel
  <2>3. Commit(command, key, "cancel", a, expected)
    BY <1>3 DEF Cancel
  <2>4. QED
    BY <1>a, <2>2, <2>3 DEF CommandStep
<1>4. ASSUME NEW command \in Ids, NEW key \in Ids, NEW a \in Assets,
             NEW expected \in 1..MaxRevision, CompleteRestore(command, key, a, expected)
      PROVE  CommandStep
  <2> DEFINE e == Event("restored", row[a])
  <2>1. /\ row' = row /\ row[a].state = "backedUp" /\ row[a].remote
        /\ row[a].revision = expected /\ events'[a] = Append(events[a], e)
    BY <1>4 DEF CompleteRestore, TypeOK
  <2>2. e \in EventRow /\ e.type = "restored"
    BY <1>0, EventTyped
  <2> HIDE DEF e
  <2>3. events'[a][Len(events'[a])].type = "restored"
    BY <1>0, <2>1, <2>2, Appended
  <2>4. Answered("restore", a, expected)
    BY <2>1, <2>3 DEF Answered
  <2>5. Commit(command, key, "restore", a, expected)
    BY <1>4 DEF CompleteRestore
  <2>6. QED
    BY <1>a, <2>4, <2>5 DEF CommandStep
<1>5. CASE \/ \E a \in Assets, now \in Times : Claim(a, now)
           \/ \E a \in Assets, now \in Times, expected \in 1..MaxRevision :
                 MarkBackedUp(a, expected, now) \/ MarkFailed(a, expected, now)
           \/ \E now \in Times : Recover(now)
           \/ UNCHANGED vars
  BY <1>5 DEF Claim, MarkBackedUp, MarkFailed, Recover, vars
<1>6. QED
  BY <1>1, <1>2, <1>3, <1>4, <1>5 DEF Next

(* Receipts are only added.                                                *)
LEMMA ReceiptsGrow ==
  ASSUME TypeOK, [Next]_vars
  PROVE  receipts \subseteq receipts'
<1>1. CommandStep => receipts \subseteq receipts'
  BY DEF CommandStep, Commit
<1>2. QED
  BY <1>1, CommandOrNone

(* The tables keep their types.                                            *)
LEMMA TypesKept ==
  ASSUME TypeOK, [Next]_vars, \A a \in Assets : row'[a] \in Row /\ events'[a] \in Seq(EventRow)
  PROVE  TypeOK'
<1>1. row' = [a \in Assets |-> row'[a]] /\ events' = [a \in Assets |-> events'[a]]
  <2>0. row = [a \in Assets |-> row[a]] /\ events = [a \in Assets |-> events[a]]
    BY DEF TypeOK
  <2>1. ASSUME NEW a \in Assets, NEW r, NEW type, NEW now, Save(a, r, type, now)
        PROVE  row' = [b \in Assets |-> row'[b]] /\ events' = [b \in Assets |-> events'[b]]
    BY <2>0, <2>1 DEF Save
  <2>2. CASE NoOp \/ UNCHANGED vars
    BY <2>0, <2>2 DEF NoOp, vars
  <2>3. CASE \E command, key \in Ids, a \in Assets, expected \in 1..MaxRevision :
                CompleteRestore(command, key, a, expected)
    BY <2>0, <2>3 DEF CompleteRestore
  <2>4. CASE \E now \in Times : Recover(now)
    BY <2>4 DEF Recover
  <2> DEFINE Goal == /\ row' = [b \in Assets |-> row'[b]]
                     /\ events' = [b \in Assets |-> events'[b]]
  <2>5. \A command, key, a, now : Queue(command, key, a, now) /\ a \in Assets => Goal
    BY <2>1, <2>2 DEF Queue
  <2>6. \A command, key, a, expected, now : a \in Assets =>
            (Retry(command, key, a, expected, now) => Goal)
            /\ (Cancel(command, key, a, expected, now) => Goal)
    BY <2>1, <2>2 DEF Retry, Cancel
  <2>7. \A a, now : Claim(a, now) /\ a \in Assets => Goal
    BY <2>1 DEF Claim
  <2>8. \A a, expected, now : a \in Assets =>
            (MarkBackedUp(a, expected, now) => Goal) /\ (MarkFailed(a, expected, now) => Goal)
    BY <2>1 DEF MarkBackedUp, MarkFailed
  <2> HIDE DEF Goal
  <2>9. CASE Next
    BY <2>3, <2>4, <2>5, <2>6, <2>7, <2>8, <2>9 DEF Next, Goal
  <2>10. QED
    BY <2>2, <2>9 DEF Goal
<1>2. ASSUME CommandStep
      PROVE  receipts' \subseteq ReceiptRow /\ IsFiniteSet(receipts')
  <2>1. PICK command \in Ids, key \in Ids, type \in CommandTypes, a \in Assets,
             expected \in 0..MaxRevision : Commit(command, key, type, a, expected)
    BY <1>2 DEF CommandStep
  <2> DEFINE x == Receipt(command, key, type, a, expected)
  <2>2. Cardinality(receipts) \in Nat
    BY FS_CardinalityType DEF TypeOK
  <2>3. command \in Nat /\ key \in Nat /\ expected \in Nat
    BY <2>2, PolicyAssumption DEF Ids
  <2>4. row'[a].revision \in Nat /\ Len(events'[a]) \in Nat
    BY DEF Row
  <2>5. x \in ReceiptRow
    BY <2>3, <2>4 DEF Receipt, ReceiptRow, CommandTypes
  <2> HIDE DEF x
  <2>6. receipts' = receipts \cup {x}
    BY <2>1 DEF Commit, x
  <2>7. IsFiniteSet(receipts')
    BY <2>6, FS_AddElement DEF TypeOK
  <2>8. QED
    BY <2>5, <2>6, <2>7 DEF TypeOK
<1>3. receipts' \subseteq ReceiptRow /\ IsFiniteSet(receipts')
  BY <1>2, CommandOrNone DEF TypeOK
<1>4. QED
  BY <1>1, <1>3 DEF TypeOK

(* An event, once written, stays where it is.                              *)
LEMMA EventsGrow ==
  ASSUME TypeOK, NEW a \in Assets, StepOf(a)
  PROVE  \A i \in DOMAIN events[a] : i \in DOMAIN events'[a] /\ events'[a][i] = events[a][i]
<1>0. events[a] \in Seq(EventRow) /\ row[a] \in Row
  BY DEF TypeOK
<1>1. CASE Quiet(a)
  BY <1>1 DEF Quiet
<1>2. CASE Restores(a)
  BY <1>0, <1>2, EventTyped, Appended DEF Restores
<1>3. CASE \E r \in Row : Moves(a, r)
  BY <1>0, <1>3, EventTyped, Appended DEF Moves
<1>4. QED
  BY <1>1, <1>2, <1>3 DEF StepOf

(* A new receipt tells the truth, the old ones go on telling it.           *)
LEMMA TruthKept ==
  ASSUME TypeOK, TypeOK', [Next]_vars, \A a \in Assets : StepOf(a) /\ EventsReplay(a)',
         \A r \in receipts : TellsTruth(r)
  PROVE  (\A r \in receipts : TellsTruth(r))'
<1>1. ASSUME NEW r \in receipts
      PROVE  TellsTruth(r)'
  <2>1. r.asset \in Assets
    BY DEF TypeOK, ReceiptRow
  <2>2. TellsTruth(r)
    OBVIOUS
  <2>3. r.sequence \in DOMAIN events[r.asset]
    BY <2>2 DEF TellsTruth
  <2>4. /\ r.sequence \in DOMAIN events'[r.asset]
        /\ events'[r.asset][r.sequence] = events[r.asset][r.sequence]
    BY <2>1, <2>3, EventsGrow
  <2>5. QED
    BY <2>2, <2>4 DEF TellsTruth
<1>2. ASSUME NEW command \in Ids, NEW key \in Ids, NEW type \in CommandTypes, NEW a \in Assets,
             NEW expected \in 0..MaxRevision, Answered(type, a, expected),
             NEW x, x = Receipt(command, key, type, a, expected)
      PROVE  TellsTruth(x)'
  <2> DEFINE n == Len(events'[a])
  <2>1. events'[a] \in Seq(EventRow) /\ row'[a] \in Row
    BY DEF TypeOK
  <2>2. events'[a] # <<>> /\ events'[a][n].row = row'[a]
    BY <1>2 DEF EventsReplay, Exists, Answered
  <2>3. n \in DOMAIN events'[a]
    BY <2>1, <2>2
  <2>4. /\ x.type = type /\ x.asset = a /\ x.expected = expected
        /\ x.revision = row'[a].revision /\ x.sequence = n
    BY <1>2 DEF Receipt
  <2>5. QED
    BY <1>2, <2>2, <2>3, <2>4 DEF TellsTruth, Answered
<1>3. CASE receipts' = receipts
  BY <1>1, <1>3
<1>4. CASE CommandStep
  <2>1. PICK command \in Ids, key \in Ids, type \in CommandTypes, a \in Assets,
             expected \in 0..MaxRevision :
                Commit(command, key, type, a, expected) /\ Answered(type, a, expected)
    BY <1>4 DEF CommandStep
  <2>2. receipts' = receipts \cup {Receipt(command, key, type, a, expected)}
    BY <2>1 DEF Commit
  <2>3. ASSUME NEW x \in receipts'
        PROVE  TellsTruth(x)'
    <3>1. CASE x \in receipts
      BY <1>1, <3>1
    <3>2. CASE x = Receipt(command, key, type, a, expected)
      BY <1>2, <2>1, <3>2
    <3>3. QED
      BY <2>2, <3>1, <3>2
  <2>4. QED
    BY <2>3
<1>5. QED
  BY <1>3, <1>4, CommandOrNone

(* No id and no key is on two receipts.                                    *)
LEMMA UniqueKept ==
  ASSUME TypeOK, [Next]_vars,
         \A r1, r2 \in receipts : r1.key = r2.key \/ r1.command = r2.command => r1 = r2
  PROVE  \A r1, r2 \in receipts' : r1.key = r2.key \/ r1.command = r2.command => r1 = r2
<1>1. ASSUME NEW command, NEW key, NEW type, NEW a, NEW expected,
             Commit(command, key, type, a, expected)
      PROVE  \A r1, r2 \in receipts' : r1.key = r2.key \/ r1.command = r2.command => r1 = r2
  <2> DEFINE x == Receipt(command, key, type, a, expected)
  <2>1. x.key = key /\ x.command = command
    BY DEF Receipt
  <2>2. receipts' = receipts \cup {x} /\ ~Known(command, key)
    BY <1>1 DEF Commit
  <2> HIDE DEF x
  <2>3. QED
    BY <2>1, <2>2 DEF Known
<1>2. QED
  BY <1>1, CommandOrNone DEF CommandStep

-------------------------------------------------------------------------------
(***************************************************************************)
(* The inductive invariant and the theorems that follow from it.           *)
(***************************************************************************)
IInv ==
    /\ TypeOK
    /\ \A a \in Assets : AssetInv(a)
    /\ \A r1, r2 \in receipts : r1.key = r2.key \/ r1.command = r2.command => r1 = r2
    /\ \A r \in receipts : TellsTruth(r)

LEMMA InitHolds == Init => IInv
<1> SUFFICES ASSUME Init PROVE IInv
  OBVIOUS
<1>1. TypeOK
  <2>1. AbsentRow \in Row
    BY DEF AbsentRow, Row, Never
  <2>2. <<>> \in Seq(EventRow)
    OBVIOUS
  <2>3. QED
    BY <2>1, <2>2, FS_EmptySet DEF Init, TypeOK
<1>2. ASSUME NEW a \in Assets
      PROVE  AssetInv(a)
  <2>1. /\ row[a].state = "absent" /\ row[a].nextAt = Never /\ ~row[a].remote
        /\ row[a].attempts = 0 /\ events[a] = <<>>
    BY DEF Init, AbsentRow
  <2>2. QED
    BY <2>1
    DEF AssetInv, ColumnsMatch, DelayMatches, EventsReplay, LastTold, BackoffObserved,
        StaysCancelled, CommandedByReceipt, Exists
<1>3. QED
  BY <1>1, <1>2 DEF IInv, Init

LEMMA StepHolds ==
  ASSUME IInv, [Next]_vars
  PROVE  IInv'
<1>0. TypeOK /\ \A a \in Assets : AssetInv(a) /\ StepOf(a)
  BY StepOfAsset DEF IInv
<1>1. TypeOK'
  BY <1>0, RowKept, TypesKept
<1>2. ASSUME NEW a \in Assets
      PROVE  AssetInv(a)'
  <2>1. ColumnsMatch(row'[a]) /\ DelayMatches(a)'
    BY <1>0, RowKept
  <2>2. EventsReplay(a)' /\ LastTold(a)'
    BY <1>0, ReplayKept
  <2>3. BackoffObserved(a)' /\ StaysCancelled(a)' /\ CommandedByReceipt(a)'
    BY <1>0, LogKept, ReceiptsGrow
  <2>4. QED
    BY <2>1, <2>2, <2>3 DEF AssetInv
<1>3. \A r1, r2 \in receipts' : r1.key = r2.key \/ r1.command = r2.command => r1 = r2
  BY <1>0, UniqueKept DEF IInv
<1>4. \A a \in Assets : StepOf(a) /\ EventsReplay(a)'
  BY <1>0, <1>2 DEF AssetInv
<1>5. (\A r \in receipts : TellsTruth(r))'
  BY <1>0, <1>1, <1>4, TruthKept DEF IInv
<1>6. QED
  BY <1>1, <1>2, <1>3, <1>5 DEF IInv

(* The invariant holds of every behaviour.                                 *)
THEOREM Inductive == Spec => []IInv
<1>1. IInv /\ [Next]_vars => IInv'
  BY StepHolds
<1>2. QED
  BY <1>1, InitHolds, PTL DEF Spec

(* The tables hold rows of their declared types.                           *)
THEOREM TypeCorrect == Spec => []TypeOK
<1>1. IInv => TypeOK
  BY DEF IInv
<1>2. QED
  BY <1>1, Inductive, PTL

(* A waiting row has a time, a remote identity means backed up: get, claim *)
(* and find_latest_backed_up_by_sha256 can trust the columns they read.    *)
THEOREM ColumnsSafe == Spec => []ColumnsMatchState
<1>1. IInv => ColumnsMatchState
  BY DEF IInv, AssetInv, ColumnsMatchState
<1>2. QED
  BY <1>1, Inductive, PTL

(* backup_events replays to asset_backups, for every asset.                *)
THEOREM EventsSafe == Spec => []EventsReplayToRow
<1>1. IInv => EventsReplayToRow
  BY DEF IInv, AssetInv, EventsReplayToRow
<1>2. QED
  BY <1>1, Inductive, PTL

(* claim_next waits out the delay that mark_failed has set.                *)
THEOREM BackoffSafe == Spec => []BackoffRespected
<1>1. IInv => BackoffRespected
  BY DEF IInv, AssetInv, BackoffRespected
<1>2. QED
  BY <1>1, Inductive, PTL

(* Neither claim_next nor recovery takes up what a user has cancelled.     *)
THEOREM CancelSafe == Spec => []CancelSticks
<1>1. IInv => CancelSticks
  BY DEF IInv, AssetInv, CancelSticks
<1>2. QED
  BY <1>1, Inductive, PTL

(* Receipts are unique, tell the truth, and cover every cancellation and   *)
(* restore that is in the log.                                             *)
THEOREM ReceiptsSafe == Spec => []ReceiptsMatchEvents
<1>1. IInv => ReceiptsMatchEvents
  BY DEF IInv, AssetInv, ReceiptsMatchEvents
<1>2. QED
  BY <1>1, Inductive, PTL

(* No operation writes a backed up row, an event or a receipt again.       *)
THEOREM SettledSafe == Spec => SettledStays
<1> DEFINE Settled ==
      /\ \A a \in Assets :
            /\ row[a].state = "backedUp" => UNCHANGED row[a]
            /\ \A i \in DOMAIN events[a] :
                  i \in DOMAIN events'[a] /\ events'[a][i] = events[a][i]
      /\ receipts \subseteq receipts'
<1>1. TypeOK /\ [Next]_vars => Settled
  <2> SUFFICES ASSUME TypeOK, [Next]_vars PROVE Settled
    OBVIOUS
  <2>1. ASSUME NEW a \in Assets, row[a].state = "backedUp"
        PROVE  row'[a] = row[a]
    BY <2>1, StepOfAsset
    DEF StepOf, Quiet, Restores, Moves, Change, Waits, Cancels, Claims, Uploads, Fails
  <2>2. \A a \in Assets : \A i \in DOMAIN events[a] :
           i \in DOMAIN events'[a] /\ events'[a][i] = events[a][i]
    BY StepOfAsset, EventsGrow
  <2>3. QED
    BY <2>1, <2>2, ReceiptsGrow
<1>2. TypeOK /\ [Next]_vars => [Settled]_vars
  BY <1>1
<1>3. QED
  BY <1>2, TypeCorrect, PTL DEF Spec, SettledStays

-------------------------------------------------------------------------------
(***************************************************************************)
(* The outbox implements the backup ledger.                                *)
(***************************************************************************)
LEMMA ViewFields ==
  ASSUME TypeOK, NEW a \in Assets
  PROVE  /\ row[a] \in Row /\ Backups[a].state = row[a].state
         /\ Backups[a].revision = row[a].revision
         /\ Ledger!Exists(a) <=> Exists(a)
  BY DEF TypeOK, Backups, Ledger!Exists, Exists

(* A save of a row is a change of its entry.                               *)
LEMMA ViewBecomes ==
  ASSUME TypeOK, NEW a \in Assets, NEW r \in Row, NEW now \in Times, NEW type,
         Save(a, r, type, now)
  PROVE  Ledger!Become(a, r.state)
<1> DEFINE entry == [state |-> r.state, revision |-> row[a].revision + 1]
<1>1. row' = [row EXCEPT ![a] = Saved(a, r, now)] /\ row \in [Assets -> Row]
  BY DEF Save, TypeOK
<1>2. [state |-> row'[a].state, revision |-> row'[a].revision] = entry
  BY <1>1, SavedFields
<1>3. Backups' = [Backups EXCEPT ![a] = entry]
  BY <1>1, <1>2 DEF Backups
<1>4. [state |-> r.state, revision |-> Backups[a].revision + 1] = entry
  BY ViewFields
<1>5. QED
  BY <1>3, <1>4 DEF Ledger!Become, Backups

LEMMA StepMaps ==
  ASSUME TypeOK, [Next]_vars
  PROVE  [Ledger!Next]_Backups
<1>0. \A a \in Assets : row[a] \in Row
  BY DEF TypeOK
<1>a. NoOp => UNCHANGED Backups
  BY DEF NoOp, Backups
<1>1. ASSUME NEW command \in Ids, NEW key \in Ids, NEW a \in Assets, NEW now \in Times,
             Queue(command, key, a, now)
      PROVE  Ledger!Next \/ UNCHANGED Backups
  <2>1. CASE ~Exists(a)
    <3>1. Ledger!Become(a, "queued")
      BY <1>1, <2>1, RowWrites, ViewBecomes DEF Queue
    <3>2. Ledger!Queue(a)
      BY <2>1, <3>1, ViewFields DEF Ledger!Queue
    <3>3. QED
      BY <3>2 DEF Ledger!Next
  <2>2. QED
    BY <1>a, <1>1, <2>1 DEF Queue
<1>2. ASSUME NEW command \in Ids, NEW key \in Ids, NEW a \in Assets, NEW now \in Times,
             NEW expected \in 1..MaxRevision, Retry(command, key, a, expected, now)
      PROVE  Ledger!Next \/ UNCHANGED Backups
  <2>1. CASE row[a].state \in {"failed", "cancelled"} /\ Save(a, Waiting(a, now), "queued", now)
    <3>1. Ledger!Become(a, "queued")
      BY <2>1, RowWrites, ViewBecomes
    <3>2. Ledger!Retry(a)
      BY <2>1, <3>1, ViewFields DEF Ledger!Retry
    <3>3. QED
      BY <3>2 DEF Ledger!Next
  <2>2. QED
    BY <1>a, <1>2, <2>1 DEF Retry
<1>3. ASSUME NEW command \in Ids, NEW key \in Ids, NEW a \in Assets, NEW now \in Times,
             NEW expected \in 1..MaxRevision, Cancel(command, key, a, expected, now)
      PROVE  Ledger!Next \/ UNCHANGED Backups
  <2> DEFINE r == [row[a] EXCEPT !.state = "cancelled", !.nextAt = Never]
  <2>1. r \in Row /\ r.state = "cancelled"
    BY <1>0 DEF Row, Never, States
  <2>2. CASE row[a].state \in {"queued", "uploading", "failed"} /\ Save(a, r, "cancelled", now)
    <3> HIDE DEF r
    <3>1. Ledger!Become(a, "cancelled")
      BY <2>1, <2>2, ViewBecomes
    <3>2. Ledger!Cancel(a)
      BY <2>2, <3>1, ViewFields DEF Ledger!Cancel
    <3>3. QED
      BY <3>2 DEF Ledger!Next
  <2>3. QED
    BY <1>a, <1>3, <2>2 DEF Cancel
<1>4. ASSUME NEW a \in Assets, NEW now \in Times, Claim(a, now)
      PROVE  Ledger!Next
  <2> DEFINE r == [row[a] EXCEPT !.state = "uploading", !.attempts = @ + 1, !.nextAt = Never]
  <2>1. r \in Row /\ r.state = "uploading"
    <3>1. row[a] \in Row /\ row[a].attempts + 1 \in Nat
      BY <1>0 DEF Row
    <3>2. QED
      BY <3>1 DEF Row, Never, States
  <2>2. Save(a, r, "uploading", now)
    BY <1>4 DEF Claim
  <2> HIDE DEF r
  <2>3. Ledger!Become(a, "uploading")
    BY <2>1, <2>2, ViewBecomes
  <2>4. Ledger!Claim(a)
    BY <1>4, <2>3, ViewFields DEF Claim, Due, Ledger!Claim
  <2>5. QED
    BY <2>4 DEF Ledger!Next
<1>5. ASSUME NEW a \in Assets, NEW now \in Times, NEW expected \in 1..MaxRevision,
             MarkBackedUp(a, expected, now)
      PROVE  Ledger!Next
  <2> DEFINE r == [row[a] EXCEPT !.state = "backedUp", !.nextAt = Never, !.remote = TRUE]
  <2>1. r \in Row /\ r.state = "backedUp"
    BY <1>0 DEF Row, Never, States
  <2>2. Save(a, r, "backedUp", now)
    BY <1>5 DEF MarkBackedUp
  <2> HIDE DEF r
  <2>3. Ledger!Become(a, "backedUp")
    BY <2>1, <2>2, ViewBecomes
  <2>4. Ledger!MarkBackedUp(a, Backups[a].revision)
    BY <1>5, <2>3, ViewFields DEF MarkBackedUp, Owns, Ledger!MarkBackedUp, Ledger!Owns
  <2>5. QED
    BY <2>4 DEF Ledger!Next
<1>6. ASSUME NEW a \in Assets, NEW now \in Times, NEW expected \in 1..MaxRevision,
             MarkFailed(a, expected, now)
      PROVE  Ledger!Next
  <2> DEFINE delay == DelayForAttempt(row[a].attempts)
             r == [row[a] EXCEPT !.state = "failed", !.nextAt = now + delay]
  <2>1. now + delay \in Nat
    BY <1>0, DelayBounded DEF Row, Times
  <2>2. Save(a, r, "failed", now)
    BY <1>6 DEF MarkFailed
  <2>3. r \in Row /\ r.state = "failed"
    <3> HIDE DEF delay
    <3>1. QED
      BY <1>0, <2>1 DEF Row, States
  <2> HIDE DEF r
  <2>4. Ledger!Become(a, "failed")
    BY <2>2, <2>3, ViewBecomes
  <2>5. Ledger!MarkFailed(a, Backups[a].revision)
    BY <1>6, <2>4, ViewFields DEF MarkFailed, Owns, Ledger!MarkFailed, Ledger!Owns
  <2>6. QED
    BY <2>5 DEF Ledger!Next
<1>7. ASSUME NEW now \in Times, Recover(now)
      PROVE  Ledger!Next
  <2>1. ASSUME NEW a \in Assets
        PROVE  [state |-> row'[a].state, revision |-> row'[a].revision]
                  = Ledger!RecoveredEntry(a)
    <3>1. CASE a \in Uploading
      <4>1. row'[a] = Saved(a, Waiting(a, now), now)
        BY <1>7, <3>1 DEF Recover, Recovered
      <4>2. row'[a].state = "queued" /\ row'[a].revision = row[a].revision + 1
        BY <4>1, SavedFields, RowWrites
      <4>3. QED
        BY <3>1, <4>2, ViewFields DEF Ledger!RecoveredEntry, Uploading
    <3>2. CASE a \notin Uploading
      <4>1. row'[a] = row[a] /\ row[a].state # "uploading"
        BY <1>7, <3>2 DEF Recover, Uploading
      <4>2. QED
        BY <4>1, ViewFields DEF Ledger!RecoveredEntry, Backups
    <3>3. QED
      BY <3>1, <3>2
  <2>2. Ledger!Recover
    BY <2>1 DEF Ledger!Recover, Backups
  <2>3. QED
    BY <2>2 DEF Ledger!Next
<1>8. CASE \/ \E command, key \in Ids, a \in Assets, expected \in 1..MaxRevision :
                 CompleteRestore(command, key, a, expected)
           \/ UNCHANGED vars
  BY <1>8 DEF CompleteRestore, vars, Backups
<1>9. QED
  BY <1>1, <1>2, <1>3, <1>4, <1>5, <1>6, <1>7, <1>8 DEF Next

(* For any assets and retry policy the outbox is a backup ledger: what     *)
(* BackupWorker is shown of the ledger holds over these tables.            *)
THEOREM Implements == Spec => ImplementsLedger
<1>1. Init => Ledger!Init
  BY DEF Init, Ledger!Init, Backups, AbsentRow
<1>2. TypeOK /\ [Next]_vars => [Ledger!Next]_Backups
  BY StepMaps
<1>3. QED
  BY <1>1, <1>2, TypeCorrect, PTL DEF Spec, ImplementsLedger, Ledger!Spec
===============================================================================
