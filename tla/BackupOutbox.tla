----------------------------- MODULE BackupOutbox -----------------------------
(***************************************************************************)
(* The backup outbox of src-tauri/src/backup_outbox.rs: the rows of        *)
(* asset_backups, the events and the command receipts, with one action per *)
(* operation.  An operation holds the connection and one IMMEDIATE         *)
(* transaction from its first read to its commit; one that returns an      *)
(* error rolls back, so an error is a guard that does not hold.            *)
(*                                                                         *)
(* An operation reads the clock before it takes the lock, the clock may be *)
(* set back, and other processes have theirs: each operation has a time of *)
(* its own, "now", in no order (but after 1970).  An asset's content never *)
(* changes, so neither does its hash, and the remote identity is a flag.   *)
(***************************************************************************)
EXTENDS Naturals, Sequences, FiniteSets

CONSTANTS
    Assets,
    Base, MaxDelay,  \* the retry policy: first and longest delay
    MaxTime,         \* bound: the times the clock shows
    MaxRevision,     \* bound: saves of a row
    MaxCommands      \* bound: receipts, hence committed commands

ASSUME PolicyAssumption ==
    /\ Base \in Nat \ {0} /\ MaxDelay \in Nat /\ Base <= MaxDelay
    /\ MaxTime \in Nat \ {0} /\ MaxRevision \in Nat /\ MaxCommands \in Nat

VARIABLES
    row,        \* asset_backups
    events,     \* backup_events of each asset, in order
    receipts    \* backup_command_receipts

vars == <<row, events, receipts>>

Times == 1..MaxTime

States == {"queued", "uploading", "backedUp", "failed", "cancelled"}

(* No time: next_attempt_at is NULL, which the claim reads as 0.           *)
Never == 0

AbsentRow == [state |-> "absent", attempts |-> 0, nextAt |-> Never,
              remote |-> FALSE, revision |-> 0, updatedAt |-> 0]

Init ==
    /\ row = [a \in Assets |-> AbsentRow]
    /\ events = [a \in Assets |-> <<>>]
    /\ receipts = {}

Exists(a) == row[a].state # "absent"

-------------------------------------------------------------------------------
(***************************************************************************)
(* Rows and events.                                                        *)
(***************************************************************************)
Event(type, r) == [type |-> type, row |-> r]

Saved(a, r, now) == [r EXCEPT !.revision = row[a].revision + 1, !.updatedAt = now]

CanSave(a) == row[a].revision < MaxRevision

(* Every change of a row appends the event that carries the new row.       *)
Save(a, r, type, now) ==
    /\ CanSave(a)
    /\ row' = [row EXCEPT ![a] = Saved(a, r, now)]
    /\ events' = [events EXCEPT ![a] = Append(@, Event(type, Saved(a, r, now)))]

(* delay_for_attempt: doubled with every attempt and clamped; a product    *)
(* too large for 64 bits is larger than any maximum.                       *)
DelayForAttempt(attempts) ==
    LET wanted == Base * 2 ^ (attempts - 1)
    IN  IF wanted \in 0..MaxDelay THEN wanted ELSE MaxDelay

-------------------------------------------------------------------------------
(***************************************************************************)
(* Commands (execute_command, complete_restore).  A command whose id or    *)
(* key is on a receipt replays that receipt or is refused, and changes     *)
(* nothing.  Ids are UUIDs: a client names a used one or a fresh one.      *)
(***************************************************************************)
Ids == 1..(Cardinality(receipts) + 1)

(* Mutant: only the idempotency key is looked up.                          *)
KnownKey(command, key) == \E r \in receipts : r.key = key

Known(command, key) == \E r \in receipts : r.key = key \/ r.command = command

(* The receipt answers with the row and the number of its last event.      *)
Receipt(command, key, type, a, expected) ==
    [command |-> command, key |-> key, type |-> type, asset |-> a, expected |-> expected,
     revision |-> row'[a].revision, sequence |-> Len(events'[a])]

Commit(command, key, type, a, expected) ==
    /\ ~Known(command, key)
    /\ Cardinality(receipts) < MaxCommands
    /\ receipts' = receipts \cup {Receipt(command, key, type, a, expected)}

(* The command finds its work done: a receipt, but no event.               *)
NoOp == UNCHANGED <<row, events>>

(* The row as it is queued, for the first time or again.                   *)
Waiting(a, now) == [row[a] EXCEPT !.state = "queued", !.nextAt = now]

Queue(command, key, a, now) ==
    /\ IF Exists(a) THEN NoOp ELSE Save(a, Waiting(a, now), "queued", now)
    /\ Commit(command, key, "queue", a, 0)

Retry(command, key, a, expected, now) ==
    /\ Exists(a) /\ row[a].revision = expected
    /\ \/ /\ row[a].state \in {"failed", "cancelled"}
          /\ Save(a, Waiting(a, now), "queued", now)
       \/ row[a].state = "queued" /\ NoOp
    /\ Commit(command, key, "retry", a, expected)

Cancel(command, key, a, expected, now) ==
    /\ Exists(a) /\ row[a].revision = expected
    /\ \/ /\ row[a].state \in {"queued", "uploading", "failed"}
          /\ Save(a, [row[a] EXCEPT !.state = "cancelled", !.nextAt = Never], "cancelled", now)
       \/ row[a].state = "cancelled" /\ NoOp
    /\ Commit(command, key, "cancel", a, expected)

(* The second half of a restore: an event, and no change of the row.       *)
CompleteRestore(command, key, a, expected) ==
    /\ row[a].state = "backedUp" /\ row[a].remote /\ row[a].revision = expected
    /\ events' = [events EXCEPT ![a] = Append(@, Event("restored", row[a]))]
    /\ UNCHANGED row
    /\ Commit(command, key, "restore", a, expected)

-------------------------------------------------------------------------------
(***************************************************************************)
(* The upload worker's operations, and recovery.                           *)
(***************************************************************************)
(* Mutant: the claim looks at the time only.                               *)
DueWhatever(a, now) == Exists(a) /\ row[a].nextAt <= now

Due(a, now) == row[a].state \in {"queued", "failed"} /\ row[a].nextAt <= now

(* The row that has been due longest; ties are broken either way.          *)
Claim(a, now) ==
    /\ Due(a, now) /\ \A b \in Assets : Due(b, now) => row[a].nextAt <= row[b].nextAt
    /\ Save(a, [row[a] EXCEPT !.state = "uploading", !.attempts = @ + 1,
                              !.nextAt = Never], "uploading", now)
    /\ UNCHANGED receipts

(* The revision that the claim returned is the token of a report.          *)
Owns(a, expected) == row[a].state = "uploading" /\ row[a].revision = expected

MarkBackedUp(a, expected, now) ==
    /\ Owns(a, expected)
    /\ Save(a, [row[a] EXCEPT !.state = "backedUp", !.nextAt = Never, !.remote = TRUE],
            "backedUp", now)
    /\ UNCHANGED receipts

(* Mutant: a failed upload may be tried again at once.                     *)
MarkFailedDueNow(a, expected, now) ==
    /\ Owns(a, expected)
    /\ Save(a, [row[a] EXCEPT !.state = "failed", !.nextAt = now], "failed", now)
    /\ UNCHANGED receipts

MarkFailed(a, expected, now) ==
    /\ Owns(a, expected) /\ row[a].attempts > 0
    /\ Save(a, [row[a] EXCEPT !.state = "failed",
                              !.nextAt = now + DelayForAttempt(row[a].attempts)], "failed",
            now)
    /\ UNCHANGED receipts

Uploading == {a \in Assets : row[a].state = "uploading"}

(* Mutant: recovery counts the interrupted upload as never made.           *)
RecoveredUncounted(a, now) == Saved(a, [Waiting(a, now) EXCEPT !.attempts = @ - 1], now)

Recovered(a, now) == Saved(a, Waiting(a, now), now)

(* One transaction over all uploading rows, whenever the outbox is opened. *)
Recover(now) ==
    /\ Uploading # {} /\ \A a \in Uploading : CanSave(a)
    /\ row' = [a \in Assets |-> IF a \in Uploading THEN Recovered(a, now) ELSE row[a]]
    /\ events' = [a \in Assets |->
                    IF a \in Uploading
                    THEN Append(events[a], Event("queued", Recovered(a, now)))
                    ELSE events[a]]
    /\ UNCHANGED receipts

-------------------------------------------------------------------------------
Next ==
    \/ \E command, key \in Ids, a \in Assets :
          \/ \E now \in Times :
                \/ Queue(command, key, a, now)
                \/ \E expected \in 1..MaxRevision :
                      \/ Retry(command, key, a, expected, now)
                      \/ Cancel(command, key, a, expected, now)
          \/ \E expected \in 1..MaxRevision : CompleteRestore(command, key, a, expected)
    \/ \E a \in Assets, now \in Times :
          \/ Claim(a, now)
          \/ \E expected \in 1..MaxRevision :
                MarkBackedUp(a, expected, now) \/ MarkFailed(a, expected, now)
    \/ \E now \in Times : Recover(now)

Spec == Init /\ [][Next]_vars

-------------------------------------------------------------------------------
(***************************************************************************)
(* Properties.                                                             *)
(***************************************************************************)
Row == [state : States \cup {"absent"}, attempts : Nat, nextAt : Nat,
        remote : BOOLEAN, revision : Nat, updatedAt : Nat]

EventTypes == {"queued", "uploading", "backedUp", "failed", "cancelled", "restored"}

EventRow == [type : EventTypes, row : Row]

ReceiptRow == [command : Nat, key : Nat, type : {"queue", "retry", "cancel", "restore"},
               asset : Assets, expected : Nat, revision : Nat, sequence : Nat]

(* The tables hold rows of their declared types.                           *)
TypeOK ==
    /\ row \in [Assets -> Row]
    /\ events \in [Assets -> Seq(EventRow)]
    /\ receipts \subseteq ReceiptRow /\ IsFiniteSet(receipts)

(* A row that waits has a time to be tried at, so that the claim's NULL    *)
(* never stands for "at once", and a remote identity means backed up: a    *)
(* row another asset may reuse or restore from, whatever it went through.  *)
ColumnsMatch(r) ==
    /\ r.nextAt # Never <=> r.state \in {"queued", "failed"}
    /\ r.remote <=> r.state = "backedUp"
    /\ r.state \in {"uploading", "backedUp", "failed"} => r.attempts > 0

ColumnsMatchState == \A a \in Assets : ColumnsMatch(row[a])

(* The events of a backup replay to its row: one per revision, restores    *)
(* apart, each with the row it left, counting every upload and forgetting  *)
(* none, also when it was interrupted or cancelled.                        *)
Follows(e, f) ==
    IF f.type = "restored" THEN f.row = e.row
    ELSE /\ f.row.revision = e.row.revision + 1
         /\ f.row.attempts = e.row.attempts + IF f.type = "uploading" THEN 1 ELSE 0

EventsReplay(a) ==
    /\ Exists(a) <=> events[a] # <<>>
    /\ Exists(a) => events[a][Len(events[a])].row = row[a]
    /\ \A i \in DOMAIN events[a] : i > 1 => Follows(events[a][i - 1], events[a][i])

EventsReplayToRow == \A a \in Assets : EventsReplay(a)

(* After a failed upload the next one waits out the delay of its attempt,  *)
(* unless an operator asks for it, and however the clock is set.           *)
BackoffObserved(a) ==
    \A i \in DOMAIN events[a] :
        i > 1 /\ events[a][i].type = "uploading" /\ events[a][i - 1].type = "failed"
            => events[a][i].row.updatedAt >= events[a][i - 1].row.updatedAt
                                             + DelayForAttempt(events[a][i - 1].row.attempts)

BackoffRespected == \A a \in Assets : BackoffObserved(a)

HasReceipt(type, a, i) == \E r \in receipts : r.type = type /\ r.asset = a /\ r.sequence = i

(* What a user cancels stays cancelled until a user retries it: the worker *)
(* and recovery never take it up again by themselves.                      *)
StaysCancelled(a) ==
    \A i \in DOMAIN events[a] :
        i > 1 /\ events[a][i - 1].type = "cancelled" => HasReceipt("retry", a, i)

CancelSticks == \A a \in Assets : StaysCancelled(a)

(* A receipt tells the truth, also one of a command that changed nothing:  *)
(* the event it names carries the revision it answers with, and shows what *)
(* the command asked for.  No id or key is committed twice, and every      *)
(* cancellation and restore in the log has its receipt.                    *)
TellsTruth(r) ==
    LET event == events[r.asset][r.sequence] IN
    /\ r.sequence \in DOMAIN events[r.asset]
    /\ event.row.revision = r.revision
    /\ r.type = "cancel" => event.row.state = "cancelled"
    /\ r.type = "retry" => event.row.state = "queued"
    /\ r.type = "restore" => event.type = "restored" /\ event.row.remote
    /\ r.type # "queue" => r.expected \in {r.revision - 1, r.revision}

CommandedByReceipt(a) ==
    \A i \in DOMAIN events[a] :
        /\ events[a][i].type = "cancelled" => HasReceipt("cancel", a, i)
        /\ events[a][i].type = "restored" => HasReceipt("restore", a, i)

ReceiptsMatchEvents ==
    /\ \A r1, r2 \in receipts : r1.key = r2.key \/ r1.command = r2.command => r1 = r2
    /\ \A r \in receipts : TellsTruth(r)
    /\ \A a \in Assets : CommandedByReceipt(a)

(* What is settled stays: a backed up row is never written again, and      *)
(* events and receipts are only added.                                     *)
SettledStays ==
    [][ /\ \A a \in Assets :
              /\ row[a].state = "backedUp" => UNCHANGED row[a]
              /\ \A i \in DOMAIN events[a] :
                    i \in DOMAIN events'[a] /\ events'[a][i] = events[a][i]
        /\ receipts \subseteq receipts']_vars

(* Every step of the tables is one the backup ledger allows, or none.      *)
Backups == [a \in Assets |-> [state |-> row[a].state, revision |-> row[a].revision]]

Ledger == INSTANCE BackupLedger WITH backup <- Backups

ImplementsLedger == Ledger!Spec
===============================================================================
