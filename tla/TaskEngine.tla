------------------------------ MODULE TaskEngine ------------------------------
(***************************************************************************)
(* The durable background-task engine, src-tauri/src/task_engine.rs: its   *)
(* SQLite tables, and one action per operation that writes them.  Every    *)
(* operation is one IMMEDIATE transaction under the connection mutex, so   *)
(* one action; an operation that returns an error rolls back and changes   *)
(* nothing, so it is the action's missing guard and not a step.            *)
(*                                                                         *)
(* The tables:                                                             *)
(*   task      tasks and task_dependencies                                 *)
(*   attempts  task_attempts: attempts[t][n] is the status of attempt n    *)
(*   history   task_state_history                                          *)
(*   events    task_events, whose payload is the row as it was saved       *)
(*   receipts  task_command_receipts                                       *)
(* The AUTOINCREMENT sequence of history and events is kept per task: the  *)
(* order of two tasks' rows relative to each other is not modelled.        *)
(* Input, output and error payloads, timestamps other than the creation    *)
(* order, and trace ids are left out.                                      *)
(***************************************************************************)
EXTENDS TaskConstants, Sequences, FiniteSets

CONSTANTS
    MaxProgress,  \* stands for 100 percent
    MaxRevision,  \* bound: no task is saved more often than this
    MaxCommands,  \* bound: receipts, hence committed commands
    Payloads      \* the create payloads clients send, without dependencies

PayloadType == [kind : STRING, policy : Policies, priority : 1..4, budget : 1..MaxBudget]

Kinds == {p.kind : p \in Payloads}

ASSUME ConstantsAssumption ==
    /\ MaxProgress \in Nat \ {0}
    /\ MaxRevision \in Nat /\ MaxCommands \in Nat
    /\ Payloads \subseteq PayloadType

VARIABLES task, attempts, history, events, receipts

vars == <<task, attempts, history, events, receipts>>

AbsentTask == [status |-> "absent", kind |-> "none", policy |-> "safe", priority |-> 1,
               budget |-> 1, deps |-> {}, progress |-> 0, attempt |-> 0,
               revision |-> 0, createdAt |-> 0]

Init ==
    /\ task = [t \in Tasks |-> AbsentTask]
    /\ attempts = [t \in Tasks |-> <<>>]
    /\ history = [t \in Tasks |-> <<>>]
    /\ events = [t \in Tasks |-> <<>>]
    /\ receipts = {}

Exists(t) == task[t].status # "absent"

Existing == {t \in Tasks : Exists(t)}

-------------------------------------------------------------------------------
(***************************************************************************)
(* Rows.  Saved(t, row) is the row with the next revision, Trail(t, row)   *)
(* the history row for the same change, Event(type, row) the event.        *)
(***************************************************************************)
Saved(t, row) == [row EXCEPT !.revision = task[t].revision + 1]

Trail(t, row) == [from |-> task[t].status, to |-> row.status,
                  revision |-> task[t].revision + 1]

Event(type, row) == [type |-> type, task |-> row]

CanSave(t) == task[t].revision < MaxRevision

(* Mutant: the event is built from the row loaded before the update.       *)
AppendStaleEvent(t, type, row) ==
    /\ CanSave(t)
    /\ task' = [task EXCEPT ![t] = Saved(t, row)]
    /\ events' = [events EXCEPT ![t] = Append(@, Event(type, Saved(t, task[t])))]

AppendEvent(t, type, row) ==
    /\ CanSave(t)
    /\ task' = [task EXCEPT ![t] = Saved(t, row)]
    /\ events' = [events EXCEPT ![t] = Append(@, Event(type, Saved(t, row)))]

AppendHistory(t, row) == history' = [history EXCEPT ![t] = Append(@, Trail(t, row))]

(* A change of status: the row, its history row and its event.             *)
Move(t, row, type) == AppendEvent(t, type, row) /\ AppendHistory(t, row)

(* Closing an attempt row fails, and rolls back, unless the row is open.   *)
CanClose(t) == /\ task[t].attempt \in DOMAIN attempts[t]
               /\ attempts[t][task[t].attempt] = "running"

Closed(t, outcome) == [attempts[t] EXCEPT ![task[t].attempt] = outcome]

CloseAttempt(t, outcome) ==
    /\ CanClose(t)
    /\ attempts' = [attempts EXCEPT ![t] = Closed(t, outcome)]

-------------------------------------------------------------------------------
(***************************************************************************)
(* Commands (execute_command).  A command carries a commandId, an          *)
(* idempotency key and a request, which is what the fingerprint covers.    *)
(* Ids are UUIDs, so every unused id is like every other one: a client     *)
(* names a committed id or the next unused number.  A command whose id or  *)
(* key is on a receipt replays that receipt or is refused, and changes     *)
(* nothing; so does one past its deadline.                                 *)
(***************************************************************************)
Ids == 1..(Cardinality(receipts) + 1)

(* Mutant: only the idempotency key is looked up.                          *)
ReceiptsOfKey(command, key) == {r \in receipts : r.key = key}

ReceiptsOf(command, key) ==
    {r \in receipts : r.key = key \/ r.command = command}

Receipt(command, key, request, t) ==
    [command |-> command, key |-> key, request |-> request, task |-> t,
     revision |-> task[t].revision + 1]

Commit(command, key, request, t) ==
    /\ ReceiptsOf(command, key) = {}
    /\ Cardinality(receipts) < MaxCommands
    /\ receipts' = receipts \cup {Receipt(command, key, request, t)}

CreateRequest(payload, deps) ==
    [type |-> "create", payload |-> payload, deps |-> deps]

TaskRequest(type, t, expected) ==
    [type |-> type, task |-> t, expected |-> expected]

NewTask(payload, deps) ==
    [status |-> "queued", kind |-> payload.kind, policy |-> payload.policy,
     priority |-> payload.priority, budget |-> payload.budget, deps |-> deps,
     progress |-> 0, attempt |-> 0, revision |-> 0,
     createdAt |-> Cardinality(Existing) + 1]

Create(command, key, payload, deps, t) ==
    /\ ~Exists(t)
    /\ \A d \in deps : Exists(d)
    /\ Commit(command, key, CreateRequest(payload, deps), t)
    /\ Move(t, NewTask(payload, deps), "created")
    /\ UNCHANGED attempts

(* Mutant: cancel leaves the attempt row open.                             *)
CancelLeavingRow(command, key, t, expected) ==
    /\ task[t].status \in {"queued", "running", "awaitingApproval"}
    /\ task[t].revision = expected
    /\ Commit(command, key, TaskRequest("cancel", t, expected), t)
    /\ Move(t, [task[t] EXCEPT !.status = "canceled"], "canceled")
    /\ UNCHANGED attempts

Cancel(command, key, t, expected) ==
    /\ task[t].status \in {"queued", "running", "awaitingApproval"}
    /\ task[t].revision = expected
    /\ Commit(command, key, TaskRequest("cancel", t, expected), t)
    /\ Move(t, [task[t] EXCEPT !.status = "canceled"], "canceled")
    /\ IF task[t].status = "running" THEN CloseAttempt(t, "canceled")
                                     ELSE UNCHANGED attempts

(* Mutant: a retry does not look at the attempts left.                     *)
RetryUnbudgeted(command, key, t, expected) ==
    /\ task[t].status \in {"failed", "awaitingApproval"}
    /\ task[t].revision = expected
    /\ Commit(command, key, TaskRequest("retry", t, expected), t)
    /\ Move(t, [task[t] EXCEPT !.status = "queued", !.progress = 0], "retried")
    /\ UNCHANGED attempts

Retry(command, key, t, expected) ==
    /\ task[t].status \in {"failed", "awaitingApproval"}
    /\ task[t].revision = expected
    /\ task[t].attempt < task[t].budget
    /\ Commit(command, key, TaskRequest("retry", t, expected), t)
    /\ Move(t, [task[t] EXCEPT !.status = "queued", !.progress = 0], "retried")
    /\ UNCHANGED attempts

-------------------------------------------------------------------------------
(***************************************************************************)
(* Lifecycle operations, called by the runner's workers.                   *)
(***************************************************************************)
Claimable(t, kinds) ==
    /\ task[t].status = "queued"
    /\ task[t].kind \in kinds
    /\ \A d \in task[t].deps : task[d].status = "succeeded"

(* ORDER BY priority DESC, created_at ASC, id ASC: no two rows share a     *)
(* creation number here, and a tie broken by id is one of the two orders.  *)
Outranks(u, t) ==
    \/ task[u].priority > task[t].priority
    \/ task[u].priority = task[t].priority /\ task[u].createdAt < task[t].createdAt

Claim(t, kinds) ==
    /\ Claimable(t, kinds)
    /\ \A u \in Tasks : Claimable(u, kinds) => ~Outranks(u, t)
    /\ Move(t, [task[t] EXCEPT !.status = "running", !.attempt = @ + 1], "progressed")
    /\ task[t].attempt + 1 \notin DOMAIN attempts[t]   \* UNIQUE(task_id, attempt)
    /\ attempts' = [attempts EXCEPT ![t] = Append(@, "running")]
    /\ UNCHANGED receipts

(* load_running_attempt: the attempt is a fencing token.                   *)
Active(t, attempt) == task[t].status = "running" /\ task[t].attempt = attempt

UpdateProgress(t, attempt, progress) ==
    /\ Active(t, attempt)
    /\ progress > task[t].progress
    /\ AppendEvent(t, "progressed", [task[t] EXCEPT !.progress = progress])
    /\ UNCHANGED <<attempts, history, receipts>>

FinishSuccess(t, attempt) ==
    /\ Active(t, attempt)
    /\ Move(t, [task[t] EXCEPT !.status = "succeeded", !.progress = MaxProgress],
            "succeeded")
    /\ CloseAttempt(t, "succeeded")
    /\ UNCHANGED receipts

(* Mutant: "never" is parked for an operator instead of failing.           *)
AfterFailureParked(t, retryable) ==
    IF ~retryable \/ task[t].attempt >= task[t].budget THEN "failed"
    ELSE IF task[t].policy = "safe" THEN "queued" ELSE "awaitingApproval"

AfterFailure(t, retryable) ==
    IF ~retryable \/ task[t].attempt >= task[t].budget
    THEN "failed"
    ELSE CASE task[t].policy = "safe"   -> "queued"
           [] task[t].policy = "manual" -> "awaitingApproval"
           [] task[t].policy = "never"  -> "failed"

FailureEvent(status) ==
    CASE status = "queued"           -> "recovered"
      [] status = "awaitingApproval" -> "awaitingApproval"
      [] OTHER                       -> "failed"

FinishFailure(t, attempt, retryable) ==
    LET next == AfterFailure(t, retryable) IN
    /\ Active(t, attempt)
    /\ Move(t, [task[t] EXCEPT !.status = next, !.progress = 0], FailureEvent(next))
    /\ CloseAttempt(t, "failed")
    /\ UNCHANGED receipts

(***************************************************************************)
(* recover_interrupted: one transaction over every running row.  It runs   *)
(* when the process has lost its workers: at start and after shutdown.     *)
(***************************************************************************)
Running == {t \in Tasks : task[t].status = "running"}

AfterInterruption(t) ==
    IF task[t].policy = "safe" THEN "queued" ELSE "awaitingApproval"

Recovered(t) == [task[t] EXCEPT !.status = AfterInterruption(t), !.progress = 0]

Recover ==
    /\ Running # {}
    /\ \A t \in Running : CanSave(t) /\ CanClose(t)
    /\ task' = [t \in Tasks |->
                  IF t \in Running THEN Saved(t, Recovered(t)) ELSE task[t]]
    /\ events' = [t \in Tasks |->
                    IF t \in Running
                    THEN Append(events[t], Event("recovered", Saved(t, Recovered(t))))
                    ELSE events[t]]
    /\ history' = [t \in Tasks |->
                     IF t \in Running THEN Append(history[t], Trail(t, Recovered(t)))
                     ELSE history[t]]
    /\ attempts' = [t \in Tasks |->
                      IF t \in Running THEN Closed(t, "interrupted") ELSE attempts[t]]
    /\ UNCHANGED receipts

-------------------------------------------------------------------------------
Next ==
    \/ \E command \in Ids, key \in Ids, t \in Tasks :
          \/ \E payload \in Payloads, deps \in SUBSET Tasks :
                Create(command, key, payload, deps, t)
          \/ \E expected \in 1..MaxRevision :
                Cancel(command, key, t, expected) \/ Retry(command, key, t, expected)
    \/ \E t \in Tasks :
          \/ \E kinds \in SUBSET Kinds : Claim(t, kinds)
          \/ \E attempt \in 1..MaxRevision :
                \/ \E progress \in 1..MaxProgress : UpdateProgress(t, attempt, progress)
                \/ FinishSuccess(t, attempt)
                \/ \E retryable \in BOOLEAN : FinishFailure(t, attempt, retryable)
    \/ Recover

Spec == Init /\ [][Next]_vars

-------------------------------------------------------------------------------
(***************************************************************************)
(* Properties.                                                             *)
(***************************************************************************)
EventTypes == {"created", "canceled", "retried", "progressed", "succeeded",
               "failed", "awaitingApproval", "recovered"}

AttemptStatuses == {"running", "succeeded", "failed", "canceled", "interrupted"}

TaskRow == [status : Statuses \cup {"absent"}, kind : Kinds \cup {"none"}, policy : Policies,
            priority : 1..4, budget : 1..MaxBudget, deps : SUBSET Tasks,
            progress : 0..MaxProgress, attempt : Nat, revision : Nat,
            createdAt : Nat]

HistoryRow == [from : Statuses \cup {"absent"}, to : Statuses, revision : Nat]

EventRow == [type : EventTypes, task : TaskRow]

Request == [type : {"create"}, payload : PayloadType, deps : SUBSET Tasks]
           \cup [type : {"cancel", "retry"}, task : Tasks, expected : Nat]

ReceiptRow == [command : Nat, key : Nat, request : Request, task : Tasks, revision : Nat]

(* The tables hold rows of their declared types.                           *)
TypeOK ==
    /\ task \in [Tasks -> TaskRow]
    /\ attempts \in [Tasks -> Seq(AttemptStatuses)]
    /\ history \in [Tasks -> Seq(HistoryRow)]
    /\ events \in [Tasks -> Seq(EventRow)]
    /\ receipts \subseteq ReceiptRow

(* task_attempts has one row per attempt ever claimed, and an open row     *)
(* exactly while the task is running that attempt: cancel, completion,     *)
(* failure and recovery all close the row they leave behind.               *)
AttemptRowsMatch(t) ==
    /\ Len(attempts[t]) = task[t].attempt
    /\ \A n \in DOMAIN attempts[t] :
          attempts[t][n] = "running" <=> task[t].status = "running" /\ n = task[t].attempt

AttemptRowsMatchTask == \A t \in Tasks : AttemptRowsMatch(t)

(* The events of a task are its revisions 1, 2, ... without gap or         *)
(* repetition, and the last one carries the row as it is stored: a client  *)
(* that applies the events in order ends with the ledger's row.            *)
EventsReplay(t) ==
    /\ Len(events[t]) = task[t].revision
    /\ \A r \in DOMAIN events[t] : events[t][r].task.revision = r
    /\ Exists(t) => events[t][Len(events[t])].task = task[t]

EventsReplayToRow == \A t \in Tasks : EventsReplay(t)

(* task_state_history is the unbroken trail of the task's status: each row *)
(* starts where the one before it ended, the last one ends at the current  *)
(* status, and it records what the event of the same revision shows.       *)
HistoryIsTheTrail ==
    \A t \in Tasks :
        /\ Exists(t) => history[t][Len(history[t])].to = task[t].status
        /\ \A i \in DOMAIN history[t] :
              LET row == history[t][i] IN
              /\ row.from = IF i = 1 THEN "absent" ELSE history[t][i - 1].to
              /\ row.revision \in DOMAIN events[t]
              /\ events[t][row.revision].task.status = row.to
              /\ i > 1 => history[t][i - 1].revision < row.revision

(* Only an interruption lets a task run again beyond maxAttempts: every    *)
(* attempt from maxAttempts on, other than the last, was cut off by the    *)
(* end of its process; failures and operator retries stay in the budget.   *)
OverBudgetInterrupted(t) ==
    \A n \in DOMAIN attempts[t] :
        task[t].budget <= n /\ n < task[t].attempt => attempts[t][n] = "interrupted"

OverBudgetOnlyByInterruption == \A t \in Tasks : OverBudgetInterrupted(t)

(* Work that is not declared safe to replay is queued again only by an     *)
(* approved retry: neither failure nor recovery re-queues it by itself.    *)
RequeuedByOperator(t) ==
    task[t].status = "queued" /\ task[t].attempt > 0 /\ task[t].policy # "safe"
        => events[t][Len(events[t])].type = "retried"

RequeueNeedsOperator == \A t \in Tasks : RequeuedByOperator(t)

(* No execution of a task ever started, or goes on, before everything it   *)
(* depends on has succeeded.                                               *)
DependenciesSucceededFirst ==
    \A t \in Tasks : task[t].attempt > 0 =>
        \A d \in task[t].deps : task[d].status = "succeeded"

(* The claim of a task is announced as Progressed(progress=0), although    *)
(* the claim does not write progress: every way back to the queue does.    *)
ClaimsReportZero(t) ==
    \A r \in DOMAIN events[t] :
        r > 1 /\ events[t][r].task.attempt > events[t][r - 1].task.attempt
            => events[t][r].type = "progressed" /\ events[t][r].task.progress = 0

ClaimReportsZero == \A t \in Tasks : ClaimsReportZero(t)

(* Receipts and the effects of commands correspond one to one: no          *)
(* commandId or idempotency key committed twice, every receipt names a     *)
(* created, canceled or retried event made by its own request against the  *)
(* revision it expected, and there is no such event without a receipt.     *)
CommandEvent(t, r) == events[t][r].type \in {"created", "canceled", "retried"}

CausedBy(receipt) ==
    LET request == receipt.request
        event == events[receipt.task][receipt.revision]
    IN  /\ receipt.revision \in DOMAIN events[receipt.task]
        /\ CASE request.type = "create" -> event.type = "created"
             [] request.type = "cancel" -> event.type = "canceled"
             [] request.type = "retry"  -> event.type = "retried"
        /\ request.type # "create" =>
              request.task = receipt.task /\ request.expected + 1 = receipt.revision

ReceiptsMatchEffects ==
    /\ \A r1, r2 \in receipts :
          r1.key = r2.key \/ r1.command = r2.command => r1 = r2
    /\ \A r \in receipts : CausedBy(r)
    /\ \A t \in Tasks : \A r \in DOMAIN events[t] : CommandEvent(t, r) =>
          \E receipt \in receipts : receipt.task = t /\ receipt.revision = r

(* What is settled stays: a succeeded or canceled task is never written    *)
(* again, a closed attempt row is never reopened or rewritten, and the     *)
(* event log only grows.                                                   *)
SettledStays ==
    [][\A t \in Tasks :
        /\ task[t].status \in {"succeeded", "canceled"} => UNCHANGED task[t]
        /\ \A n \in DOMAIN attempts[t] : attempts[t][n] # "running"
              => n \in DOMAIN attempts'[t] /\ attempts'[t][n] = attempts[t][n]
        /\ \A r \in DOMAIN events[t] :
              r \in DOMAIN events'[t] /\ events'[t][r] = events[t][r]]_vars

(* Every step of the tables is one the task ledger allows, or none.        *)
LedgerEntry(row) ==
    [status |-> row.status, policy |-> row.policy, budget |-> row.budget,
     attempt |-> row.attempt, deps |-> row.deps]

LedgerView == [t \in Tasks |-> LedgerEntry(task[t])]

Ledger == INSTANCE TaskLedger WITH ledger <- LedgerView

ImplementsLedger == Ledger!Spec
===============================================================================
