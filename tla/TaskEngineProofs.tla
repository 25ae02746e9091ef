---------------------------- MODULE TaskEngineProofs ---------------------------
(***************************************************************************)
(* The types of TaskEngine's tables, and the refinement: the tables of     *)
(* task_engine.rs implement the task ledger.  Both for any tasks, payloads *)
(* and bounds.  The safety properties follow.                              *)
(***************************************************************************)
EXTENDS TaskEngine, FiniteSetTheorems, TLAPS

(***************************************************************************)
(* Types.  Numbers of rows are numbers because the tables are finite.      *)
(***************************************************************************)
FiniteTables == IsFiniteSet(receipts) /\ IsFiniteSet(Existing)

TInv == TypeOK /\ FiniteTables

(* A row that is saved, with the revision update_task gives it, is a row   *)
(* of the tasks table.                                                     *)
LEMMA SavedType ==
  ASSUME TypeOK, NEW t \in Tasks, NEW row \in TaskRow
  PROVE  Saved(t, row) \in TaskRow
<1>1. task[t].revision + 1 \in Nat
  BY DEF TypeOK, TaskRow
<1>2. QED
  BY <1>1 DEF TaskRow, Saved

(* The row, the history row and the event that one change of status writes *)
(* have the types of their tables.                                         *)
LEMMA MoveType ==
  ASSUME TypeOK, NEW t \in Tasks, NEW row \in TaskRow, row.status \in Statuses,
         NEW type \in EventTypes, Move(t, row, type)
  PROVE  /\ task' \in [Tasks -> TaskRow]
         /\ events' \in [Tasks -> Seq(EventRow)]
         /\ history' \in [Tasks -> Seq(HistoryRow)]
<1>1. Saved(t, row) \in TaskRow
  BY SavedType
<1>2. Event(type, Saved(t, row)) \in EventRow
  BY <1>1 DEF Event, EventRow
<1>3. Trail(t, row) \in HistoryRow
  BY DEF Trail, HistoryRow, TypeOK, TaskRow
<1>4. task' \in [Tasks -> TaskRow]
  BY <1>1 DEF Move, AppendEvent, TypeOK
<1>5. events' \in [Tasks -> Seq(EventRow)]
  BY <1>2 DEF Move, AppendEvent, TypeOK
<1>6. history' \in [Tasks -> Seq(HistoryRow)]
  BY <1>3 DEF Move, AppendHistory, TypeOK
<1>7. QED
  BY <1>4, <1>5, <1>6

(* close_attempt leaves the attempt rows of the task with declared         *)
(* statuses.                                                               *)
LEMMA ClosedType ==
  ASSUME TypeOK, NEW t \in Tasks, CanClose(t), NEW outcome \in AttemptStatuses
  PROVE  Closed(t, outcome) \in Seq(AttemptStatuses)
  BY DEF TypeOK, CanClose, Closed

(* The receipt a command commits has its type, and receipts stay finitely  *)
(* many.                                                                   *)
LEMMA CommitType ==
  ASSUME TInv, NEW t \in Tasks, NEW command \in Ids, NEW key \in Ids,
         NEW request \in Request, Commit(command, key, request, t)
  PROVE  receipts' \subseteq ReceiptRow /\ IsFiniteSet(receipts')
<1>1. Cardinality(receipts) \in Nat
  BY FS_CardinalityType DEF TInv, FiniteTables
<1>2. Receipt(command, key, request, t) \in ReceiptRow
  BY <1>1 DEF Receipt, ReceiptRow, Ids, TInv, TypeOK, TaskRow
<1>3. QED
  BY <1>2, FS_AddElement DEF Commit, TInv, TypeOK, FiniteTables

(***************************************************************************)
(* The rows the operations write.                                          *)
(***************************************************************************)
LEMMA CreateWrites ==
  ASSUME TInv, NEW payload \in Payloads, NEW deps \in SUBSET Tasks
  PROVE  NewTask(payload, deps) \in TaskRow
<1>1. Cardinality(Existing) \in Nat
  BY FS_CardinalityType DEF TInv, FiniteTables
<1>2. payload \in PayloadType /\ payload.kind \in Kinds
  BY ConstantsAssumption DEF Kinds
<1>3. QED
  BY <1>1, <1>2, ConstantsAssumption
     DEF NewTask, TaskRow, PayloadType, Statuses

(* A failed execution leaves its task queued, failed or awaiting approval, *)
(* and queued only a safe task with attempts left.                         *)
LEMMA AfterFailureType ==
  ASSUME TypeOK, NEW t \in Tasks, NEW retryable \in BOOLEAN
  PROVE  /\ AfterFailure(t, retryable) \in {"queued", "failed", "awaitingApproval"}
         /\ AfterFailure(t, retryable) = "queued" =>
               task[t].policy = "safe" /\ task[t].attempt < task[t].budget
  BY ConstantsAssumption DEF AfterFailure, TypeOK, TaskRow, Policies

(* The rows the operations build from the stored one, before the revision  *)
(* is added.                                                               *)
LEMMA StatusWrites ==
  ASSUME TypeOK, NEW t \in Tasks, NEW status \in Statuses, NEW progress \in 0..MaxProgress
  PROVE  /\ [task[t] EXCEPT !.status = status] \in TaskRow
         /\ [task[t] EXCEPT !.progress = progress] \in TaskRow
         /\ [task[t] EXCEPT !.status = status, !.progress = progress] \in TaskRow
         /\ [task[t] EXCEPT !.status = status, !.attempt = @ + 1] \in TaskRow
<1>1. task[t] \in TaskRow
  BY DEF TypeOK
<1>2. task[t].attempt + 1 \in Nat
  BY <1>1 DEF TaskRow
<1>3. QED
  BY <1>1, <1>2 DEF TaskRow

(* Recovery writes the row, the event and the trail of every running task. *)
LEMMA RecoverType ==
  ASSUME TInv, Recover
  PROVE  TypeOK'
<1>1. ASSUME NEW t \in Tasks
      PROVE  Recovered(t) \in TaskRow /\ Recovered(t).status \in Statuses
  <2>1. AfterInterruption(t) \in Statuses /\ 0 \in 0..MaxProgress
    BY ConstantsAssumption DEF AfterInterruption, Statuses
  <2>2. Recovered(t) \in TaskRow
    BY <2>1, StatusWrites DEF Recovered, TInv
  <2>3. Recovered(t).status = AfterInterruption(t)
    BY DEF Recovered, TInv, TypeOK, TaskRow
  <2>4. QED
    BY <2>1, <2>2, <2>3
<1>2. ASSUME NEW t \in Tasks PROVE Saved(t, Recovered(t)) \in TaskRow
  BY <1>1, SavedType DEF TInv
<1>3. task' \in [Tasks -> TaskRow]
  BY <1>2 DEF Recover, TInv, TypeOK
<1>4. attempts' \in [Tasks -> Seq(AttemptStatuses)]
  <2>1. \A t \in Running : Closed(t, "interrupted") \in Seq(AttemptStatuses)
    BY ClosedType DEF Recover, Running, TInv, AttemptStatuses
  <2>2. QED
    BY <2>1 DEF Recover, TInv, TypeOK
<1>5. history' \in [Tasks -> Seq(HistoryRow)]
  <2>1. ASSUME NEW t \in Tasks
        PROVE  Trail(t, Recovered(t)) \in HistoryRow
    <3>1. task[t].status \in Statuses \cup {"absent"} /\ task[t].revision + 1 \in Nat
      BY DEF TInv, TypeOK, TaskRow
    <3>2. Recovered(t).status \in Statuses
      BY <1>1
    <3>3. QED
      BY <3>1, <3>2 DEF Trail, HistoryRow
  <2>2. QED
    BY <2>1 DEF Recover, TInv, TypeOK
<1>6. events' \in [Tasks -> Seq(EventRow)]
  <2>1. \A t \in Tasks : Event("recovered", Saved(t, Recovered(t))) \in EventRow
    BY <1>2 DEF Event, EventRow, EventTypes
  <2>2. QED
    BY <2>1 DEF Recover, TInv, TypeOK
<1>7. QED
  BY <1>3, <1>4, <1>5, <1>6 DEF Recover, TInv, TypeOK

(* Saving one row leaves finitely many tasks in the table.                 *)
LEMMA MoveExisting ==
  ASSUME TInv, NEW t \in Tasks, NEW row \in TaskRow, row.status \in Statuses,
         task' = [task EXCEPT ![t] = Saved(t, row)]
  PROVE  IsFiniteSet(Existing')
<1>1. Existing' = Existing \cup {t}
  BY DEF Existing, Exists, Saved, Statuses, TInv, TypeOK, TaskRow
<1>2. QED
  BY <1>1, FS_AddElement DEF TInv, FiniteTables

(* One operation on one task: its row moves, its attempts and the receipts *)
(* get values of their types.                                              *)
LEMMA MoveKeepsTypes ==
  ASSUME TInv, NEW t \in Tasks, NEW row \in TaskRow, row.status \in Statuses,
         NEW type \in EventTypes, Move(t, row, type),
         attempts' \in [Tasks -> Seq(AttemptStatuses)],
         receipts' \subseteq ReceiptRow /\ IsFiniteSet(receipts')
  PROVE  TInv'
<1>1. task' = [task EXCEPT ![t] = Saved(t, row)]
  BY DEF Move, AppendEvent
<1>2. QED
  BY <1>1, MoveType, MoveExisting DEF TInv, TypeOK, FiniteTables

(* Closing the open attempt row keeps the type of task_attempts.           *)
LEMMA CloseKeepsTypes ==
  ASSUME TInv, NEW t \in Tasks, NEW outcome \in AttemptStatuses, CloseAttempt(t, outcome)
  PROVE  attempts' \in [Tasks -> Seq(AttemptStatuses)]
  BY ClosedType DEF CloseAttempt, TInv, TypeOK

(* The three commands of execute_command keep the types of all five        *)
(* tables.                                                                 *)
LEMMA CommandTypes ==
  ASSUME TInv, NEW t \in Tasks, NEW command \in Ids, NEW key \in Ids
  PROVE  /\ \A payload \in Payloads, deps \in SUBSET Tasks :
                Create(command, key, payload, deps, t) => TInv'
         /\ \A expected \in 1..MaxRevision :
                /\ Cancel(command, key, t, expected) => TInv'
                /\ Retry(command, key, t, expected) => TInv'
<1>1. ASSUME NEW payload \in Payloads, NEW deps \in SUBSET Tasks,
             Create(command, key, payload, deps, t)
      PROVE  TInv'
  <2>1. CreateRequest(payload, deps) \in Request
    BY ConstantsAssumption DEF CreateRequest, Request
  <2>2. receipts' \subseteq ReceiptRow /\ IsFiniteSet(receipts')
    BY <1>1, <2>1, CommitType DEF Create
  <2>3. NewTask(payload, deps) \in TaskRow /\ NewTask(payload, deps).status \in Statuses
    BY CreateWrites DEF NewTask, Statuses
  <2>4. Move(t, NewTask(payload, deps), "created") /\ UNCHANGED attempts
    BY <1>1 DEF Create
  <2>5. QED
    BY <2>2, <2>3, <2>4, MoveKeepsTypes DEF EventTypes, TInv, TypeOK
<1>2. ASSUME NEW expected \in 1..MaxRevision, Cancel(command, key, t, expected)
      PROVE  TInv'
  <2> DEFINE row == [task[t] EXCEPT !.status = "canceled"]
  <2>1. TaskRequest("cancel", t, expected) \in Request
    BY ConstantsAssumption DEF TaskRequest, Request
  <2>2. receipts' \subseteq ReceiptRow /\ IsFiniteSet(receipts')
    BY <1>2, <2>1, CommitType DEF Cancel
  <2>3. row \in TaskRow /\ row.status \in Statuses
    <3>1. "canceled" \in Statuses /\ 0 \in 0..MaxProgress
      BY ConstantsAssumption DEF Statuses
    <3>2. row \in TaskRow
      BY <3>1, StatusWrites DEF TInv
    <3>3. row.status = "canceled"
      BY DEF TInv, TypeOK, TaskRow
    <3>4. QED
      BY <3>1, <3>2, <3>3
  <2>4. Move(t, row, "canceled")
    BY <1>2 DEF Cancel
  <2>5. attempts' \in [Tasks -> Seq(AttemptStatuses)]
    BY <1>2, CloseKeepsTypes DEF Cancel, AttemptStatuses, TInv, TypeOK
  <2>6. QED
    BY <2>2, <2>3, <2>4, <2>5, MoveKeepsTypes DEF EventTypes
<1>3. ASSUME NEW expected \in 1..MaxRevision, Retry(command, key, t, expected)
      PROVE  TInv'
  <2> DEFINE row == [task[t] EXCEPT !.status = "queued", !.progress = 0]
  <2>1. TaskRequest("retry", t, expected) \in Request
    BY ConstantsAssumption DEF TaskRequest, Request
  <2>2. receipts' \subseteq ReceiptRow /\ IsFiniteSet(receipts')
    BY <1>3, <2>1, CommitType DEF Retry
  <2>3. row \in TaskRow /\ row.status \in Statuses
    <3>1. "queued" \in Statuses /\ 0 \in 0..MaxProgress
      BY ConstantsAssumption DEF Statuses
    <3>2. row \in TaskRow
      BY <3>1, StatusWrites DEF TInv
    <3>3. row.status = "queued"
      BY DEF TInv, TypeOK, TaskRow
    <3>4. QED
      BY <3>1, <3>2, <3>3
  <2>4. Move(t, row, "retried") /\ UNCHANGED attempts
    BY <1>3 DEF Retry
  <2>5. QED
    BY <2>2, <2>3, <2>4, MoveKeepsTypes DEF EventTypes, TInv, TypeOK
<1>4. QED
  BY <1>1, <1>2, <1>3

(* Claim, progress report, success and failure keep the types of all five  *)
(* tables.                                                                 *)
LEMMA LifecycleTypes ==
  ASSUME TInv, NEW t \in Tasks
  PROVE  /\ \A kinds \in SUBSET Kinds : Claim(t, kinds) => TInv'
         /\ \A attempt \in 1..MaxRevision :
                /\ \A progress \in 1..MaxProgress :
                      UpdateProgress(t, attempt, progress) => TInv'
                /\ FinishSuccess(t, attempt) => TInv'
                /\ \A retryable \in BOOLEAN :
                      FinishFailure(t, attempt, retryable) => TInv'
<1> USE ConstantsAssumption
<1>0. /\ TypeOK /\ task[t] \in TaskRow
      /\ receipts \subseteq ReceiptRow /\ IsFiniteSet(receipts)
  BY DEF TInv, TypeOK, FiniteTables
<1>a. /\ "running" \in Statuses /\ "succeeded" \in Statuses
      /\ 0 \in 0..MaxProgress /\ MaxProgress \in 0..MaxProgress
      /\ \A progress \in 1..MaxProgress : progress \in 0..MaxProgress
  BY DEF Statuses
<1>1. ASSUME NEW kinds \in SUBSET Kinds, Claim(t, kinds)
      PROVE  TInv'
  <2> DEFINE row == [task[t] EXCEPT !.status = "running", !.attempt = @ + 1]
  <2>1. row \in TaskRow
    BY <1>0, <1>a, StatusWrites
  <2>2. row.status \in Statuses
    BY <1>0 DEF TaskRow, Statuses
  <2>3. Move(t, row, "progressed") /\ UNCHANGED receipts
    BY <1>1 DEF Claim
  <2>4. attempts' \in [Tasks -> Seq(AttemptStatuses)]
    BY <1>0, <1>1 DEF Claim, TypeOK, AttemptStatuses
  <2>5. QED
    BY <1>0, <2>1, <2>2, <2>3, <2>4, MoveKeepsTypes DEF EventTypes
<1>2. ASSUME NEW attempt \in 1..MaxRevision, NEW progress \in 1..MaxProgress,
             UpdateProgress(t, attempt, progress)
      PROVE  TInv'
  <2> DEFINE row == [task[t] EXCEPT !.progress = progress]
  <2>1. row \in TaskRow
    BY <1>0, <1>a, StatusWrites
  <2>2. row.status \in Statuses
    BY <1>0, <1>2 DEF UpdateProgress, Active, TaskRow, Statuses
  <2>3. /\ AppendEvent(t, "progressed", row)
        /\ UNCHANGED <<attempts, history, receipts>>
    BY <1>2 DEF UpdateProgress
  <2>4. Saved(t, row) \in TaskRow
    BY <1>0, <2>1, SavedType
  <2>5. Event("progressed", Saved(t, row)) \in EventRow
    BY <2>4 DEF Event, EventRow, EventTypes
  <2>6. IsFiniteSet(Existing')
    BY <2>1, <2>2, <2>3, MoveExisting DEF AppendEvent
  <2>7. TypeOK'
    BY <1>0, <2>3, <2>4, <2>5 DEF AppendEvent, TypeOK
  <2>8. QED
    BY <1>0, <2>3, <2>6, <2>7 DEF TInv, FiniteTables
<1>3. ASSUME NEW attempt \in 1..MaxRevision, FinishSuccess(t, attempt)
      PROVE  TInv'
  <2> DEFINE row == [task[t] EXCEPT !.status = "succeeded", !.progress = MaxProgress]
  <2>1. row \in TaskRow
    BY <1>0, <1>a, StatusWrites
  <2>2. row.status \in Statuses
    BY <1>0 DEF TaskRow, Statuses
  <2>3. Move(t, row, "succeeded") /\ UNCHANGED receipts
    BY <1>3 DEF FinishSuccess
  <2>4. attempts' \in [Tasks -> Seq(AttemptStatuses)]
    BY <1>3, CloseKeepsTypes DEF FinishSuccess, AttemptStatuses
  <2>5. QED
    BY <1>0, <2>1, <2>2, <2>3, <2>4, MoveKeepsTypes DEF EventTypes
<1>4. ASSUME NEW attempt \in 1..MaxRevision, NEW retryable \in BOOLEAN,
             FinishFailure(t, attempt, retryable)
      PROVE  TInv'
  <2> DEFINE next == AfterFailure(t, retryable)
             row == [task[t] EXCEPT !.status = next, !.progress = 0]
  <2>1. next \in Statuses
    BY <1>0, AfterFailureType DEF Statuses
  <2>2. row \in TaskRow
    BY <1>0, <1>a, <2>1, StatusWrites
  <2>3. row.status = next
    BY <1>0 DEF TaskRow
  <2>4. Move(t, row, FailureEvent(next)) /\ UNCHANGED receipts
    BY <1>4 DEF FinishFailure
  <2>5. FailureEvent(next) \in EventTypes
    BY DEF FailureEvent, EventTypes
  <2>6. attempts' \in [Tasks -> Seq(AttemptStatuses)]
    BY <1>4, CloseKeepsTypes DEF FinishFailure, AttemptStatuses
  <2>7. QED
    BY <1>0, <2>1, <2>2, <2>3, <2>4, <2>5, <2>6, MoveKeepsTypes
<1>5. QED
  BY <1>1, <1>2, <1>3, <1>4

(* The tables of task_engine.rs only ever hold rows of their declared      *)
(* types, whatever the tasks, payloads and bounds.                         *)
THEOREM TypeCorrect == Spec => [](TypeOK /\ FiniteTables)
<1>1. Init => TInv
  <2> SUFFICES ASSUME Init PROVE TInv
    OBVIOUS
  <2>1. AbsentTask \in TaskRow
    <3>1. 1 \in 1..MaxBudget /\ 1 \in 1..4 /\ 0 \in 0..MaxProgress /\ 0 \in Nat
      BY ConstantsAssumption, MaxBudgetAssumption
    <3>2. "safe" \in Policies /\ {} \in SUBSET Tasks /\ "none" \in Kinds \cup {"none"}
      BY DEF Policies
    <3>3. QED
      BY <3>1, <3>2 DEF AbsentTask, TaskRow
  <2>2. Existing = {}
    BY DEF Init, Existing, Exists, AbsentTask
  <2>3. TypeOK
    BY <2>1 DEF Init, TypeOK
  <2>4. QED
    BY <2>2, <2>3, FS_EmptySet DEF TInv, FiniteTables, Init
<1>2. TInv /\ [Next]_vars => TInv'
  <2> SUFFICES ASSUME TInv, [Next]_vars PROVE TInv'
    OBVIOUS
  <2>1. CASE UNCHANGED vars
    BY <2>1 DEF vars, TInv, TypeOK, FiniteTables, Existing, Exists
  <2>2. CASE Recover
    <3>1. Existing' = Existing
      BY <2>2 DEF Recover, Running, Recovered, AfterInterruption, Saved,
                  Existing, Exists, TInv, TypeOK, TaskRow
    <3>2. QED
      BY <2>2, <3>1, RecoverType DEF Recover, TInv, FiniteTables
  <2>3. QED
    BY <2>1, <2>2, CommandTypes, LifecycleTypes DEF Next
<1>3. QED
  BY <1>1, <1>2, PTL DEF Spec, TInv

-------------------------------------------------------------------------------
(***************************************************************************)
(* Initial states map to the initial ledger, and every step to a step of   *)
(* the ledger or to none.                                                  *)
(***************************************************************************)

(* The view shows the fields of the rows as they are stored.               *)
LEMMA ViewFields ==
  ASSUME TInv, NEW t \in Tasks
  PROVE  /\ LedgerView[t] = LedgerEntry(task[t])
         /\ LedgerView[t].status = task[t].status
         /\ LedgerView[t].policy = task[t].policy
         /\ LedgerView[t].budget = task[t].budget
         /\ LedgerView[t].attempt = task[t].attempt
         /\ LedgerView[t].deps = task[t].deps
         /\ task[t] \in TaskRow
  BY DEF LedgerView, LedgerEntry, TInv, TypeOK

(* A save of one task changes that task's entry of the view.               *)
LEMMA ViewSaved ==
  ASSUME TInv, NEW t \in Tasks, NEW row \in TaskRow, NEW type, AppendEvent(t, type, row)
  PROVE  LedgerView' = [LedgerView EXCEPT ![t] = LedgerEntry(row)]
<1>1. task' = [task EXCEPT ![t] = Saved(t, row)] /\ task \in [Tasks -> TaskRow]
  BY DEF AppendEvent, TInv, TypeOK
<1>2. LedgerEntry(Saved(t, row)) = LedgerEntry(row)
  BY DEF LedgerEntry, Saved, TaskRow
<1>3. QED
  BY <1>1, <1>2 DEF LedgerView

(* A save that keeps policy, budget, attempt and dependencies.             *)
LEMMA ViewBecomes ==
  ASSUME TInv, NEW t \in Tasks, NEW row \in TaskRow, NEW type, AppendEvent(t, type, row),
         row.policy = task[t].policy, row.budget = task[t].budget,
         row.attempt = task[t].attempt, row.deps = task[t].deps
  PROVE  Ledger!Become(t, row.status)
<1>1. LedgerEntry(row) = [LedgerView[t] EXCEPT !.status = row.status]
  <2>1. LedgerView[t] = LedgerEntry(task[t])
    BY ViewFields
  <2>2. QED
    BY <2>1 DEF LedgerEntry
<1>2. QED
  BY <1>1, ViewSaved DEF Ledger!Become, LedgerView

LedgerRow == [status : Statuses \cup {"absent"}, policy : Policies,
              budget : 1..MaxBudget, attempt : Nat, deps : SUBSET Tasks]

(* The entry of a claimed row is the ledger's claimed entry.               *)
LEMMA EntryClaimed ==
  ASSUME TInv, NEW t \in Tasks, NEW row,
         row.status = "running", row.attempt = task[t].attempt + 1,
         row.policy = task[t].policy, row.budget = task[t].budget,
         row.deps = task[t].deps
  PROVE  LedgerEntry(row) = [LedgerView[t] EXCEPT !.status = "running", !.attempt = @ + 1]
<1> DEFINE entry == LedgerView[t]
           claimed == [entry EXCEPT !.status = "running", !.attempt = @ + 1]
<1>1. task[t] \in TaskRow /\ entry = LedgerEntry(task[t])
  BY ViewFields
<1>2. entry \in LedgerRow
  <2> HIDE DEF entry
  <2>1. QED
    BY <1>1 DEF LedgerRow, LedgerEntry, TaskRow
<1>3. "running" \in Statuses
  BY DEF Statuses
<1>4. /\ claimed \in LedgerRow
      /\ claimed.status = "running" /\ claimed.attempt = entry.attempt + 1
      /\ claimed.policy = entry.policy /\ claimed.budget = entry.budget
      /\ claimed.deps = entry.deps
  <2> HIDE DEF entry
  <2>1. entry.attempt + 1 \in Nat
    BY <1>2 DEF LedgerRow
  <2>2. claimed \in LedgerRow
    BY <1>2, <1>3, <2>1 DEF LedgerRow
  <2>3. claimed.status = "running" /\ claimed.attempt = entry.attempt + 1
    BY <1>2 DEF LedgerRow
  <2>4. /\ claimed.policy = entry.policy /\ claimed.budget = entry.budget
        /\ claimed.deps = entry.deps
    BY <1>2 DEF LedgerRow
  <2>5. QED
    BY <2>2, <2>3, <2>4
<1> HIDE DEF claimed
<1>5. /\ entry.attempt = task[t].attempt /\ entry.policy = task[t].policy
      /\ entry.budget = task[t].budget /\ entry.deps = task[t].deps
  BY ViewFields
<1>6. claimed = LedgerEntry(row)
  BY <1>4, <1>5 DEF LedgerEntry, LedgerRow
<1>7. QED
  BY <1>6 DEF claimed

(* The empty tables are the empty ledger.                                  *)
LEMMA InitMaps ==
  ASSUME Init
  PROVE  Ledger!Init
  BY DEF Init, Ledger!Init, Ledger!Absent, AbsentTask, LedgerView, LedgerEntry

(* Every operation is an operation of the ledger; progress is none.        *)
LEMMA StepMaps ==
  ASSUME TInv, [Next]_vars
  PROVE  [Ledger!Next]_LedgerView
<1>0. TypeOK /\ \A t \in Tasks : task[t] \in TaskRow
  BY DEF TInv, TypeOK
<1>a. /\ {"running", "succeeded", "canceled", "queued"} \subseteq Statuses
      /\ 0 \in 0..MaxProgress /\ MaxProgress \in 0..MaxProgress
      /\ \A progress \in 1..MaxProgress : progress \in 0..MaxProgress
  BY ConstantsAssumption DEF Statuses
<1>1. ASSUME NEW t \in Tasks, NEW command \in Ids, NEW key \in Ids,
             NEW payload \in Payloads, NEW deps \in SUBSET Tasks,
             Create(command, key, payload, deps, t)
      PROVE  Ledger!Next
  <2> DEFINE row == NewTask(payload, deps)
  <2>1. row \in TaskRow /\ payload \in PayloadType
    BY CreateWrites, ConstantsAssumption
  <2>2. LedgerView' = [LedgerView EXCEPT ![t] = LedgerEntry(row)]
    BY <1>1, <2>1, ViewSaved DEF Create, Move
  <2>3. LedgerEntry(row) = [status |-> "queued", policy |-> payload.policy,
                            budget |-> payload.budget, attempt |-> 0, deps |-> deps]
    BY DEF LedgerEntry, NewTask
  <2>4. ~Ledger!Exists(t) /\ \A d \in deps : Ledger!Exists(d)
    BY <1>1, ViewFields DEF Create, Exists, Ledger!Exists
  <2>5. payload.policy \in Ledger!Policies /\ payload.budget \in 1..MaxBudget
    BY <2>1 DEF PayloadType, Policies, Ledger!Policies
  <2>6. Ledger!Create(t, payload.policy, payload.budget, deps)
    BY <2>2, <2>3, <2>4 DEF Ledger!Create
  <2>7. QED
    BY <2>5, <2>6 DEF Ledger!Next
<1>2. ASSUME NEW t \in Tasks, NEW command \in Ids, NEW key \in Ids,
             NEW expected \in 1..MaxRevision, Cancel(command, key, t, expected)
      PROVE  Ledger!Next
  <2> DEFINE row == [task[t] EXCEPT !.status = "canceled"]
  <2>1. row \in TaskRow
    BY <1>0, <1>a, StatusWrites
  <2>2. /\ row.status = "canceled" /\ row.attempt = task[t].attempt
        /\ row.policy = task[t].policy /\ row.budget = task[t].budget
        /\ row.deps = task[t].deps
    BY <1>0 DEF TaskRow
  <2>3. Ledger!Become(t, "canceled")
    BY <1>2, <2>1, <2>2, ViewBecomes DEF Cancel, Move
  <2>4. Ledger!Cancel(t)
    BY <1>2, <2>3, ViewFields DEF Cancel, Ledger!Cancel
  <2>5. QED
    BY <2>4 DEF Ledger!Next
<1>3. ASSUME NEW t \in Tasks, NEW command \in Ids, NEW key \in Ids,
             NEW expected \in 1..MaxRevision, Retry(command, key, t, expected)
      PROVE  Ledger!Next
  <2> DEFINE row == [task[t] EXCEPT !.status = "queued", !.progress = 0]
  <2>1. row \in TaskRow
    BY <1>0, <1>a, StatusWrites
  <2>2. /\ row.status = "queued" /\ row.attempt = task[t].attempt
        /\ row.policy = task[t].policy /\ row.budget = task[t].budget
        /\ row.deps = task[t].deps
    BY <1>0 DEF TaskRow
  <2>3. Ledger!Become(t, "queued")
    BY <1>3, <2>1, <2>2, ViewBecomes DEF Retry, Move
  <2>4. Ledger!Retry(t)
    BY <1>3, <2>3, ViewFields DEF Retry, Ledger!Retry
  <2>5. QED
    BY <2>4 DEF Ledger!Next
<1>4. ASSUME NEW t \in Tasks, NEW kinds \in SUBSET Kinds, Claim(t, kinds)
      PROVE  Ledger!Next
  <2> DEFINE row == [task[t] EXCEPT !.status = "running", !.attempt = @ + 1]
  <2>1. row \in TaskRow
    BY <1>0, <1>a, StatusWrites
  <2>2. LedgerView' = [LedgerView EXCEPT ![t] = LedgerEntry(row)]
    BY <1>4, <2>1, ViewSaved DEF Claim, Move
  <2>3. LedgerEntry(row) = [LedgerView[t] EXCEPT !.status = "running", !.attempt = @ + 1]
    <3>1. /\ row.status = "running" /\ row.attempt = task[t].attempt + 1
          /\ row.policy = task[t].policy /\ row.budget = task[t].budget
          /\ row.deps = task[t].deps
      BY <1>0 DEF TaskRow
    <3> HIDE DEF row
    <3>2. QED
      BY <3>1, EntryClaimed
  <2>4. Ledger!Runnable(t)
    <3>1. task[t].deps \subseteq Tasks
      BY <1>0 DEF TaskRow
    <3>2. QED
      BY <1>4, <3>1, ViewFields DEF Claim, Claimable, Ledger!Runnable
  <2>5. Ledger!Claim(t)
    BY <2>2, <2>3, <2>4 DEF Ledger!Claim, LedgerView
  <2>6. QED
    BY <2>5 DEF Ledger!Next
<1>5. ASSUME NEW t \in Tasks, NEW attempt \in 1..MaxRevision,
             NEW progress \in 1..MaxProgress, UpdateProgress(t, attempt, progress)
      PROVE  UNCHANGED LedgerView
  <2> DEFINE row == [task[t] EXCEPT !.progress = progress]
  <2>1. row \in TaskRow
    BY <1>0, <1>a, StatusWrites
  <2>2. LedgerView' = [LedgerView EXCEPT ![t] = LedgerEntry(row)]
    BY <1>5, <2>1, ViewSaved DEF UpdateProgress
  <2>3. LedgerEntry(row) = LedgerView[t]
    BY <1>0, ViewFields DEF LedgerEntry, TaskRow
  <2>4. QED
    BY <2>2, <2>3 DEF LedgerView
<1>6. ASSUME NEW t \in Tasks, NEW attempt \in 1..MaxRevision, FinishSuccess(t, attempt)
      PROVE  Ledger!Next
  <2> DEFINE row == [task[t] EXCEPT !.status = "succeeded", !.progress = MaxProgress]
  <2>1. row \in TaskRow
    BY <1>0, <1>a, StatusWrites
  <2>2. /\ row.status = "succeeded" /\ row.attempt = task[t].attempt
        /\ row.policy = task[t].policy /\ row.budget = task[t].budget
        /\ row.deps = task[t].deps
    BY <1>0 DEF TaskRow
  <2>3. Ledger!Become(t, "succeeded")
    BY <1>6, <2>1, <2>2, ViewBecomes DEF FinishSuccess, Move
  <2>4. Ledger!Succeed(t, LedgerView[t].attempt)
    BY <1>6, <2>3, ViewFields DEF FinishSuccess, Active, Ledger!Succeed, Ledger!Active
  <2>5. QED
    BY <2>4 DEF Ledger!Next
<1>7. ASSUME NEW t \in Tasks, NEW attempt \in 1..MaxRevision,
             NEW retryable \in BOOLEAN, FinishFailure(t, attempt, retryable)
      PROVE  Ledger!Next
  <2> DEFINE next == AfterFailure(t, retryable)
             row == [task[t] EXCEPT !.status = next, !.progress = 0]
  <2>1. next \in Statuses
    BY <1>0, AfterFailureType DEF Statuses
  <2>2. row \in TaskRow
    BY <1>0, <1>a, <2>1, StatusWrites
  <2>3. /\ row.status = next /\ row.attempt = task[t].attempt
        /\ row.policy = task[t].policy /\ row.budget = task[t].budget
        /\ row.deps = task[t].deps
    BY <1>0 DEF TaskRow
  <2>4. Ledger!Become(t, next)
    BY <1>7, <2>2, <2>3, ViewBecomes DEF FinishFailure, Move
  <2>5. Ledger!AfterFailure(t, retryable) = next
    <3>1. /\ LedgerView[t].attempt = task[t].attempt
          /\ LedgerView[t].budget = task[t].budget
          /\ LedgerView[t].policy = task[t].policy
      BY ViewFields
    <3>2. QED
      BY <3>1 DEF Ledger!AfterFailure, AfterFailure
  <2>6. Ledger!Fail(t, LedgerView[t].attempt, retryable)
    BY <1>7, <2>4, <2>5, ViewFields DEF FinishFailure, Active, Ledger!Fail, Ledger!Active
  <2>7. QED
    BY <2>6 DEF Ledger!Next
<1>8. CASE Recover
  <2>1. ASSUME NEW t \in Tasks
        PROVE  LedgerEntry(task'[t]) = Ledger!InterruptedEntry(t)
    <3>1. CASE task[t].status = "running"
      <4>1. task'[t] = Saved(t, Recovered(t))
        BY <1>8, <3>1 DEF Recover, Running
      <4>2. LedgerEntry(Saved(t, Recovered(t))) =
              [LedgerView[t] EXCEPT !.status = AfterInterruption(t)]
        <5>1. LedgerView[t] = LedgerEntry(task[t])
          BY ViewFields
        <5>2. QED
          BY <1>0, <5>1 DEF LedgerEntry, Saved, Recovered, TaskRow
      <4>3. Ledger!AfterInterruption(t) = AfterInterruption(t)
        BY ViewFields DEF Ledger!AfterInterruption, AfterInterruption
      <4>4. QED
        BY <3>1, <4>1, <4>2, <4>3, ViewFields DEF Ledger!InterruptedEntry
    <3>2. CASE task[t].status # "running"
      <4>1. task'[t] = task[t]
        BY <1>8, <3>2 DEF Recover, Running
      <4>2. QED
        BY <3>2, <4>1, ViewFields DEF Ledger!InterruptedEntry
    <3>3. QED
      BY <3>1, <3>2
  <2>2. LedgerView' = [t \in Tasks |-> Ledger!InterruptedEntry(t)]
    BY <2>1 DEF LedgerView
  <2>3. \E t \in Tasks : LedgerView[t].status = "running"
    BY <1>8, ViewFields DEF Recover, Running
  <2>4. Ledger!Recover
    BY <2>2, <2>3 DEF Ledger!Recover
  <2>5. QED
    BY <2>4 DEF Ledger!Next
<1>9. CASE UNCHANGED vars
  BY <1>9 DEF vars, LedgerView
<1>10. QED
  BY <1>1, <1>2, <1>3, <1>4, <1>5, <1>6, <1>7, <1>8, <1>9 DEF Next

(* The tables implement the task ledger.                                   *)
THEOREM Implements == Spec => ImplementsLedger
<1>1. Init => Ledger!Init
  BY InitMaps
<1>2. TInv /\ [Next]_vars => [Ledger!Next]_LedgerView
  BY StepMaps
<1>3. Spec => []TInv
  BY TypeCorrect DEF TInv
<1>4. QED
  BY <1>1, <1>2, <1>3, PTL DEF Spec, ImplementsLedger, Ledger!Spec

-------------------------------------------------------------------------------
(***************************************************************************)
(* TaskEngine's safety properties, for any tasks, payloads and bounds.     *)
(* What a step does to one task is one of five kinds of change, or the     *)
(* recovery of all running tasks; each part of the invariant is shown to   *)
(* survive each kind.                                                      *)
(***************************************************************************)
SameTask(t, row) ==
    /\ row.policy = task[t].policy /\ row.budget = task[t].budget
    /\ row.deps = task[t].deps

(* Create.                                                                 *)
Opens(t, row, type) ==
    /\ ~Exists(t)
    /\ row.status = "queued" /\ row.attempt = 0 /\ row.progress = 0
    /\ UNCHANGED attempts

(* Claim.                                                                  *)
Claims(t, row, type) ==
    /\ task[t].status = "queued" /\ row.status = "running"
    /\ \A d \in task[t].deps : task[d].status = "succeeded"
    /\ row.attempt = task[t].attempt + 1 /\ row.progress = task[t].progress
    /\ SameTask(t, row) /\ type = "progressed"
    /\ attempts' = [attempts EXCEPT ![t] = Append(@, "running")]

(* UpdateProgress.                                                         *)
Advances(t, row, type) ==
    /\ task[t].status = "running" /\ row.status = "running"
    /\ row.attempt = task[t].attempt /\ SameTask(t, row)
    /\ UNCHANGED attempts

(* Cancel of a running task, FinishSuccess and FinishFailure.              *)
Closes(t, row, type) ==
    /\ task[t].status = "running" /\ row.status # "running"
    /\ row.attempt = task[t].attempt /\ SameTask(t, row)
    /\ row.status = "queued" =>
          row.policy = "safe" /\ row.attempt < row.budget /\ row.progress = 0
    /\ \E outcome \in AttemptStatuses \ {"running"} : CloseAttempt(t, outcome)

(* Cancel of a task that is not running, and Retry.                        *)
Settles(t, row, type) ==
    /\ task[t].status \in {"queued", "failed", "awaitingApproval"}
    /\ row.status \in {"queued", "canceled"}
    /\ row.attempt = task[t].attempt /\ SameTask(t, row)
    /\ row.status = "queued" =>
          type = "retried" /\ row.attempt < row.budget /\ row.progress = 0
    /\ UNCHANGED attempts

Change(t, row, type) ==
    \/ Opens(t, row, type) \/ Claims(t, row, type) \/ Advances(t, row, type)
    \/ Closes(t, row, type) \/ Settles(t, row, type)

(* Every operation that saves one task is a change of one of the kinds.    *)
LEMMA SaveIsChange ==
  ASSUME TInv, Next
  PROVE  \/ Recover
         \/ \E t \in Tasks, row \in TaskRow, type \in EventTypes :
               AppendEvent(t, type, row) /\ Change(t, row, type)
               /\ row.status \in Statuses
<1> DEFINE Goal == \E t \in Tasks, row \in TaskRow, type \in EventTypes :
                      AppendEvent(t, type, row) /\ Change(t, row, type)
                      /\ row.status \in Statuses
<1>0. TypeOK /\ \A t \in Tasks : task[t] \in TaskRow
  BY DEF TInv, TypeOK
<1>a. /\ {"running", "succeeded", "canceled", "queued"} \subseteq Statuses
      /\ 0 \in 0..MaxProgress /\ MaxProgress \in 0..MaxProgress
      /\ \A progress \in 1..MaxProgress : progress \in 0..MaxProgress
  BY ConstantsAssumption DEF Statuses
<1>b. {"created", "canceled", "retried", "progressed", "succeeded"} \subseteq EventTypes
  BY DEF EventTypes
<1>1. ASSUME NEW t \in Tasks, NEW command \in Ids, NEW key \in Ids,
             NEW payload \in Payloads, NEW deps \in SUBSET Tasks,
             Create(command, key, payload, deps, t)
      PROVE  Goal
  <2> DEFINE row == NewTask(payload, deps)
  <2>1. row \in TaskRow
    BY CreateWrites
  <2>2. AppendEvent(t, "created", row) /\ row.status \in Statuses
    BY <1>1, <1>a DEF Create, Move, NewTask
  <2>3. Opens(t, row, "created")
    BY <1>1 DEF Create, Opens, NewTask
  <2>4. QED
    BY <1>b, <2>1, <2>2, <2>3 DEF Change
<1>2. ASSUME NEW t \in Tasks, NEW command \in Ids, NEW key \in Ids,
             NEW expected \in 1..MaxRevision, Cancel(command, key, t, expected)
      PROVE  Goal
  <2> DEFINE row == [task[t] EXCEPT !.status = "canceled"]
  <2>1. row \in TaskRow
    BY <1>0, <1>a, StatusWrites
  <2>2. AppendEvent(t, "canceled", row)
    BY <1>2 DEF Cancel, Move
  <2>3. /\ row.status = "canceled" /\ row.attempt = task[t].attempt
        /\ SameTask(t, row)
    BY <1>0 DEF TaskRow, SameTask
  <2>4. CASE task[t].status = "running"
    <3>1. CloseAttempt(t, "canceled") /\ "canceled" \in AttemptStatuses \ {"running"}
      BY <1>2, <2>4 DEF Cancel, AttemptStatuses
    <3>2. Closes(t, row, "canceled")
      BY <2>3, <2>4, <3>1 DEF Closes
    <3>3. QED
      BY <1>a, <1>b, <2>1, <2>2, <2>3, <3>2 DEF Change
  <2>5. CASE task[t].status # "running"
    <3>1. Settles(t, row, "canceled")
      BY <1>2, <2>3, <2>5 DEF Cancel, Settles
    <3>2. QED
      BY <1>a, <1>b, <2>1, <2>2, <2>3, <3>1 DEF Change
  <2>6. QED
    BY <2>4, <2>5
<1>3. ASSUME NEW t \in Tasks, NEW command \in Ids, NEW key \in Ids,
             NEW expected \in 1..MaxRevision, Retry(command, key, t, expected)
      PROVE  Goal
  <2> DEFINE row == [task[t] EXCEPT !.status = "queued", !.progress = 0]
  <2>1. row \in TaskRow
    BY <1>0, <1>a, StatusWrites
  <2>2. AppendEvent(t, "retried", row)
    BY <1>3 DEF Retry, Move
  <2>3. /\ row.status = "queued" /\ row.attempt = task[t].attempt
        /\ row.progress = 0 /\ SameTask(t, row)
    BY <1>0 DEF TaskRow, SameTask
  <2>4. Settles(t, row, "retried")
    BY <1>3, <2>3 DEF Retry, Settles, SameTask
  <2>5. QED
    BY <1>a, <1>b, <2>1, <2>2, <2>3, <2>4 DEF Change
<1>4. ASSUME NEW t \in Tasks, NEW kinds \in SUBSET Kinds, Claim(t, kinds)
      PROVE  Goal
  <2> DEFINE row == [task[t] EXCEPT !.status = "running", !.attempt = @ + 1]
  <2>1. row \in TaskRow
    BY <1>0, <1>a, StatusWrites
  <2>2. AppendEvent(t, "progressed", row)
    BY <1>4 DEF Claim, Move
  <2>3. /\ row.status = "running" /\ row.attempt = task[t].attempt + 1
        /\ row.progress = task[t].progress /\ SameTask(t, row)
    BY <1>0 DEF TaskRow, SameTask
  <2>4. Claims(t, row, "progressed")
    BY <1>4, <2>3 DEF Claim, Claimable, Claims
  <2>5. QED
    BY <1>a, <1>b, <2>1, <2>2, <2>3, <2>4 DEF Change
<1>5. ASSUME NEW t \in Tasks, NEW attempt \in 1..MaxRevision,
             NEW progress \in 1..MaxProgress, UpdateProgress(t, attempt, progress)
      PROVE  Goal
  <2> DEFINE row == [task[t] EXCEPT !.progress = progress]
  <2>1. row \in TaskRow
    BY <1>0, <1>a, StatusWrites
  <2>2. AppendEvent(t, "progressed", row)
    BY <1>5 DEF UpdateProgress
  <2>3. /\ row.status = "running" /\ row.attempt = task[t].attempt
        /\ task[t].status = "running" /\ SameTask(t, row)
    BY <1>0, <1>5 DEF TaskRow, SameTask, UpdateProgress, Active
  <2>4. Advances(t, row, "progressed")
    BY <1>5, <2>3 DEF UpdateProgress, Advances
  <2>5. QED
    BY <1>a, <1>b, <2>1, <2>2, <2>3, <2>4 DEF Change
<1>6. ASSUME NEW t \in Tasks, NEW attempt \in 1..MaxRevision, FinishSuccess(t, attempt)
      PROVE  Goal
  <2> DEFINE row == [task[t] EXCEPT !.status = "succeeded", !.progress = MaxProgress]
  <2>1. row \in TaskRow
    BY <1>0, <1>a, StatusWrites
  <2>2. AppendEvent(t, "succeeded", row)
    BY <1>6 DEF FinishSuccess, Move
  <2>3. /\ row.status = "succeeded" /\ row.attempt = task[t].attempt
        /\ SameTask(t, row)
    BY <1>0 DEF TaskRow, SameTask
  <2>4. CloseAttempt(t, "succeeded") /\ "succeeded" \in AttemptStatuses \ {"running"}
    BY <1>6 DEF FinishSuccess, AttemptStatuses
  <2>5. Closes(t, row, "succeeded")
    BY <1>6, <2>3, <2>4 DEF FinishSuccess, Active, Closes
  <2>6. QED
    BY <1>a, <1>b, <2>1, <2>2, <2>3, <2>5 DEF Change
<1>7. ASSUME NEW t \in Tasks, NEW attempt \in 1..MaxRevision,
             NEW retryable \in BOOLEAN, FinishFailure(t, attempt, retryable)
      PROVE  Goal
  <2> DEFINE next == AfterFailure(t, retryable)
             row == [task[t] EXCEPT !.status = next, !.progress = 0]
  <2>1. next \in Statuses /\ next # "running"
    BY <1>0, AfterFailureType DEF Statuses
  <2>2. row \in TaskRow
    BY <1>0, <1>a, <2>1, StatusWrites
  <2>3. AppendEvent(t, FailureEvent(next), row)
    BY <1>7 DEF FinishFailure, Move
  <2>4. /\ row.status = next /\ row.attempt = task[t].attempt
        /\ row.progress = 0 /\ SameTask(t, row)
    BY <1>0 DEF TaskRow, SameTask
  <2>5. CloseAttempt(t, "failed") /\ "failed" \in AttemptStatuses \ {"running"}
    BY <1>7 DEF FinishFailure, AttemptStatuses
  <2>6. next = "queued" => row.policy = "safe" /\ row.attempt < row.budget
    BY <1>0, <2>4, AfterFailureType DEF SameTask
  <2>7. Closes(t, row, FailureEvent(next))
    BY <1>7, <2>1, <2>4, <2>5, <2>6 DEF FinishFailure, Active, Closes
  <2>8. FailureEvent(next) \in EventTypes
    BY DEF FailureEvent, EventTypes
  <2>9. QED
    BY <2>1, <2>2, <2>3, <2>4, <2>7, <2>8 DEF Change
<1>8. QED
  BY <1>1, <1>2, <1>3, <1>4, <1>5, <1>6, <1>7 DEF Next

-------------------------------------------------------------------------------
(***************************************************************************)
(* The same, seen from every task: a step leaves it untouched or saves it. *)
(***************************************************************************)
Untouched(t) ==
    task'[t] = task[t] /\ events'[t] = events[t] /\ attempts'[t] = attempts[t]

Saves(t, row, type) ==
    /\ task'[t] = Saved(t, row)
    /\ events'[t] = Append(events[t], Event(type, Saved(t, row)))

(* Recover, for one of the running tasks.                                  *)
Interrupts(t, row, type) ==
    /\ task[t].status = "running" /\ CanClose(t)
    /\ row.status # "running" /\ row.attempt = task[t].attempt /\ SameTask(t, row)
    /\ row.status = "queued" => row.policy = "safe" /\ row.progress = 0
    /\ attempts'[t] = Closed(t, "interrupted")

SavesOrInterrupts(t) ==
    \E row \in TaskRow, type \in EventTypes :
        /\ Saves(t, row, type) /\ row.status \in Statuses
        /\ Change(t, row, type) \/ Interrupts(t, row, type)

(* Every step leaves a task untouched, or changes it in one of the ways.   *)
LEMMA StepOfTask ==
  ASSUME TInv, Next, NEW t \in Tasks
  PROVE  Untouched(t) \/ SavesOrInterrupts(t)
<1>0. /\ TypeOK /\ task[t] \in TaskRow
      /\ task \in [Tasks -> TaskRow] /\ events \in [Tasks -> Seq(EventRow)]
      /\ attempts \in [Tasks -> Seq(AttemptStatuses)]
  BY DEF TInv, TypeOK
<1>1. CASE Recover
  <2>1. CASE t \in Running
    <3> DEFINE row == Recovered(t)
    <3>1. AfterInterruption(t) \in Statuses /\ 0 \in 0..MaxProgress
      BY ConstantsAssumption DEF AfterInterruption, Statuses
    <3>2. row \in TaskRow
      BY <1>0, <3>1, StatusWrites DEF Recovered
    <3>3. /\ row.status = AfterInterruption(t) /\ row.attempt = task[t].attempt
          /\ row.progress = 0 /\ SameTask(t, row)
      BY <1>0 DEF Recovered, TaskRow, SameTask
    <3>4. Saves(t, row, "recovered") /\ attempts'[t] = Closed(t, "interrupted")
      BY <1>1, <2>1 DEF Recover, Saves
    <3>5. task[t].status = "running" /\ CanClose(t)
      BY <1>1, <2>1 DEF Recover, Running
    <3>6. /\ row.status # "running"
          /\ row.status = "queued" => row.policy = "safe"
      BY <3>3 DEF AfterInterruption, SameTask
    <3>7. Interrupts(t, row, "recovered") /\ "recovered" \in EventTypes
      BY <3>3, <3>4, <3>5, <3>6 DEF Interrupts, EventTypes
    <3>8. QED
      BY <3>1, <3>2, <3>3, <3>4, <3>7 DEF SavesOrInterrupts
  <2>2. CASE t \notin Running
    BY <1>1, <2>2 DEF Recover, Untouched
  <2>3. QED
    BY <2>1, <2>2
<1>2. ASSUME NEW u \in Tasks, NEW row \in TaskRow, NEW type \in EventTypes,
             AppendEvent(u, type, row), Change(u, row, type), row.status \in Statuses
      PROVE  Untouched(t) \/ SavesOrInterrupts(t)
  <2>1. CASE u = t
    <3>1. Saves(t, row, type)
      BY <1>0, <1>2, <2>1 DEF AppendEvent, Saves
    <3>2. QED
      BY <1>2, <2>1, <3>1 DEF SavesOrInterrupts
  <2>2. CASE u # t
    <3>1. attempts'[t] = attempts[t]
      BY <1>0, <1>2, <2>2 DEF Change, Opens, Claims, Advances, Closes, Settles,
                              CloseAttempt
    <3>2. QED
      BY <1>0, <1>2, <2>2, <3>1 DEF AppendEvent, Untouched
  <2>3. QED
    BY <2>1, <2>2
<1>3. QED
  BY <1>1, <1>2, SaveIsChange

-------------------------------------------------------------------------------
(***************************************************************************)
(* The inductive invariant of one task.  To the properties TaskEngine      *)
(* names it adds what they rest on: an uncreated task has no past, a       *)
(* queued task has no progress, and a queued task whose budget is spent    *)
(* was interrupted.                                                        *)
(***************************************************************************)
NoPast(t) == ~Exists(t) => task[t].attempt = 0 /\ task[t].revision = 0

QueuedAtZero(t) == task[t].status = "queued" => task[t].progress = 0

SpentIsInterrupted(t) ==
    task[t].status = "queued" /\ task[t].attempt >= task[t].budget
        => attempts[t][task[t].attempt] = "interrupted"

TaskInv(t) ==
    /\ NoPast(t) /\ QueuedAtZero(t) /\ SpentIsInterrupted(t)
    /\ AttemptRowsMatch(t) /\ EventsReplay(t) /\ OverBudgetInterrupted(t)
    /\ RequeuedByOperator(t) /\ ClaimsReportZero(t)

(* Types of one task, as the steps below use them.                         *)
LEMMA TaskTypes ==
  ASSUME TInv, NEW t \in Tasks
  PROVE  /\ task[t] \in TaskRow
         /\ task[t].attempt \in Nat /\ task[t].revision \in Nat
         /\ task[t].budget \in Nat \ {0}
         /\ attempts[t] \in Seq(AttemptStatuses)
         /\ events[t] \in Seq(EventRow)
<1>1. /\ task[t] \in TaskRow /\ attempts[t] \in Seq(AttemptStatuses)
      /\ events[t] \in Seq(EventRow)
  BY DEF TInv, TypeOK
<1>2. QED
  BY <1>1, ConstantsAssumption DEF TaskRow

(* What a save writes, field by field.                                     *)
LEMMA SavedFields ==
  ASSUME TInv, NEW t \in Tasks, NEW row \in TaskRow, NEW type \in EventTypes,
         Saves(t, row, type)
  PROVE  /\ task'[t] \in TaskRow
         /\ task'[t].status = row.status /\ task'[t].policy = row.policy
         /\ task'[t].budget = row.budget /\ task'[t].deps = row.deps
         /\ task'[t].progress = row.progress /\ task'[t].attempt = row.attempt
         /\ task'[t].revision = task[t].revision + 1
         /\ Event(type, task'[t]) \in EventRow
         /\ Len(events'[t]) = Len(events[t]) + 1
         /\ events'[t][Len(events[t]) + 1] = Event(type, task'[t])
         /\ \A r \in 1..Len(events[t]) : events'[t][r] = events[t][r]
<1>1. task'[t] \in TaskRow
  BY SavedType DEF Saves, TInv
<1>2. Event(type, task'[t]) \in EventRow
  BY <1>1 DEF Event, EventRow
<1>3. events[t] \in Seq(EventRow)
  BY TaskTypes
<1>4. /\ Len(events'[t]) = Len(events[t]) + 1
      /\ events'[t][Len(events[t]) + 1] = Event(type, task'[t])
      /\ \A r \in 1..Len(events[t]) : events'[t][r] = events[t][r]
  BY <1>2, <1>3 DEF Saves
<1>5. QED
  BY <1>1, <1>2, <1>4 DEF Saves, Saved, TaskRow

(* A save appends the event of the next revision with the row it saves, so *)
(* the log still replays to the row.                                       *)
LEMMA EventsKept ==
  ASSUME TInv, NEW t \in Tasks, TaskInv(t), NEW row \in TaskRow,
         NEW type \in EventTypes, Saves(t, row, type)
  PROVE  EventsReplay(t)'
<1>1. /\ Len(events[t]) = task[t].revision
      /\ \A r \in 1..Len(events[t]) : events[t][r].task.revision = r
      /\ events[t] \in Seq(EventRow) /\ events'[t] \in Seq(EventRow)
      /\ task[t].revision \in Nat
  <2>1. events[t] \in Seq(EventRow) /\ task[t].revision \in Nat
    BY TaskTypes
  <2>2. events'[t] \in Seq(EventRow)
    BY <2>1, SavedFields DEF Saves
  <2>3. QED
    BY <2>1, <2>2 DEF TaskInv, EventsReplay
<1>2. /\ Len(events'[t]) = Len(events[t]) + 1
      /\ events'[t][Len(events[t]) + 1].task = task'[t]
      /\ \A r \in 1..Len(events[t]) : events'[t][r] = events[t][r]
      /\ task'[t].revision = task[t].revision + 1
  <2>1. Event(type, task'[t]).task = task'[t]
    BY DEF Event
  <2>2. QED
    BY <2>1, SavedFields
<1>3. ASSUME NEW r \in DOMAIN events'[t]
      PROVE  events'[t][r].task.revision = r
  <2>1. r \in 1..Len(events[t]) \/ r = Len(events[t]) + 1
    BY <1>1, <1>2
  <2>2. QED
    BY <1>1, <1>2, <2>1
<1>4. QED
  BY <1>1, <1>2, <1>3 DEF EventsReplay

(* What a change does to the attempt rows of its task.                     *)
LEMMA ClosedRows ==
  ASSUME TInv, NEW t \in Tasks, TaskInv(t), CanClose(t),
         NEW outcome \in AttemptStatuses, attempts'[t] = Closed(t, outcome)
  PROVE  /\ Len(attempts'[t]) = Len(attempts[t])
         /\ task[t].attempt \in 1..Len(attempts[t])
         /\ attempts'[t][task[t].attempt] = outcome
         /\ \A n \in 1..Len(attempts[t]) : n # task[t].attempt =>
               attempts'[t][n] = attempts[t][n]
  BY TaskTypes DEF CanClose, Closed

(* Every kind of change opens or closes the attempt row together with the  *)
(* status, so open rows and running tasks still agree.                     *)
LEMMA AttemptsKept ==
  ASSUME TInv, NEW t \in Tasks, TaskInv(t), NEW row \in TaskRow,
         row.status \in Statuses,
         NEW type \in EventTypes, Saves(t, row, type),
         Change(t, row, type) \/ Interrupts(t, row, type)
  PROVE  AttemptRowsMatch(t)'
<1>1. /\ task'[t].status = row.status /\ task'[t].attempt = row.attempt
      /\ attempts[t] \in Seq(AttemptStatuses) /\ task[t].attempt \in Nat
      /\ attempts \in [Tasks -> Seq(AttemptStatuses)]
  BY SavedFields, TaskTypes DEF TInv, TypeOK
<1>2. /\ Len(attempts[t]) = task[t].attempt
      /\ \A n \in 1..Len(attempts[t]) : attempts[t][n] = "running" <=>
            task[t].status = "running" /\ n = task[t].attempt
  BY <1>1 DEF TaskInv, AttemptRowsMatch
<1>3. CASE Opens(t, row, type)
  <2>1. task[t].attempt = 0
    BY <1>3 DEF Opens, TaskInv, NoPast
  <2>2. QED
    BY <1>1, <1>2, <1>3, <2>1 DEF Opens, AttemptRowsMatch
<1>4. CASE Claims(t, row, type)
  <2>1. attempts'[t] = Append(attempts[t], "running")
    BY <1>1, <1>4 DEF Claims
  <2>2. QED
    BY <1>1, <1>2, <1>4, <2>1 DEF Claims, AttemptRowsMatch
<1>5. CASE Advances(t, row, type)
  BY <1>1, <1>2, <1>5 DEF Advances, AttemptRowsMatch
<1>6. CASE Closes(t, row, type) \/ Interrupts(t, row, type)
  <2>1. PICK outcome \in AttemptStatuses \ {"running"} :
            CanClose(t) /\ attempts'[t] = Closed(t, outcome)
    <3>1. CASE Closes(t, row, type)
      BY <1>1, <3>1 DEF Closes, CloseAttempt
    <3>2. CASE Interrupts(t, row, type)
      BY <3>2 DEF Interrupts, AttemptStatuses
    <3>3. QED
      BY <1>6, <3>1, <3>2
  <2>2. row.status # "running" /\ row.attempt = task[t].attempt
    BY <1>6 DEF Closes, Interrupts
  <2>3. /\ Len(attempts'[t]) = Len(attempts[t])
        /\ attempts'[t][task[t].attempt] # "running"
        /\ \A n \in 1..Len(attempts[t]) : n # task[t].attempt =>
              attempts'[t][n] = attempts[t][n]
        /\ attempts'[t] \in Seq(AttemptStatuses)
    BY <1>1, <2>1, ClosedRows, ClosedType DEF TInv
  <2>4. QED
    BY <1>1, <1>2, <2>2, <2>3 DEF AttemptRowsMatch
<1>7. CASE Settles(t, row, type)
  BY <1>1, <1>2, <1>7 DEF Settles, AttemptRowsMatch
<1>8. QED
  BY <1>3, <1>4, <1>5, <1>6, <1>7 DEF Change

(* Beyond its budget a task was only ever interrupted: a claim appends to  *)
(* rows whose last one, if the budget is spent, is an interrupted one.     *)
LEMMA BudgetKept ==
  ASSUME TInv, NEW t \in Tasks, TaskInv(t), NEW row \in TaskRow,
         NEW type \in EventTypes, Saves(t, row, type),
         Change(t, row, type) \/ Interrupts(t, row, type)
  PROVE  OverBudgetInterrupted(t)' /\ SpentIsInterrupted(t)'
<1>1. /\ task'[t].status = row.status /\ task'[t].attempt = row.attempt
      /\ task'[t].budget = row.budget
      /\ attempts[t] \in Seq(AttemptStatuses) /\ task[t].attempt \in Nat
      /\ attempts \in [Tasks -> Seq(AttemptStatuses)]
      /\ task[t].budget \in Nat \ {0}
  BY SavedFields, TaskTypes DEF TInv, TypeOK
<1>2. /\ Len(attempts[t]) = task[t].attempt
      /\ \A n \in 1..Len(attempts[t]) :
            task[t].budget <= n /\ n < task[t].attempt => attempts[t][n] = "interrupted"
      /\ SpentIsInterrupted(t)
  BY <1>1 DEF TaskInv, AttemptRowsMatch, OverBudgetInterrupted
<1>3. CASE Opens(t, row, type)
  <2>1. row.budget \in Nat \ {0}
    BY ConstantsAssumption DEF TaskRow
  <2>2. task[t].attempt = 0
    BY <1>3 DEF Opens, TaskInv, NoPast
  <2>3. QED
    BY <1>1, <1>2, <1>3, <2>1, <2>2 DEF Opens, OverBudgetInterrupted, SpentIsInterrupted
<1>4. CASE Claims(t, row, type)
  <2>1. attempts'[t] = Append(attempts[t], "running")
    BY <1>1, <1>4 DEF Claims
  <2>2. row.status = "running" /\ row.attempt = task[t].attempt + 1
        /\ row.budget = task[t].budget /\ task[t].status = "queued"
    BY <1>4 DEF Claims, SameTask
  <2>3. QED
    BY <1>1, <1>2, <2>1, <2>2 DEF OverBudgetInterrupted, SpentIsInterrupted
<1>5. CASE Advances(t, row, type)
  <2>1. row.status = "running" /\ row.attempt = task[t].attempt
        /\ row.budget = task[t].budget /\ attempts'[t] = attempts[t]
    BY <1>5 DEF Advances, SameTask
  <2>2. QED
    BY <1>1, <1>2, <2>1 DEF OverBudgetInterrupted, SpentIsInterrupted
<1>6. CASE Closes(t, row, type)
  <2>1. PICK outcome \in AttemptStatuses \ {"running"} :
            CanClose(t) /\ attempts'[t] = Closed(t, outcome)
    BY <1>1, <1>6 DEF Closes, CloseAttempt
  <2>2. /\ row.attempt = task[t].attempt /\ row.budget = task[t].budget
        /\ row.status = "queued" => row.attempt < row.budget
    BY <1>6 DEF Closes, SameTask
  <2>3. /\ Len(attempts'[t]) = Len(attempts[t])
        /\ \A n \in 1..Len(attempts[t]) : n # task[t].attempt =>
              attempts'[t][n] = attempts[t][n]
        /\ attempts'[t] \in Seq(AttemptStatuses)
    BY <1>1, <2>1, ClosedRows, ClosedType DEF TInv
  <2>4. OverBudgetInterrupted(t)'
    <3>1. ASSUME NEW n \in DOMAIN attempts'[t], task'[t].budget <= n, n < task'[t].attempt
          PROVE  attempts'[t][n] = "interrupted"
      <4>1. n \in 1..Len(attempts[t]) /\ n # task[t].attempt
        BY <1>1, <2>2, <2>3, <3>1
      <4>2. QED
        BY <1>1, <1>2, <2>2, <2>3, <3>1, <4>1
    <3>2. QED
      BY <3>1 DEF OverBudgetInterrupted
  <2>5. SpentIsInterrupted(t)'
    BY <1>1, <2>2 DEF SpentIsInterrupted
  <2>6. QED
    BY <2>4, <2>5
<1>7. CASE Interrupts(t, row, type)
  <2>1. CanClose(t) /\ attempts'[t] = Closed(t, "interrupted")
        /\ "interrupted" \in AttemptStatuses
    BY <1>7 DEF Interrupts, AttemptStatuses
  <2>2. row.attempt = task[t].attempt /\ row.budget = task[t].budget
    BY <1>7 DEF Interrupts, SameTask
  <2>3. /\ Len(attempts'[t]) = Len(attempts[t])
        /\ attempts'[t][task[t].attempt] = "interrupted"
        /\ \A n \in 1..Len(attempts[t]) : n # task[t].attempt =>
              attempts'[t][n] = attempts[t][n]
        /\ attempts'[t] \in Seq(AttemptStatuses)
    BY <1>1, <2>1, ClosedRows, ClosedType DEF TInv
  <2>4. QED
    BY <1>1, <1>2, <2>2, <2>3 DEF OverBudgetInterrupted, SpentIsInterrupted
<1>8. CASE Settles(t, row, type)
  <2>1. /\ row.attempt = task[t].attempt /\ row.budget = task[t].budget
        /\ attempts'[t] = attempts[t]
        /\ row.status = "queued" => row.attempt < row.budget
    BY <1>8 DEF Settles, SameTask
  <2>2. QED
    BY <1>1, <1>2, <2>1 DEF OverBudgetInterrupted, SpentIsInterrupted
<1>9. QED
  BY <1>3, <1>4, <1>5, <1>6, <1>7, <1>8 DEF Change

(* A task comes back to the queue with its progress cleared, and if it is  *)
(* not safe to replay, by a retry only.                                    *)
LEMMA QueueKept ==
  ASSUME TInv, NEW t \in Tasks, TaskInv(t), NEW row \in TaskRow,
         row.status \in Statuses, NEW type \in EventTypes, Saves(t, row, type),
         Change(t, row, type) \/ Interrupts(t, row, type)
  PROVE  NoPast(t)' /\ QueuedAtZero(t)' /\ RequeuedByOperator(t)'
<1>1. /\ task'[t].status = row.status /\ task'[t].attempt = row.attempt
      /\ task'[t].policy = row.policy /\ task'[t].progress = row.progress
      /\ Len(events'[t]) = Len(events[t]) + 1
      /\ events'[t][Len(events[t]) + 1] = Event(type, task'[t])
  BY SavedFields
<1>2. /\ row.status = "queued" => row.progress = 0
      /\ row.status = "queued" /\ row.attempt > 0 /\ row.policy # "safe" =>
            type = "retried"
  <2>1. CASE Opens(t, row, type)
    BY <2>1 DEF Opens
  <2>2. CASE Claims(t, row, type) \/ Advances(t, row, type)
    BY <2>2 DEF Claims, Advances
  <2>3. CASE Closes(t, row, type) \/ Interrupts(t, row, type)
    BY <2>3 DEF Closes, Interrupts
  <2>4. CASE Settles(t, row, type)
    BY <2>4 DEF Settles
  <2>5. QED
    BY <2>1, <2>2, <2>3, <2>4 DEF Change
<1>3. row.status # "absent"
  BY DEF Statuses
<1>4. Event(type, task'[t]).type = type
  BY DEF Event
<1>5. QED
  BY <1>1, <1>2, <1>3, <1>4 DEF NoPast, Exists, QueuedAtZero, RequeuedByOperator

(* The attempt number grows with a claim only, and a claim is announced    *)
(* with the zero progress of the queued row.                               *)
LEMMA ClaimsKept ==
  ASSUME TInv, NEW t \in Tasks, TaskInv(t), NEW row \in TaskRow,
         NEW type \in EventTypes, Saves(t, row, type),
         Change(t, row, type) \/ Interrupts(t, row, type)
  PROVE  ClaimsReportZero(t)'
<1>1. /\ Len(events'[t]) = Len(events[t]) + 1
      /\ events'[t][Len(events[t]) + 1].type = type
      /\ events'[t][Len(events[t]) + 1].task.attempt = row.attempt
      /\ events'[t][Len(events[t]) + 1].task.progress = row.progress
      /\ \A r \in 1..Len(events[t]) : events'[t][r] = events[t][r]
  <2>1. Event(type, task'[t]).task = task'[t] /\ Event(type, task'[t]).type = type
    BY DEF Event
  <2>2. QED
    BY <2>1, SavedFields
<1>2. /\ events[t] \in Seq(EventRow) /\ events'[t] \in Seq(EventRow)
      /\ task[t].attempt \in Nat
  BY TaskTypes, SavedFields DEF Saves
<1>3. ASSUME Len(events[t]) > 0
      PROVE  /\ events[t][Len(events[t])].task.attempt = task[t].attempt
             /\ row.attempt > task[t].attempt => type = "progressed" /\ row.progress = 0
  <2>1. Exists(t)
    <3>1. ~Exists(t) => Len(events[t]) = 0
      BY DEF TaskInv, NoPast, EventsReplay
    <3>2. QED
      BY <1>3, <3>1
  <2>2. events[t][Len(events[t])].task.attempt = task[t].attempt
    BY <2>1 DEF TaskInv, EventsReplay
  <2>3. CASE Claims(t, row, type)
    BY <2>2, <2>3 DEF Claims, TaskInv, QueuedAtZero
  <2>4. CASE ~Claims(t, row, type)
    <3>1. row.attempt = task[t].attempt
      BY <2>1, <2>4 DEF Change, Opens, Advances, Closes, Settles, Interrupts
    <3>2. QED
      BY <1>2, <2>2, <3>1
  <2>5. QED
    BY <2>3, <2>4
<1>4. ASSUME NEW r \in DOMAIN events'[t], r > 1,
             events'[t][r].task.attempt > events'[t][r - 1].task.attempt
      PROVE  events'[t][r].type = "progressed" /\ events'[t][r].task.progress = 0
  <2>1. CASE r \in 1..Len(events[t])
    <3>1. r - 1 \in 1..Len(events[t])
      BY <1>4, <2>1, <1>2
    <3>2. events'[t][r] = events[t][r] /\ events'[t][r - 1] = events[t][r - 1]
      BY <1>1, <2>1, <3>1
    <3>3. r \in DOMAIN events[t] /\ ClaimsReportZero(t)
      BY <1>2, <2>1 DEF TaskInv
    <3>4. QED
      BY <1>4, <3>2, <3>3 DEF ClaimsReportZero
  <2>2. CASE r = Len(events[t]) + 1
    <3>1. Len(events[t]) > 0 /\ r - 1 = Len(events[t]) /\ r - 1 \in 1..Len(events[t])
      BY <1>2, <1>4, <2>2
    <3>2. events'[t][r - 1] = events[t][Len(events[t])]
      BY <1>1, <3>1
    <3>3. QED
      BY <1>1, <1>3, <1>4, <2>2, <3>1, <3>2
  <2>3. QED
    BY <1>1, <1>2, <2>1, <2>2
<1>5. QED
  BY <1>4 DEF ClaimsReportZero

-------------------------------------------------------------------------------
IInv == TInv /\ \A t \in Tasks : TaskInv(t)

(* Every step keeps every part of the per-task invariant: a task is        *)
(* untouched, saved once, or interrupted.                                  *)
LEMMA TaskInvKept ==
  ASSUME IInv, Next, NEW t \in Tasks
  PROVE  TaskInv(t)'
<1>1. TInv /\ TaskInv(t)
  BY DEF IInv
<1>2. CASE Untouched(t)
  BY <1>1, <1>2 DEF Untouched, TaskInv, NoPast, Exists, QueuedAtZero,
       SpentIsInterrupted, AttemptRowsMatch, EventsReplay, OverBudgetInterrupted,
       RequeuedByOperator, ClaimsReportZero
<1>3. CASE SavesOrInterrupts(t)
  <2>1. PICK row \in TaskRow, type \in EventTypes :
           /\ Saves(t, row, type) /\ row.status \in Statuses
           /\ Change(t, row, type) \/ Interrupts(t, row, type)
    BY <1>3 DEF SavesOrInterrupts
  <2>2. EventsReplay(t)' /\ AttemptRowsMatch(t)'
    BY <1>1, <2>1, EventsKept, AttemptsKept
  <2>3. OverBudgetInterrupted(t)' /\ SpentIsInterrupted(t)'
    BY <1>1, <2>1, BudgetKept
  <2>4. /\ NoPast(t)' /\ QueuedAtZero(t)' /\ RequeuedByOperator(t)'
        /\ ClaimsReportZero(t)'
    BY <1>1, <2>1, QueueKept, ClaimsKept
  <2>5. QED
    BY <2>2, <2>3, <2>4 DEF TaskInv
<1>4. QED
  BY <1>1, <1>2, <1>3, StepOfTask

(* The invariant is inductive.                                             *)
THEOREM Inductive == Spec => []IInv
<1>1. Init => \A t \in Tasks : TaskInv(t)
  <2> SUFFICES ASSUME Init, NEW t \in Tasks PROVE TaskInv(t)
    OBVIOUS
  <2>1. /\ task[t] = AbsentTask /\ attempts[t] = <<>> /\ events[t] = <<>>
    BY DEF Init
  <2>2. QED
    BY <2>1 DEF AbsentTask, TaskInv, NoPast, Exists, QueuedAtZero,
         SpentIsInterrupted, AttemptRowsMatch, EventsReplay, OverBudgetInterrupted,
         RequeuedByOperator, ClaimsReportZero
<1>2. TInv /\ TInv' /\ (\A t \in Tasks : TaskInv(t)) /\ [Next]_vars
         => (\A t \in Tasks : TaskInv(t))'
  <2> SUFFICES ASSUME TInv, \A t \in Tasks : TaskInv(t), [Next]_vars, NEW t \in Tasks
               PROVE  TaskInv(t)'
    OBVIOUS
  <2>1. CASE UNCHANGED vars
    <3>1. TaskInv(t)
      OBVIOUS
    <3>2. QED
      BY <2>1, <3>1 DEF vars, TaskInv, NoPast, Exists, QueuedAtZero,
         SpentIsInterrupted, AttemptRowsMatch, EventsReplay, OverBudgetInterrupted,
         RequeuedByOperator, ClaimsReportZero
  <2>2. CASE Next
    BY <2>2, TaskInvKept DEF IInv
  <2>3. QED
    BY <2>1, <2>2
<1>3. Spec => []TInv
  BY TypeCorrect DEF TInv
<1>4. QED
  BY <1>1, <1>2, <1>3, PTL DEF Spec, IInv

(* For every instance: one attempt row per claim, the last one open        *)
(* exactly while the task runs.                                            *)
THEOREM AttemptRowsSafe == Spec => []AttemptRowsMatchTask
<1>1. IInv => AttemptRowsMatchTask
  BY DEF IInv, TaskInv, AttemptRowsMatchTask
<1>2. QED
  BY <1>1, Inductive, PTL

(* For every instance: the event log of a task replays to its stored row,  *)
(* one event per revision.                                                 *)
THEOREM EventsSafe == Spec => []EventsReplayToRow
<1>1. IInv => EventsReplayToRow
  BY DEF IInv, TaskInv, EventsReplayToRow
<1>2. QED
  BY <1>1, Inductive, PTL

(* For every instance: beyond maxAttempts a task is run again only after   *)
(* an interruption.                                                        *)
THEOREM BudgetSafe == Spec => []OverBudgetOnlyByInterruption
<1>1. IInv => OverBudgetOnlyByInterruption
  BY DEF IInv, TaskInv, OverBudgetOnlyByInterruption
<1>2. QED
  BY <1>1, Inductive, PTL

(* For every instance: work that is not safe to replay is never re-queued  *)
(* without an approved retry.                                              *)
THEOREM RequeueSafe == Spec => []RequeueNeedsOperator
<1>1. IInv => RequeueNeedsOperator
  BY DEF IInv, TaskInv, RequeueNeedsOperator
<1>2. QED
  BY <1>1, Inductive, PTL

(* For every instance: the event of a claim reports progress zero.         *)
THEOREM ClaimsSafe == Spec => []ClaimReportsZero
<1>1. IInv => ClaimReportsZero
  BY DEF IInv, TaskInv, ClaimReportsZero
<1>2. QED
  BY <1>1, Inductive, PTL

-------------------------------------------------------------------------------
(* Succeeded and canceled tasks are not written again.                     *)
LEMMA SettledUntouched ==
  ASSUME TInv, Next, NEW t \in Tasks, task[t].status \in {"succeeded", "canceled"}
  PROVE  Untouched(t)
<1>1. ASSUME SavesOrInterrupts(t) PROVE FALSE
  <2>1. PICK row \in TaskRow, type \in EventTypes :
           Change(t, row, type) \/ Interrupts(t, row, type)
    BY <1>1 DEF SavesOrInterrupts
  <2>2. task[t].status \in {"absent", "queued", "running", "failed", "awaitingApproval"}
    BY <2>1 DEF Change, Opens, Exists, Claims, Advances, Closes, Settles, Interrupts
  <2>3. QED
    BY <2>2
<1>2. QED
  BY <1>1, StepOfTask

(* A step that starts a task finds its dependencies succeeded, and no step *)
(* takes that back.                                                        *)
LEMMA DependenciesKept ==
  ASSUME TInv, DependenciesSucceededFirst, Next
  PROVE  DependenciesSucceededFirst'
<1> SUFFICES ASSUME NEW t \in Tasks, task'[t].attempt > 0, NEW d \in task'[t].deps
             PROVE  task'[d].status = "succeeded"
  BY DEF DependenciesSucceededFirst
<1>1. /\ task[t].deps \subseteq Tasks /\ task[t].attempt \in Nat
  BY TaskTypes DEF TaskRow
<1>2. /\ task'[t].deps = task[t].deps
      /\ task[d].status = "succeeded"
  <2>1. CASE Untouched(t)
    BY <2>1 DEF Untouched, DependenciesSucceededFirst
  <2>2. CASE SavesOrInterrupts(t)
    <3>1. PICK row \in TaskRow, type \in EventTypes :
             /\ Saves(t, row, type)
             /\ Change(t, row, type) \/ Interrupts(t, row, type)
      BY <2>2 DEF SavesOrInterrupts
    <3>2. task'[t].attempt = row.attempt /\ task'[t].deps = row.deps
      BY <3>1, SavedFields
    <3>3. CASE Opens(t, row, type)
      BY <3>2, <3>3 DEF Opens
    <3>4. CASE Claims(t, row, type)
      BY <3>2, <3>4 DEF Claims, SameTask
    <3>5. CASE /\ ~Opens(t, row, type) /\ ~Claims(t, row, type)
      <4>1. row.attempt = task[t].attempt /\ row.deps = task[t].deps
        BY <3>1, <3>5 DEF Change, Advances, Closes, Settles, Interrupts, SameTask
      <4>2. QED
        BY <3>2, <4>1 DEF DependenciesSucceededFirst
    <3>6. QED
      BY <3>3, <3>4, <3>5
  <2>3. QED
    BY <2>1, <2>2, StepOfTask
<1>3. d \in Tasks
  BY <1>1, <1>2
<1>4. QED
  BY <1>2, <1>3, SettledUntouched DEF Untouched

(* For every instance: no execution before everything the task depends on  *)
(* has succeeded.                                                          *)
THEOREM DependenciesSafe == Spec => []DependenciesSucceededFirst
<1>1. Init => DependenciesSucceededFirst
  BY DEF Init, AbsentTask, DependenciesSucceededFirst
<1>2. TInv /\ DependenciesSucceededFirst /\ [Next]_vars => DependenciesSucceededFirst'
  <2>1. CASE UNCHANGED vars
    BY <2>1 DEF vars, DependenciesSucceededFirst
  <2>2. CASE Next
    BY <2>2, DependenciesKept
  <2>3. QED
    BY <2>1, <2>2
<1>3. Spec => []TInv
  BY TypeCorrect DEF TInv
<1>4. QED
  BY <1>1, <1>2, <1>3, PTL DEF Spec

Settled(t) ==
    /\ task[t].status \in {"succeeded", "canceled"} => UNCHANGED task[t]
    /\ \A n \in DOMAIN attempts[t] : attempts[t][n] # "running"
          => n \in DOMAIN attempts'[t] /\ attempts'[t][n] = attempts[t][n]
    /\ \A r \in DOMAIN events[t] :
          r \in DOMAIN events'[t] /\ events'[t][r] = events[t][r]

(* Closing rewrites the open row only; a claim and an event only append.   *)
LEMMA StepSettles ==
  ASSUME TInv, Next, NEW t \in Tasks
  PROVE  Settled(t)
<1>1. /\ attempts[t] \in Seq(AttemptStatuses) /\ events[t] \in Seq(EventRow)
      /\ attempts \in [Tasks -> Seq(AttemptStatuses)]
  BY TaskTypes DEF TInv, TypeOK
<1>2. CASE Untouched(t)
  BY <1>2 DEF Untouched, Settled
<1>3. CASE SavesOrInterrupts(t)
  <2>1. PICK row \in TaskRow, type \in EventTypes :
           /\ Saves(t, row, type)
           /\ Change(t, row, type) \/ Interrupts(t, row, type)
    BY <1>3 DEF SavesOrInterrupts
  <2>2. \A r \in DOMAIN events[t] :
           r \in DOMAIN events'[t] /\ events'[t][r] = events[t][r]
    <3>1. /\ Len(events'[t]) = Len(events[t]) + 1
          /\ \A r \in 1..Len(events[t]) : events'[t][r] = events[t][r]
          /\ Event(type, task'[t]) \in EventRow
      BY <2>1, SavedFields
    <3>2. events'[t] \in Seq(EventRow)
      BY <1>1, <2>1, <3>1 DEF Saves
    <3>3. /\ DOMAIN events[t] = 1..Len(events[t])
          /\ DOMAIN events'[t] = 1..Len(events[t]) + 1
          /\ Len(events[t]) \in Nat
      BY <1>1, <3>1, <3>2
    <3>4. QED
      BY <3>1, <3>3
  <2>3. \A n \in DOMAIN attempts[t] : attempts[t][n] # "running"
           => n \in DOMAIN attempts'[t] /\ attempts'[t][n] = attempts[t][n]
    <3>1. CASE attempts'[t] = attempts[t]
      BY <3>1
    <3>2. CASE attempts'[t] = Append(attempts[t], "running")
      BY <1>1, <3>2
    <3>3. CASE \E outcome \in AttemptStatuses :
                  CanClose(t) /\ attempts'[t] = Closed(t, outcome)
      BY <1>1, <3>3 DEF CanClose, Closed
    <3>4. \/ attempts'[t] = attempts[t]
          \/ attempts'[t] = Append(attempts[t], "running")
          \/ \E outcome \in AttemptStatuses :
                CanClose(t) /\ attempts'[t] = Closed(t, outcome)
      <4>1. "interrupted" \in AttemptStatuses
        BY DEF AttemptStatuses
      <4>2. CASE Claims(t, row, type)
        BY <1>1, <4>2 DEF Claims
      <4>3. CASE Closes(t, row, type)
        BY <1>1, <4>3 DEF Closes, CloseAttempt
      <4>4. CASE Interrupts(t, row, type)
        BY <4>1, <4>4 DEF Interrupts
      <4>5. CASE Opens(t, row, type) \/ Advances(t, row, type) \/ Settles(t, row, type)
        BY <4>5 DEF Opens, Advances, Settles
      <4>6. QED
        BY <2>1, <4>2, <4>3, <4>4, <4>5 DEF Change
    <3>5. QED
      BY <3>1, <3>2, <3>3, <3>4
  <2>4. task[t].status \in {"succeeded", "canceled"} => UNCHANGED task[t]
    BY SettledUntouched DEF Untouched
  <2>5. QED
    BY <2>2, <2>3, <2>4 DEF Settled
<1>4. QED
  BY <1>2, <1>3, StepOfTask

(* For every instance: settled tasks, closed attempt rows and events are   *)
(* never rewritten.                                                        *)
THEOREM SettledSafe == Spec => SettledStays
<1>1. TInv /\ [Next]_vars => [\A t \in Tasks : Settled(t)]_vars
  BY StepSettles
<1>2. Spec => []TInv
  BY TypeCorrect DEF TInv
<1>3. QED
  BY <1>1, <1>2, PTL DEF Spec, SettledStays, Settled

-------------------------------------------------------------------------------
(***************************************************************************)
(* The history table.  Every operation but a progress report writes one    *)
(* history row with the row it saves; a progress report writes none, and   *)
(* leaves the status alone.                                                *)
(***************************************************************************)
Trails(t) ==
    /\ task'[t].status \in Statuses
    /\ task'[t].revision = task[t].revision + 1
    /\ history'[t] = Append(history[t], Trail(t, task'[t]))

StatusKept(t) == history'[t] = history[t] /\ task'[t].status = task[t].status

(* A change of status of one task trails that task and no other.           *)
LEMMA MoveTrails ==
  ASSUME TInv, NEW u \in Tasks, NEW row \in TaskRow, row.status \in Statuses,
         NEW type, Move(u, row, type), NEW t \in Tasks
  PROVE  StatusKept(t) \/ Trails(t)
<1>1. /\ task \in [Tasks -> TaskRow] /\ history \in [Tasks -> Seq(HistoryRow)]
      /\ task' = [task EXCEPT ![u] = Saved(u, row)]
      /\ history' = [history EXCEPT ![u] = Append(@, Trail(u, row))]
  BY DEF TInv, TypeOK, Move, AppendEvent, AppendHistory
<1>2. CASE t = u
  <2>1. task'[t].status = row.status /\ task'[t].revision = task[t].revision + 1
    BY <1>1, <1>2 DEF Saved, TaskRow
  <2>2. history'[t] = Append(history[t], Trail(t, task'[t]))
    BY <1>1, <1>2, <2>1 DEF Trail
  <2>3. QED
    BY <2>1, <2>2 DEF Trails
<1>3. CASE t # u
  BY <1>1, <1>3 DEF StatusKept
<1>4. QED
  BY <1>2, <1>3

(* Seen from every task, a step keeps its status and history or extends    *)
(* its trail by the change it makes.                                       *)
LEMMA HistoryStep ==
  ASSUME TInv, Next, NEW t \in Tasks
  PROVE  StatusKept(t) \/ Trails(t)
<1>0. /\ TypeOK /\ \A u \in Tasks : task[u] \in TaskRow
      /\ {"running", "succeeded", "canceled", "queued"} \subseteq Statuses
      /\ 0 \in 0..MaxProgress /\ MaxProgress \in 0..MaxProgress
  BY ConstantsAssumption DEF TInv, TypeOK, Statuses
<1>1. ASSUME NEW u \in Tasks, NEW command \in Ids, NEW key \in Ids,
             NEW payload \in Payloads, NEW deps \in SUBSET Tasks,
             Create(command, key, payload, deps, u)
      PROVE  StatusKept(t) \/ Trails(t)
  <2>1. NewTask(payload, deps) \in TaskRow /\ NewTask(payload, deps).status \in Statuses
    BY <1>0, CreateWrites DEF NewTask
  <2>2. QED
    BY <1>1, <2>1, MoveTrails DEF Create
<1>2. ASSUME NEW u \in Tasks, NEW command \in Ids, NEW key \in Ids,
             NEW expected \in 1..MaxRevision, Cancel(command, key, u, expected)
      PROVE  StatusKept(t) \/ Trails(t)
  <2> DEFINE row == [task[u] EXCEPT !.status = "canceled"]
  <2>1. row \in TaskRow
    BY <1>0, StatusWrites
  <2>2. row.status \in Statuses
    BY <1>0 DEF TaskRow
  <2>3. QED
    BY <1>2, <2>1, <2>2, MoveTrails DEF Cancel
<1>3. ASSUME NEW u \in Tasks, NEW command \in Ids, NEW key \in Ids,
             NEW expected \in 1..MaxRevision, Retry(command, key, u, expected)
      PROVE  StatusKept(t) \/ Trails(t)
  <2> DEFINE row == [task[u] EXCEPT !.status = "queued", !.progress = 0]
  <2>1. row \in TaskRow
    BY <1>0, StatusWrites
  <2>2. row.status \in Statuses
    BY <1>0 DEF TaskRow
  <2>3. QED
    BY <1>3, <2>1, <2>2, MoveTrails DEF Retry
<1>4. ASSUME NEW u \in Tasks, NEW kinds \in SUBSET Kinds, Claim(u, kinds)
      PROVE  StatusKept(t) \/ Trails(t)
  <2> DEFINE row == [task[u] EXCEPT !.status = "running", !.attempt = @ + 1]
  <2>1. row \in TaskRow
    BY <1>0, StatusWrites
  <2>2. row.status \in Statuses
    BY <1>0 DEF TaskRow
  <2>3. QED
    BY <1>4, <2>1, <2>2, MoveTrails DEF Claim
<1>5. ASSUME NEW u \in Tasks, NEW attempt \in 1..MaxRevision,
             NEW progress \in 1..MaxProgress, UpdateProgress(u, attempt, progress)
      PROVE  StatusKept(t)
  <2>1. /\ task' = [task EXCEPT ![u] = Saved(u, [task[u] EXCEPT !.progress = progress])]
        /\ history' = history /\ task \in [Tasks -> TaskRow]
    BY <1>0, <1>5 DEF UpdateProgress, AppendEvent, TypeOK
  <2>2. Saved(u, [task[u] EXCEPT !.progress = progress]).status = task[u].status
    BY <1>0 DEF Saved, TaskRow
  <2>3. QED
    BY <2>1, <2>2 DEF StatusKept
<1>6. ASSUME NEW u \in Tasks, NEW attempt \in 1..MaxRevision, FinishSuccess(u, attempt)
      PROVE  StatusKept(t) \/ Trails(t)
  <2> DEFINE row == [task[u] EXCEPT !.status = "succeeded", !.progress = MaxProgress]
  <2>1. row \in TaskRow
    BY <1>0, StatusWrites
  <2>2. row.status \in Statuses
    BY <1>0 DEF TaskRow
  <2>3. QED
    BY <1>6, <2>1, <2>2, MoveTrails DEF FinishSuccess
<1>7. ASSUME NEW u \in Tasks, NEW attempt \in 1..MaxRevision,
             NEW retryable \in BOOLEAN, FinishFailure(u, attempt, retryable)
      PROVE  StatusKept(t) \/ Trails(t)
  <2> DEFINE next == AfterFailure(u, retryable)
             row == [task[u] EXCEPT !.status = next, !.progress = 0]
  <2>1. next \in Statuses
    BY <1>0, AfterFailureType DEF Statuses
  <2>2. row \in TaskRow
    BY <1>0, <2>1, StatusWrites
  <2>3. row.status \in Statuses
    BY <1>0, <2>1 DEF TaskRow
  <2>4. Move(u, row, FailureEvent(next))
    BY <1>7 DEF FinishFailure
  <2>5. QED
    BY <2>2, <2>3, <2>4, MoveTrails
<1>8. ASSUME Recover
      PROVE  StatusKept(t) \/ Trails(t)
  <2>1. CASE t \in Running
    <3>1. task'[t] = Saved(t, Recovered(t))
      BY <1>8, <2>1 DEF Recover
    <3>2. history'[t] = Append(history[t], Trail(t, Recovered(t)))
      BY <1>8, <2>1 DEF Recover
    <3>3. AfterInterruption(t) \in Statuses
      BY DEF AfterInterruption, Statuses
    <3>4. Recovered(t) \in TaskRow
      BY <1>0, <3>3, StatusWrites DEF Recovered
    <3>5. Recovered(t).status = AfterInterruption(t)
      BY <1>0 DEF Recovered, TaskRow
    <3>6. task'[t].status = Recovered(t).status /\ task'[t].revision = task[t].revision + 1
      BY <3>1, <3>4 DEF Saved, TaskRow
    <3>7. Trail(t, task'[t]) = Trail(t, Recovered(t))
      BY <3>6 DEF Trail
    <3>8. QED
      BY <3>2, <3>3, <3>5, <3>6, <3>7 DEF Trails
  <2>2. CASE t \notin Running
    BY <1>8, <2>2 DEF Recover, StatusKept
  <2>3. QED
    BY <2>1, <2>2
<1>9. QED
  BY <1>1, <1>2, <1>3, <1>4, <1>5, <1>6, <1>7, <1>8 DEF Next

(* HistoryIsTheTrail for one task, and that the table has rows of created  *)
(* tasks only.                                                             *)
TrailRow(t, i) ==
    /\ history[t][i].from = IF i = 1 THEN "absent" ELSE history[t][i - 1].to
    /\ history[t][i].revision \in DOMAIN events[t]
    /\ events[t][history[t][i].revision].task.status = history[t][i].to
    /\ i > 1 => history[t][i - 1].revision < history[t][i].revision

TrailOK(t) ==
    /\ ~Exists(t) => Len(history[t]) = 0
    /\ Exists(t) => Len(history[t]) > 0 /\ history[t][Len(history[t])].to = task[t].status
    /\ \A i \in DOMAIN history[t] : TrailRow(t, i)

(* The row a change appends starts at the status the last one ended at,    *)
(* and has the revision of the event appended with it.                     *)
LEMMA TrailKept ==
  ASSUME IInv, IInv', Next, NEW t \in Tasks, TrailOK(t)
  PROVE  TrailOK(t)'
<1>0. TInv /\ TInv' /\ TaskInv(t) /\ TaskInv(t)'
  BY DEF IInv
<1>1. /\ history[t] \in Seq(HistoryRow) /\ history'[t] \in Seq(HistoryRow)
      /\ events[t] \in Seq(EventRow) /\ events'[t] \in Seq(EventRow)
      /\ task[t].revision \in Nat
  BY <1>0, TaskTypes DEF TInv, TypeOK
<1>2. \A r \in DOMAIN events[t] : r \in DOMAIN events'[t] /\ events'[t][r] = events[t][r]
  BY <1>0, StepSettles DEF Settled
<1>3. ASSUME NEW i \in DOMAIN history[t], history'[t][i] = history[t][i],
             i > 1 => history'[t][i - 1] = history[t][i - 1]
      PROVE  TrailRow(t, i)'
  <2>1. TrailRow(t, i)
    BY DEF TrailOK
  <2>2. /\ history[t][i].revision \in DOMAIN events'[t]
        /\ events'[t][history[t][i].revision] = events[t][history[t][i].revision]
    BY <1>2, <2>1 DEF TrailRow
  <2>3. i = 1 \/ i > 1
    BY <1>1
  <2>4. QED
    BY <1>3, <2>1, <2>2, <2>3 DEF TrailRow
<1>4. CASE StatusKept(t)
  BY <1>3, <1>4 DEF StatusKept, TrailOK, Exists
<1>5. CASE Trails(t)
  <2> DEFINE n == Len(history[t])
             new == Trail(t, task'[t])
  <2>1. /\ Len(history'[t]) = n + 1 /\ history'[t][n + 1] = new
        /\ \A i \in 1..n : history'[t][i] = history[t][i]
        /\ n \in Nat /\ DOMAIN history[t] = 1..n /\ DOMAIN history'[t] = 1..(n + 1)
    <3>1. new \in HistoryRow
      BY <1>0, <1>5, TaskTypes DEF Trails, Trail, HistoryRow, TaskRow
    <3>2. QED
      BY <1>1, <1>5, <3>1 DEF Trails
  <2>2. /\ new.from = task[t].status /\ new.to = task'[t].status
        /\ new.revision = task[t].revision + 1 /\ task'[t].status # "absent"
        /\ task'[t].revision = task[t].revision + 1
    BY <1>5 DEF Trails, Trail, Statuses
  <2>3. /\ task[t].revision + 1 \in DOMAIN events'[t]
        /\ events'[t][task[t].revision + 1].task = task'[t]
    <3>1. Len(events'[t]) = task[t].revision + 1
      BY <1>0, <2>2 DEF TaskInv, EventsReplay
    <3>2. events'[t][Len(events'[t])].task = task'[t]
      BY <1>0, <2>2 DEF TaskInv, EventsReplay, Exists
    <3>3. QED
      BY <1>1, <3>1, <3>2
  <2>4. ASSUME NEW i, i = n + 1
        PROVE  TrailRow(t, i)'
    <3>1. /\ history'[t][i] = new /\ new.revision \in DOMAIN events'[t]
          /\ events'[t][new.revision].task.status = new.to
      BY <2>1, <2>2, <2>3, <2>4
    <3>2. CASE n = 0
      <4>1. task[t].status = "absent" /\ i = 1
        BY <2>1, <2>4, <3>2 DEF TrailOK, Exists
      <4>2. QED
        BY <2>2, <3>1, <4>1 DEF TrailRow
    <3>3. CASE n > 0
      <4>1. history[t][n].to = task[t].status /\ n \in DOMAIN history[t]
        BY <2>1, <3>3 DEF TrailOK, Exists
      <4>2. history[t][n].revision \in 1..task[t].revision
        BY <1>0, <1>1, <4>1 DEF TrailOK, TrailRow, TaskInv, EventsReplay
      <4>3. history'[t][i - 1] = history[t][n] /\ i > 1
        BY <2>1, <2>4, <3>3
      <4>4. history[t][n].revision < new.revision
        BY <1>1, <2>2, <4>2
      <4>5. QED
        BY <2>2, <3>1, <4>1, <4>3, <4>4 DEF TrailRow
    <3>4. QED
      BY <2>1, <3>2, <3>3
  <2>5. ASSUME NEW i \in 1..n
        PROVE  TrailRow(t, i)'
    <3>1. i > 1 => i - 1 \in 1..n
      BY <2>1
    <3>2. QED
      BY <1>3, <2>1, <3>1
  <2>6. \A i \in DOMAIN history'[t] : TrailRow(t, i)'
    <3>1. \A i \in 1..(n + 1) : i \in 1..n \/ i = n + 1
      BY <2>1
    <3>2. QED
      BY <2>1, <2>4, <2>5, <3>1
  <2>7. Len(history'[t]) > 0 /\ history'[t][Len(history'[t])].to = task'[t].status
    BY <2>1, <2>2
  <2>8. QED
    BY <2>2, <2>6, <2>7 DEF TrailOK, Exists
<1>6. QED
  BY <1>0, <1>4, <1>5, HistoryStep

(* For every instance: the history table is the unbroken trail of every    *)
(* task's status, and agrees with its event log.                           *)
THEOREM HistorySafe == Spec => []HistoryIsTheTrail
<1> DEFINE All == \A t \in Tasks : TrailOK(t)
<1>1. Init => All
  <2> SUFFICES ASSUME Init, NEW t \in Tasks PROVE TrailOK(t)
    OBVIOUS
  <2>1. task[t].status = "absent" /\ history[t] = <<>>
    BY DEF Init, AbsentTask
  <2>2. QED
    BY <2>1 DEF TrailOK, Exists
<1>2. IInv /\ IInv' /\ All /\ [Next]_vars => All'
  <2> SUFFICES ASSUME IInv, IInv', All, [Next]_vars, NEW t \in Tasks
               PROVE  TrailOK(t)'
    OBVIOUS
  <2>1. CASE UNCHANGED vars
    <3>1. TrailOK(t)
      OBVIOUS
    <3>2. QED
      BY <2>1, <3>1 DEF vars, TrailOK, TrailRow, Exists
  <2>2. CASE Next
    BY <2>2, TrailKept
  <2>3. QED
    BY <2>1, <2>2
<1>3. All => HistoryIsTheTrail
  BY DEF TrailOK, TrailRow, HistoryIsTheTrail
<1> HIDE DEF All
<1>4. QED
  BY <1>1, <1>2, <1>3, Inductive, PTL DEF Spec

-------------------------------------------------------------------------------
(***************************************************************************)
(* Receipts.  A step is a committed command, which adds one receipt and    *)
(* the event that its request asks for, or it touches no receipt and adds  *)
(* no event of a command.                                                  *)
(***************************************************************************)
CommandTypesOf == {"created", "canceled", "retried"}

(* The event a request asks for, of the task and revision it names.        *)
Asks(request, t, type) ==
    /\ CASE request.type = "create" -> type = "created"
         [] request.type = "cancel" -> type = "canceled"
         [] request.type = "retry"  -> type = "retried"
    /\ request.type # "create" =>
          request.task = t /\ request.expected = task[t].revision

Committed(command, key, request, t, type) ==
    /\ Commit(command, key, request, t)
    /\ Asks(request, t, type)
    /\ \E event \in EventRow :
          /\ event.type = type
          /\ events' = [events EXCEPT ![t] = Append(@, event)]

SomeCommand ==
    \E command \in Ids, key \in Ids, request \in Request, t \in Tasks,
       type \in CommandTypesOf : Committed(command, key, request, t, type)

Adds(t, event) == events'[t] = Append(events[t], event)

NoCommand ==
    /\ UNCHANGED receipts
    /\ \A t \in Tasks :
          \/ events'[t] = events[t]
          \/ \E event \in EventRow : event.type \notin CommandTypesOf /\ Adds(t, event)

(* A lifecycle operation saves its task under a type that is no command's. *)
LEMMA SaveIsNoCommand ==
  ASSUME TInv, NEW t \in Tasks, NEW row \in TaskRow,
         NEW type \in EventTypes \ CommandTypesOf, AppendEvent(t, type, row),
         UNCHANGED receipts
  PROVE  NoCommand
<1>1. events \in [Tasks -> Seq(EventRow)]
  BY DEF TInv, TypeOK
<1>2. Saved(t, row) \in TaskRow
  BY SavedType DEF TInv
<1>3. Event(type, Saved(t, row)) \in EventRow /\ Event(type, Saved(t, row)).type = type
  BY <1>2 DEF Event, EventRow
<1>4. events' = [events EXCEPT ![t] = Append(@, Event(type, Saved(t, row)))]
  BY DEF AppendEvent
<1>5. QED
  BY <1>1, <1>3, <1>4 DEF NoCommand, Adds

(* A command commits its receipt with the event it asks for.               *)
LEMMA SaveIsCommand ==
  ASSUME TInv, NEW command \in Ids, NEW key \in Ids, NEW request \in Request,
         NEW t \in Tasks, NEW row \in TaskRow, NEW type \in CommandTypesOf,
         AppendEvent(t, type, row), Commit(command, key, request, t),
         Asks(request, t, type)
  PROVE  SomeCommand
<1>1. Saved(t, row) \in TaskRow
  BY SavedType DEF TInv
<1>2. Event(type, Saved(t, row)) \in EventRow /\ Event(type, Saved(t, row)).type = type
  BY <1>1 DEF Event, EventRow, EventTypes, CommandTypesOf
<1>3. events' = [events EXCEPT ![t] = Append(@, Event(type, Saved(t, row)))]
  BY DEF AppendEvent
<1>4. Committed(command, key, request, t, type)
  BY <1>2, <1>3 DEF Committed
<1>5. QED
  BY <1>4 DEF SomeCommand

LEMMA CommandOrNot ==
  ASSUME TInv, Next
  PROVE  SomeCommand \/ NoCommand
<1>0. /\ TypeOK /\ \A t \in Tasks : task[t] \in TaskRow
      /\ {"running", "succeeded", "canceled", "queued"} \subseteq Statuses
      /\ 0 \in 0..MaxProgress /\ MaxProgress \in 0..MaxProgress
      /\ \A progress \in 1..MaxProgress : progress \in 0..MaxProgress
      /\ {"progressed", "succeeded", "failed", "awaitingApproval", "recovered"}
            \subseteq EventTypes \ CommandTypesOf
  BY ConstantsAssumption DEF TInv, TypeOK, Statuses, EventTypes, CommandTypesOf
<1>1. ASSUME NEW t \in Tasks, NEW command \in Ids, NEW key \in Ids,
             NEW payload \in Payloads, NEW deps \in SUBSET Tasks,
             Create(command, key, payload, deps, t)
      PROVE  SomeCommand
  <2> DEFINE request == CreateRequest(payload, deps)
  <2>1. request \in Request /\ NewTask(payload, deps) \in TaskRow
    BY CreateWrites, ConstantsAssumption DEF CreateRequest, Request
  <2>2. Asks(request, t, "created") /\ "created" \in CommandTypesOf
    BY DEF CreateRequest, Asks, CommandTypesOf
  <2>3. Commit(command, key, request, t) /\ AppendEvent(t, "created", NewTask(payload, deps))
    BY <1>1 DEF Create, Move
  <2> HIDE DEF request
  <2>4. QED
    BY <2>1, <2>2, <2>3, SaveIsCommand
<1>2. ASSUME NEW t \in Tasks, NEW command \in Ids, NEW key \in Ids,
             NEW expected \in 1..MaxRevision, Cancel(command, key, t, expected)
      PROVE  SomeCommand
  <2> DEFINE request == TaskRequest("cancel", t, expected)
             row == [task[t] EXCEPT !.status = "canceled"]
  <2>1. request \in Request
    BY ConstantsAssumption DEF TaskRequest, Request
  <2>2. row \in TaskRow
    BY <1>0, StatusWrites
  <2>3. Asks(request, t, "canceled") /\ "canceled" \in CommandTypesOf
    BY <1>2 DEF Cancel, TaskRequest, Asks, CommandTypesOf
  <2>4. Commit(command, key, request, t) /\ AppendEvent(t, "canceled", row)
    BY <1>2 DEF Cancel, Move
  <2> HIDE DEF request
  <2>5. QED
    BY <2>1, <2>2, <2>3, <2>4, SaveIsCommand
<1>3. ASSUME NEW t \in Tasks, NEW command \in Ids, NEW key \in Ids,
             NEW expected \in 1..MaxRevision, Retry(command, key, t, expected)
      PROVE  SomeCommand
  <2> DEFINE request == TaskRequest("retry", t, expected)
             row == [task[t] EXCEPT !.status = "queued", !.progress = 0]
  <2>1. request \in Request
    BY ConstantsAssumption DEF TaskRequest, Request
  <2>2. row \in TaskRow
    BY <1>0, StatusWrites
  <2>3. Asks(request, t, "retried") /\ "retried" \in CommandTypesOf
    BY <1>3 DEF Retry, TaskRequest, Asks, CommandTypesOf
  <2>4. Commit(command, key, request, t) /\ AppendEvent(t, "retried", row)
    BY <1>3 DEF Retry, Move
  <2> HIDE DEF request
  <2>5. QED
    BY <2>1, <2>2, <2>3, <2>4, SaveIsCommand
<1>4. ASSUME NEW t \in Tasks, NEW kinds \in SUBSET Kinds, Claim(t, kinds)
      PROVE  NoCommand
  <2>1. [task[t] EXCEPT !.status = "running", !.attempt = @ + 1] \in TaskRow
    BY <1>0, StatusWrites
  <2>2. QED
    BY <1>0, <1>4, <2>1, SaveIsNoCommand DEF Claim, Move
<1>5. ASSUME NEW t \in Tasks, NEW attempt \in 1..MaxRevision,
             NEW progress \in 1..MaxProgress, UpdateProgress(t, attempt, progress)
      PROVE  NoCommand
  <2>1. [task[t] EXCEPT !.progress = progress] \in TaskRow
    BY <1>0, StatusWrites
  <2>2. QED
    BY <1>0, <1>5, <2>1, SaveIsNoCommand DEF UpdateProgress
<1>6. ASSUME NEW t \in Tasks, NEW attempt \in 1..MaxRevision, FinishSuccess(t, attempt)
      PROVE  NoCommand
  <2>1. [task[t] EXCEPT !.status = "succeeded", !.progress = MaxProgress] \in TaskRow
    BY <1>0, StatusWrites
  <2>2. QED
    BY <1>0, <1>6, <2>1, SaveIsNoCommand DEF FinishSuccess, Move
<1>7. ASSUME NEW t \in Tasks, NEW attempt \in 1..MaxRevision,
             NEW retryable \in BOOLEAN, FinishFailure(t, attempt, retryable)
      PROVE  NoCommand
  <2> DEFINE next == AfterFailure(t, retryable)
             row == [task[t] EXCEPT !.status = next, !.progress = 0]
  <2>1. next \in Statuses
    BY <1>0, AfterFailureType DEF Statuses
  <2>2. row \in TaskRow
    BY <1>0, <2>1, StatusWrites
  <2>3. AppendEvent(t, FailureEvent(next), row) /\ UNCHANGED receipts
    BY <1>7 DEF FinishFailure, Move
  <2>4. FailureEvent(next) \in EventTypes \ CommandTypesOf
    BY <1>0 DEF FailureEvent
  <2>5. QED
    BY <2>2, <2>3, <2>4, SaveIsNoCommand
<1>8. ASSUME Recover
      PROVE  NoCommand
  <2> DEFINE event(t) == Event("recovered", Saved(t, Recovered(t)))
  <2>1. ASSUME NEW t \in Tasks
        PROVE  event(t) \in EventRow /\ event(t).type \notin CommandTypesOf
    <3>1. AfterInterruption(t) \in Statuses
      BY DEF AfterInterruption, Statuses
    <3>2. Saved(t, Recovered(t)) \in TaskRow
      BY <1>0, <3>1, StatusWrites, SavedType DEF Recovered
    <3>3. QED
      BY <1>0, <3>2 DEF Event, EventRow
  <2>2. UNCHANGED receipts
    BY <1>8 DEF Recover
  <2>3. ASSUME NEW t \in Tasks
        PROVE  events'[t] = events[t] \/ Adds(t, event(t))
    BY <1>8 DEF Recover, Adds
  <2> HIDE DEF event
  <2>4. QED
    BY <2>1, <2>2, <2>3 DEF NoCommand
<1>9. QED
  BY <1>1, <1>2, <1>3, <1>4, <1>5, <1>6, <1>7, <1>8 DEF Next

(* What a receipt says of the log stays true, as the log only grows.       *)
LEMMA CausedByKept ==
  ASSUME TInv, Next, NEW receipt \in ReceiptRow, CausedBy(receipt)
  PROVE  CausedBy(receipt)'
<1>1. receipt.task \in Tasks
  BY DEF ReceiptRow
<1>2. receipt.revision \in DOMAIN events[receipt.task]
  BY DEF CausedBy
<1>3. /\ receipt.revision \in DOMAIN events'[receipt.task]
      /\ events'[receipt.task][receipt.revision] = events[receipt.task][receipt.revision]
  BY <1>1, <1>2, StepSettles DEF Settled
<1>4. QED
  BY <1>3 DEF CausedBy

(* The three parts of ReceiptsMatchEffects.                                *)
KeysUnique ==
    \A r1, r2 \in receipts : r1.key = r2.key \/ r1.command = r2.command => r1 = r2

ReceiptsCaused == \A r \in receipts : CausedBy(r)

Receipted(t, r) == \E receipt \in receipts : receipt.task = t /\ receipt.revision = r

EventsReceipted ==
    \A t \in Tasks : \A r \in DOMAIN events[t] : CommandEvent(t, r) => Receipted(t, r)

LEMMA CommandKeepsReceipts ==
  ASSUME IInv, Next, KeysUnique, ReceiptsCaused, EventsReceipted, SomeCommand
  PROVE  KeysUnique' /\ ReceiptsCaused' /\ EventsReceipted'
<1>1. PICK command \in Ids, key \in Ids, request \in Request, t \in Tasks,
           type \in CommandTypesOf : Committed(command, key, request, t, type)
  BY DEF SomeCommand
<1>2. PICK event \in EventRow :
         event.type = type /\ events' = [events EXCEPT ![t] = Append(@, event)]
  BY <1>1 DEF Committed
<1> DEFINE new == Receipt(command, key, request, t)
<1>3. /\ receipts' = receipts \cup {new}
      /\ \A r \in receipts : r.key # key /\ r.command # command
      /\ receipts \subseteq ReceiptRow
  BY <1>1 DEF Committed, Commit, ReceiptsOf, IInv, TInv, TypeOK
<1>4. /\ new.key = key /\ new.command = command /\ new.task = t
      /\ new.request = request /\ new.revision = task[t].revision + 1
  BY DEF Receipt
<1>5. /\ task[t].revision \in Nat /\ Len(events[t]) = task[t].revision
      /\ events \in [Tasks -> Seq(EventRow)]
  BY TaskTypes DEF IInv, TInv, TypeOK, TaskInv, EventsReplay
<1>6. /\ DOMAIN events'[t] = 1..(task[t].revision + 1)
      /\ DOMAIN events[t] = 1..task[t].revision
      /\ events'[t][task[t].revision + 1] = event
      /\ \A r \in 1..task[t].revision : events'[t][r] = events[t][r]
      /\ \A u \in Tasks : u # t => events'[u] = events[u]
  BY <1>2, <1>5
<1> HIDE DEF new
<1>7. KeysUnique'
  <2>1. ASSUME NEW r1 \in receipts', NEW r2 \in receipts',
               r1.key = r2.key \/ r1.command = r2.command
        PROVE  r1 = r2
    BY <1>3, <1>4, <2>1 DEF KeysUnique
  <2>2. QED
    BY <2>1 DEF KeysUnique
<1>8. ReceiptsCaused'
  <2>1. ASSUME NEW r, r = new
        PROVE  CausedBy(r)'
    <3>1. r.revision \in DOMAIN events'[t] /\ events'[t][r.revision].type = type
      BY <1>2, <1>4, <1>5, <1>6, <2>1
    <3>2. Asks(request, t, type)
      BY <1>1 DEF Committed
    <3>3. request.type \in {"create", "cancel", "retry"}
      BY DEF Request
    <3>4. r.task = t /\ r.request = request /\ r.revision = task[t].revision + 1
      BY <1>4, <2>1
    <3>5. QED
      BY <3>1, <3>2, <3>3, <3>4 DEF CausedBy, Asks
  <2>2. ASSUME NEW r \in receipts'
        PROVE  CausedBy(r)'
    <3>1. CASE r = new
      BY <2>1, <3>1
    <3>2. CASE r \in receipts
      <4>1. r \in ReceiptRow /\ CausedBy(r)
        BY <1>3, <3>2 DEF ReceiptsCaused
      <4>2. QED
        BY <4>1, CausedByKept DEF IInv
    <3>3. QED
      BY <1>3, <3>1, <3>2
  <2>3. QED
    BY <2>2 DEF ReceiptsCaused
<1>9. EventsReceipted'
  <2>1. ASSUME NEW u \in Tasks, NEW r \in DOMAIN events'[u], CommandEvent(u, r)'
        PROVE  Receipted(u, r)'
    <3>1. CASE u = t /\ r = task[t].revision + 1
      BY <1>3, <1>4, <3>1 DEF Receipted
    <3>2. CASE ~(u = t /\ r = task[t].revision + 1)
      <4>1. r \in DOMAIN events[u] /\ events'[u][r] = events[u][r]
        <5>1. CASE u # t
          BY <1>6, <2>1, <5>1
        <5>2. CASE u = t
          <6>1. r \in 1..(task[t].revision + 1) /\ r # task[t].revision + 1
            BY <1>6, <3>2, <5>2
          <6>2. r \in 1..task[t].revision
            BY <1>5, <6>1
          <6>3. QED
            BY <1>6, <5>2, <6>2
        <5>3. QED
          BY <5>1, <5>2
      <4>2. Receipted(u, r)
        BY <2>1, <4>1 DEF CommandEvent, EventsReceipted
      <4>3. QED
        BY <1>3, <4>2 DEF Receipted
    <3>3. QED
      BY <3>1, <3>2
  <2>2. QED
    BY <2>1 DEF EventsReceipted
<1>10. QED
  BY <1>7, <1>8, <1>9

LEMMA OthersKeepReceipts ==
  ASSUME IInv, Next, KeysUnique, ReceiptsCaused, EventsReceipted, NoCommand
  PROVE  KeysUnique' /\ ReceiptsCaused' /\ EventsReceipted'
<1>1. receipts' = receipts /\ receipts \subseteq ReceiptRow
  BY DEF NoCommand, IInv, TInv, TypeOK
<1>2. KeysUnique'
  BY <1>1 DEF KeysUnique
<1>3. ASSUME NEW r \in receipts'
      PROVE  CausedBy(r)'
  <2>1. r \in ReceiptRow /\ CausedBy(r)
    BY <1>1 DEF ReceiptsCaused
  <2>2. QED
    BY <2>1, CausedByKept DEF IInv
<1>4. ASSUME NEW t \in Tasks, NEW r \in DOMAIN events'[t], CommandEvent(t, r)'
      PROVE  Receipted(t, r)'
  <2>1. events[t] \in Seq(EventRow)
    BY TaskTypes DEF IInv
  <2>2. CASE events'[t] = events[t]
    <3>1. CommandEvent(t, r) /\ r \in DOMAIN events[t]
      BY <1>4, <2>2 DEF CommandEvent
    <3>2. QED
      BY <1>1, <3>1 DEF EventsReceipted, Receipted
  <2>3. ASSUME NEW event \in EventRow, event.type \notin CommandTypesOf, Adds(t, event)
        PROVE  Receipted(t, r)'
    <3>1. \/ r \in DOMAIN events[t] /\ events'[t][r] = events[t][r]
          \/ events'[t][r] = event
      BY <2>1, <2>3 DEF Adds
    <3>2. events'[t][r].type \in CommandTypesOf
      BY <1>4 DEF CommandEvent, CommandTypesOf
    <3>3. r \in DOMAIN events[t] /\ CommandEvent(t, r)
      BY <2>3, <3>1, <3>2 DEF CommandEvent, CommandTypesOf
    <3>4. QED
      BY <1>1, <3>3 DEF EventsReceipted, Receipted
  <2>4. QED
    BY <2>2, <2>3 DEF NoCommand
<1>5. QED
  BY <1>2, <1>3, <1>4 DEF ReceiptsCaused, EventsReceipted

(* For every instance: receipts and the effects of commands correspond one *)
(* to one.                                                                 *)
THEOREM ReceiptsSafe == Spec => []ReceiptsMatchEffects
<1> DEFINE RInv == KeysUnique /\ ReceiptsCaused /\ EventsReceipted
<1>1. Init => RInv
  BY DEF Init, KeysUnique, ReceiptsCaused, EventsReceipted
<1>2. IInv /\ RInv /\ [Next]_vars => RInv'
  <2> SUFFICES ASSUME IInv, RInv, [Next]_vars PROVE RInv'
    OBVIOUS
  <2>1. CASE UNCHANGED vars
    <3>1. KeysUnique'
      BY <2>1 DEF vars, KeysUnique
    <3>2. ReceiptsCaused'
      BY <2>1 DEF vars, ReceiptsCaused, CausedBy
    <3>3. EventsReceipted'
      BY <2>1 DEF vars, EventsReceipted, Receipted, CommandEvent
    <3>4. QED
      BY <3>1, <3>2, <3>3
  <2>2. CASE Next
    BY <2>2, CommandOrNot, CommandKeepsReceipts, OthersKeepReceipts DEF IInv
  <2>3. QED
    BY <2>1, <2>2
<1>3. RInv => ReceiptsMatchEffects
  BY DEF KeysUnique, ReceiptsCaused, EventsReceipted, Receipted, ReceiptsMatchEffects
<1> HIDE DEF RInv
<1>4. QED
  BY <1>1, <1>2, <1>3, Inductive, PTL DEF Spec
===============================================================================
