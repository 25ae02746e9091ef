------------------------------ MODULE TaskLedger ------------------------------
(***************************************************************************)
(* What src-tauri/src/task_engine.rs promises about a background task, and *)
(* nothing about how: which status changes exist, who may cause them, and  *)
(* how the attempt number fences an execution.  Revisions, progress,       *)
(* priorities, events, history rows and receipts belong to TaskEngine,     *)
(* which implements this module; TaskRunner runs its worker pool over it.  *)
(***************************************************************************)
EXTENDS TaskConstants

VARIABLE ledger

Entry == [status : Statuses \cup {"absent"}, policy : Policies,
          budget : 1..MaxBudget, attempt : Nat, deps : SUBSET Tasks]

Absent == [status |-> "absent", policy |-> "safe", budget |-> 1,
           attempt |-> 0, deps |-> {}]

Init == ledger = [t \in Tasks |-> Absent]

Exists(t) == ledger[t].status # "absent"

(* A dependency that has not succeeded blocks its dependent.               *)
Runnable(t) == /\ ledger[t].status = "queued"
               /\ \A d \in ledger[t].deps : ledger[d].status = "succeeded"

(* Mutant: a report for any attempt of a running task counts.              *)
ActiveAnyAttempt(t, attempt) == ledger[t].status = "running"

(* The attempt is a fencing token: only its own execution may report.      *)
Active(t, attempt) == /\ ledger[t].status = "running"
                      /\ ledger[t].attempt = attempt

Become(t, status) == ledger' = [ledger EXCEPT ![t].status = status]

Create(t, policy, budget, deps) ==
    /\ ~Exists(t)
    /\ \A d \in deps : Exists(d)
    /\ ledger' = [ledger EXCEPT ![t] =
                    [status |-> "queued", policy |-> policy, budget |-> budget,
                     attempt |-> 0, deps |-> deps]]

Claim(t) ==
    /\ Runnable(t)
    /\ ledger' = [ledger EXCEPT ![t].status = "running",
                                ![t].attempt = @ + 1]

Succeed(t, attempt) == Active(t, attempt) /\ Become(t, "succeeded")

(* Where a failed execution leaves the task.                               *)
AfterFailure(t, retryable) ==
    IF ~retryable \/ ledger[t].attempt >= ledger[t].budget
    THEN "failed"
    ELSE CASE ledger[t].policy = "safe"   -> "queued"
           [] ledger[t].policy = "manual" -> "awaitingApproval"
           [] ledger[t].policy = "never"  -> "failed"

Fail(t, attempt, retryable) ==
    /\ Active(t, attempt)
    /\ Become(t, AfterFailure(t, retryable))

Cancel(t) ==
    /\ ledger[t].status \in {"queued", "running", "awaitingApproval"}
    /\ Become(t, "canceled")

Retry(t) ==
    /\ ledger[t].status \in {"failed", "awaitingApproval"}
    /\ ledger[t].attempt < ledger[t].budget
    /\ Become(t, "queued")

(* Where an execution cut off by the end of its process leaves the task.   *)
AfterInterruption(t) ==
    IF ledger[t].policy = "safe" THEN "queued" ELSE "awaitingApproval"

InterruptedEntry(t) ==
    IF ledger[t].status = "running"
    THEN [ledger[t] EXCEPT !.status = AfterInterruption(t)]
    ELSE ledger[t]

(* One transaction recovers every running task, whatever is left of its    *)
(* budget.                                                                 *)
Recover ==
    /\ \E t \in Tasks : ledger[t].status = "running"
    /\ ledger' = [t \in Tasks |-> InterruptedEntry(t)]

Next ==
    \/ \E t \in Tasks :
          \/ \E policy \in Policies, budget \in 1..MaxBudget, deps \in SUBSET Tasks :
                Create(t, policy, budget, deps)
          \/ Claim(t) \/ Cancel(t) \/ Retry(t)
          \/ Succeed(t, ledger[t].attempt)
          \/ \E retryable \in BOOLEAN : Fail(t, ledger[t].attempt, retryable)
    \/ Recover

Spec == Init /\ [][Next]_ledger

-------------------------------------------------------------------------------
(* The ledger holds entries of its type.                                   *)
TypeOK == ledger \in [Tasks -> Entry]

(* No task has been started whose dependencies have not all succeeded; and *)
(* as succeeded is final, they still are.                                  *)
StartedAfterDependencies ==
    \A t \in Tasks : ledger[t].attempt > 0 =>
        \A d \in ledger[t].deps : ledger[d].status = "succeeded"

(* Work that is not safe to replay never runs more often than maxAttempts, *)
(* not even after interruptions: an operator's retry respects the budget.  *)
UnsafeWithinBudget ==
    \A t \in Tasks : ledger[t].policy # "safe" => ledger[t].attempt <= ledger[t].budget

(* No tasks wait for one another in a circle: in every set of tasks one    *)
(* depends on none of the set.  The code's own cycle check never fires.    *)
NoDependencyCycle ==
    \A S \in SUBSET Tasks : S # {} => \E t \in S : ledger[t].deps \cap S = {}
===============================================================================
