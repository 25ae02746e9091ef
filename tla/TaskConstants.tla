----------------------------- MODULE TaskConstants -----------------------------
(***************************************************************************)
(* The words TaskLedger promises in and TaskEngine keeps its tables in.    *)
(***************************************************************************)
EXTENDS Naturals

CONSTANTS
    Tasks,      \* task ids (UUIDs in the code)
    MaxBudget   \* largest maxAttempts a create payload may ask for (100)

ASSUME MaxBudgetAssumption == MaxBudget \in Nat \ {0}

Policies == {"safe", "manual", "never"}
Statuses == {"queued", "running", "succeeded", "failed", "canceled",
             "awaitingApproval"}
===============================================================================
