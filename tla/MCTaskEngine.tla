------------------------------ MODULE MCTaskEngine ------------------------------
(* A small instance of TaskEngine: two tasks, one handler kind.            *)
EXTENDS TaskEngine, TLC

Payload(policy, priority, budget) ==
    [kind |-> "media", policy |-> policy, priority |-> priority, budget |-> budget]

(* Each replay policy, with one attempt or two; two priorities.             *)
PolicyPayloads == {Payload("safe", 2, 1), Payload("manual", 2, 2), Payload("never", 3, 2)}

Symmetry == Permutations(Tasks)
===============================================================================
