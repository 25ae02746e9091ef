------------------------------ MODULE MCTaskRunner ------------------------------
(* Small instances of TaskRunner.                                           *)
EXTENDS TaskRunner, TLC

CONSTANTS t1, t2, w1, w2, h1, h2

OneKind == {"media"}
AllMedia == [t \in Tasks |-> "media"]

(* Two workers of one host, or one worker in each of two hosts.             *)
SameHost == [w \in Workers |-> h1]
HostEach == w1 :> h1 @@ w2 :> h2

SafeTwice == {<<"safe", 2>>}
SafeAndManual == {<<"safe", 1>>, <<"manual", 1>>}

TaskAndWorkerSymmetry == Permutations(Workers) \cup Permutations(Tasks)
===============================================================================
