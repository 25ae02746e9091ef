------------------------------ MODULE MCClosure ------------------------------
(* A small instance of Closure.                                            *)
EXTENDS Closure, TLC

(* The settlement batches are interchangeable.                             *)
Symmetry == Permutations(Batches)

Settled ==
    /\ Acceptances # {}
    /\ Received = ContractAmount /\ InvoicesSettled
    /\ \A d \in DOMAIN documents :
          documents[d].status \notin {"draft", "inReview", "approved"}
    /\ \A p \in DOMAIN payments : payments[p].status \in {"received", "canceled"}

Plain == Len(receipts) = 1 /\ Len(invoices) = 1

NotCaptured == archiveIntegrity = "notCaptured"

NoDelivery == \A m \in Milestones : milestones[m].status = Absent

NoSettlement == \A b \in Batches : settlements[b].lines = {}

(* Bound: a workspace runs its commercial side first, then its delivery    *)
(* side, then snapshots and archiving; and settlements before submissions. *)
(* No command of one side reads the other's tables, so any interleaving of *)
(* the two leaves the tables some ordering of this kind leaves.  The later *)
(* phases start from ledgers of one row each.                              *)
OneSideAfterTheOther ==
    /\ \/ NoDelivery /\ NotCaptured
       \/ Settled /\ Plain /\ NotCaptured
       \/ Settled /\ Plain /\ MilestonesAccepted
    /\ NoSettlement \/ (Len(versions) < 2 /\ submissions = <<>> /\ NotCaptured)

==============================================================================
