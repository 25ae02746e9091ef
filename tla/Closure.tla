------------------------------- MODULE Closure -------------------------------
(***************************************************************************)
(* A whole business workspace: the documents and ledgers, the delivery     *)
(* side, the customer it is bound to, and the commands that archive it.    *)
(* Archiving asks for everything the two sides keep to be settled, and for *)
(* an archive snapshot captured after the last change of workspace and     *)
(* customer.                                                               *)
(***************************************************************************)
EXTENDS Documents, Delivery

vars == <<workspaceVars, documentVars, deliveryVars>>

TypeOK == WorkspaceTypeOK /\ DocumentsTypeOK /\ DeliveryTypeOK

Init == WorkspaceInit /\ DocumentsInit /\ DeliveryInit

Required(m) == milestones[m].status # Absent /\ milestones[m].required

(* load_milestones: a deliverable is required if its newest version is.    *)
DeliverableRequired(d) == versions[Max(VersionsOf(d))].required

MilestonesAccepted ==
    /\ \E m \in Milestones : Required(m)
    /\ \A m \in Milestones : Required(m) => milestones[m].status = "accepted"

(* Each required deliverable of a required milestone has an accepted       *)
(* version.                                                                *)
DeliverablesAccepted ==
    \A d \in Deliverables :
        (VersionsOf(d) # {} /\ DeliverableRequired(d)
            /\ Required(versions[Max(VersionsOf(d))].milestone))
        => \E v \in VersionsOf(d) : versions[v].status = "accepted"

SubmissionsDecided == \A s \in DOMAIN submissions : Pending(s) = {}

InvoicesSettled == invoices # <<>> /\ Invoiced = ContractAmount

ClosureArchivable ==
    /\ MilestonesAccepted
    /\ DeliverablesAccepted
    /\ SubmissionsDecided
    /\ InvoicesSettled
    /\ archiveIntegrity = "ready"

(* ensure_workspace_archivable.  It also asks for the lifecycle stage paid, *)
(* which derive_lifecycle_stage gives to every workspace that has an       *)
(* acceptance, an effective contract and its whole amount received.        *)
Archivable ==
    /\ Contracts # {} /\ Acceptances # {}
    /\ ContractAmount > 0
    /\ Received = ContractAmount
    /\ Scheduled({}) <= ContractAmount
    /\ \A d \in DOMAIN documents :
          documents[d].status \notin {"draft", "inReview", "approved"}
    /\ \A p \in DOMAIN payments : payments[p].status \in {"received", "canceled"}
    /\ ClosureArchivable

(* The transaction that links a captured snapshot.  Capturing takes several *)
(* phases; the revision it captured is the one it commits against.         *)
CreateArchiveSnapshot ==
    /\ Mutable
    /\ archiveIntegrity' = "ready"
    /\ UNCHANGED <<workspaceStatus, documentVars, deliveryVars>>

(* Both archiving and reopening raise the revision.                        *)
ChangeWorkspaceStatus(status) ==
    /\ status # workspaceStatus
    /\ status = "archived" => Archivable
    /\ workspaceStatus' = status
    /\ archiveIntegrity' = IF archiveIntegrity = "ready"
                           THEN "stale" ELSE archiveIntegrity
    /\ UNCHANGED <<documentVars, deliveryVars>>

(* The bound customer is edited, here or through another workspace of the  *)
(* same customer: the customer revision the snapshot captured is passed.   *)
CustomerEdited ==
    /\ archiveIntegrity = "ready"
    /\ archiveIntegrity' = "stale"
    /\ UNCHANGED <<workspaceStatus, documentVars, deliveryVars>>

ClosureStep ==
    \/ CreateArchiveSnapshot
    \/ \E status \in {"active", "archived"} : ChangeWorkspaceStatus(status)
    \/ CustomerEdited

Next == \/ DocumentsNext /\ UNCHANGED deliveryVars
        \/ DeliveryNext /\ UNCHANGED documentVars
        \/ ClosureStep

Spec == Init /\ [][Next]_vars

(* An archived workspace is closed: everything that was due is received,   *)
(* invoiced, delivered and decided, and stays so.  About the archiving     *)
(* transaction against every command of the two sides, and against the     *)
(* reopening that lets them run again.                                     *)
ArchivedIsClosed ==
    workspaceStatus = "archived" =>
        /\ Received = ContractAmount /\ Invoiced = ContractAmount
        /\ Acceptances # {}
        /\ \A p \in DOMAIN payments : payments[p].status \in {"received", "canceled"}
        /\ MilestonesAccepted /\ DeliverablesAccepted /\ SubmissionsDecided

(* What the release notes promise of a contract that is voided: what the   *)
(* customer still owes never turns negative.                               *)
ReceivableNotNegative == Received <= ContractAmount
==============================================================================
