------------------------------- MODULE Delivery -------------------------------
(***************************************************************************)
(* The delivery side of a business workspace                               *)
(* (src-tauri/src/business_closure_service.rs): milestones, the versions   *)
(* of their deliverables, the submissions they are sent in and the         *)
(* customer's signoffs, which may decide a submission piece by piece; and  *)
(* the settlement batches over the deliverables, which                     *)
(* business_workspace_service.rs keeps.  Each command is one transaction.  *)
(***************************************************************************)
EXTENDS Workspace, Naturals, Sequences

CONSTANTS
    Milestones,       \* milestone ids
    Deliverables,     \* deliverable ids
    Batches,          \* settlement batch ids
    MaxVersions,      \* bound on the deliverable versions (none in the code)
    MaxSubmissions    \* bound on the delivery submissions (none in the code)

ASSUME DeliveryLimitsAssumption == {MaxVersions, MaxSubmissions} \subseteq Nat

VARIABLES
    milestones,    \* business_delivery_milestones
    versions,      \* business_deliverable_versions, in creation order
    submissions,   \* business_delivery_submissions with their signoffs
    settlements    \* settlement batches: the deliverables of their lines

deliveryVars == <<milestones, versions, submissions, settlements>>

MilestoneStatuses == {"planned", "inProgress", "delivered", "accepted", "canceled"}
VersionStatuses == {"draft", "sent", "accepted", "rejected", "superseded"}
Absent == "absent"

MilestoneRecord == [status : MilestoneStatuses \cup {Absent}, required : BOOLEAN]
VersionRecord == [deliverable : Deliverables, milestone : Milestones,
                  required : BOOLEAN, status : VersionStatuses]
SubmissionRecord == [milestone : Milestones, sent : SUBSET (1..MaxVersions),
                     accepted : SUBSET (1..MaxVersions),
                     rejected : SUBSET (1..MaxVersions)]

DeliveryTypeOK ==
    /\ milestones \in [Milestones -> MilestoneRecord]
    /\ versions \in Seq(VersionRecord) /\ Len(versions) <= MaxVersions
    /\ submissions \in Seq(SubmissionRecord) /\ Len(submissions) <= MaxSubmissions
    /\ settlements \in [Batches -> [lines : SUBSET Deliverables, voided : BOOLEAN]]

DeliveryInit ==
    /\ milestones = [m \in Milestones |-> [status |-> Absent, required |-> FALSE]]
    /\ versions = <<>> /\ submissions = <<>>
    /\ settlements = [b \in Batches |-> [lines |-> {}, voided |-> FALSE]]

VersionsOf(deliverable) == {v \in DOMAIN versions : versions[v].deliverable = deliverable}

SetMilestone(m, status) == milestones' = [milestones EXCEPT ![m].status = status]

(* Delivered and accepted are left to the delivery commands.               *)
ClientStatuses == MilestoneStatuses \ {"delivered", "accepted"}

UpsertMilestone(m, status, required) ==
    /\ Mutable
    /\ milestones[m].status # "accepted"
    /\ status \in ClientStatuses
    /\ milestones' = [milestones EXCEPT ![m] = [status |-> status, required |-> required]]
    /\ Bump
    /\ UNCHANGED <<versions, submissions, settlements>>

(* Mutant: a new version supersedes whatever came before it.               *)
SupersededAll(deliverable) ==
    [v \in DOMAIN versions |->
        IF v \in VersionsOf(deliverable)
        THEN [versions[v] EXCEPT !.status = "superseded"] ELSE versions[v]]

(* The versions after a new one: an accepted version stays accepted.       *)
Superseded(deliverable) ==
    [v \in DOMAIN versions |->
        IF v \in VersionsOf(deliverable) /\ versions[v].status # "accepted"
        THEN [versions[v] EXCEPT !.status = "superseded"] ELSE versions[v]]

RegisterVersion(deliverable, m, required) ==
    /\ Mutable
    /\ milestones[m].status \notin {Absent, "accepted", "canceled"}
    /\ \A v \in VersionsOf(deliverable) : versions[v].milestone = m
    /\ Len(versions) < MaxVersions
    /\ versions' = Append(Superseded(deliverable),
                          [deliverable |-> deliverable, milestone |-> m,
                           required |-> required, status |-> "draft"])
    /\ SetMilestone(m, "inProgress")
    /\ Bump
    /\ UNCHANGED <<submissions, settlements>>

Sendable(m) == {v \in DOMAIN versions : /\ versions[v].milestone = m
                                        /\ versions[v].status = "draft"}

(* The milestone becomes delivered whatever status it had.                 *)
RecordDeliverySent(m, vs) ==
    /\ Mutable
    /\ milestones[m].status # Absent
    /\ vs # {}
    /\ vs \subseteq Sendable(m)
    /\ Len(submissions) < MaxSubmissions
    /\ versions' = [v \in DOMAIN versions |->
                       IF v \in vs THEN [versions[v] EXCEPT !.status = "sent"]
                       ELSE versions[v]]
    /\ submissions' = Append(submissions, [milestone |-> m, sent |-> vs,
                                           accepted |-> {}, rejected |-> {}])
    /\ SetMilestone(m, "delivered")
    /\ Bump
    /\ UNCHANGED settlements

Decided(s) == submissions[s].accepted \cup submissions[s].rejected

Pending(s) == submissions[s].sent \ Decided(s)

(* The milestone is accepted when every version of this submission is; the *)
(* versions' own statuses are overwritten, whatever they were.             *)
RecordDeliverySignoff(s, accepted, rejected) ==
    LET decided == [submissions[s] EXCEPT !.accepted = @ \cup accepted,
                                          !.rejected = @ \cup rejected]
    IN  /\ Mutable
        /\ accepted \cap rejected = {}
        /\ accepted \cup rejected # {}
        /\ accepted \cup rejected \subseteq Pending(s)
        /\ versions' = [v \in DOMAIN versions |->
                           IF v \in accepted
                           THEN [versions[v] EXCEPT !.status = "accepted"]
                           ELSE IF v \in rejected
                           THEN [versions[v] EXCEPT !.status = "rejected"]
                           ELSE versions[v]]
        /\ submissions' = [submissions EXCEPT ![s] = decided]
        /\ SetMilestone(submissions[s].milestone,
                        IF decided.accepted = decided.sent THEN "accepted"
                        ELSE "inProgress")
        /\ Bump
        /\ UNCHANGED settlements

(* No other active batch settles one of these deliverables.                *)
Unreserved(b, ds) == \A c \in Batches \ {b} :
                        ~settlements[c].voided => settlements[c].lines \cap ds = {}

UpsertSettlementBatch(b, ds) ==
    /\ Mutable
    /\ ds # {}
    /\ ~settlements[b].voided
    /\ Unreserved(b, ds)
    /\ \A d \in ds : VersionsOf(d) # {}
    /\ settlements' = [settlements EXCEPT ![b].lines = ds]
    /\ Bump
    /\ UNCHANGED <<milestones, versions, submissions>>

VoidSettlementBatch(b) ==
    /\ Mutable
    /\ settlements[b].lines # {} /\ ~settlements[b].voided
    /\ settlements' = [settlements EXCEPT ![b].voided = TRUE]
    /\ Bump
    /\ UNCHANGED <<milestones, versions, submissions>>

DeliveryNext ==
    \/ \E m \in Milestones, status \in MilestoneStatuses, required \in BOOLEAN :
          UpsertMilestone(m, status, required)
    \/ \E d \in Deliverables, m \in Milestones, required \in BOOLEAN :
          RegisterVersion(d, m, required)
    \/ \E m \in Milestones, vs \in SUBSET DOMAIN versions : RecordDeliverySent(m, vs)
    \/ \E s \in DOMAIN submissions :
          \E accepted, rejected \in SUBSET submissions[s].sent :
              RecordDeliverySignoff(s, accepted, rejected)
    \/ \E b \in Batches :
          \/ \E ds \in SUBSET Deliverables : UpsertSettlementBatch(b, ds)
          \/ VoidSettlementBatch(b)

(* Signoffs stand: what the customer accepted stays accepted, what was     *)
(* rejected never becomes good again (a new version may supersede it), and *)
(* no version is up for decision in two submissions.  About the version    *)
(* row, which signoffs, later sends and new versions all overwrite, while  *)
(* the submissions are append-only.                                        *)
DecisionsStand ==
    /\ \A s \in DOMAIN submissions :
          /\ submissions[s].accepted \cap submissions[s].rejected = {}
          /\ \A v \in submissions[s].accepted : versions[v].status = "accepted"
          /\ \A v \in submissions[s].rejected :
                versions[v].status \in {"rejected", "superseded"}
    /\ \A s, t \in DOMAIN submissions :
          s # t => submissions[s].sent \cap submissions[t].sent = {}
==============================================================================
