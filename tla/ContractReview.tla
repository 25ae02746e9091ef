---------------------------- MODULE ContractReview ----------------------------
(***************************************************************************)
(* The review of one contract: the session row with its findings, human    *)
(* decisions and reports (src-tauri/src/contract_review_service.rs), and   *)
(* the detached threads that drive it through its stages                   *)
(* (src-tauri/src/contract_review_runtime.rs).                             *)
(*                                                                         *)
(* Commands hold the asset connection, so they come one at a time; a       *)
(* worker has a connection of its own, reads the session, works for        *)
(* minutes, and writes with the revision it has read.  A worker is asked   *)
(* to stop through its token, which the map of active reviews holds.       *)
(* Every command and every write gives the session a new revision.         *)
(*                                                                         *)
(* The findings of a source are one finding, and two decisions stand for   *)
(* all: what matters of them is whether one was made.  The stages and the  *)
(* sources that nothing sets (awaitingOcr, merged) are left out.           *)
(***************************************************************************)
EXTENDS Naturals

CONSTANTS
    Workers,
    None,
    MaxRevision   \* bound: no command or restart at a later revision

ASSUME ReviewAssumption ==
    /\ None \notin Workers
    /\ (Workers \cup {None}) \cap {"drive", "report", "cancel"} = {}
    /\ MaxRevision \in Nat

VARIABLES
    review,    \* [status, stage, revision, failure, extracted]
    finding,   \* the findings of each source, see Findings
    reports,   \* of each report, the findings it shows
    worker,    \* [pc, revision, seen, live, report, final] of each worker
    active,    \* the worker whose token the map of active reviews holds
    notice,    \* what the command that has committed still has to do
    logged     \* has a failure only gone to the log since the last start?

vars == <<review, finding, reports, worker, active, notice, logged>>

Statuses == {"draft", "running", "awaitingConfirmation", "completed", "failed", "cancelled"}

Work == {"extracting", "reviewingRules", "reviewingAgent", "generatingReport"}

Stages == Work \cup {"created", "awaitingConfirmation", "completed"}

Sources == {"rule", "agent"}

Decisions == {"confirmed", "rejected"}

Findings == [Sources -> {"none", "open"} \cup Decisions]

(* A worker waits at a stage of Work to write what it has worked out.      *)
PCs == Work \cup {"off", "starting", "reading", "rulesSaved", "failing", "persisting",
                  "ending", "leaving"}

Off == [pc |-> "off", revision |-> 0, seen |-> None, live |-> FALSE, report |-> FALSE,
        final |-> FALSE]

Nothing == [s \in Sources |-> "none"]

(* create_review_tx.                                                       *)
Init ==
    /\ review = [status |-> "draft", stage |-> "created", revision |-> 1,
                 failure |-> "none", extracted |-> FALSE]
    /\ finding = Nothing
    /\ reports = {}
    /\ worker = [w \in Workers |-> Off]
    /\ active = None
    /\ notice = None
    /\ logged = FALSE

Terminal == review.status \in {"completed", "cancelled"}

Undecided(s) == finding[s] \notin Decisions

(* status_for_stage.                                                       *)
StatusOf(stage) == CASE stage = "created" -> "draft"
                     [] stage \in {"awaitingConfirmation", "completed"} -> stage
                     [] OTHER -> "running"

Moved(status, stage, failure) ==
    [status |-> status, stage |-> stage, revision |-> review.revision + 1,
     failure |-> failure, extracted |-> review.extracted]

-------------------------------------------------------------------------------
(***************************************************************************)
(* Commands.  One that names a revision other than the current one is      *)
(* refused, and one that was committed before is answered from its         *)
(* receipt: neither changes or drives anything.                            *)
(***************************************************************************)
Idle == notice = None

Commands(next) ==
    /\ Idle /\ review.revision < MaxRevision
    /\ notice' = next
    /\ UNCHANGED <<worker, active, logged>>

Start ==
    /\ review.status = "draft" /\ review.stage = "created"
    /\ review' = Moved("running", "extracting", "none")
    /\ Commands("drive")
    /\ UNCHANGED <<finding, reports>>

Cancel ==
    /\ ~Terminal
    /\ review' = Moved("cancelled", review.stage, "final")
    /\ Commands("cancel")
    /\ UNCHANGED <<finding, reports>>

(* A finding that is decided may be decided again.                         *)
Decide(s, decision) ==
    /\ ~Terminal
    /\ finding[s] # "none"
    /\ finding' = [finding EXCEPT ![s] = decision]
    /\ review' = Moved(review.status, review.stage, review.failure)
    /\ Commands(None)
    /\ UNCHANGED reports

(* A completed review takes another report and stays completed.            *)
GenerateReport ==
    /\ review.status # "cancelled" /\ review.extracted
    /\ \A s \in Sources : finding[s] # "open"
    /\ review' = IF review.status = "completed"
                 THEN Moved("completed", "completed", review.failure)
                 ELSE Moved("running", "generatingReport", "none")
    /\ Commands("report")
    /\ UNCHANGED <<finding, reports>>

(* retry_stage_tx.  The interface asks for the stage that failed; the code *)
(* takes any but completed, a later one too.                               *)
MayRetry(stage) ==
    /\ review.failure # "final" /\ stage # "completed"
    /\ \/ review.status = "failed"
       \/ /\ review.status = "awaitingConfirmation" /\ review.failure # "none"
          /\ review.stage = "awaitingConfirmation" /\ stage = "reviewingAgent"
          /\ \A s \in Sources : Undecided(s)

RetryStage(stage) ==
    /\ MayRetry(stage)
    /\ review' = Moved(StatusOf(stage), stage, "none")
    /\ Commands("drive")
    /\ UNCHANGED <<finding, reports>>

(* The process ends, at any moment, and the next one starts: it fails a    *)
(* review that is running, so that its stage can be retried.               *)
Restart ==
    /\ review.revision < MaxRevision
    /\ review' = IF review.status = "running"
                 THEN Moved("failed", review.stage, "retryable") ELSE review
    /\ worker' = [w \in Workers |-> Off]
    /\ active' = None
    /\ notice' = None
    /\ logged' = FALSE
    /\ UNCHANGED <<finding, reports>>

-------------------------------------------------------------------------------
(***************************************************************************)
(* What the runtime does for a command after its commit.                   *)
(***************************************************************************)
Revoked(v) == IF v \in Workers THEN [worker EXCEPT ![v].live = FALSE] ELSE worker

(* The new worker takes its predecessor's place in the map.                *)
Launch(w) ==
    /\ notice \in {"drive", "report"} /\ worker[w].pc = "off"
    /\ worker' = [Revoked(active) EXCEPT ![w] =
                     [Off EXCEPT !.pc = "starting", !.live = TRUE, !.report = notice = "report"]]
    /\ active' = w
    /\ notice' = None
    /\ UNCHANGED <<review, finding, reports, logged>>

(* The thread cannot be spawned; the command's own thread reports that.    *)
LaunchFails(w) ==
    /\ notice \in {"drive", "report"} /\ worker[w].pc = "off"
    /\ worker' = [Revoked(active) EXCEPT ![w].pc = "failing"]
    /\ active' = None
    /\ notice' = w
    /\ UNCHANGED <<review, finding, reports, logged>>

Notify ==
    /\ notice = "cancel"
    /\ worker' = Revoked(active)
    /\ notice' = None
    /\ UNCHANGED <<review, finding, reports, active, logged>>

-------------------------------------------------------------------------------
(***************************************************************************)
(* A worker.                                                               *)
(***************************************************************************)
Set(w, state) == worker' = [worker EXCEPT ![w] = state]

Goto(w, pc) == Set(w, [worker[w] EXCEPT !.pc = pc])

(* An error; a final one cannot be retried.                                *)
Fail(w, final) == Set(w, [worker[w] EXCEPT !.pc = "failing", !.seen = None, !.final = final])

(* The session as read; a report will show the findings as they are now.   *)
Take(w, stage) ==
    Set(w, [worker[w] EXCEPT !.pc = stage, !.revision = review.revision,
               !.seen = IF stage = "generatingReport" THEN finding ELSE None])

(* drive_review_pipeline.                                                  *)
Begin(w) ==
    /\ worker[w].pc = "starting"
    /\ IF review.status = "cancelled" THEN Goto(w, "ending")
       ELSE IF worker[w].report /\ review.status = "completed" THEN Take(w, "generatingReport")
       ELSE Goto(w, "reading")
    /\ UNCHANGED <<review, finding, reports, active, notice, logged>>

(* resume_supported_stages.                                                *)
Read(w) ==
    /\ worker[w].pc = "reading"
    /\ IF review.status \notin {"cancelled", "failed"} /\ review.stage \in Work
       THEN Take(w, review.stage) ELSE Goto(w, "ending")
    /\ UNCHANGED <<review, finding, reports, active, notice, logged>>

(* Mutant: any session that is still open may be written.                  *)
NotRevised(w) == TRUE

SameRevision(w) == worker[w].revision = review.revision

(* The token was looked at after the work, and the session is as it was    *)
(* read.                                                                   *)
MayWrite(w) == worker[w].live /\ SameRevision(w)

(* save_extraction_tx.                                                     *)
SaveExtraction(w) ==
    /\ worker[w].pc = "extracting" /\ MayWrite(w) /\ ~Terminal
    /\ review.extracted => finding = Nothing
    /\ review' = [Moved("running", "reviewingRules", "none") EXCEPT !.extracted = TRUE]
    /\ Goto(w, "reading")
    /\ UNCHANGED <<finding, reports>>

(* Mutant: findings are replaced whatever became of the old ones.          *)
ReplaceableAny(s) == TRUE

Replaceable(s) == Undecided(s)

Replace(s) ==
    /\ Replaceable(s)
    /\ \E new \in {"none", "open"} : finding' = [finding EXCEPT ![s] = new]

(* replace_rule_results_tx; begin_agent_review follows, with the revision  *)
(* just written.                                                           *)
SaveRules(w) ==
    /\ worker[w].pc = "reviewingRules" /\ MayWrite(w) /\ ~Terminal /\ review.extracted
    /\ Replace("rule")
    /\ review' = Moved("awaitingConfirmation", "awaitingConfirmation", "none")
    /\ Set(w, [worker[w] EXCEPT !.pc = "rulesSaved", !.revision = @ + 1])
    /\ UNCHANGED reports

BeginAgent(w) ==
    /\ worker[w].pc = "rulesSaved" /\ MayWrite(w) /\ ~Terminal
    /\ review.stage = "awaitingConfirmation" /\ \A s \in Sources : Undecided(s)
    /\ review' = Moved("running", "reviewingAgent", "none")
    /\ Goto(w, "reading")
    /\ UNCHANGED <<finding, reports>>

AtAgent(w) ==
    /\ worker[w].pc = "reviewingAgent" /\ MayWrite(w) /\ ~Terminal
    /\ review.stage = "reviewingAgent" /\ review.extracted

SaveAgent(w) ==
    /\ AtAgent(w)
    /\ Replace("agent")
    /\ review' = Moved("awaitingConfirmation", "awaitingConfirmation", "none")
    /\ Goto(w, "reading")
    /\ UNCHANGED reports

(* The agent fails: the review goes on with what the rules have found.     *)
Degrade(w) ==
    /\ AtAgent(w)
    /\ \E failure \in {"retryable", "final"} :
          review' = Moved("awaitingConfirmation", "awaitingConfirmation", failure)
    /\ Goto(w, "reading")
    /\ UNCHANGED <<finding, reports>>

(* save_report_and_complete_tx.  A report with an open finding cannot be   *)
(* rendered.  One that was asked to add a report ends; in the pipeline the *)
(* session is read once more.                                              *)
SaveReport(w) ==
    /\ worker[w].pc = "generatingReport" /\ MayWrite(w)
    /\ review.extracted /\ \A s \in Sources : worker[w].seen[s] # "open"
    /\ \/ review.status = "completed"
       \/ ~Terminal /\ review.stage = "generatingReport"
    /\ reports' = reports \cup {worker[w].seen}
    /\ review' = Moved("completed", "completed", "none")
    /\ Set(w, [worker[w] EXCEPT !.seen = None,
                  !.pc = IF review.status = "completed" THEN "ending" ELSE "reading"])
    /\ UNCHANGED finding

WriteStep(w) ==
    /\ \/ SaveExtraction(w) \/ SaveRules(w) \/ BeginAgent(w)
       \/ SaveAgent(w) \/ Degrade(w) \/ SaveReport(w)
    /\ UNCHANGED <<active, notice, logged>>

(* A write that is refused and a canceled token are final errors; reading, *)
(* writing, the work itself and panics give errors of both kinds.          *)
StageFails(w) ==
    /\ worker[w].pc \in Work \cup {"starting", "reading", "rulesSaved", "ending"}
    /\ \E final \in BOOLEAN : Fail(w, final)
    /\ UNCHANGED <<review, finding, reports, active, notice, logged>>

(* The last look at the token.                                             *)
End(w) ==
    /\ worker[w].pc = "ending"
    /\ IF worker[w].live THEN Goto(w, "leaving") ELSE Fail(w, TRUE)
    /\ UNCHANGED <<review, finding, reports, active, notice, logged>>


Recordable(w) == ~Terminal

(* persist_runtime_failure reads the session, ...                          *)
ReadForFailure(w) ==
    /\ worker[w].pc = "failing"
    /\ IF Recordable(w)
       THEN Set(w, [worker[w] EXCEPT !.pc = "persisting", !.revision = review.revision])
       ELSE Goto(w, "leaving")
    /\ UNCHANGED <<review, finding, reports, active, notice, logged>>

(* ... and fails it where it is: the worker may have been superseded.      *)
PersistFailure(w) ==
    /\ worker[w].pc = "persisting" /\ SameRevision(w) /\ ~Terminal
    /\ review' = Moved("failed", review.stage, IF worker[w].final THEN "final" ELSE "retryable")
    /\ Goto(w, "leaving")
    /\ UNCHANGED <<finding, reports, active, notice, logged>>

(* A conflict or an error of the store, when it reads or writes, is        *)
(* printed, and that is all.                                               *)
FailureLogged(w) ==
    /\ worker[w].pc = "persisting"
    /\ logged' = TRUE
    /\ Goto(w, "leaving")
    /\ UNCHANGED <<review, finding, reports, active, notice>>

(* Mutant: whoever leaves clears the review's entry in the map.            *)
UnregisterAny(w) == active' = None

Unregister(w) == active' = IF active = w THEN None ELSE active

Leave(w) ==
    /\ worker[w].pc = "leaving"
    /\ Set(w, Off)
    /\ Unregister(w)
    /\ notice' = IF notice = w THEN None ELSE notice
    /\ UNCHANGED <<review, finding, reports, logged>>

-------------------------------------------------------------------------------
Command ==
    \/ Start \/ Cancel \/ GenerateReport
    \/ \E s \in Sources, decision \in Decisions : Decide(s, decision)
    \/ \E stage \in Stages : RetryStage(stage)

WorkerStep(w) ==
    \/ Begin(w) \/ Read(w) \/ WriteStep(w) \/ StageFails(w) \/ End(w)
    \/ ReadForFailure(w) \/ PersistFailure(w) \/ FailureLogged(w) \/ Leave(w)

RuntimeStep == Notify \/ \E w \in Workers : Launch(w) \/ LaunchFails(w)

Next == Command \/ Restart \/ RuntimeStep \/ \E w \in Workers : WorkerStep(w)

Spec == Init /\ [][Next]_vars

(* A command in progress goes on, and so does every thread: reading a      *)
(* document and asking the agent end, with an answer or with an error.     *)
Fairness == WF_vars(RuntimeStep) /\ \A w \in Workers : WF_vars(WorkerStep(w))

FairSpec == Spec /\ Fairness

-------------------------------------------------------------------------------
(***************************************************************************)
(* Properties.                                                             *)
(***************************************************************************)
(* Every variable holds a value of its type.                               *)
TypeOK ==
    /\ review \in [status : Statuses, stage : Stages, revision : Nat,
                   failure : {"none", "retryable", "final"}, extracted : BOOLEAN]
    /\ finding \in Findings
    /\ reports \subseteq Findings
    /\ worker \in [Workers -> [pc : PCs, revision : Nat, seen : Findings \cup {None},
                               live : BOOLEAN, report : BOOLEAN, final : BOOLEAN]]
    /\ active \in Workers \cup {None}
    /\ notice \in Workers \cup {None, "drive", "report", "cancel"}
    /\ logged \in BOOLEAN

(* A human decision is never taken back or lost, however often stages are  *)
(* retried and findings replaced by threads that began before it was made. *)
DecisionsSurvive ==
    [][\A s \in Sources : finding[s] \in Decisions => finding'[s] \in Decisions]_vars

(* Every report shows the findings of the review as they are, with all of  *)
(* them decided, though the report was written from what a thread had read *)
(* and decisions may be changed until the report is committed.             *)
ReportShowsDecisions ==
    \A shown \in reports : shown = finding /\ \A s \in Sources : shown[s] # "open"

Busy == Work \cup {"starting", "reading", "rulesSaved"}

(* When a review is cancelled, every thread that still works on it is told *)
(* so, although threads are superseded and leave the map in any order.     *)
CancelReachesWorker ==
    review.status = "cancelled" /\ notice # "cancel" =>
        \A w \in Workers : worker[w].pc \in Busy => ~worker[w].live

(* A completed or cancelled review stays what it is, whatever threads that *)
(* began before still report.                                              *)
TerminalStays == [][Terminal => review'.status = review.status]_vars

===============================================================================
