------------------------- MODULE ContractReviewProofs -------------------------
(***************************************************************************)
(* The contract review, for any number of workers and any bound: reports,  *)
(* decisions and cancellations.  The revision a worker has read fences its *)
(* writes, because every change of the findings gives the session a new    *)
(* one; and a token that is live is in the map.                            *)
(***************************************************************************)
EXTENDS ContractReview, TLAPS

NoneOpen == \A s \in Sources : finding[s] # "open"

(* No worker has read a revision that is still to come.                    *)
NeverAhead == \A w \in Workers : worker[w].revision <= review.revision

(* A report that can still be saved was made from the findings as they are.*)
ReportsFresh ==
    \A w \in Workers :
        worker[w].pc = "generatingReport" /\ SameRevision(w) => worker[w].seen = finding

(* A review is completed, and has a report, only with decided findings.    *)
DecidedFirst ==
    /\ review.status = "completed" => NoneOpen
    /\ reports # {} => review.status = "completed"

LiveIsActive == \A w \in Workers : worker[w].live => active = w

NothingDrivenCancelled == review.status = "cancelled" => notice \notin {"drive", "report"}

IInv ==
    /\ TypeOK
    /\ NeverAhead /\ ReportsFresh /\ DecidedFirst /\ ReportShowsDecisions
    /\ LiveIsActive /\ NothingDrivenCancelled /\ CancelReachesWorker

-------------------------------------------------------------------------------
(***************************************************************************)
(* Types.                                                                  *)
(***************************************************************************)
WorkerRecord ==
    [pc : PCs, revision : Nat, seen : Findings \cup {None},
     live : BOOLEAN, report : BOOLEAN, final : BOOLEAN]

ReviewRecord ==
    [status : Statuses, stage : Stages, revision : Nat,
     failure : {"none", "retryable", "final"}, extracted : BOOLEAN]

LEMMA OffTyped == Off \in WorkerRecord
  BY DEF Off, WorkerRecord, PCs

LEMMA InitTyped == Init => TypeOK
<1>1. Nothing \in Findings
  BY DEF Nothing, Findings
<1>2. SUFFICES ASSUME Init PROVE TypeOK
  OBVIOUS
<1>3. /\ review = [status |-> "draft", stage |-> "created", revision |-> 1,
                   failure |-> "none", extracted |-> FALSE]
      /\ finding = Nothing /\ reports = {} /\ worker = [w \in Workers |-> Off]
      /\ active = None /\ notice = None
  BY <1>2 DEF Init
<1>4. worker \in [Workers -> WorkerRecord]
  BY <1>3, OffTyped
<1>5. review \in ReviewRecord
  BY <1>3 DEF ReviewRecord, Statuses, Stages
<1>6. logged \in BOOLEAN
  BY <1>2 DEF Init
<1>7. QED
  BY <1>1, <1>3, <1>4, <1>5, <1>6 DEF TypeOK, WorkerRecord, ReviewRecord

(* The row a command or a write leaves.                                    *)
LEMMA MovedTyped ==
  ASSUME TypeOK, NEW status \in Statuses, NEW stage \in Stages,
         NEW failure \in {"none", "retryable", "final"}
  PROVE  /\ Moved(status, stage, failure) \in ReviewRecord
         /\ Moved(status, stage, failure).status = status
         /\ Moved(status, stage, failure).stage = stage
         /\ Moved(status, stage, failure).revision = review.revision + 1
<1>1. review \in ReviewRecord
  BY DEF TypeOK, ReviewRecord
<1>2. review.revision \in Nat /\ review.extracted \in BOOLEAN
  BY <1>1 DEF ReviewRecord
<1>3. QED
  BY <1>2 DEF Moved, ReviewRecord

LEMMA RevokedTyped ==
  ASSUME TypeOK, NEW v
  PROVE  /\ Revoked(v) \in [Workers -> WorkerRecord]
         /\ \A w \in Workers :
               /\ Revoked(v)[w].pc = worker[w].pc
               /\ Revoked(v)[w].revision = worker[w].revision
               /\ Revoked(v)[w].seen = worker[w].seen
               /\ Revoked(v)[w].live => worker[w].live /\ w # v
  BY DEF Revoked, WorkerRecord, TypeOK

(* A worker that has made a step of its own.                               *)
LEMMA SetTyped ==
  ASSUME TypeOK, NEW w \in Workers, NEW state \in WorkerRecord, Set(w, state)
  PROVE  /\ worker' \in [Workers -> WorkerRecord]
         /\ worker'[w] = state
         /\ \A v \in Workers \ {w} : worker'[v] = worker[v]
  BY DEF Set, WorkerRecord, TypeOK

LEMMA WorkerFields ==
  ASSUME TypeOK, NEW w \in Workers
  PROVE  worker[w] \in WorkerRecord
  BY DEF TypeOK, WorkerRecord

LEMMA ReviewFields ==
  ASSUME TypeOK PROVE review \in ReviewRecord
  BY DEF TypeOK, ReviewRecord

LEMMA GotoTyped ==
  ASSUME TypeOK, NEW w \in Workers, NEW pc \in PCs, Goto(w, pc)
  PROVE  /\ worker' \in [Workers -> WorkerRecord]
         /\ worker'[w] = [worker[w] EXCEPT !.pc = pc]
         /\ \A v \in Workers \ {w} : worker'[v] = worker[v]
<1>1. [worker[w] EXCEPT !.pc = pc] \in WorkerRecord
  BY WorkerFields DEF WorkerRecord
<1>2. QED
  BY <1>1, SetTyped DEF Goto

(* What a step may do to the session and its findings: a change of the     *)
(* findings gives the session a new revision and needs it open.            *)
RowMoves ==
    /\ review' \in ReviewRecord /\ finding' \in Findings
    /\ \/ review' = review /\ finding' = finding
       \/ review'.revision = review.revision + 1 /\ finding' = finding
       \/ review'.revision = review.revision + 1 /\ ~Terminal

LEMMA CommandMoves ==
  ASSUME TypeOK, Command PROVE RowMoves
<1> USE MovedTyped, ReviewFields DEF RowMoves
<1>1. finding \in Findings /\ review.status \in Statuses /\ review.stage \in Stages
      /\ review.failure \in {"none", "retryable", "final"}
  BY DEF TypeOK
<1>2. CASE Start
  BY <1>1, <1>2 DEF Start, Statuses, Stages, Work
<1>3. CASE Cancel
  BY <1>1, <1>3 DEF Cancel, Statuses
<1>4. CASE GenerateReport
  BY <1>1, <1>4 DEF GenerateReport, Statuses, Stages, Work
<1>5. ASSUME NEW d \in Sources, NEW decision \in Decisions, Decide(d, decision)
      PROVE  RowMoves
  <2>1. finding' \in Findings
    BY <1>1, <1>5 DEF Decide, Findings
  <2>2. QED
    BY <1>1, <1>5, <2>1 DEF Decide
<1>6. ASSUME NEW stage \in Stages, RetryStage(stage) PROVE RowMoves
  <2>1. StatusOf(stage) \in Statuses
    BY DEF StatusOf, Statuses, Stages, Work
  <2>2. QED
    BY <1>1, <1>6, <2>1 DEF RetryStage
<1>7. QED
  BY <1>2, <1>3, <1>4, <1>5, <1>6 DEF Command

LEMMA WriteMoves ==
  ASSUME TypeOK, NEW w \in Workers, WriteStep(w) PROVE RowMoves
<1> USE MovedTyped, ReviewFields DEF RowMoves
<1>1. /\ finding \in Findings
      /\ {"running", "awaitingConfirmation", "completed"} \subseteq Statuses
      /\ {"reviewingRules", "reviewingAgent", "awaitingConfirmation", "completed"} \subseteq Stages
  BY DEF TypeOK, Statuses, Stages, Work
<1>2. ASSUME NEW s \in Sources, Replace(s) PROVE finding' \in Findings
  BY <1>1, <1>2 DEF Replace, Findings
<1>3. CASE SaveExtraction(w)
  <2> DEFINE m == Moved("running", "reviewingRules", "none")
  <2>1. m \in ReviewRecord /\ m.revision = review.revision + 1
    BY <1>1
  <2>2. review' = [m EXCEPT !.extracted = TRUE] /\ finding' = finding
    BY <1>3 DEF SaveExtraction
  <2> HIDE DEF m
  <2>3. QED
    BY <1>1, <2>1, <2>2 DEF ReviewRecord
<1>4. CASE SaveRules(w)
  BY <1>1, <1>2, <1>4 DEF SaveRules, Sources
<1>5. CASE BeginAgent(w)
  BY <1>1, <1>5 DEF BeginAgent
<1>6. CASE SaveAgent(w)
  BY <1>1, <1>2, <1>6 DEF SaveAgent, AtAgent, Sources
<1>7. CASE Degrade(w)
  BY <1>1, <1>7 DEF Degrade
<1>8. CASE SaveReport(w)
  BY <1>1, <1>8 DEF SaveReport
<1>9. QED
  BY <1>3, <1>4, <1>5, <1>6, <1>7, <1>8 DEF WriteStep

LEMMA StepMoves ==
  ASSUME TypeOK, Next PROVE RowMoves
<1>1. finding \in Findings
  BY DEF TypeOK
<1>2. ASSUME UNCHANGED <<review, finding>> PROVE RowMoves
  BY <1>1, <1>2, ReviewFields DEF RowMoves
<1>3. CASE Restart
  <2>1. review' = review \/ review' = Moved("failed", review.stage, "retryable")
    BY <1>3 DEF Restart
  <2>2. Moved("failed", review.stage, "retryable") \in ReviewRecord
        /\ Moved("failed", review.stage, "retryable").revision = review.revision + 1
    BY MovedTyped DEF TypeOK, Statuses
  <2>3. QED
    BY <1>1, <1>3, <2>1, <2>2, ReviewFields DEF Restart, RowMoves
<1>4. CASE RuntimeStep
  BY <1>2, <1>4 DEF RuntimeStep, Notify, Launch, LaunchFails
<1>5. ASSUME NEW w \in Workers, WorkerStep(w) PROVE RowMoves
  <2>1. CASE PersistFailure(w)
    <3> DEFINE failure == IF worker[w].final THEN "final" ELSE "retryable"
    <3>1. Moved("failed", review.stage, failure) \in ReviewRecord
          /\ Moved("failed", review.stage, failure).revision = review.revision + 1
      BY MovedTyped DEF TypeOK, Statuses
    <3>2. review' = Moved("failed", review.stage, failure) /\ finding' = finding
      BY <2>1 DEF PersistFailure
    <3>3. QED
      BY <1>1, <3>1, <3>2 DEF RowMoves
  <2>2. QED
    BY <1>2, <1>5, <2>1, WriteMoves
       DEF WorkerStep, Begin, Read, StageFails, End, ReadForFailure, FailureLogged, Leave
<1>6. QED
  BY <1>3, <1>4, <1>5, CommandMoves DEF Next

(* What a step may do to a worker: leave it as it was, but for its token,  *)
(* or give it a revision that is there and the findings of that revision.  *)
Kept(w) ==
    /\ worker'[w].pc = worker[w].pc /\ worker'[w].revision = worker[w].revision
    /\ worker'[w].seen = worker[w].seen
    /\ worker'[w].live => worker[w].live

ReadsNow(w) ==
    /\ worker'[w].revision <= review'.revision
    /\ worker'[w].pc = "generatingReport" => worker'[w].seen = finding'

WorkersMove ==
    /\ worker' \in [Workers -> WorkerRecord]
    /\ \A w \in Workers : Kept(w) \/ ReadsNow(w)

LEMMA RevokedMoves ==
  ASSUME TypeOK, NEW v, worker' = Revoked(v) PROVE WorkersMove
  BY RevokedTyped DEF WorkersMove, Kept

(* One worker steps: the others are kept.                                  *)
LEMMA SetMoves ==
  ASSUME TypeOK, NEW w \in Workers, NEW state \in WorkerRecord, Set(w, state),
         state.revision <= review'.revision,
         state.pc = "generatingReport" => state.seen = finding'
  PROVE  WorkersMove
  BY SetTyped DEF WorkersMove, Kept, ReadsNow

LEMMA GotoMoves ==
  ASSUME TypeOK, NeverAhead, NEW w \in Workers, NEW pc \in PCs, Goto(w, pc),
         pc # "generatingReport", review' \in ReviewRecord,
         review'.revision \in {review.revision, review.revision + 1}
  PROVE  WorkersMove
<1> DEFINE state == [worker[w] EXCEPT !.pc = pc]
<1>1. worker[w] \in WorkerRecord
  BY WorkerFields
<1>2. state \in WorkerRecord /\ state.pc = pc /\ state.revision = worker[w].revision
  BY <1>1 DEF WorkerRecord
<1>3. state.revision <= review'.revision
  BY <1>1, <1>2, ReviewFields DEF NeverAhead, WorkerRecord, ReviewRecord
<1>4. Set(w, state)
  BY DEF Goto
<1> HIDE DEF state
<1>5. QED
  BY <1>2, <1>3, <1>4, SetMoves

LEMMA FailMoves ==
  ASSUME TypeOK, NeverAhead, NEW w \in Workers, NEW final \in BOOLEAN, Fail(w, final),
         UNCHANGED <<review, finding>>
  PROVE  WorkersMove
<1> DEFINE state == [worker[w] EXCEPT !.pc = "failing", !.seen = None, !.final = final]
<1>1. worker[w] \in WorkerRecord
  BY WorkerFields
<1>2. state \in WorkerRecord /\ state.pc = "failing" /\ state.revision = worker[w].revision
  BY <1>1 DEF WorkerRecord, PCs
<1>3. state.revision <= review'.revision
  BY <1>2 DEF NeverAhead
<1>4. Set(w, state)
  BY DEF Fail
<1> HIDE DEF state
<1>5. QED
  BY <1>2, <1>3, <1>4, SetMoves

LEMMA TakeMoves ==
  ASSUME TypeOK, NEW w \in Workers, NEW stage \in Work, Take(w, stage),
         UNCHANGED <<review, finding>>
  PROVE  WorkersMove
<1> DEFINE shown == IF stage = "generatingReport" THEN finding ELSE None
           state == [worker[w] EXCEPT !.pc = stage, !.revision = review.revision, !.seen = shown]
<1>1. worker[w] \in WorkerRecord /\ review.revision \in Nat /\ shown \in Findings \cup {None}
  BY WorkerFields, ReviewFields DEF ReviewRecord, TypeOK
<1>2. Set(w, state)
  BY DEF Take
<1> HIDE DEF shown
<1>3. state \in WorkerRecord /\ state.pc = stage /\ state.revision = review.revision
      /\ state.seen = shown
  BY <1>1 DEF WorkerRecord, PCs
<1>4. state.pc = "generatingReport" => state.seen = finding'
  BY <1>3 DEF shown
<1> HIDE DEF state
<1>5. state.revision <= review'.revision
  BY <1>1, <1>3
<1>6. QED
  BY <1>2, <1>3, <1>4, <1>5, SetMoves

LEMMA WriteWorkers ==
  ASSUME TypeOK, NeverAhead, NEW w \in Workers, WriteStep(w) PROVE WorkersMove
<1>1. review' \in ReviewRecord /\ review'.revision = review.revision + 1
  <2>1. review' \in ReviewRecord
    BY WriteMoves DEF RowMoves
  <2>2. CASE SaveExtraction(w)
    BY <2>2, <2>1 DEF SaveExtraction, Moved
  <2>3. CASE SaveRules(w) \/ BeginAgent(w) \/ SaveAgent(w) \/ Degrade(w) \/ SaveReport(w)
    BY <2>3, <2>1 DEF SaveRules, BeginAgent, SaveAgent, Degrade, SaveReport, Moved
  <2>4. QED
    BY <2>1, <2>2, <2>3 DEF WriteStep
<1>2. {"reading", "rulesSaved", "ending"} \subseteq PCs
  BY DEF PCs
<1>3. CASE Goto(w, "reading")
  BY <1>1, <1>2, <1>3, GotoMoves
<1>4. CASE SaveRules(w)
  <2> DEFINE state == [worker[w] EXCEPT !.pc = "rulesSaved", !.revision = @ + 1]
  <2>1. worker[w] \in WorkerRecord
    BY WorkerFields
  <2>2. Set(w, state)
    BY <1>4 DEF SaveRules
  <2>3. worker[w].revision + 1 \in Nat
    BY <2>1 DEF WorkerRecord
  <2>4. state \in WorkerRecord /\ state.pc = "rulesSaved"
        /\ state.revision = worker[w].revision + 1
    BY <2>1, <2>3, <1>2 DEF WorkerRecord
  <2>5. state.revision <= review'.revision
    BY <1>1, <2>1, <2>4, ReviewFields DEF NeverAhead, WorkerRecord, ReviewRecord
  <2> HIDE DEF state
  <2>6. QED
    BY <2>2, <2>4, <2>5, SetMoves
<1>5. CASE SaveReport(w)
  <2> DEFINE next == IF review.status = "completed" THEN "ending" ELSE "reading"
             state == [worker[w] EXCEPT !.seen = None, !.pc = next]
  <2>1. worker[w] \in WorkerRecord
    BY WorkerFields
  <2>2. Set(w, state)
    BY <1>5 DEF SaveReport
  <2>3. next \in PCs \ {"generatingReport"}
    BY <1>2
  <2> HIDE DEF next
  <2>4. state \in WorkerRecord /\ state.pc = next /\ state.revision = worker[w].revision
    BY <2>1, <2>3 DEF WorkerRecord
  <2>5. state.revision <= review'.revision
    BY <1>1, <2>1, <2>4, ReviewFields DEF NeverAhead, WorkerRecord, ReviewRecord
  <2> HIDE DEF state
  <2>6. QED
    BY <2>2, <2>3, <2>4, <2>5, SetMoves
<1>6. QED
  BY <1>3, <1>4, <1>5 DEF WriteStep, SaveExtraction, BeginAgent, SaveAgent, Degrade

LEMMA StepWorkers ==
  ASSUME TypeOK, NeverAhead, Next PROVE WorkersMove
<1>1. review' \in ReviewRecord
      /\ review'.revision \in {review.revision, review.revision + 1}
  BY StepMoves DEF RowMoves
<1>2. CASE Command
  <2>1. worker' = worker
    BY <1>2 DEF Command, Start, Cancel, GenerateReport, Decide, RetryStage, Commands
  <2>2. QED
    BY <2>1 DEF WorkersMove, Kept, TypeOK, WorkerRecord
<1>3. CASE Restart
  <2>1. worker' = [w \in Workers |-> Off]
    BY <1>3 DEF Restart
  <2>2. QED
    BY <1>1, <2>1, OffTyped DEF WorkersMove, ReadsNow, Off, ReviewRecord
<1>4. CASE RuntimeStep
  <2>1. CASE Notify
    BY <2>1, RevokedMoves DEF Notify
  <2>2. ASSUME NEW w \in Workers, Launch(w) PROVE WorkersMove
    <3> DEFINE new == [Off EXCEPT !.pc = "starting", !.live = TRUE,
                          !.report = notice = "report"]
    <3>1. new \in WorkerRecord /\ new.pc = "starting" /\ new.revision = 0
      BY OffTyped DEF WorkerRecord, PCs, Off
    <3>2. worker' = [Revoked(active) EXCEPT ![w] = new]
      BY <2>2 DEF Launch
    <3> HIDE DEF new
    <3>3. QED
      BY <1>1, <3>1, <3>2, RevokedTyped DEF WorkersMove, Kept, ReadsNow, ReviewRecord
  <2>3. ASSUME NEW w \in Workers, LaunchFails(w) PROVE WorkersMove
    <3>1. worker' = [Revoked(active) EXCEPT ![w] = [Revoked(active)[w] EXCEPT !.pc = "failing"]]
      BY <2>3, RevokedTyped DEF LaunchFails
    <3>2. Revoked(active)[w] \in WorkerRecord
      BY RevokedTyped
    <3>3. /\ [Revoked(active)[w] EXCEPT !.pc = "failing"] \in WorkerRecord
          /\ [Revoked(active)[w] EXCEPT !.pc = "failing"].revision = Revoked(active)[w].revision
          /\ [Revoked(active)[w] EXCEPT !.pc = "failing"].pc = "failing"
      BY <3>2 DEF WorkerRecord, PCs
    <3>4. Revoked(active)[w].revision <= review'.revision
      BY <2>3, RevokedTyped DEF NeverAhead, LaunchFails
    <3>5. QED
      BY <3>1, <3>3, <3>4, RevokedTyped DEF WorkersMove, Kept, ReadsNow
  <2>4. QED
    BY <1>4, <2>1, <2>2, <2>3 DEF RuntimeStep
<1>5. ASSUME NEW w \in Workers, WorkerStep(w) PROVE WorkersMove
  <2>1. {"ending", "reading", "leaving"} \subseteq PCs
    BY DEF PCs
  <2>2. ASSUME NEW pc \in {"ending", "reading", "leaving"}, Goto(w, pc) PROVE WorkersMove
    BY <1>1, <2>1, <2>2, GotoMoves
  <2>3. ASSUME NEW final \in BOOLEAN, Fail(w, final), UNCHANGED <<review, finding>>
        PROVE  WorkersMove
    BY <2>3, FailMoves
  <2>4. ASSUME NEW stage \in Work, Take(w, stage), UNCHANGED <<review, finding>>
        PROVE  WorkersMove
    BY <2>4, TakeMoves
  <2>5. CASE Begin(w)
    BY <2>2, <2>4, <2>5 DEF Begin, Work
  <2>6. CASE Read(w)
    BY <2>2, <2>4, <2>6 DEF Read
  <2>7. CASE StageFails(w)
    BY <2>3, <2>7 DEF StageFails
  <2>8. CASE End(w)
    BY <2>2, <2>3, <2>8 DEF End
  <2>9. CASE ReadForFailure(w)
    <3> DEFINE state == [worker[w] EXCEPT !.pc = "persisting", !.revision = review.revision]
    <3>1. state \in WorkerRecord /\ state.pc = "persisting"
          /\ state.revision = review.revision
      BY WorkerFields, ReviewFields DEF WorkerRecord, PCs, ReviewRecord
    <3>2. state.revision <= review'.revision
      BY <2>9, <3>1, ReviewFields DEF ReadForFailure, ReviewRecord
    <3>3. CASE Set(w, state)
      <4> HIDE DEF state
      <4>1. QED
        BY <3>1, <3>2, <3>3, SetMoves
    <3>4. QED
      BY <2>2, <2>9, <3>3 DEF ReadForFailure
  <2>10. CASE PersistFailure(w) \/ FailureLogged(w)
    BY <2>2, <2>10 DEF PersistFailure, FailureLogged
  <2>11. CASE Leave(w)
    <3>1. Off.revision <= review'.revision /\ Off.pc # "generatingReport"
      BY <1>1 DEF Off, ReviewRecord
    <3>2. QED
      BY <2>11, <3>1, OffTyped, SetMoves DEF Leave
  <2>12. QED
    BY <1>5, <2>5, <2>6, <2>7, <2>8, <2>9, <2>10, <2>11, WriteWorkers DEF WorkerStep
<1>6. QED
  BY <1>2, <1>3, <1>4, <1>5 DEF Next

LEMMA CommandsType ==
  ASSUME TypeOK, Command
  PROVE  /\ notice' \in Workers \cup {None, "drive", "report", "cancel"}
         /\ active' \in Workers \cup {None} /\ logged' \in BOOLEAN
<1>1. \E next \in {None, "drive", "report", "cancel"} : Commands(next)
  BY DEF Command, Start, Cancel, GenerateReport, Decide, RetryStage
<1>2. UNCHANGED <<active, logged>>
  BY <1>1 DEF Commands
<1>3. notice' \in Workers \cup {None, "drive", "report", "cancel"}
  BY <1>1 DEF Commands
<1>4. logged' \in BOOLEAN
  BY <1>2 DEF TypeOK
<1>5. QED
  BY <1>2, <1>3, <1>4 DEF TypeOK

LEMMA MapTyped ==
  ASSUME TypeOK, Next
  PROVE  /\ notice' \in Workers \cup {None, "drive", "report", "cancel"}
         /\ active' \in Workers \cup {None}
<1> USE DEF TypeOK
<1>1. CASE Restart
  BY <1>1 DEF Restart
<1>2. CASE RuntimeStep
  BY <1>2 DEF RuntimeStep, Notify, Launch, LaunchFails
<1>3. ASSUME NEW w \in Workers, WorkerStep(w)
      PROVE  /\ notice' \in Workers \cup {None, "drive", "report", "cancel"}
             /\ active' \in Workers \cup {None}
  BY <1>3 DEF WorkerStep, Begin, Read, WriteStep, StageFails, End, ReadForFailure,
     PersistFailure, FailureLogged, Leave, Unregister
<1>4. QED
  BY <1>1, <1>2, <1>3, CommandsType DEF Next

LEMMA LoggedTyped ==
  ASSUME TypeOK, Next PROVE logged' \in BOOLEAN
<1>1. logged' = logged \/ logged' = TRUE \/ logged' = FALSE
  <2>1. CASE Command
    BY <2>1 DEF Command, Start, Cancel, GenerateReport, Decide, RetryStage, Commands
  <2>2. CASE Restart
    BY <2>2, Zenon DEF Restart
  <2>3. CASE RuntimeStep
    BY <2>3, Zenon DEF RuntimeStep, Notify, Launch, LaunchFails
  <2>4. ASSUME NEW w \in Workers, WorkerStep(w)
        PROVE  logged' = logged \/ logged' = TRUE \/ logged' = FALSE
    BY <2>4, Zenon DEF WorkerStep, Begin, Read, WriteStep, StageFails, End, ReadForFailure,
       PersistFailure, FailureLogged, Leave
  <2>5. QED
    BY <2>1, <2>2, <2>3, <2>4 DEF Next
<1>2. QED
  BY <1>1 DEF TypeOK

-------------------------------------------------------------------------------
(***************************************************************************)
(* Findings, decisions and reports.                                        *)
(***************************************************************************)
LEMMA Fences ==
  ASSUME IInv, Next PROVE NeverAhead' /\ ReportsFresh'
<1> USE DEF IInv
<1>1. /\ review \in ReviewRecord /\ review' \in ReviewRecord
      /\ review'.revision \in {review.revision, review.revision + 1}
      /\ finding' = finding \/ review'.revision = review.revision + 1
  BY StepMoves, ReviewFields DEF RowMoves
<1>2. WorkersMove
  BY StepWorkers
<1>3. ASSUME NEW w \in Workers
      PROVE  /\ worker'[w].revision <= review'.revision
             /\ worker'[w].pc = "generatingReport" /\ worker'[w].revision = review'.revision
                   => worker'[w].seen = finding'
  <2>1. worker[w].revision <= review.revision /\ worker[w].revision \in Nat
        /\ review.revision \in Nat
    BY <1>1, WorkerFields DEF NeverAhead, WorkerRecord, ReviewRecord
  <2>2. CASE Kept(w)
    BY <1>1, <2>1, <2>2 DEF Kept, ReportsFresh, SameRevision
  <2>3. CASE ReadsNow(w)
    BY <2>3 DEF ReadsNow
  <2>4. QED
    BY <1>2, <2>2, <2>3 DEF WorkersMove
<1>4. QED
  BY <1>3 DEF NeverAhead, ReportsFresh, SameRevision

(* The stage and the status a report needs are entered only with decided   *)
(* findings, and left when findings change otherwise.                      *)
Settling == review.status = "completed"

LEMMA ReportWritten ==
  ASSUME IInv, NEW w \in Workers, SaveReport(w)
  PROVE  /\ worker[w].seen = finding /\ NoneOpen
         /\ reports' = reports \cup {finding} /\ finding' = finding
         /\ review'.status = "completed" /\ finding \in Findings
<1>1. worker[w].seen = finding
  BY DEF IInv, SaveReport, MayWrite, ReportsFresh
<1>2. NoneOpen
  BY <1>1 DEF SaveReport, NoneOpen
<1>3. QED
  BY <1>1, <1>2 DEF IInv, SaveReport, Moved, TypeOK

LEMMA NoOtherReport ==
  ASSUME Next, \A w \in Workers : ~SaveReport(w) PROVE reports' = reports
<1>1. CASE Command
  BY <1>1 DEF Command, Start, Cancel, GenerateReport, Decide, RetryStage
<1>2. CASE Restart \/ RuntimeStep
  BY <1>2 DEF Restart, RuntimeStep, Notify, Launch, LaunchFails
<1>3. ASSUME NEW w \in Workers, WorkerStep(w) PROVE reports' = reports
  BY <1>3 DEF WorkerStep, Begin, Read, WriteStep, SaveExtraction, SaveRules, BeginAgent,
     SaveAgent, Degrade, StageFails, End, ReadForFailure, PersistFailure, FailureLogged, Leave
<1>4. QED
  BY <1>1, <1>2, <1>3 DEF Next

LEMMA CommandSettles ==
  ASSUME TypeOK, DecidedFirst, Command
  PROVE  Settling' => NoneOpen'
<1> USE DEF Settling
<1>1. CASE Start
  BY <1>1 DEF Start, Moved
<1>2. CASE Cancel
  BY <1>2 DEF Cancel, Moved, DecidedFirst, NoneOpen
<1>3. CASE GenerateReport
  BY <1>3 DEF GenerateReport, NoneOpen
<1>4. ASSUME NEW s \in Sources, NEW decision \in Decisions, Decide(s, decision)
      PROVE  Settling' => NoneOpen'
  <2>1. Settling' => NoneOpen
    BY <1>4 DEF Decide, Moved, DecidedFirst
  <2>2. decision # "open"
    BY DEF Decisions
  <2>3. QED
    BY <1>4, <2>1, <2>2 DEF Decide, NoneOpen, TypeOK, Findings
<1>5. ASSUME NEW stage \in Stages, RetryStage(stage)
      PROVE  Settling' => NoneOpen'
  <2>1. StatusOf(stage) # "completed"
    BY <1>5 DEF RetryStage, MayRetry, StatusOf, Stages, Work
  <2>2. review'.status = StatusOf(stage)
    BY <1>5 DEF RetryStage, Moved
  <2>3. QED
    BY <2>1, <2>2
<1>6. QED
  BY <1>1, <1>2, <1>3, <1>4, <1>5 DEF Command

LEMMA Settles ==
  ASSUME TypeOK, DecidedFirst, Next, \A w \in Workers : ~SaveReport(w)
  PROVE  Settling' => NoneOpen'
<1>1. ASSUME finding' = finding, Settling' => Settling PROVE Settling' => NoneOpen'
  BY <1>1 DEF DecidedFirst, Settling, NoneOpen
<1>2. CASE Restart
  BY <1>1, <1>2 DEF Restart, Moved, Settling
<1>3. CASE RuntimeStep
  BY <1>1, <1>3 DEF RuntimeStep, Notify, Launch, LaunchFails, Settling
<1>4. ASSUME NEW w \in Workers, WorkerStep(w) PROVE Settling' => NoneOpen'
  <2>1. CASE WriteStep(w)
    <3>1. CASE SaveExtraction(w)
      BY <3>1 DEF SaveExtraction, Moved, Settling
    <3>2. CASE SaveRules(w) \/ BeginAgent(w) \/ SaveAgent(w) \/ Degrade(w)
      BY <3>2 DEF SaveRules, BeginAgent, SaveAgent, Degrade, Moved, Settling
    <3>3. QED
      BY <2>1, <3>1, <3>2 DEF WriteStep
  <2>2. CASE PersistFailure(w)
    BY <1>1, <2>2 DEF PersistFailure, Moved, Settling
  <2>3. QED
    BY <1>1, <1>4, <2>1, <2>2 DEF WorkerStep, Begin, Read, StageFails, End, ReadForFailure,
       FailureLogged, Leave, Settling
<1>5. QED
  BY <1>2, <1>3, <1>4, CommandSettles DEF Next

(* A completed or cancelled review keeps its status and its findings.      *)
LEMMA TerminalKept ==
  ASSUME TypeOK, Next, Terminal
  PROVE  review'.status = review.status /\ finding' = finding
<1> USE DEF Terminal
<1>1. CASE Command
  <2>1. CASE GenerateReport
    BY <2>1 DEF GenerateReport, Moved
  <2>2. ASSUME NEW stage \in Stages, RetryStage(stage) PROVE FALSE
    BY <2>2 DEF RetryStage, MayRetry
  <2>3. QED
    BY <1>1, <2>1, <2>2 DEF Command, Start, Cancel, Decide
<1>2. CASE Restart
  BY <1>2 DEF Restart
<1>3. CASE RuntimeStep
  BY <1>3 DEF RuntimeStep, Notify, Launch, LaunchFails
<1>4. ASSUME NEW w \in Workers, WorkerStep(w)
      PROVE  review'.status = review.status /\ finding' = finding
  <2>1. CASE SaveReport(w)
    BY <2>1 DEF SaveReport, Moved
  <2>2. QED
    BY <1>4, <2>1 DEF WorkerStep, Begin, Read, WriteStep, SaveExtraction, SaveRules, BeginAgent,
       SaveAgent, AtAgent, Degrade, StageFails, End, ReadForFailure, PersistFailure,
       FailureLogged, Leave
<1>5. QED
  BY <1>1, <1>2, <1>3, <1>4 DEF Next

LEMMA ReportsKept ==
  ASSUME IInv, Next PROVE DecidedFirst' /\ ReportShowsDecisions'
<1> USE DEF IInv
<1>1. ASSUME NEW w \in Workers, SaveReport(w) PROVE DecidedFirst' /\ ReportShowsDecisions'
  <2>1. \A shown \in reports : shown = finding
    BY DEF ReportShowsDecisions
  <2>2. QED
    BY <1>1, <2>1, ReportWritten DEF DecidedFirst, ReportShowsDecisions, NoneOpen
<1>2. CASE \A w \in Workers : ~SaveReport(w)
  <2>1. reports' = reports
    BY <1>2, NoOtherReport
  <2>2. reports # {} => review'.status = "completed" /\ finding' = finding
    BY TerminalKept DEF DecidedFirst, Terminal
  <2>3. Settling' => NoneOpen'
    BY <1>2, Settles
  <2>4. QED
    BY <2>1, <2>2, <2>3 DEF DecidedFirst, ReportShowsDecisions, Settling
<1>3. QED
  BY <1>1, <1>2

-------------------------------------------------------------------------------
(***************************************************************************)
(* Tokens.                                                                 *)
(***************************************************************************)
LEMMA CommandTokens ==
  ASSUME IInv, Command
  PROVE  LiveIsActive' /\ NothingDrivenCancelled' /\ CancelReachesWorker'
<1> USE DEF IInv
<1>1. UNCHANGED <<worker, active>> /\ notice = None
  BY DEF Command, Start, Cancel, GenerateReport, Decide, RetryStage, Commands, Idle
<1>2. LiveIsActive'
  BY <1>1 DEF LiveIsActive
<1>3. \/ review'.status = "cancelled" /\ notice' = "cancel"
      \/ review'.status # "cancelled"
  <2>1. ASSUME NEW stage \in Stages, RetryStage(stage) PROVE review'.status # "cancelled"
    BY <2>1 DEF RetryStage, Moved, StatusOf, Stages, Work
  <2>2. CASE Start \/ Cancel \/ GenerateReport
    BY <2>2 DEF Start, Cancel, GenerateReport, Commands, Moved
  <2>3. ASSUME NEW s \in Sources, NEW decision \in Decisions, Decide(s, decision)
        PROVE  review'.status # "cancelled"
    BY <2>3 DEF Decide, Terminal, Moved
  <2>4. QED
    BY <2>1, <2>2, <2>3 DEF Command
<1>4. QED
  BY <1>2, <1>3 DEF NothingDrivenCancelled, CancelReachesWorker

LEMMA RuntimeTokens ==
  ASSUME IInv, RuntimeStep
  PROVE  LiveIsActive' /\ NothingDrivenCancelled' /\ CancelReachesWorker'
<1> USE DEF IInv
<1>1. \A w \in Workers : ~Revoked(active)[w].live
  BY RevokedTyped DEF LiveIsActive
<1>2. review' = review
  BY DEF RuntimeStep, Notify, Launch, LaunchFails
<1>3. CASE Notify
  BY <1>1, <1>2, <1>3, ReviewAssumption
     DEF Notify, LiveIsActive, NothingDrivenCancelled, CancelReachesWorker
<1>4. ASSUME NEW w \in Workers, Launch(w)
      PROVE  LiveIsActive' /\ NothingDrivenCancelled' /\ CancelReachesWorker'
  <2>1. review.status # "cancelled"
    BY <1>4 DEF Launch, NothingDrivenCancelled
  <2>2. \A v \in Workers \ {w} : worker'[v] = Revoked(active)[v]
    BY <1>4, RevokedTyped DEF Launch
  <2>3. QED
    BY <1>1, <1>2, <1>4, <2>1, <2>2
       DEF Launch, LiveIsActive, NothingDrivenCancelled, CancelReachesWorker
<1>5. ASSUME NEW w \in Workers, LaunchFails(w)
      PROVE  LiveIsActive' /\ NothingDrivenCancelled' /\ CancelReachesWorker'
  <2>1. review.status # "cancelled"
    BY <1>5 DEF LaunchFails, NothingDrivenCancelled
  <2>2. \A v \in Workers : worker'[v].live = Revoked(active)[v].live
    <3>1. Revoked(active) \in [Workers -> WorkerRecord]
      BY RevokedTyped
    <3>2. QED
      BY <1>5, <3>1 DEF LaunchFails, WorkerRecord
  <2>3. QED
    BY <1>1, <1>2, <2>1, <2>2
       DEF LiveIsActive, NothingDrivenCancelled, CancelReachesWorker
<1>6. QED
  BY <1>3, <1>4, <1>5 DEF RuntimeStep

(* A worker's own step gives no token and makes no one busy again.         *)
OwnStep(w) ==
    /\ \A v \in Workers \ {w} : worker'[v] = worker[v]
    /\ worker'[w].live => worker[w].live
    /\ worker'[w].pc \in Busy => worker[w].pc \in Busy

LEMMA SetOwn ==
  ASSUME TypeOK, NEW w \in Workers, NEW state, Set(w, state),
         state.live => worker[w].live, state.pc \in Busy => worker[w].pc \in Busy
  PROVE  OwnStep(w)
  BY DEF Set, OwnStep, TypeOK

LEMMA GotoOwn ==
  ASSUME TypeOK, NEW w \in Workers, NEW pc, Goto(w, pc),
         pc \in Busy => worker[w].pc \in Busy
  PROVE  OwnStep(w)
<1> DEFINE state == [worker[w] EXCEPT !.pc = pc]
<1>1. state.live = worker[w].live /\ state.pc = pc
  BY WorkerFields DEF WorkerRecord
<1>2. Set(w, state)
  BY DEF Goto
<1> HIDE DEF state
<1>3. QED
  BY <1>1, <1>2, SetOwn, Zenon

LEMMA FailOwn ==
  ASSUME TypeOK, NEW w \in Workers, NEW final, Fail(w, final)
  PROVE  OwnStep(w)
<1> DEFINE state == [worker[w] EXCEPT !.pc = "failing", !.seen = None, !.final = final]
<1>1. state.live = worker[w].live /\ state.pc = "failing"
  BY WorkerFields DEF WorkerRecord
<1>2. Set(w, state) /\ "failing" \notin Busy
  BY DEF Fail, Busy, Work
<1> HIDE DEF state
<1>3. QED
  BY <1>1, <1>2, SetOwn, Zenon

LEMMA TakeOwn ==
  ASSUME TypeOK, NEW w \in Workers, NEW stage, Take(w, stage), worker[w].pc \in Busy
  PROVE  OwnStep(w)
<1> DEFINE shown == IF stage = "generatingReport" THEN finding ELSE None
           state == [worker[w] EXCEPT !.pc = stage, !.revision = review.revision, !.seen = shown]
<1>1. state.live = worker[w].live
  BY WorkerFields DEF WorkerRecord
<1>2. Set(w, state)
  BY DEF Take
<1> HIDE DEF state
<1>3. QED
  BY <1>1, <1>2, SetOwn, Zenon

LEMMA WriteOwn ==
  ASSUME TypeOK, NEW w \in Workers, WriteStep(w) PROVE OwnStep(w)
<1>1. worker[w].pc \in Busy
  BY DEF WriteStep, SaveExtraction, SaveRules, BeginAgent, SaveAgent, AtAgent, Degrade,
     SaveReport, Busy, Work
<1>2. CASE Goto(w, "reading")
  BY <1>1, <1>2, GotoOwn
<1>3. CASE SaveRules(w)
  <2> DEFINE state == [worker[w] EXCEPT !.pc = "rulesSaved", !.revision = @ + 1]
  <2>1. state.live = worker[w].live
    BY WorkerFields DEF WorkerRecord
  <2>2. Set(w, state)
    BY <1>3 DEF SaveRules
  <2> HIDE DEF state
  <2>3. QED
    BY <1>1, <2>1, <2>2, SetOwn, Zenon
<1>4. CASE SaveReport(w)
  <2> DEFINE next == IF review.status = "completed" THEN "ending" ELSE "reading"
             state == [worker[w] EXCEPT !.seen = None, !.pc = next]
  <2>1. state.live = worker[w].live
    BY WorkerFields DEF WorkerRecord
  <2>2. Set(w, state)
    BY <1>4 DEF SaveReport
  <2> HIDE DEF state
  <2>3. QED
    BY <1>1, <2>1, <2>2, SetOwn, Zenon
<1>5. QED
  BY <1>2, <1>3, <1>4 DEF WriteStep, SaveExtraction, BeginAgent, SaveAgent, Degrade

LEMMA WorkerOwn ==
  ASSUME TypeOK, NEW w \in Workers, WorkerStep(w) PROVE OwnStep(w)
<1>1. {"ending", "leaving", "persisting"} \cap Busy = {}
      /\ "starting" \in Busy /\ "reading" \in Busy
  BY DEF Busy, Work
<1>2. CASE Begin(w)
  BY <1>1, <1>2, GotoOwn, TakeOwn DEF Begin
<1>3. CASE Read(w)
  BY <1>1, <1>3, GotoOwn, TakeOwn DEF Read
<1>4. CASE StageFails(w) \/ End(w)
  BY <1>1, <1>4, FailOwn, GotoOwn DEF StageFails, End
<1>5. CASE ReadForFailure(w)
  <2> DEFINE state == [worker[w] EXCEPT !.pc = "persisting", !.revision = review.revision]
  <2>1. state.live = worker[w].live /\ state.pc = "persisting"
    BY WorkerFields DEF WorkerRecord
  <2>2. Set(w, state) \/ Goto(w, "leaving")
    BY <1>5 DEF ReadForFailure
  <2> HIDE DEF state
  <2>3. QED
    BY <1>1, <2>1, <2>2, SetOwn, GotoOwn, Zenon
<1>6. CASE PersistFailure(w) \/ FailureLogged(w)
  BY <1>1, <1>6, GotoOwn DEF PersistFailure, FailureLogged
<1>7. CASE Leave(w)
  <2>1. ~Off.live /\ Off.pc \notin Busy
    BY DEF Off, Busy, Work
  <2>2. QED
    BY <1>7, <2>1, SetOwn DEF Leave
<1>8. QED
  BY <1>2, <1>3, <1>4, <1>5, <1>6, <1>7, WriteOwn DEF WorkerStep

LEMMA WorkerTokens ==
  ASSUME IInv, NEW w \in Workers, WorkerStep(w)
  PROVE  LiveIsActive' /\ NothingDrivenCancelled' /\ CancelReachesWorker'
<1> USE DEF IInv
<1>1. OwnStep(w)
  BY WorkerOwn
<1>2. CASE Leave(w)
  <2>1. worker'[w] = Off
    BY <1>2, SetTyped, OffTyped DEF Leave
  <2>2. LiveIsActive'
    BY <1>1, <1>2, <2>1 DEF OwnStep, LiveIsActive, Leave, Unregister, Off
  <2>3. review' = review /\ notice' \in {notice, None}
    BY <1>2 DEF Leave
  <2>4. notice = "cancel" => notice' = "cancel"
    BY <1>2, ReviewAssumption DEF Leave
  <2>5. NothingDrivenCancelled' /\ CancelReachesWorker'
    BY <1>1, <2>3, <2>4, ReviewAssumption
       DEF OwnStep, NothingDrivenCancelled, CancelReachesWorker
  <2>6. QED
    BY <2>2, <2>5
<1>3. CASE UNCHANGED <<active, notice>>
  <2>1. review'.status = "cancelled" => review.status = "cancelled"
    <3>1. CASE SaveExtraction(w)
      BY <3>1 DEF SaveExtraction, Moved
    <3>2. CASE WriteStep(w) /\ ~SaveExtraction(w)
      BY <3>2 DEF WriteStep, SaveRules, BeginAgent, SaveAgent, Degrade, SaveReport, Moved
    <3>3. CASE PersistFailure(w)
      BY <3>3 DEF PersistFailure, Moved
    <3>4. CASE UNCHANGED review
      BY <3>4
    <3>5. QED
      BY <3>1, <3>2, <3>3, <3>4 DEF WorkerStep, Begin, Read, StageFails, End, ReadForFailure,
         FailureLogged, Leave
  <2>2. LiveIsActive'
    BY <1>1, <1>3 DEF OwnStep, LiveIsActive
  <2>3. NothingDrivenCancelled' /\ CancelReachesWorker'
    BY <1>1, <1>3, <2>1 DEF OwnStep, NothingDrivenCancelled, CancelReachesWorker
  <2>4. QED
    BY <2>2, <2>3
<1>4. CASE FailureLogged(w)
  BY <1>3, <1>4 DEF FailureLogged
<1>5. QED
  BY <1>2, <1>3, <1>4 DEF WorkerStep, Begin, Read, WriteStep, StageFails, End, ReadForFailure,
     PersistFailure

LEMMA RestartTokens ==
  ASSUME IInv, Restart
  PROVE  LiveIsActive' /\ NothingDrivenCancelled' /\ CancelReachesWorker'
<1>1. worker' = [w \in Workers |-> Off] /\ notice' = None
  BY DEF Restart
<1>2. \A w \in Workers : ~worker'[w].live
  BY <1>1 DEF Off
<1>3. QED
  BY <1>1, <1>2, ReviewAssumption DEF LiveIsActive, NothingDrivenCancelled, CancelReachesWorker

-------------------------------------------------------------------------------
(* The invariant, for any number of workers and any bound.                 *)
THEOREM Invariance == Spec => []IInv
<1>1. Init => IInv
  <2> SUFFICES ASSUME Init PROVE IInv
    OBVIOUS
  <2>1. TypeOK
    BY InitTyped
  <2>2. /\ review.status = "draft" /\ review.stage = "created" /\ review.revision = 1
        /\ reports = {} /\ worker = [w \in Workers |-> Off]
    BY DEF Init
  <2>3. QED
    BY <2>1, <2>2 DEF IInv, NeverAhead, ReportsFresh, DecidedFirst, ReportShowsDecisions,
       LiveIsActive, NothingDrivenCancelled, CancelReachesWorker, Off
<1>2. IInv /\ [Next]_vars => IInv'
  <2> SUFFICES ASSUME IInv, [Next]_vars PROVE IInv'
    OBVIOUS
  <2>1. CASE UNCHANGED vars
    BY <2>1 DEF vars, IInv, TypeOK, NeverAhead, ReportsFresh, SameRevision, DecidedFirst,
       NoneOpen, ReportShowsDecisions, LiveIsActive, NothingDrivenCancelled, CancelReachesWorker
  <2>2. CASE Next
    <3>1. NeverAhead' /\ ReportsFresh' /\ DecidedFirst' /\ ReportShowsDecisions'
      BY <2>2, Fences, ReportsKept
    <3>2. LiveIsActive' /\ NothingDrivenCancelled' /\ CancelReachesWorker'
      BY <2>2, CommandTokens, RuntimeTokens, WorkerTokens, RestartTokens DEF Next
    <3>3. TypeOK'
      <4>1. review' \in ReviewRecord /\ finding' \in Findings
        BY <2>2, StepMoves DEF RowMoves, IInv
      <4>2. worker' \in [Workers -> WorkerRecord]
        BY <2>2, StepWorkers DEF WorkersMove, IInv
      <4>3. reports' \subseteq Findings
        BY <2>2, ReportWritten, NoOtherReport DEF IInv, TypeOK
      <4>4. logged' \in BOOLEAN
        BY <2>2, LoggedTyped DEF IInv
      <4>5. QED
        BY <2>2, <4>1, <4>2, <4>3, <4>4, MapTyped DEF IInv, TypeOK, ReviewRecord, WorkerRecord
    <3>4. QED
      BY <3>1, <3>2, <3>3 DEF IInv
  <2>3. QED
    BY <2>1, <2>2
<1>3. QED
  BY <1>1, <1>2, PTL DEF Spec

(* Every variable stays within its type.                                   *)
THEOREM TypeCorrect == Spec => []TypeOK
<1>1. IInv => TypeOK
  BY DEF IInv
<1>2. QED
  BY <1>1, Invariance, PTL

(* Every report shows the findings as they are, all of them decided.       *)
THEOREM ReportsSafe == Spec => []ReportShowsDecisions
<1>1. IInv => ReportShowsDecisions
  BY DEF IInv
<1>2. QED
  BY <1>1, Invariance, PTL

(* A cancelled review has no worker that has not been told.                *)
THEOREM CancelSafe == Spec => []CancelReachesWorker
<1>1. IInv => CancelReachesWorker
  BY DEF IInv
<1>2. QED
  BY <1>1, Invariance, PTL

(* A decision is never taken back.                                         *)
THEOREM DecisionsSafe == Spec => DecisionsSurvive
<1>1. TypeOK /\ [Next]_vars =>
         [\A s \in Sources : finding[s] \in Decisions => finding'[s] \in Decisions]_vars
  <2> SUFFICES ASSUME TypeOK, Next, NEW s \in Sources, finding[s] \in Decisions
               PROVE  finding'[s] \in Decisions
    BY DEF vars
  <2>1. ASSUME NEW d \in Sources, NEW decision \in Decisions, Decide(d, decision)
        PROVE  finding'[s] \in Decisions
    BY <2>1 DEF Decide, TypeOK, Findings
  <2>2. ASSUME NEW d \in Sources, Replace(d) PROVE finding'[s] \in Decisions
    BY <2>2 DEF Replace, Replaceable, Undecided, TypeOK, Findings
  <2>3. CASE UNCHANGED finding
    BY <2>3
  <2>4. CASE Command
    BY <2>1, <2>3, <2>4 DEF Command, Start, Cancel, GenerateReport, RetryStage
  <2>5. ASSUME NEW w \in Workers, WriteStep(w) PROVE finding'[s] \in Decisions
    BY <2>2, <2>3, <2>5 DEF WriteStep, SaveExtraction, SaveRules, BeginAgent, SaveAgent,
       Degrade, SaveReport, Sources
  <2>6. CASE Restart \/ RuntimeStep
    BY <2>3, <2>6 DEF Restart, RuntimeStep, Notify, Launch, LaunchFails
  <2>7. ASSUME NEW w \in Workers, WorkerStep(w), ~WriteStep(w) PROVE finding'[s] \in Decisions
    BY <2>3, <2>7 DEF WorkerStep, Begin, Read, StageFails, End, ReadForFailure,
       PersistFailure, FailureLogged, Leave
  <2>8. QED
    BY <2>4, <2>5, <2>6, <2>7 DEF Next
<1>2. QED
  BY <1>1, TypeCorrect, PTL DEF Spec, DecisionsSurvive

(* A completed or cancelled review is never written again.                 *)
THEOREM TerminalSafe == Spec => TerminalStays
<1>1. TypeOK /\ [Next]_vars => [Terminal => review'.status = review.status]_vars
  BY TerminalKept
<1>2. QED
  BY <1>1, TypeCorrect, PTL DEF Spec, TerminalStays
===============================================================================
