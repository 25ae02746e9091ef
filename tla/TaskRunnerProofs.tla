--------------------------- MODULE TaskRunnerProofs ---------------------------
(***************************************************************************)
(* The worker pool of task_runner.rs, for any number of processes, workers *)
(* and tasks: it stays within the task ledger, and the outcome of an       *)
(* attempt comes from its own handler.  The attempt number is the fencing  *)
(* token: no worker is ahead of the ledger, and no two workers that have   *)
(* still to report on a task hold the same attempt.                        *)
(***************************************************************************)
EXTENDS TaskRunner, TLAPS

(* A worker that has still to report on its attempt.                       *)
Engaged(w) ==
    worker[w].pc \in {"claimed", "missing", "executing", "returned", "finishing"}

Handling(w) == worker[w].pc \in {"claimed", "executing"}

Fenced ==
    \A w \in Workers : Engaged(w) =>
        LET t == worker[w].task IN
        t \in Tasks /\ L!Exists(t) /\ worker[w].attempt <= ledger[t].attempt

AttemptsDiffer ==
    \A v, w \in Workers :
        v # w /\ Engaged(v) /\ Engaged(w) /\ worker[v].task = worker[w].task
            => worker[v].attempt # worker[w].attempt

IInv == TypeOK /\ Fenced /\ AttemptsDiffer /\ OutcomeFromOwnHandler

-------------------------------------------------------------------------------
(***************************************************************************)
(* Types.                                                                  *)
(***************************************************************************)
LEMMA IdleTyped ==
  ASSUME NEW pc \in PCs, NEW signal \in BOOLEAN
  PROVE  IdleWorker(pc, signal) \in Working
  BY DEF IdleWorker, Working

LEMMA StartsBound == MaxStarts \in Nat /\ 0 \in 0..MaxStarts
<1>1. MaxStarts \in Nat
  BY RunnerAssumption
<1>2. QED
  BY <1>1

LEMMA InitTyped == Init => TypeOK
<1> SUFFICES ASSUME Init PROVE TypeOK
  OBVIOUS
<1>1. ledger \in [Tasks -> L!Entry]
  BY RunnerAssumption DEF Init, L!Init, L!Absent, L!Entry, L!Statuses, L!Policies
<1>2. IdleWorker("off", FALSE) \in Working
  BY IdleTyped DEF PCs
<1>3. worker \in [Workers -> Working]
  BY <1>2 DEF Init
<1>4. handlers \in [Hosts -> SUBSET Kinds]
  BY DEF Init
<1>5. starts \in 0..MaxStarts
  BY StartsBound DEF Init
<1>6. notice \in [Hosts -> [type : {"none", "create", "cancel", "retry"},
                           task : Tasks \cup {None}]]
  BY DEF Init, NoNotice
<1>7. phase \in [Hosts -> Phases] /\ deferred \in [Hosts -> {"unset", "to come", "past"}]
  BY DEF Init, Phases
<1>8. QED
  BY <1>1, <1>3, <1>4, <1>5, <1>6, <1>7 DEF TypeOK

(* A worker's own record after a step.                                     *)
LEMMA FieldsTyped ==
  ASSUME NEW r \in Working, NEW pc \in PCs
  PROVE  /\ [r EXCEPT !.pc = pc] \in Working
         /\ \A signal \in BOOLEAN : [r EXCEPT !.pc = pc, !.signal = signal] \in Working
         /\ \A ks \in SUBSET Kinds : [r EXCEPT !.pc = pc, !.kinds = ks] \in Working
         /\ \A token \in {"live", "canceled"} :
               [r EXCEPT !.pc = pc, !.token = token] \in Working
         /\ \A result \in {"ok", "retryable", "fatal", "missing"} :
               [r EXCEPT !.pc = pc, !.result = result] \in Working
         /\ \A t \in Tasks, n \in Nat :
               [r EXCEPT !.pc = pc, !.kinds = {}, !.task = t, !.attempt = n] \in Working
  BY DEF Working

LEMMA SignalTyped ==
  ASSUME NEW state \in [Workers -> Working], NEW h \in Hosts
  PROVE  SignalWork(h, state) \in [Workers -> Working]
<1>1. \A w \in Workers : [state[w] EXCEPT !.signal = TRUE] \in Working
  BY DEF Working
<1>2. QED
  BY <1>1 DEF SignalWork

LEMMA CancelTyped ==
  ASSUME TypeOK, NEW ws
  PROVE  CancelTokens(ws) \in [Workers -> Working]
<1>1. \A r \in Working : [r EXCEPT !.token = "canceled"] \in Working
  BY DEF Working
<1>2. QED
  BY <1>1 DEF CancelTokens, TypeOK

LEMMA RecoverTyped ==
  ASSUME TypeOK, RecoverAll
  PROVE  ledger' \in [Tasks -> L!Entry]
<1>1. ledger \in [Tasks -> L!Entry]
  BY DEF TypeOK
<1>2. ASSUME NEW t \in Tasks PROVE L!InterruptedEntry(t) \in L!Entry
  BY <1>1 DEF L!InterruptedEntry, L!AfterInterruption, L!Entry, L!Statuses
<1>3. QED
  BY <1>2 DEF RecoverAll

LEMMA BecomeTyped ==
  ASSUME TypeOK, NEW t \in Tasks, NEW status \in L!Statuses, L!Become(t, status)
  PROVE  ledger' \in [Tasks -> L!Entry]
  BY DEF TypeOK, L!Become, L!Entry

LEMMA FinishTyped ==
  ASSUME TypeOK, NEW w \in Workers, Finish(w)
  PROVE  ledger' \in [Tasks -> L!Entry]
<1>1. CASE UNCHANGED ledger
  BY <1>1 DEF TypeOK
<1>2. ASSUME NEW t \in Tasks, NEW retryable PROVE L!AfterFailure(t, retryable) \in L!Statuses
  BY DEF L!AfterFailure, L!Statuses, L!Policies, L!Entry, TypeOK
<1>3. ASSUME NEW status \in L!Statuses, L!Become(worker[w].task, status)
      PROVE  ledger' \in [Tasks -> L!Entry]
  <2>1. CASE worker[w].task \in Tasks
    BY <1>3, <2>1, BecomeTyped
  <2>2. CASE worker[w].task \notin Tasks
    BY <1>3, <2>2 DEF L!Become, TypeOK
  <2>3. QED
    BY <2>1, <2>2
<1>4. CASE worker[w].task \in Tasks
  BY <1>1, <1>2, <1>3, <1>4 DEF Finish, L!Succeed, L!Fail, L!Statuses
<1>5. CASE worker[w].task \notin Tasks
  BY <1>1, <1>5 DEF Finish, L!Succeed, L!Fail, L!Become, TypeOK
<1>6. QED
  BY <1>4, <1>5

LEMMA WorkerTyped ==
  ASSUME TypeOK, NEW w \in Workers, WorkerStep(w) \/ HandlerReturns(w)
  PROVE  TypeOK'
<1> DEFINE r == worker[w]
<1>1. /\ r \in Working /\ HostOf[w] \in Hosts
      /\ worker \in [Workers -> Working]
  BY RunnerAssumption DEF TypeOK
<1>2. ASSUME NEW state \in Working, worker' = [worker EXCEPT ![w] = state]
      PROVE  worker' \in [Workers -> Working]
  BY <1>1, <1>2
<1>3. CASE WaitForWork(w)
  <2>1. worker' \in [Workers -> Working]
    BY <1>1, <1>2, <1>3, IdleTyped, FieldsTyped DEF WaitForWork, PCs
  <2>2. QED
    BY <1>3, <2>1 DEF WaitForWork, TypeOK
<1>4. CASE CheckBeforeClaim(w)
  <2>1. handlers[HostOf[w]] \in SUBSET Kinds
    BY <1>1 DEF TypeOK
  <2>2. worker' \in [Workers -> Working]
    BY <1>1, <1>2, <1>4, <2>1, FieldsTyped DEF CheckBeforeClaim, Goto, PCs
  <2>3. QED
    BY <1>1, <1>4, <2>2 DEF CheckBeforeClaim, TypeOK
<1>5. ASSUME NEW t \in Tasks, Claim(w, t) PROVE TypeOK'
  <2>1. ledger \in [Tasks -> L!Entry] /\ ledger[t].attempt + 1 \in Nat
    <3>1. ledger \in [Tasks -> L!Entry]
      BY DEF TypeOK
    <3>2. QED
      BY <3>1 DEF L!Entry
  <2>2. worker' \in [Workers -> Working]
    BY <1>1, <1>2, <1>5, <2>1, FieldsTyped DEF Claim, PCs
  <2>3. ledger' \in [Tasks -> L!Entry]
    BY <1>5, <2>1 DEF Claim, L!Claim, L!Entry, L!Statuses
  <2>4. QED
    BY <1>5, <2>2, <2>3 DEF Claim, TypeOK
<1>6. CASE NothingToClaim(w)
  <2>1. worker' \in [Workers -> Working]
    BY <1>1, <1>2, <1>6, FieldsTyped DEF NothingToClaim, PCs
  <2>2. QED
    BY <1>6, <2>1 DEF NothingToClaim, TypeOK
<1>7. CASE RegisterToken(w)
  <2>1. worker' \in [Workers -> Working]
    BY <1>1, <1>2, <1>7, FieldsTyped DEF RegisterToken, PCs
  <2>2. QED
    BY <1>7, <2>1 DEF RegisterToken, TypeOK
<1>8. CASE DeferClaims(w)
  <2>1. worker' \in [Workers -> Working]
    BY <1>1, <1>2, <1>8, FieldsTyped DEF DeferClaims, PCs
  <2>2. QED
    BY <1>1, <1>8, <2>1 DEF DeferClaims, TypeOK
<1>9. CASE HandlerReturns(w)
  <2>1. worker' \in [Workers -> Working]
    BY <1>1, <1>2, <1>9, FieldsTyped DEF HandlerReturns, PCs
  <2>2. QED
    BY <1>9, <2>1 DEF HandlerReturns, TypeOK
<1>10. CASE CheckBeforeFinish(w)
  <2>1. r.signal \in BOOLEAN
    BY <1>1 DEF Working
  <2>2. worker' \in [Workers -> Working]
    BY <1>1, <1>2, <1>10, <2>1, IdleTyped, FieldsTyped DEF CheckBeforeFinish, Goto, PCs
  <2>3. QED
    BY <1>10, <2>2 DEF CheckBeforeFinish, TypeOK
<1>11. CASE Finish(w)
  <2>1. worker' \in [Workers -> Working]
    BY <1>1, <1>2, <1>11, FieldsTyped DEF Finish, Goto, PCs
  <2>2. QED
    BY <1>11, <2>1, FinishTyped DEF Finish, TypeOK
<1>12. CASE Release(w)
  <2>1. r.signal \in BOOLEAN
    BY <1>1 DEF Working
  <2>2. [worker EXCEPT ![w] = IdleWorker("draining", r.signal)] \in [Workers -> Working]
    BY <1>1, <2>1, IdleTyped DEF PCs
  <2>3. worker' \in [Workers -> Working]
    BY <1>1, <1>12, <2>2, SignalTyped DEF Release
  <2>4. QED
    BY <1>12, <2>3 DEF Release, TypeOK
<1>13. QED
  BY <1>3, <1>4, <1>5, <1>6, <1>7, <1>8, <1>9, <1>10, <1>11, <1>12 DEF WorkerStep

LEMMA MainTyped ==
  ASSUME TypeOK, NEW h \in Hosts, MainStep(h) \/ DeferralEnds(h)
  PROVE  TypeOK'
<1>1. CASE Notify(h)
  <2>1. \A ws : SignalWork(h, CancelTokens(ws)) \in [Workers -> Working]
    BY CancelTyped, SignalTyped
  <2>2. worker' \in [Workers -> Working]
    BY <1>1, <2>1 DEF Notify
  <2>3. QED
    BY <1>1, <2>2 DEF Notify, TypeOK, NoNotice
<1>2. CASE CancelAllTokens(h)
  BY <1>2, CancelTyped DEF CancelAllTokens, SetPhase, TypeOK, Phases
<1>3. CASE JoinAndRecover(h)
  BY <1>3, RecoverTyped DEF JoinAndRecover, SetPhase, TypeOK, Phases
<1>4. CASE DeferralEnds(h)
  BY <1>4 DEF DeferralEnds, TypeOK
<1>5. QED
  BY <1>1, <1>2, <1>3, <1>4 DEF MainStep

LEMMA CommandTyped ==
  ASSUME TypeOK, NEW h \in Hosts, NEW t \in Tasks,
         CreateTask(h, t) \/ CancelTask(h, t) \/ RetryTask(h, t)
  PROVE  TypeOK'
<1>1. ledger \in [Tasks -> L!Entry]
  BY DEF TypeOK
<1>2. ledger' \in [Tasks -> L!Entry]
  <2>1. CASE CreateTask(h, t)
    <3>1. PICK p \in NewTasks, deps \in SUBSET (Tasks \ {t}) : L!Create(t, p[1], p[2], deps)
      BY <2>1 DEF CreateTask
    <3>2. p[1] \in L!Policies /\ p[2] \in 1..MaxBudget
      BY RunnerAssumption DEF L!Policies
    <3>3. QED
      BY <1>1, <3>1, <3>2 DEF L!Create, L!Entry, L!Statuses
  <2>2. CASE CancelTask(h, t)
    BY <2>2, BecomeTyped DEF CancelTask, L!Cancel, L!Statuses
  <2>3. CASE RetryTask(h, t)
    BY <2>3, BecomeTyped DEF RetryTask, L!Retry, L!Statuses
  <2>4. QED
    BY <2>1, <2>2, <2>3
<1>3. PICK type \in {"create", "cancel", "retry"} : CommitCommand(h, type, t)
  BY DEF CreateTask, CancelTask, RetryTask
<1>4. QED
  BY <1>2, <1>3 DEF CommitCommand, TypeOK

LEMMA EnvironmentTyped ==
  ASSUME TypeOK, NEW h \in Hosts, Environment(h)
  PROVE  TypeOK'
<1>1. CASE Start(h)
  <2>1. IdleWorker("waiting", TRUE) \in Working
    BY IdleTyped DEF PCs
  <2>2. worker' \in [Workers -> Working]
    BY <1>1, <2>1 DEF Start, TypeOK
  <2>3. handlers' \in [Hosts -> SUBSET Kinds]
    BY <1>1 DEF Start, TypeOK
  <2>4. starts' \in 0..MaxStarts
    <3>1. starts \in 0..MaxStarts /\ starts < MaxStarts /\ starts' = starts + 1
      BY <1>1 DEF Start, TypeOK
    <3>2. QED
      BY <3>1, StartsBound
  <2>5. QED
    BY <1>1, <2>2, <2>3, <2>4, RecoverTyped DEF Start, SetPhase, TypeOK, Phases
<1>2. CASE RequestShutdown(h)
  BY <1>2 DEF RequestShutdown, SetPhase, TypeOK, Phases
<1>3. CASE Crash(h)
  <2>1. IdleWorker("off", FALSE) \in Working
    BY IdleTyped DEF PCs
  <2>2. worker' \in [Workers -> Working]
    BY <1>3, <2>1 DEF Crash, TypeOK
  <2>3. QED
    BY <1>3, <2>2 DEF Crash, SetPhase, TypeOK, Phases, NoNotice
<1>4. ASSUME NEW kind \in Kinds, RegisterHandler(h, kind) PROVE TypeOK'
  <2>1. worker' \in [Workers -> Working]
    BY <1>4, SignalTyped DEF RegisterHandler, TypeOK
  <2>2. handlers' \in [Hosts -> SUBSET Kinds]
    BY <1>4 DEF RegisterHandler, TypeOK
  <2>3. QED
    BY <1>4, <2>1, <2>2 DEF RegisterHandler, TypeOK
<1>5. ASSUME NEW kind \in Kinds, UnregisterHandler(h, kind) PROVE TypeOK'
  <2>1. handlers' \in [Hosts -> SUBSET Kinds]
    BY <1>5 DEF UnregisterHandler, TypeOK
  <2>2. QED
    BY <1>5, <2>1 DEF UnregisterHandler, TypeOK
<1>6. QED
  BY <1>1, <1>2, <1>3, <1>4, <1>5, CommandTyped DEF Environment

LEMMA StepTyped == TypeOK /\ [Next]_vars => TypeOK'
<1>1. TypeOK /\ UNCHANGED vars => TypeOK'
  BY DEF vars, TypeOK
<1>2. QED
  BY <1>1, WorkerTyped, MainTyped, EnvironmentTyped DEF Next

(* Tasks, workers, handlers and commands stay within their types.          *)
THEOREM TypeCorrect == Spec => []TypeOK
  BY InitTyped, StepTyped, PTL DEF Spec

-------------------------------------------------------------------------------
(***************************************************************************)
(* Fencing.  Most steps start no attempt and settle none: workers stay     *)
(* with what they hold or let it go, entries move on without an outcome or *)
(* are created.  Only Claim and Finish do more.                            *)
(***************************************************************************)
Rides(w) ==
    Engaged(w)' => /\ Engaged(w)
                   /\ worker'[w].task = worker[w].task
                   /\ worker'[w].attempt = worker[w].attempt
                   /\ Handling(w)' => Handling(w)

EntryMoves(t) ==
    \/ ledger'[t] = ledger[t]
    \/ ~L!Exists(t)
    \/ /\ ledger'[t].attempt = ledger[t].attempt
       /\ ledger'[t].status \notin {"succeeded", "failed", "absent"}

Unsettling == (\A w \in Workers : Rides(w)) /\ (\A t \in Tasks : EntryMoves(t))

LEMMA UnsettlingKeeps ==
  ASSUME IInv, TypeOK', Unsettling
  PROVE  IInv'
<1> USE DEF Unsettling, Rides, EntryMoves, IInv, Engaged, Handling
<1>1. Fenced'
  BY DEF Fenced, L!Exists
<1>2. AttemptsDiffer'
  BY DEF AttemptsDiffer
<1>3. OutcomeFromOwnHandler'
  BY DEF OutcomeFromOwnHandler, Fenced, L!Exists
<1>4. QED
  BY <1>1, <1>2, <1>3

LEMMA ClaimKeeps ==
  ASSUME IInv, TypeOK', NEW w \in Workers, NEW t \in Tasks, Claim(w, t)
  PROVE  IInv'
<1> USE DEF IInv, Engaged
<1>1. /\ ledger \in [Tasks -> L!Entry] /\ worker \in [Workers -> Working]
  BY DEF TypeOK
<1>2. /\ ledger'[t].status = "running" /\ ledger'[t].attempt = ledger[t].attempt + 1
      /\ \A u \in Tasks \ {t} : ledger'[u] = ledger[u]
      /\ ledger[t].attempt \in Nat
  BY <1>1 DEF Claim, L!Claim, L!Entry
<1>3. /\ worker'[w].task = t /\ worker'[w].attempt = ledger[t].attempt + 1
      /\ \A v \in Workers \ {w} : worker'[v] = worker[v]
      /\ \A v \in Workers : worker[v].attempt \in Nat
  BY <1>1 DEF Claim, Working
<1>4. Fenced'
  <2> SUFFICES ASSUME NEW v \in Workers, Engaged(v)'
               PROVE  LET u == worker'[v].task IN
                      /\ u \in Tasks /\ ledger'[u].status # "absent"
                      /\ worker'[v].attempt <= ledger'[u].attempt
    BY DEF Fenced, L!Exists
  <2>1. CASE v = w
    BY <1>2, <1>3, <2>1 DEF L!Exists
  <2>2. CASE v # w
    BY <1>2, <1>3, <2>2 DEF Fenced, L!Exists
  <2>3. QED
    BY <2>1, <2>2
<1>5. AttemptsDiffer'
  BY <1>2, <1>3 DEF AttemptsDiffer, Fenced
<1>6. OutcomeFromOwnHandler'
  BY <1>2, <1>3, <1>4 DEF OutcomeFromOwnHandler, Fenced
<1>7. QED
  BY <1>4, <1>5, <1>6

LEMMA FinishKeeps ==
  ASSUME IInv, TypeOK', NEW w \in Workers, Finish(w)
  PROVE  IInv'
<1> USE DEF IInv, Engaged
<1> DEFINE t == worker[w].task
           a == worker[w].attempt
<1>1. /\ ledger \in [Tasks -> L!Entry] /\ worker \in [Workers -> Working]
  BY DEF TypeOK
<1>2. t \in Tasks
  BY DEF Finish, Fenced
<1>3. /\ worker'[w].pc = "finished"
      /\ \A v \in Workers \ {w} : worker'[v] = worker[v]
  BY <1>1 DEF Finish, Goto
<1>4. \/ ledger' = ledger
      \/ /\ ledger[t].attempt = a /\ ledger[t].status = "running"
         /\ ledger'[t].attempt = a /\ ledger'[t].status # "absent"
         /\ \A u \in Tasks \ {t} : ledger'[u] = ledger[u]
  <2>1. \A retryable : L!AfterFailure(t, retryable) # "absent"
    BY <1>1, <1>2 DEF L!AfterFailure, L!Entry, L!Policies
  <2>2. ASSUME NEW status, L!Active(t, a), L!Become(t, status), status # "absent"
        PROVE  /\ ledger[t].attempt = a /\ ledger[t].status = "running"
               /\ ledger'[t].attempt = a /\ ledger'[t].status # "absent"
               /\ \A u \in Tasks \ {t} : ledger'[u] = ledger[u]
    BY <1>1, <1>2, <2>2 DEF L!Active, L!Become, L!Entry
  <2>3. QED
    BY <2>1, <2>2 DEF Finish, L!Succeed, L!Fail
<1>5. Fenced'
  BY <1>1, <1>2, <1>3, <1>4 DEF Fenced, L!Exists
<1>6. AttemptsDiffer'
  BY <1>3 DEF AttemptsDiffer
<1>7. OutcomeFromOwnHandler'
  BY <1>2, <1>3, <1>4 DEF OutcomeFromOwnHandler, AttemptsDiffer, Fenced, Finish
<1>8. QED
  BY <1>5, <1>6, <1>7

(* A step that only moves worker w on, or lets it go, starts no attempt.   *)
LEMMA SetRides ==
  ASSUME NEW w \in Workers, Rides(w), \A v \in Workers \ {w} : worker'[v] = worker[v]
  PROVE  \A v \in Workers : Rides(v)
  BY DEF Rides, Engaged, Handling

(* Waking and canceling leave attempts alone.                              *)
LEMMA SignalRides ==
  ASSUME NEW state, NEW h, state \in [Workers -> Working], NEW w \in Workers
  PROVE  /\ SignalWork(h, state)[w].pc = state[w].pc
         /\ SignalWork(h, state)[w].task = state[w].task
         /\ SignalWork(h, state)[w].attempt = state[w].attempt
  BY DEF SignalWork, Working

LEMMA CancelRides ==
  ASSUME TypeOK, NEW ws, NEW w \in Workers
  PROVE  /\ CancelTokens(ws)[w].pc = worker[w].pc
         /\ CancelTokens(ws)[w].task = worker[w].task
         /\ CancelTokens(ws)[w].attempt = worker[w].attempt
  BY DEF CancelTokens, TypeOK, Working

LEMMA RecoverMoves ==
  ASSUME TypeOK, RecoverAll
  PROVE  \A t \in Tasks : EntryMoves(t)
  BY DEF RecoverAll, EntryMoves, L!InterruptedEntry, L!AfterInterruption, TypeOK, L!Entry

LEMMA BecomeMoves ==
  ASSUME TypeOK, NEW t \in Tasks, NEW status \in {"queued", "canceled"},
         L!Become(t, status)
  PROVE  \A u \in Tasks : EntryMoves(u)
<1>1. ledger \in [Tasks -> L!Entry]
  BY DEF TypeOK
<1>2. \A u \in Tasks \ {t} : ledger'[u] = ledger[u]
  BY <1>1 DEF L!Become
<1>3. ledger'[t].attempt = ledger[t].attempt /\ ledger'[t].status = status
  BY <1>1 DEF L!Become, L!Entry
<1>4. QED
  BY <1>2, <1>3 DEF EntryMoves

LEMMA WorkerFenced ==
  ASSUME IInv, TypeOK', NEW w \in Workers, WorkerStep(w) \/ HandlerReturns(w)
  PROVE  IInv'
<1>1. ASSUME NEW t \in Tasks, Claim(w, t) PROVE IInv'
  BY <1>1, ClaimKeeps
<1>2. CASE Finish(w)
  BY <1>2, FinishKeeps
<1>3. ASSUME \/ WaitForWork(w) \/ CheckBeforeClaim(w) \/ NothingToClaim(w)
             \/ RegisterToken(w) \/ DeferClaims(w) \/ HandlerReturns(w)
             \/ CheckBeforeFinish(w) \/ Release(w)
      PROVE  IInv'
  <2>1. ledger' = ledger
    BY <1>3 DEF WaitForWork, CheckBeforeClaim, NothingToClaim, RegisterToken,
                DeferClaims, HandlerReturns, CheckBeforeFinish, Release
  <2>2. \A v \in Workers : Rides(v)
    <3> USE DEF IInv
    <3>0. worker \in [Workers -> Working]
      BY DEF TypeOK
    <3>1. CASE WaitForWork(w)
      <4>1. /\ \A v \in Workers \ {w} : worker'[v] = worker[v]
            /\ worker'[w].pc \in {"off", "draining"}
        <5>1. CASE ShuttingDown(HostOf[w])
          BY <3>0, <3>1, <5>1 DEF WaitForWork, IdleWorker
        <5>2. CASE ~ShuttingDown(HostOf[w])
          BY <3>0, <3>1, <5>2 DEF WaitForWork, Working
        <5>3. QED
          BY <5>1, <5>2
      <4>2. QED
        BY <4>1, SetRides DEF Rides, Engaged
    <3>2. CASE CheckBeforeClaim(w) \/ NothingToClaim(w)
      <4>1. /\ \A v \in Workers \ {w} : worker'[v] = worker[v]
            /\ worker'[w].pc \in {"claiming", "waiting"}
        <5>1. CASE CheckBeforeClaim(w)
          BY <3>0, <5>1 DEF CheckBeforeClaim, Goto, Working
        <5>2. CASE NothingToClaim(w)
          BY <3>0, <5>2 DEF NothingToClaim, Working
        <5>3. QED
          BY <3>2, <5>1, <5>2
      <4>2. QED
        BY <4>1, SetRides DEF Rides, Engaged
    <3>3. CASE RegisterToken(w)
      <4>1. /\ \A v \in Workers \ {w} : worker'[v] = worker[v]
            /\ worker[w].pc = "claimed"
            /\ worker'[w].task = worker[w].task /\ worker'[w].attempt = worker[w].attempt
        BY <3>0, <3>3 DEF RegisterToken, Working
      <4>2. QED
        BY <4>1, SetRides DEF Rides, Engaged, Handling
    <3>4. CASE DeferClaims(w)
      <4>1. /\ \A v \in Workers \ {w} : worker'[v] = worker[v]
            /\ worker[w].pc = "missing" /\ worker'[w].pc = "returned"
            /\ worker'[w].task = worker[w].task /\ worker'[w].attempt = worker[w].attempt
        BY <3>0, <3>4 DEF DeferClaims, Working
      <4>2. QED
        BY <4>1, SetRides DEF Rides, Engaged, Handling
    <3>5. CASE HandlerReturns(w)
      <4>1. /\ \A v \in Workers \ {w} : worker'[v] = worker[v]
            /\ worker[w].pc = "executing"
            /\ worker'[w].task = worker[w].task /\ worker'[w].attempt = worker[w].attempt
        BY <3>0, <3>5 DEF HandlerReturns, Working
      <4>2. QED
        BY <4>1, SetRides DEF Rides, Engaged, Handling
    <3>6. CASE CheckBeforeFinish(w)
      <4>1. /\ \A v \in Workers \ {w} : worker'[v] = worker[v]
            /\ worker[w].pc = "returned"
            /\ \/ worker'[w].pc = "draining"
               \/ /\ worker'[w].pc = "finishing" /\ worker'[w].task = worker[w].task
                  /\ worker'[w].attempt = worker[w].attempt
        BY <3>0, <3>6 DEF CheckBeforeFinish, Goto, IdleWorker, Working
      <4>2. QED
        BY <4>1, SetRides DEF Rides, Engaged, Handling
    <3>7. CASE Release(w)
      <4> DEFINE released == [worker EXCEPT ![w] = IdleWorker("draining", @.signal)]
      <4>1. IdleWorker("draining", worker[w].signal) \in Working
        BY <3>0, IdleTyped DEF Working, PCs
      <4>2. released \in [Workers -> Working]
        BY <3>0, <4>1
      <4>3. worker' = released \/ worker' = SignalWork(HostOf[w], released)
        BY <3>7 DEF Release
      <4>4. \A v \in Workers : /\ worker'[v].pc = released[v].pc
                               /\ worker'[v].task = released[v].task
                               /\ worker'[v].attempt = released[v].attempt
        <5>1. CASE worker' = released
          BY <5>1
        <5>2. CASE worker' = SignalWork(HostOf[w], released)
          <6> HIDE DEF released
          <6>1. QED
            BY <4>2, <5>2, SignalRides
        <5>3. QED
          BY <4>3, <5>1, <5>2
      <4>5. released[w].pc = "draining" /\ \A v \in Workers \ {w} : released[v] = worker[v]
        BY <3>0 DEF IdleWorker
      <4>6. QED
        BY <4>4, <4>5 DEF Rides, Engaged, Handling
    <3>8. QED
      BY <1>3, <3>1, <3>2, <3>3, <3>4, <3>5, <3>6, <3>7
  <2>3. QED
    BY <2>1, <2>2, UnsettlingKeeps DEF Unsettling, EntryMoves
<1>4. QED
  BY <1>1, <1>2, <1>3 DEF WorkerStep

LEMMA MainFenced ==
  ASSUME IInv, TypeOK', NEW h \in Hosts, MainStep(h) \/ DeferralEnds(h)
  PROVE  IInv'
<1> USE DEF IInv
<1>1. \A w \in Workers : Rides(w)
  <2>1. CASE Notify(h)
    <3>1. PICK ws : worker' = SignalWork(h, CancelTokens(ws))
      BY <2>1 DEF Notify
    <3>2. CancelTokens(ws) \in [Workers -> Working]
      BY CancelTyped
    <3>3. QED
      BY <3>1, <3>2, SignalRides, CancelRides DEF Rides, Engaged, Handling
  <2>2. CASE CancelAllTokens(h)
    BY <2>2, CancelRides DEF CancelAllTokens, Rides, Engaged, Handling
  <2>3. CASE JoinAndRecover(h) \/ DeferralEnds(h)
    BY <2>3 DEF JoinAndRecover, DeferralEnds, Rides, Engaged, Handling
  <2>4. QED
    BY <2>1, <2>2, <2>3 DEF MainStep
<1>2. \A t \in Tasks : EntryMoves(t)
  <2>1. CASE JoinAndRecover(h)
    BY <2>1, RecoverMoves DEF JoinAndRecover
  <2>2. CASE UNCHANGED ledger
    BY <2>2 DEF EntryMoves
  <2>3. QED
    BY <2>1, <2>2 DEF MainStep, Notify, CancelAllTokens, DeferralEnds
<1>3. QED
  BY <1>1, <1>2, UnsettlingKeeps DEF Unsettling

LEMMA EnvironmentFenced ==
  ASSUME IInv, TypeOK', NEW h \in Hosts, Environment(h)
  PROVE  IInv'
<1> USE DEF IInv
<1>0. worker \in [Workers -> Working]
  BY DEF TypeOK
<1>1. \A w \in Workers : Rides(w)
  <2>1. CASE Start(h) \/ Crash(h)
    BY <2>1 DEF Start, Crash, IdleWorker, Rides, Engaged, Handling
  <2>2. ASSUME NEW kind \in Kinds, RegisterHandler(h, kind) PROVE \A w \in Workers : Rides(w)
    BY <1>0, <2>2, SignalRides DEF RegisterHandler, Rides, Engaged, Handling
  <2>3. CASE UNCHANGED worker
    BY <2>3 DEF Rides, Engaged, Handling
  <2>4. QED
    BY <2>1, <2>2, <2>3 DEF Environment, RequestShutdown, UnregisterHandler, CreateTask,
         CancelTask, RetryTask, CommitCommand
<1>2. \A t \in Tasks : EntryMoves(t)
  <2>1. CASE Start(h)
    BY <2>1, RecoverMoves DEF Start
  <2>2. ASSUME NEW t \in Tasks, CreateTask(h, t) PROVE \A u \in Tasks : EntryMoves(u)
    BY <2>2 DEF CreateTask, L!Create, EntryMoves, TypeOK
  <2>3. ASSUME NEW t \in Tasks, CancelTask(h, t) \/ RetryTask(h, t)
        PROVE  \A u \in Tasks : EntryMoves(u)
    BY <2>3, BecomeMoves DEF CancelTask, RetryTask, L!Cancel, L!Retry
  <2>4. CASE UNCHANGED ledger
    BY <2>4 DEF EntryMoves
  <2>5. QED
    BY <2>1, <2>2, <2>3, <2>4 DEF Environment, RequestShutdown, Crash, RegisterHandler,
         UnregisterHandler
<1>3. QED
  BY <1>1, <1>2, UnsettlingKeeps DEF Unsettling

(* The fencing invariant, for any number of processes and workers.         *)
THEOREM Invariance == Spec => []IInv
<1>1. Init => IInv
  BY InitTyped DEF IInv, Init, IdleWorker, Fenced, AttemptsDiffer, OutcomeFromOwnHandler,
       Engaged
<1>2. IInv /\ [Next]_vars => IInv'
  <2> SUFFICES ASSUME IInv, [Next]_vars PROVE IInv'
    OBVIOUS
  <2>1. TypeOK'
    BY StepTyped DEF IInv
  <2>2. CASE UNCHANGED vars
    BY <2>1, <2>2, UnsettlingKeeps DEF vars, Unsettling, Rides, EntryMoves, Engaged, Handling
  <2>3. QED
    BY <2>1, <2>2, WorkerFenced, MainFenced, EnvironmentFenced DEF Next
<1>3. QED
  BY <1>1, <1>2, PTL DEF Spec

(* No attempt is settled by another one: a worker whose attempt has been   *)
(* canceled or interrupted never writes the outcome of its successor.      *)
THEOREM OutcomesOwned == Spec => []OutcomeFromOwnHandler
<1>1. IInv => OutcomeFromOwnHandler
  BY DEF IInv
<1>2. QED
  BY <1>1, Invariance, PTL

-------------------------------------------------------------------------------
LEMMA RecoverStays ==
  ASSUME TypeOK, RecoverAll
  PROVE  L!Next \/ UNCHANGED ledger
<1>1. CASE \E t \in Tasks : ledger[t].status = "running"
  BY <1>1 DEF RecoverAll, L!Recover, L!Next
<1>2. CASE \A t \in Tasks : ledger[t].status # "running"
  BY <1>2 DEF RecoverAll, L!InterruptedEntry, TypeOK
<1>3. QED
  BY <1>1, <1>2

(* The pool changes the ledger only as the task engine allows.             *)
THEOREM StaysInLedger == Spec => KeepsLedger
<1>1. Init => L!Init
  BY DEF Init
<1>2. IInv /\ [Next]_vars => [L!Next]_ledger
  <2> SUFFICES ASSUME IInv, [Next]_vars PROVE L!Next \/ UNCHANGED ledger
    OBVIOUS
  <2> USE DEF IInv
  <2>1. ASSUME NEW w \in Workers, WorkerStep(w) \/ HandlerReturns(w)
        PROVE  L!Next \/ UNCHANGED ledger
    <3>1. ASSUME NEW t \in Tasks, Claim(w, t) PROVE L!Next
      BY <3>1 DEF Claim, L!Next
    <3>2. CASE Finish(w)
      <4>1. worker[w].task \in Tasks
        BY <3>2 DEF Finish, Fenced, Engaged
      <4>2. (worker[w].result = "retryable") \in BOOLEAN
        OBVIOUS
      <4>3. QED
        BY <3>2, <4>1, <4>2 DEF Finish, L!Succeed, L!Fail, L!Active, L!Next
    <3>3. QED
      BY <2>1, <3>1, <3>2 DEF WorkerStep, WaitForWork, CheckBeforeClaim, NothingToClaim,
           RegisterToken, DeferClaims, HandlerReturns, CheckBeforeFinish, Release
  <2>2. ASSUME NEW h \in Hosts, MainStep(h) \/ DeferralEnds(h)
        PROVE  L!Next \/ UNCHANGED ledger
    BY <2>2, RecoverStays DEF MainStep, Notify, CancelAllTokens, JoinAndRecover, DeferralEnds
  <2>3. ASSUME NEW h \in Hosts, NEW t \in Tasks, CreateTask(h, t) PROVE L!Next
    <3>1. PICK p \in NewTasks, deps \in SUBSET (Tasks \ {t}) : L!Create(t, p[1], p[2], deps)
      BY <2>3 DEF CreateTask
    <3>2. p[1] \in L!Policies /\ p[2] \in 1..MaxBudget /\ deps \in SUBSET Tasks
      BY RunnerAssumption DEF L!Policies
    <3>3. QED
      BY <3>1, <3>2 DEF L!Next
  <2>4. ASSUME NEW h \in Hosts, Environment(h) PROVE L!Next \/ UNCHANGED ledger
    BY <2>3, <2>4, RecoverStays DEF Environment, Start, RequestShutdown, Crash,
         RegisterHandler, UnregisterHandler, CancelTask, RetryTask, L!Next
  <2>5. QED
    BY <2>1, <2>2, <2>4 DEF Next, vars
<1>3. QED
  BY <1>1, <1>2, Invariance, PTL DEF Spec, KeepsLedger, L!Spec

-------------------------------------------------------------------------------
(***************************************************************************)
(* The task ledger itself, whoever drives it: its types, and what holds of *)
(* a ledger that changes only as L!Next allows.                            *)
(***************************************************************************)
LEMMA MaxBudgetIs == MaxBudget \in Nat \ {0}
  BY RunnerAssumption

(* Types are preserved by every operation of the ledger.                   *)
THEOREM LedgerTyped == L!Spec => []L!TypeOK
<1> USE MaxBudgetIs
<1>1. L!Init => L!TypeOK
  BY DEF L!Init, L!TypeOK, L!Entry, L!Absent, L!Statuses, L!Policies
<1>2. L!TypeOK /\ [L!Next]_ledger => L!TypeOK'
  <2> SUFFICES ASSUME L!TypeOK, [L!Next]_ledger PROVE L!TypeOK'
    OBVIOUS
  <2> USE DEF L!TypeOK, L!Entry, L!Statuses, L!Policies
  <2>1. ASSUME NEW t \in Tasks, NEW policy \in L!Policies, NEW budget \in 1..MaxBudget,
               NEW deps \in SUBSET Tasks, L!Create(t, policy, budget, deps)
        PROVE  L!TypeOK'
    BY <2>1 DEF L!Create
  <2>2. ASSUME NEW t \in Tasks, L!Claim(t) PROVE L!TypeOK'
    BY <2>2 DEF L!Claim
  <2>3. ASSUME NEW t \in Tasks, L!Cancel(t) PROVE L!TypeOK'
    BY <2>3 DEF L!Cancel, L!Become
  <2>4. ASSUME NEW t \in Tasks, L!Retry(t) PROVE L!TypeOK'
    BY <2>4 DEF L!Retry, L!Become
  <2>5. ASSUME NEW t \in Tasks, L!Succeed(t, ledger[t].attempt) PROVE L!TypeOK'
    BY <2>5 DEF L!Succeed, L!Become
  <2>6. ASSUME NEW t \in Tasks, NEW retryable \in BOOLEAN,
               L!Fail(t, ledger[t].attempt, retryable)
        PROVE  L!TypeOK'
    <3>1. L!AfterFailure(t, retryable) \in L!Statuses
      BY DEF L!AfterFailure
    <3>2. QED
      BY <2>6, <3>1 DEF L!Fail, L!Become
  <2>7. CASE L!Recover
    <3>1. ASSUME NEW t \in Tasks PROVE L!InterruptedEntry(t) \in L!Entry
      BY DEF L!InterruptedEntry, L!AfterInterruption
    <3>2. QED
      BY <2>7, <3>1 DEF L!Recover
  <2>8. CASE UNCHANGED ledger
    BY <2>8
  <2>9. QED
    BY <2>1, <2>2, <2>3, <2>4, <2>5, <2>6, <2>7, <2>8 DEF L!Next
<1>3. QED
  BY <1>1, <1>2, PTL DEF L!Spec

-------------------------------------------------------------------------------
(***************************************************************************)
(* The strengthening: queued work that is not safe to replay has attempts  *)
(* left, and dependencies exist.                                           *)
(***************************************************************************)
QueuedWithinBudget ==
    \A t \in Tasks : ledger[t].policy # "safe" /\ ledger[t].status = "queued"
        => ledger[t].attempt < ledger[t].budget

DependenciesExist == \A t \in Tasks : \A d \in ledger[t].deps : L!Exists(d)

LedgerSafety == /\ L!StartedAfterDependencies
          /\ L!UnsafeWithinBudget /\ QueuedWithinBudget
          /\ DependenciesExist /\ L!NoDependencyCycle

LedgerInv == L!TypeOK /\ LedgerSafety

(* Every step but Create changes statuses and attempts only, by one of a   *)
(* few kinds of change of each task.                                       *)
SameTerms(t) == /\ ledger'[t].policy = ledger[t].policy
            /\ ledger'[t].budget = ledger[t].budget
            /\ ledger'[t].deps = ledger[t].deps

Shifts(t) ==
    /\ SameTerms(t)
    /\ L!Exists(t) <=> L!Exists(t)'
    /\ ledger[t].status = "succeeded" => ledger'[t].status = "succeeded"
    /\ \/ /\ ledger'[t].attempt = ledger[t].attempt
          /\ \/ ledger'[t].status # "queued"
             \/ ledger'[t].status = ledger[t].status
             \/ ledger[t].policy = "safe"
             \/ ledger[t].attempt < ledger[t].budget
       \/ /\ L!Runnable(t)
          /\ ledger'[t].attempt = ledger[t].attempt + 1
          /\ ledger'[t].status = "running"

(* Every operation but Create changes each entry only in one of the ways   *)
(* Moves allows.                                                           *)
LEMMA LedgerShifts ==
  ASSUME L!TypeOK,
         \/ \E t \in Tasks :
               \/ L!Claim(t) \/ L!Cancel(t) \/ L!Retry(t)
               \/ L!Succeed(t, ledger[t].attempt)
               \/ \E retryable \in BOOLEAN : L!Fail(t, ledger[t].attempt, retryable)
         \/ L!Recover
         \/ UNCHANGED ledger
  PROVE  \A t \in Tasks : Shifts(t)
<1> USE DEF L!TypeOK, L!Entry, L!Statuses, L!Policies, Shifts, SameTerms, L!Exists
<1>1. ASSUME NEW u \in Tasks, L!Claim(u) PROVE \A t \in Tasks : Shifts(t)
  BY <1>1 DEF L!Claim, L!Runnable
<1>2. ASSUME NEW u \in Tasks, L!Cancel(u) PROVE \A t \in Tasks : Shifts(t)
  BY <1>2 DEF L!Cancel, L!Become
<1>3. ASSUME NEW u \in Tasks, L!Retry(u) PROVE \A t \in Tasks : Shifts(t)
  BY <1>3 DEF L!Retry, L!Become
<1>4. ASSUME NEW u \in Tasks, L!Succeed(u, ledger[u].attempt)
      PROVE  \A t \in Tasks : Shifts(t)
  BY <1>4 DEF L!Succeed, L!Active, L!Become
<1>5. ASSUME NEW u \in Tasks, NEW retryable \in BOOLEAN,
             L!Fail(u, ledger[u].attempt, retryable)
      PROVE  \A t \in Tasks : Shifts(t)
  <2>1. /\ L!AfterFailure(u, retryable) \in L!Statuses
        /\ L!AfterFailure(u, retryable) = "queued" => ledger[u].policy = "safe"
    BY DEF L!AfterFailure
  <2>2. QED
    BY <1>5, <2>1 DEF L!Fail, L!Active, L!Become
<1>6. CASE L!Recover
  BY <1>6 DEF L!Recover, L!InterruptedEntry, L!AfterInterruption
<1>7. CASE UNCHANGED ledger
  BY <1>7
<1>8. QED
  BY <1>1, <1>2, <1>3, <1>4, <1>5, <1>6, <1>7

(* A step that changes entries only as Moves allows keeps the inductive    *)
(* safety invariant.                                                       *)
LEMMA ShiftsKeepSafety ==
  ASSUME L!TypeOK, LedgerSafety, \A t \in Tasks : Shifts(t)
  PROVE  LedgerSafety'
<1> USE DEF L!TypeOK, L!Entry, L!Policies
<1>1. L!StartedAfterDependencies'
  BY DEF LedgerSafety, L!StartedAfterDependencies, Shifts, SameTerms, L!Runnable
<1>2. L!UnsafeWithinBudget'
  BY DEF LedgerSafety, L!UnsafeWithinBudget, QueuedWithinBudget, Shifts, SameTerms, L!Runnable
<1>3. QueuedWithinBudget'
  BY DEF LedgerSafety, QueuedWithinBudget, Shifts, SameTerms
<1>4. DependenciesExist'
  BY DEF LedgerSafety, DependenciesExist, Shifts, SameTerms
<1>5. L!NoDependencyCycle'
  BY DEF LedgerSafety, L!NoDependencyCycle, Shifts, SameTerms
<1>6. QED
  BY <1>1, <1>2, <1>3, <1>4, <1>5 DEF LedgerSafety

(* A new task depends on tasks that exist and that do not depend on it, so *)
(* creating one keeps the safety invariant.                                *)
LEMMA CreateKeepsSafety ==
  ASSUME L!TypeOK, LedgerSafety,
         NEW c \in Tasks, NEW policy \in L!Policies, NEW budget \in 1..MaxBudget,
         NEW deps \in SUBSET Tasks, L!Create(c, policy, budget, deps)
  PROVE  LedgerSafety'
<1> USE MaxBudgetIs DEF L!TypeOK, L!Entry, L!Create, L!Exists
<1>1. \A t \in Tasks : t # c => ledger'[t] = ledger[t]
  OBVIOUS
<1>2. /\ ledger'[c].deps = deps /\ ledger'[c].attempt = 0
      /\ ledger'[c].status = "queued" /\ ledger'[c].budget = budget
  OBVIOUS
<1>3. \A t \in Tasks : c \notin ledger[t].deps
  BY DEF LedgerSafety, DependenciesExist
<1>4. c \notin deps
  OBVIOUS
<1>5. L!StartedAfterDependencies'
  BY <1>1, <1>2, <1>3, <1>4 DEF LedgerSafety, L!StartedAfterDependencies
<1>6. L!UnsafeWithinBudget' /\ QueuedWithinBudget'
  BY <1>1, <1>2 DEF LedgerSafety, L!UnsafeWithinBudget, QueuedWithinBudget
<1>7. DependenciesExist'
  BY <1>1, <1>2 DEF LedgerSafety, DependenciesExist
<1>8. L!NoDependencyCycle'
  <2> SUFFICES ASSUME NEW S \in SUBSET Tasks, S # {}
               PROVE  \E t \in S : ledger'[t].deps \cap S = {}
    BY DEF L!NoDependencyCycle
  <2>1. CASE S = {c}
    BY <2>1, <1>2, <1>4
  <2>2. CASE S # {c}
    <3>1. S \ {c} # {} /\ S \ {c} \in SUBSET Tasks
      BY <2>2
    <3>2. PICK t \in S \ {c} : ledger[t].deps \cap (S \ {c}) = {}
      BY <3>1 DEF LedgerSafety, L!NoDependencyCycle
    <3>3. ledger'[t].deps \cap S = {}
      BY <3>2, <1>1, <1>3
    <3>4. QED
      BY <3>2, <3>3
  <2>3. QED
    BY <2>1, <2>2
<1>9. QED
  BY <1>5, <1>6, <1>7, <1>8 DEF LedgerSafety

(* The invariant is inductive.                                             *)
THEOREM LedgerInvariance == L!Spec => []LedgerInv
<1>1. L!Init => LedgerInv
  BY MaxBudgetIs DEF L!Init, LedgerInv, L!TypeOK, L!Entry, L!Absent, L!Statuses, L!Policies,
     LedgerSafety, L!StartedAfterDependencies, L!UnsafeWithinBudget, QueuedWithinBudget,
     DependenciesExist, L!NoDependencyCycle
<1>2. L!TypeOK /\ LedgerSafety /\ [L!Next]_ledger => LedgerSafety'
  <2> SUFFICES ASSUME L!TypeOK, LedgerSafety, [L!Next]_ledger PROVE LedgerSafety'
    OBVIOUS
  <2>1. CASE \E t \in Tasks, policy \in L!Policies, budget \in 1..MaxBudget,
                deps \in SUBSET Tasks : L!Create(t, policy, budget, deps)
    BY <2>1, CreateKeepsSafety
  <2>2. CASE \/ \E t \in Tasks :
                   \/ L!Claim(t) \/ L!Cancel(t) \/ L!Retry(t)
                   \/ L!Succeed(t, ledger[t].attempt)
                   \/ \E retryable \in BOOLEAN : L!Fail(t, ledger[t].attempt, retryable)
             \/ L!Recover
             \/ UNCHANGED ledger
    BY <2>2, LedgerShifts, ShiftsKeepSafety
  <2>3. QED
    BY <2>1, <2>2 DEF L!Next
<1>3. QED
  BY <1>1, <1>2, LedgerTyped, PTL DEF L!Spec, LedgerInv

(* However tasks fail, are canceled, retried or interrupted: none starts   *)
(* before its dependencies have succeeded.                                 *)
THEOREM NeverEarly == L!Spec => []L!StartedAfterDependencies
  BY LedgerInvariance, PTL DEF LedgerInv, LedgerSafety

(* Work that is not safe to replay stays within its attempts.              *)
THEOREM NeverOverBudget == L!Spec => []L!UnsafeWithinBudget
  BY LedgerInvariance, PTL DEF LedgerInv, LedgerSafety

(* The dependency graph has no cycle, for any number of tasks.             *)
THEOREM NeverCyclic == L!Spec => []L!NoDependencyCycle
  BY LedgerInvariance, PTL DEF LedgerInv, LedgerSafety

(* So the pool, whatever its workers do and whichever of its processes die *)
(* or stop, starts no task before its dependencies have succeeded.         *)
THEOREM PoolNeverEarly == Spec => []L!StartedAfterDependencies
  BY StaysInLedger, NeverEarly DEF KeepsLedger

(* Nor does it run work that is not safe to replay beyond its budget.      *)
THEOREM PoolNeverOverBudget == Spec => []L!UnsafeWithinBudget
  BY StaysInLedger, NeverOverBudget DEF KeepsLedger

(* And the tasks it holds can never wait for one another in a circle.      *)
THEOREM PoolNeverCyclic == Spec => []L!NoDependencyCycle
  BY StaysInLedger, NeverCyclic DEF KeepsLedger

-------------------------------------------------------------------------------
(***************************************************************************)
(* How a step of a worker changes the workers: its own record moves along  *)
(* its program, the others are at most woken.                              *)
(***************************************************************************)
Alike(v) ==
    /\ worker'[v].pc = worker[v].pc /\ worker'[v].kinds = worker[v].kinds
    /\ worker'[v].task = worker[v].task /\ worker'[v].attempt = worker[v].attempt
    /\ worker[v].signal => worker'[v].signal

Stays(w) == worker'[w].task = worker[w].task /\ worker'[w].attempt = worker[w].attempt

(* The step of worker w, by the places it leads from and to.               *)
Walks(w) ==
    \/ /\ worker[w].pc = "waiting"
       /\ \/ worker'[w].pc = "off" /\ ShuttingDown(HostOf[w])
          \/ worker'[w].pc = "draining"
    \/ /\ worker[w].pc = "draining"
       /\ worker[w].signal => worker'[w].signal
       /\ \/ worker'[w].pc = "waiting"
             /\ \/ ShuttingDown(HostOf[w]) \/ handlers[HostOf[w]] = {}
                \/ deferred[HostOf[w]] = "to come" /\ deferred'[HostOf[w]] = "to come"
          \/ worker'[w].pc = "claiming" /\ worker'[w].kinds = handlers[HostOf[w]]
    \/ worker[w].pc = "claiming" /\ worker'[w].pc = "claimed"
    \/ /\ worker[w].pc = "claiming" /\ worker'[w].pc = "waiting"
       /\ worker'[w].signal = worker[w].signal /\ UNCHANGED <<ledger, deferred>>
       /\ StoreMayFail \/ \A t \in Tasks : ~Claimable(t, worker[w].kinds)
    \/ worker[w].pc = "claimed" /\ worker'[w].pc \in {"executing", "missing"} /\ Stays(w)
    \/ worker[w].pc = "missing" /\ worker'[w].pc = "returned" /\ Stays(w)
    \/ worker[w].pc = "executing" /\ worker'[w].pc = "returned" /\ Stays(w)
    \/ /\ worker[w].pc = "returned" /\ worker'[w].pc = "draining"
       /\ ShuttingDown(HostOf[w]) \/ ~OwnsAttempt(w) \/ StoreMayFail
    \/ worker[w].pc = "returned" /\ worker'[w].pc = "finishing" /\ Stays(w)
    \/ worker[w].pc = "finishing" /\ worker'[w].pc = "finished"
    \/ worker[w].pc = "finished" /\ worker'[w].pc = "draining"

LEMMA SetAlike ==
  ASSUME TypeOK, NEW w \in Workers, NEW state, worker' = [worker EXCEPT ![w] = state]
  PROVE  worker'[w] = state /\ \A v \in Workers \ {w} : Alike(v)
  BY DEF TypeOK, Alike

LEMMA WorkerWalks ==
  ASSUME TypeOK, NEW w \in Workers, WorkerStep(w) \/ HandlerReturns(w)
  PROVE  /\ UNCHANGED <<phase, notice, handlers>>
         /\ \A v \in Workers \ {w} : Alike(v)
         /\ Walks(w)
<1>0. worker[w] \in Working /\ worker \in [Workers -> Working] /\ w \in Workers
  BY DEF TypeOK
<1>1. CASE WaitForWork(w)
  <2>1. CASE ShuttingDown(HostOf[w])
    BY <1>1, <2>1, SetAlike DEF WaitForWork, IdleWorker, Walks
  <2>2. CASE ~ShuttingDown(HostOf[w])
    BY <1>0, <1>1, <2>2 DEF WaitForWork, Walks, Alike, Working
  <2>3. QED
    BY <2>1, <2>2
<1>2. CASE CheckBeforeClaim(w)
  <2> DEFINE h == HostOf[w]
  <2>1. /\ worker[w].pc = "draining" /\ UNCHANGED <<phase, notice, handlers>>
        /\ deferred[h] = "to come" => deferred'[h] = "to come"
    BY <1>2, RunnerAssumption DEF CheckBeforeClaim, TypeOK
  <2>2. CASE /\ ShuttingDown(h) \/ deferred[h] = "to come" \/ handlers[h] = {}
             /\ Goto(w, "waiting")
    <3>1. /\ \A v \in Workers \ {w} : Alike(v)
          /\ worker'[w].pc = "waiting" /\ worker'[w].signal = worker[w].signal
      BY <1>0, <2>2 DEF Goto, Alike, Working
    <3>2. QED
      BY <2>1, <2>2, <3>1 DEF Walks
  <2>3. CASE worker' = [worker EXCEPT ![w].pc = "claiming", ![w].kinds = handlers[h]]
    <3>1. /\ \A v \in Workers \ {w} : Alike(v)
          /\ worker'[w].pc = "claiming" /\ worker'[w].signal = worker[w].signal
          /\ worker'[w].kinds = handlers[h]
      BY <1>0, <2>3 DEF Alike, Working
    <3>2. QED
      BY <2>1, <3>1 DEF Walks
  <2>4. QED
    BY <1>2, <2>2, <2>3 DEF CheckBeforeClaim
<1>3. ASSUME NEW t \in Tasks, Claim(w, t)
      PROVE  /\ UNCHANGED <<phase, notice, handlers>>
             /\ \A v \in Workers \ {w} : Alike(v)
             /\ Walks(w)
  BY <1>0, <1>3 DEF Claim, Walks, Alike, Working
<1>4. CASE NothingToClaim(w)
  BY <1>0, <1>4 DEF NothingToClaim, Walks, Alike, Working
<1>5. CASE RegisterToken(w)
  BY <1>0, <1>5 DEF RegisterToken, Walks, Stays, Alike, Working
<1>6. CASE DeferClaims(w)
  BY <1>0, <1>6 DEF DeferClaims, Walks, Stays, Alike, Working
<1>7. CASE HandlerReturns(w)
  BY <1>0, <1>7 DEF HandlerReturns, Walks, Stays, Alike, Working
<1>8. CASE CheckBeforeFinish(w)
  <2>1. CASE worker' = [worker EXCEPT ![w] = IdleWorker("draining", @.signal)]
             /\ (ShuttingDown(HostOf[w]) \/ ~OwnsAttempt(w) \/ StoreMayFail)
    <3>1. worker'[w] = IdleWorker("draining", worker[w].signal) /\ \A v \in Workers \ {w} : Alike(v)
      BY <1>0, <2>1, SetAlike
    <3>2. worker'[w].pc = "draining"
      BY <3>1 DEF IdleWorker
    <3>3. QED
      BY <1>8, <2>1, <3>1, <3>2 DEF CheckBeforeFinish, Walks
  <2>2. CASE Goto(w, "finishing")
    BY <1>0, <1>8, <2>2 DEF CheckBeforeFinish, Goto, Walks, Stays, Alike, Working
  <2>3. QED
    BY <1>8, <2>1, <2>2 DEF CheckBeforeFinish
<1>9. CASE Finish(w)
  BY <1>0, <1>9 DEF Finish, Goto, Walks, Alike, Working
<1>10. CASE Release(w)
  <2> DEFINE released == [worker EXCEPT ![w] = IdleWorker("draining", @.signal)]
  <2>1. IdleWorker("draining", worker[w].signal) \in Working
    BY <1>0, IdleTyped DEF Working, PCs
  <2>2. /\ released \in [Workers -> Working] /\ released[w].pc = "draining"
        /\ \A v \in Workers \ {w} : released[v] = worker[v]
    BY <1>0, <2>1 DEF IdleWorker
  <2> HIDE DEF released
  <2>3. worker' = released \/ worker' = SignalWork(HostOf[w], released)
    BY <1>10 DEF Release, released
  <2>4. \A v \in Workers : /\ worker'[v].pc = released[v].pc
                           /\ worker'[v].kinds = released[v].kinds
                           /\ worker'[v].task = released[v].task
                           /\ worker'[v].attempt = released[v].attempt
                           /\ released[v].signal => worker'[v].signal
    BY <2>2, <2>3 DEF SignalWork, Working
  <2>5. QED
    BY <1>0, <1>10, <2>2, <2>4 DEF Release, Walks, Alike
<1>11. QED
  BY <1>1, <1>2, <1>3, <1>4, <1>5, <1>6, <1>7, <1>8, <1>9, <1>10 DEF WorkerStep

(* What the host's main thread does to its workers.                        *)
LEMMA MainPlaces ==
  ASSUME TypeOK, NEW h \in Hosts, MainStep(h) \/ DeferralEnds(h)
  PROVE  \A w \in Workers : Alike(w)
<1>0. worker \in [Workers -> Working]
  BY DEF TypeOK
<1>1. \A ws : \A w \in Workers :
         LET r == CancelTokens(ws)[w] IN
         /\ r.pc = worker[w].pc /\ r.kinds = worker[w].kinds /\ r.signal = worker[w].signal
         /\ r.task = worker[w].task /\ r.attempt = worker[w].attempt
  BY <1>0 DEF CancelTokens, Working
<1>2. CASE Notify(h)
  <2>1. PICK ws : worker' = SignalWork(h, CancelTokens(ws))
    BY <1>2 DEF Notify
  <2>2. CancelTokens(ws) \in [Workers -> Working]
    BY CancelTyped
  <2>3. \A w \in Workers :
           LET r == SignalWork(h, CancelTokens(ws))[w]
               q == CancelTokens(ws)[w] IN
           /\ r.pc = q.pc /\ r.kinds = q.kinds
           /\ q.signal => r.signal
           /\ r.task = q.task /\ r.attempt = q.attempt
    BY <2>2 DEF SignalWork, Working
  <2>4. QED
    BY <1>1, <2>1, <2>3 DEF Alike
<1>3. CASE CancelAllTokens(h)
  BY <1>1, <1>3 DEF CancelAllTokens, Alike
<1>4. CASE JoinAndRecover(h) \/ DeferralEnds(h)
  BY <1>4 DEF JoinAndRecover, DeferralEnds, Alike
<1>5. QED
  BY <1>2, <1>3, <1>4 DEF MainStep

(* Commands and registrations wake workers at most.                        *)
Quietly(h) ==
    \/ RequestShutdown(h)
    \/ \E t \in Tasks : CreateTask(h, t) \/ CancelTask(h, t) \/ RetryTask(h, t)
    \/ \E kind \in Kinds : RegisterHandler(h, kind) \/ UnregisterHandler(h, kind)

LEMMA QuietPlaces ==
  ASSUME TypeOK, NEW h \in Hosts, Quietly(h)
  PROVE  \A w \in Workers : Alike(w)
<1>0. worker \in [Workers -> Working]
  BY DEF TypeOK
<1>1. ASSUME NEW kind \in Kinds, RegisterHandler(h, kind) PROVE \A w \in Workers : Alike(w)
  BY <1>0, <1>1 DEF RegisterHandler, SignalWork, Working, Alike
<1>2. CASE UNCHANGED worker
  BY <1>2 DEF Alike
<1>3. QED
  BY <1>1, <1>2 DEF Quietly, RequestShutdown, CreateTask, CancelTask, RetryTask, CommitCommand,
     UnregisterHandler

(* A recovered ledger has nothing running.                                 *)
LEMMA RecoveredRests ==
  ASSUME TypeOK, RecoverAll
  PROVE  \A t \in Tasks : ledger'[t].status # "running"
  BY DEF RecoverAll, L!InterruptedEntry, L!AfterInterruption, TypeOK, L!Entry

-------------------------------------------------------------------------------
(***************************************************************************)
(* Orderly shutdown, with any number of processes: threads exist only in a *)
(* process that lives, so the last one to stop recovers what is running.   *)
(***************************************************************************)
Live(h) == phase[h] \in {"up", "flagged", "joining"}

WorkersLive == \A w \in Workers : worker[w].pc # "off" => Live(HostOf[w])

LEMMA WorkersStayLive ==
  ASSUME TypeOK, WorkersLive, Next
  PROVE  WorkersLive'
<1>0. phase \in [Hosts -> Phases] /\ HostOf \in [Workers -> Hosts]
  BY RunnerAssumption DEF TypeOK
<1>1. ASSUME NEW w \in Workers, WorkerStep(w) \/ HandlerReturns(w) PROVE WorkersLive'
  <2>1. worker[w].pc # "off" /\ UNCHANGED phase /\ \A v \in Workers \ {w} : Alike(v)
    BY <1>1, WorkerWalks DEF Walks
  <2>2. QED
    BY <2>1 DEF WorkersLive, Live, Alike
<1>2. ASSUME NEW h \in Hosts, MainStep(h) \/ DeferralEnds(h) PROVE WorkersLive'
  <2>1. \A w \in Workers : worker'[w].pc = worker[w].pc
    BY <1>2, MainPlaces DEF Alike
  <2>2. \A w \in Workers : worker[w].pc # "off" => phase'[HostOf[w]] \in {"up", "flagged", "joining"}
    <3>1. CASE UNCHANGED phase
      BY <3>1 DEF WorkersLive, Live
    <3>2. CASE CancelAllTokens(h)
      BY <1>0, <3>2 DEF CancelAllTokens, SetPhase, WorkersLive, Live
    <3>3. CASE JoinAndRecover(h)
      BY <1>0, <3>3 DEF JoinAndRecover, SetPhase, WorkersLive, Live, WorkersOf
    <3>4. QED
      BY <1>2, <3>1, <3>2, <3>3 DEF MainStep, Notify, DeferralEnds
  <2>3. QED
    BY <2>1, <2>2 DEF WorkersLive, Live
<1>3. ASSUME NEW h \in Hosts, Quietly(h) PROVE WorkersLive'
  <2>1. \A w \in Workers : worker'[w].pc = worker[w].pc
    BY <1>3, QuietPlaces DEF Alike
  <2>2. phase' = phase \/ phase' = [phase EXCEPT ![h] = "flagged"]
    BY <1>3 DEF Quietly, RequestShutdown, SetPhase, CreateTask, CancelTask, RetryTask,
       CommitCommand, RegisterHandler, UnregisterHandler
  <2>3. QED
    BY <1>0, <2>1, <2>2 DEF WorkersLive, Live
<1>4. ASSUME NEW h \in Hosts, Start(h) PROVE WorkersLive'
  BY <1>0, <1>4 DEF Start, SetPhase, WorkersLive, Live
<1>5. ASSUME NEW h \in Hosts, Crash(h) PROVE WorkersLive'
  BY <1>0, <1>5 DEF Crash, SetPhase, IdleWorker, WorkersLive, Live
<1>6. QED
  BY <1>1, <1>2, <1>3, <1>4, <1>5 DEF Next, Environment, Quietly

LEMMA StopSettles ==
  ASSUME TypeOK, WorkersLive, StoppedLeavesNothingRunning, Next
  PROVE  StoppedLeavesNothingRunning'
<1> USE DEF StoppedLeavesNothingRunning
<1>0. phase \in [Hosts -> Phases] /\ HostOf \in [Workers -> Hosts]
  BY RunnerAssumption DEF TypeOK
<1>1. ASSUME NEW w \in Workers, WorkerStep(w) \/ HandlerReturns(w)
      PROVE  StoppedLeavesNothingRunning'
  <2>1. worker[w].pc # "off" /\ UNCHANGED phase
    BY <1>1, WorkerWalks DEF Walks
  <2>2. HostOf[w] \in Hosts /\ phase[HostOf[w]] \notin {"down", "stopped"}
    BY <1>0, <2>1 DEF WorkersLive, Live
  <2>3. QED
    BY <2>1, <2>2
<1>2. ASSUME NEW h \in Hosts, UNCHANGED <<ledger, phase>> PROVE StoppedLeavesNothingRunning'
  BY <1>2
<1>3. ASSUME NEW h \in Hosts, phase'[h] \notin {"down", "stopped"}
      PROVE  StoppedLeavesNothingRunning'
  BY <1>3
<1>4. ASSUME NEW h \in Hosts, JoinAndRecover(h) PROVE StoppedLeavesNothingRunning'
  BY <1>4, RecoveredRests DEF JoinAndRecover
<1>5. ASSUME NEW h \in Hosts, MainStep(h) \/ DeferralEnds(h)
      PROVE  StoppedLeavesNothingRunning'
  BY <1>0, <1>2, <1>3, <1>4, <1>5 DEF MainStep, Notify, CancelAllTokens, SetPhase, DeferralEnds
<1>6. ASSUME NEW h \in Hosts, Environment(h) PROVE StoppedLeavesNothingRunning'
  <2>1. CASE Start(h) \/ RequestShutdown(h) \/ Crash(h)
    <3>1. phase'[h] \in {"up", "flagged", "crashed"}
      BY <1>0, <2>1 DEF Start, RequestShutdown, Crash, SetPhase
    <3>2. QED
      BY <1>3, <3>1
  <2>2. ASSUME NEW t \in Tasks, CreateTask(h, t) \/ CancelTask(h, t) \/ RetryTask(h, t)
        PROVE  StoppedLeavesNothingRunning'
    BY <1>3, <2>2 DEF CreateTask, CancelTask, RetryTask, CommitCommand, MainIdle
  <2>3. ASSUME NEW kind \in Kinds, RegisterHandler(h, kind) \/ UnregisterHandler(h, kind)
        PROVE  StoppedLeavesNothingRunning'
    BY <1>2, <2>3 DEF RegisterHandler, UnregisterHandler
  <2>4. QED
    BY <1>6, <2>1, <2>2, <2>3 DEF Environment
<1>7. QED
  BY <1>1, <1>5, <1>6 DEF Next

THEOREM LivingWorkers == Spec => []WorkersLive
<1>1. Init => WorkersLive
  BY DEF Init, IdleWorker, WorkersLive
<1>2. TypeOK /\ WorkersLive /\ [Next]_vars => WorkersLive'
  BY WorkersStayLive DEF vars, WorkersLive, Live
<1>3. QED
  BY <1>1, <1>2, TypeCorrect, PTL DEF Spec

(* When every process that was ever started has been shut down in order,   *)
(* no task is left running in the ledger.                                  *)
THEOREM OrderlyStop == Spec => []StoppedLeavesNothingRunning
<1>1. Init => StoppedLeavesNothingRunning
  BY DEF Init, L!Init, L!Absent, StoppedLeavesNothingRunning
<1>2. TypeOK /\ WorkersLive /\ StoppedLeavesNothingRunning /\ [Next]_vars
         => StoppedLeavesNothingRunning'
  BY StopSettles DEF vars, StoppedLeavesNothingRunning
<1>3. QED
  BY <1>1, <1>2, TypeCorrect, LivingWorkers, PTL DEF Spec

-------------------------------------------------------------------------------
(***************************************************************************)
(* One process over the database.  A second one would recover, and hand    *)
(* out again, what the first is at: what follows holds for one process.    *)
(***************************************************************************)
OneProcess == \A g, h \in Hosts : g = h

(* A handler works on the current attempt of its task.                     *)
CurrentHandler ==
    \A w \in Workers : Handling(w) =>
        LET t == worker[w].task IN
        ledger[t].attempt = worker[w].attempt /\ ledger[t].status \in {"running", "canceled"}

(* Steps of a worker that start no attempt and settle none.                *)
LEMMA OtherWorkerSteps ==
  ASSUME NEW w \in Workers, WorkerStep(w) \/ HandlerReturns(w)
  PROVE  UNCHANGED ledger \/ Finish(w) \/ \E t \in Tasks : Claim(w, t)
  BY DEF WorkerStep, WaitForWork, CheckBeforeClaim, NothingToClaim,
       RegisterToken, DeferClaims, HandlerReturns, CheckBeforeFinish, Release

(* What finishing an attempt does to the ledger.                           *)
LEMMA FinishSettles ==
  ASSUME TypeOK, Fenced, NEW w \in Workers, Finish(w)
  PROVE  LET t == worker[w].task IN
         /\ t \in Tasks /\ worker'[w].pc = "finished" /\ worker[w].pc = "finishing"
         /\ \A v \in Workers \ {w} : worker'[v] = worker[v]
         /\ \/ UNCHANGED ledger /\ (~OwnsAttempt(w) \/ StoreMayFail)
            \/ /\ OwnsAttempt(w) /\ ledger'[t].status # "running"
               /\ \A u \in Tasks \ {t} : ledger'[u] = ledger[u]
<1> DEFINE t == worker[w].task
<1>1. /\ ledger \in [Tasks -> L!Entry] /\ worker \in [Workers -> Working]
      /\ worker[w].pc = "finishing"
  BY DEF TypeOK, Finish
<1>2. t \in Tasks
  BY <1>1 DEF Fenced, Engaged
<1>3. /\ worker'[w].pc = "finished"
      /\ \A v \in Workers \ {w} : worker'[v] = worker[v]
  BY <1>1 DEF Finish, Goto
<1>4. \A retryable : L!AfterFailure(t, retryable) # "running"
  BY <1>1, <1>2 DEF L!AfterFailure, L!Entry, L!Policies
<1>5. ASSUME NEW status, L!Become(t, status), status # "running"
      PROVE  ledger'[t].status # "running" /\ \A u \in Tasks \ {t} : ledger'[u] = ledger[u]
  BY <1>1, <1>2, <1>5 DEF L!Become, L!Entry
<1>6. CASE UNCHANGED ledger /\ (~OwnsAttempt(w) \/ StoreMayFail)
  BY <1>1, <1>2, <1>3, <1>6
<1>7. CASE L!Succeed(t, worker[w].attempt)
  BY <1>1, <1>2, <1>3, <1>5, <1>7 DEF L!Succeed, OwnsAttempt
<1>8. CASE L!Fail(t, worker[w].attempt, worker[w].result = "retryable")
  BY <1>1, <1>2, <1>3, <1>4, <1>5, <1>8 DEF L!Fail, OwnsAttempt
<1>9. QED
  BY <1>6, <1>7, <1>8 DEF Finish

LEMMA ClaimStarts ==
  ASSUME TypeOK, NEW w \in Workers, NEW t \in Tasks, Claim(w, t)
  PROVE  /\ worker[w].pc = "claiming" /\ worker'[w].pc = "claimed"
         /\ worker'[w].task = t /\ worker'[w].attempt = ledger'[t].attempt
         /\ ledger[t].status = "queued" /\ ledger'[t].status = "running"
         /\ \A u \in Tasks \ {t} : ledger'[u] = ledger[u]
         /\ \A v \in Workers \ {w} : worker'[v] = worker[v]
<1>1. /\ ledger \in [Tasks -> L!Entry] /\ worker \in [Workers -> Working]
      /\ worker[w] \in Working /\ ledger[t] \in L!Entry
  BY DEF TypeOK
<1>2. ledger[t].status = "queued" /\ worker[w].pc = "claiming"
  BY DEF Claim, L!Claim, L!Runnable
<1>3. /\ ledger' = [ledger EXCEPT ![t].status = "running", ![t].attempt = @ + 1]
      /\ worker' = [worker EXCEPT ![w].pc = "claimed", ![w].kinds = {}, ![w].task = t,
                                  ![w].attempt = ledger[t].attempt + 1]
  BY DEF Claim, L!Claim
<1>4. /\ ledger'[t].attempt = ledger[t].attempt + 1 /\ ledger'[t].status = "running"
      /\ \A u \in Tasks \ {t} : ledger'[u] = ledger[u]
  BY <1>1, <1>3 DEF L!Entry
<1>5. /\ worker'[w].pc = "claimed" /\ worker'[w].task = t
      /\ worker'[w].attempt = ledger[t].attempt + 1
      /\ \A v \in Workers \ {w} : worker'[v] = worker[v]
  BY <1>1, <1>3 DEF Working
<1>6. QED
  BY <1>2, <1>4, <1>5

LEMMA HandlersStayCurrent ==
  ASSUME OneProcess, IInv, WorkersLive, CurrentHandler, Next
  PROVE  CurrentHandler'
<1> USE DEF IInv
<1>0. /\ ledger \in [Tasks -> L!Entry] /\ HostOf \in [Workers -> Hosts]
  BY RunnerAssumption DEF TypeOK
<1>1. ASSUME NEW w \in Workers, WorkerStep(w) \/ HandlerReturns(w) PROVE CurrentHandler'
  <2>1. CASE UNCHANGED ledger /\ ~\E t \in Tasks : Claim(w, t)
    <3>1. /\ \A v \in Workers \ {w} : Alike(v)
          /\ Walks(w)
      BY <1>1, WorkerWalks
    <3>2. worker'[w].pc # "claimed"
      <4>1. SUFFICES ASSUME worker[w].pc = "claiming" PROVE worker'[w].pc = "waiting"
        BY <3>1 DEF Walks
      <4>2. NothingToClaim(w)
        BY <1>1, <2>1, <4>1 DEF WorkerStep, WaitForWork, CheckBeforeClaim,
           RegisterToken, DeferClaims, HandlerReturns, CheckBeforeFinish, Finish, Release
      <4>3. QED
        BY <4>2 DEF NothingToClaim, TypeOK, Working
    <3>3. Handling(w)' => Handling(w) /\ Stays(w)
      BY <2>1, <3>1, <3>2 DEF Handling, Walks
    <3>4. QED
      BY <2>1, <3>1, <3>3 DEF CurrentHandler, Handling, Alike, Stays
  <2>2. ASSUME NEW t \in Tasks, Claim(w, t) PROVE CurrentHandler'
    <3>1. /\ worker'[w].task = t /\ worker'[w].attempt = ledger'[t].attempt
          /\ ledger[t].status = "queued" /\ ledger'[t].status = "running"
          /\ \A u \in Tasks \ {t} : ledger'[u] = ledger[u]
          /\ \A v \in Workers \ {w} : worker'[v] = worker[v]
      BY <2>2, ClaimStarts
    <3>2. \A v \in Workers : Handling(v) => worker[v].task \in Tasks \ {t}
      BY <3>1 DEF CurrentHandler, Fenced, Handling, Engaged
    <3>3. QED
      BY <3>1, <3>2 DEF CurrentHandler, Handling
  <2>3. CASE Finish(w)
    <3> DEFINE t == worker[w].task
    <3>1. /\ worker'[w].pc = "finished" /\ worker[w].pc = "finishing"
          /\ \A v \in Workers \ {w} : worker'[v] = worker[v]
          /\ \/ UNCHANGED ledger
             \/ OwnsAttempt(w) /\ \A u \in Tasks \ {t} : ledger'[u] = ledger[u]
      BY <2>3, FinishSettles
    <3>2. ASSUME OwnsAttempt(w), NEW v \in Workers \ {w}, Handling(v)
          PROVE  worker[v].task \in Tasks \ {t}
      BY <3>1, <3>2 DEF AttemptsDiffer, CurrentHandler, Fenced, Handling, Engaged,
         OwnsAttempt, L!Active
    <3>3. QED
      BY <3>1, <3>2 DEF CurrentHandler, Handling
  <2>4. QED
    BY <1>1, <2>1, <2>2, <2>3, OtherWorkerSteps
<1>2. ASSUME NEW h \in Hosts, MainStep(h) \/ DeferralEnds(h) PROVE CurrentHandler'
  <2>1. \A w \in Workers : Alike(w)
    BY <1>2, MainPlaces
  <2>2. CASE UNCHANGED ledger
    BY <2>1, <2>2 DEF CurrentHandler, Handling, Alike
  <2>3. CASE JoinAndRecover(h)
    <3>1. \A w \in Workers : worker'[w].pc = "off"
      BY <1>0, <2>1, <2>3 DEF JoinAndRecover, WorkersOf, OneProcess, Alike
    <3>2. QED
      BY <3>1 DEF CurrentHandler, Handling
  <2>4. QED
    BY <1>2, <2>2, <2>3 DEF MainStep, Notify, CancelAllTokens, DeferralEnds
<1>3. ASSUME NEW h \in Hosts, Quietly(h) PROVE CurrentHandler'
  <2>1. \A w \in Workers : Alike(w)
    BY <1>3, QuietPlaces
  <2>2. SUFFICES ASSUME NEW w \in Workers, Handling(w)
                 PROVE  LET t == worker[w].task IN
                        /\ ledger'[t].attempt = ledger[t].attempt
                        /\ ledger'[t].status = ledger[t].status \/ ledger'[t].status = "canceled"
    BY <2>1 DEF CurrentHandler, Handling, Alike
  <2> DEFINE t == worker[w].task
  <2>3. t \in Tasks /\ ledger[t].status \in {"running", "canceled"} /\ L!Exists(t)
    BY <2>2 DEF CurrentHandler, Fenced, Handling, Engaged
  <2>4. ASSUME NEW u \in Tasks, CreateTask(h, u) PROVE ledger'[t] = ledger[t]
    BY <1>0, <2>3, <2>4 DEF CreateTask, L!Create
  <2>5. ASSUME NEW u \in Tasks, RetryTask(h, u) PROVE ledger'[t] = ledger[t]
    BY <1>0, <2>3, <2>5 DEF RetryTask, L!Retry, L!Become
  <2>6. ASSUME NEW u \in Tasks, CancelTask(h, u)
        PROVE  /\ ledger'[t].attempt = ledger[t].attempt
               /\ ledger'[t].status = ledger[t].status \/ ledger'[t].status = "canceled"
    BY <1>0, <2>3, <2>6 DEF CancelTask, L!Cancel, L!Become, L!Entry
  <2>7. QED
    BY <1>3, <2>4, <2>5, <2>6 DEF Quietly, RequestShutdown, RegisterHandler, UnregisterHandler
<1>4. ASSUME NEW h \in Hosts, Start(h) \/ Crash(h) PROVE CurrentHandler'
  <2>1. \A w \in Workers : worker'[w].pc \in {"waiting", "off"}
    BY <1>0, <1>4 DEF Start, Crash, IdleWorker, OneProcess
  <2>2. QED
    BY <2>1 DEF CurrentHandler, Handling
<1>5. QED
  BY <1>1, <1>2, <1>3, <1>4 DEF Next, Environment, Quietly

(* One process: each task has at most one handler at a time.               *)
THEOREM HandlersAlone == ASSUME OneProcess PROVE Spec => []OneHandlerPerTask
<1>1. Init => CurrentHandler
  BY DEF Init, IdleWorker, CurrentHandler, Handling
<1>2. IInv /\ WorkersLive /\ CurrentHandler /\ [Next]_vars => CurrentHandler'
  BY HandlersStayCurrent DEF vars, CurrentHandler, Handling
<1>3. IInv /\ CurrentHandler => OneHandlerPerTask
  BY DEF IInv, CurrentHandler, AttemptsDiffer, OneHandlerPerTask, Holds, Handling, Engaged
<1>4. QED
  BY <1>1, <1>2, <1>3, Invariance, LivingWorkers, PTL DEF Spec

-------------------------------------------------------------------------------
(***************************************************************************)
(* One process whose store answers: the ledger's running tasks have a      *)
(* worker, and work that can be claimed has a worker that is awake.        *)
(***************************************************************************)
Reporting == {"claimed", "missing", "executing", "returned", "finishing"}

Owns(w, t) ==
    /\ worker[w].task = t /\ worker[w].attempt = ledger[t].attempt
    /\ worker[w].pc \in Reporting

LEMMA OwnersReport ==
  ASSUME OneProcess, ~StoreMayFail, IInv, RunningHasOwner, Next,
         NEW t \in Tasks, NEW h \in Hosts, phase'[h] = "up", ledger'[t].status = "running"
  PROVE  \E w \in Workers : Owns(w, t)'
<1> USE DEF IInv
<1>0. /\ ledger \in [Tasks -> L!Entry] /\ HostOf \in [Workers -> Hosts]
      /\ phase \in [Hosts -> Phases]
  BY RunnerAssumption DEF TypeOK
<1>1. ASSUME phase[h] = "up", ledger[t].status = "running" PROVE \E w \in Workers : Owns(w, t)
  BY <1>1 DEF RunningHasOwner, Owns, Reporting
<1>2. ASSUME NEW w \in Workers, WorkerStep(w) \/ HandlerReturns(w)
      PROVE  \E v \in Workers : Owns(v, t)'
  <2>1. /\ phase[h] = "up" /\ ~ShuttingDown(HostOf[w])
        /\ \A v \in Workers \ {w} : Alike(v)
        /\ Walks(w)
    BY <1>0, <1>2, WorkerWalks DEF OneProcess, ShuttingDown
  <2>2. ASSUME NEW u \in Tasks, Claim(w, u) PROVE \E v \in Workers : Owns(v, t)'
    <3>1. /\ worker[w].pc = "claiming" /\ worker'[w].pc = "claimed"
          /\ worker'[w].task = u /\ worker'[w].attempt = ledger'[u].attempt
          /\ \A x \in Tasks \ {u} : ledger'[x] = ledger[x]
      BY <2>2, ClaimStarts
    <3>2. CASE t = u
      BY <3>1, <3>2 DEF Owns, Reporting
    <3>3. CASE t # u
      <4>1. PICK v \in Workers : Owns(v, t)
        BY <1>1, <2>1, <3>1, <3>3
      <4>2. v # w
        BY <3>1, <4>1 DEF Owns, Reporting
      <4>3. QED
        BY <2>1, <3>1, <3>3, <4>1, <4>2 DEF Owns, Alike
    <3>4. QED
      BY <3>2, <3>3
  <2>3. CASE Finish(w)
    <3>1. /\ worker[w].pc = "finishing"
          /\ \A v \in Workers \ {w} : worker'[v] = worker[v]
          /\ ledger'[t] = ledger[t]
          /\ worker[w].task = t => ~OwnsAttempt(w)
      BY <2>3, FinishSettles
    <3>2. PICK v \in Workers : Owns(v, t)
      BY <1>1, <2>1, <3>1
    <3>3. v # w
      BY <3>1, <3>2 DEF Owns, OwnsAttempt, L!Active
    <3>4. QED
      BY <3>1, <3>2, <3>3 DEF Owns
  <2>4. CASE UNCHANGED ledger /\ ~Finish(w) /\ ~\E u \in Tasks : Claim(w, u)
    <3>1. PICK v \in Workers : Owns(v, t)
      BY <1>1, <2>1, <2>4
    <3>2. CASE v # w
      BY <2>1, <2>4, <3>1, <3>2 DEF Owns, Alike
    <3>3. CASE v = w
      <4>1. worker[w].pc # "finishing"
        BY <1>2, <2>4 DEF WorkerStep, WaitForWork, CheckBeforeClaim, NothingToClaim,
           RegisterToken, DeferClaims, HandlerReturns, CheckBeforeFinish, Release
      <4>2. OwnsAttempt(w)
        BY <2>4, <3>1, <3>3 DEF Owns, OwnsAttempt, L!Active
      <4>3. worker'[w].pc \in Reporting /\ Stays(w)
        BY <2>1, <3>1, <3>3, <4>1, <4>2 DEF Walks, Owns, Reporting
      <4>4. QED
        BY <2>4, <3>1, <3>3, <4>3 DEF Owns, Stays
    <3>4. QED
      BY <3>2, <3>3
  <2>5. QED
    BY <1>2, <2>2, <2>3, <2>4, OtherWorkerSteps
<1>3. ASSUME phase[h] = "up", \A w \in Workers : Alike(w),
             ledger[t].status = "running", ledger'[t] = ledger[t]
      PROVE  \E w \in Workers : Owns(w, t)'
  <2>1. PICK w \in Workers : Owns(w, t)
    BY <1>1, <1>3
  <2>2. QED
    BY <1>3, <2>1 DEF Owns, Alike
<1>4. ASSUME NEW g \in Hosts, MainStep(g) \/ DeferralEnds(g)
      PROVE  \E w \in Workers : Owns(w, t)'
  <2>1. g = h
    BY DEF OneProcess
  <2>2. UNCHANGED <<phase, ledger>>
    BY <1>0, <1>4, <2>1 DEF MainStep, Notify, CancelAllTokens, JoinAndRecover, DeferralEnds, SetPhase
  <2>3. QED
    BY <1>3, <1>4, <2>2, MainPlaces
<1>5. ASSUME NEW g \in Hosts, Quietly(g) PROVE \E w \in Workers : Owns(w, t)'
  <2>1. g = h
    BY DEF OneProcess
  <2>2. ~RequestShutdown(g)
    BY <1>0, <2>1 DEF RequestShutdown, SetPhase
  <2>3. UNCHANGED phase
    BY <1>5, <2>2 DEF Quietly, CreateTask, CancelTask, RetryTask, CommitCommand,
       RegisterHandler, UnregisterHandler
  <2>4. ASSUME NEW u \in Tasks, CreateTask(g, u) PROVE ledger'[t] = ledger[t]
    BY <1>0, <2>4 DEF CreateTask, L!Create
  <2>5. ASSUME NEW u \in Tasks, RetryTask(g, u) PROVE ledger'[t] = ledger[t]
    BY <1>0, <2>5 DEF RetryTask, L!Retry, L!Become, L!Entry
  <2>6. ASSUME NEW u \in Tasks, CancelTask(g, u) PROVE ledger'[t] = ledger[t]
    BY <1>0, <2>6 DEF CancelTask, L!Cancel, L!Become, L!Entry
  <2>7. ledger'[t] = ledger[t]
    BY <1>5, <2>2, <2>4, <2>5, <2>6 DEF Quietly, RegisterHandler, UnregisterHandler
  <2>8. QED
    BY <1>3, <1>5, <2>3, <2>7, QuietPlaces
<1>6. ASSUME NEW g \in Hosts, Start(g) PROVE FALSE
  BY <1>6, RecoveredRests DEF Start
<1>7. ASSUME NEW g \in Hosts, Crash(g) PROVE FALSE
  BY <1>0, <1>7 DEF Crash, SetPhase, OneProcess
<1>8. QED
  BY <1>2, <1>4, <1>5, <1>6, <1>7 DEF Next, Environment, Quietly

(* One process whose store answers: while it is up, a task the ledger      *)
(* calls running has a worker that will still report on that attempt.      *)
THEOREM RunningOwned ==
  ASSUME OneProcess, ~StoreMayFail PROVE Spec => []RunningHasOwner
<1>1. Init => RunningHasOwner
  BY DEF Init, RunningHasOwner
<1>2. IInv /\ RunningHasOwner /\ [Next]_vars => RunningHasOwner'
  <2>1. ASSUME IInv, RunningHasOwner, Next PROVE RunningHasOwner'
    <3>1. SUFFICES ASSUME NEW t \in Tasks, NEW h \in Hosts, phase'[h] = "up",
                          ledger'[t].status = "running"
                   PROVE  \E w \in Workers : Owns(w, t)'
      BY DEF RunningHasOwner, Owns, Reporting
    <3>2. QED
      BY <2>1, <3>1, OwnersReport
  <2>2. QED
    BY <2>1 DEF vars, RunningHasOwner
<1>3. QED
  BY <1>1, <1>2, Invariance, PTL DEF Spec

(* Will look for work again, or is about to claim this task.               *)
Awake(w, t) ==
    \/ worker[w].signal
    \/ worker[w].pc \in {"draining", "finished"} \cup Reporting
    \/ worker[w].pc = "claiming" /\ KindOf[t] \in worker[w].kinds

SomeoneAwake ==
    \A h \in Hosts, t \in Tasks :
        (MainIdle(h) /\ deferred[h] = "unset" /\ Claimable(t, handlers[h]))
            => \E w \in WorkersOf(h) : Awake(w, t)

LEMMA SignalWakes ==
  ASSUME TypeOK, NEW h \in Hosts, phase[h] = "up", NEW state \in [Workers -> Working],
         worker' = SignalWork(h, state)
  PROVE  \E w \in WorkersOf(h) : worker'[w].signal
<1>1. PICK w \in Workers : HostOf[w] = h
  BY WorkersAssumption
<1>2. worker'[w].signal
  BY <1>1 DEF SignalWork, ShuttingDown, Working
<1>3. QED
  BY <1>1, <1>2 DEF WorkersOf

LEMMA SomeoneStaysAwake ==
  ASSUME OneProcess, ~StoreMayFail, IInv, SomeoneAwake, Next,
         NEW h \in Hosts, NEW t \in Tasks,
         MainIdle(h)', deferred'[h] = "unset", Claimable(t, handlers[h])'
  PROVE  \E w \in WorkersOf(h) : Awake(w, t)'
<1> USE DEF IInv
<1>0. /\ HostOf \in [Workers -> Hosts] /\ worker \in [Workers -> Working]
      /\ phase \in [Hosts -> Phases] /\ deferred \in [Hosts -> {"unset", "to come", "past"}]
      /\ notice \in [Hosts -> [type : {"none", "create", "cancel", "retry"},
                               task : Tasks \cup {None}]]
      /\ handlers \in [Hosts -> SUBSET Kinds]
      /\ \A w \in Workers : HostOf[w] = h
      /\ phase'[h] = "up" /\ notice'[h] = NoNotice
      /\ KindOf[t] \in handlers'[h]
  BY RunnerAssumption DEF TypeOK, OneProcess, MainIdle, Claimable
<1>1. ASSUME NEW w \in Workers, WorkerStep(w) \/ HandlerReturns(w)
      PROVE  \E v \in WorkersOf(h) : Awake(v, t)'
  <2>1. /\ UNCHANGED <<phase, notice, handlers>>
        /\ \A v \in Workers \ {w} : Alike(v)
        /\ Walks(w)
    BY <1>1, WorkerWalks
  <2>2. MainIdle(h) /\ ~ShuttingDown(HostOf[w]) /\ handlers[HostOf[w]] = handlers'[h]
    BY <1>0, <2>1 DEF MainIdle, ShuttingDown
  <2>3. CASE Awake(w, t)'
    BY <1>0, <2>3 DEF WorkersOf
  <2>4. CASE ~Awake(w, t)'
    <3>1. /\ worker[w].pc = "claiming" /\ worker'[w].pc = "waiting"
          /\ worker'[w].signal = worker[w].signal /\ UNCHANGED <<ledger, deferred>>
          /\ \A u \in Tasks : ~Claimable(u, worker[w].kinds)
      BY <1>0, <2>1, <2>2, <2>4 DEF Walks, Awake, Reporting
    <3>2. Claimable(t, handlers[h]) /\ L!Runnable(t)
      BY <2>1, <3>1 DEF Claimable, L!Runnable
    <3>3. PICK v \in WorkersOf(h) : Awake(v, t)
      BY <2>2, <3>1, <3>2 DEF SomeoneAwake
    <3>4. v # w
      BY <2>4, <3>1, <3>2, <3>3 DEF Awake, Claimable, Reporting
    <3>5. QED
      BY <2>1, <3>3, <3>4 DEF Awake, Alike, WorkersOf
  <2>5. QED
    BY <2>3, <2>4
<1>2. ASSUME NEW g \in Hosts, Notify(g) PROVE \E v \in WorkersOf(h) : Awake(v, t)'
  <2>1. g = h /\ phase[h] = "up"
    BY <1>0, <1>2 DEF OneProcess, Notify
  <2>2. PICK ws : worker' = SignalWork(h, CancelTokens(ws))
    BY <1>2, <2>1 DEF Notify
  <2>3. CancelTokens(ws) \in [Workers -> Working]
    BY CancelTyped
  <2>4. QED
    BY <2>1, <2>2, <2>3, SignalWakes DEF Awake
<1>3. ASSUME NEW g \in Hosts, NEW kind \in Kinds, RegisterHandler(g, kind)
      PROVE  \E v \in WorkersOf(h) : Awake(v, t)'
  <2>1. g = h /\ phase[h] = "up" /\ worker' = SignalWork(h, worker)
    BY <1>3 DEF OneProcess, RegisterHandler, MainIdle
  <2>2. QED
    BY <1>0, <2>1, SignalWakes DEF Awake
<1>4. ASSUME NEW g \in Hosts, Start(g) PROVE \E v \in WorkersOf(h) : Awake(v, t)'
  <2>1. PICK w \in Workers : HostOf[w] = h
    BY WorkersAssumption
  <2>2. worker'[w].signal
    BY <1>4, <2>1 DEF Start, IdleWorker, OneProcess
  <2>3. QED
    BY <2>1, <2>2 DEF WorkersOf, Awake
<1>5. ASSUME NEW g \in Hosts, NEW kind \in Kinds, UnregisterHandler(g, kind)
      PROVE  \E v \in WorkersOf(h) : Awake(v, t)'
  <2>1. /\ UNCHANGED <<ledger, worker, phase, notice, deferred>>
        /\ handlers'[h] \subseteq handlers[h]
    BY <1>0, <1>5 DEF UnregisterHandler
  <2>2. MainIdle(h) /\ deferred[h] = "unset" /\ Claimable(t, handlers[h])
    BY <2>1 DEF MainIdle, Claimable, L!Runnable
  <2>3. QED
    BY <2>1, <2>2 DEF SomeoneAwake, Awake, WorkersOf
<1>6. ASSUME NEW g \in Hosts, CancelAllTokens(g) \/ JoinAndRecover(g) \/ DeferralEnds(g)
             \/ RequestShutdown(g) \/ Crash(g)
      PROVE  FALSE
  BY <1>0, <1>6 DEF OneProcess, CancelAllTokens, JoinAndRecover, DeferralEnds,
     RequestShutdown, Crash, SetPhase
<1>7. ASSUME NEW g \in Hosts, NEW u \in Tasks,
             CreateTask(g, u) \/ CancelTask(g, u) \/ RetryTask(g, u)
      PROVE  FALSE
  <2>1. PICK type \in {"create", "cancel", "retry"} : CommitCommand(g, type, u)
    BY <1>7 DEF CreateTask, CancelTask, RetryTask
  <2>2. notice'[h] = [type |-> type, task |-> u]
    BY <1>0, <2>1 DEF OneProcess, CommitCommand
  <2>3. notice'[h].type = type /\ NoNotice.type = "none"
    BY <2>2 DEF NoNotice
  <2>4. QED
    BY <1>0, <2>1, <2>3
<1>8. QED
  BY <1>1, <1>2, <1>3, <1>4, <1>5, <1>6, <1>7 DEF Next, MainStep, Environment

(* One process whose store answers: no wake-up is lost.  When the main     *)
(* thread has notified and no worker is awake, none has anything to claim. *)
THEOREM NoneSleepsThrough ==
  ASSUME OneProcess, ~StoreMayFail PROVE Spec => []NoLostWakeup
<1>1. Init => SomeoneAwake
  BY DEF Init, SomeoneAwake, MainIdle
<1>2. IInv /\ SomeoneAwake /\ [Next]_vars => SomeoneAwake'
  <2>1. ASSUME IInv, SomeoneAwake, Next PROVE SomeoneAwake'
    <3>1. SUFFICES ASSUME NEW h \in Hosts, NEW t \in Tasks, MainIdle(h)',
                          deferred'[h] = "unset", Claimable(t, handlers[h])'
                   PROVE  \E w \in WorkersOf(h) : Awake(w, t)'
      BY DEF SomeoneAwake
    <3>2. QED
      BY <2>1, <3>1, SomeoneStaysAwake
  <2>2. QED
    BY <2>1 DEF vars, SomeoneAwake, MainIdle, Claimable, L!Runnable, Awake
<1>3. SomeoneAwake => NoLostWakeup
  BY DEF SomeoneAwake, NoLostWakeup, Awake, Reporting
<1>4. QED
  BY <1>1, <1>2, <1>3, Invariance, PTL DEF Spec

-------------------------------------------------------------------------------
(***************************************************************************)
(* Cancellations.  A live token of a handler was live before, unless the   *)
(* step put it into the map; and only the host's command cancels a task.   *)
(***************************************************************************)
LiveAt(w) == worker[w].pc = "executing" /\ worker[w].token = "live"

LEMMA SignalTokens ==
  ASSUME NEW state \in [Workers -> Working], NEW h, NEW w \in Workers,
         worker' = SignalWork(h, state)
  PROVE  /\ worker'[w].pc = state[w].pc /\ worker'[w].token = state[w].token
         /\ worker'[w].task = state[w].task
  BY DEF SignalWork, Working

LEMMA CanceledTokens ==
  ASSUME TypeOK, NEW ws, NEW w \in Workers
  PROVE  /\ CancelTokens(ws)[w].pc = worker[w].pc
         /\ CancelTokens(ws)[w].task = worker[w].task
         /\ CancelTokens(ws)[w].token \in {worker[w].token, "canceled"}
         /\ w \in ws => CancelTokens(ws)[w].token # "live"
  BY DEF CancelTokens, TypeOK, Working

LEMMA WorkersKeepTokens ==
  ASSUME TypeOK, NEW v \in Workers, WorkerStep(v) \/ HandlerReturns(v),
         NEW w \in Workers, LiveAt(w)', worker[w].pc # "claimed"
  PROVE  LiveAt(w) /\ worker'[w].task = worker[w].task
<1>0. worker \in [Workers -> Working]
  BY DEF TypeOK
<1>1. CASE Release(v)
  <2> DEFINE released == [worker EXCEPT ![v] = IdleWorker("draining", @.signal)]
  <2>1. IdleWorker("draining", worker[v].signal) \in Working
    BY <1>0, IdleTyped DEF Working, PCs
  <2>2. /\ released \in [Workers -> Working]
        /\ released[v].pc = "draining" /\ \A u \in Workers \ {v} : released[u] = worker[u]
    BY <1>0, <2>1 DEF IdleWorker
  <2> HIDE DEF released
  <2>3. worker' = released \/ worker' = SignalWork(HostOf[v], released)
    BY <1>1 DEF Release, released
  <2>4. /\ worker'[w].pc = released[w].pc /\ worker'[w].token = released[w].token
        /\ worker'[w].task = released[w].task
    BY <2>2, <2>3, SignalTokens
  <2>5. QED
    BY <2>2, <2>4 DEF LiveAt
<1>2. CASE ~Release(v)
  <2>1. \A u \in Workers \ {v} : worker'[u] = worker[u]
    BY <1>0, <1>2 DEF WorkerStep, WaitForWork, CheckBeforeClaim, Claim, NothingToClaim,
       RegisterToken, DeferClaims, HandlerReturns, CheckBeforeFinish, Finish, Goto
  <2>2. worker'[v].pc = "executing" => worker[v].pc = "claimed"
    <3>1. Walks(v)
      BY WorkerWalks
    <3>2. QED
      BY <3>1 DEF Walks
  <2>3. QED
    BY <2>1, <2>2 DEF LiveAt
<1>3. QED
  BY <1>1, <1>2

LEMMA HostKeepsTokens ==
  ASSUME TypeOK, NEW h \in Hosts, MainStep(h) \/ DeferralEnds(h) \/ Environment(h),
         NEW w \in Workers, LiveAt(w)'
  PROVE  LiveAt(w) /\ worker'[w].task = worker[w].task
<1>0. worker \in [Workers -> Working]
  BY DEF TypeOK
<1>1. CASE Notify(h)
  <2>1. PICK ws : worker' = SignalWork(h, CancelTokens(ws))
    BY <1>1 DEF Notify
  <2>2. CancelTokens(ws) \in [Workers -> Working]
    BY CancelTyped
  <2>3. /\ worker'[w].pc = CancelTokens(ws)[w].pc /\ worker'[w].task = CancelTokens(ws)[w].task
        /\ worker'[w].token = CancelTokens(ws)[w].token
    BY <2>1, <2>2, SignalTokens
  <2>4. QED
    BY <2>3, CanceledTokens DEF LiveAt
<1>2. CASE CancelAllTokens(h)
  BY <1>2, CanceledTokens DEF CancelAllTokens, LiveAt
<1>3. CASE Start(h) \/ Crash(h)
  BY <1>3 DEF Start, Crash, IdleWorker, LiveAt
<1>4. ASSUME NEW kind \in Kinds, RegisterHandler(h, kind)
      PROVE  LiveAt(w) /\ worker'[w].task = worker[w].task
  BY <1>0, <1>4, SignalTokens DEF RegisterHandler, LiveAt
<1>5. CASE UNCHANGED worker
  BY <1>5 DEF LiveAt
<1>6. QED
  BY <1>1, <1>2, <1>3, <1>4, <1>5 DEF MainStep, JoinAndRecover, DeferralEnds, Environment,
     RequestShutdown, UnregisterHandler, CreateTask, CancelTask, RetryTask, CommitCommand

LEMMA CanceledByCommand ==
  ASSUME IInv, Next, NEW t \in Tasks, L!Exists(t),
         ledger[t].status # "canceled", ledger'[t].status = "canceled"
  PROVE  \E h \in Hosts : CancelTask(h, t)
<1>0. ledger \in [Tasks -> L!Entry] /\ TypeOK /\ Fenced
  BY DEF IInv, TypeOK
<1>1. ~UNCHANGED ledger
  OBVIOUS
<1>2. ~RecoverAll
  BY <1>0 DEF RecoverAll, L!InterruptedEntry, L!AfterInterruption, L!Entry
<1>3. ASSUME NEW w \in Workers, NEW u \in Tasks, Claim(w, u) PROVE FALSE
  BY <1>0, <1>3, ClaimStarts
<1>4. ASSUME NEW w \in Workers, Finish(w) PROVE FALSE
  <2> DEFINE u == worker[w].task
  <2>1. u \in Tasks
    BY <1>0, <1>4 DEF Fenced, Engaged, Finish
  <2>2. \A retryable : L!AfterFailure(u, retryable) # "canceled"
    BY <1>0, <2>1 DEF L!AfterFailure, L!Entry, L!Policies
  <2>3. ASSUME NEW status, L!Become(u, status), status # "canceled" PROVE FALSE
    BY <1>0, <2>1, <2>3 DEF L!Become, L!Entry
  <2>4. QED
    BY <1>1, <1>4, <2>2, <2>3 DEF Finish, L!Succeed, L!Fail
<1>5. ASSUME NEW h \in Hosts, NEW u \in Tasks, CreateTask(h, u) \/ RetryTask(h, u) PROVE FALSE
  BY <1>0, <1>5 DEF CreateTask, RetryTask, L!Create, L!Retry, L!Become, L!Entry
<1>6. ASSUME NEW h \in Hosts, NEW u \in Tasks, CancelTask(h, u) PROVE u = t
  BY <1>0, <1>6 DEF CancelTask, L!Cancel, L!Become
<1>7. ASSUME NEW w \in Workers, WorkerStep(w) \/ HandlerReturns(w) PROVE FALSE
  BY <1>1, <1>3, <1>4, <1>7, OtherWorkerSteps
<1>8. ASSUME NEW h \in Hosts, MainStep(h) \/ DeferralEnds(h) PROVE FALSE
  BY <1>1, <1>2, <1>8 DEF MainStep, Notify, CancelAllTokens, JoinAndRecover, DeferralEnds
<1>9. ASSUME NEW h \in Hosts, Environment(h) PROVE \E u \in Tasks : CancelTask(h, u)
  BY <1>1, <1>2, <1>5, <1>9 DEF Environment, Start, RequestShutdown, Crash, RegisterHandler,
     UnregisterHandler
<1>10. QED
  BY <1>6, <1>7, <1>8, <1>9 DEF Next

(* One process: a cancellation reaches every handler whose token was in    *)
(* the map when it was notified.                                           *)
THEOREM CancellationsReach ==
  ASSUME OneProcess PROVE Spec => CancelMissesOnlyUnregistered
<1>1. ASSUME IInv, Next, NEW w \in Workers, Untold(w)', worker[w].pc # "claimed"
      PROVE  Untold(w)
  <2> DEFINE h == HostOf[w]
             t == worker[w].task
             cancel == [type |-> "cancel", task |-> t]
  <2>1. TypeOK /\ h \in Hosts /\ notice \in [Hosts -> [type : {"none", "create", "cancel", "retry"},
                                                        task : Tasks \cup {None}]]
    BY <1>1, RunnerAssumption DEF IInv, TypeOK
  <2>2. LiveAt(w) /\ worker'[w].task = t /\ LiveAt(w)'
    <3>1. LiveAt(w)'
      BY <1>1 DEF Untold, LiveAt
    <3>2. QED
      BY <1>1, <2>1, <3>1, WorkersKeepTokens, HostKeepsTokens DEF Next
  <2>3. t \in Tasks /\ L!Exists(t)
    BY <1>1, <2>2 DEF IInv, Fenced, Engaged, LiveAt
  <2>4. ledger'[t].status = "canceled" /\ notice'[h] # cancel
    BY <1>1, <2>2 DEF Untold
  <2>5. ledger[t].status = "canceled"
    <3>1. ASSUME NEW g \in Hosts, CancelTask(g, t) PROVE FALSE
      <4>1. g = h
        BY <2>1 DEF OneProcess
      <4>2. QED
        BY <2>1, <2>4, <3>1, <4>1 DEF CancelTask, CommitCommand
    <3>2. QED
      BY <1>1, <2>3, <2>4, <3>1, CanceledByCommand
  <2>6. notice[h] # cancel
    <3>1. SUFFICES ASSUME notice[h] = cancel PROVE FALSE
      OBVIOUS
    <3>2. notice[h] # NoNotice
      BY <3>1 DEF NoNotice
    <3>3. ~Notify(h)
      <4>1. SUFFICES ASSUME Notify(h) PROVE FALSE
        OBVIOUS
      <4> DEFINE hit == {v \in WorkersOf(h) : /\ notice[h].type = "cancel"
                                              /\ worker[v].task = notice[h].task}
      <4>2. w \in hit
        BY <3>1 DEF WorkersOf
      <4>3. worker' = SignalWork(h, CancelTokens(hit))
        BY <4>1 DEF Notify
      <4> HIDE DEF hit
      <4>4. CancelTokens(hit) \in [Workers -> Working]
        BY <2>1, CancelTyped
      <4>5. worker'[w].token = CancelTokens(hit)[w].token
        BY <4>3, <4>4, SignalTokens
      <4>6. QED
        BY <2>1, <2>2, <4>2, <4>5, CanceledTokens DEF LiveAt
    <3>4. ~Crash(h)
      <4>1. Crash(h) => worker'[w] = IdleWorker("off", FALSE)
        BY DEF Crash
      <4>2. QED
        BY <2>2, <4>1 DEF IdleWorker, LiveAt
    <3>5. \A g \in Hosts : g = h
      BY <2>1 DEF OneProcess
    <3>6. notice' = notice
      <4>1. ASSUME NEW v \in Workers, WorkerStep(v) \/ HandlerReturns(v) PROVE notice' = notice
        BY <2>1, <4>1, WorkerWalks
      <4>2. ASSUME NEW g \in Hosts, MainStep(g) \/ DeferralEnds(g) PROVE notice' = notice
        BY <3>3, <3>5, <4>2 DEF MainStep, CancelAllTokens, JoinAndRecover, DeferralEnds
      <4>3. ASSUME NEW g \in Hosts, Environment(g) PROVE notice' = notice
        BY <3>2, <3>4, <3>5, <4>3 DEF Environment, Start, RequestShutdown, RegisterHandler,
           UnregisterHandler, CreateTask, CancelTask, RetryTask, CommitCommand, MainIdle
      <4>4. QED
        BY <1>1, <4>1, <4>2, <4>3 DEF Next
    <3>7. QED
      BY <2>4, <3>1, <3>6
  <2>7. QED
    BY <2>2, <2>5, <2>6 DEF Untold, LiveAt
<1>2. IInv /\ [Next]_vars
         => [\A w \in Workers : Untold(w)' => Untold(w) \/ worker[w].pc = "claimed"]_vars
  BY <1>1
<1>3. QED
  BY <1>2, Invariance, PTL DEF Spec, CancelMissesOnlyUnregistered
===============================================================================
