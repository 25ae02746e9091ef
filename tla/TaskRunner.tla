------------------------------ MODULE TaskRunner ------------------------------
(***************************************************************************)
(* The worker pool of src-tauri/src/task_runner.rs over the task ledger,   *)
(* with the main thread that commits task commands and then notifies the   *)
(* pool (execute_task_command in lib.rs), start, shutdown and crash.       *)
(*                                                                         *)
(* A host is one process.  Nothing keeps a second one from opening the     *)
(* same database, so there may be several; each has its own workers, its   *)
(* own `running' map of cancellation tokens and its own wake state.        *)
(*                                                                         *)
(* A worker's step ends where it takes or releases a lock or commits to    *)
(* SQLite.  Its token is in the `running' map from RegisterToken until it  *)
(* is back at "draining", so the map is the workers' token fields.         *)
(***************************************************************************)
EXTENDS Naturals, FiniteSets

CONSTANTS
    Tasks, MaxBudget,
    Kinds, KindOf,      \* the task kinds, and the kind each task id gets
    Hosts,              \* processes over the one database
    Workers, HostOf,    \* worker threads, and the process each belongs to
    None,               \* no task
    NewTasks,           \* the <<policy, budget>> pairs of created tasks
    MaxStarts,          \* bound: process starts
    FallbackWake,       \* does wait_for_work time out (after 5 seconds)?
    StoreMayFail,       \* may a worker's call of the task engine fail?
    MayUnregister       \* does anyone call unregister_handler?

ASSUME RunnerAssumption ==
    /\ KindOf \in [Tasks -> Kinds] /\ HostOf \in [Workers -> Hosts]
    /\ None \notin Tasks /\ MaxStarts \in Nat /\ MaxBudget \in Nat \ {0}
    /\ NewTasks \subseteq {"safe", "manual", "never"} \X (1..MaxBudget)
    /\ {FallbackWake, StoreMayFail, MayUnregister} \subseteq BOOLEAN

(* A pool without workers is refused (MIN_WORKER_COUNT).                   *)
ASSUME WorkersAssumption == \A h \in Hosts : \E w \in Workers : HostOf[w] = h

VARIABLES
    ledger,     \* the tasks table, as TaskLedger sees it
    worker,     \* [pc, kinds, task, attempt, token, result, signal] of each
    phase,      \* of each host, see Phases
    notice,     \* of each host: a committed command not yet notified
    handlers,   \* of each host: the registered kinds
    deferred,   \* of each host: claims_deferred_until is unset, to come or past
    starts      \* process starts so far

vars == <<ledger, worker, phase, notice, handlers, deferred, starts>>

L == INSTANCE TaskLedger

(* down: never started; up; flagged: shutdown has set its flag; joining:   *)
(* it has canceled the tokens it found; stopped: joined and recovered;     *)
(* crashed: the process died.                                              *)
Phases == {"down", "up", "flagged", "joining", "stopped", "crashed"}

NoNotice == [type |-> "none", task |-> None]

IdleWorker(pc, signal) ==
    [pc |-> pc, kinds |-> {}, task |-> None, attempt |-> 0, token |-> "none",
     result |-> "none", signal |-> signal]

Init ==
    /\ L!Init
    /\ worker = [w \in Workers |-> IdleWorker("off", FALSE)]
    /\ phase = [h \in Hosts |-> "down"]
    /\ notice = [h \in Hosts |-> NoNotice]
    /\ handlers = [h \in Hosts |-> Kinds]
    /\ deferred = [h \in Hosts |-> "unset"]
    /\ starts = 0

WorkersOf(h) == {w \in Workers : HostOf[w] = h}

(* The shutdown flag is never cleared: a runner is not started again.      *)
ShuttingDown(h) == phase[h] \in {"flagged", "joining", "stopped"}

(* signal_work: a new generation, unless shutdown has begun.               *)
SignalWork(h, state) ==
    [w \in Workers |-> IF HostOf[w] = h /\ ~ShuttingDown(h)
                       THEN [state[w] EXCEPT !.signal = TRUE] ELSE state[w]]

-------------------------------------------------------------------------------
(***************************************************************************)
(* The worker thread: wait_for_work, drain_runnable_tasks and              *)
(* execute_claimed_task.                                                   *)
(***************************************************************************)
Goto(w, pc) == worker' = [worker EXCEPT ![w].pc = pc]

(* Mutants: only a signal ends the wait; shutdown does not end it.         *)
WaitForSignal(w) ==
    /\ worker[w].pc = "waiting"
    /\ IF ShuttingDown(HostOf[w])
       THEN worker' = [worker EXCEPT ![w] = IdleWorker("off", FALSE)]
       ELSE /\ worker[w].signal
            /\ worker' = [worker EXCEPT ![w].pc = "draining", ![w].signal = FALSE]
    /\ UNCHANGED <<ledger, phase, notice, handlers, deferred, starts>>

WaitThroughShutdown(w) ==
    /\ worker[w].pc = "waiting"
    /\ worker[w].signal \/ FallbackWake
    /\ worker' = [worker EXCEPT ![w].pc = "draining", ![w].signal = FALSE]
    /\ UNCHANGED <<ledger, phase, notice, handlers, deferred, starts>>

WaitForWork(w) ==
    /\ worker[w].pc = "waiting"
    /\ IF ShuttingDown(HostOf[w])
       THEN worker' = [worker EXCEPT ![w] = IdleWorker("off", FALSE)]
       ELSE /\ worker[w].signal \/ FallbackWake
            /\ worker' = [worker EXCEPT ![w].pc = "draining", ![w].signal = FALSE]
    /\ UNCHANGED <<ledger, phase, notice, handlers, deferred, starts>>

(* The kinds a worker asks for are those registered now, not at the claim. *)
(* A deferral that has passed is cleared by the first worker that looks.   *)
CheckBeforeClaim(w) ==
    LET h == HostOf[w] IN
    /\ worker[w].pc = "draining"
    /\ IF ShuttingDown(h) \/ deferred[h] = "to come" \/ handlers[h] = {}
       THEN Goto(w, "waiting")
       ELSE worker' = [worker EXCEPT ![w].pc = "claiming", ![w].kinds = handlers[h]]
    /\ deferred' = [deferred EXCEPT ![h] = IF ~ShuttingDown(h) /\ @ = "past" THEN "unset" ELSE @]
    /\ UNCHANGED <<ledger, phase, notice, handlers, starts>>

Claimable(t, kinds) == L!Runnable(t) /\ KindOf[t] \in kinds

(* The claim commits; the worker's token is not in the map yet.            *)
Claim(w, t) ==
    /\ worker[w].pc = "claiming"
    /\ Claimable(t, worker[w].kinds)
    /\ L!Claim(t)
    /\ worker' = [worker EXCEPT ![w].pc = "claimed", ![w].kinds = {}, ![w].task = t,
                                ![w].attempt = ledger[t].attempt + 1]
    /\ UNCHANGED <<phase, notice, handlers, deferred, starts>>

(* Nothing to claim, or the claim fails, is logged and rolls back.         *)
NothingToClaim(w) ==
    /\ worker[w].pc = "claiming"
    /\ StoreMayFail \/ \A t \in Tasks : ~Claimable(t, worker[w].kinds)
    /\ worker' = [worker EXCEPT ![w].pc = "waiting", ![w].kinds = {}]
    /\ UNCHANGED <<ledger, phase, notice, handlers, deferred, starts>>

(* The token enters the map and the handler is looked up.                  *)
RegisterToken(w) ==
    /\ worker[w].pc = "claimed"
    /\ worker' = [worker EXCEPT
          ![w].pc = IF KindOf[worker[w].task] \in handlers[HostOf[w]]
                    THEN "executing" ELSE "missing",
          ![w].token = "live"]
    /\ UNCHANGED <<ledger, phase, notice, handlers, deferred, starts>>

(* With no handler all claims of the host are deferred, even if one has    *)
(* been registered since, and the attempt is going to fail for good.       *)
DeferClaims(w) ==
    /\ worker[w].pc = "missing"
    /\ worker' = [worker EXCEPT ![w].pc = "returned", ![w].result = "missing"]
    /\ deferred' = [deferred EXCEPT ![HostOf[w]] = "to come"]
    /\ UNCHANGED <<ledger, phase, notice, handlers, starts>>

HandlerReturns(w) ==
    /\ worker[w].pc = "executing"
    /\ \E result \in {"ok", "retryable", "fatal"} :
          worker' = [worker EXCEPT ![w].pc = "returned", ![w].result = result]
    /\ UNCHANGED <<ledger, phase, notice, handlers, deferred, starts>>

OwnsAttempt(w) == L!Active(worker[w].task, worker[w].attempt)

(* The result of a canceled attempt, or one that ends during shutdown, is  *)
(* dropped; recovery settles the task.  A task that cannot be read counts  *)
(* as no longer this worker's.                                             *)
CheckBeforeFinish(w) ==
    /\ worker[w].pc = "returned"
    /\ \/ /\ ShuttingDown(HostOf[w]) \/ ~OwnsAttempt(w) \/ StoreMayFail
          /\ worker' = [worker EXCEPT ![w] = IdleWorker("draining", @.signal)]
       \/ /\ ~ShuttingDown(HostOf[w]) /\ OwnsAttempt(w)
          /\ Goto(w, "finishing")
    /\ UNCHANGED <<ledger, phase, notice, handlers, deferred, starts>>

(* The finish commits, or finds the attempt superseded (TASK_ATTEMPT_STALE *)
(* is ignored), or the write fails and is only logged.                     *)
Finish(w) ==
    LET t == worker[w].task
        a == worker[w].attempt
    IN  /\ worker[w].pc = "finishing"
        /\ Goto(w, "finished")
        /\ \/ /\ worker[w].result = "ok"
              /\ L!Succeed(t, a)
           \/ /\ worker[w].result # "ok"
              /\ L!Fail(t, a, worker[w].result = "retryable")
           \/ (~OwnsAttempt(w) \/ StoreMayFail) /\ UNCHANGED ledger
        /\ UNCHANGED <<phase, notice, handlers, deferred, starts>>

(* The token leaves the map and, unless the handler was missing, the other *)
(* workers are woken: a dependent may have become runnable.                *)
Release(w) ==
    /\ worker[w].pc = "finished"
    /\ LET released == [worker EXCEPT ![w] = IdleWorker("draining", @.signal)]
       IN  worker' = IF worker[w].result = "missing" THEN released
                     ELSE SignalWork(HostOf[w], released)
    /\ UNCHANGED <<ledger, phase, notice, handlers, deferred, starts>>

-------------------------------------------------------------------------------
(***************************************************************************)
(* The host's main thread.                                                 *)
(***************************************************************************)
MainIdle(h) == phase[h] = "up" /\ notice[h] = NoNotice

RecoverAll == ledger' = [t \in Tasks |-> L!InterruptedEntry(t)]

SetPhase(h, p) == phase' = [phase EXCEPT ![h] = p]

(* Mutant: the workers are started without recovering first.               *)
StartUnrecovered(h) ==
    /\ phase[h] \in {"down", "stopped", "crashed"}
    /\ starts < MaxStarts
    /\ starts' = starts + 1
    /\ SetPhase(h, "up")
    /\ worker' = [w \in Workers |->
                    IF HostOf[w] = h THEN IdleWorker("waiting", TRUE) ELSE worker[w]]
    /\ handlers' = [handlers EXCEPT ![h] = Kinds]
    /\ deferred' = [deferred EXCEPT ![h] = "unset"]
    /\ UNCHANGED <<ledger, notice>>

(* Mutant: start does not notice that it has started already.              *)
StartAgain(h) ==
    /\ ~ShuttingDown(h) \/ phase[h] = "stopped"
    /\ starts < MaxStarts
    /\ starts' = starts + 1
    /\ RecoverAll
    /\ SetPhase(h, "up")
    /\ worker' = [w \in Workers |->
                    IF HostOf[w] = h /\ phase[h] # "up" THEN IdleWorker("waiting", TRUE)
                    ELSE worker[w]]
    /\ UNCHANGED <<notice, handlers, deferred>>

(* A process starts: every running task is recovered before any worker     *)
(* exists, and the workers begin with a generation they have not seen.     *)
Start(h) ==
    /\ phase[h] \in {"down", "stopped", "crashed"}
    /\ starts < MaxStarts
    /\ starts' = starts + 1
    /\ RecoverAll
    /\ SetPhase(h, "up")
    /\ worker' = [w \in Workers |->
                    IF HostOf[w] = h THEN IdleWorker("waiting", TRUE) ELSE worker[w]]
    /\ handlers' = [handlers EXCEPT ![h] = Kinds]
    /\ deferred' = [deferred EXCEPT ![h] = "unset"]
    /\ UNCHANGED notice

(* execute_task_command commits, and only then notifies the runner.        *)
CommitCommand(h, type, t) ==
    /\ MainIdle(h)
    /\ notice' = [notice EXCEPT ![h] = [type |-> type, task |-> t]]
    /\ UNCHANGED <<worker, phase, handlers, deferred, starts>>

CreateTask(h, t) ==
    /\ \E p \in NewTasks, deps \in SUBSET (Tasks \ {t}) : L!Create(t, p[1], p[2], deps)
    /\ CommitCommand(h, "create", t)

CancelTask(h, t) == L!Cancel(t) /\ CommitCommand(h, "cancel", t)

RetryTask(h, t) == L!Retry(t) /\ CommitCommand(h, "retry", t)

CancelTokens(ws) ==
    [w \in Workers |-> IF w \in ws /\ worker[w].token = "live"
                       THEN [worker[w] EXCEPT !.token = "canceled"] ELSE worker[w]]

(* Mutants: the notification only looks at cancellations; a cancellation   *)
(* reaches one of the attempts in the map.                                 *)
NotifyCancelOnly(h) ==
    /\ notice[h] # NoNotice
    /\ worker' = CancelTokens({w \in WorkersOf(h) : /\ notice[h].type = "cancel"
                                                    /\ worker[w].task = notice[h].task})
    /\ notice' = [notice EXCEPT ![h] = NoNotice]
    /\ UNCHANGED <<ledger, phase, handlers, deferred, starts>>

NotifyOneAttempt(h) ==
    /\ notice[h] # NoNotice
    /\ LET hit == {w \in WorkersOf(h) : /\ notice[h].type = "cancel"
                                        /\ worker[w].task = notice[h].task}
       IN  \E told \in SUBSET hit :
              /\ Cardinality(told) <= 1 /\ (told = {} => hit = {})
              /\ worker' = SignalWork(h, CancelTokens(told))
    /\ notice' = [notice EXCEPT ![h] = NoNotice]
    /\ UNCHANGED <<ledger, phase, handlers, deferred, starts>>

(* notify_event: a cancellation cancels the tokens the `running' map holds *)
(* for the task; every kind of command wakes the workers.                  *)
Notify(h) ==
    /\ notice[h] # NoNotice
    /\ LET hit == {w \in WorkersOf(h) : /\ notice[h].type = "cancel"
                                        /\ worker[w].task = notice[h].task}
       IN  worker' = SignalWork(h, CancelTokens(hit))
    /\ notice' = [notice EXCEPT ![h] = NoNotice]
    /\ UNCHANGED <<ledger, phase, handlers, deferred, starts>>

(* register_handler ends a deferral and wakes the workers.                 *)
RegisterHandler(h, kind) ==
    /\ MainIdle(h)
    /\ kind \notin handlers[h]
    /\ handlers' = [handlers EXCEPT ![h] = @ \cup {kind}]
    /\ deferred' = [deferred EXCEPT ![h] = "unset"]
    /\ worker' = SignalWork(h, worker)
    /\ UNCHANGED <<ledger, phase, notice, starts>>

UnregisterHandler(h, kind) ==
    /\ MayUnregister
    /\ MainIdle(h)
    /\ kind \in handlers[h]
    /\ handlers' = [handlers EXCEPT ![h] = @ \ {kind}]
    /\ UNCHANGED <<ledger, worker, phase, notice, deferred, starts>>

(* The back-off of five seconds has passed; nobody is woken.               *)
DeferralEnds(h) ==
    /\ deferred[h] = "to come"
    /\ deferred' = [deferred EXCEPT ![h] = "past"]
    /\ UNCHANGED <<ledger, worker, phase, notice, handlers, starts>>

(* shutdown: set the flag, cancel the tokens in the map, join, recover.    *)
RequestShutdown(h) ==
    /\ MainIdle(h)
    /\ SetPhase(h, "flagged")
    /\ UNCHANGED <<ledger, worker, notice, handlers, deferred, starts>>

CancelAllTokens(h) ==
    /\ phase[h] = "flagged"
    /\ SetPhase(h, "joining")
    /\ worker' = CancelTokens(WorkersOf(h))
    /\ UNCHANGED <<ledger, notice, handlers, deferred, starts>>

(* Mutant: shutdown ends without recovery.                                 *)
JoinUnrecovered(h) ==
    /\ phase[h] = "joining"
    /\ \A w \in WorkersOf(h) : worker[w].pc = "off"
    /\ SetPhase(h, "stopped")
    /\ UNCHANGED <<ledger, worker, notice, handlers, deferred, starts>>

JoinAndRecover(h) ==
    /\ phase[h] = "joining"
    /\ \A w \in WorkersOf(h) : worker[w].pc = "off"
    /\ SetPhase(h, "stopped")
    /\ RecoverAll
    /\ UNCHANGED <<worker, notice, handlers, deferred, starts>>

(* The process dies: its threads, its map and its notices are gone.  A     *)
(* shutdown whose recovery fails ends the same way.                        *)
Crash(h) ==
    /\ phase[h] \in {"up", "flagged", "joining"}
    /\ SetPhase(h, "crashed")
    /\ worker' = [w \in Workers |->
                    IF HostOf[w] = h THEN IdleWorker("off", FALSE) ELSE worker[w]]
    /\ notice' = [notice EXCEPT ![h] = NoNotice]
    /\ UNCHANGED <<ledger, handlers, deferred, starts>>

-------------------------------------------------------------------------------
WorkerStep(w) ==
    \/ WaitForWork(w) \/ CheckBeforeClaim(w)
    \/ (\E t \in Tasks : Claim(w, t)) \/ NothingToClaim(w)
    \/ RegisterToken(w) \/ DeferClaims(w) \/ CheckBeforeFinish(w) \/ Finish(w)
    \/ Release(w)

MainStep(h) == Notify(h) \/ CancelAllTokens(h) \/ JoinAndRecover(h)

Environment(h) ==
    \/ Start(h) \/ RequestShutdown(h) \/ Crash(h)
    \/ \E t \in Tasks : CreateTask(h, t) \/ CancelTask(h, t) \/ RetryTask(h, t)
    \/ \E kind \in Kinds : RegisterHandler(h, kind) \/ UnregisterHandler(h, kind)

Next ==
    \/ \E w \in Workers : WorkerStep(w) \/ HandlerReturns(w)
    \/ \E h \in Hosts : MainStep(h) \/ DeferralEnds(h) \/ Environment(h)

Spec == Init /\ [][Next]_vars

(* Threads are scheduled, back-offs end, the main thread finishes what it  *)
(* began, handlers return (media work runs under a deadline), and a claim  *)
(* that is tried again and again does not fail for ever.                   *)
Fairness ==
    /\ \A w \in Workers : /\ WF_vars(WorkerStep(w)) /\ WF_vars(HandlerReturns(w))
                         /\ SF_vars(\E t \in Tasks : Claim(w, t))
    /\ \A h \in Hosts : WF_vars(MainStep(h)) /\ WF_vars(DeferralEnds(h))

FairSpec == Spec /\ Fairness

-------------------------------------------------------------------------------
(***************************************************************************)
(* Properties.                                                             *)
(***************************************************************************)
PCs == {"off", "waiting", "draining", "claiming", "claimed", "missing",
        "executing", "returned", "finishing", "finished"}

Working ==
    [pc : PCs, kinds : SUBSET Kinds, task : Tasks \cup {None}, attempt : Nat,
     token : {"none", "live", "canceled"},
     result : {"none", "ok", "retryable", "fatal", "missing"}, signal : BOOLEAN]

(* Every variable holds a value of its type.                               *)
TypeOK ==
    /\ ledger \in [Tasks -> L!Entry]
    /\ worker \in [Workers -> Working]
    /\ phase \in [Hosts -> Phases]
    /\ notice \in [Hosts -> [type : {"none", "create", "cancel", "retry"},
                             task : Tasks \cup {None}]]
    /\ handlers \in [Hosts -> SUBSET Kinds]
    /\ deferred \in [Hosts -> {"unset", "to come", "past"}]
    /\ starts \in 0..MaxStarts

Holds(w, t) == worker[w].task = t /\ worker[w].pc \in {"claimed", "executing"}

(* A task has at most one handler: a failed, retried or recovered task is  *)
(* not handed to a second worker while the first is still at it.           *)
OneHandlerPerTask ==
    \A w1, w2 \in Workers, t \in Tasks : Holds(w1, t) /\ Holds(w2, t) => w1 = w2

(* While a host is up, a task the ledger calls running has a worker that   *)
(* will still report on that attempt.                                      *)
RunningHasOwner ==
    \A t \in Tasks :
        (\E h \in Hosts : phase[h] = "up") /\ ledger[t].status = "running" =>
            \E w \in Workers :
                /\ worker[w].task = t /\ worker[w].attempt = ledger[t].attempt
                /\ worker[w].pc \in {"claimed", "missing", "executing", "returned", "finishing"}

(* After an orderly shutdown nothing is left running in the ledger.        *)
StoppedLeavesNothingRunning ==
    (\A h \in Hosts : phase[h] \in {"down", "stopped"}) =>
        \A t \in Tasks : ledger[t].status # "running"

(* The outcome of an attempt is written only when its own handler is done: *)
(* a worker of an earlier attempt, interrupted by another process that     *)
(* opened the database, never settles the attempt another worker runs.     *)
OutcomeFromOwnHandler ==
    \A w \in Workers : worker[w].pc \in {"claimed", "executing"} =>
        LET t == worker[w].task IN
        ledger[t].attempt = worker[w].attempt
            => ledger[t].status \notin {"succeeded", "failed"}

(* A handler works for a canceled task, its token is live and no           *)
(* notification of the cancellation is on its way.                         *)
Untold(w) ==
    /\ worker[w].pc = "executing" /\ worker[w].token = "live"
    /\ ledger[worker[w].task].status = "canceled"
    /\ notice[HostOf[w]] # [type |-> "cancel", task |-> worker[w].task]

(* A cancellation reaches every handler of the process, whatever else is   *)
(* committed, finished or recovered in between: a handler can miss it only *)
(* if its token was not in the map yet when it was notified.               *)
CancelMissesOnlyUnregistered ==
    [][\A w \in Workers : Untold(w)' => Untold(w) \/ worker[w].pc = "claimed"]_vars

(* No wake-up is lost: when the main thread has notified and every worker  *)
(* sleeps without a signal, there is nothing they could claim.  The five   *)
(* second fallback is needed only to end a deferral that has passed.       *)
NoLostWakeup ==
    \A h \in Hosts :
        /\ MainIdle(h) /\ deferred[h] = "unset"
        /\ \A w \in WorkersOf(h) : worker[w].pc = "waiting" /\ ~worker[w].signal
        => \A t \in Tasks : ~Claimable(t, handlers[h])

(* Runnable work that some host has a handler for does not wait forever    *)
(* while that host is up.                                                  *)
Waits(t, h) == phase[h] = "up" /\ Claimable(t, handlers[h])

RunnableIsClaimed ==
    \A h \in Hosts, t \in Tasks : Waits(t, h) ~> ~Waits(t, h)

(* A shutdown, once requested, comes to its end (or the process dies).     *)
ShutdownEnds == \A h \in Hosts :
    phase[h] = "flagged" ~> phase[h] \in {"stopped", "crashed"}

(* The pool changes the ledger only as the task engine allows.             *)
KeepsLedger == L!Spec
===============================================================================
