-------------------------- MODULE BackupWorkerProofs --------------------------
(***************************************************************************)
(* The upload thread of r2_backup.rs, for any number of processes and      *)
(* assets: it stays within the backup ledger, and no upload settles the    *)
(* row under another one.  The argument is the usual one for a fencing     *)
(* token: an upload holds the revision its claim has written, the row is   *)
(* never behind it, and no two uploads of an asset hold the same.          *)
(***************************************************************************)
EXTENDS BackupWorker, FiniteSetTheorems, SequenceTheorems, TLAPS

IsBusy(h) == uploader[h].pc \in Busy

Fenced ==
    \A h \in Hosts : IsBusy(h) =>
        LET a == uploader[h].asset IN
        /\ a \in Assets
        /\ uploader[h].revision <= backup[a].revision
        /\ uploader[h].revision = backup[a].revision => backup[a].state = "uploading"

TokensDiffer ==
    \A g, h \in Hosts :
        g # h /\ IsBusy(g) /\ IsBusy(h) /\ uploader[g].asset = uploader[h].asset
            => uploader[g].revision # uploader[h].revision

IInv == TypeOK /\ Fenced /\ TokensDiffer /\ OutcomeFromOwnUpload

-------------------------------------------------------------------------------
(***************************************************************************)
(* Types.                                                                  *)
(***************************************************************************)
LEMMA InitTyped == Init => TypeOK
  BY WorkerAssumption
     DEF Init, TypeOK, L!Init, L!Entry, L!States, At, NoNotice, PCs, Phases, Command

(* The operations of the ledger keep its rows typed.                       *)
LEMMA LedgerTyped ==
  ASSUME backup \in [Assets -> L!Entry], NEW a \in Assets,
         NEW state \in L!States, L!Become(a, state)
  PROVE  backup' \in [Assets -> L!Entry]
  BY DEF L!Become, L!Entry

LEMMA RecoverTyped ==
  ASSUME backup \in [Assets -> L!Entry], Recover
  PROVE  backup' \in [Assets -> L!Entry]
  BY DEF Recover, L!Recover, L!RecoveredEntry, L!Entry, L!States

Uploaders ==
    [Hosts -> [pc : PCs, asset : Assets \cup {None}, revision : Nat,
               token : {"none", "live", "canceled"},
               result : {"none", "stored", "error", "cancelled"}]]

(* What a step of the upload thread may leave in its own place.            *)
LEMMA SetTyped ==
  ASSUME TypeOK, NEW h \in Hosts, NEW state, Set(h, state),
         state \in [pc : PCs, asset : Assets \cup {None}, revision : Nat,
                    token : {"none", "live", "canceled"},
                    result : {"none", "stored", "error", "cancelled"}],
         backup' \in [Assets -> L!Entry], wake' \in [Hosts -> BOOLEAN]
  PROVE  TypeOK'
  BY DEF Set, TypeOK

LEMMA UploaderTyped ==
  ASSUME TypeOK, NEW h \in Hosts, UploaderStep(h)
  PROVE  TypeOK'
<1> USE DEF PCs
<1>1. uploader[h] \in [pc : PCs, asset : Assets \cup {None}, revision : Nat,
                       token : {"none", "live", "canceled"},
                       result : {"none", "stored", "error", "cancelled"}]
  BY DEF TypeOK
<1>2. CASE CheckShutdown(h)
  BY <1>1, <1>2, SetTyped DEF CheckShutdown, Goto, TypeOK
<1>3. CASE Claim(h)
  <2>1. PICK a \in Assets :
           /\ L!Claim(a)
           /\ Set(h, [At("claimed") EXCEPT !.asset = a, !.revision = backup[a].revision + 1])
    BY <1>3 DEF Claim
  <2>2. backup' \in [Assets -> L!Entry]
    BY <2>1, LedgerTyped DEF L!Claim, L!States, TypeOK
  <2>3. backup[a].revision + 1 \in Nat
    BY DEF TypeOK, L!Entry
  <2>4. wake' \in [Hosts -> BOOLEAN]
    BY <1>3 DEF Claim, TypeOK
  <2>5. QED
    BY <2>1, <2>2, <2>3, <2>4, SetTyped DEF At
<1>4. CASE NothingToClaim(h)
  BY <1>1, <1>4, SetTyped DEF NothingToClaim, Goto, TypeOK
<1>5. CASE RegisterUpload(h)
  BY <1>1, <1>5, SetTyped DEF RegisterUpload, TypeOK
<1>6. CASE EnterMap(h)
  BY <1>1, <1>6, SetTyped DEF EnterMap, Goto, TypeOK
<1>7. CASE UploadEnds(h)
  BY <1>1, <1>7, SetTyped DEF UploadEnds, TypeOK
<1>8. CASE CheckClaim(h)
  BY <1>1, <1>8, SetTyped DEF CheckClaim, Goto, At, TypeOK
<1>9. CASE Mark(h)
  <2>1. ASSUME NEW a, NEW r, L!MarkBackedUp(a, r) \/ L!MarkFailed(a, r), a \in Assets
        PROVE  backup' \in [Assets -> L!Entry]
    BY <2>1, LedgerTyped DEF L!MarkBackedUp, L!MarkFailed, L!States, TypeOK
  <2>2. CASE uploader[h].asset \in Assets
    BY <1>9, <2>1, <2>2, SetTyped DEF Mark, At, TypeOK
  <2>3. CASE uploader[h].asset \notin Assets
    <3>1. backup' = backup
      BY <1>9, <2>3 DEF Mark, L!MarkBackedUp, L!MarkFailed, L!Become, TypeOK
    <3>2. QED
      BY <1>9, <3>1, SetTyped DEF Mark, At, TypeOK
  <2>4. QED
    BY <2>2, <2>3
<1>10. CASE OutboxError(h)
  BY <1>10, SetTyped DEF OutboxError, At, TypeOK
<1>11. CASE Wait(h)
  BY <1>11, SetTyped DEF Wait, At, TypeOK
<1>12. QED
  BY <1>2, <1>3, <1>4, <1>5, <1>6, <1>7, <1>8, <1>9, <1>10, <1>11 DEF UploaderStep

LEMMA MainTyped ==
  ASSUME TypeOK, NEW h \in Hosts, MainStep(h)
  PROVE  TypeOK'
<1>1. CancelToken(h) \in Uploaders
  BY DEF CancelToken, Uploaders, TypeOK
<1>2. CASE Signal(h)
  <2>1. uploader' \in Uploaders
    BY <1>1, <1>2 DEF Signal, Uploaders, TypeOK
  <2>2. QED
    BY <1>2, <2>1 DEF Signal, Uploaders, TypeOK
<1>3. CASE CancelActive(h)
  BY <1>1, <1>3 DEF CancelActive, SetPhase, Uploaders, TypeOK, Phases
<1>4. CASE Join(h)
  BY <1>4 DEF Join, SetPhase, TypeOK, Phases
<1>5. QED
  BY <1>2, <1>3, <1>4 DEF MainStep

LEMMA EnvironmentTyped ==
  ASSUME TypeOK, NEW h \in Hosts, Environment(h)
  PROVE  TypeOK'
<1>1. CASE Start(h)
  BY <1>1, RecoverTyped, WorkerAssumption DEF Start, SetPhase, At, TypeOK, Phases, PCs
<1>2. CASE Reopen(h)
  BY <1>2, RecoverTyped DEF Reopen, TypeOK
<1>3. CASE RequestShutdown(h)
  BY <1>3 DEF RequestShutdown, SetPhase, TypeOK, Phases
<1>4. CASE Crash(h)
  BY <1>4 DEF Crash, SetPhase, At, TypeOK, Phases, PCs, NoNotice
<1>5. ASSUME NEW a \in Assets, QueueSilently(h, a) PROVE TypeOK'
  BY <1>5, LedgerTyped DEF QueueSilently, L!Queue, L!States, TypeOK
<1>6. ASSUME NEW a \in Assets, NEW type \in {"queue", "retry", "cancel"},
             Execute(h, type, a)
      PROVE  TypeOK'
  <2>1. backup' \in [Assets -> L!Entry]
    <3>1. CASE Changes(type, a)
      BY <3>1, LedgerTyped DEF Changes, L!Queue, L!Retry, L!Cancel, L!States, TypeOK
    <3>2. CASE UNCHANGED <<backup, line>>
      BY <3>2 DEF TypeOK
    <3>3. QED
      BY <1>6, <3>1, <3>2 DEF Execute
  <2>2. [type |-> type, asset |-> a] \in Command
    BY DEF Command
  <2>3. QED
    BY <1>6, <2>1, <2>2 DEF Execute, TypeOK
<1>7. QED
  BY <1>1, <1>2, <1>3, <1>4, <1>5, <1>6 DEF Environment

LEMMA StepTyped == TypeOK /\ [Next]_vars => TypeOK'
<1> SUFFICES ASSUME TypeOK, [Next]_vars PROVE TypeOK'
  OBVIOUS
<1>1. ASSUME NEW a \in Assets, BackoffEnds(a) PROVE TypeOK'
  BY <1>1 DEF BackoffEnds, TypeOK
<1>2. CASE UNCHANGED vars
  BY <1>2 DEF vars, TypeOK
<1>3. QED
  BY <1>1, <1>2, UploaderTyped, MainTyped, EnvironmentTyped DEF Next

(* Rows, uploads and commands stay within their types.                     *)
THEOREM TypeCorrect == Spec => []TypeOK
  BY InitTyped, StepTyped, PTL DEF Spec

-------------------------------------------------------------------------------
(***************************************************************************)
(* Fencing.  Most steps start no upload and settle no row; only Claim and  *)
(* Mark do either.                                                         *)
(***************************************************************************)
Rides(h) ==
    IsBusy(h)' => /\ IsBusy(h)
                  /\ uploader'[h].asset = uploader[h].asset
                  /\ uploader'[h].revision = uploader[h].revision

RowMoves(a) ==
    \/ backup'[a] = backup[a]
    \/ /\ backup'[a].revision = backup[a].revision + 1
       /\ backup'[a].state \notin {"backedUp", "failed"}

Unsettling == (\A h \in Hosts : Rides(h)) /\ (\A a \in Assets : RowMoves(a))

LEMMA UnsettlingKeeps ==
  ASSUME IInv, TypeOK', Unsettling
  PROVE  IInv'
<1> USE DEF Unsettling, Rides, RowMoves, IInv, IsBusy
<1>1. \A a \in Assets : backup[a].revision \in Nat /\ backup'[a].revision \in Nat
  BY DEF TypeOK, L!Entry
<1>2. \A h \in Hosts : uploader[h].revision \in Nat
  BY DEF TypeOK
<1>3. Fenced'
  BY <1>1, <1>2 DEF Fenced
<1>4. TokensDiffer'
  BY DEF TokensDiffer
<1>5. OutcomeFromOwnUpload'
  BY <1>1, <1>2 DEF OutcomeFromOwnUpload, Fenced
<1>6. QED
  BY <1>3, <1>4, <1>5

LEMMA ClaimKeeps ==
  ASSUME IInv, TypeOK', NEW h \in Hosts, Claim(h)
  PROVE  IInv'
<1> USE DEF IInv, IsBusy
<1>1. PICK a \in Assets :
         /\ L!Claim(a)
         /\ Set(h, [At("claimed") EXCEPT !.asset = a, !.revision = backup[a].revision + 1])
  BY DEF Claim
<1>2. /\ backup'[a] = [state |-> "uploading", revision |-> backup[a].revision + 1]
      /\ \A b \in Assets \ {a} : backup'[b] = backup[b]
      /\ backup[a].revision \in Nat
  BY <1>1 DEF L!Claim, L!Become, TypeOK, L!Entry
<1>3. /\ uploader'[h].asset = a /\ uploader'[h].revision = backup[a].revision + 1
      /\ \A g \in Hosts \ {h} : uploader'[g] = uploader[g]
      /\ \A g \in Hosts : uploader[g].revision \in Nat
  BY <1>1 DEF Set, At, TypeOK
<1>4. Fenced'
  <2> SUFFICES ASSUME NEW g \in Hosts, IsBusy(g)'
               PROVE  LET b == uploader'[g].asset IN
                      /\ b \in Assets
                      /\ uploader'[g].revision <= backup'[b].revision
                      /\ uploader'[g].revision = backup'[b].revision
                            => backup'[b].state = "uploading"
    BY DEF Fenced
  <2>1. CASE g = h
    BY <1>2, <1>3, <2>1
  <2>2. CASE g # h
    BY <1>2, <1>3, <2>2 DEF Fenced
  <2>3. QED
    BY <2>1, <2>2
<1>5. TokensDiffer'
  BY <1>2, <1>3 DEF TokensDiffer, Fenced
<1>6. OutcomeFromOwnUpload'
  BY <1>2, <1>3, <1>4 DEF OutcomeFromOwnUpload, Fenced
<1>7. QED
  BY <1>4, <1>5, <1>6

LEMMA MarkKeeps ==
  ASSUME IInv, TypeOK', NEW h \in Hosts, Mark(h)
  PROVE  IInv'
<1> USE DEF IInv, IsBusy
<1> DEFINE a == uploader[h].asset
           r == uploader[h].revision
<1>1. a \in Assets /\ r \in Nat
  BY DEF Mark, Fenced, Busy, TypeOK
<1>2. /\ backup[a].revision = r /\ backup[a].state = "uploading"
      /\ backup'[a].revision = r + 1
      /\ \A b \in Assets \ {a} : backup'[b] = backup[b]
  BY <1>1 DEF Mark, L!MarkBackedUp, L!MarkFailed, L!Owns, L!Become, TypeOK
<1>3. /\ uploader'[h].pc = "top"
      /\ \A g \in Hosts \ {h} : uploader'[g] = uploader[g]
      /\ \A g \in Hosts : uploader[g].revision \in Nat
  BY DEF Mark, Set, At, TypeOK
<1>4. \A g \in Hosts \ {h} :
         IsBusy(g) /\ uploader[g].asset = a => uploader[g].revision < r
  BY <1>1, <1>2, <1>3 DEF Fenced, TokensDiffer, Mark, Busy
<1>5. Fenced'
  BY <1>1, <1>2, <1>3, <1>4 DEF Fenced, Busy
<1>6. TokensDiffer'
  BY <1>3 DEF TokensDiffer, Busy
<1>7. OutcomeFromOwnUpload'
  BY <1>1, <1>2, <1>3, <1>4 DEF OutcomeFromOwnUpload, Fenced, Busy
<1>8. QED
  BY <1>5, <1>6, <1>7

LEMMA SetRides ==
  ASSUME TypeOK, NEW h \in Hosts, NEW state, Set(h, state),
         state.pc \in Busy => /\ IsBusy(h) /\ state.asset = uploader[h].asset
                              /\ state.revision = uploader[h].revision
  PROVE  \A g \in Hosts : Rides(g)
  BY DEF Set, Rides, IsBusy, TypeOK

LEMMA RecoverUnsettles ==
  ASSUME TypeOK, Recover
  PROVE  \A a \in Assets : RowMoves(a)
  BY DEF Recover, L!Recover, L!RecoveredEntry, RowMoves

LEMMA UploaderFenced ==
  ASSUME IInv, TypeOK', NEW h \in Hosts, UploaderStep(h)
  PROVE  IInv'
<1>1. CASE Claim(h)
  BY <1>1, ClaimKeeps
<1>2. CASE Mark(h)
  BY <1>2, MarkKeeps
<1>3. ASSUME \/ CheckShutdown(h) \/ NothingToClaim(h) \/ RegisterUpload(h) \/ EnterMap(h)
             \/ UploadEnds(h) \/ CheckClaim(h) \/ OutboxError(h) \/ Wait(h)
      PROVE  IInv'
  <2>1. backup' = backup
    BY <1>3 DEF CheckShutdown, NothingToClaim, RegisterUpload, EnterMap, UploadEnds,
                CheckClaim, OutboxError, Wait
  <2>2. \A g \in Hosts : Rides(g)
    <3>1. CASE CheckShutdown(h) \/ NothingToClaim(h)
      BY <3>1, SetRides DEF IInv, Busy, Goto, CheckShutdown, NothingToClaim, TypeOK
    <3>2. CASE RegisterUpload(h) \/ EnterMap(h)
      BY <3>2, SetRides DEF IInv, IsBusy, Busy, Goto, RegisterUpload, EnterMap, TypeOK
    <3>3. CASE UploadEnds(h)
      BY <3>3, SetRides DEF IInv, IsBusy, Busy, UploadEnds, TypeOK
    <3>4. CASE CheckClaim(h)
      BY <3>4, SetRides DEF IInv, IsBusy, Busy, Goto, At, CheckClaim, TypeOK
    <3>5. CASE OutboxError(h) \/ Wait(h)
      BY <3>5, SetRides DEF IInv, Busy, At, OutboxError, Wait
    <3>6. QED
      BY <1>3, <3>1, <3>2, <3>3, <3>4, <3>5
  <2>3. QED
    BY <2>1, <2>2, UnsettlingKeeps DEF Unsettling, RowMoves
<1>4. QED
  BY <1>1, <1>2, <1>3 DEF UploaderStep

LEMMA MainFenced ==
  ASSUME IInv, TypeOK', NEW h \in Hosts, MainStep(h)
  PROVE  IInv'
<1>1. backup' = backup
  BY DEF MainStep, Signal, CancelActive, Join
<1>2. \A g \in Hosts : Rides(g)
  <2>1. CASE uploader' = uploader
    BY <2>1 DEF Rides, IsBusy
  <2>2. CASE uploader' = CancelToken(h)
    BY <2>2 DEF IInv, TypeOK, Rides, IsBusy, CancelToken
  <2>3. QED
    BY <2>1, <2>2 DEF MainStep, Signal, CancelActive, Join
<1>3. QED
  BY <1>1, <1>2, UnsettlingKeeps DEF Unsettling, RowMoves

LEMMA EnvironmentFenced ==
  ASSUME IInv, TypeOK', NEW h \in Hosts, Environment(h)
  PROVE  IInv'
<1> USE DEF IInv
<1>1. \A g \in Hosts : Rides(g)
  BY DEF TypeOK, Rides, IsBusy, Busy, Environment, Start, Reopen, RequestShutdown, Crash,
         QueueSilently, Execute, At
<1>2. \A a \in Assets : RowMoves(a)
  <2>1. CASE Start(h) \/ Reopen(h)
    BY <2>1, RecoverUnsettles DEF Start, Reopen
  <2>2. CASE RequestShutdown(h) \/ Crash(h)
    BY <2>2 DEF RequestShutdown, Crash, RowMoves
  <2>3. ASSUME NEW a \in Assets, NEW state \in {"queued", "cancelled"}, L!Become(a, state)
        PROVE  \A b \in Assets : RowMoves(b)
    BY <2>3 DEF L!Become, RowMoves, TypeOK
  <2>4. ASSUME NEW a \in Assets, QueueSilently(h, a) PROVE \A b \in Assets : RowMoves(b)
    BY <2>3, <2>4 DEF QueueSilently, L!Queue
  <2>5. ASSUME NEW a \in Assets, NEW type \in {"queue", "retry", "cancel"},
               Execute(h, type, a)
        PROVE  \A b \in Assets : RowMoves(b)
    <3>1. CASE Changes(type, a)
      BY <2>3, <3>1 DEF Changes, L!Queue, L!Retry, L!Cancel
    <3>2. CASE UNCHANGED backup
      BY <3>2 DEF RowMoves
    <3>3. QED
      BY <2>5, <3>1, <3>2 DEF Execute
  <2>6. QED
    BY <2>1, <2>2, <2>4, <2>5 DEF Environment
<1>3. QED
  BY <1>1, <1>2, UnsettlingKeeps DEF Unsettling

(* The fencing invariant, for any number of processes.                     *)
THEOREM Invariance == Spec => []IInv
<1>1. Init => IInv
  BY InitTyped DEF IInv, Init, At, Fenced, TokensDiffer, OutcomeFromOwnUpload, IsBusy, Busy
<1>2. IInv /\ [Next]_vars => IInv'
  <2> SUFFICES ASSUME IInv, [Next]_vars PROVE IInv'
    OBVIOUS
  <2>1. TypeOK'
    BY StepTyped DEF IInv
  <2>2. CASE UNCHANGED vars \/ \E a \in Assets : BackoffEnds(a)
    BY <2>1, <2>2, UnsettlingKeeps DEF vars, BackoffEnds, Unsettling, Rides, RowMoves, IsBusy
  <2>3. QED
    BY <2>1, <2>2, UploaderFenced, MainFenced, EnvironmentFenced DEF Next
<1>3. QED
  BY <1>1, <1>2, PTL DEF Spec

(* No upload is settled by another one: an upload that was cancelled or    *)
(* recovered never writes the outcome of the upload that replaced it.      *)
THEOREM OutcomesOwned == Spec => []OutcomeFromOwnUpload
<1>1. IInv => OutcomeFromOwnUpload
  BY DEF IInv
<1>2. QED
  BY <1>1, Invariance, PTL

-------------------------------------------------------------------------------
LEMMA LedgerStep == TypeOK /\ [Next]_vars => [L!Next]_backup
<1> SUFFICES ASSUME TypeOK, [Next]_vars PROVE L!Next \/ UNCHANGED backup
  BY DEF L!Next
<1>1. ASSUME NEW h \in Hosts, UploaderStep(h) PROVE L!Next \/ UNCHANGED backup
  <2>1. CASE Claim(h)
    BY <2>1 DEF Claim, L!Next
  <2>2. CASE Mark(h)
    <3>1. CASE uploader[h].asset \in Assets
      BY <2>2, <3>1 DEF Mark, L!MarkBackedUp, L!MarkFailed, L!Owns, L!Next
    <3>2. CASE uploader[h].asset \notin Assets
      BY <2>2, <3>2 DEF Mark, L!MarkBackedUp, L!MarkFailed, L!Become, TypeOK
    <3>3. QED
      BY <3>1, <3>2
  <2>3. QED
    BY <1>1, <2>1, <2>2 DEF UploaderStep, CheckShutdown, NothingToClaim, RegisterUpload,
         EnterMap, UploadEnds, CheckClaim, OutboxError, Wait
<1>2. ASSUME NEW h \in Hosts, MainStep(h) PROVE UNCHANGED backup
  BY <1>2 DEF MainStep, Signal, CancelActive, Join
<1>3. ASSUME NEW h \in Hosts, Environment(h) PROVE L!Next \/ UNCHANGED backup
  BY <1>3 DEF Environment, Start, Reopen, Recover, RequestShutdown, Crash, QueueSilently,
       Execute, Changes, L!Next
<1>4. QED
  BY <1>1, <1>2, <1>3 DEF Next, BackoffEnds, vars

(* The thread, its commands and its reviews stay within the backup ledger. *)
THEOREM StaysInLedger == Spec => KeepsLedger
<1>1. Init => L!Init
  BY DEF Init
<1>2. QED
  BY <1>1, LedgerStep, TypeCorrect, PTL DEF Spec, KeepsLedger, L!Spec

-------------------------------------------------------------------------------
(***************************************************************************)
(* One process over the database, whose clients send no command twice: a   *)
(* cancellation that has been committed stays so until it is signalled,    *)
(* and an upload that has been told to give up has lost its row.           *)
(***************************************************************************)
OneProcess == \A g, h \in Hosts : g = h

NoticeDurable ==
    \A h \in Hosts : notice[h].type = "cancel" => backup[notice[h].asset].state = "cancelled"

ToldIsDisowned ==
    \A h \in Hosts :
        (/\ phase[h] = "up" /\ IsBusy(h)
         /\ uploader[h].token = "canceled" \/ uploader[h].result = "cancelled")
            => ~StillOwnsClaim(h)

RowSteps(a) ==
    \/ backup'[a] = backup[a]
    \/ backup'[a].revision = backup[a].revision + 1

(* Every step gives a row it changes the next revision.                    *)
LEMMA RowsStep ==
  ASSUME TypeOK, Next, NEW a \in Assets
  PROVE  RowSteps(a)
<1>1. L!Next \/ UNCHANGED backup
  BY LedgerStep
<1>2. ASSUME NEW b \in Assets, NEW state, L!Become(b, state) PROVE RowSteps(a)
  BY <1>2 DEF L!Become, RowSteps, TypeOK, L!Entry
<1>3. CASE L!Recover
  BY <1>3 DEF L!Recover, L!RecoveredEntry, RowSteps
<1>4. QED
  BY <1>1, <1>2, <1>3 DEF L!Next, L!Queue, L!Retry, L!Cancel, L!Claim, L!MarkBackedUp,
     L!MarkFailed, RowSteps

(* An upload that has lost its row never gets it back.                     *)
LEMMA DisownedStays ==
  ASSUME IInv, Next, NEW h \in Hosts, IsBusy(h), ~StillOwnsClaim(h),
         uploader'[h].asset = uploader[h].asset, uploader'[h].revision = uploader[h].revision
  PROVE  ~StillOwnsClaim(h)'
<1> DEFINE a == uploader[h].asset
<1>1. /\ a \in Assets /\ uploader[h].revision <= backup[a].revision
      /\ backup[a].revision \in Nat /\ uploader[h].revision \in Nat
  BY DEF IInv, Fenced, TypeOK, L!Entry
<1>2. RowSteps(a)
  BY <1>1, RowsStep DEF IInv
<1>3. QED
  BY <1>1, <1>2 DEF RowSteps, StillOwnsClaim, L!Owns

(* A row that is cancelled is changed by a retry only.                     *)
LEMMA CancelledStays ==
  ASSUME TypeOK, Next, NEW a \in Assets, backup[a].state = "cancelled",
         \A h \in Hosts : ~Execute(h, "retry", a)
  PROVE  backup'[a].state = "cancelled"
<1>0. backup \in [Assets -> L!Entry]
  BY DEF TypeOK
<1>1. ASSUME NEW b, NEW state, b # a, L!Become(b, state) PROVE backup'[a] = backup[a]
  BY <1>0, <1>1 DEF L!Become
<1>2. ASSUME NEW h \in Hosts, UploaderStep(h) PROVE backup'[a] = backup[a]
  <2>1. CASE Claim(h)
    BY <1>1, <2>1 DEF Claim, L!Claim
  <2>2. CASE Mark(h)
    BY <1>1, <2>2 DEF Mark, L!MarkBackedUp, L!MarkFailed, L!Owns
  <2>3. QED
    BY <1>2, <2>1, <2>2 DEF UploaderStep, CheckShutdown, NothingToClaim, RegisterUpload,
       EnterMap, UploadEnds, CheckClaim, OutboxError, Wait
<1>3. ASSUME NEW h \in Hosts, MainStep(h) PROVE backup'[a] = backup[a]
  BY <1>3 DEF MainStep, Signal, CancelActive, Join
<1>4. ASSUME NEW h \in Hosts, NEW b \in Assets, NEW type \in {"queue", "retry", "cancel"},
             Execute(h, type, b)
      PROVE  backup'[a] = backup[a]
  <2>1. CASE Changes(type, b)
    <3>1. CASE b = a
      BY <1>4, <2>1, <3>1 DEF Changes, L!Queue, L!Exists, L!Cancel
    <3>2. CASE b # a
      BY <1>1, <2>1, <3>2 DEF Changes, L!Queue, L!Retry, L!Cancel
    <3>3. QED
      BY <3>1, <3>2
  <2>2. QED
    BY <1>4, <2>1 DEF Execute
<1>5. ASSUME NEW h \in Hosts, NEW b \in Assets, QueueSilently(h, b)
      PROVE  backup'[a] = backup[a]
  <2>1. b # a
    BY <1>5 DEF QueueSilently, L!Queue, L!Exists
  <2>2. QED
    BY <1>1, <1>5, <2>1 DEF QueueSilently, L!Queue
<1>6. ASSUME L!Recover PROVE backup'[a] = backup[a]
  BY <1>6 DEF L!Recover, L!RecoveredEntry
<1>7. QED
  BY <1>2, <1>3, <1>4, <1>5, <1>6 DEF Next, Environment, Start, Reopen, Recover,
     RequestShutdown, Crash, BackoffEnds

LEMMA NoticeStaysDurable ==
  ASSUME OneProcess, ~MayResend, TypeOK, NoticeDurable, Next
  PROVE  NoticeDurable'
<1>0. /\ notice \in [Hosts -> Command \cup {NoNotice}]
      /\ backup \in [Assets -> L!Entry]
  BY DEF TypeOK
<1>1. ASSUME NEW h \in Hosts, NEW type \in {"queue", "retry", "cancel"}, NEW a \in Assets,
             Execute(h, type, a)
      PROVE  NoticeDurable'
  <2>1. notice'[h] = [type |-> type, asset |-> a]
    BY <1>0, <1>1 DEF Execute
  <2>2. type = "cancel" => backup'[a].state = "cancelled"
    BY <1>0, <1>1 DEF Execute, Changes, Ignored, L!Cancel, L!Become
  <2>3. QED
    BY <2>1, <2>2 DEF NoticeDurable, OneProcess
<1>2. ASSUME \A h \in Hosts, a \in Assets : ~Execute(h, "retry", a),
             \A h \in Hosts : notice'[h] = notice[h] \/ notice'[h] = NoNotice
      PROVE  NoticeDurable'
  <2>1. SUFFICES ASSUME NEW h \in Hosts, notice'[h].type = "cancel"
                 PROVE  backup'[notice'[h].asset].state = "cancelled"
    BY DEF NoticeDurable
  <2>2. notice'[h] = notice[h] /\ notice[h] \in Command
    BY <1>0, <1>2, <2>1 DEF NoNotice
  <2>3. notice[h].asset \in Assets /\ backup[notice[h].asset].state = "cancelled"
    BY <2>1, <2>2 DEF NoticeDurable, Command
  <2>4. QED
    BY <1>2, <2>2, <2>3, CancelledStays
<1>3. ASSUME \A h \in Hosts, type \in {"queue", "retry", "cancel"}, a \in Assets :
                ~Execute(h, type, a)
      PROVE  \A h \in Hosts : notice'[h] = notice[h] \/ notice'[h] = NoNotice
  <2>1. UNCHANGED notice \/ \E h \in Hosts : notice' = [notice EXCEPT ![h] = NoNotice]
    BY <1>3 DEF Next, UploaderStep, CheckShutdown, Claim, NothingToClaim, RegisterUpload,
       EnterMap, UploadEnds, CheckClaim, Mark, OutboxError, Wait, Goto, Set, MainStep, Signal,
       CancelActive, Join, Environment, Start, Reopen, RequestShutdown, Crash,
       QueueSilently, BackoffEnds
  <2>2. QED
    BY <1>0, <2>1
<1>4. QED
  BY <1>1, <1>2, <1>3

LEMMA ToldStaysDisowned ==
  ASSUME OneProcess, ~MayResend, IInv, NoticeDurable, ToldIsDisowned, Next
  PROVE  ToldIsDisowned'
<1>0. /\ backup \in [Assets -> L!Entry] /\ uploader \in Uploaders
      /\ phase \in [Hosts -> Phases]
  BY DEF IInv, TypeOK, Uploaders
<1>1. SUFFICES ASSUME NEW h \in Hosts, phase'[h] = "up", IsBusy(h)',
                      uploader'[h].token = "canceled" \/ uploader'[h].result = "cancelled"
               PROVE  ~StillOwnsClaim(h)'
  BY DEF ToldIsDisowned
<1>2. ASSUME /\ phase[h] = "up" /\ IsBusy(h)
             /\ uploader[h].token = "canceled" \/ uploader[h].result = "cancelled",
             uploader'[h].asset = uploader[h].asset,
             uploader'[h].revision = uploader[h].revision
      PROVE  ~StillOwnsClaim(h)'
  BY <1>2, DisownedStays DEF ToldIsDisowned
<1>3. ASSUME UploaderStep(h) PROVE ~StillOwnsClaim(h)'
  <2>1. phase' = phase /\ ~ShuttingDown(h)
    BY <1>0, <1>1, <1>3 DEF ShuttingDown, UploaderStep, CheckShutdown, Claim, NothingToClaim,
       RegisterUpload, EnterMap, UploadEnds, CheckClaim, Mark, OutboxError, Wait, Goto, Set
  <2>2. CASE CheckShutdown(h) \/ NothingToClaim(h) \/ Mark(h) \/ OutboxError(h) \/ Wait(h)
    BY <1>0, <1>1, <2>2 DEF CheckShutdown, NothingToClaim, Mark, OutboxError, Wait, Goto, Set,
       At, IsBusy, Busy, Uploaders
  <2>3. CASE Claim(h)
    BY <1>0, <1>1, <2>3 DEF Claim, Set, At, Uploaders
  <2>4. CASE RegisterUpload(h)
    <3>1. uploader' = [uploader EXCEPT ![h] =
                         [uploader[h] EXCEPT !.pc = "registering", !.token = "live"]]
      BY <2>1, <2>4 DEF RegisterUpload, Set
    <3>2. /\ uploader'[h].token = "live" /\ uploader'[h].result = uploader[h].result
          /\ uploader'[h].asset = uploader[h].asset
          /\ uploader'[h].revision = uploader[h].revision
      BY <1>0, <3>1 DEF Uploaders
    <3>3. IsBusy(h)
      BY <2>4 DEF RegisterUpload, IsBusy, Busy
    <3>4. QED
      BY <1>1, <1>2, <2>1, <3>2, <3>3
  <2>5. CASE EnterMap(h)
    <3>1. /\ uploader'[h].token = uploader[h].token
          /\ uploader'[h].asset = uploader[h].asset
          /\ uploader'[h].revision = uploader[h].revision
          /\ uploader[h].token = "canceled" \/ uploader'[h].result = uploader[h].result
      BY <1>0, <2>5 DEF EnterMap, Goto, Set, Uploaders
    <3>2. IsBusy(h)
      BY <2>5 DEF EnterMap, IsBusy, Busy
    <3>3. QED
      BY <1>1, <1>2, <2>1, <3>1, <3>2
  <2>6. CASE UploadEnds(h)
    BY <1>0, <1>1, <1>2, <2>1, <2>6 DEF UploadEnds, Set, IsBusy, Busy, Uploaders
  <2>7. CASE CheckClaim(h)
    BY <1>0, <1>1, <1>2, <2>1, <2>7 DEF CheckClaim, Goto, Set, At, IsBusy, Busy, Uploaders
  <2>8. QED
    BY <1>3, <2>2, <2>3, <2>4, <2>5, <2>6, <2>7 DEF UploaderStep
<1>4. CASE Signal(h)
  <2>1. CASE uploader' = uploader
    BY <1>1, <1>2, <1>4, <2>1 DEF Signal, IsBusy
  <2>2. CASE uploader' # uploader
    <3>1. /\ backup' = backup /\ notice[h].type = "cancel"
          /\ uploader'[h].asset = notice[h].asset
      BY <1>0, <1>4, <2>2 DEF Signal, CancelToken, Uploaders
    <3>2. QED
      BY <3>1 DEF NoticeDurable, StillOwnsClaim, L!Owns
  <2>3. QED
    BY <2>1, <2>2
<1>5. CASE CancelActive(h) \/ Join(h) \/ RequestShutdown(h) \/ Crash(h)
  BY <1>0, <1>1, <1>5 DEF CancelActive, Join, RequestShutdown, Crash, SetPhase
<1>6. CASE Start(h)
  BY <1>0, <1>1, <1>6 DEF Start, At, IsBusy, Busy, Uploaders
<1>7. ASSUME UNCHANGED <<uploader, phase>> PROVE ~StillOwnsClaim(h)'
  BY <1>1, <1>2, <1>7 DEF IsBusy
<1>8. QED
  BY <1>3, <1>4, <1>5, <1>6, <1>7 DEF Next, OneProcess, MainStep, Environment, Reopen,
     QueueSilently, Execute, BackoffEnds

LEMMA ToldInvariance ==
  ASSUME OneProcess, ~MayResend PROVE Spec => [](NoticeDurable /\ ToldIsDisowned)
<1>1. Init => NoticeDurable /\ ToldIsDisowned
  BY DEF Init, NoticeDurable, ToldIsDisowned, NoNotice
<1>2. IInv /\ NoticeDurable /\ ToldIsDisowned /\ [Next]_vars
         => NoticeDurable' /\ ToldIsDisowned'
  <2>1. CASE UNCHANGED vars
    BY <2>1 DEF vars, NoticeDurable, ToldIsDisowned, StillOwnsClaim, L!Owns, IsBusy
  <2>2. QED
    BY <2>1, NoticeStaysDurable, ToldStaysDisowned DEF IInv
<1>3. QED
  BY <1>1, <1>2, Invariance, PTL DEF Spec

(* One process, no command sent twice: an upload gives up because of a     *)
(* canceled token only when its cancellation has been committed.  That a   *)
(* resent command breaks this is what the run backup_resend shows.         *)
THEOREM GivesUpForGood ==
  ASSUME OneProcess, ~MayResend PROVE Spec => []CancelledUploadIsDurable
<1>1. ToldIsDisowned => CancelledUploadIsDurable
  BY DEF ToldIsDisowned, CancelledUploadIsDurable, IsBusy, Busy
<1>2. QED
  BY <1>1, ToldInvariance, PTL

(* The upload of a row, still to be reported.                              *)
Carries(h, a) ==
    /\ uploader[h].pc \in Busy /\ uploader[h].result # "cancelled"
    /\ uploader[h].asset = a /\ uploader[h].revision = backup[a].revision

LEMMA UploadsStayCarried ==
  ASSUME OneProcess, OutboxFailsAt \subseteq {"claiming"}, IInv, ToldIsDisowned,
         UploadingHasUploader, Next,
         NEW a \in Assets, NEW h \in Hosts, phase'[h] = "up", backup'[a].state = "uploading"
  PROVE  Carries(h, a)'
<1>0. /\ backup \in [Assets -> L!Entry] /\ uploader \in Uploaders
      /\ phase \in [Hosts -> Phases]
  BY DEF IInv, TypeOK, Uploaders
<1>1. ASSUME phase[h] = "up", backup[a].state = "uploading"
      PROVE  Carries(h, a) /\ uploader[h].token # "canceled" /\ IsBusy(h) /\ StillOwnsClaim(h)
  <2>1. Carries(h, a)
    BY <1>1 DEF UploadingHasUploader, Carries, OneProcess
  <2>2. IsBusy(h) /\ StillOwnsClaim(h)
    BY <1>1, <2>1 DEF Carries, IsBusy, StillOwnsClaim, L!Owns
  <2>3. QED
    BY <1>1, <2>1, <2>2 DEF ToldIsDisowned
<1>2. ASSUME UploaderStep(h) PROVE Carries(h, a)'
  <2>1. phase[h] = "up" /\ ~ShuttingDown(h)
    BY <1>2 DEF ShuttingDown, UploaderStep, CheckShutdown, Claim, NothingToClaim,
       RegisterUpload, EnterMap, UploadEnds, CheckClaim, Mark, OutboxError, Wait, Goto, Set
  <2>2. CASE Claim(h)
    <3>1. PICK b \in Assets :
             /\ L!Claim(b)
             /\ Set(h, [At("claimed") EXCEPT !.asset = b, !.revision = backup[b].revision + 1])
      BY <2>2 DEF Claim
    <3>2. CASE a = b
      BY <1>0, <3>1, <3>2 DEF L!Claim, L!Become, Set, At, Carries, Busy, Uploaders
    <3>3. CASE a # b
      <4>1. backup'[a] = backup[a]
        BY <1>0, <3>1, <3>3 DEF L!Claim, L!Become
      <4>2. QED
        BY <1>1, <2>1, <2>2, <4>1 DEF Claim, Carries, Busy
    <3>4. QED
      BY <3>2, <3>3
  <2>3. CASE Mark(h)
    <3> DEFINE b == uploader[h].asset
    <3>1. L!Become(b, "backedUp") \/ L!Become(b, "failed")
      BY <2>3 DEF Mark, L!MarkBackedUp, L!MarkFailed
    <3>2. a # b /\ backup[a].state = "uploading"
      BY <1>0, <3>1 DEF L!Become
    <3>3. QED
      BY <1>1, <2>1, <3>2 DEF Carries
  <2>4. CASE UNCHANGED backup /\ ~Mark(h) /\ ~Claim(h)
    <3>1. /\ Carries(h, a) /\ uploader[h].token # "canceled" /\ IsBusy(h) /\ StillOwnsClaim(h)
          /\ uploader[h].pc # "claiming"
      BY <1>1, <2>1, <2>4 DEF Carries, Busy
    <3>2. ~OutboxError(h)
      BY <3>1 DEF OutboxError, IsBusy, Busy
    <3>3. RegisterUpload(h) \/ EnterMap(h) \/ UploadEnds(h) \/ CheckClaim(h)
      BY <1>2, <2>4, <3>1, <3>2 DEF UploaderStep, CheckShutdown, NothingToClaim, Wait, IsBusy,
         Busy
    <3>4. CASE RegisterUpload(h)
      BY <1>0, <2>1, <2>4, <3>1, <3>4 DEF RegisterUpload, Set, Carries, Busy, Uploaders
    <3>5. CASE EnterMap(h)
      BY <1>0, <2>4, <3>1, <3>5 DEF EnterMap, Goto, Set, Carries, Busy, Uploaders
    <3>6. CASE UploadEnds(h)
      BY <1>0, <2>4, <3>1, <3>6 DEF UploadEnds, Set, Carries, Busy, Uploaders
    <3>7. CASE CheckClaim(h)
      BY <1>0, <2>4, <3>1, <3>7 DEF CheckClaim, Goto, Set, Carries, Busy, Uploaders
    <3>8. QED
      BY <3>3, <3>4, <3>5, <3>6, <3>7
  <2>5. QED
    BY <1>2, <2>2, <2>3, <2>4 DEF UploaderStep, CheckShutdown, NothingToClaim, RegisterUpload,
       EnterMap, UploadEnds, CheckClaim, OutboxError, Wait
<1>3. CASE Signal(h)
  <2>1. UNCHANGED <<backup, phase>>
    BY <1>3 DEF Signal
  <2>2. /\ uploader'[h].pc = uploader[h].pc /\ uploader'[h].asset = uploader[h].asset
        /\ uploader'[h].revision = uploader[h].revision
        /\ uploader'[h].result = uploader[h].result
    BY <1>0, <1>3 DEF Signal, CancelToken, Uploaders
  <2>3. QED
    BY <1>1, <2>1, <2>2 DEF Carries
<1>4. CASE CancelActive(h) \/ Join(h) \/ RequestShutdown(h) \/ Crash(h)
  BY <1>0, <1>4 DEF CancelActive, Join, RequestShutdown, Crash, SetPhase
<1>5. CASE Start(h) \/ Reopen(h)
  BY <1>0, <1>5 DEF Start, Reopen, Recover, L!Recover, L!RecoveredEntry
<1>6. ASSUME UNCHANGED <<uploader, phase>>, backup'[a] = backup[a] PROVE Carries(h, a)'
  BY <1>1, <1>6 DEF Carries
<1>7. ASSUME NEW b \in Assets, NEW state \in {"queued", "cancelled"}, L!Become(b, state)
      PROVE  backup'[a] = backup[a]
  BY <1>0, <1>7 DEF L!Become
<1>8. ASSUME NEW b \in Assets, QueueSilently(h, b) PROVE Carries(h, a)'
  BY <1>6, <1>7, <1>8 DEF QueueSilently, L!Queue
<1>9. ASSUME NEW b \in Assets, NEW type \in {"queue", "retry", "cancel"}, Execute(h, type, b)
      PROVE  Carries(h, a)'
  <2>1. CASE Changes(type, b)
    BY <1>6, <1>7, <1>9, <2>1 DEF Execute, Changes, L!Queue, L!Retry, L!Cancel
  <2>2. QED
    BY <1>6, <1>9, <2>1 DEF Execute
<1>10. ASSUME NEW b \in Assets, BackoffEnds(b) PROVE Carries(h, a)'
  BY <1>6, <1>10 DEF BackoffEnds
<1>11. QED
  BY <1>2, <1>3, <1>4, <1>5, <1>8, <1>9, <1>10 DEF Next, OneProcess, MainStep, Environment

(* One process, no command sent twice, and an outbox that fails at claims  *)
(* only: while the process is up, a row that is uploading has an upload    *)
(* that will still be reported, under the very revision of the row.        *)
THEOREM UploadsCarried ==
  ASSUME OneProcess, ~MayResend, OutboxFailsAt \subseteq {"claiming"}
  PROVE  Spec => []UploadingHasUploader
<1>1. Init => UploadingHasUploader
  BY DEF Init, UploadingHasUploader
<1>2. IInv /\ ToldIsDisowned /\ UploadingHasUploader /\ [Next]_vars => UploadingHasUploader'
  <2>1. ASSUME IInv, ToldIsDisowned, UploadingHasUploader, Next PROVE UploadingHasUploader'
    <3>1. SUFFICES ASSUME NEW a \in Assets, NEW h \in Hosts, phase'[h] = "up",
                          backup'[a].state = "uploading"
                   PROVE  Carries(h, a)'
      BY DEF UploadingHasUploader, Carries
    <3>2. QED
      BY <2>1, <3>1, UploadsStayCarried
  <2>2. QED
    BY <2>1 DEF vars, UploadingHasUploader
<1>3. QED
  BY <1>1, <1>2, Invariance, ToldInvariance, PTL DEF Spec

-------------------------------------------------------------------------------
(***************************************************************************)
(* The line, for any number of processes: each asset stands in it at most  *)
(* once, only queued and failed ones do, and every queued one does.        *)
(***************************************************************************)
OnceEach(s) == \A i, j \in 1..Len(s) : i # j => s[i] # s[j]

LineOrdered ==
    /\ line \in Seq(Assets) /\ OnceEach(line)
    /\ \A a \in Assets : /\ Contains(line, a) => backup[a].state \in {"queued", "failed"}
                         /\ backup[a].state = "queued" => Contains(line, a)
    /\ IsFiniteSet(Uploading)

LEMMA RemoveAtIs ==
  ASSUME NEW S, NEW s \in Seq(S), NEW k \in 1..Len(s)
  PROVE  /\ RemoveAt(s, k) \in Seq(S) /\ Len(RemoveAt(s, k)) = Len(s) - 1
         /\ \A i \in 1..(Len(s) - 1) : RemoveAt(s, k)[i] = IF i < k THEN s[i] ELSE s[i+1]
<1> DEFINE p == SubSeq(s, 1, k-1)
           q == SubSeq(s, k+1, Len(s))
<1>1. Len(s) \in Nat /\ k \in Int
  BY LenProperties
<1>2. \A i \in 1..Len(s) : s[i] \in S
  BY ElementOfSeq
<1>3. /\ p \in Seq(S) /\ Len(p) = k - 1
      /\ \A i \in 1..(k-1) : p[i] = s[i]
  <2>1. \A i \in 1..(k-1) : s[i] \in S
    BY <1>1, <1>2
  <2>2. k - 1 \in Int /\ (k - 1) - 1 + 1 = k - 1
    BY <1>1
  <2>3. /\ p \in Seq(S)
        /\ Len(p) = IF 1 <= k-1 THEN (k-1)-1+1 ELSE 0
        /\ \A i \in 1..((k-1)-1+1) : p[i] = s[1+i-1]
    BY <2>1, <2>2, SubSeqProperties
  <2>4. QED
    BY <1>1, <2>3
<1>4. /\ q \in Seq(S) /\ Len(q) = Len(s) - k
      /\ \A i \in 1..(Len(s) - k) : q[i] = s[k+i]
  <2>1. \A i \in (k+1)..Len(s) : s[i] \in S
    BY <1>1, <1>2
  <2>2. k + 1 \in Int /\ Len(s) \in Int
    BY <1>1
  <2>3. /\ q \in Seq(S)
        /\ Len(q) = IF k+1 <= Len(s) THEN Len(s)-(k+1)+1 ELSE 0
        /\ \A i \in 1..(Len(s)-(k+1)+1) : q[i] = s[(k+1)+i-1]
    BY <2>1, <2>2, SubSeqProperties
  <2>4. QED
    BY <1>1, <2>3
<1> HIDE DEF p, q
<1>5. /\ p \o q \in Seq(S) /\ Len(p \o q) = Len(p) + Len(q)
      /\ \A i \in 1..(Len(p) + Len(q)) :
            (p \o q)[i] = IF i <= Len(p) THEN p[i] ELSE q[i - Len(p)]
  BY <1>3, <1>4, ConcatProperties
<1>6. \A i \in 1..(Len(s) - 1) : (p \o q)[i] = IF i < k THEN s[i] ELSE s[i+1]
  <2>1. TAKE i \in 1..(Len(s) - 1)
  <2>2. CASE i < k
    <3>1. i \in 1..(Len(p) + Len(q)) /\ i <= Len(p) /\ i \in 1..(k - 1)
      BY <1>1, <1>3, <1>4, <2>2
    <3>2. (p \o q)[i] = p[i]
      BY <1>5, <3>1
    <3>3. QED
      BY <1>3, <2>2, <3>1, <3>2
  <2>3. CASE i >= k
    <3>1. i - (k-1) \in 1..(Len(s) - k) /\ k + (i - (k-1)) = i + 1 /\ ~(i <= k - 1)
      BY <1>1, <2>3
    <3>2. q[i - (k-1)] = s[i+1]
      BY <1>4, <3>1
    <3>3. i \in 1..(Len(p) + Len(q)) /\ ~(i <= Len(p)) /\ i - Len(p) = i - (k-1) /\ ~(i < k)
      BY <1>1, <1>3, <1>4, <2>3
    <3>4. (p \o q)[i] = q[i - Len(p)]
      BY <1>5, <3>3
    <3>5. QED
      BY <3>2, <3>3, <3>4
  <2>4. i < k \/ i >= k
    BY <1>1
  <2>5. QED
    BY <2>2, <2>3, <2>4
<1>7. Len(p) + Len(q) = Len(s) - 1
  BY <1>1, <1>3, <1>4
<1>8. RemoveAt(s, k) = p \o q
  BY DEF RemoveAt, p, q
<1>9. QED
  BY <1>5, <1>6, <1>7, <1>8

(* Without(a) is the line with all its assets but a.                       *)
LEMMA WithoutIs ==
  ASSUME line \in Seq(Assets), OnceEach(line), NEW a \in Assets
  PROVE  /\ Without(a) \in Seq(Assets) /\ OnceEach(Without(a))
         /\ \A b \in Assets : Contains(Without(a), b) <=> Contains(line, b) /\ b # a
<1>0. Len(line) \in Nat
  BY LenProperties
<1>1. CASE ~Contains(line, a)
  BY <1>1 DEF Without
<1>2. CASE Contains(line, a)
  <2> DEFINE k == CHOOSE i \in 1..Len(line) : line[i] = a
             r == RemoveAt(line, k)
  <2>1. k \in 1..Len(line) /\ line[k] = a
    BY <1>2 DEF Contains
  <2>2. Without(a) = r
    BY <1>2 DEF Without
  <2> HIDE DEF k
  <2>3. /\ r \in Seq(Assets) /\ Len(r) = Len(line) - 1
        /\ \A i \in 1..(Len(line) - 1) : r[i] = IF i < k THEN line[i] ELSE line[i+1]
    BY <2>1, RemoveAtIs
  <2> HIDE DEF r
  <2>4. OnceEach(r)
    BY <1>0, <2>1, <2>3 DEF OnceEach
  <2>5. ASSUME NEW b \in Assets, Contains(r, b) PROVE Contains(line, b) /\ b # a
    <3>1. PICK i \in 1..Len(r) : r[i] = b
      BY <2>5 DEF Contains
    <3>2. PICK j \in 1..Len(line) : j # k /\ line[j] = b
      BY <1>0, <2>1, <2>3, <3>1
    <3>3. QED
      BY <2>1, <3>2 DEF Contains, OnceEach
  <2>6. ASSUME NEW b \in Assets, Contains(line, b), b # a PROVE Contains(r, b)
    <3>1. PICK j \in 1..Len(line) : line[j] = b
      BY <2>6 DEF Contains
    <3>2. CASE j < k
      BY <1>0, <2>1, <2>3, <3>1, <3>2 DEF Contains
    <3>3. CASE j > k
      <4>1. j - 1 \in 1..(Len(line) - 1) /\ ~(j - 1 < k) /\ (j - 1) + 1 = j
        BY <1>0, <2>1, <3>3
      <4>2. QED
        BY <2>3, <3>1, <4>1 DEF Contains
    <3>4. QED
      BY <1>0, <2>1, <2>6, <3>1, <3>2, <3>3
  <2>7. QED
    BY <2>2, <2>3, <2>4, <2>5, <2>6
<1>3. QED
  BY <1>1, <1>2

LEMMA JoinsIs ==
  ASSUME line \in Seq(Assets), OnceEach(line), NEW a \in Assets, Joins(a)
  PROVE  /\ line' \in Seq(Assets) /\ OnceEach(line')
         /\ \A b \in Assets : Contains(line', b) <=> Contains(line, b) \/ b = a
<1> DEFINE w == Without(a)
<1>1. /\ w \in Seq(Assets) /\ OnceEach(w)
      /\ \A b \in Assets : Contains(w, b) <=> Contains(line, b) /\ b # a
  BY WithoutIs
<1>2. line' = Append(w, a)
  BY DEF Joins
<1> HIDE DEF w
<1>3. /\ Append(w, a) \in Seq(Assets) /\ Len(Append(w, a)) = Len(w) + 1
      /\ \A i \in 1..Len(w) : Append(w, a)[i] = w[i]
      /\ Append(w, a)[Len(w) + 1] = a
  BY <1>1, AppendProperties
<1>4. Len(w) \in Nat
  BY <1>1, LenProperties
<1>5. \A i \in 1..Len(w) : w[i] # a
  BY <1>1 DEF Contains
<1>6. OnceEach(line')
  BY <1>1, <1>2, <1>3, <1>4, <1>5 DEF OnceEach
<1>7. ASSUME NEW b \in Assets PROVE Contains(line', b) <=> Contains(w, b) \/ b = a
  BY <1>2, <1>3, <1>4 DEF Contains
<1>8. QED
  BY <1>1, <1>2, <1>3, <1>6, <1>7

(* A recovery appends exactly the assets that are uploading, each once.    *)
LEMMA OrderIs ==
  ASSUME NEW S, IsFiniteSet(S), NEW order \in SetToSeqs(S)
  PROVE  /\ order \in Seq(S) /\ OnceEach(order)
         /\ \A b \in S : Contains(order, b)
<1> DEFINE n == Cardinality(S)
<1>1. n \in Nat
  BY FS_CardinalityType
<1>2. order \in [1..n -> S] /\ \A i, j \in 1..n : i # j => order[i] # order[j]
  BY DEF SetToSeqs
<1> HIDE DEF n
<1>3. order \in Seq(S) /\ Len(order) = n
  BY <1>1, <1>2
<1>4. order \in Injection(1..n, S)
  BY <1>2 DEF Injection, IsInjective
<1>5. Cardinality(1..n) = n
  BY <1>1, FS_Interval
<1>6. order \in Surjection(1..n, S)
  BY <1>4, <1>5, FS_Injection DEF n
<1>7. \A b \in S : \E i \in 1..n : order[i] = b
  BY <1>6 DEF Surjection
<1>8. QED
  BY <1>2, <1>3, <1>7 DEF OnceEach, Contains

(* What a step must leave behind for the line to stay in order.            *)
LEMMA FewerUploading ==
  ASSUME IsFiniteSet(Uploading), NEW a,
         \A b \in Assets : backup'[b].state = "uploading" => b = a \/ backup[b].state = "uploading"
  PROVE  IsFiniteSet(Uploading)'
<1>1. IsFiniteSet(Uploading \cup {a})
  BY FS_AddElement
<1>2. Uploading' \subseteq Uploading \cup {a}
  BY DEF Uploading
<1>3. QED
  BY <1>1, <1>2, FS_Subset

LEMMA JoiningKeepsLine ==
  ASSUME TypeOK, LineOrdered, NEW a \in Assets, Joins(a),
         L!Become(a, "queued") \/ (backup[a].state = "failed" /\ UNCHANGED backup)
  PROVE  LineOrdered'
<1>1. /\ line' \in Seq(Assets) /\ OnceEach(line')
      /\ \A b \in Assets : Contains(line', b) <=> Contains(line, b) \/ b = a
  BY JoinsIs DEF LineOrdered
<1>2. /\ backup'[a].state \in {"queued", "failed"}
      /\ \A b \in Assets \ {a} : backup'[b] = backup[b]
  BY DEF L!Become, TypeOK, L!Entry
<1>3. \A b \in Assets : /\ Contains(line', b) => backup'[b].state \in {"queued", "failed"}
                        /\ backup'[b].state = "queued" => Contains(line', b)
  BY <1>1, <1>2 DEF LineOrdered
<1>4. IsFiniteSet(Uploading)'
  BY <1>2, FewerUploading DEF LineOrdered
<1>5. QED
  BY <1>1, <1>3, <1>4 DEF LineOrdered

LEMMA LeavingKeepsLine ==
  ASSUME TypeOK, LineOrdered, NEW a \in Assets, Leaves(a), L!Become(a, "cancelled")
  PROVE  LineOrdered'
<1>1. /\ line' \in Seq(Assets) /\ OnceEach(line')
      /\ \A b \in Assets : Contains(line', b) <=> Contains(line, b) /\ b # a
  BY WithoutIs DEF LineOrdered, Leaves
<1>2. /\ backup'[a].state = "cancelled"
      /\ \A b \in Assets \ {a} : backup'[b] = backup[b]
  BY DEF L!Become, TypeOK, L!Entry
<1>3. \A b \in Assets : /\ Contains(line', b) => backup'[b].state \in {"queued", "failed"}
                        /\ backup'[b].state = "queued" => Contains(line', b)
  BY <1>1, <1>2 DEF LineOrdered
<1>4. IsFiniteSet(Uploading)'
  BY <1>2, FewerUploading DEF LineOrdered
<1>5. QED
  BY <1>1, <1>3, <1>4 DEF LineOrdered

LEMMA ClaimKeepsLine ==
  ASSUME TypeOK, LineOrdered, NEW h \in Hosts, Claim(h)
  PROVE  LineOrdered'
<1>1. /\ line # <<>> /\ line' = Tail(line)
      /\ Head(line) \in Assets /\ L!Become(Head(line), "uploading")
  BY DEF Claim, L!Claim
<1> DEFINE a == Head(line)
<1>2. /\ line \in Seq(Assets) /\ OnceEach(line) /\ Len(line) \in Nat \ {0} /\ a = line[1]
  BY <1>1, EmptySeq DEF LineOrdered
<1>3. /\ line' \in Seq(Assets) /\ Len(line') = Len(line) - 1
      /\ \A i \in 1..Len(line') : line'[i] = line[i+1]
  BY <1>1, <1>2, HeadTailProperties
<1>4. OnceEach(line')
  BY <1>2, <1>3 DEF OnceEach
<1>5. ASSUME NEW b \in Assets PROVE Contains(line', b) <=> Contains(line, b) /\ b # a
  <2>1. ASSUME Contains(line', b) PROVE Contains(line, b) /\ b # a
    <3>1. PICK i \in 1..Len(line') : line[i+1] = b
      BY <1>3, <2>1 DEF Contains
    <3>2. i + 1 \in 1..Len(line) /\ i + 1 # 1 /\ 1 \in 1..Len(line)
      BY <1>2, <1>3, <3>1
    <3>3. QED
      BY <1>2, <3>1, <3>2 DEF Contains, OnceEach
  <2>2. ASSUME Contains(line, b), b # a PROVE Contains(line', b)
    <3>1. PICK j \in 1..Len(line) : line[j] = b
      BY <2>2 DEF Contains
    <3>2. j - 1 \in 1..Len(line') /\ (j - 1) + 1 = j
      BY <1>2, <1>3, <2>2, <3>1
    <3>3. QED
      BY <1>3, <3>1, <3>2 DEF Contains
  <2>3. QED
    BY <2>1, <2>2
<1>6. /\ backup'[a].state = "uploading"
      /\ \A b \in Assets \ {a} : backup'[b] = backup[b]
  BY <1>1 DEF L!Become, TypeOK, L!Entry
<1> HIDE DEF a
<1>7. \A b \in Assets : /\ Contains(line', b) => backup'[b].state \in {"queued", "failed"}
                        /\ backup'[b].state = "queued" => Contains(line', b)
  BY <1>5, <1>6 DEF LineOrdered
<1>8. IsFiniteSet(Uploading)'
  BY <1>6, FewerUploading DEF LineOrdered
<1>9. QED
  BY <1>3, <1>4, <1>7, <1>8 DEF LineOrdered

LEMMA MarkKeepsLine ==
  ASSUME IInv, LineOrdered, NEW h \in Hosts, Mark(h)
  PROVE  LineOrdered'
<1> DEFINE a == uploader[h].asset
<1>1. a \in Assets
  BY DEF IInv, Fenced, IsBusy, Busy, Mark
<1>2. /\ backup[a].state = "uploading" /\ backup'[a].state \in {"backedUp", "failed"}
      /\ \A b \in Assets \ {a} : backup'[b] = backup[b]
      /\ line' = line
  BY <1>1 DEF Mark, L!MarkBackedUp, L!MarkFailed, L!Owns, L!Become, IInv, TypeOK, L!Entry
<1> HIDE DEF a
<1>3. \A b \in Assets : /\ Contains(line', b) => backup'[b].state \in {"queued", "failed"}
                        /\ backup'[b].state = "queued" => Contains(line', b)
  BY <1>1, <1>2 DEF LineOrdered
<1>4. IsFiniteSet(Uploading)'
  BY <1>1, <1>2, FewerUploading DEF LineOrdered
<1>5. QED
  BY <1>2, <1>3, <1>4 DEF LineOrdered

LEMMA RecoveryKeepsLine ==
  ASSUME TypeOK, LineOrdered, Recover
  PROVE  LineOrdered'
<1>1. PICK order \in SetToSeqs(Uploading) : line' = line \o order
  BY DEF Recover
<1>2. /\ order \in Seq(Uploading) /\ OnceEach(order)
      /\ \A b \in Uploading : Contains(order, b)
  BY OrderIs DEF LineOrdered
<1>3. /\ line \in Seq(Assets) /\ OnceEach(line) /\ order \in Seq(Assets)
      /\ Len(line) \in Nat /\ Len(order) \in Nat
      /\ \A i \in 1..Len(order) : order[i] \in Uploading
  <2>1. Uploading \subseteq Assets
    BY DEF Uploading
  <2>2. order \in Seq(Assets)
    BY <1>2, <2>1, SeqMonotonic
  <2>3. QED
    BY <1>2, <2>2, ElementOfSeq, LenProperties DEF LineOrdered
<1>4. /\ line' \in Seq(Assets) /\ Len(line') = Len(line) + Len(order)
      /\ \A i \in 1..(Len(line) + Len(order)) :
            line'[i] = IF i <= Len(line) THEN line[i] ELSE order[i - Len(line)]
  BY <1>1, <1>3, ConcatProperties
<1>5. \A b \in Uploading : ~Contains(line, b)
  BY DEF LineOrdered, Uploading
<1>6. OnceEach(line')
  <2> SUFFICES ASSUME NEW i \in 1..Len(line'), NEW j \in 1..Len(line'), i < j
               PROVE  line'[i] # line'[j]
    BY <1>3, <1>4 DEF OnceEach
  <2>1. CASE j <= Len(line)
    BY <1>3, <1>4, <2>1 DEF OnceEach
  <2>2. CASE i > Len(line)
    <3>1. /\ i - Len(line) \in 1..Len(order) /\ j - Len(line) \in 1..Len(order)
          /\ i - Len(line) # j - Len(line)
      BY <1>3, <1>4, <2>2
    <3>2. QED
      BY <1>2, <1>3, <1>4, <2>2, <3>1 DEF OnceEach
  <2>3. CASE i <= Len(line) /\ j > Len(line)
    <3>1. j - Len(line) \in 1..Len(order) /\ i \in 1..Len(line)
      BY <1>3, <1>4, <2>3
    <3>2. line'[j] \in Uploading /\ line'[i] = line[i]
      BY <1>3, <1>4, <2>3, <3>1
    <3>3. QED
      BY <1>5, <3>1, <3>2 DEF Contains
  <2>4. QED
    BY <1>3, <1>4, <2>1, <2>2, <2>3
<1>7. ASSUME NEW b \in Assets PROVE Contains(line', b) <=> Contains(line, b) \/ b \in Uploading
  <2>1. ASSUME Contains(line', b) PROVE Contains(line, b) \/ b \in Uploading
    <3>1. PICK i \in 1..Len(line') : line'[i] = b
      BY <2>1 DEF Contains
    <3>2. CASE i <= Len(line)
      BY <1>3, <1>4, <3>1, <3>2 DEF Contains
    <3>3. CASE i > Len(line)
      <4>1. i - Len(line) \in 1..Len(order)
        BY <1>3, <1>4, <3>3
      <4>2. QED
        BY <1>3, <1>4, <3>1, <3>3, <4>1
    <3>4. QED
      BY <1>3, <3>2, <3>3
  <2>2. ASSUME Contains(line, b) PROVE Contains(line', b)
    BY <1>3, <1>4, <2>2 DEF Contains
  <2>3. ASSUME b \in Uploading PROVE Contains(line', b)
    <3>1. PICK j \in 1..Len(order) : order[j] = b
      BY <1>2, <2>3 DEF Contains
    <3>2. /\ Len(line) + j \in 1..Len(line') /\ ~(Len(line) + j <= Len(line))
          /\ (Len(line) + j) - Len(line) = j
      BY <1>3, <1>4
    <3>3. line'[Len(line) + j] = b
      BY <1>4, <3>1, <3>2
    <3>4. QED
      BY <3>2, <3>3 DEF Contains
  <2>4. QED
    BY <2>1, <2>2, <2>3
<1>8. \A b \in Assets :
         backup'[b].state = IF b \in Uploading THEN "queued" ELSE backup[b].state
  BY DEF Recover, L!Recover, L!RecoveredEntry, Uploading
<1>9. \A b \in Assets : /\ Contains(line', b) => backup'[b].state \in {"queued", "failed"}
                        /\ backup'[b].state = "queued" => Contains(line', b)
  BY <1>7, <1>8 DEF LineOrdered
<1>10. IsFiniteSet(Uploading)'
  BY <1>8, FewerUploading DEF LineOrdered, Uploading
<1>11. QED
  BY <1>4, <1>6, <1>9, <1>10 DEF LineOrdered

(* Whatever the processes do: an asset stands in the line at most once,    *)
(* nothing stands in it that cannot be claimed, and everything queued does.*)
THEOREM LineInOrder == Spec => []LineOrdered
<1>1. Init => LineOrdered
  <2> SUFFICES ASSUME Init PROVE LineOrdered
    OBVIOUS
  <2>1. line \in Seq(Assets) /\ Len(line) = 0
    BY EmptySeq DEF Init
  <2>2. Uploading = {} /\ \A a \in Assets : backup[a].state = "absent"
    BY DEF Init, L!Init, Uploading
  <2>3. QED
    BY <2>1, <2>2, FS_EmptySet DEF LineOrdered, OnceEach, Contains
<1>2. IInv /\ LineOrdered /\ [Next]_vars => LineOrdered'
  <2> SUFFICES ASSUME IInv, LineOrdered, [Next]_vars PROVE LineOrdered'
    OBVIOUS
  <2> USE DEF IInv
  <2>1. CASE UNCHANGED <<backup, line>>
    BY <2>1 DEF LineOrdered, Uploading
  <2>2. ASSUME NEW h \in Hosts, UploaderStep(h) PROVE LineOrdered'
    BY <2>1, <2>2, ClaimKeepsLine, MarkKeepsLine DEF UploaderStep, CheckShutdown,
       NothingToClaim, RegisterUpload, EnterMap, UploadEnds, CheckClaim, OutboxError, Wait
  <2>3. ASSUME NEW h \in Hosts, NEW a \in Assets, NEW type \in {"queue", "retry", "cancel"},
               Execute(h, type, a)
        PROVE  LineOrdered'
    <3>1. CASE Changes(type, a)
      BY <3>1, JoiningKeepsLine, LeavingKeepsLine DEF Changes, L!Queue, L!Retry, L!Cancel
    <3>2. QED
      BY <2>1, <2>3, <3>1 DEF Execute
  <2>4. ASSUME NEW h \in Hosts, NEW a \in Assets, QueueSilently(h, a) PROVE LineOrdered'
    BY <2>4, JoiningKeepsLine DEF QueueSilently, L!Queue
  <2>5. ASSUME NEW h \in Hosts, Start(h) \/ Reopen(h) PROVE LineOrdered'
    BY <2>5, RecoveryKeepsLine DEF Start, Reopen
  <2>6. ASSUME NEW a \in Assets, BackoffEnds(a) PROVE LineOrdered'
    BY <2>6, JoiningKeepsLine DEF BackoffEnds
  <2>7. QED
    BY <2>1, <2>2, <2>3, <2>4, <2>5, <2>6 DEF vars, Next, MainStep, Signal, CancelActive, Join,
       Environment, RequestShutdown, Crash
<1>3. QED
  BY <1>1, <1>2, Invariance, PTL DEF Spec

-------------------------------------------------------------------------------
(***************************************************************************)
(* No wake-up is lost.                                                     *)
(***************************************************************************)
Untouched == \A a \in Assets : backup[a].state = "absent" => backup[a].revision = 0

LEMMA StaysUntouched == TypeOK /\ Untouched /\ [Next]_vars => Untouched'
<1> SUFFICES ASSUME TypeOK, Untouched, [Next]_vars PROVE Untouched'
  OBVIOUS
<1>1. L!Next \/ UNCHANGED backup
  BY LedgerStep
<1>2. ASSUME NEW b \in Assets, NEW state, state # "absent", L!Become(b, state)
      PROVE  Untouched'
  BY <1>2 DEF L!Become, Untouched, TypeOK, L!Entry
<1>3. CASE L!Recover
  BY <1>3 DEF L!Recover, L!RecoveredEntry, Untouched
<1>4. QED
  BY <1>1, <1>2, <1>3 DEF L!Next, L!Queue, L!Retry, L!Cancel, L!Claim, L!MarkBackedUp,
     L!MarkFailed, Untouched

LEMMA SleepStaysSound ==
  ASSUME OneProcess, TypeOK, Untouched, LineOrdered, UploadingHasUploader, NoLostWakeup, Next,
         NEW h \in Hosts, NEW a \in Assets,
         MainIdle(h)', uploader'[h].pc = "waiting", ~wake'[h], backup'[a].state = "queued"
  PROVE  a \in SilentAssets /\ backup'[a].revision = 1
<1>0. /\ backup \in [Assets -> L!Entry] /\ uploader \in Uploaders
      /\ phase \in [Hosts -> Phases] /\ wake \in [Hosts -> BOOLEAN]
      /\ notice \in [Hosts -> Command \cup {NoNotice}]
      /\ phase'[h] = "up" /\ notice'[h] = NoNotice
  BY DEF TypeOK, Uploaders, MainIdle
<1>1. ASSUME MainIdle(h), uploader[h].pc = "waiting", ~wake[h], backup'[a] = backup[a]
      PROVE  a \in SilentAssets /\ backup'[a].revision = 1
  BY <1>1 DEF NoLostWakeup
<1>2. ASSUME UploaderStep(h) PROVE FALSE
  <2>1. NothingToClaim(h)
    <3>0. /\ \A state : Set(h, state) => state.pc = "waiting"
          /\ \A pc : Goto(h, pc) => pc = "waiting"
          /\ \A pc : At(pc).pc = pc
      BY <1>0 DEF Set, Goto, At, Uploaders
    <3>1. CASE CheckShutdown(h) \/ EnterMap(h) \/ CheckClaim(h)
      <4>1. ~CheckShutdown(h)
        BY <3>0 DEF CheckShutdown
      <4>2. ~EnterMap(h)
        BY <1>0, <3>0 DEF EnterMap, Set, Uploaders
      <4>3. ~CheckClaim(h)
        BY <3>0 DEF CheckClaim
      <4>4. QED
        BY <3>1, <4>1, <4>2, <4>3
    <3>2. CASE Claim(h) \/ RegisterUpload(h) \/ UploadEnds(h)
      <4>1. ASSUME NEW a1, NEW r, Set(h, [At("claimed") EXCEPT !.asset = a1, !.revision = r])
            PROVE  FALSE
        <5>1. [At("claimed") EXCEPT !.asset = a1, !.revision = r].pc = "claimed"
          BY DEF At
        <5>2. QED
          BY <3>0, <4>1, <5>1
      <4>2. ASSUME NEW token, Set(h, [uploader[h] EXCEPT !.pc = "registering", !.token = token])
            PROVE  FALSE
        <5>1. [uploader[h] EXCEPT !.pc = "registering", !.token = token].pc = "registering"
          BY <1>0 DEF Uploaders
        <5>2. QED
          BY <3>0, <4>2, <5>1
      <4>3. ASSUME NEW result, Set(h, [uploader[h] EXCEPT !.pc = "returned", !.result = result])
            PROVE  FALSE
        <5>1. [uploader[h] EXCEPT !.pc = "returned", !.result = result].pc = "returned"
          BY <1>0 DEF Uploaders
        <5>2. QED
          BY <3>0, <4>3, <5>1
      <4>4. ~Claim(h)
        BY <4>1 DEF Claim
      <4>5. ~RegisterUpload(h)
        BY <4>2 DEF RegisterUpload
      <4>6. ~UploadEnds(h)
        BY <4>3 DEF UploadEnds
      <4>7. QED
        BY <3>2, <4>4, <4>5, <4>6
    <3>3. CASE Mark(h) \/ OutboxError(h) \/ Wait(h)
      BY <3>0, <3>3 DEF Mark, OutboxError, Wait
    <3>4. QED
      BY <1>2, <3>1, <3>2, <3>3 DEF UploaderStep
  <2>2. line = <<>> /\ backup' = backup
    BY <2>1 DEF NothingToClaim
  <2>3. Len(line) = 0
    BY <2>2, EmptySeq
  <2>4. QED
    BY <2>2, <2>3 DEF LineOrdered, Contains
<1>3. ASSUME MainStep(h) PROVE FALSE
  BY <1>0, <1>3 DEF MainStep, Signal, CancelActive, Join, SetPhase
<1>4. CASE Start(h)
  BY <1>0, <1>4 DEF Start, At, Uploaders
<1>5. CASE Reopen(h)
  <2>1. phase[h] = "up" /\ Uploading # {} /\ uploader[h].pc = "waiting"
    BY <1>5 DEF Reopen
  <2>2. PICK b \in Assets : backup[b].state = "uploading"
    BY <2>1 DEF Uploading
  <2>3. uploader[h].pc \in Busy
    BY <2>1, <2>2 DEF UploadingHasUploader, OneProcess
  <2>4. QED
    BY <2>1, <2>3 DEF Busy
<1>6. CASE RequestShutdown(h) \/ Crash(h)
  BY <1>0, <1>6 DEF RequestShutdown, Crash, SetPhase
<1>7. ASSUME NEW b \in Assets, QueueSilently(h, b)
      PROVE  a \in SilentAssets /\ backup'[a].revision = 1
  <2>1. CASE a = b
    BY <1>0, <1>7, <2>1 DEF QueueSilently, L!Queue, L!Exists, L!Become, Untouched, L!Entry
  <2>2. CASE a # b
    BY <1>0, <1>1, <1>7, <2>2 DEF QueueSilently, L!Queue, L!Become, MainIdle
  <2>3. QED
    BY <2>1, <2>2
<1>8. ASSUME NEW b \in Assets, NEW type \in {"queue", "retry", "cancel"}, Execute(h, type, b)
      PROVE  FALSE
  <2>1. notice'[h] = [type |-> type, asset |-> b]
    BY <1>0, <1>8 DEF Execute
  <2>2. notice'[h].type = type /\ NoNotice.type = "none"
    BY <2>1 DEF NoNotice
  <2>3. QED
    BY <1>0, <2>2
<1>9. ASSUME NEW b \in Assets, BackoffEnds(b)
      PROVE  a \in SilentAssets /\ backup'[a].revision = 1
  BY <1>1, <1>9 DEF BackoffEnds, MainIdle
<1>10. QED
  BY <1>2, <1>3, <1>4, <1>5, <1>6, <1>7, <1>8, <1>9 DEF Next, OneProcess, Environment

(* One process, no command sent twice, and an outbox that fails at claims  *)
(* only: once the main thread has signalled, the thread does not sleep     *)
(* while a queued row is due, except for what was queued silently.         *)
THEOREM NoneSleepsThrough ==
  ASSUME OneProcess, ~MayResend, OutboxFailsAt \subseteq {"claiming"}
  PROVE  Spec => []NoLostWakeup
<1>1. Init => Untouched /\ NoLostWakeup
  BY DEF Init, L!Init, Untouched, NoLostWakeup, MainIdle
<1>2. TypeOK /\ Untouched /\ LineOrdered /\ UploadingHasUploader /\ NoLostWakeup /\ [Next]_vars
         => NoLostWakeup'
  <2>1. ASSUME TypeOK, Untouched, LineOrdered, UploadingHasUploader, NoLostWakeup, Next
        PROVE  NoLostWakeup'
    <3>1. SUFFICES ASSUME NEW h \in Hosts, NEW a \in Assets, MainIdle(h)',
                          uploader'[h].pc = "waiting", ~wake'[h], backup'[a].state = "queued"
                   PROVE  a \in SilentAssets /\ backup'[a].revision = 1
      BY DEF NoLostWakeup
    <3>2. QED
      BY <2>1, <3>1, SleepStaysSound
  <2>2. CASE UNCHANGED vars
    BY <2>2 DEF vars, NoLostWakeup, MainIdle
  <2>3. QED
    BY <2>1, <2>2
<1>3. QED
  BY <1>1, <1>2, StaysUntouched, TypeCorrect, LineInOrder, UploadsCarried, PTL DEF Spec
===============================================================================
