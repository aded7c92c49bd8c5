---------------------------- MODULE DocumentProofs ----------------------------
(***************************************************************************)
(* Theorems of DocumentSystem, for any documents, calls, workers, failures *)
(* and bounds.                                                             *)
(***************************************************************************)
EXTENDS DocumentSystem, TLAPS

(* What ties a task to the call that enqueued it: arq holds a task only    *)
(* for a call that has ended, and a coroutine is in the code of the task   *)
(* that its call enqueued.                                                 *)
TaskOfCall(r) ==
  /\ task[r].status # "none" => handler[r].pc = "done"
  /\ wrk[r].pc # "idle" => task[r].status = "running"
  /\ wrk[r].pc \in IngestSteps => IsIngest(r)
  /\ wrk[r].pc \in PurgeSteps => (IsCleanup(r) \/ IsErase(r)) /\ wrk[r].cur \in Docs
  /\ wrk[r].pc = "pick" => IsErase(r)

Coupled == \A r \in Requests : TaskOfCall(r)

(* Types alone are not inductive: that a saga writes the chunks of a       *)
(* document, and not of a user, follows from the coupling.                 *)
TypeInv == TypeOK /\ Coupled

-----------------------------------------------------------------------------
(* A step of a call stays within its operation. *)
LEMMA GotoType ==
  ASSUME NEW r \in Requests, NEW pc, ApiTypeOK, Goto(r, pc),
         pc \in HandlerSteps, pc \in OpSteps[handler[r].op]
  PROVE  ApiTypeOK'
  BY DEF ApiTypeOK, Goto, Handlers, HandlerOK

LEMMA InitType == Init => TypeInv
<1> SUFFICES ASSUME Init PROVE TypeInv
  OBVIOUS
<1>1. StoresTypeOK
  BY DocsAssumption DEF Init, StoresInit, StoresTypeOK, RowStates, NoJob, JobStatus,
     SagaSteps, EntityStates, FactStates, DocStates
<1>2. ApiTypeOK
  BY DEF Init, ApiInit, ApiTypeOK, Handlers, HandlerOK, IdleHandler, OpSteps,
     HandlerSteps, DocOps, RowStates
<1>3. WorkerTypeOK
  BY MaxTriesAssumption, MaxCrashesAssumption DEF Init, WorkerInit, WorkerTypeOK, IdleWorker, RowStates, TaskStates,
     Workers, WorkerSteps
<1>4. Coupled
  BY DEF Init, WorkerInit, Coupled, TaskOfCall, IdleWorker, IngestSteps, PurgeSteps
<1> QED
  BY <1>1, <1>2, <1>3, <1>4 DEF TypeInv, TypeOK

(* An API call whose handler starts or moves on, and that leaves the queue *)
(* alone, keeps its coupling with the task: it has none yet.               *)
LEMMA HandlerMoves ==
  ASSUME TypeInv, NEW r \in Requests, handler[r].pc # "done",
         UNCHANGED <<task, wrk>>,
         \A q \in Requests : q # r => handler'[q] = handler[q]
  PROVE  Coupled'
<1>1. task[r].status = "none"
  BY DEF TypeInv, Coupled, TaskOfCall
<1>2. wrk[r].pc = "idle"
  BY <1>1 DEF TypeInv, Coupled, TaskOfCall
<1>3. TaskOfCall(r)'
  BY <1>1, <1>2 DEF TaskOfCall, IngestSteps, PurgeSteps
<1>4. ASSUME NEW q \in Requests, q # r PROVE TaskOfCall(q)'
  BY <1>4 DEF TypeInv, Coupled, TaskOfCall, IsIngest, IsErase, IsCleanup
<1> QED
  BY <1>3, <1>4 DEF Coupled

LEMMA WriteTransitionType ==
  ASSUME StoresTypeOK, NEW d \in Docs, NEW from \in RowStates, NEW to \in DocStates,
         WriteTransition(d, from, to)
  PROVE  /\ docState' \in [Docs -> RowStates]
         /\ trace' \in [Docs -> SUBSET TraceRows]
<1>1. <<from, to>> \in TraceRows
  BY DEF TraceRows
<1> QED
  BY <1>1 DEF StoresTypeOK, WriteTransition, RowStates

LEMMA UploadStartType ==
  ASSUME TypeInv, NEW r \in Requests, NEW d \in Docs, NEW direct \in BOOLEAN,
         UploadStart(r, d, direct)
  PROVE  TypeInv'
<1>1. handler[r].pc = "idle"
  BY DEF UploadStart, Arrives
<1>2. Coupled'
  BY <1>1, HandlerMoves DEF UploadStart, workerVars
<1>3. ApiTypeOK'
  BY DEF UploadStart, TypeInv, TypeOK, ApiTypeOK, Handlers, HandlerOK, OpSteps, HandlerSteps,
     DocOps, RowStates, DocStates
<1>4. StoresTypeOK' /\ WorkerTypeOK'
  BY DEF UploadStart, TypeInv, TypeOK, StoresTypeOK, WorkerTypeOK, workerVars
<1> QED
  BY <1>2, <1>3, <1>4 DEF TypeInv, TypeOK

LEMMA UploadCommitType ==
  ASSUME TypeInv, NEW r \in Requests, UploadCommit(r)
  PROVE  TypeInv'
<1> DEFINE d == handler[r].target
           direct == handler[r].flag
<1>1. handler[r].op = "upload" /\ d \in Docs /\ direct \in BOOLEAN
  BY DEF TypeInv, TypeOK, ApiTypeOK, Handlers, HandlerOK, OpSteps, DocOps, UploadCommit
<1>2. Coupled'
  BY HandlerMoves DEF UploadCommit, workerVars, Goto, TypeInv, TypeOK, ApiTypeOK
<1>3. ApiTypeOK'
  BY <1>1 DEF UploadCommit, Goto, TypeInv, TypeOK, ApiTypeOK, Handlers, HandlerOK, OpSteps,
     HandlerSteps
<1>4. /\ {<<"proposed", "proposed">>} \subseteq TraceRows
      /\ {<<"proposed", "approved">>} \subseteq TraceRows
  BY DEF TraceRows, RowStates, DocStates
<1>5. docState' \in [Docs -> RowStates] /\ trace' \in [Docs -> SUBSET TraceRows]
  <2>1. docState' \in [Docs -> RowStates]
    BY <1>1 DEF UploadCommit, TypeInv, TypeOK, StoresTypeOK, RowStates, DocStates
  <2>2. trace' \in [Docs -> SUBSET TraceRows]
    BY <1>1, <1>4 DEF UploadCommit, TypeInv, TypeOK, StoresTypeOK
  <2> QED BY <2>1, <2>2
<1>6. StoresTypeOK' /\ WorkerTypeOK'
  BY <1>5 DEF UploadCommit, TypeInv, TypeOK, StoresTypeOK, WorkerTypeOK, workerVars
<1> QED
  BY <1>2, <1>3, <1>6 DEF TypeInv, TypeOK

LEMMA LoadType ==
  ASSUME TypeInv, NEW r \in Requests, NEW op \in {"approve", "reject", "delete"},
         NEW d \in Docs, NEW flag \in BOOLEAN, Load(r, op, d, flag)
  PROVE  TypeInv'
<1>1. handler[r].pc = "idle"
  BY DEF Load, Arrives
<1>2. Coupled'
  BY <1>1, HandlerMoves DEF Load, workerVars
<1>3. ApiTypeOK'
  BY DEF Load, TypeInv, TypeOK, StoresTypeOK, ApiTypeOK, Handlers, HandlerOK, OpSteps,
     HandlerSteps, DocOps
<1>4. StoresTypeOK' /\ WorkerTypeOK'
  BY DEF Load, TypeInv, TypeOK, StoresTypeOK, WorkerTypeOK, workerVars
<1> QED
  BY <1>2, <1>3, <1>4 DEF TypeInv, TypeOK

LEMMA ModerateCommitType ==
  ASSUME TypeInv, NEW r \in Requests, ModerateCommit(r)
  PROVE  TypeInv'
<1> DEFINE h == handler[r]
<1>1. /\ h.op \in {"approve", "reject", "delete"}
      /\ h.target \in Docs
      /\ h.loaded \in RowStates
      /\ h.pc = "commit"
  BY DEF TypeInv, TypeOK, ApiTypeOK, Handlers, HandlerOK, OpSteps, DocOps, ModerateCommit
<1>2. Verdict[h.op] \in DocStates
  BY <1>1 DEF Verdict, DocStates
<1>3. docState' \in [Docs -> RowStates] /\ trace' \in [Docs -> SUBSET TraceRows]
  BY <1>1, <1>2, WriteTransitionType DEF ModerateCommit, TypeInv, TypeOK
<1>4. Coupled'
  BY <1>1, HandlerMoves DEF ModerateCommit, workerVars, Goto, TypeInv, TypeOK, ApiTypeOK
<1>5. ApiTypeOK'
  BY <1>1 DEF ModerateCommit, Goto, TypeInv, TypeOK, ApiTypeOK, Handlers, HandlerOK, OpSteps,
     HandlerSteps
<1>6. StoresTypeOK' /\ WorkerTypeOK'
  BY <1>3 DEF ModerateCommit, TypeInv, TypeOK, StoresTypeOK, WorkerTypeOK, workerVars
<1> QED
  BY <1>4, <1>5, <1>6 DEF TypeInv, TypeOK

LEMMA KickoffType ==
  ASSUME TypeInv, NEW r \in Requests, Kickoff(r)
  PROVE  TypeInv'
<1> DEFINE h == handler[r]
<1>1. /\ h.op \in {"upload", "approve"}
      /\ h.target \in Docs
      /\ h.loaded \in RowStates
      /\ h.pc = "kickoff"
  BY DEF TypeInv, TypeOK, ApiTypeOK, Handlers, HandlerOK, OpSteps, DocOps, Kickoff
<1>2. docState' \in [Docs -> RowStates] /\ trace' \in [Docs -> SUBSET TraceRows]
  BY <1>1, WriteTransitionType DEF Kickoff, TypeInv, TypeOK, DocStates
<1>3. Coupled'
  BY <1>1, HandlerMoves DEF Kickoff, workerVars, Goto, TypeInv, TypeOK, ApiTypeOK
<1>4. ApiTypeOK'
  BY <1>1 DEF Kickoff, Goto, TypeInv, TypeOK, ApiTypeOK, Handlers, HandlerOK, OpSteps,
     HandlerSteps
<1>5. StoresTypeOK' /\ WorkerTypeOK'
  BY <1>2 DEF Kickoff, TypeInv, TypeOK, StoresTypeOK, WorkerTypeOK, workerVars, JobStatus
<1> QED
  BY <1>3, <1>4, <1>5 DEF TypeInv, TypeOK

(* The steps of a call that leave the stores alone. *)
LEMMA QuietHandlerType ==
  ASSUME TypeInv, NEW r \in Requests,
         \/ \E u \in Users : EraseStart(r, u)
         \/ Refresh(r) \/ KickoffRefused(r) \/ HandlerFail(r)
  PROVE  TypeInv'
<1>1. Coupled'
  BY HandlerMoves DEF EraseStart, Arrives, Refresh, KickoffRefused, HandlerFail, Active,
     workerVars, Goto, TypeInv, TypeOK, ApiTypeOK
<1>2. ApiTypeOK'
  <2> USE DEF TypeInv, TypeOK, ApiTypeOK, Handlers, HandlerOK, OpSteps, HandlerSteps
  <2>1. CASE \E u \in Users : EraseStart(r, u)
    BY <2>1 DEF EraseStart, RowStates, DocOps
  <2>2. CASE Refresh(r)
    <3>1. handler[r].op \in {"upload", "approve"} /\ handler[r].target \in Docs
      BY <2>2 DEF Refresh, DocOps
    <3>2. docState[handler[r].target] \in RowStates
      BY <3>1 DEF StoresTypeOK
    <3>3. handler' \in [Requests -> Handlers]
      <4>1. [handler[r] EXCEPT !.pc = "kickoff", !.loaded = docState[handler[r].target]]
              \in Handlers
        BY <3>2
      <4> QED
        BY <2>2, <4>1 DEF Refresh
    <3>4. HandlerOK(handler[r])'
      BY <2>2, <3>1 DEF Refresh
    <3>5. ASSUME NEW q \in Requests, q # r PROVE HandlerOK(handler[q])'
      BY <2>2, <3>5 DEF Refresh
    <3> QED BY <3>3, <3>4, <3>5
  <2>3. CASE KickoffRefused(r)
    BY <2>3 DEF KickoffRefused, Goto, DocOps
  <2>4. CASE HandlerFail(r)
    <3>1. handler[r].op \in DocOps \cup {"erase"} /\ handler[r].pc \in HandlerSteps
      BY <2>4 DEF HandlerFail, Active
    <3>2. "done" \in HandlerSteps /\ "done" \in OpSteps[handler[r].op]
      BY <3>1 DEF DocOps
    <3> QED BY <2>4, <3>1, <3>2, GotoType DEF HandlerFail
  <2> QED BY <2>1, <2>2, <2>3, <2>4
<1>3. StoresTypeOK' /\ WorkerTypeOK'
  BY DEF EraseStart, Refresh, KickoffRefused, HandlerFail, TypeInv, TypeOK, StoresTypeOK,
     WorkerTypeOK, workerVars
<1> QED
  BY <1>1, <1>2, <1>3 DEF TypeInv, TypeOK

LEMMA EnqueueType ==
  ASSUME TypeInv, NEW r \in Requests, Enqueue(r)
  PROVE  TypeInv'
<1>1. /\ handler[r].op \in {"upload", "approve", "delete", "erase"}
      /\ task[r].status = "none" /\ wrk[r].pc = "idle"
  BY DEF TypeInv, TypeOK, ApiTypeOK, Handlers, HandlerOK, OpSteps, DocOps, Enqueue, Coupled,
     TaskOfCall
<1>2. ApiTypeOK'
  BY <1>1 DEF Enqueue, Goto, TypeInv, TypeOK, ApiTypeOK, Handlers, HandlerOK, OpSteps,
     HandlerSteps
<1>3. StoresTypeOK' /\ WorkerTypeOK'
  BY DEF Enqueue, TypeInv, TypeOK, StoresTypeOK, WorkerTypeOK, workerVars, TaskStates
<1>4. ASSUME NEW q \in Requests PROVE TaskOfCall(q)'
  BY <1>1 DEF Enqueue, Goto, TypeInv, TypeOK, ApiTypeOK, WorkerTypeOK, Coupled, TaskOfCall,
     IsIngest, IsErase, IsCleanup, Handlers, workerVars, IngestSteps, PurgeSteps
<1> QED
  BY <1>2, <1>3, <1>4 DEF TypeInv, TypeOK, Coupled

LEMMA ApiType == TypeInv /\ ApiNext => TypeInv'
<1> SUFFICES ASSUME TypeInv, NEW r \in Requests,
                    \/ \E d \in Docs, direct \in BOOLEAN : UploadStart(r, d, direct)
                    \/ \E d \in Docs : ApproveStart(r, d)
                    \/ \E d \in Docs : RejectStart(r, d)
                    \/ \E d \in Docs, hard \in BOOLEAN : DeleteStart(r, d, hard)
                    \/ \E u \in Users : EraseStart(r, u)
                    \/ HandlerStep(r)
                    \/ HandlerFail(r)
             PROVE  TypeInv'
  BY DEF ApiNext
<1>1. CASE \E d \in Docs, direct \in BOOLEAN : UploadStart(r, d, direct)
  BY <1>1, UploadStartType
<1>2. CASE \E d \in Docs : ApproveStart(r, d)
  BY <1>2, LoadType DEF ApproveStart
<1>3. CASE \E d \in Docs : RejectStart(r, d)
  BY <1>3, LoadType DEF RejectStart
<1>4. CASE \E d \in Docs, hard \in BOOLEAN : DeleteStart(r, d, hard)
  BY <1>4, LoadType DEF DeleteStart
<1>5. CASE HandlerStep(r)
  BY <1>5, UploadCommitType, ModerateCommitType, KickoffType, QuietHandlerType, EnqueueType
  DEF HandlerStep
<1>6. CASE HandlerFail(r) \/ \E u \in Users : EraseStart(r, u)
  BY <1>6, QuietHandlerType
<1> QED
  BY <1>1, <1>2, <1>3, <1>4, <1>5, <1>6

-----------------------------------------------------------------------------
(* What the coroutine of a task may become: "TaskOfCall" of the next state.*)
Fits(r, w) ==
  /\ w.pc \in IngestSteps => IsIngest(r)
  /\ w.pc \in PurgeSteps => (IsCleanup(r) \/ IsErase(r)) /\ w.cur \in Docs
  /\ w.pc = "pick" => IsErase(r)

LEMMA WorkerMoves ==
  ASSUME TypeInv, NEW r \in Requests, NEW w \in Workers, Fits(r, w), wrk[r].pc # "idle",
         wrk' = [wrk EXCEPT ![r] = w], UNCHANGED <<handler, task, crashes>>
  PROVE  ApiTypeOK' /\ WorkerTypeOK' /\ Coupled'
<1>1. ApiTypeOK' /\ WorkerTypeOK'
  BY DEF TypeInv, TypeOK, ApiTypeOK, WorkerTypeOK
<1>2. wrk'[r] = w /\ \A q \in Requests : q # r => wrk'[q] = wrk[q]
  BY DEF TypeInv, TypeOK, WorkerTypeOK
<1>3. Coupled'
  BY <1>2 DEF TypeInv, Coupled, TaskOfCall, Fits, IsIngest, IsErase, IsCleanup
<1> QED
  BY <1>1, <1>3

LEMMA StepMoves ==
  ASSUME TypeInv, NEW r \in Requests, NEW pc \in WorkerSteps, Step(r, pc),
         wrk[r].pc # "idle", Fits(r, [wrk[r] EXCEPT !.pc = pc]),
         UNCHANGED <<handler, task, crashes>>
  PROVE  ApiTypeOK' /\ WorkerTypeOK' /\ Coupled'
<1>1. [wrk[r] EXCEPT !.pc = pc] \in Workers
  BY DEF TypeInv, TypeOK, WorkerTypeOK, Workers
<1>2. wrk' = [wrk EXCEPT ![r] = [wrk[r] EXCEPT !.pc = pc]]
  BY DEF Step
<1> QED
  BY <1>1, <1>2, WorkerMoves

LEMMA ReturnMoves ==
  ASSUME TypeInv, NEW r \in Requests, Return(r), wrk[r].pc # "idle",
         UNCHANGED <<handler, task, crashes>>
  PROVE  ApiTypeOK' /\ WorkerTypeOK' /\ Coupled'
<1> DEFINE w == [IdleWorker EXCEPT !.pc = "return"]
<1>1. w \in Workers
  BY DEF Workers, IdleWorker, WorkerSteps, RowStates
<1>2. Fits(r, w)
  BY DEF Fits, IdleWorker, IngestSteps, PurgeSteps
<1> QED
  BY <1>1, <1>2, WorkerMoves DEF Return

(* The document of a saga step is a document. *)
LEMMA IngestDoc ==
  ASSUME TypeInv, NEW r \in Requests, IsIngest(r)
  PROVE  Doc(r) \in Docs
  BY DEF TypeInv, TypeOK, ApiTypeOK, Handlers, HandlerOK, DocOps, IsIngest, Doc

(* A task that arq starts: its call has ended, and no coroutine runs it. *)
LEMMA TakeMoves ==
  ASSUME TypeInv, NEW r \in Requests, NEW w \in Workers, Fits(r, w), Take(r, w),
         UNCHANGED <<handler, crashes>>
  PROVE  ApiTypeOK' /\ WorkerTypeOK' /\ Coupled'
<1>1. ApiTypeOK'
  BY DEF TypeInv, TypeOK, ApiTypeOK
<1>2. task[r].tries + 1 \in 0 .. MaxTries
  BY MaxTriesAssumption DEF Take, TypeInv, TypeOK, WorkerTypeOK
<1>3. WorkerTypeOK'
  BY <1>2 DEF Take, TypeInv, TypeOK, WorkerTypeOK, TaskStates
<1>4. /\ wrk'[r] = w /\ task'[r].status = "running" /\ task[r].status = "queued"
      /\ \A q \in Requests : q # r => wrk'[q] = wrk[q] /\ task'[q] = task[q]
  BY DEF Take, TypeInv, TypeOK, WorkerTypeOK
<1>5. Coupled'
  BY <1>4 DEF TypeInv, Coupled, TaskOfCall, Fits, IsIngest, IsErase, IsCleanup
<1> QED
  BY <1>1, <1>3, <1>5

LEMMA PickType ==
  ASSUME TypeInv, NEW r \in Requests, PickUp(r)
  PROVE  TypeInv'
<1> USE DEF Workers, IdleWorker, WorkerSteps, IngestSteps, PurgeSteps, Fits
<1>1. CASE PickIngest(r)
  <2> DEFINE w == [IdleWorker EXCEPT !.pc = "chunk", !.seen[Doc(r)] = docState[Doc(r)]]
  <2>1. Doc(r) \in Docs /\ IsIngest(r)
    BY <1>1, IngestDoc DEF PickIngest
  <2>2. w \in Workers /\ Fits(r, w)
    BY <2>1 DEF TypeInv, TypeOK, StoresTypeOK, RowStates
  <2>3. ApiTypeOK' /\ WorkerTypeOK' /\ Coupled'
    BY <1>1, <2>2, TakeMoves DEF PickIngest
  <2>4. StoresTypeOK'
    BY <1>1 DEF PickIngest, TypeInv, TypeOK, StoresTypeOK, pgVars, storeVars, JobStatus
  <2> QED BY <2>3, <2>4 DEF TypeInv, TypeOK
<1>2. CASE PickCleanup(r)
  <2> DEFINE w == [IdleWorker EXCEPT !.pc = "qdrant_delete", !.cur = Doc(r)]
  <2>1. Doc(r) \in Docs /\ IsCleanup(r)
    BY <1>2 DEF PickCleanup, TypeInv, TypeOK, ApiTypeOK, Handlers, HandlerOK, DocOps, IsCleanup, Doc
  <2>2. w \in Workers /\ Fits(r, w)
    BY <2>1 DEF RowStates
  <2>3. ApiTypeOK' /\ WorkerTypeOK' /\ Coupled'
    BY <1>2, <2>2, TakeMoves DEF PickCleanup
  <2>4. StoresTypeOK'
    BY <1>2 DEF PickCleanup, TypeInv, TypeOK, StoresTypeOK, pgVars, storeVars
  <2> QED BY <2>3, <2>4 DEF TypeInv, TypeOK
<1>3. CASE PickErase(r)
  <2> DEFINE mine == {d \in Docs : Owner[d] = handler[r].target /\ docState[d] # Absent}
             w == [IdleWorker EXCEPT !.pc = "pick", !.todo = mine,
                     !.seen = [d \in Docs |-> IF d \in mine THEN docState[d] ELSE Absent]]
  <2>1. IsErase(r)
    BY <1>3 DEF PickErase
  <2>2. w \in Workers /\ Fits(r, w)
    BY <2>1 DEF TypeInv, TypeOK, StoresTypeOK, RowStates
  <2>3. ApiTypeOK' /\ WorkerTypeOK' /\ Coupled'
    BY <1>3, <2>2, TakeMoves DEF PickErase
  <2>4. StoresTypeOK'
    BY <1>3 DEF PickErase, TypeInv, TypeOK, StoresTypeOK, pgVars, storeVars
  <2> QED BY <2>3, <2>4 DEF TypeInv, TypeOK
<1> QED
  BY <1>1, <1>2, <1>3 DEF PickUp

LEMMA IngestType ==
  ASSUME TypeInv, NEW r \in Requests, IngestStep(r)
  PROVE  TypeInv'
<1> DEFINE d == Doc(r)
<1>1. wrk[r].pc \in IngestSteps
  BY DEF IngestStep, SagaCommit, SagaCommits, WriteChunks, UpsertDocument, LinkSupersedes,
     UpsertEntities, LinkMentions, WriteFacts, PromoteLoad, PromoteCommit, IngestFail, IngestRaises, FallibleSteps, At,
     IngestSteps
<1>2. IsIngest(r) /\ d \in Docs /\ wrk[r].pc # "idle"
  BY <1>1, IngestDoc DEF TypeInv, Coupled, TaskOfCall, IngestSteps
<1>3. /\ wrk[r] \in Workers
      /\ docState \in [Docs -> RowStates]
      /\ Supersedes[d] \in Docs \cup {NoDoc}
  BY <1>2, SupersedesAssumption DEF TypeInv, TypeOK, WorkerTypeOK, StoresTypeOK
<1>4. ASSUME NEW pc \in IngestSteps, Step(r, pc), UNCHANGED <<handler, task, crashes>>
      PROVE  ApiTypeOK' /\ WorkerTypeOK' /\ Coupled'
  BY <1>2, <1>3, <1>4, StepMoves DEF Fits, IngestSteps, PurgeSteps, WorkerSteps, Workers
<1>5. CASE SagaCommit(r)
  <2>1. /\ SagaCommits[wrk[r].pc].next \in IngestSteps
        /\ SagaCommits[wrk[r].pc].saga \in SagaSteps
    BY <1>5 DEF SagaCommit, SagaCommits, IngestSteps, SagaSteps
  <2>2. StoresTypeOK'
    BY <1>5, <2>1 DEF SagaCommit, TypeInv, TypeOK, StoresTypeOK, pgVars, storeVars
  <2> QED BY <1>4, <1>5, <2>1, <2>2 DEF SagaCommit, TypeInv, TypeOK
<1>6. CASE WriteChunks(r)
  <2>1. StoresTypeOK'
    BY <1>2, <1>6 DEF WriteChunks, TypeInv, TypeOK, StoresTypeOK, pgVars, graphVars
  <2> QED BY <1>4, <1>6, <2>1 DEF WriteChunks, TypeInv, TypeOK, IngestSteps
<1>7. CASE UpsertDocument(r)
  <2>1. StoresTypeOK'
    BY <1>2, <1>7 DEF UpsertDocument, TypeInv, TypeOK, StoresTypeOK, pgVars
  <2> QED BY <1>4, <1>7, <2>1 DEF UpsertDocument, TypeInv, TypeOK, IngestSteps
<1>8. CASE LinkSupersedes(r)
  <2>1. StoresTypeOK'
    BY <1>8 DEF LinkSupersedes, TypeInv, TypeOK, StoresTypeOK, pgVars, FactStates
  <2> QED BY <1>4, <1>8, <2>1 DEF LinkSupersedes, TypeInv, TypeOK, IngestSteps
<1>9. CASE UpsertEntities(r)
  <2>1. StoresTypeOK'
    BY <1>9 DEF UpsertEntities, TypeInv, TypeOK, StoresTypeOK, pgVars, EntityStates
  <2> QED BY <1>4, <1>9, <2>1 DEF UpsertEntities, TypeInv, TypeOK, IngestSteps
<1>10. CASE LinkMentions(r)
  <2>1. StoresTypeOK'
    BY <1>10 DEF LinkMentions, TypeInv, TypeOK, StoresTypeOK, pgVars, EntityStates
  <2> QED BY <1>4, <1>10, <2>1 DEF LinkMentions, TypeInv, TypeOK, IngestSteps
<1>11. CASE WriteFacts(r)
  <2>1. StoresTypeOK'
    BY <1>11 DEF WriteFacts, TypeInv, TypeOK, StoresTypeOK, pgVars, FactStates
  <2> QED BY <1>4, <1>11, <2>1 DEF WriteFacts, TypeInv, TypeOK, IngestSteps
<1>12. CASE PromoteLoad(r)
  <2> DEFINE old == Supersedes[d]
             seen == IF old = NoDoc THEN wrk[r].seen
                     ELSE [wrk[r].seen EXCEPT ![old] = docState[old]]
             w == [wrk[r] EXCEPT !.pc = "commit", !.seen = seen]
  <2>1. seen \in [Docs -> RowStates]
    BY <1>3 DEF Workers
  <2>2. w \in Workers /\ Fits(r, w)
    BY <1>2, <1>3, <2>1 DEF Workers, WorkerSteps, IngestSteps, PurgeSteps, Fits
  <2>3. wrk' = [wrk EXCEPT ![r] = w]
    BY <1>12 DEF PromoteLoad
  <2>4. ApiTypeOK' /\ WorkerTypeOK' /\ Coupled'
    BY <1>2, <1>12, <2>2, <2>3, WorkerMoves DEF PromoteLoad
  <2>5. StoresTypeOK'
    BY <1>12 DEF PromoteLoad, TypeInv, TypeOK, StoresTypeOK, pgVars, storeVars
  <2> QED BY <2>4, <2>5 DEF TypeInv, TypeOK
<1>13. CASE PromoteCommit(r)
  <2> DEFINE old == Supersedes[d]
             seen == wrk[r].seen
  <2>1. ApiTypeOK' /\ WorkerTypeOK' /\ Coupled'
    BY <1>2, <1>13, ReturnMoves DEF PromoteCommit
  <2>2. seen \in [Docs -> RowStates]
    BY <1>3 DEF Workers
  <2>3. /\ docState' \in [Docs -> RowStates]
        /\ trace' \in [Docs -> SUBSET TraceRows]
        /\ supersededBy' \in [Docs -> Docs \cup {NoDoc}]
    <3>1. CASE Replaces(r)
      <4>1. old \in Docs
        BY <1>3, <3>1 DEF Replaces
      <4>2. <<seen[d], "ingested">> \in TraceRows /\ <<seen[old], "superseded">> \in TraceRows
        BY <1>2, <2>2, <4>1 DEF TraceRows, DocStates
      <4>3. docState' = [docState EXCEPT ![d] = "ingested", ![old] = "superseded"]
        BY <1>13, <3>1 DEF PromoteCommit
      <4>4. trace' = [trace EXCEPT ![d] = @ \cup {<<seen[d], "ingested">>},
                                   ![old] = @ \cup {<<seen[old], "superseded">>}]
        BY <1>13, <3>1 DEF PromoteCommit
      <4>5. docState' \in [Docs -> RowStates]
        BY <1>3, <4>3 DEF RowStates, DocStates
      <4>6. trace' \in [Docs -> SUBSET TraceRows]
        BY <4>2, <4>4 DEF TypeInv, TypeOK, StoresTypeOK
      <4>7. supersededBy' \in [Docs -> Docs \cup {NoDoc}]
        BY <1>2, <1>13, <3>1 DEF PromoteCommit, TypeInv, TypeOK, StoresTypeOK
      <4> QED BY <4>5, <4>6, <4>7
    <3>2. CASE ~Replaces(r)
      BY <1>2, <1>13, <2>2, <3>2, WriteTransitionType
      DEF PromoteCommit, TypeInv, TypeOK, StoresTypeOK, DocStates
    <3> QED BY <3>1, <3>2
  <2>4. StoresTypeOK'
    BY <1>13, <2>3 DEF PromoteCommit, TypeInv, TypeOK, StoresTypeOK, storeVars, JobStatus, SagaSteps
  <2> QED BY <2>1, <2>4 DEF TypeInv, TypeOK
<1>14. CASE IngestFail(r)
  <2>1. ApiTypeOK' /\ WorkerTypeOK' /\ Coupled'
    BY <1>2, <1>14, ReturnMoves DEF IngestFail
  <2>2. wrk[r].seen[d] \in RowStates
    BY <1>2, <1>3 DEF Workers
  <2>3. docState' \in [Docs -> RowStates] /\ trace' \in [Docs -> SUBSET TraceRows]
    BY <1>2, <1>14, <2>2, WriteTransitionType
    DEF IngestFail, TypeInv, TypeOK, StoresTypeOK, DocStates
  <2>4. StoresTypeOK'
    BY <1>14, <2>3 DEF IngestFail, TypeInv, TypeOK, StoresTypeOK, storeVars, JobStatus
  <2> QED BY <2>1, <2>4 DEF TypeInv, TypeOK
<1> QED
  BY <1>5, <1>6, <1>7, <1>8, <1>9, <1>10, <1>11, <1>12, <1>13, <1>14 DEF IngestStep

LEMMA CascadeType ==
  ASSUME StoresTypeOK, NEW d \in Docs, Cascade(d)
  PROVE  /\ nodes' \in SUBSET Docs
         /\ entities' \in [Docs -> EntityStates]
         /\ facts' \in [Docs -> FactStates]
  BY DEF StoresTypeOK, Cascade, EntityStates, FactStates, graphVars

LEMMA PurgeType ==
  ASSUME TypeInv, NEW r \in Requests, PurgeStep(r)
  PROVE  TypeInv'
<1> DEFINE d == wrk[r].cur
<1>1. /\ wrk[r] \in Workers /\ wrk[r].pc # "idle"
      /\ wrk[r].pc \in PurgeSteps => (IsCleanup(r) \/ IsErase(r)) /\ d \in Docs
      /\ wrk[r].pc = "pick" => IsErase(r)
  BY DEF TypeInv, TypeOK, WorkerTypeOK, Coupled, TaskOfCall, PurgeStep, DeleteChunks, DeleteGraph, Sweep,
     DeleteObject, StoreFails, EraseNext, EraseCommit, At, PurgeSteps
<1>2. ASSUME NEW w \in Workers, w.cur = d, w.pc \in PurgeSteps \cup {"return"},
             wrk[r].pc \in PurgeSteps
      PROVE  Fits(r, w)
  BY <1>1, <1>2 DEF Fits, IngestSteps, PurgeSteps
<1>3. ASSUME NEW w \in Workers, w.pc = "pick", IsErase(r)
      PROVE  Fits(r, w)
  BY <1>3 DEF Fits, IngestSteps, PurgeSteps
<1>4. /\ AfterGraph(r) \in {"object_delete", "return"}
      /\ AfterObject(r) \in {"pick", "return"} /\ (AfterObject(r) = "pick" => IsErase(r))
  BY DEF AfterGraph, AfterObject
<1>5. ASSUME NEW pc, pc \in PurgeSteps \cup {"return", "pick"}, pc = "pick" => IsErase(r),
             wrk[r].pc \in PurgeSteps, Step(r, pc), UNCHANGED <<handler, task, crashes>>
      PROVE  ApiTypeOK' /\ WorkerTypeOK' /\ Coupled'
  <2> DEFINE w == [wrk[r] EXCEPT !.pc = pc]
  <2>1. w \in Workers /\ w.cur = d /\ w.pc = pc
    BY <1>1, <1>5 DEF Workers, WorkerSteps
  <2>2. Fits(r, w)
    BY <1>2, <1>3, <1>5, <2>1
  <2>3. pc \in WorkerSteps
    BY <1>5 DEF WorkerSteps
  <2> QED BY <1>1, <1>5, <2>2, <2>3, StepMoves
<1>6. CASE DeleteChunks(r)
  <2>1. StoresTypeOK'
    BY <1>6 DEF DeleteChunks, TypeInv, TypeOK, StoresTypeOK, pgVars, graphVars
  <2> QED BY <1>5, <1>6, <2>1 DEF DeleteChunks, At, PurgeSteps, TypeInv, TypeOK
<1>7. CASE DeleteGraph(r)
  <2>1. StoresTypeOK'
    BY <1>1, <1>7, CascadeType DEF DeleteGraph, At, PurgeSteps, TypeInv, TypeOK, StoresTypeOK, pgVars
  <2> QED BY <1>4, <1>5, <1>7, <2>1 DEF DeleteGraph, At, PurgeSteps, TypeInv, TypeOK
<1>8. CASE Sweep(r)
  <2>1. StoresTypeOK'
    BY <1>8 DEF Sweep, TypeInv, TypeOK, StoresTypeOK, pgVars, EntityStates
  <2> QED BY <1>4, <1>5, <1>8, <2>1 DEF Sweep, At, PurgeSteps, TypeInv, TypeOK
<1>9. CASE DeleteObject(r)
  <2> DEFINE w == [wrk[r] EXCEPT !.pc = AfterObject(r),
                     !.purged = IF IsErase(r) THEN @ \cup {d} ELSE @]
  <2>1. d \in Docs /\ wrk[r].pc \in PurgeSteps
    BY <1>1, <1>9 DEF DeleteObject, At, PurgeSteps
  <2>2. w \in Workers /\ w.cur = d /\ w.pc = AfterObject(r)
    BY <1>1, <1>4, <2>1 DEF Workers, WorkerSteps
  <2>3. Fits(r, w)
    BY <1>2, <1>3, <1>4, <2>1, <2>2
  <2>4. wrk' = [wrk EXCEPT ![r] = w]
    BY <1>9 DEF DeleteObject
  <2>5. ApiTypeOK' /\ WorkerTypeOK' /\ Coupled'
    BY <1>1, <1>9, <2>2, <2>3, <2>4, WorkerMoves DEF DeleteObject
  <2>6. StoresTypeOK'
    BY <1>9 DEF DeleteObject, TypeInv, TypeOK, StoresTypeOK, pgVars, graphVars
  <2> QED BY <2>5, <2>6 DEF TypeInv, TypeOK
<1>10. CASE StoreFails(r)
  <2> DEFINE next == IF IsErase(r) THEN "pick"
                     ELSE [qdrant_delete |-> "graph_delete", graph_delete |-> AfterGraph(r),
                           sweep |-> AfterGraph(r), object_delete |-> AfterObject(r)][wrk[r].pc]
  <2>1. wrk[r].pc \in PurgeSteps /\ Step(r, next)
    BY <1>10 DEF StoreFails
  <2>2. next \in PurgeSteps \cup {"return", "pick"} /\ (next = "pick" => IsErase(r))
    BY <1>4, <2>1 DEF PurgeSteps
  <2>3. StoresTypeOK'
    BY <1>10 DEF StoreFails, TypeInv, TypeOK, StoresTypeOK, pgVars, storeVars
  <2> HIDE DEF next
  <2> QED BY <1>5, <1>10, <2>1, <2>2, <2>3 DEF StoreFails, TypeInv, TypeOK
<1>11. CASE EraseNext(r)
  <2>1. PICK e \in wrk[r].todo :
          wrk' = [wrk EXCEPT ![r] = [wrk[r] EXCEPT !.pc = "qdrant_delete", !.cur = e,
                                                   !.todo = @ \ {e}]]
    BY <1>11 DEF EraseNext
  <2> DEFINE w == [wrk[r] EXCEPT !.pc = "qdrant_delete", !.cur = e, !.todo = @ \ {e}]
  <2>2. e \in Docs /\ IsErase(r)
    BY <1>1, <1>11 DEF EraseNext, At, Workers
  <2>3. w \in Workers /\ Fits(r, w)
    BY <1>1, <2>2 DEF Workers, WorkerSteps, Fits, IngestSteps, PurgeSteps
  <2>4. ApiTypeOK' /\ WorkerTypeOK' /\ Coupled'
    BY <1>1, <1>11, <2>1, <2>3, WorkerMoves DEF EraseNext
  <2>5. StoresTypeOK'
    BY <1>11 DEF EraseNext, TypeInv, TypeOK, StoresTypeOK, pgVars, storeVars
  <2> QED BY <2>4, <2>5 DEF TypeInv, TypeOK
<1>12. CASE EraseCommit(r)
  <2>1. ApiTypeOK' /\ WorkerTypeOK' /\ Coupled'
    BY <1>1, <1>12, ReturnMoves DEF EraseCommit
  <2>2. docState' \in [Docs -> RowStates]
    BY <1>12 DEF EraseCommit, TypeInv, TypeOK, StoresTypeOK, RowStates, DocStates
  <2>3. handler[r].target \in Users
    BY <1>1, <1>12 DEF EraseCommit, At, IsErase, TypeInv, TypeOK, ApiTypeOK, HandlerOK
  <2>4. StoresTypeOK'
    BY <1>12, <2>2, <2>3 DEF EraseCommit, TypeInv, TypeOK, StoresTypeOK, storeVars
  <2> QED BY <2>1, <2>4 DEF TypeInv, TypeOK
<1> QED
  BY <1>6, <1>7, <1>8, <1>9, <1>10, <1>11, <1>12 DEF PurgeStep

LEMMA IdleWorkerType == IdleWorker \in Workers
  BY DEF IdleWorker, Workers, WorkerSteps, RowStates

LEMMA EndsType ==
  ASSUME TypeInv, NEW r \in Requests, Ends(r), task[r].status # "none"
  PROVE  TypeInv'
<1>1. ApiTypeOK' /\ StoresTypeOK'
  BY DEF Ends, TypeInv, TypeOK, ApiTypeOK, StoresTypeOK, pgVars, storeVars
<1>2. WorkerTypeOK'
  BY IdleWorkerType DEF Ends, TypeInv, TypeOK, WorkerTypeOK, TaskStates
<1>3. /\ wrk'[r].pc = "idle" /\ task'[r].status = "finished"
      /\ \A q \in Requests : q # r => wrk'[q] = wrk[q] /\ task'[q] = task[q]
  BY DEF Ends, TypeInv, TypeOK, WorkerTypeOK, IdleWorker
<1>4. Coupled'
  BY <1>3 DEF Ends, TypeInv, Coupled, TaskOfCall, IsIngest, IsErase, IsCleanup, IngestSteps,
     PurgeSteps
<1> QED
  BY <1>1, <1>2, <1>4 DEF TypeInv, TypeOK

LEMMA CrashType ==
  ASSUME TypeInv, WorkerCrash
  PROVE  TypeInv'
<1>1. ApiTypeOK' /\ StoresTypeOK'
  BY DEF WorkerCrash, TypeInv, TypeOK, ApiTypeOK, StoresTypeOK, pgVars, storeVars
<1>2. task' \in [Requests -> [status : TaskStates, tries : 0 .. MaxTries]]
  BY DEF WorkerCrash, TypeInv, TypeOK, WorkerTypeOK, TaskStates
<1>3. WorkerTypeOK'
  BY <1>2, IdleWorkerType, MaxCrashesAssumption DEF WorkerCrash, TypeInv, TypeOK, WorkerTypeOK
<1>4. ASSUME NEW q \in Requests PROVE TaskOfCall(q)'
  BY DEF WorkerCrash, TypeInv, Coupled, TaskOfCall, IdleWorker, IngestSteps, PurgeSteps
<1> QED
  BY <1>1, <1>3, <1>4 DEF TypeInv, TypeOK, Coupled

LEMMA WorkerType == TypeInv /\ WorkerNext => TypeInv'
<1> SUFFICES ASSUME TypeInv, WorkerNext PROVE TypeInv'
  OBVIOUS
<1>1. CASE WorkerCrash
  BY <1>1, CrashType
<1>2. ASSUME NEW r \in Requests, TaskStep(r) \/ TaskTimeout(r) PROVE TypeInv'
  <2>1. CASE PickUp(r) \/ IngestStep(r) \/ PurgeStep(r)
    BY <2>1, PickType, IngestType, PurgeType
  <2>2. CASE TaskReturn(r)
    BY <2>2, EndsType DEF TaskReturn, At, TypeInv, Coupled, TaskOfCall
  <2>3. CASE GiveUp(r) \/ TaskTimeout(r)
    BY <2>3, EndsType DEF GiveUp, TaskTimeout
  <2> QED BY <1>2, <2>1, <2>2, <2>3 DEF TaskStep
<1> QED
  BY <1>1, <1>2 DEF WorkerNext

LEMMA StutterType == TypeInv /\ UNCHANGED vars => TypeInv'
  BY DEF vars, TypeInv, TypeOK, StoresTypeOK, ApiTypeOK, WorkerTypeOK, Coupled, TaskOfCall,
     IsIngest, IsErase, IsCleanup

(* Every reachable state is well typed, and the coroutine of a task runs   *)
(* the code that the call which enqueued it asked for.                     *)
THEOREM TypeCorrect == Spec => []TypeInv
<1>1. TypeInv /\ [Next]_vars => TypeInv'
  BY ApiType, WorkerType, StutterType DEF Next
<1> QED
  BY <1>1, InitType, PTL DEF Spec

(* Type correctness: no sequence of calls, tasks, failures and crashes     *)
(* puts a value into a row, a job or a task that its column does not have. *)
THEOREM TypeCorrectness == Spec => []TypeOK
<1>1. TypeInv => TypeOK
  BY DEF TypeInv
<1> QED
  BY <1>1, TypeCorrect, PTL

=============================================================================
