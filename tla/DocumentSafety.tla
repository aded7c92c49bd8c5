---------------------------- MODULE DocumentSafety ----------------------------
(***************************************************************************)
(* The safety theorems of DocumentSystem.  Each is proved from an          *)
(* inductive invariant of its own, on top of TypeInv of DocumentProofs.    *)
(***************************************************************************)
EXTENDS DocumentProofs

(* The worker changes nothing in the calls. *)
LEMMA WorkerKeepsCalls ==
  ASSUME WorkerNext
  PROVE  handler' = handler
<1>1. ASSUME NEW r \in Requests, PickUp(r) PROVE handler' = handler
  BY <1>1 DEF PickUp, PickIngest, PickCleanup, PickErase
<1>2. ASSUME NEW r \in Requests, IngestStep(r) PROVE handler' = handler
  BY <1>2 DEF IngestStep, SagaCommit, WriteChunks, UpsertDocument, LinkSupersedes,
     UpsertEntities, LinkMentions, WriteFacts, PromoteLoad, PromoteCommit, IngestFail
<1>3. ASSUME NEW r \in Requests, PurgeStep(r) PROVE handler' = handler
  BY <1>3 DEF PurgeStep, DeleteChunks, DeleteGraph, Sweep, DeleteObject, StoreFails, EraseNext,
     EraseCommit
<1>4. ASSUME NEW r \in Requests, TaskReturn(r) \/ TaskTimeout(r) \/ GiveUp(r)
      PROVE  handler' = handler
  BY <1>4 DEF TaskReturn, TaskTimeout, GiveUp, Ends
<1>5. CASE WorkerCrash
  BY <1>5 DEF WorkerCrash
<1> QED
  BY <1>1, <1>2, <1>3, <1>4, <1>5 DEF WorkerNext, TaskStep

(* A task that was never queued stays so. *)
LEMMA WorkerKeepsUnqueued ==
  ASSUME TypeInv, WorkerNext, NEW q \in Requests, task[q].status = "none"
  PROVE  task'[q].status = "none"
<1> DEFINE Kept == task'[q].status = "none"
<1>1. task \in [Requests -> [status : TaskStates, tries : 0 .. MaxTries]]
  BY DEF TypeInv, TypeOK, WorkerTypeOK
<1>2. wrk[q].pc = "idle"
  BY DEF TypeInv, Coupled, TaskOfCall
<1>3. ASSUME NEW r \in Requests, PickUp(r) PROVE Kept
  BY <1>1, <1>3 DEF PickUp, PickIngest, PickCleanup, PickErase, Take
<1>4. ASSUME NEW r \in Requests, IngestStep(r) PROVE Kept
  BY <1>4 DEF IngestStep, SagaCommit, WriteChunks, UpsertDocument, LinkSupersedes,
     UpsertEntities, LinkMentions, WriteFacts, PromoteLoad, PromoteCommit, IngestFail
<1>5. ASSUME NEW r \in Requests, PurgeStep(r) PROVE Kept
  BY <1>5 DEF PurgeStep, DeleteChunks, DeleteGraph, Sweep, DeleteObject, StoreFails, EraseNext,
     EraseCommit
<1>6. ASSUME NEW r \in Requests, r # q, Ends(r) PROVE Kept
  BY <1>1, <1>6 DEF Ends
<1>7. ASSUME NEW r \in Requests, TaskReturn(r) \/ TaskTimeout(r) \/ GiveUp(r) PROVE Kept
  BY <1>2, <1>6, <1>7 DEF TaskReturn, TaskTimeout, GiveUp, At
<1>8. CASE WorkerCrash
  BY <1>1, <1>8 DEF WorkerCrash
<1> QED
  BY <1>3, <1>4, <1>5, <1>7, <1>8 DEF WorkerNext, TaskStep

(* Chunks get into the index in step A of the saga and nowhere else. *)
LEMMA ChunksComeFromSagas ==
  ASSUME WorkerNext, NEW d \in chunks', d \notin chunks
  PROVE  \E r \in Requests : WriteChunks(r)
<1> DEFINE Goal == \E r \in Requests : WriteChunks(r)
<1>1. ASSUME NEW r \in Requests, PickUp(r) PROVE Goal
  BY <1>1 DEF PickUp, PickIngest, PickCleanup, PickErase, storeVars
<1>2. ASSUME NEW r \in Requests, IngestStep(r) PROVE Goal
  BY <1>2 DEF IngestStep, SagaCommit, UpsertDocument, LinkSupersedes, UpsertEntities, LinkMentions, WriteFacts,
     PromoteLoad, PromoteCommit, IngestFail, storeVars
<1>3. ASSUME NEW r \in Requests, PurgeStep(r) PROVE Goal
  BY <1>3 DEF PurgeStep, DeleteChunks, DeleteGraph, Sweep, DeleteObject, StoreFails, EraseNext,
     EraseCommit, storeVars
<1>4. ASSUME NEW r \in Requests, TaskReturn(r) \/ TaskTimeout(r) \/ GiveUp(r) PROVE Goal
  BY <1>4 DEF TaskReturn, TaskTimeout, GiveUp, Ends, storeVars
<1>5. CASE WorkerCrash
  BY <1>5 DEF WorkerCrash, storeVars
<1> QED
  BY <1>1, <1>2, <1>3, <1>4, <1>5 DEF WorkerNext, TaskStep

(* What a call asked for never changes once it has arrived. *)
LEMMA CallFixed ==
  ASSUME TypeInv, [Next]_vars, NEW r \in Requests, handler[r].op # "none"
  PROVE  /\ handler'[r].op = handler[r].op
         /\ handler'[r].target = handler[r].target
         /\ handler'[r].flag = handler[r].flag
<1> DEFINE Same(q) == /\ handler'[q].op = handler[q].op
                      /\ handler'[q].target = handler[q].target
                      /\ handler'[q].flag = handler[q].flag
<1>1. handler[r].pc # "idle"
  BY DEF TypeInv, TypeOK, ApiTypeOK, HandlerOK, Handlers, OpSteps, DocOps
<1>2. CASE UNCHANGED handler
  BY <1>2
<1>3. ASSUME NEW q \in Requests, NEW h, handler' = [handler EXCEPT ![q] = h],
             handler[q].pc = "idle"
      PROVE  Same(r)
  BY <1>1, <1>3 DEF TypeInv, TypeOK, ApiTypeOK
<1>4. ASSUME NEW q \in Requests, NEW pc, Goto(q, pc)
      PROVE  Same(r)
  BY <1>4 DEF Goto, TypeInv, TypeOK, ApiTypeOK, Handlers
<1>5. ASSUME NEW q \in Requests, Refresh(q)
      PROVE  Same(r)
  BY <1>5 DEF Refresh, TypeInv, TypeOK, ApiTypeOK, Handlers
<1>6. ASSUME NEW q \in Requests, NEW op, NEW d, NEW flag, Load(q, op, d, flag)
      PROVE  Same(r)
  BY <1>3, <1>6 DEF Load, Arrives
<1>7. CASE ApiNext
  BY <1>3, <1>4, <1>5, <1>6, <1>7 DEF ApiNext, HandlerStep, UploadStart, ApproveStart, RejectStart, DeleteStart,
     EraseStart, UploadCommit, ModerateCommit, Kickoff, KickoffRefused, Enqueue, HandlerFail, Arrives
<1>8. CASE WorkerNext
  BY <1>2, <1>8, WorkerKeepsCalls
<1>9. CASE UNCHANGED vars
  BY <1>2, <1>9 DEF vars
<1> QED
  BY <1>7, <1>8, <1>9 DEF Next

(* Rows of document_state_transitions are only ever added. *)
LEMMA TraceGrows ==
  ASSUME TypeInv, [Next]_vars, NEW d \in Docs
  PROVE  trace[d] \subseteq trace'[d]
<1>1. trace \in [Docs -> SUBSET TraceRows]
  BY DEF TypeInv, TypeOK, StoresTypeOK
<1>2. ASSUME NEW e, NEW from, NEW to, WriteTransition(e, from, to)
      PROVE  trace[d] \subseteq trace'[d]
  <2>1. CASE e = d
    BY <1>1, <1>2, <2>1 DEF WriteTransition
  <2>2. CASE e # d
    BY <1>1, <1>2, <2>2 DEF WriteTransition
  <2> QED BY <2>1, <2>2
<1>3. CASE UNCHANGED trace
  BY <1>3
<1>4. ASSUME NEW r \in Requests, UploadCommit(r)
      PROVE  trace[d] \subseteq trace'[d]
  BY <1>1, <1>4 DEF UploadCommit
<1>5. CASE ApiNext
  <2>1. ASSUME NEW r \in Requests, HandlerStep(r) PROVE trace[d] \subseteq trace'[d]
    BY <1>2, <1>3, <1>4, <2>1 DEF HandlerStep, ModerateCommit, Refresh, Kickoff, KickoffRefused,
       Enqueue
  <2> QED
    BY <1>3, <1>5, <2>1 DEF ApiNext, UploadStart, ApproveStart, RejectStart, DeleteStart, Load,
       EraseStart, HandlerFail
<1>6. ASSUME NEW r \in Requests, PromoteCommit(r)
      PROVE  trace[d] \subseteq trace'[d]
  <2>1. CASE Replaces(r)
    BY <1>1, <1>6, <2>1 DEF PromoteCommit
  <2>2. CASE ~Replaces(r)
    BY <1>2, <1>6, <2>2 DEF PromoteCommit
  <2> QED BY <2>1, <2>2
<1>7. ASSUME NEW r \in Requests, IngestFail(r)
      PROVE  trace[d] \subseteq trace'[d]
  BY <1>2, <1>3, <1>7 DEF IngestFail
<1>8. CASE WorkerNext
  <2> DEFINE Grows == trace[d] \subseteq trace'[d]
  <2>1. ASSUME NEW r \in Requests, PickUp(r) PROVE Grows
    BY <1>3, <2>1 DEF PickUp, PickIngest, PickCleanup, PickErase, pgVars
  <2>2. ASSUME NEW r \in Requests, IngestStep(r) PROVE Grows
    BY <1>3, <1>6, <1>7, <2>2 DEF IngestStep, SagaCommit, WriteChunks, UpsertDocument,
       LinkSupersedes, UpsertEntities, LinkMentions, WriteFacts, PromoteLoad, pgVars
  <2>3. ASSUME NEW r \in Requests, PurgeStep(r) PROVE Grows
    BY <1>3, <2>3 DEF PurgeStep, DeleteChunks, DeleteGraph, Sweep, DeleteObject, StoreFails,
       EraseNext, EraseCommit, pgVars
  <2>4. ASSUME NEW r \in Requests, TaskReturn(r) \/ TaskTimeout(r) \/ GiveUp(r) PROVE Grows
    BY <1>3, <2>4 DEF TaskReturn, TaskTimeout, GiveUp, Ends, pgVars
  <2>5. CASE WorkerCrash
    BY <1>3, <2>5 DEF WorkerCrash, pgVars
  <2> QED
    BY <1>8, <2>1, <2>2, <2>3, <2>4, <2>5 DEF WorkerNext, TaskStep
<1>9. CASE UNCHANGED vars
  BY <1>3, <1>9 DEF vars
<1> QED
  BY <1>5, <1>8, <1>9 DEF Next

-----------------------------------------------------------------------------
(* The job that will take d out of "ingesting": its task has not begun, or *)
(* runs with a session that has loaded d as "ingesting", so that its       *)
(* success and its failure both write d.  NoOrphanIngesting alone is not   *)
(* inductive: a task that had loaded another state would close its job and *)
(* leave the document.                                                     *)
Carries(r, d) ==
  /\ IsIngest(r) /\ Doc(r) = d
  /\ job[r].status \in {"queued", "running"}
  /\ wrk[r].pc # "return"
  /\ wrk[r].pc \in IngestSteps => wrk[r].seen[d] = "ingesting"

OrphanInv ==
  \A d \in Docs : docState[d] = "ingesting" => \E r \in Requests : Carries(r, d)

LEMMA OrphanFrame ==
  ASSUME OrphanInv,
         \A d \in Docs : docState'[d] = "ingesting" =>
            docState[d] = "ingesting" /\ \A r \in Requests : Carries(r, d) => Carries(r, d)'
  PROVE  OrphanInv'
  BY DEF OrphanInv

LEMMA OrphanApi ==
  ASSUME TypeInv, OrphanInv, ApiNext
  PROVE  OrphanInv'
<1>1. PICK r \in Requests :
        \/ \E d \in Docs, direct \in BOOLEAN : UploadStart(r, d, direct)
        \/ \E d \in Docs : ApproveStart(r, d)
        \/ \E d \in Docs : RejectStart(r, d)
        \/ \E d \in Docs, hard \in BOOLEAN : DeleteStart(r, d, hard)
        \/ \E u \in Users : EraseStart(r, u)
        \/ HandlerStep(r)
        \/ HandlerFail(r)
  BY DEF ApiNext
<1>2. UNCHANGED wrk
  BY <1>1 DEF HandlerStep, UploadStart, UploadCommit, ApproveStart, RejectStart, DeleteStart,
     Load, EraseStart, ModerateCommit, Refresh, Kickoff, KickoffRefused, Enqueue, HandlerFail,
     workerVars
<1>3. ASSUME NEW q \in Requests, NEW d \in Docs, Carries(q, d), UNCHANGED job
      PROVE  Carries(q, d)'
  <2>1. handler[q].op # "none"
    BY <1>3 DEF Carries, IsIngest
  <2>2. handler'[q].op = handler[q].op /\ handler'[q].target = handler[q].target
    BY <2>1, CallFixed, <1>1 DEF ApiNext, Next
  <2> QED BY <1>2, <1>3, <2>2 DEF Carries, IsIngest, Doc
<1>4. CASE UNCHANGED <<docState, job>>
  BY <1>3, <1>4, OrphanFrame
<1>5. CASE UploadCommit(r)
  <2>1. handler[r].target \in Docs /\ UNCHANGED job
    BY <1>5 DEF UploadCommit, TypeInv, TypeOK, ApiTypeOK, Handlers, HandlerOK, OpSteps, DocOps
  <2>2. ASSUME NEW d \in Docs, docState'[d] = "ingesting" PROVE docState[d] = "ingesting"
    BY <1>5, <2>1, <2>2 DEF UploadCommit, TypeInv, TypeOK, StoresTypeOK
  <2> QED BY <1>3, <2>1, <2>2, OrphanFrame
<1>6. CASE ModerateCommit(r)
  <2>1. /\ handler[r].target \in Docs /\ UNCHANGED job
        /\ handler[r].op \in {"approve", "reject", "delete"}
    BY <1>6 DEF ModerateCommit, TypeInv, TypeOK, ApiTypeOK, Handlers, HandlerOK, OpSteps, DocOps
  <2>2. Verdict[handler[r].op] # "ingesting"
    BY <2>1 DEF Verdict
  <2>3. ASSUME NEW d \in Docs, docState'[d] = "ingesting" PROVE docState[d] = "ingesting"
    BY <1>6, <2>1, <2>2, <2>3 DEF ModerateCommit, WriteTransition, TypeInv, TypeOK, StoresTypeOK
  <2> QED BY <1>3, <2>1, <2>3, OrphanFrame
<1>7. CASE Kickoff(r)
  <2> DEFINE e == handler[r].target
  <2>1. handler[r].op \in {"upload", "approve"} /\ e \in Docs /\ wrk[r].pc = "idle"
    BY <1>7 DEF Kickoff, TypeInv, TypeOK, ApiTypeOK, Handlers, HandlerOK, OpSteps, DocOps,
       Coupled, TaskOfCall
  <2>2. /\ handler'[r].op = handler[r].op /\ handler'[r].target = e
        /\ job'[r].status = "queued"
        /\ \A q \in Requests : q # r => job'[q] = job[q]
    BY <1>7 DEF Kickoff, Goto, TypeInv, TypeOK, StoresTypeOK, ApiTypeOK, Handlers
  <2>3. ASSUME NEW d \in Docs, d = e PROVE Carries(r, d)'
    BY <1>2, <2>1, <2>2, <2>3 DEF Carries, IsIngest, Doc, IngestSteps
  <2>4. ASSUME NEW d \in Docs, d # e, docState'[d] = "ingesting"
        PROVE  \E q \in Requests : Carries(q, d)'
    <3>1. docState[d] = "ingesting"
      BY <1>7, <2>4 DEF Kickoff, WriteTransition, TypeInv, TypeOK, StoresTypeOK
    <3>2. PICK q \in Requests : Carries(q, d)
      BY <3>1 DEF OrphanInv
    <3>3. q # r
      BY <2>4, <3>2 DEF Carries, Doc
    <3>4. handler'[q] = handler[q]
      BY <1>7, <3>3 DEF Kickoff, Goto, TypeInv, TypeOK, ApiTypeOK
    <3> QED BY <1>2, <2>2, <3>2, <3>3, <3>4 DEF Carries, IsIngest, Doc
  <2>5. ASSUME NEW d \in Docs, docState'[d] = "ingesting"
        PROVE  \E q \in Requests : Carries(q, d)'
    <3>1. CASE d = e
      <4>1. Carries(r, d)'
        BY <2>3, <3>1
      <4> QED BY <4>1
    <3>2. CASE d # e
      BY <2>4, <2>5, <3>2
    <3> QED BY <3>1, <3>2
  <2> QED BY <2>5 DEF OrphanInv
<1> QED
  BY <1>1, <1>4, <1>5, <1>6, <1>7 DEF HandlerStep, UploadStart, ApproveStart, RejectStart,
     DeleteStart, Load, EraseStart, Refresh, KickoffRefused, Enqueue, HandlerFail

(* A carrier whose coroutine another step replaces: only the task itself   *)
(* may stop carrying.                                                      *)
LEMMA CarriesFrame ==
  ASSUME NEW r \in Requests, NEW d \in Docs, Carries(r, d), UNCHANGED handler,
         job'[r].status \in {"queued", "running"},
         wrk'[r].pc # "return",
         wrk'[r].pc \in IngestSteps => wrk'[r].seen[d] = "ingesting"
  PROVE  Carries(r, d)'
  BY DEF Carries, IsIngest, Doc

LEMMA OrphanIngest ==
  ASSUME TypeInv, OrphanInv, NEW r \in Requests, IngestStep(r)
  PROVE  OrphanInv'
<1> DEFINE e == Doc(r)
<1>1. wrk[r].pc \in IngestSteps /\ UNCHANGED handler
  BY DEF IngestStep, SagaCommit, SagaCommits, WriteChunks, UpsertDocument, LinkSupersedes,
     UpsertEntities, LinkMentions, WriteFacts, PromoteLoad, PromoteCommit, IngestFail, IngestRaises, FallibleSteps, At,
     IngestSteps
<1>2. IsIngest(r) /\ e \in Docs /\ wrk \in [Requests -> Workers] /\ Supersedes[e] # e
  BY <1>1, IngestDoc, SupersedesAssumption DEF TypeInv, TypeOK, WorkerTypeOK, Coupled, TaskOfCall
<1>3. ASSUME NEW q \in Requests, q # r, NEW d \in Docs, Carries(q, d),
             wrk'[q] = wrk[q], job'[q] = job[q]
      PROVE  Carries(q, d)'
  BY <1>1, <1>3 DEF Carries, IsIngest, Doc
<1>4. ASSUME NEW pc \in WorkerSteps, Step(r, pc), pc # "return", UNCHANGED docState,
             \A q \in Requests : job'[q].status = job[q].status
      PROVE  OrphanInv'
  <2>1. ASSUME NEW q \in Requests, NEW d \in Docs, Carries(q, d)
        PROVE  /\ wrk'[q].pc # "return"
               /\ wrk'[q].pc \in IngestSteps => wrk'[q].seen[d] = "ingesting"
    BY <1>1, <1>2, <1>4, <2>1 DEF Step, Carries, Workers
  <2>2. ASSUME NEW q \in Requests, NEW d \in Docs, Carries(q, d)
        PROVE  Carries(q, d)'
    BY <1>1, <1>4, <2>1, <2>2, CarriesFrame DEF Carries
  <2> QED BY <1>4, <2>2, OrphanFrame
<1>5. CASE SagaCommit(r)
  <2>1. /\ SagaCommits[wrk[r].pc].next \in WorkerSteps
        /\ SagaCommits[wrk[r].pc].next # "return"
    BY <1>5 DEF SagaCommit, SagaCommits, WorkerSteps, IngestSteps
  <2>2. \A q \in Requests : job'[q].status = job[q].status
    BY <1>5 DEF SagaCommit, TypeInv, TypeOK, StoresTypeOK
  <2> QED BY <1>4, <1>5, <2>1, <2>2 DEF SagaCommit, pgVars
<1>6. CASE WriteChunks(r) \/ UpsertDocument(r) \/ LinkSupersedes(r)
        \/ UpsertEntities(r) \/ LinkMentions(r) \/ WriteFacts(r)
  BY <1>4, <1>6 DEF WriteChunks, UpsertDocument, LinkSupersedes, UpsertEntities, LinkMentions, WriteFacts, pgVars,
     WorkerSteps, IngestSteps
<1>7. CASE PromoteLoad(r)
  <2>1. \A q \in Requests : q # r => wrk'[q] = wrk[q]
    BY <1>2, <1>7 DEF PromoteLoad
  <2>2. wrk'[r].pc = "commit" /\ wrk'[r].seen[e] = wrk[r].seen[e]
    BY <1>2, <1>7 DEF PromoteLoad, Workers
  <2>3. ASSUME NEW q \in Requests, NEW d \in Docs, Carries(q, d)
        PROVE  Carries(q, d)'
    <3>1. CASE q # r
      BY <1>3, <1>7, <2>1, <2>3, <3>1 DEF PromoteLoad
    <3>2. CASE q = r
      BY <1>1, <1>7, <2>2, <2>3, <3>2, CarriesFrame DEF PromoteLoad, Carries
    <3> QED BY <3>1, <3>2
  <2> QED BY <1>7, <2>3, OrphanFrame DEF PromoteLoad, pgVars
<1>8. ASSUME Return(r), docState'[e] # "ingesting" \/ ~Carries(r, e),
             \A d \in Docs : docState'[d] = "ingesting" => docState[d] = "ingesting",
             \A q \in Requests : q # r => job'[q] = job[q]
      PROVE  OrphanInv'
  <2>1. \A q \in Requests : q # r => wrk'[q] = wrk[q]
    BY <1>2, <1>8 DEF Return
  <2>2. ASSUME NEW q \in Requests, NEW d \in Docs, Carries(q, d), docState'[d] = "ingesting"
        PROVE  Carries(q, d)'
    <3>1. q # r
      BY <1>8, <2>2 DEF Carries
    <3> QED BY <1>3, <1>8, <2>1, <2>2, <3>1
  <2> QED BY <1>8, <2>2, OrphanFrame
<1>9. CASE PromoteCommit(r)
  <2>1. /\ docState'[e] = "ingested"
        /\ \A d \in Docs : docState'[d] = "ingesting" => docState[d] = "ingesting"
    <3>1. CASE Replaces(r)
      BY <1>2, <1>9, <3>1 DEF PromoteCommit, TypeInv, TypeOK, StoresTypeOK
    <3>2. CASE ~Replaces(r)
      BY <1>2, <1>9, <3>2 DEF PromoteCommit, WriteTransition, TypeInv, TypeOK, StoresTypeOK
    <3> QED BY <3>1, <3>2
  <2>2. \A q \in Requests : q # r => job'[q] = job[q]
    BY <1>9 DEF PromoteCommit, TypeInv, TypeOK, StoresTypeOK
  <2> QED BY <1>8, <1>9, <2>1, <2>2 DEF PromoteCommit
<1>10. CASE IngestFail(r)
  <2> DEFINE loaded == wrk[r].seen[e]
  <2>1. \A q \in Requests : q # r => job'[q] = job[q]
    BY <1>10 DEF IngestFail, TypeInv, TypeOK, StoresTypeOK
  <2>2. \A d \in Docs : docState'[d] = "ingesting" => docState[d] = "ingesting"
    BY <1>2, <1>10 DEF IngestFail, WriteTransition, TypeInv, TypeOK, StoresTypeOK
  <2>3. docState'[e] # "ingesting" \/ ~Carries(r, e)
    <3>1. CASE loaded = "ingesting"
      <4>1. CanTransition(loaded, "ingestion_failed")
        BY <3>1 DEF CanTransition, Allowed, DocStates
      <4> QED BY <1>2, <1>10, <4>1 DEF IngestFail, WriteTransition, TypeInv, TypeOK, StoresTypeOK
    <3>2. CASE loaded # "ingesting"
      BY <1>1, <3>2 DEF Carries
    <3> QED BY <3>1, <3>2
  <2> QED BY <1>8, <1>10, <2>1, <2>2, <2>3 DEF IngestFail
<1> QED
  BY <1>5, <1>6, <1>7, <1>9, <1>10 DEF IngestStep

LEMMA OrphanWorker ==
  ASSUME TypeInv, OrphanInv, WorkerNext
  PROVE  OrphanInv'
<1>1. ASSUME NEW r \in Requests, NEW w, wrk' = [wrk EXCEPT ![r] = w],
             w.pc \notin IngestSteps \cup {"return"} \/ ~IsIngest(r) \/ wrk[r].pc = "return",
             UNCHANGED <<job, handler>>,
             \A d \in Docs : docState'[d] = "ingesting" => docState[d] = "ingesting"
      PROVE  OrphanInv'
  <2>1. wrk'[r] = w /\ \A q \in Requests : q # r => wrk'[q] = wrk[q]
    BY <1>1 DEF TypeInv, TypeOK, WorkerTypeOK
  <2>2. ASSUME NEW q \in Requests, NEW d \in Docs, Carries(q, d) PROVE Carries(q, d)'
    BY <1>1, <2>1, <2>2 DEF Carries, IsIngest, Doc
  <2> QED BY <1>1, <2>2, OrphanFrame
<1>2. ASSUME NEW r \in Requests, PickIngest(r) PROVE OrphanInv'
  <2>1. /\ UNCHANGED <<docState, handler>> /\ IsIngest(r) /\ Doc(r) \in Docs
        /\ task[r].status = "queued"
    BY <1>2, IngestDoc DEF PickIngest, Take, pgVars
  <2>2. wrk' = [wrk EXCEPT ![r] = [IdleWorker EXCEPT !.pc = "chunk",
                                      !.seen[Doc(r)] = docState[Doc(r)]]]
    BY <1>2 DEF PickIngest, Take
  <2>3. /\ wrk'[r].pc = "chunk" /\ wrk'[r].seen[Doc(r)] = docState[Doc(r)]
        /\ \A q \in Requests : q # r => wrk'[q] = wrk[q]
    BY <2>1, <2>2 DEF TypeInv, TypeOK, WorkerTypeOK, IdleWorker
  <2>4. job'[r].status = "running" /\ \A q \in Requests : q # r => job'[q] = job[q]
    BY <1>2 DEF PickIngest, TypeInv, TypeOK, StoresTypeOK
  <2>5. ASSUME NEW q \in Requests, NEW d \in Docs, Carries(q, d), docState[d] = "ingesting"
        PROVE  Carries(q, d)'
    <3>1. CASE q = r
      BY <2>1, <2>3, <2>4, <2>5, <3>1 DEF Carries, IsIngest, Doc
    <3>2. CASE q # r
      BY <2>1, <2>3, <2>4, <2>5, <3>2 DEF Carries, IsIngest, Doc
    <3> QED BY <3>1, <3>2
  <2> QED BY <2>1, <2>5, OrphanFrame
<1>3. ASSUME NEW r \in Requests, PickCleanup(r) \/ PickErase(r) PROVE OrphanInv'
  <2>1. ~IsIngest(r) /\ UNCHANGED <<job, handler, docState>>
    BY <1>3 DEF PickCleanup, PickErase, IsCleanup, IsErase, IsIngest, pgVars
  <2>2. PICK w : wrk' = [wrk EXCEPT ![r] = w]
    BY <1>3 DEF PickCleanup, PickErase, Take
  <2> QED BY <1>1, <2>1, <2>2
<1>4. ASSUME NEW r \in Requests, PurgeStep(r) PROVE OrphanInv'
  <2>1. wrk[r].pc \in PurgeSteps \cup {"pick"}
    BY <1>4 DEF PurgeStep, DeleteChunks, DeleteGraph, Sweep, DeleteObject, StoreFails, EraseNext,
       EraseCommit, At, PurgeSteps
  <2>2. ~IsIngest(r)
    BY <2>1 DEF TypeInv, Coupled, TaskOfCall, IsIngest, IsCleanup, IsErase
  <2>3. PICK w : wrk' = [wrk EXCEPT ![r] = w]
    <3>1. ASSUME NEW pc, Step(r, pc) PROVE \E w : wrk' = [wrk EXCEPT ![r] = w]
      BY <3>1 DEF Step
    <3>2. CASE DeleteChunks(r) \/ DeleteGraph(r) \/ Sweep(r) \/ StoreFails(r)
      BY <3>1, <3>2 DEF DeleteChunks, DeleteGraph, Sweep, StoreFails
    <3>3. CASE DeleteObject(r)
      BY <3>3 DEF DeleteObject
    <3>4. CASE EraseNext(r)
      BY <3>4 DEF EraseNext
    <3>5. CASE EraseCommit(r)
      BY <3>5 DEF EraseCommit, Return
    <3> QED BY <1>4, <3>2, <3>3, <3>4, <3>5 DEF PurgeStep
  <2>4. UNCHANGED <<job, handler>>
    BY <1>4 DEF PurgeStep, DeleteChunks, DeleteGraph, Sweep, DeleteObject, StoreFails, EraseNext,
       EraseCommit
  <2>5. \A d \in Docs : docState'[d] = "ingesting" => docState[d] = "ingesting"
    BY <1>4 DEF PurgeStep, DeleteChunks, DeleteGraph, Sweep, DeleteObject, StoreFails, EraseNext,
       EraseCommit, pgVars
  <2> QED BY <1>1, <2>2, <2>3, <2>4, <2>5
<1>5. ASSUME NEW r \in Requests, Ends(r) PROVE OrphanInv'
  BY <1>1, <1>5 DEF Ends, IdleWorker, IngestSteps, pgVars
<1>6. CASE WorkerCrash
  <2>1. ASSUME NEW q \in Requests, NEW d \in Docs, Carries(q, d) PROVE Carries(q, d)'
    BY <1>6, <2>1 DEF WorkerCrash, Carries, IsIngest, Doc, IdleWorker, IngestSteps
  <2> QED BY <1>6, <2>1, OrphanFrame DEF WorkerCrash, pgVars
<1> QED
  BY <1>2, <1>3, <1>4, <1>5, <1>6, OrphanIngest DEF WorkerNext, TaskStep, PickUp, TaskReturn,
     TaskTimeout, GiveUp

LEMMA OrphanNext == TypeInv /\ OrphanInv /\ [Next]_vars => OrphanInv'
<1> SUFFICES ASSUME TypeInv, OrphanInv, [Next]_vars PROVE OrphanInv'
  OBVIOUS
<1>1. CASE UNCHANGED vars
  BY <1>1, OrphanFrame DEF vars, Carries, IsIngest, Doc
<1> QED
  BY <1>1, OrphanApi, OrphanWorker DEF Next

(* A document in "ingesting" always has an ingestion job that is still     *)
(* open, for any number of calls, of workers, of crashes and of tries.     *)
THEOREM NoOrphans == Spec => []NoOrphanIngesting
<1>1. Init => OrphanInv
  BY DEF Init, StoresInit, OrphanInv, Absent
<1>2. OrphanInv => NoOrphanIngesting
  BY DEF OrphanInv, NoOrphanIngesting, Carries
<1> QED
  BY <1>1, <1>2, TypeCorrect, OrphanNext, PTL DEF Spec

-----------------------------------------------------------------------------
(* The moderation of a document is in its trace: approved, and taken into  *)
(* ingestion.  A call carries it from its commit to its task.              *)
Gate(d) ==
  /\ Traced(d, "proposed", "approved")
  /\ \E s \in DocStates : Traced(d, s, "ingesting")

CallGate(r) ==
  /\ handler[r].pc = "commit" => CanTransition(handler[r].loaded, Verdict[handler[r].op])
  /\ handler[r].pc \in {"refresh", "kickoff"} => Traced(handler[r].target, "proposed", "approved")
  /\ IsIngest(r) /\ (handler[r].pc = "enqueue" \/ task[r].status # "none") => Gate(Doc(r))

GateInv == (\A r \in Requests : CallGate(r)) /\ \A d \in chunks : Gate(d)

LEMMA GateGrows ==
  ASSUME TypeInv, [Next]_vars, NEW d \in Docs
  PROVE  /\ Gate(d) => Gate(d)'
         /\ Traced(d, "proposed", "approved") => Traced(d, "proposed", "approved")'
  BY TraceGrows DEF Gate, Traced

(* A call that does not move, and whose task does not appear. *)
LEMMA CallGateFrame ==
  ASSUME TypeInv, [Next]_vars, NEW q \in Requests, CallGate(q), handler'[q] = handler[q],
         task[q].status = "none" => task'[q].status = "none"
  PROVE  CallGate(q)'
<1>1. CASE handler[q].op \in DocOps
  <2>1. handler[q].target \in Docs
    BY <1>1 DEF TypeInv, TypeOK, ApiTypeOK, HandlerOK
  <2>2. PICK d \in Docs : d = handler[q].target /\ d = handler'[q].target
    BY <2>1
  <2>3. /\ Gate(d) => Gate(d)'
        /\ Traced(d, "proposed", "approved") => Traced(d, "proposed", "approved")'
    BY GateGrows
  <2>4. IsIngest(q) /\ (handler[q].pc = "enqueue" \/ task[q].status # "none") => Gate(d)
    BY <2>2 DEF CallGate, Doc
  <2>5. (IsIngest(q) /\ (handler[q].pc = "enqueue" \/ task[q].status # "none") => Gate(Doc(q)))'
    BY <2>2, <2>3, <2>4 DEF Doc, IsIngest, Gate, Traced
  <2> QED BY <2>2, <2>3, <2>5 DEF CallGate, Traced
<1>2. CASE handler[q].op \notin DocOps
  BY <1>2 DEF CallGate, IsIngest, DocOps, TypeInv, TypeOK, ApiTypeOK, Handlers, HandlerOK, OpSteps
<1> QED
  BY <1>1, <1>2

LEMMA GateApi ==
  ASSUME TypeInv, GateInv, ApiNext
  PROVE  GateInv'
<1>1. PICK r \in Requests :
        \/ \E d \in Docs, direct \in BOOLEAN : UploadStart(r, d, direct)
        \/ \E d \in Docs : ApproveStart(r, d)
        \/ \E d \in Docs : RejectStart(r, d)
        \/ \E d \in Docs, hard \in BOOLEAN : DeleteStart(r, d, hard)
        \/ \E u \in Users : EraseStart(r, u)
        \/ HandlerStep(r)
        \/ HandlerFail(r)
  BY DEF ApiNext
<1>2. ASSUME NEW d \in chunks' PROVE Gate(d)'
  <2>1. chunks' = chunks
    BY <1>1 DEF HandlerStep, UploadStart, UploadCommit, ApproveStart, RejectStart, DeleteStart,
       Load, EraseStart, ModerateCommit, Refresh, Kickoff, KickoffRefused, Enqueue, HandlerFail,
       workerVars
  <2>2. d \in Docs /\ Gate(d)
    BY <1>2, <2>1 DEF GateInv, TypeInv, TypeOK, StoresTypeOK
  <2> QED BY <2>2, GateGrows DEF Next
<1>3. ASSUME NEW q \in Requests, q # r PROVE CallGate(q)'
  <2>1. handler'[q] = handler[q] /\ task'[q] = task[q]
    BY <1>1, <1>3 DEF HandlerStep, UploadStart, UploadCommit, ApproveStart, RejectStart,
       DeleteStart, Load, EraseStart, ModerateCommit, Refresh, Kickoff, KickoffRefused, Enqueue,
       HandlerFail, Goto, TypeInv, TypeOK, ApiTypeOK, WorkerTypeOK
  <2> QED BY <2>1, CallGateFrame DEF GateInv, Next
<1>4. /\ handler[r].pc # "done" /\ task[r].status = "none"
      /\ handler[r] \in Handlers /\ HandlerOK(handler[r])
      /\ CallGate(r)
  BY <1>1 DEF HandlerStep, UploadStart, UploadCommit, ApproveStart, RejectStart, DeleteStart,
     Load, EraseStart, ModerateCommit, Refresh, Kickoff, KickoffRefused, Enqueue, HandlerFail,
     Arrives, Active, TypeInv, TypeOK, ApiTypeOK, Coupled, TaskOfCall, GateInv
<1>5. CallGate(r)'
  <2> USE DEF CallGate
  <2>1. CASE UploadStart(r, handler'[r].target, handler'[r].flag) \/ \E d \in Docs, direct \in BOOLEAN : UploadStart(r, d, direct)
    BY <1>4, <2>1 DEF UploadStart, TypeInv, TypeOK, ApiTypeOK
  <2>2. CASE \E d \in Docs : ApproveStart(r, d)
    BY <1>4, <2>2 DEF ApproveStart, Load, TypeInv, TypeOK, ApiTypeOK, Verdict, CanTransition,
       Allowed, DocStates
  <2>3. CASE (\E d \in Docs : RejectStart(r, d)) \/ \E d \in Docs, hard \in BOOLEAN : DeleteStart(r, d, hard)
    BY <1>4, <2>3 DEF RejectStart, DeleteStart, Load, TypeInv, TypeOK, ApiTypeOK, Verdict
  <2>4. CASE \E u \in Users : EraseStart(r, u)
    BY <1>4, <2>4 DEF EraseStart, TypeInv, TypeOK, ApiTypeOK, IsIngest
  <2>5. CASE UploadCommit(r)
    <3> DEFINE d == handler[r].target
    <3>1. d \in Docs /\ trace \in [Docs -> SUBSET TraceRows]
      BY <1>4, <2>5 DEF UploadCommit, HandlerOK, OpSteps, DocOps, Handlers, TypeInv, TypeOK, StoresTypeOK
    <3>2. handler[r].flag => <<"proposed", "approved">> \in trace'[d]
      BY <2>5, <3>1 DEF UploadCommit
    <3>3. /\ handler'[r].target = d /\ handler'[r].op = handler[r].op
          /\ handler'[r].pc = IF handler[r].flag THEN "refresh" ELSE "done"
          /\ task'[r].status = "none"
      BY <1>4, <2>5 DEF UploadCommit, Goto, TypeInv, TypeOK, ApiTypeOK, Handlers
    <3> QED BY <3>2, <3>3 DEF Traced
  <2>6. CASE ModerateCommit(r)
    <3> DEFINE d == handler[r].target
    <3>1. /\ d \in Docs /\ trace \in [Docs -> SUBSET TraceRows]
          /\ handler[r].pc = "commit" /\ handler[r].op \in {"approve", "reject", "delete"}
      BY <1>4, <2>6 DEF ModerateCommit, HandlerOK, OpSteps, DocOps, Handlers, TypeInv, TypeOK, StoresTypeOK
    <3>2. /\ handler'[r].target = d /\ handler'[r].op = handler[r].op
          /\ handler'[r].pc = "refresh" => handler[r].op = "approve"
          /\ handler'[r].pc \in {"refresh", "done", "enqueue"}
          /\ handler'[r].pc = "enqueue" => handler[r].op = "delete"
          /\ task'[r].status = "none"
      BY <1>4, <2>6 DEF ModerateCommit, Goto, TypeInv, TypeOK, ApiTypeOK, Handlers
    <3>3. handler[r].op = "approve" => handler[r].loaded = "proposed"
      BY <1>4, <3>1 DEF Verdict, CanTransition, Allowed, DocStates
    <3>4. handler[r].op = "approve" => <<"proposed", "approved">> \in trace'[d]
      BY <2>6, <3>1, <3>3 DEF ModerateCommit, WriteTransition, Verdict
    <3> QED BY <3>2, <3>4 DEF Traced, IsIngest
  <2>7. CASE Refresh(r)
    <3>1. handler'[r].target = handler[r].target /\ handler'[r].pc = "kickoff"
          /\ UNCHANGED trace /\ task'[r].status = "none"
      BY <1>4, <2>7 DEF Refresh, TypeInv, TypeOK, ApiTypeOK, Handlers
    <3> QED BY <1>4, <2>7, <3>1 DEF Refresh, Traced
  <2>8. CASE Kickoff(r)
    <3>1. PICK d \in Docs : d = handler[r].target
      BY <1>4, <2>8 DEF Kickoff, HandlerOK, OpSteps, DocOps, Handlers
    <3>2. /\ handler'[r].target = d /\ handler'[r].pc = "enqueue"
      BY <1>4, <2>8, <3>1 DEF Kickoff, Goto, TypeInv, TypeOK, ApiTypeOK, Handlers
    <3>3. handler[r].loaded \in DocStates /\ <<handler[r].loaded, "ingesting">> \in trace'[d]
      BY <2>8, <3>1 DEF Kickoff, CanTransition, WriteTransition, TypeInv, TypeOK, StoresTypeOK
    <3>4. Traced(d, "proposed", "approved")'
      BY <1>4, <2>8, <3>1, GateGrows DEF Kickoff, Next, ApiNext, HandlerStep
    <3>5. Gate(d)'
      BY <3>3, <3>4 DEF Gate, Traced
    <3> QED BY <3>2, <3>5 DEF Doc, Gate, Traced
  <2>9. CASE Enqueue(r)
    <3>1. /\ handler'[r].target = handler[r].target /\ handler'[r].op = handler[r].op
          /\ handler'[r].pc = "done" /\ UNCHANGED trace
      BY <1>4, <2>9 DEF Enqueue, Goto, TypeInv, TypeOK, ApiTypeOK, Handlers
    <3> QED BY <1>4, <2>9, <3>1 DEF Enqueue, IsIngest, Doc, Gate, Traced
  <2>10. CASE KickoffRefused(r) \/ HandlerFail(r)
    BY <1>4, <2>10 DEF KickoffRefused, HandlerFail, Goto, TypeInv, TypeOK, ApiTypeOK, Handlers
  <2> QED
    BY <1>1, <2>1, <2>2, <2>3, <2>4, <2>5, <2>6, <2>7, <2>8, <2>9, <2>10 DEF HandlerStep
<1> QED
  BY <1>2, <1>3, <1>5 DEF GateInv

LEMMA GateWorker ==
  ASSUME TypeInv, GateInv, WorkerNext
  PROVE  GateInv'
<1>1. ASSUME NEW q \in Requests PROVE CallGate(q)'
  <2>1. handler'[q] = handler[q] /\ (task[q].status = "none" => task'[q].status = "none")
    BY WorkerKeepsCalls, WorkerKeepsUnqueued
  <2> QED BY <2>1, CallGateFrame DEF GateInv, Next
<1>2. ASSUME NEW d \in chunks', d \in chunks PROVE Gate(d)'
  BY <1>2, GateGrows DEF GateInv, Next, TypeInv, TypeOK, StoresTypeOK
<1>3. ASSUME NEW d \in chunks', d \notin chunks PROVE Gate(d)'
  <2>1. PICK r \in Requests : WriteChunks(r)
    BY <1>3, ChunksComeFromSagas
  <2>2. IsIngest(r) /\ task[r].status = "running" /\ d = Doc(r) /\ d \in Docs
    BY <1>3, <2>1, IngestDoc DEF WriteChunks, At, IngestSteps, TypeInv, Coupled, TaskOfCall
  <2>3. Gate(d)
    BY <2>2 DEF GateInv, CallGate
  <2> QED BY <2>2, <2>3, GateGrows DEF Next
<1> QED
  BY <1>1, <1>2, <1>3 DEF GateInv

LEMMA GateNext == TypeInv /\ GateInv /\ [Next]_vars => GateInv'
<1> SUFFICES ASSUME TypeInv, GateInv, [Next]_vars PROVE GateInv'
  OBVIOUS
<1>1. CASE UNCHANGED vars
  BY <1>1 DEF vars, GateInv, CallGate, Gate, Traced, IsIngest, Doc
<1> QED
  BY <1>1, GateApi, GateWorker DEF Next

(* Nothing reaches the search index unapproved: whatever the calls that    *)
(* race, the tasks that run twice and the sessions that are out of date.   *)
THEOREM Moderated == Spec => []ModerationGate
<1>1. Init => GateInv
  BY DEF Init, StoresInit, ApiInit, WorkerInit, GateInv, CallGate, IdleHandler, IsIngest
<1>2. GateInv => ModerationGate
  BY DEF GateInv, ModerationGate, Gate
<1> QED
  BY <1>1, <1>2, TypeCorrect, GateNext, PTL DEF Spec

=============================================================================
