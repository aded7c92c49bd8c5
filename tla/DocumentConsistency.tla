-------------------------- MODULE DocumentConsistency --------------------------
(***************************************************************************)
(* Theorems of DocumentSystem about the four stores together: what the     *)
(* table says of a document against its file, its chunks and its graph,    *)
(* for any interleaving of calls, sagas, cleanups and erasures; and, at    *)
(* its end, that the table implements DocumentLifecycle.                   *)
(***************************************************************************)
EXTENDS DocumentSafety, FiniteSetTheorems

(* A step of a task leaves the coroutines of the others alone.             *)
LEMMA MovesOne ==
  ASSUME TypeInv, NEW r \in Requests, PickUp(r) \/ IngestStep(r) \/ PurgeStep(r),
         NEW q \in Requests, r # q
  PROVE  wrk'[q] = wrk[q]
<1> DEFINE Same == wrk'[q] = wrk[q]
<1>1. wrk \in [Requests -> Workers]
  BY DEF TypeInv, TypeOK, WorkerTypeOK
<1>2. ASSUME NEW w, wrk' = [wrk EXCEPT ![r] = w] PROVE Same
  BY <1>1, <1>2
<1>3. ASSUME NEW pc, Step(r, pc) PROVE Same
  BY <1>1, <1>3 DEF Step
<1>4. CASE PickUp(r)
  BY <1>1, <1>4 DEF PickUp, PickIngest, PickCleanup, PickErase, Take
<1>5. CASE IngestStep(r)
  <2>1. CASE PromoteLoad(r)
    BY <1>1, <1>5, <2>1 DEF PromoteLoad
  <2>2. CASE PromoteCommit(r) \/ IngestFail(r)
    BY <1>2, <1>5, <2>2 DEF PromoteCommit, IngestFail, Return
  <2>3. CASE SagaCommit(r) \/ WriteChunks(r) \/ UpsertDocument(r) \/ LinkSupersedes(r)
        \/ UpsertEntities(r) \/ LinkMentions(r) \/ WriteFacts(r)
    BY <1>3, <1>5, <2>3 DEF SagaCommit, WriteChunks, UpsertDocument, LinkSupersedes, UpsertEntities, LinkMentions, WriteFacts
  <2> QED BY <1>5, <2>1, <2>2, <2>3 DEF IngestStep
<1>6. CASE PurgeStep(r)
  <2>1. CASE DeleteChunks(r) \/ DeleteGraph(r) \/ Sweep(r) \/ StoreFails(r)
    BY <1>3, <1>6, <2>1 DEF DeleteChunks, DeleteGraph, Sweep, StoreFails
  <2>2. CASE DeleteObject(r) \/ EraseNext(r)
    BY <1>1, <1>6, <2>2 DEF DeleteObject, EraseNext
  <2>3. CASE EraseCommit(r)
    BY <1>2, <1>6, <2>3 DEF EraseCommit, Return
  <2> QED BY <1>6, <2>1, <2>2, <2>3 DEF PurgeStep
<1> QED
  BY <1>4, <1>5, <1>6

(* A worker's step moves one coroutine; the end of a task, a stop of the   *)
(* worker and a failure of the queue leave an idle one.                    *)
LEMMA WorkerMove ==
  ASSUME TypeInv, WorkerNext, NEW q \in Requests
  PROVE  \/ wrk'[q] = wrk[q]
         \/ wrk'[q] = IdleWorker
         \/ PickUp(q) \/ IngestStep(q) \/ PurgeStep(q)
<1>1. wrk \in [Requests -> Workers]
  BY DEF TypeInv, TypeOK, WorkerTypeOK
<1>2. ASSUME NEW r \in Requests, Ends(r) PROVE wrk'[q] = wrk[q] \/ wrk'[q] = IdleWorker
  BY <1>1, <1>2 DEF Ends
<1>3. CASE WorkerCrash
  BY <1>3 DEF WorkerCrash
<1> QED
  BY <1>2, <1>3, MovesOne DEF WorkerNext, TaskStep, TaskReturn, TaskTimeout, GiveUp

(* What a step of a saga does to its coroutine.  Only step C loads.        *)
LEMMA IngestMove ==
  ASSUME TypeInv, NEW r \in Requests, IngestStep(r)
  PROVE  /\ wrk[r].pc \in IngestSteps /\ IsIngest(r) /\ Doc(r) \in Docs
         /\ task[r].status = "running"
         /\ \/ PromoteLoad(r)
            \/ Return(r)
            \/ \E pc \in IngestSteps : Step(r, pc)
<1>1. wrk[r].pc \in IngestSteps
  BY DEF IngestStep, SagaCommit, SagaCommits, WriteChunks, UpsertDocument, LinkSupersedes,
     UpsertEntities, LinkMentions, WriteFacts, PromoteLoad, PromoteCommit, IngestFail, IngestRaises, FallibleSteps, At,
     IngestSteps
<1>2. IsIngest(r) /\ Doc(r) \in Docs /\ task[r].status = "running"
  BY <1>1, IngestDoc DEF TypeInv, Coupled, TaskOfCall, IngestSteps
<1>3. CASE SagaCommit(r)
  <2>1. SagaCommits[wrk[r].pc].next \in IngestSteps
    BY <1>3 DEF SagaCommit, SagaCommits, IngestSteps
  <2> QED BY <1>1, <1>2, <1>3, <2>1 DEF SagaCommit
<1>4. CASE WriteChunks(r) \/ UpsertDocument(r) \/ LinkSupersedes(r)
        \/ UpsertEntities(r) \/ LinkMentions(r) \/ WriteFacts(r)
  BY <1>1, <1>2, <1>4 DEF WriteChunks, UpsertDocument, LinkSupersedes, UpsertEntities, LinkMentions, WriteFacts, IngestSteps
<1> QED
  BY <1>1, <1>2, <1>3, <1>4 DEF IngestStep, PromoteCommit, IngestFail

(* What a step of a cleanup or of an erasure does to its coroutine.        *)
LEMMA PurgeMove ==
  ASSUME TypeInv, NEW r \in Requests, PurgeStep(r)
  PROVE  /\ wrk'[r].pc \notin IngestSteps
         /\ wrk'[r].todo \subseteq wrk[r].todo
         /\ wrk'[r].pc \in PurgeSteps =>
              \/ wrk'[r].cur \in wrk[r].todo
              \/ wrk'[r].cur = wrk[r].cur /\ wrk[r].pc \in PurgeSteps
         /\ \A d \in wrk'[r].purged :
              \/ d \in wrk[r].purged
              \/ wrk[r].pc \in PurgeSteps /\ d = wrk[r].cur /\ d \notin objects'
         /\ \A d \in Docs : wrk'[r].seen[d] \in {wrk[r].seen[d], Absent}
<1> DEFINE Goal == /\ wrk'[r].pc \notin IngestSteps
                   /\ wrk'[r].todo \subseteq wrk[r].todo
                   /\ wrk'[r].pc \in PurgeSteps =>
                        \/ wrk'[r].cur \in wrk[r].todo
                        \/ wrk'[r].cur = wrk[r].cur /\ wrk[r].pc \in PurgeSteps
                   /\ \A d \in wrk'[r].purged :
                        \/ d \in wrk[r].purged
                        \/ wrk[r].pc \in PurgeSteps /\ d = wrk[r].cur /\ d \notin objects'
                   /\ \A d \in Docs : wrk'[r].seen[d] \in {wrk[r].seen[d], Absent}
<1>1. wrk \in [Requests -> Workers] /\ wrk[r] \in Workers
  BY DEF TypeInv, TypeOK, WorkerTypeOK
<1>2. /\ AfterGraph(r) \in {"object_delete", "return"}
      /\ AfterObject(r) \in {"pick", "return"}
  BY DEF AfterGraph, AfterObject
<1>3. ASSUME NEW pc \in PurgeSteps \cup {"pick", "return"}, Step(r, pc), wrk[r].pc \in PurgeSteps
      PROVE  Goal
  <2>1. /\ wrk'[r].pc = pc /\ wrk'[r].cur = wrk[r].cur /\ wrk'[r].todo = wrk[r].todo
        /\ wrk'[r].purged = wrk[r].purged /\ wrk'[r].seen = wrk[r].seen
    BY <1>1, <1>3 DEF Step, Workers
  <2> QED BY <1>3, <2>1 DEF PurgeSteps, IngestSteps
<1>4. CASE DeleteChunks(r) \/ DeleteGraph(r) \/ Sweep(r)
  BY <1>2, <1>3, <1>4 DEF DeleteChunks, DeleteGraph, Sweep, At, PurgeSteps
<1>5. CASE StoreFails(r)
  <2> DEFINE next == IF IsErase(r) THEN "pick"
                     ELSE [qdrant_delete |-> "graph_delete", graph_delete |-> AfterGraph(r),
                           sweep |-> AfterGraph(r), object_delete |-> AfterObject(r)][wrk[r].pc]
  <2>1. wrk[r].pc \in PurgeSteps /\ Step(r, next)
    BY <1>5 DEF StoreFails
  <2>2. next \in PurgeSteps \cup {"pick", "return"}
    BY <1>2, <2>1 DEF PurgeSteps
  <2> HIDE DEF next
  <2> QED BY <1>3, <2>1, <2>2
<1>6. CASE DeleteObject(r)
  <2>1. wrk[r].pc \in PurgeSteps /\ objects' = objects \ {wrk[r].cur}
    BY <1>6 DEF DeleteObject, At, PurgeSteps
  <2>2. /\ wrk'[r].pc = AfterObject(r) /\ wrk'[r].todo = wrk[r].todo
        /\ wrk'[r].purged \subseteq wrk[r].purged \cup {wrk[r].cur}
        /\ wrk'[r].seen = wrk[r].seen
    BY <1>1, <1>6 DEF DeleteObject, Workers
  <2> QED BY <1>2, <2>1, <2>2 DEF PurgeSteps, IngestSteps
<1>7. CASE EraseNext(r)
  <2>1. PICK e \in wrk[r].todo :
          wrk' = [wrk EXCEPT ![r] = [wrk[r] EXCEPT !.pc = "qdrant_delete", !.cur = e,
                                                   !.todo = @ \ {e}]]
    BY <1>7 DEF EraseNext
  <2>2. /\ wrk'[r].pc = "qdrant_delete" /\ wrk'[r].cur = e /\ wrk'[r].todo = wrk[r].todo \ {e}
        /\ wrk'[r].purged = wrk[r].purged /\ wrk'[r].seen = wrk[r].seen
    BY <1>1, <2>1 DEF Workers
  <2> QED BY <2>2 DEF PurgeSteps, IngestSteps
<1>8. CASE EraseCommit(r)
  BY <1>1, <1>8 DEF EraseCommit, Return, IdleWorker, PurgeSteps, IngestSteps
<1> QED
  BY <1>4, <1>5, <1>6, <1>7, <1>8 DEF PurgeStep

-----------------------------------------------------------------------------
(* Who writes the state of a row, and what.                                *)
RowWrite(r, d) ==
  \/ UploadCommit(r) /\ Doc(r) = d /\ docState'[d] \in {"approved", "proposed"}
  \/ /\ ModerateCommit(r) /\ Doc(r) = d /\ handler[r].op \in {"approve", "reject", "delete"}
     /\ docState'[d] = Verdict[handler[r].op]
     /\ <<handler[r].loaded, Verdict[handler[r].op]>> \in trace'[d]
  \/ Kickoff(r) /\ Doc(r) = d /\ docState'[d] = "ingesting"
  \/ PromoteCommit(r) /\ Doc(r) = d /\ docState'[d] = "ingested"
  \/ PromoteCommit(r) /\ Replaces(r) /\ Supersedes[Doc(r)] = d /\ docState'[d] = "superseded"
  \/ IngestFail(r) /\ Doc(r) = d /\ docState'[d] = "ingestion_failed"
  \/ EraseCommit(r) /\ d \in wrk[r].purged /\ docState'[d] = "deleted"

LEMMA RowChanges ==
  ASSUME TypeInv, [Next]_vars, NEW d \in Docs, docState'[d] # docState[d]
  PROVE  \E r \in Requests : RowWrite(r, d)
<1> DEFINE Goal == \E r \in Requests : RowWrite(r, d)
<1>1. docState \in [Docs -> RowStates] /\ trace \in [Docs -> SUBSET TraceRows]
  BY DEF TypeInv, TypeOK, StoresTypeOK
<1>2. ASSUME NEW e, NEW from, NEW to, WriteTransition(e, from, to)
      PROVE  e = d /\ docState'[d] = to /\ <<from, to>> \in trace'[d]
  BY <1>1, <1>2 DEF WriteTransition
<1>3. CASE UNCHANGED docState
  BY <1>3
<1>4. ASSUME NEW r \in Requests, UploadCommit(r) PROVE Goal
  BY <1>1, <1>4 DEF UploadCommit, RowWrite, Doc
<1>5. ASSUME NEW r \in Requests, ModerateCommit(r) PROVE Goal
  <2>1. handler[r].op \in {"approve", "reject", "delete"}
    BY <1>5 DEF ModerateCommit
  <2>2. /\ Doc(r) = d /\ docState'[d] = Verdict[handler[r].op]
        /\ <<handler[r].loaded, Verdict[handler[r].op]>> \in trace'[d]
    BY <1>2, <1>5 DEF ModerateCommit, Doc
  <2> QED BY <1>5, <2>1, <2>2 DEF RowWrite
<1>6. ASSUME NEW r \in Requests, Kickoff(r) PROVE Goal
  BY <1>2, <1>6 DEF Kickoff, RowWrite, Doc
<1>7. ASSUME NEW r \in Requests, PromoteCommit(r) PROVE Goal
  <2>1. CASE Replaces(r)
    <3>1. docState' = [docState EXCEPT ![Doc(r)] = "ingested", ![Supersedes[Doc(r)]] = "superseded"]
      BY <1>7, <2>1 DEF PromoteCommit
    <3>2. \/ Supersedes[Doc(r)] = d /\ docState'[d] = "superseded"
          \/ Doc(r) = d /\ docState'[d] = "ingested"
      BY <1>1, <3>1
    <3> QED BY <1>7, <2>1, <3>2 DEF RowWrite
  <2>2. CASE ~Replaces(r)
    BY <1>2, <1>7, <2>2 DEF PromoteCommit, RowWrite
  <2> QED BY <2>1, <2>2
<1>8. ASSUME NEW r \in Requests, IngestFail(r) PROVE Goal
  BY <1>2, <1>8 DEF IngestFail, RowWrite
<1>9. ASSUME NEW r \in Requests, EraseCommit(r) PROVE Goal
  BY <1>1, <1>9 DEF EraseCommit, RowWrite
<1>10. CASE ApiNext
  BY <1>3, <1>4, <1>5, <1>6, <1>10 DEF ApiNext, HandlerStep, UploadStart, ApproveStart,
     RejectStart, DeleteStart, Load, EraseStart, Refresh, KickoffRefused, Enqueue, HandlerFail
<1>11. CASE WorkerNext
  <2>1. ASSUME NEW r \in Requests, PickUp(r) PROVE Goal
    BY <1>3, <2>1 DEF PickUp, PickIngest, PickCleanup, PickErase, pgVars
  <2>2. ASSUME NEW r \in Requests, IngestStep(r) PROVE Goal
    BY <1>3, <1>7, <1>8, <2>2 DEF IngestStep, SagaCommit, WriteChunks, UpsertDocument,
       LinkSupersedes, UpsertEntities, LinkMentions, WriteFacts, PromoteLoad, pgVars
  <2>3. ASSUME NEW r \in Requests, PurgeStep(r) PROVE Goal
    BY <1>3, <1>9, <2>3 DEF PurgeStep, DeleteChunks, DeleteGraph, Sweep, DeleteObject, StoreFails,
       EraseNext, pgVars
  <2>4. ASSUME NEW r \in Requests, TaskReturn(r) \/ TaskTimeout(r) \/ GiveUp(r) PROVE Goal
    BY <1>3, <2>4 DEF TaskReturn, TaskTimeout, GiveUp, Ends, pgVars
  <2>5. CASE WorkerCrash
    BY <1>3, <2>5 DEF WorkerCrash, pgVars
  <2> QED
    BY <1>11, <2>1, <2>2, <2>3, <2>4, <2>5 DEF WorkerNext, TaskStep
<1>12. CASE UNCHANGED vars
  BY <1>3, <1>12 DEF vars
<1> QED
  BY <1>10, <1>11, <1>12 DEF Next

(* A row is never taken out of the table. *)
LEMMA RowsStay ==
  ASSUME TypeInv, [Next]_vars, NEW d \in Docs, docState[d] # Absent
  PROVE  docState'[d] # Absent
<1>1. CASE docState'[d] = docState[d]
  BY <1>1
<1>2. CASE docState'[d] # docState[d]
  <2>1. PICK r \in Requests : RowWrite(r, d)
    BY <1>2, RowChanges
  <2> QED BY <2>1 DEF RowWrite, Verdict, Absent
<1> QED
  BY <1>1, <1>2

(* Nobody works on a document that has no row: a call past its load, a     *)
(* task it enqueued, and what the session of a task has loaded or is about *)
(* to delete.                                                              *)
HoldsRow(r) ==
  /\ handler[r].op \in DocOps
  /\ handler[r].pc \in {"commit", "refresh", "kickoff", "enqueue"} \/ task[r].status # "none"

RowKnown(r) ==
  /\ HoldsRow(r) => docState[Doc(r)] # Absent
  /\ \A d \in Docs : wrk[r].seen[d] # Absent => docState[d] # Absent
  /\ wrk[r].pc \in PurgeSteps => docState[wrk[r].cur] # Absent
  /\ \A d \in wrk[r].todo \cup wrk[r].purged : docState[d] # Absent

RowInv == \A r \in Requests : RowKnown(r)

(* A step of the API is a step of one call, which has no task yet.         *)
LEMMA ApiMove ==
  ASSUME TypeInv, ApiNext
  PROVE  /\ UNCHANGED <<supersededBy, erased, chunks, nodes, entities, facts, wrk, crashes>>
         /\ \E r \in Requests :
              /\ handler[r].pc # "done" /\ task[r].status = "none" /\ wrk[r].pc = "idle"
              /\ \A q \in Requests : q # r => handler'[q] = handler[q] /\ task'[q] = task[q]
<1>1. PICK r \in Requests :
        \/ \E d \in Docs, direct \in BOOLEAN : UploadStart(r, d, direct)
        \/ \E d \in Docs : ApproveStart(r, d)
        \/ \E d \in Docs : RejectStart(r, d)
        \/ \E d \in Docs, hard \in BOOLEAN : DeleteStart(r, d, hard)
        \/ \E u \in Users : EraseStart(r, u)
        \/ HandlerStep(r)
        \/ HandlerFail(r)
  BY DEF ApiNext
<1>2. UNCHANGED workerVars
  BY <1>1 DEF HandlerStep, UploadStart, UploadCommit, ApproveStart, RejectStart, DeleteStart,
     Load, EraseStart, ModerateCommit, Refresh, Kickoff, KickoffRefused, Enqueue, HandlerFail
<1>3. handler[r].pc # "done"
  BY <1>1 DEF HandlerStep, UploadStart, UploadCommit, ApproveStart, RejectStart, DeleteStart,
     Load, EraseStart, ModerateCommit, Refresh, Kickoff, KickoffRefused, Enqueue, HandlerFail,
     Arrives, Active
<1>4. task[r].status = "none" /\ wrk[r].pc = "idle"
  BY <1>3 DEF TypeInv, Coupled, TaskOfCall
<1>5. ASSUME NEW q \in Requests, q # r PROVE handler'[q] = handler[q] /\ task'[q] = task[q]
  BY <1>1, <1>5 DEF HandlerStep, UploadStart, UploadCommit, ApproveStart, RejectStart,
     DeleteStart, Load, EraseStart, ModerateCommit, Refresh, Kickoff, KickoffRefused, Enqueue,
     HandlerFail, Goto, TypeInv, TypeOK, ApiTypeOK, WorkerTypeOK
<1> QED
  BY <1>2, <1>3, <1>4, <1>5 DEF workerVars

(* A call takes hold of a row when it has loaded it or has inserted it.    *)
LEMMA HoldsRowNext ==
  ASSUME TypeInv, [Next]_vars, NEW r \in Requests, HoldsRow(r) => docState[Doc(r)] # Absent,
         HoldsRow(r)'
  PROVE  docState'[Doc(r)'] # Absent
<1>1. CASE HoldsRow(r)
  <2>1. Doc(r)' = Doc(r)
    BY <1>1, CallFixed DEF HoldsRow, DocOps, Doc
  <2>2. PICK d \in Docs : d = Doc(r)
    BY <1>1 DEF HoldsRow, Doc, TypeInv, TypeOK, ApiTypeOK, HandlerOK
  <2>3. docState'[d] # Absent
    BY <1>1, <2>2, RowsStay
  <2> QED BY <2>1, <2>2, <2>3
<1>2. CASE ~HoldsRow(r) /\ ApiNext
  <2>1. PICK q \in Requests :
          \/ \E d \in Docs, direct \in BOOLEAN : UploadStart(q, d, direct)
          \/ \E d \in Docs : ApproveStart(q, d)
          \/ \E d \in Docs : RejectStart(q, d)
          \/ \E d \in Docs, hard \in BOOLEAN : DeleteStart(q, d, hard)
          \/ \E u \in Users : EraseStart(q, u)
          \/ HandlerStep(q)
          \/ HandlerFail(q)
    BY <1>2 DEF ApiNext
  <2>2. handler[q] \in Handlers /\ HandlerOK(handler[q])
    BY DEF TypeInv, TypeOK, ApiTypeOK
  <2>3. q = r
    BY <1>2, <2>1 DEF HoldsRow, HandlerStep, UploadStart, UploadCommit, ApproveStart, RejectStart,
       DeleteStart, Load, EraseStart, ModerateCommit, Refresh, Kickoff, KickoffRefused, Enqueue,
       HandlerFail, Goto, TypeInv, TypeOK, ApiTypeOK, WorkerTypeOK
  <2>4. ASSUME NEW op, NEW d \in Docs, NEW flag, Load(r, op, d, flag), docState[d] # Absent
        PROVE  docState'[Doc(r)'] # Absent
    BY <2>4 DEF Load, Doc, TypeInv, TypeOK, ApiTypeOK
  <2>5. CASE \/ \E d \in Docs : ApproveStart(r, d)
             \/ \E d \in Docs : RejectStart(r, d)
             \/ \E d \in Docs, hard \in BOOLEAN : DeleteStart(r, d, hard)
    BY <2>4, <2>5 DEF ApproveStart, RejectStart, DeleteStart, CanTransition, DocStates, Absent
  <2>6. CASE UploadCommit(r)
    <3>1. Doc(r)' = Doc(r) /\ Doc(r) \in Docs
      BY <2>2, <2>3, <2>6 DEF UploadCommit, Goto, Doc, TypeInv, TypeOK, ApiTypeOK, Handlers, HandlerOK, OpSteps, DocOps
    <3>2. docState'[Doc(r)] \in {"approved", "proposed"}
      BY <2>6, <3>1 DEF UploadCommit, Doc, TypeInv, TypeOK, StoresTypeOK
    <3> QED BY <3>1, <3>2 DEF Absent
  <2>7. /\ handler'[r].pc \notin {"commit", "refresh", "kickoff", "enqueue"}
        /\ task'[r].status = task[r].status
     \/ handler'[r].op \notin DocOps
     \/ UploadCommit(r)
     \/ (\E d \in Docs : ApproveStart(r, d))
     \/ (\E d \in Docs : RejectStart(r, d))
     \/ \E d \in Docs, hard \in BOOLEAN : DeleteStart(r, d, hard)
    BY <1>2, <2>1, <2>2, <2>3 DEF HandlerStep, UploadStart, EraseStart, ModerateCommit, Refresh, Kickoff,
       KickoffRefused, Enqueue, HandlerFail, Goto, TypeInv, TypeOK, ApiTypeOK, HoldsRow, DocOps,
       HandlerOK, OpSteps, Handlers
  <2>8. handler[r].pc # "done" /\ task[r].status = "none"
    BY <2>1, <2>3 DEF HandlerStep, UploadStart, UploadCommit, ApproveStart, RejectStart, DeleteStart,
       Load, EraseStart, ModerateCommit, Refresh, Kickoff, KickoffRefused, Enqueue, HandlerFail,
       Arrives, Active, TypeInv, Coupled, TaskOfCall
  <2> QED BY <2>5, <2>6, <2>7, <2>8 DEF HoldsRow
<1>3. CASE ~HoldsRow(r) /\ WorkerNext
  BY <1>3, WorkerKeepsCalls, WorkerKeepsUnqueued DEF HoldsRow
<1>4. CASE ~HoldsRow(r) /\ UNCHANGED vars
  BY <1>4 DEF vars, HoldsRow
<1> QED
  BY <1>1, <1>2, <1>3, <1>4 DEF Next

LEMMA RowKnownNext ==
  ASSUME TypeInv, RowInv, [Next]_vars, NEW r \in Requests
  PROVE  RowKnown(r)'
<1> DEFINE Known(w) == /\ \A d \in Docs : w.seen[d] # Absent => docState'[d] # Absent
                       /\ w.pc \in PurgeSteps => docState'[w.cur] # Absent
                       /\ \A d \in w.todo \cup w.purged : docState'[d] # Absent
<1>1. /\ wrk[r] \in Workers /\ wrk \in [Requests -> Workers] /\ RowKnown(r)
      /\ wrk[r].pc \in PurgeSteps => wrk[r].cur \in Docs
      /\ handler[r].op \in DocOps => Doc(r) \in Docs
  BY DEF TypeInv, TypeOK, WorkerTypeOK, Coupled, TaskOfCall, RowInv, ApiTypeOK, HandlerOK, Doc
<1>2. \A d \in Docs : docState[d] # Absent => docState'[d] # Absent
  BY RowsStay
<1>3. wrk[r].todo \subseteq Docs /\ wrk[r].purged \subseteq Docs
  BY <1>1 DEF Workers
<1>4. Known(wrk[r])
  BY <1>1, <1>2, <1>3 DEF RowKnown
<1>5. SUFFICES Known(wrk'[r])
  BY <1>1, HoldsRowNext DEF RowKnown
<1>6. CASE wrk'[r] = wrk[r]
  BY <1>4, <1>6
<1>7. CASE wrk'[r] = IdleWorker \/ wrk'[r] = [IdleWorker EXCEPT !.pc = "return"]
  BY <1>7 DEF IdleWorker, PurgeSteps
<1>8. CASE PickIngest(r)
  <2>1. wrk'[r] = [IdleWorker EXCEPT !.pc = "chunk", !.seen[Doc(r)] = docState[Doc(r)]]
    BY <1>1, <1>8 DEF PickIngest, Take
  <2>2. /\ wrk'[r].pc = "chunk" /\ wrk'[r].todo = {} /\ wrk'[r].purged = {}
        /\ \A d \in Docs : wrk'[r].seen[d] # Absent => d = Doc(r) /\ wrk'[r].seen[d] = docState[d]
    BY <2>1 DEF IdleWorker
  <2> QED BY <1>2, <2>2 DEF PurgeSteps
<1>9. CASE PickCleanup(r)
  <2>1. wrk'[r] = [IdleWorker EXCEPT !.pc = "qdrant_delete", !.cur = Doc(r)]
    BY <1>1, <1>9 DEF PickCleanup, Take
  <2>2. /\ wrk'[r].cur = Doc(r) /\ wrk'[r].todo = {} /\ wrk'[r].purged = {}
        /\ \A d \in Docs : wrk'[r].seen[d] = Absent
    BY <2>1 DEF IdleWorker
  <2>3. handler[r].op = "delete" /\ task[r].status = "queued"
    BY <1>9 DEF PickCleanup, IsCleanup, Take
  <2>4. Doc(r) \in Docs /\ docState[Doc(r)] # Absent
    BY <1>1, <2>3 DEF RowKnown, HoldsRow, DocOps
  <2> QED BY <1>2, <2>2, <2>4
<1>10. CASE PickErase(r)
  <2> DEFINE mine == {d \in Docs : Owner[d] = handler[r].target /\ docState[d] # Absent}
  <2>1. wrk'[r] = [IdleWorker EXCEPT !.pc = "pick", !.todo = mine,
                     !.seen = [d \in Docs |-> IF d \in mine THEN docState[d] ELSE Absent]]
    BY <1>1, <1>10 DEF PickErase, Take
  <2>2. /\ wrk'[r].pc = "pick" /\ wrk'[r].todo = mine /\ wrk'[r].purged = {}
        /\ \A d \in Docs : wrk'[r].seen[d] # Absent => d \in mine
    BY <2>1 DEF IdleWorker
  <2> QED BY <1>2, <2>2 DEF PurgeSteps
<1>11. CASE IngestStep(r)
  <2>1. CASE PromoteLoad(r)
    <3> DEFINE old == Supersedes[Doc(r)]
               seen == IF old = NoDoc THEN wrk[r].seen
                       ELSE [wrk[r].seen EXCEPT ![old] = docState[old]]
    <3>1. wrk' = [wrk EXCEPT ![r] = [wrk[r] EXCEPT !.pc = "commit", !.seen = seen]]
      BY <2>1 DEF PromoteLoad
    <3>2. /\ wrk'[r].pc = "commit" /\ wrk'[r].todo = wrk[r].todo
          /\ wrk'[r].purged = wrk[r].purged /\ wrk'[r].seen = seen
      BY <1>1, <3>1 DEF Workers
    <3>3. \A d \in Docs : seen[d] \in {wrk[r].seen[d], docState[d]}
      BY <1>1 DEF Workers
    <3> HIDE DEF seen
    <3> QED BY <1>2, <1>4, <3>2, <3>3 DEF PurgeSteps
  <2>2. CASE Return(r)
    BY <1>1, <1>7, <2>2 DEF Return
  <2>3. ASSUME NEW pc \in IngestSteps, Step(r, pc) PROVE Known(wrk'[r])
    <3>1. /\ wrk'[r].pc = pc /\ wrk'[r].todo = wrk[r].todo
          /\ wrk'[r].purged = wrk[r].purged /\ wrk'[r].seen = wrk[r].seen
      BY <1>1, <2>3 DEF Step, Workers
    <3> QED BY <1>4, <2>3, <3>1 DEF PurgeSteps, IngestSteps
  <2> QED BY <1>11, <2>1, <2>2, <2>3, IngestMove
<1>12. CASE PurgeStep(r)
  <2>1. /\ wrk'[r].todo \subseteq wrk[r].todo
        /\ wrk'[r].pc \in PurgeSteps =>
             \/ wrk'[r].cur \in wrk[r].todo
             \/ wrk'[r].cur = wrk[r].cur /\ wrk[r].pc \in PurgeSteps
        /\ \A d \in wrk'[r].purged :
             d \in wrk[r].purged \/ (wrk[r].pc \in PurgeSteps /\ d = wrk[r].cur)
        /\ \A d \in Docs : wrk'[r].seen[d] \in {wrk[r].seen[d], Absent}
    BY <1>12, PurgeMove
  <2> QED BY <1>4, <2>1
<1>13. CASE ApiNext \/ UNCHANGED vars
  BY <1>6, <1>13, ApiMove DEF vars
<1>14. CASE WorkerNext
  BY <1>6, <1>7, <1>8, <1>9, <1>10, <1>11, <1>12, <1>14, WorkerMove DEF PickUp
<1> QED
  BY <1>13, <1>14 DEF Next

LEMMA RowNext == TypeInv /\ RowInv /\ [Next]_vars => RowInv'
  BY RowKnownNext DEF RowInv

LEMMA RowInit == Init => RowInv
  BY DEF Init, ApiInit, WorkerInit, RowInv, RowKnown, HoldsRow, IdleHandler, IdleWorker,
     PurgeSteps, DocOps

(* A row appears at the insert of its upload and in no other way.          *)
LEMMA NewRows ==
  ASSUME TypeInv, RowInv, [Next]_vars, NEW d \in Docs, docState[d] = Absent, docState'[d] # Absent
  PROVE  \E r \in Requests : UploadCommit(r) /\ Doc(r) = d
<1>1. PICK r \in Requests : RowWrite(r, d)
  BY RowChanges
<1>2. RowKnown(r) /\ handler[r] \in Handlers /\ HandlerOK(handler[r])
  BY DEF RowInv, TypeInv, TypeOK, ApiTypeOK
<1>3. ASSUME HoldsRow(r), Doc(r) = d PROVE FALSE
  BY <1>2, <1>3 DEF RowKnown
<1>4. ASSUME wrk[r].pc \in IngestSteps PROVE Doc(r) # d
  BY <1>3, <1>4 DEF TypeInv, Coupled, TaskOfCall, HoldsRow, IsIngest, DocOps, IngestSteps
<1>5. CASE ModerateCommit(r) /\ Doc(r) = d
  BY <1>3, <1>5 DEF ModerateCommit, HoldsRow, DocOps
<1>6. CASE Kickoff(r) /\ Doc(r) = d
  BY <1>2, <1>3, <1>6 DEF Kickoff, HoldsRow, DocOps, HandlerOK, OpSteps, Handlers
<1>7. CASE PromoteCommit(r) /\ Doc(r) = d
  BY <1>4, <1>7 DEF PromoteCommit, At, IngestSteps
<1>8. CASE PromoteCommit(r) /\ Replaces(r) /\ Supersedes[Doc(r)] = d
  BY <1>2, <1>8 DEF Replaces, CanTransition, RowKnown, Absent
<1>9. CASE IngestFail(r) /\ Doc(r) = d
  BY <1>4, <1>9 DEF IngestFail, IngestRaises, FallibleSteps, At, IngestSteps
<1>10. CASE d \in wrk[r].purged
  BY <1>2, <1>10 DEF RowKnown
<1> QED
  BY <1>1, <1>5, <1>6, <1>7, <1>8, <1>9, <1>10 DEF RowWrite

(* A deletion, and the erasure of a user, are for good. *)
LEMMA RemovedStays ==
  ASSUME TypeInv, [Next]_vars, NEW d \in Docs
  PROVE  /\ EverDeleted(d) => EverDeleted(d)'
         /\ Removed(d) => Removed(d)'
<1>1. EverDeleted(d) => EverDeleted(d)'
  BY TraceGrows DEF EverDeleted, Traced
<1>2. ASSUME NEW r \in Requests, IsErase(r), handler[r].target = Owner[d]
      PROVE  IsErase(r)' /\ handler'[r].target = Owner[d]
  BY <1>2, CallFixed DEF IsErase
<1> QED
  BY <1>1, <1>2 DEF Removed

(* What the stores hold is taken away by a cleanup or an erasure that has  *)
(* come to the document, and by nothing else.                              *)
LEMMA StoresLose ==
  ASSUME TypeInv, [Next]_vars, NEW d \in Docs,
         \/ d \in objects /\ d \notin objects'
         \/ d \in chunks /\ d \notin chunks'
         \/ d \in nodes /\ d \notin nodes'
         \/ facts[d] \in {"open", "closed"} /\ facts'[d] \notin {"open", "closed"}
         \/ facts[d] = "lost" /\ facts'[d] \notin {"lost", "open", "closed"}
  PROVE  \E r \in Requests : wrk[r].pc \in PurgeSteps /\ wrk[r].cur = d
<1> DEFINE Goal == \E r \in Requests : wrk[r].pc \in PurgeSteps /\ wrk[r].cur = d
<1>1. facts \in [Docs -> FactStates]
  BY DEF TypeInv, TypeOK, StoresTypeOK
<1>2. CASE UNCHANGED storeVars
  BY <1>2 DEF storeVars
<1>3. CASE ApiNext
  <2>1. PICK r \in Requests :
          \/ \E e \in Docs, direct \in BOOLEAN : UploadStart(r, e, direct)
          \/ UNCHANGED objects
    BY <1>3 DEF ApiNext, HandlerStep, UploadCommit, ApproveStart, RejectStart, DeleteStart, Load,
       EraseStart, ModerateCommit, Refresh, Kickoff, KickoffRefused, Enqueue, HandlerFail
  <2>2. objects \subseteq objects'
    BY <2>1 DEF UploadStart
  <2> QED BY <1>3, <2>2, ApiMove
<1>4. ASSUME NEW r \in Requests, PickUp(r) PROVE Goal
  BY <1>2, <1>4 DEF PickUp, PickIngest, PickCleanup, PickErase
<1>5. ASSUME NEW r \in Requests, IngestStep(r) PROVE Goal
  <2>1. CASE SagaCommit(r) \/ PromoteLoad(r) \/ PromoteCommit(r) \/ IngestFail(r)
    BY <1>2, <2>1 DEF SagaCommit, PromoteLoad, PromoteCommit, IngestFail
  <2>2. CASE WriteChunks(r)
    BY <2>2 DEF WriteChunks, graphVars
  <2>3. CASE UpsertDocument(r)
    BY <2>3 DEF UpsertDocument
  <2>4. CASE LinkSupersedes(r) \/ UpsertEntities(r) \/ LinkMentions(r)
    BY <1>1, <2>4 DEF LinkSupersedes, UpsertEntities, LinkMentions
  <2>5. CASE WriteFacts(r)
    BY <1>1, <2>5 DEF WriteFacts
  <2> QED BY <1>5, <2>1, <2>2, <2>3, <2>4, <2>5 DEF IngestStep
<1>6. ASSUME NEW r \in Requests, PurgeStep(r) PROVE Goal
  <2>1. CASE EraseNext(r) \/ EraseCommit(r)
    BY <1>2, <2>1 DEF EraseNext, EraseCommit
  <2>2. ASSUME NEW e, Cascade(e), e # d
        PROVE  (d \in nodes => d \in nodes') /\ facts'[d] = facts[d]
    BY <1>1, <2>2 DEF Cascade, graphVars
  <2>3. CASE DeleteChunks(r) \/ Sweep(r)
    BY <2>3 DEF DeleteChunks, Sweep, At, PurgeSteps, graphVars
  <2>4. CASE DeleteGraph(r)
    BY <2>2, <2>4 DEF DeleteGraph, At, PurgeSteps
  <2>5. CASE DeleteObject(r)
    BY <2>5 DEF DeleteObject, At, PurgeSteps, graphVars
  <2>6. CASE StoreFails(r)
    BY <1>2, <2>6 DEF StoreFails
  <2> QED BY <1>6, <2>1, <2>3, <2>4, <2>5, <2>6 DEF PurgeStep
<1>7. ASSUME NEW r \in Requests, TaskReturn(r) \/ TaskTimeout(r) \/ GiveUp(r) PROVE Goal
  BY <1>2, <1>7 DEF TaskReturn, TaskTimeout, GiveUp, Ends
<1>8. CASE WorkerCrash
  BY <1>2, <1>8 DEF WorkerCrash
<1>9. CASE UNCHANGED vars
  BY <1>2, <1>9 DEF vars, storeVars
<1> QED
  BY <1>3, <1>4, <1>5, <1>6, <1>7, <1>8, <1>9 DEF Next, WorkerNext, TaskStep

(* A file comes before its row. *)
LEMMA FilesComeFirst ==
  ASSUME TypeInv, [Next]_vars, NEW d \in objects', d \notin objects
  PROVE  docState[d] = Absent
<1>1. CASE ApiNext
  BY <1>1 DEF ApiNext, HandlerStep, UploadStart, UploadCommit, ApproveStart, RejectStart,
     DeleteStart, Load, EraseStart, ModerateCommit, Refresh, Kickoff, KickoffRefused, Enqueue,
     HandlerFail
<1>2. CASE WorkerNext
  <2> DEFINE Goal == objects' \subseteq objects
  <2>1. ASSUME NEW r \in Requests, PickUp(r) PROVE Goal
    BY <2>1 DEF PickUp, PickIngest, PickCleanup, PickErase, storeVars
  <2>2. ASSUME NEW r \in Requests, IngestStep(r) PROVE Goal
    BY <2>2 DEF IngestStep, SagaCommit, WriteChunks, UpsertDocument, LinkSupersedes, UpsertEntities, LinkMentions, WriteFacts,
       PromoteLoad, PromoteCommit, IngestFail, storeVars
  <2>3. ASSUME NEW r \in Requests, PurgeStep(r) PROVE Goal
    BY <2>3 DEF PurgeStep, DeleteChunks, DeleteGraph, Sweep, DeleteObject, StoreFails, EraseNext,
       EraseCommit, storeVars
  <2>4. ASSUME NEW r \in Requests, TaskReturn(r) \/ TaskTimeout(r) \/ GiveUp(r) PROVE Goal
    BY <2>4 DEF TaskReturn, TaskTimeout, GiveUp, Ends, storeVars
  <2>5. CASE WorkerCrash
    BY <2>5 DEF WorkerCrash, storeVars
  <2> QED
    BY <1>2, <2>1, <2>2, <2>3, <2>4, <2>5 DEF WorkerNext, TaskStep
<1>3. CASE UNCHANGED vars
  BY <1>3 DEF vars
<1> QED
  BY <1>1, <1>2, <1>3 DEF Next

-----------------------------------------------------------------------------
(* The documents that were deleted, and those nobody need find any more.   *)
Deleted == {d \in Docs : EverDeleted(d)}
Gone    == {d \in Docs : Removed(d)}

(* An upload that has stored its file, and a deletion that is committed.   *)
CallKept(r) ==
  /\ handler[r].pc = "insert" => handler[r].target \in objects \cup Gone
  /\ IsCleanup(r) /\ (handler[r].pc = "enqueue" \/ task[r].status # "none") => Doc(r) \in Deleted

(* A task takes out of the stores only what is gone, and an erasure counts *)
(* as purged only what has no file.                                        *)
PurgeKept(r) ==
  /\ wrk[r].pc \in PurgeSteps => wrk[r].cur \in Gone
  /\ wrk[r].todo \subseteq Gone
  /\ wrk[r].purged \cap objects = {}

FileInv ==
  /\ \A r \in Requests : CallKept(r) /\ PurgeKept(r)
  /\ \A d \in Docs : docState[d] # Absent => d \in objects \cup Gone
  /\ \A d \in Docs : docState[d] = "deleted" => d \in Deleted \/ d \notin objects

LEMMA GoneGrows ==
  ASSUME TypeInv, [Next]_vars
  PROVE  Deleted \subseteq Deleted' /\ Gone \subseteq Gone' /\ Deleted \subseteq Gone
  BY RemovedStays DEF Deleted, Gone, Removed

(* What leaves a store is gone, so that "in the store or gone" is kept.    *)
LEMMA LostIsGone ==
  ASSUME TypeInv, FileInv, [Next]_vars, NEW d \in Docs
  PROVE  /\ d \in objects \cup Gone => d \in objects' \cup Gone'
         /\ d \in chunks \cup Gone => d \in chunks' \cup Gone'
         /\ d \in nodes \cup Gone => d \in nodes' \cup Gone'
         /\ facts[d] \in {"open", "closed"} => facts'[d] \in {"open", "closed"} \/ d \in Gone'
         /\ facts[d] = "lost" => facts'[d] \in {"lost", "open", "closed"} \/ d \in Gone'
<1>1. ASSUME NEW r \in Requests, wrk[r].pc \in PurgeSteps, wrk[r].cur = d PROVE d \in Gone
  BY <1>1 DEF FileInv, PurgeKept
<1> QED
  BY <1>1, StoresLose, GoneGrows

LEMMA CallKeptNext ==
  ASSUME TypeInv, GateInv, FileInv, [Next]_vars, NEW r \in Requests
  PROVE  CallKept(r)'
<1>1. handler[r] \in Handlers /\ HandlerOK(handler[r]) /\ CallKept(r) /\ CallGate(r)
  BY DEF TypeInv, TypeOK, ApiTypeOK, FileInv, GateInv
<1>2. CASE handler'[r] = handler[r] /\ (task[r].status = "none" => task'[r].status = "none")
  <2>1. ASSUME handler[r].pc = "insert"
        PROVE  handler[r].target \in objects' \cup Gone'
    <3>1. PICK d \in Docs : d = handler[r].target
      BY <1>1, <2>1 DEF HandlerOK, OpSteps, DocOps, Handlers
    <3> QED BY <1>1, <2>1, <3>1, LostIsGone DEF CallKept
  <2> QED BY <1>1, <1>2, <2>1, GoneGrows DEF CallKept, IsCleanup, Doc
<1>3. CASE WorkerNext
  BY <1>2, <1>3, WorkerKeepsCalls, WorkerKeepsUnqueued
<1>4. CASE UNCHANGED vars
  BY <1>2, <1>4 DEF vars
<1>5. CASE ApiNext
  <2>1. PICK q \in Requests :
          \/ \E d \in Docs, direct \in BOOLEAN : UploadStart(q, d, direct)
          \/ \E d \in Docs : ApproveStart(q, d)
          \/ \E d \in Docs : RejectStart(q, d)
          \/ \E d \in Docs, hard \in BOOLEAN : DeleteStart(q, d, hard)
          \/ \E u \in Users : EraseStart(q, u)
          \/ HandlerStep(q)
          \/ HandlerFail(q)
    BY <1>5 DEF ApiNext
  <2>2. CASE q # r
    <3>1. handler'[r] = handler[r] /\ task'[r] = task[r]
      BY <2>1, <2>2 DEF HandlerStep, UploadStart, UploadCommit, ApproveStart, RejectStart,
         DeleteStart, Load, EraseStart, ModerateCommit, Refresh, Kickoff, KickoffRefused, Enqueue,
         HandlerFail, Goto, TypeInv, TypeOK, ApiTypeOK, WorkerTypeOK
    <3> QED BY <1>2, <3>1
  <2>3. CASE q = r /\ \E d \in Docs, direct \in BOOLEAN : UploadStart(r, d, direct)
    BY <2>3 DEF UploadStart, CallKept, IsCleanup, TypeInv, TypeOK, ApiTypeOK
  <2>4. CASE q = r /\ ModerateCommit(r)
    <3> DEFINE to == Verdict[handler[r].op]
    <3>1. /\ handler'[r].op = handler[r].op /\ handler'[r].target = handler[r].target
          /\ handler'[r].pc # "insert" /\ handler[r].target \in Docs
          /\ handler[r].loaded \in DocStates
      BY <1>1, <2>4 DEF ModerateCommit, Goto, TypeInv, TypeOK, ApiTypeOK, Handlers, HandlerOK,
         OpSteps, DocOps, CallGate, CanTransition
    <3>2. PICK d \in Docs : d = handler[r].target
      BY <3>1
    <3>3. <<handler[r].loaded, to>> \in trace'[d]
      BY <2>4, <3>2 DEF ModerateCommit, WriteTransition, TypeInv, TypeOK, StoresTypeOK
    <3>4. handler[r].op = "delete" => d \in Deleted'
      BY <3>1, <3>3 DEF Verdict, Deleted, EverDeleted, Traced
    <3> QED BY <3>1, <3>2, <3>4 DEF CallKept, IsCleanup, Doc
  <2>5. CASE q = r /\ Enqueue(r)
    <3>1. /\ handler'[r].op = handler[r].op /\ handler'[r].target = handler[r].target
          /\ handler'[r].pc = "done" /\ handler[r].pc = "enqueue"
      BY <1>1, <2>5 DEF Enqueue, Goto, TypeInv, TypeOK, ApiTypeOK, Handlers
    <3> QED BY <1>1, <3>1, GoneGrows DEF CallKept, IsCleanup, Doc
  <2>6. CASE q = r /\ ~ModerateCommit(r) /\ ~Enqueue(r)
             /\ ~\E d \in Docs, direct \in BOOLEAN : UploadStart(r, d, direct)
    <3>3. UNCHANGED task /\ handler[r].pc # "done"
      BY <2>1, <2>6 DEF HandlerStep, UploadCommit, ApproveStart, RejectStart, DeleteStart,
         Load, EraseStart, Refresh, Kickoff, KickoffRefused, HandlerFail, Arrives, Active
    <3>1. handler'[r].pc # "insert" /\ task'[r].status = "none"
      <4>1. handler'[r].pc # "insert"
        <5>1. handler \in [Requests -> Handlers]
          BY DEF TypeInv, TypeOK, ApiTypeOK
        <5>2. CASE UploadCommit(r) \/ Refresh(r) \/ Kickoff(r) \/ KickoffRefused(r) \/ HandlerFail(r)
          BY <1>1, <5>1, <5>2 DEF UploadCommit, Refresh, Kickoff, KickoffRefused, HandlerFail, Goto,
             Handlers
        <5>3. ASSUME NEW op, NEW d, NEW flag, Load(r, op, d, flag)
              PROVE  handler'[r].pc # "insert"
          BY <5>1, <5>3 DEF Load
        <5>4. CASE \E u \in Users : EraseStart(r, u)
          BY <5>1, <5>4 DEF EraseStart
        <5> QED
          BY <2>1, <2>6, <5>2, <5>3, <5>4 DEF HandlerStep, ApproveStart, RejectStart, DeleteStart
      <4>2. task[r].status = "none"
        BY <3>3 DEF TypeInv, Coupled, TaskOfCall
      <4> QED BY <3>3, <4>1, <4>2
    <3>2. ~(IsCleanup(r)' /\ handler'[r].pc = "enqueue")
      BY <1>1, <2>1, <2>6 DEF HandlerStep, UploadCommit, ApproveStart, RejectStart, DeleteStart,
         Load, EraseStart, Refresh, Kickoff, KickoffRefused, HandlerFail, Goto,
         TypeInv, TypeOK, ApiTypeOK, IsCleanup, HandlerOK, OpSteps, Handlers
    <3> QED BY <3>1, <3>2 DEF CallKept
  <2> QED BY <2>2, <2>3, <2>4, <2>5, <2>6
<1> QED
  BY <1>3, <1>4, <1>5 DEF Next

LEMMA PurgeKeptNext ==
  ASSUME TypeInv, RowInv, FileInv, [Next]_vars, NEW r \in Requests
  PROVE  PurgeKept(r)'
<1> DEFINE Kept(w) == /\ w.pc \in PurgeSteps => w.cur \in Gone'
                      /\ w.todo \subseteq Gone'
                      /\ w.purged \cap objects' = {}
<1>1. /\ wrk[r] \in Workers /\ wrk \in [Requests -> Workers]
      /\ PurgeKept(r) /\ CallKept(r) /\ RowKnown(r)
  BY DEF TypeInv, TypeOK, WorkerTypeOK, FileInv, RowInv
<1>2. ASSUME NEW d \in wrk[r].purged PROVE d \notin objects'
  BY <1>1, <1>2, FilesComeFirst DEF PurgeKept, RowKnown
<1>3. Kept(wrk[r])
  BY <1>1, <1>2, GoneGrows DEF PurgeKept
<1>4. SUFFICES Kept(wrk'[r])
  BY DEF PurgeKept
<1>5. CASE wrk'[r] = wrk[r]
  BY <1>3, <1>5
<1>6. CASE wrk'[r] = IdleWorker \/ wrk'[r] = [IdleWorker EXCEPT !.pc = "return"]
  BY <1>6 DEF IdleWorker, PurgeSteps
<1>7. CASE PickIngest(r)
  <2>1. wrk'[r] = [IdleWorker EXCEPT !.pc = "chunk", !.seen[Doc(r)] = docState[Doc(r)]]
    BY <1>1, <1>7 DEF PickIngest, Take
  <2> QED BY <2>1 DEF IdleWorker, PurgeSteps
<1>8. CASE PickCleanup(r)
  <2>1. wrk'[r] = [IdleWorker EXCEPT !.pc = "qdrant_delete", !.cur = Doc(r)]
    BY <1>1, <1>8 DEF PickCleanup, Take
  <2>2. Doc(r) \in Deleted
    BY <1>1, <1>8 DEF PickCleanup, Take, CallKept
  <2> QED BY <2>1, <2>2, GoneGrows DEF IdleWorker
<1>9. CASE PickErase(r)
  <2> DEFINE mine == {d \in Docs : Owner[d] = handler[r].target /\ docState[d] # Absent}
  <2>1. wrk'[r] = [IdleWorker EXCEPT !.pc = "pick", !.todo = mine,
                     !.seen = [d \in Docs |-> IF d \in mine THEN docState[d] ELSE Absent]]
    BY <1>1, <1>9 DEF PickErase, Take
  <2>2. wrk'[r].pc = "pick" /\ wrk'[r].todo = mine /\ wrk'[r].purged = {}
    BY <2>1 DEF IdleWorker
  <2>3. mine \subseteq Gone
    BY <1>9 DEF PickErase, Gone, Removed
  <2> QED BY <2>2, <2>3, GoneGrows DEF PurgeSteps
<1>10. CASE IngestStep(r)
  <2>1. CASE PromoteLoad(r)
    <3>1. wrk'[r].pc = "commit" /\ wrk'[r].todo = wrk[r].todo /\ wrk'[r].purged = wrk[r].purged
      BY <1>1, <2>1 DEF PromoteLoad, Workers
    <3> QED BY <1>3, <3>1 DEF PurgeSteps
  <2>2. CASE Return(r)
    BY <1>1, <1>6, <2>2 DEF Return
  <2>3. ASSUME NEW pc \in IngestSteps, Step(r, pc) PROVE Kept(wrk'[r])
    <3>1. wrk'[r].pc = pc /\ wrk'[r].todo = wrk[r].todo /\ wrk'[r].purged = wrk[r].purged
      BY <1>1, <2>3 DEF Step, Workers
    <3> QED BY <1>3, <2>3, <3>1 DEF PurgeSteps, IngestSteps
  <2> QED BY <1>10, <2>1, <2>2, <2>3, IngestMove
<1>11. CASE PurgeStep(r)
  <2>1. /\ wrk'[r].todo \subseteq wrk[r].todo
        /\ wrk'[r].pc \in PurgeSteps =>
             \/ wrk'[r].cur \in wrk[r].todo
             \/ wrk'[r].cur = wrk[r].cur /\ wrk[r].pc \in PurgeSteps
        /\ \A d \in wrk'[r].purged : d \in wrk[r].purged \/ d \notin objects'
    BY <1>11, PurgeMove
  <2> QED BY <1>3, <2>1
<1>12. CASE ApiNext \/ UNCHANGED vars
  BY <1>5, <1>12, ApiMove DEF vars
<1>13. CASE WorkerNext
  BY <1>5, <1>6, <1>7, <1>8, <1>9, <1>10, <1>11, <1>13, WorkerMove DEF PickUp
<1> QED
  BY <1>12, <1>13 DEF Next

LEMMA FileNext == TypeInv /\ GateInv /\ RowInv /\ FileInv /\ [Next]_vars => FileInv'
<1> SUFFICES ASSUME TypeInv, GateInv, RowInv, FileInv, [Next]_vars PROVE FileInv'
  OBVIOUS
<1>1. ASSUME NEW d \in Docs, docState'[d] # Absent PROVE d \in objects' \cup Gone'
  <2>1. CASE docState[d] # Absent
    BY <2>1, LostIsGone DEF FileInv
  <2>2. CASE docState[d] = Absent
    <3>1. PICK r \in Requests : UploadCommit(r) /\ Doc(r) = d
      BY <1>1, <2>2, NewRows
    <3>2. d \in objects \cup Gone
      BY <3>1 DEF UploadCommit, Doc, FileInv, CallKept
    <3> QED BY <3>2, LostIsGone
  <2> QED BY <2>1, <2>2
<1>2. ASSUME NEW d \in Docs, docState'[d] = "deleted" PROVE d \in Deleted' \/ d \notin objects'
  <2>1. CASE docState[d] = "deleted"
    BY <2>1, FilesComeFirst, GoneGrows DEF FileInv, Absent
  <2>2. CASE docState[d] # "deleted"
    <3>1. PICK r \in Requests : RowWrite(r, d)
      BY <1>2, <2>2, RowChanges
    <3>2. CASE EraseCommit(r) /\ d \in wrk[r].purged
      BY <3>2 DEF EraseCommit, storeVars, FileInv, PurgeKept
    <3>3. CASE /\ ModerateCommit(r) /\ Doc(r) = d
               /\ <<handler[r].loaded, "deleted">> \in trace'[d]
      <4>1. handler[r].loaded \in DocStates
        BY <3>3 DEF ModerateCommit, GateInv, CallGate, CanTransition
      <4> QED BY <3>3, <4>1 DEF Deleted, EverDeleted, Traced
    <3> QED BY <1>2, <3>1, <3>2, <3>3 DEF RowWrite, Verdict
  <2> QED BY <2>1, <2>2
<1> QED
  BY <1>1, <1>2, CallKeptNext, PurgeKeptNext DEF FileInv

LEMMA FileInit == Init => FileInv
  BY DEF Init, StoresInit, ApiInit, WorkerInit, FileInv, CallKept, PurgeKept, IdleHandler,
     IdleWorker, PurgeSteps, IsCleanup, Absent

LEMMA GateKept == Spec => []GateInv
<1>1. Init => GateInv
  BY DEF Init, StoresInit, ApiInit, WorkerInit, GateInv, CallGate, IdleHandler, IsIngest
<1> QED
  BY <1>1, TypeCorrect, GateNext, PTL DEF Spec

(* The rows, the calls and the tasks of documents agree on what exists and *)
(* what is gone (documents.py:68-118, tasks.py:27-78).                     *)
THEOREM FilesFollowRows == Spec => [](RowInv /\ FileInv)
  BY RowInit, RowNext, FileInit, FileNext, TypeCorrect, GateKept, PTL DEF Spec

(* The file of a document that nobody deleted can be downloaded, however   *)
(* uploads, approvals, cleanups and erasures interleave and wherever they  *)
(* stop (documents.py:68-91, tasks.py:27-78).                              *)
THEOREM FilesAreKept == Spec => []FileKept
<1>1. FileInv => FileKept
  BY DEF FileInv, FileKept, Gone
<1> QED
  BY <1>1, FilesFollowRows, PTL

(* An erasure declares deleted only what has lost its file, whatever store *)
(* raised and whoever deletes beside it (tasks.py:69-78).                  *)
THEOREM ErasedHasNoFile == Spec => []ErasedFileIsGone
<1>1. FileInv => ErasedFileIsGone
  BY DEF FileInv, ErasedFileIsGone, Deleted
<1> QED
  BY <1>1, FilesFollowRows, PTL

-----------------------------------------------------------------------------
(* The steps of a saga that come after the chunks, the node and the facts  *)
(* are written.                                                            *)
AfterFacts  == {"neo4j_commit", "promote", "commit"}
AfterNode   == {"link", "entities", "mentions", "facts"} \cup AfterFacts
AfterChunks == {"qdrant_commit", "node"} \cup AfterNode

InChunks(d) == d \in chunks \cup Gone
InNodes(d)  == d \in nodes \cup Gone
InFacts(d)  ==
  facts[d] \in {"open", "closed"} \/ (facts[d] = "lost" /\ Gone # {}) \/ d \in Gone

(* What a saga has written is still there, or the document is gone; and a  *)
(* saga that is about to commit step C was let into it.                    *)
Written(r) ==
  /\ wrk[r].pc \in AfterChunks => InChunks(Doc(r))
  /\ wrk[r].pc \in AfterNode   => InNodes(Doc(r))
  /\ wrk[r].pc \in AfterFacts  => InFacts(Doc(r))
  /\ wrk[r].pc = "commit"      => wrk[r].seen[Doc(r)] = "ingesting"

Shown(d) == InChunks(d) /\ InNodes(d) /\ InFacts(d)

(* What the row of a replaced document says of its replacement. *)
Replaced(old) ==
  LET new == supersededBy[old]
  IN  /\ Supersedes[new] = old
      /\ Traced(new, "ingesting", "ingested")
      /\ Traced(old, "ingested", "superseded")
      /\ Shown(new)

(* Entities are swept when something is removed, and not before. *)
SweptAfter == \A d \in Docs : entities[d] = "swept" => Gone # {}

IndexInv ==
  /\ SweptAfter
  /\ \A r \in Requests : Written(r)
  /\ \A d \in Docs : docState[d] = "ingested" => Shown(d)
  /\ \A d \in Docs : docState[d] = "superseded" => supersededBy[d] # NoDoc
  /\ \A d \in Docs : supersededBy[d] # NoDoc => Replaced(d)

LEMMA ShownStays ==
  ASSUME TypeInv, FileInv, [Next]_vars, NEW d \in Docs
  PROVE  /\ InChunks(d) => InChunks(d)'
         /\ InNodes(d) => InNodes(d)'
         /\ InFacts(d) => InFacts(d)'
         /\ Shown(d) => Shown(d)'
<1>1. /\ InChunks(d) => InChunks(d)'
      /\ InNodes(d) => InNodes(d)'
      /\ InFacts(d) => InFacts(d)'
  BY LostIsGone, GoneGrows DEF InChunks, InNodes, InFacts
<1> QED
  BY <1>1 DEF Shown

(* A saga that the step leaves where it is keeps what it has written. *)
LEMMA WrittenFrame ==
  ASSUME TypeInv, FileInv, [Next]_vars, NEW r \in Requests, Written(r), wrk'[r] = wrk[r]
  PROVE  Written(r)'
<1>1. CASE wrk[r].pc \in IngestSteps
  <2>1. IsIngest(r) /\ Doc(r) \in Docs
    BY <1>1, IngestDoc DEF TypeInv, Coupled, TaskOfCall
  <2>2. Doc(r)' = Doc(r)
    BY <2>1, CallFixed DEF IsIngest, Doc
  <2>3. PICK d \in Docs : d = Doc(r) /\ d = Doc(r)'
    BY <2>1, <2>2
  <2>4. /\ wrk[r].pc \in AfterChunks => InChunks(d)'
        /\ wrk[r].pc \in AfterNode => InNodes(d)'
        /\ wrk[r].pc \in AfterFacts => InFacts(d)'
    BY <2>3, ShownStays DEF Written
  <2> QED BY <2>3, <2>4 DEF Written, InChunks, InNodes, InFacts
<1>2. CASE wrk[r].pc \notin IngestSteps
  BY <1>2 DEF Written, IngestSteps, AfterChunks, AfterNode, AfterFacts
<1> QED
  BY <1>1, <1>2

LEMMA WrittenIngest ==
  ASSUME TypeInv, FileInv, SweptAfter, NEW r \in Requests, Written(r), IngestStep(r)
  PROVE  Written(r)'
<1>1. /\ wrk[r].pc \in IngestSteps /\ IsIngest(r) /\ Doc(r) \in Docs
      /\ wrk \in [Requests -> Workers] /\ wrk[r] \in Workers
  BY IngestMove DEF TypeInv, TypeOK, WorkerTypeOK
<1>2. [Next]_vars
  BY DEF Next, WorkerNext, TaskStep
<1>3. PICK d \in Docs : d = Doc(r)
  BY <1>1
<1>4. handler' = handler
  BY DEF IngestStep, SagaCommit, WriteChunks, UpsertDocument, LinkSupersedes, UpsertEntities, LinkMentions, WriteFacts,
     PromoteLoad, PromoteCommit, IngestFail
<1>5. /\ InChunks(d) => InChunks(d)'
      /\ InNodes(d) => InNodes(d)'
      /\ InFacts(d) => InFacts(d)'
  BY <1>2, ShownStays
<1>6. SUFFICES /\ wrk'[r].pc \in AfterChunks => InChunks(d)'
               /\ wrk'[r].pc \in AfterNode   => InNodes(d)'
               /\ wrk'[r].pc \in AfterFacts  => InFacts(d)'
               /\ wrk'[r].pc = "commit"      => wrk'[r].seen[d] = "ingesting"
  BY <1>3, <1>4 DEF Written, Doc, InChunks, InNodes, InFacts
<1> USE DEF AfterChunks, AfterNode, AfterFacts
<1>7. CASE SagaCommit(r)
  <2>1. wrk'[r].pc = SagaCommits[wrk[r].pc].next
    BY <1>1, <1>7 DEF SagaCommit, Step, Workers
  <2>2. \/ wrk'[r].pc \in {"extract", "resolve", "qdrant"}
        \/ wrk[r].pc = "qdrant_commit" /\ wrk'[r].pc = "node"
        \/ wrk[r].pc = "neo4j_commit" /\ wrk'[r].pc = "promote"
    BY <1>7, <2>1 DEF SagaCommit, SagaCommits
  <2> QED BY <1>3, <1>5, <2>2 DEF Written
<1>8. CASE WriteChunks(r)
  <2>1. wrk'[r].pc = "qdrant_commit" /\ d \in chunks'
    BY <1>1, <1>3, <1>8 DEF WriteChunks, Step, Workers
  <2> QED BY <2>1 DEF InChunks
<1>9. CASE UpsertDocument(r)
  <2>1. wrk[r].pc = "node" /\ wrk'[r].pc \in {"link", "entities"} /\ d \in nodes'
    BY <1>1, <1>3, <1>9 DEF UpsertDocument, At, Step, Workers
  <2> QED BY <1>3, <1>5, <2>1 DEF InNodes, Written
<1>10. CASE LinkSupersedes(r) \/ UpsertEntities(r) \/ LinkMentions(r)
  <2>1. /\ wrk[r].pc \in {"link", "entities", "mentions"}
        /\ wrk'[r].pc \in {"entities", "mentions", "facts"}
    BY <1>1, <1>10 DEF LinkSupersedes, UpsertEntities, LinkMentions, At, Step, Workers
  <2> QED BY <1>3, <1>5, <2>1 DEF Written
<1>11. CASE WriteFacts(r)
  <2>1. wrk[r].pc = "facts" /\ wrk'[r].pc = "neo4j_commit"
    BY <1>1, <1>11 DEF WriteFacts, At, Step, Workers
  <2>2. facts'[d] \in {"open", "closed"} \/ (facts'[d] = "lost" /\ entities[d] = "swept")
    <3>1. facts'[d] = IF facts[d] \in {"open", "closed"} THEN facts[d]
                      ELSE IF entities[d] = "swept" THEN "lost" ELSE "open"
      BY <1>3, <1>11 DEF WriteFacts, TypeInv, TypeOK, StoresTypeOK
    <3> QED BY <3>1
  <2>3. entities[d] = "swept" => Gone' # {}
    BY <1>2, GoneGrows DEF SweptAfter
  <2> QED BY <1>3, <1>5, <2>1, <2>2, <2>3 DEF InFacts, Written
<1>12. CASE PromoteLoad(r)
  <2>1. wrk[r].pc = "promote" /\ wrk'[r].pc = "commit"
    BY <1>1, <1>12 DEF PromoteLoad, At, Workers
  <2>2. wrk[r].seen[d] = "ingesting"
    BY <1>3, <1>12 DEF PromoteLoad, CanTransition, Allowed, DocStates
  <2>3. wrk'[r].seen[d] = wrk[r].seen[d]
    BY <1>1, <1>3, <1>12, SupersedesAssumption DEF PromoteLoad, Workers
  <2> QED BY <1>3, <1>5, <2>1, <2>2, <2>3 DEF Written
<1>13. CASE PromoteCommit(r) \/ IngestFail(r)
  <2>1. wrk'[r].pc = "return"
    BY <1>1, <1>13 DEF PromoteCommit, IngestFail, Return, IdleWorker
  <2> QED BY <2>1
<1> QED
  BY <1>7, <1>8, <1>9, <1>10, <1>11, <1>12, <1>13 DEF IngestStep

LEMMA WrittenNext ==
  ASSUME TypeInv, FileInv, SweptAfter, [Next]_vars, NEW r \in Requests, Written(r)
  PROVE  Written(r)'
<1>1. CASE wrk'[r] = wrk[r]
  BY <1>1, WrittenFrame
<1>2. CASE wrk'[r].pc \notin IngestSteps \/ wrk'[r].pc = "chunk"
  BY <1>2 DEF Written, IngestSteps, AfterChunks, AfterNode, AfterFacts
<1>3. CASE PickUp(r) \/ wrk'[r] = IdleWorker
  <2>1. wrk \in [Requests -> Workers]
    BY DEF TypeInv, TypeOK, WorkerTypeOK
  <2>2. CASE PickIngest(r)
    <3>1. wrk'[r] = [IdleWorker EXCEPT !.pc = "chunk", !.seen[Doc(r)] = docState[Doc(r)]]
      BY <2>1, <2>2 DEF PickIngest, Take
    <3> QED BY <1>2, <3>1 DEF IdleWorker
  <2>3. CASE PickCleanup(r) \/ PickErase(r) \/ wrk'[r] = IdleWorker
    <3>1. CASE PickCleanup(r)
      <4>1. wrk'[r] = [IdleWorker EXCEPT !.pc = "qdrant_delete", !.cur = Doc(r)]
        BY <2>1, <3>1 DEF PickCleanup, Take
      <4> QED BY <1>2, <4>1 DEF IdleWorker, IngestSteps
    <3>2. CASE PickErase(r)
      <4>1. PICK mine, seen :
              wrk'[r] = [IdleWorker EXCEPT !.pc = "pick", !.todo = mine, !.seen = seen]
        BY <2>1, <3>2 DEF PickErase, Take
      <4> QED BY <1>2, <4>1 DEF IdleWorker, IngestSteps
    <3>3. CASE wrk'[r] = IdleWorker
      BY <1>2, <3>3 DEF IdleWorker, IngestSteps
    <3> QED BY <2>3, <3>1, <3>2, <3>3
  <2> QED BY <1>3, <2>2, <2>3 DEF PickUp
<1>4. CASE PurgeStep(r)
  BY <1>2, <1>4, PurgeMove
<1>5. CASE ApiNext \/ UNCHANGED vars
  BY <1>1, <1>5, ApiMove DEF vars
<1>6. CASE WorkerNext
  BY <1>1, <1>3, <1>4, <1>6, WrittenIngest, WorkerMove
<1> QED
  BY <1>5, <1>6 DEF Next

(* Step C is the only step that writes superseded_by_id.                   *)
LEMMA ReplacedByCommit ==
  ASSUME TypeInv, [Next]_vars, NEW old \in Docs, supersededBy'[old] # supersededBy[old]
  PROVE  \E r \in Requests :
           /\ PromoteCommit(r) /\ Replaces(r) /\ Supersedes[Doc(r)] = old
           /\ supersededBy'[old] = Doc(r)
<1> DEFINE Goal == \E r \in Requests :
                     /\ PromoteCommit(r) /\ Replaces(r) /\ Supersedes[Doc(r)] = old
                     /\ supersededBy'[old] = Doc(r)
<1>1. ASSUME NEW r \in Requests, PromoteCommit(r) PROVE Goal
  BY <1>1 DEF PromoteCommit, TypeInv, TypeOK, StoresTypeOK
<1>2. CASE UNCHANGED supersededBy
  BY <1>2
<1>3. CASE ApiNext
  BY <1>2, <1>3, ApiMove
<1>4. ASSUME NEW r \in Requests, PickUp(r) PROVE Goal
  BY <1>2, <1>4 DEF PickUp, PickIngest, PickCleanup, PickErase, pgVars
<1>5. ASSUME NEW r \in Requests, IngestStep(r) PROVE Goal
  BY <1>1, <1>2, <1>5 DEF IngestStep, SagaCommit, WriteChunks, UpsertDocument, LinkSupersedes,
     UpsertEntities, LinkMentions, WriteFacts, PromoteLoad, IngestFail, pgVars
<1>6. ASSUME NEW r \in Requests, PurgeStep(r) PROVE Goal
  BY <1>2, <1>6 DEF PurgeStep, DeleteChunks, DeleteGraph, Sweep, DeleteObject, StoreFails, EraseNext,
     EraseCommit, pgVars
<1>7. ASSUME NEW r \in Requests, TaskReturn(r) \/ TaskTimeout(r) \/ GiveUp(r) PROVE Goal
  BY <1>2, <1>7 DEF TaskReturn, TaskTimeout, GiveUp, Ends, pgVars
<1>8. CASE WorkerCrash
  BY <1>2, <1>8 DEF WorkerCrash, pgVars
<1>9. CASE UNCHANGED vars
  BY <1>2, <1>9 DEF vars
<1> QED
  BY <1>3, <1>4, <1>5, <1>6, <1>7, <1>8, <1>9 DEF Next, WorkerNext, TaskStep

(* What step C finds when it commits: everything is written.               *)
LEMMA CommitShows ==
  ASSUME TypeInv, IndexInv, NEW r \in Requests, PromoteCommit(r)
  PROVE  Doc(r) \in Docs /\ Shown(Doc(r)) /\ wrk[r].seen[Doc(r)] = "ingesting"
<1>1. wrk[r].pc = "commit"
  BY DEF PromoteCommit, At
<1>2. Doc(r) \in Docs
  BY <1>1, IngestDoc DEF TypeInv, Coupled, TaskOfCall, IngestSteps
<1> QED
  BY <1>1, <1>2 DEF IndexInv, Written, Shown, AfterChunks, AfterNode, AfterFacts

LEMMA ReplacedNext ==
  ASSUME TypeInv, FileInv, IndexInv, [Next]_vars, NEW old \in Docs, supersededBy'[old] # NoDoc
  PROVE  Replaced(old)'
<1>1. CASE supersededBy'[old] = supersededBy[old]
  <2>1. Replaced(old)
    BY <1>1 DEF IndexInv
  <2>2. PICK new \in Docs : new = supersededBy[old]
    BY <1>1 DEF TypeInv, TypeOK, StoresTypeOK
  <2>3. /\ Traced(new, "ingesting", "ingested")'
        /\ Traced(old, "ingested", "superseded")'
    BY <2>1, <2>2, TraceGrows DEF Replaced, Traced
  <2>4. Shown(new)'
    BY <2>1, <2>2, ShownStays DEF Replaced
  <2> QED BY <1>1, <2>1, <2>2, <2>3, <2>4 DEF Replaced, Shown, InChunks, InNodes, InFacts, Traced
<1>2. CASE supersededBy'[old] # supersededBy[old]
  <2>1. PICK r \in Requests :
          /\ PromoteCommit(r) /\ Replaces(r) /\ Supersedes[Doc(r)] = old
          /\ supersededBy'[old] = Doc(r)
    BY <1>2, ReplacedByCommit
  <2>2. PICK new \in Docs : new = Doc(r) /\ new # old
    BY <2>1, CommitShows, SupersedesAssumption
  <2>3. wrk[r].seen[new] = "ingesting" /\ wrk[r].seen[old] = "ingested"
    <3>1. CanTransition(wrk[r].seen[old], "superseded")
      BY <2>1 DEF Replaces
    <3>2. wrk[r].seen[old] = "ingested"
      BY <3>1 DEF CanTransition, Allowed, DocStates
    <3> QED BY <2>1, <2>2, <3>2, CommitShows
  <2>4. trace' = [trace EXCEPT ![new] = @ \cup {<<"ingesting", "ingested">>},
                               ![old] = @ \cup {<<"ingested", "superseded">>}]
    BY <2>1, <2>2, <2>3 DEF PromoteCommit
  <2>5. Traced(new, "ingesting", "ingested")' /\ Traced(old, "ingested", "superseded")'
    BY <2>2, <2>4 DEF Traced, TypeInv, TypeOK, StoresTypeOK
  <2>6. Shown(new)'
    BY <2>1, <2>2, CommitShows, ShownStays
  <2> QED BY <2>1, <2>2, <2>5, <2>6 DEF Replaced, Shown, InChunks, InNodes, InFacts, Traced
<1> QED
  BY <1>1, <1>2

(* Only a sweep takes entities, and it ends the removal of a document.     *)
LEMMA SweptAfterNext ==
  ASSUME TypeInv, FileInv, SweptAfter, [Next]_vars
  PROVE  SweptAfter'
<1> DEFINE Goal == \A d \in Docs : entities'[d] = "swept" => Gone # {}
<1>1. SUFFICES Goal
  BY GoneGrows DEF SweptAfter
<1>2. entities \in [Docs -> EntityStates]
  BY DEF TypeInv, TypeOK, StoresTypeOK
<1>3. CASE UNCHANGED entities
  BY <1>3 DEF SweptAfter
<1>4. ASSUME NEW r \in Requests, PickUp(r) PROVE Goal
  BY <1>3, <1>4 DEF PickUp, PickIngest, PickCleanup, PickErase, storeVars
<1>5. ASSUME NEW r \in Requests, IngestStep(r) PROVE Goal
  <2>1. CASE UpsertEntities(r) \/ LinkMentions(r)
    BY <1>2, <2>1 DEF UpsertEntities, LinkMentions, SweptAfter
  <2>2. CASE ~UpsertEntities(r) /\ ~LinkMentions(r)
    BY <1>3, <1>5, <2>2 DEF IngestStep, SagaCommit, WriteChunks, UpsertDocument, LinkSupersedes,
       WriteFacts, PromoteLoad, PromoteCommit, IngestFail, storeVars, graphVars
  <2> QED BY <2>1, <2>2
<1>6. ASSUME NEW r \in Requests, PurgeStep(r) PROVE Goal
  <2>1. CASE Sweep(r)
    <3>1. wrk[r].cur \in Gone
      BY <2>1 DEF Sweep, At, PurgeSteps, FileInv, PurgeKept
    <3> QED BY <3>1
  <2>2. CASE DeleteGraph(r)
    BY <1>2, <1>3, <2>2 DEF DeleteGraph, Cascade, SweptAfter, graphVars
  <2>3. CASE ~Sweep(r) /\ ~DeleteGraph(r)
    BY <1>3, <1>6, <2>3 DEF PurgeStep, DeleteChunks, DeleteObject, StoreFails, EraseNext,
       EraseCommit, storeVars, graphVars
  <2> QED BY <2>1, <2>2, <2>3
<1>7. ASSUME NEW r \in Requests, TaskReturn(r) \/ TaskTimeout(r) \/ GiveUp(r) PROVE Goal
  BY <1>3, <1>7 DEF TaskReturn, TaskTimeout, GiveUp, Ends, storeVars
<1>8. CASE WorkerCrash
  BY <1>3, <1>8 DEF WorkerCrash, storeVars
<1>9. CASE ApiNext \/ UNCHANGED vars
  BY <1>3, <1>9, ApiMove DEF vars
<1> QED
  BY <1>4, <1>5, <1>6, <1>7, <1>8, <1>9 DEF Next, WorkerNext, TaskStep

LEMMA IndexNext == TypeInv /\ FileInv /\ IndexInv /\ [Next]_vars => IndexInv'
<1> SUFFICES ASSUME TypeInv, FileInv, IndexInv, [Next]_vars PROVE IndexInv'
  OBVIOUS
<1>1. ASSUME NEW d \in Docs, docState'[d] = "ingested" PROVE Shown(d)'
  <2>1. CASE docState[d] = "ingested"
    BY <2>1, ShownStays DEF IndexInv
  <2>2. CASE docState[d] # "ingested"
    <3>1. PICK r \in Requests : RowWrite(r, d)
      BY <1>1, <2>2, RowChanges
    <3>2. PromoteCommit(r) /\ Doc(r) = d
      BY <1>1, <3>1 DEF RowWrite, Verdict
    <3> QED BY <3>2, CommitShows, ShownStays
  <2> QED BY <2>1, <2>2
<1>2. ASSUME NEW d \in Docs, docState'[d] = "superseded" PROVE supersededBy'[d] # NoDoc
  <2>1. CASE docState[d] = "superseded"
    <3>1. supersededBy[d] # NoDoc
      BY <2>1 DEF IndexInv
    <3> QED BY <3>1, ReplacedByCommit, CommitShows, DocsAssumption
  <2>2. CASE docState[d] # "superseded"
    <3>1. PICK r \in Requests : RowWrite(r, d)
      BY <1>2, <2>2, RowChanges
    <3>2. PromoteCommit(r) /\ Replaces(r) /\ Supersedes[Doc(r)] = d
      BY <1>2, <3>1 DEF RowWrite, Verdict
    <3>3. supersededBy'[d] = Doc(r)
      BY <3>2 DEF PromoteCommit, TypeInv, TypeOK, StoresTypeOK
    <3> QED BY <3>2, <3>3, CommitShows, DocsAssumption
  <2> QED BY <2>1, <2>2
<1>3. \A d \in Docs : supersededBy'[d] # NoDoc => Replaced(d)'
  BY ReplacedNext
<1>4. \A r \in Requests : Written(r)'
  BY WrittenNext DEF IndexInv
<1>5. SweptAfter'
  BY SweptAfterNext DEF IndexInv
<1> QED
  BY <1>1, <1>2, <1>3, <1>4, <1>5 DEF IndexInv

LEMMA IndexKept == Spec => []IndexInv
<1>1. Init => IndexInv
  BY DEF Init, StoresInit, WorkerInit, IndexInv, SweptAfter, Written, IdleWorker, AfterChunks,
     AfterNode, AfterFacts, Absent
<1> QED
  BY <1>1, IndexNext, TypeCorrect, FilesFollowRows, PTL DEF Spec

LEMMA ShownIsIndexed ==
  ASSUME NEW d \in Docs, Shown(d), ~Removed(d)
  PROVE  Indexed(d)
<1>1. d \notin Gone
  BY DEF Gone
<1>2. ASSUME Gone # {} PROVE \E e \in Docs \ {d} : Removed(e)
  BY <1>1, <1>2 DEF Gone
<1> QED
  BY <1>1, <1>2 DEF Shown, InChunks, InNodes, InFacts, Indexed, SweptBeside

(* Commit-last: what the table shows as ingested is in Qdrant and in       *)
(* Neo4j, unless somebody deleted it, for any failure at any step of the   *)
(* saga and any deletion beside it; its facts are missing only when the    *)
(* removal of another document swept their entities (pipeline.py:174-205,  *)
(* tasks.py:27-39, temporal_model.py:69-76, 97-102).                       *)
THEOREM IngestedIsShown == Spec => []IngestedIsIndexed
<1>1. IndexInv => IngestedIsIndexed
  <2> SUFFICES ASSUME IndexInv, NEW d \in Docs, docState[d] = "ingested", ~Removed(d)
               PROVE  Indexed(d)
    BY DEF IngestedIsIndexed
  <2> QED
    BY ShownIsIndexed DEF IndexInv
<1> QED
  BY <1>1, IndexKept, PTL

(* A document is replaced only by one that names it, that was ingested and *)
(* that can be found in its place, with the same exception for its facts   *)
(* (pipeline.py:180-205).                                                  *)
THEOREM ReplacementIsShown == Spec => []ReplacementIsIndexed
<1>1. TypeOK /\ IndexInv => ReplacementIsIndexed
  <2> SUFFICES ASSUME TypeOK, IndexInv, NEW old \in Docs, supersededBy[old] # NoDoc
               PROVE  /\ Supersedes[supersededBy[old]] = old
                      /\ Traced(supersededBy[old], "ingesting", "ingested")
                      /\ Traced(old, "ingested", "superseded")
                      /\ Removed(supersededBy[old]) \/ Indexed(supersededBy[old])
    BY DEF IndexInv, ReplacementIsIndexed
  <2>1. Replaced(old)
    BY DEF IndexInv
  <2>2. supersededBy[old] \in Docs
    BY DEF TypeOK, StoresTypeOK
  <2> QED
    BY <2>1, <2>2, ShownIsIndexed DEF Replaced
<1> QED
  BY <1>1, IndexKept, TypeCorrectness, PTL

-----------------------------------------------------------------------------
(* What it takes for no task to be lost: no call ends before its end, no   *)
(* task times out, and arq tries a task more often than the worker stops.  *)
NoTaskLost ==
  "api" \notin Faults /\ "timeout" \notin Faults /\ MaxCrashes < MaxTries

(* An open job has a task that will close it, or a call about to enqueue   *)
(* one.                                                                    *)
Pending(r) == handler[r].pc = "enqueue" \/ task[r].status \in {"queued", "running"}

JobServed(r) ==
  job[r].status \in {"queued", "running"} => IsIngest(r) /\ Pending(r) /\ wrk[r].pc # "return"

(* Every try but the first was caused by a stop of the worker.             *)
TriesPaid(r) ==
  /\ task[r].status \in {"none", "queued"} => task[r].tries <= crashes
  /\ task[r].status = "running"            => task[r].tries <= crashes + 1

WorkInv == \A r \in Requests : JobServed(r) /\ TriesPaid(r)

LEMMA WorkFrame ==
  ASSUME NEW q \in Requests, JobServed(q), TriesPaid(q),
         handler'[q] = handler[q], job'[q].status = job[q].status, task'[q] = task[q],
         wrk'[q] = wrk[q] \/ wrk'[q].pc # "return", crashes' = crashes
  PROVE  JobServed(q)' /\ TriesPaid(q)'
  BY DEF JobServed, TriesPaid, Pending, IsIngest

LEMMA WorkApi ==
  ASSUME NoTaskLost, TypeInv, WorkInv, ApiNext
  PROVE  WorkInv'
<1>1. PICK r \in Requests :
        \/ \E d \in Docs, direct \in BOOLEAN : UploadStart(r, d, direct)
        \/ \E d \in Docs : ApproveStart(r, d)
        \/ \E d \in Docs : RejectStart(r, d)
        \/ \E d \in Docs, hard \in BOOLEAN : DeleteStart(r, d, hard)
        \/ \E u \in Users : EraseStart(r, u)
        \/ HandlerStep(r)
  BY DEF ApiNext, HandlerFail, NoTaskLost
<1>2. /\ handler[r] \in Handlers /\ HandlerOK(handler[r])
      /\ handler \in [Requests -> Handlers]
      /\ task \in [Requests -> [status : TaskStates, tries : 0 .. MaxTries]]
      /\ job \in [Requests -> [status : JobStatus, step : SagaSteps]]
  BY DEF TypeInv, TypeOK, ApiTypeOK, WorkerTypeOK, StoresTypeOK
<1>3. handler[r].pc # "done"
  BY <1>1 DEF HandlerStep, UploadStart, UploadCommit, ApproveStart, RejectStart, DeleteStart,
     Load, EraseStart, ModerateCommit, Refresh, Kickoff, KickoffRefused, Enqueue, Arrives
<1>4. task[r].status = "none" /\ wrk[r].pc = "idle" /\ UNCHANGED <<wrk, crashes>>
  BY <1>3, ApiMove DEF TypeInv, Coupled, TaskOfCall
<1>5. ASSUME NEW q \in Requests, q # r PROVE JobServed(q)' /\ TriesPaid(q)'
  <2>1. handler'[q] = handler[q] /\ task'[q] = task[q] /\ job'[q] = job[q]
    BY <1>1, <1>2, <1>5 DEF HandlerStep, UploadStart, UploadCommit, ApproveStart, RejectStart,
       DeleteStart, Load, EraseStart, ModerateCommit, Refresh, Kickoff, KickoffRefused, Enqueue,
       Goto
  <2> QED BY <1>4, <2>1, WorkFrame DEF WorkInv
<1>6. job[r].status \in {"queued", "running"} => handler[r].pc = "enqueue"
  BY <1>4 DEF WorkInv, JobServed, Pending
<1>7. CASE Kickoff(r)
  <2>1. handler[r].pc = "kickoff" /\ Goto(r, "enqueue") /\ UNCHANGED task
    BY <1>7 DEF Kickoff
  <2>2. handler[r].op \in {"upload", "approve"}
    <3>1. handler[r].op \in DocOps \cup {"erase", "none"} /\ "kickoff" \in OpSteps[handler[r].op]
      BY <1>2, <2>1 DEF Handlers, HandlerOK
    <3> QED BY <3>1 DEF OpSteps, DocOps
  <2>3. handler'[r].pc = "enqueue" /\ handler'[r].op = handler[r].op
    BY <1>2, <2>1 DEF Goto, Handlers
  <2> QED BY <1>4, <1>5, <2>1, <2>2, <2>3 DEF WorkInv, JobServed, TriesPaid, Pending, IsIngest
<1>8. CASE Enqueue(r)
  <2>1. /\ handler'[r].op = handler[r].op /\ UNCHANGED job
        /\ task'[r].status = "queued" /\ task'[r].tries = task[r].tries
    BY <1>2, <1>8 DEF Enqueue, Goto, Handlers
  <2>2. task[r].tries <= crashes
    BY <1>4 DEF WorkInv, TriesPaid
  <2> QED BY <1>4, <1>5, <2>1, <2>2 DEF WorkInv, JobServed, TriesPaid, Pending, IsIngest
<1>9. CASE ~Kickoff(r) /\ ~Enqueue(r)
  <2>1. UNCHANGED <<job, task>> /\ handler[r].pc # "enqueue"
    BY <1>1, <1>9 DEF HandlerStep, UploadStart, UploadCommit, ApproveStart, RejectStart,
       DeleteStart, Load, EraseStart, ModerateCommit, Refresh, KickoffRefused, Arrives
  <2> QED BY <1>4, <1>5, <1>6, <2>1 DEF WorkInv, JobServed, TriesPaid
<1> QED
  BY <1>7, <1>8, <1>9

LEMMA WorkWorker ==
  ASSUME NoTaskLost, TypeInv, WorkInv, WorkerNext
  PROVE  WorkInv'
<1>1. /\ wrk \in [Requests -> Workers]
      /\ task \in [Requests -> [status : TaskStates, tries : 0 .. MaxTries]]
      /\ job \in [Requests -> [status : JobStatus, step : SagaSteps]]
      /\ crashes \in 0 .. MaxCrashes /\ MaxCrashes \in Nat /\ MaxTries \in Nat
  BY MaxTriesAssumption, MaxCrashesAssumption DEF TypeInv, TypeOK, WorkerTypeOK, StoresTypeOK
<1>2. handler' = handler
  BY WorkerKeepsCalls
<1>3. ASSUME NEW r \in Requests, PickUp(r) PROVE WorkInv'
  <2>1. PICK w : Take(r, w) /\ wrk'[r] = w /\ w.pc # "return"
    <3>1. CASE PickIngest(r)
      <4> DEFINE w == [IdleWorker EXCEPT !.pc = "chunk", !.seen[Doc(r)] = docState[Doc(r)]]
      <4>1. Take(r, w) /\ w.pc = "chunk"
        BY <3>1 DEF PickIngest, IdleWorker
      <4> HIDE DEF w
      <4> QED BY <1>1, <4>1 DEF Take
    <3>2. CASE PickCleanup(r)
      <4> DEFINE w == [IdleWorker EXCEPT !.pc = "qdrant_delete", !.cur = Doc(r)]
      <4>1. Take(r, w) /\ w.pc = "qdrant_delete"
        BY <3>2 DEF PickCleanup, IdleWorker
      <4> HIDE DEF w
      <4> QED BY <1>1, <4>1 DEF Take
    <3>3. CASE PickErase(r)
      <4>1. PICK mine, seen :
              Take(r, [IdleWorker EXCEPT !.pc = "pick", !.todo = mine, !.seen = seen])
        BY <3>3 DEF PickErase
      <4> DEFINE w == [IdleWorker EXCEPT !.pc = "pick", !.todo = mine, !.seen = seen]
      <4>2. Take(r, w) /\ w.pc = "pick"
        BY <4>1 DEF IdleWorker
      <4> HIDE DEF w
      <4> QED BY <1>1, <4>2 DEF Take
    <3> QED BY <1>3, <3>1, <3>2, <3>3 DEF PickUp
  <2>2. /\ task[r].status = "queued" /\ task'[r].status = "running"
        /\ task'[r].tries = task[r].tries + 1
        /\ \A q \in Requests : q # r => task'[q] = task[q] /\ wrk'[q] = wrk[q]
    BY <1>1, <2>1 DEF Take
  <2>3. crashes' = crashes /\ \A q \in Requests : q # r => job'[q] = job[q]
    BY <1>1, <1>3 DEF PickUp, PickIngest, PickCleanup, PickErase
  <2>4. job'[r].status \in {"queued", "running"} => IsIngest(r)
    BY <1>3 DEF PickUp, PickIngest, PickCleanup, PickErase, WorkInv, JobServed
  <2>5. task[r].tries <= crashes /\ task[r].tries \in Nat
    BY <1>1, <2>2 DEF WorkInv, TriesPaid
  <2>6. TriesPaid(r)'
    BY <1>1, <2>2, <2>3, <2>5 DEF TriesPaid
  <2>7. JobServed(r)'
    BY <1>2, <2>1, <2>2, <2>4 DEF JobServed, Pending, IsIngest
  <2>8. ASSUME NEW q \in Requests, q # r PROVE JobServed(q)' /\ TriesPaid(q)'
    BY <1>2, <2>2, <2>3, <2>8, WorkFrame DEF WorkInv
  <2> QED BY <2>6, <2>7, <2>8 DEF WorkInv
<1>4. ASSUME NEW r \in Requests, IngestStep(r) \/ PurgeStep(r) PROVE WorkInv'
  <2>1. UNCHANGED <<task, crashes>>
    BY <1>4 DEF IngestStep, SagaCommit, WriteChunks, UpsertDocument, LinkSupersedes, UpsertEntities, LinkMentions, WriteFacts,
       PromoteLoad, PromoteCommit, IngestFail, PurgeStep, DeleteChunks, DeleteGraph, Sweep, DeleteObject,
       StoreFails, EraseNext, EraseCommit
  <2>2. ASSUME NEW q \in Requests, q # r PROVE JobServed(q)' /\ TriesPaid(q)'
    <3>2. job'[q] = job[q]
      BY <1>1, <1>4, <2>2 DEF IngestStep, SagaCommit, WriteChunks, UpsertDocument, LinkSupersedes,
         UpsertEntities, LinkMentions, WriteFacts, PromoteLoad, PromoteCommit, IngestFail, PurgeStep, DeleteChunks, DeleteGraph, Sweep,
         DeleteObject, StoreFails, EraseNext, EraseCommit
    <3>3. wrk'[q] = wrk[q]
      BY <1>4, <2>2, MovesOne
    <3> QED BY <1>2, <2>1, <2>2, <3>2, <3>3, WorkFrame DEF WorkInv
  <2>3. TriesPaid(r)'
    BY <2>1 DEF WorkInv, TriesPaid
  <2>4. JobServed(r)'
    <3>1. CASE PurgeStep(r)
      <4>1. UNCHANGED job /\ ~IsIngest(r)
        BY <3>1 DEF PurgeStep, DeleteChunks, DeleteGraph, Sweep, DeleteObject, StoreFails, EraseNext,
           EraseCommit, At, PurgeSteps, TypeInv, Coupled, TaskOfCall, IsIngest, IsCleanup, IsErase
      <4> QED BY <4>1 DEF WorkInv, JobServed
    <3>2. CASE PromoteCommit(r) \/ IngestFail(r)
      <4>1. job'[r].status \in {"succeeded", "failed"}
        BY <1>1, <3>2 DEF PromoteCommit, IngestFail
      <4> QED BY <4>1 DEF JobServed
    <3>3. CASE IngestStep(r) /\ ~PromoteCommit(r) /\ ~IngestFail(r)
      <4>1. job'[r].status = job[r].status
        BY <1>1, <3>3 DEF IngestStep, SagaCommit, WriteChunks, UpsertDocument, LinkSupersedes,
           UpsertEntities, LinkMentions, WriteFacts, PromoteLoad
      <4>2. wrk'[r].pc # "return"
        <5>1. ASSUME NEW pc \in IngestSteps, Step(r, pc) PROVE wrk'[r].pc # "return"
          BY <1>1, <5>1 DEF Step, IngestSteps, Workers
        <5>2. CASE SagaCommit(r)
          BY <1>1, <5>1, <5>2 DEF SagaCommit, SagaCommits, IngestSteps
        <5>3. CASE PromoteLoad(r)
          BY <1>1, <5>3 DEF PromoteLoad, Workers
        <5>4. CASE WriteChunks(r) \/ UpsertDocument(r) \/ LinkSupersedes(r)
        \/ UpsertEntities(r) \/ LinkMentions(r) \/ WriteFacts(r)
          BY <5>1, <5>4 DEF WriteChunks, UpsertDocument, LinkSupersedes, UpsertEntities, LinkMentions, WriteFacts, IngestSteps
        <5> QED BY <3>3, <5>2, <5>3, <5>4 DEF IngestStep
      <4> QED BY <1>2, <2>1, <4>1, <4>2 DEF WorkInv, JobServed, Pending, IsIngest
    <3> QED BY <1>4, <3>1, <3>2, <3>3
  <2> QED BY <2>2, <2>3, <2>4 DEF WorkInv
<1>5. ASSUME NEW r \in Requests, TaskReturn(r) \/ TaskTimeout(r) \/ GiveUp(r) PROVE WorkInv'
  <2>1. UNCHANGED <<job, crashes>> /\ Ends(r)
    BY <1>5 DEF TaskReturn, TaskTimeout, GiveUp, Ends
  <2>2. ~GiveUp(r)
    BY <1>1 DEF GiveUp, WorkInv, TriesPaid, NoTaskLost
  <2>3. job[r].status \notin {"queued", "running"}
    BY <1>5, <2>2 DEF TaskReturn, TaskTimeout, At, WorkInv, JobServed, NoTaskLost
  <2>4. task'[r].status = "finished" /\ \A q \in Requests : q # r => task'[q] = task[q] /\ wrk'[q] = wrk[q]
    BY <1>1, <2>1 DEF Ends
  <2>5. ASSUME NEW q \in Requests, q # r PROVE JobServed(q)' /\ TriesPaid(q)'
    BY <1>2, <2>1, <2>4, <2>5, WorkFrame DEF WorkInv
  <2> QED BY <2>1, <2>3, <2>4, <2>5 DEF WorkInv, JobServed, TriesPaid
<1>6. CASE WorkerCrash
  <2>1. crashes' = crashes + 1 /\ UNCHANGED job
    BY <1>6 DEF WorkerCrash
  <2>2. ASSUME NEW q \in Requests PROVE JobServed(q)' /\ TriesPaid(q)'
    <3>1. /\ task'[q].tries = task[q].tries /\ task[q].tries \in Nat
          /\ task'[q].status = IF task[q].status = "running" THEN "queued" ELSE task[q].status
          /\ wrk'[q].pc = "idle"
      BY <1>1, <1>6 DEF WorkerCrash, IdleWorker
    <3>2. TriesPaid(q)'
      BY <1>1, <2>1, <3>1 DEF WorkInv, TriesPaid
    <3>3. JobServed(q)'
      BY <1>2, <2>1, <3>1 DEF WorkInv, JobServed, Pending, IsIngest
    <3> QED BY <3>2, <3>3
  <2> QED BY <2>2 DEF WorkInv
<1> QED
  BY <1>3, <1>4, <1>5, <1>6 DEF WorkerNext, TaskStep

(* A document that is being ingested has a task, or a call about to        *)
(* enqueue one, when no call is lost, no task times out and there are      *)
(* fewer stops than tries (documents.py:150-165, pipeline.py:43-52).       *)
THEOREM IngestingIsServed ==
  ASSUME NoTaskLost
  PROVE  Spec => []IngestingHasWork
<1>1. Init => WorkInv
  BY DEF Init, StoresInit, WorkerInit, WorkInv, JobServed, TriesPaid, NoJob
<1>2. TypeInv /\ WorkInv /\ [Next]_vars => WorkInv'
  <2>1. ASSUME WorkInv, UNCHANGED vars PROVE WorkInv'
    BY <2>1, WorkFrame DEF vars, WorkInv
  <2> QED BY <2>1, WorkApi, WorkWorker DEF Next
<1>3. WorkInv /\ NoOrphanIngesting => IngestingHasWork
  BY DEF WorkInv, JobServed, Pending, NoOrphanIngesting, IngestingHasWork
<1> QED
  BY <1>1, <1>2, <1>3, TypeCorrect, NoOrphans, PTL DEF Spec

-----------------------------------------------------------------------------
(* When the table behaves as document_state.py says: one call at a time,   *)
(* with no erasure, which writes a state without transition(), and no      *)
(* replacement, whose step C moves two rows in one commit.  The tasks of   *)
(* the calls still race with the calls that come after.                    *)
Serial ==
  /\ MaxHandlers <= 1
  /\ "erase" \notin Offered
  /\ \A d \in Docs : Supersedes[d] = NoDoc

OneCall == \A r, q \in Requests : Active(r) /\ Active(q) => r = q

(* What a call has loaded is still what the row holds. *)
CallSees(r) ==
  /\ handler[r].op # "erase"
  /\ handler[r].pc = "insert" => docState[Doc(r)] = Absent
  /\ handler[r].pc \in {"commit", "kickoff"} => handler[r].loaded = docState[Doc(r)]
  /\ handler[r].pc \in {"refresh", "kickoff"} => docState[Doc(r)] = "approved"

(* A call with work to enqueue, or whose task is enqueued. *)
Enqueues(r) == IsIngest(r) /\ (handler[r].pc = "enqueue" \/ task[r].status # "none")

(* A document with a job is past its approval for good, so it never gets a *)
(* second one; and a saga whose session holds "ingesting" is right.        *)
Begun(r) ==
  /\ job[r].status # "none" => IsIngest(r) /\ docState[Doc(r)] \notin {Absent, "proposed", "approved"}
  /\ Enqueues(r) => job[r].status # "none"
  /\ wrk[r].pc \in IngestSteps /\ wrk[r].seen[Doc(r)] = "ingesting" => docState[Doc(r)] = "ingesting"

OneJob == \A r, q \in Requests :
  job[r].status # "none" /\ job[q].status # "none" /\ Doc(r) = Doc(q) => r = q

TraceOfRow == \A d \in Docs : trace[d] # {} => docState[d] # Absent

SerialInv ==
  /\ OneCall /\ OneJob /\ TraceOfRow
  /\ \A r \in Requests : CallSees(r) /\ Begun(r)

(* The commits that write a row or its trace. *)
LEMMA RowCommits ==
  ASSUME [Next]_vars
  PROVE  \/ UNCHANGED <<docState, trace>>
         \/ \E r \in Requests : UploadCommit(r) \/ ModerateCommit(r) \/ Kickoff(r)
         \/ \E r \in Requests : PromoteCommit(r) \/ IngestFail(r) \/ EraseCommit(r)
<1> DEFINE Still == UNCHANGED <<docState, trace>>
           Call  == \E r \in Requests : UploadCommit(r) \/ ModerateCommit(r) \/ Kickoff(r)
           Task  == \E r \in Requests : PromoteCommit(r) \/ IngestFail(r) \/ EraseCommit(r)
<1>1. CASE ApiNext
  BY <1>1 DEF ApiNext, HandlerStep, UploadStart, ApproveStart, RejectStart, DeleteStart, Load,
     EraseStart, Refresh, KickoffRefused, Enqueue, HandlerFail
<1>2. ASSUME NEW r \in Requests, PickUp(r) PROVE Still
  BY <1>2 DEF PickUp, PickIngest, PickCleanup, PickErase, pgVars
<1>3. ASSUME NEW r \in Requests, IngestStep(r) PROVE Still \/ Task
  BY <1>3 DEF IngestStep, SagaCommit, WriteChunks, UpsertDocument, LinkSupersedes, UpsertEntities, LinkMentions, WriteFacts,
     PromoteLoad, pgVars
<1>4. ASSUME NEW r \in Requests, PurgeStep(r) PROVE Still \/ Task
  BY <1>4 DEF PurgeStep, DeleteChunks, DeleteGraph, Sweep, DeleteObject, StoreFails, EraseNext, pgVars
<1>5. ASSUME NEW r \in Requests, TaskReturn(r) \/ TaskTimeout(r) \/ GiveUp(r) PROVE Still
  BY <1>5 DEF TaskReturn, TaskTimeout, GiveUp, Ends, pgVars
<1>6. CASE WorkerCrash
  BY <1>6 DEF WorkerCrash, pgVars
<1>7. CASE UNCHANGED vars
  BY <1>7 DEF vars
<1> QED
  BY <1>1, <1>2, <1>3, <1>4, <1>5, <1>6, <1>7 DEF Next, WorkerNext, TaskStep

(* A commit of a call moves the row from the state it holds; so does a     *)
(* commit of a saga, whose row is "ingesting".                             *)
CallWrites(r) ==
  /\ Active(r) /\ handler'[r].pc # handler[r].pc
  /\ Doc(r) \in Docs
  /\ \/ UploadCommit(r) /\ docState[Doc(r)] = Absent
     \/ \E to \in {"approved", "rejected", "deleted", "ingesting"} :
          /\ CanTransition(docState[Doc(r)], to)
          /\ WriteTransition(Doc(r), docState[Doc(r)], to)

TaskWrites(r) ==
  /\ wrk[r].pc \in IngestSteps /\ wrk'[r].pc = "return"
  /\ Doc(r) \in Docs
  /\ docState[Doc(r)] = "ingesting"
  /\ \E to \in {"ingested", "ingestion_failed"} : WriteTransition(Doc(r), "ingesting", to)

LEMMA CallCommits ==
  ASSUME TypeInv, GateInv, SerialInv, NEW r \in Requests,
         UploadCommit(r) \/ ModerateCommit(r) \/ Kickoff(r)
  PROVE  CallWrites(r)
<1>1. /\ handler \in [Requests -> Handlers] /\ handler[r] \in Handlers /\ HandlerOK(handler[r])
      /\ CallSees(r) /\ CallGate(r)
  BY DEF TypeInv, TypeOK, ApiTypeOK, SerialInv, GateInv
<1>2. handler[r].pc \in {"insert", "commit", "kickoff"}
  BY DEF UploadCommit, ModerateCommit, Kickoff
<1>3. handler[r].op \in DocOps
  BY <1>1, <1>2 DEF Handlers, HandlerOK, OpSteps, DocOps
<1>4. Doc(r) \in Docs /\ Active(r)
  BY <1>1, <1>2, <1>3 DEF HandlerOK, Doc, Active
<1>5. CASE UploadCommit(r)
  <2>1. handler'[r].pc # handler[r].pc
    BY <1>1, <1>5 DEF UploadCommit, Goto, Handlers
  <2> QED BY <1>1, <1>4, <1>5, <2>1 DEF CallWrites, CallSees, UploadCommit
<1>6. CASE ModerateCommit(r)
  <2>1. handler'[r].pc # handler[r].pc
    BY <1>1, <1>6 DEF ModerateCommit, Goto, Handlers
  <2>2. /\ handler[r].loaded = docState[Doc(r)]
        /\ CanTransition(handler[r].loaded, Verdict[handler[r].op])
        /\ WriteTransition(Doc(r), handler[r].loaded, Verdict[handler[r].op])
    BY <1>1, <1>6 DEF ModerateCommit, CallSees, CallGate, Doc
  <2>3. Verdict[handler[r].op] \in {"approved", "rejected", "deleted", "ingesting"}
    BY <1>6 DEF ModerateCommit, Verdict
  <2> QED BY <1>4, <2>1, <2>2, <2>3 DEF CallWrites
<1>7. CASE Kickoff(r)
  <2>1. handler'[r].pc # handler[r].pc
    BY <1>1, <1>7 DEF Kickoff, Goto, Handlers
  <2>2. /\ handler[r].loaded = docState[Doc(r)]
        /\ CanTransition(handler[r].loaded, "ingesting")
        /\ WriteTransition(Doc(r), handler[r].loaded, "ingesting")
    BY <1>1, <1>7 DEF Kickoff, CallSees, Doc
  <2> QED BY <1>4, <2>1, <2>2 DEF CallWrites
<1> QED
  BY <1>5, <1>6, <1>7

LEMMA TaskCommits ==
  ASSUME Serial, TypeInv, IndexInv, SerialInv, NEW r \in Requests,
         PromoteCommit(r) \/ IngestFail(r) \/ EraseCommit(r)
  PROVE  UNCHANGED <<docState, trace>> \/ TaskWrites(r)
<1>1. ~EraseCommit(r)
  BY DEF EraseCommit, At, TypeInv, Coupled, TaskOfCall, IsErase, SerialInv, CallSees
<1>2. IngestStep(r)
  BY <1>1 DEF IngestStep
<1>3. wrk[r].pc \in IngestSteps /\ Doc(r) \in Docs
  BY <1>2, IngestMove
<1>4. wrk'[r].pc = "return"
  BY <1>1 DEF PromoteCommit, IngestFail, Return, IdleWorker, TypeInv, TypeOK, WorkerTypeOK
<1>5. wrk[r].seen[Doc(r)] = "ingesting" => docState[Doc(r)] = "ingesting"
  BY <1>3 DEF SerialInv, Begun
<1>6. CASE PromoteCommit(r)
  <2>1. wrk[r].seen[Doc(r)] = "ingesting" /\ ~Replaces(r)
    BY <1>3, <1>6, CommitShows DEF Serial, Replaces
  <2>2. WriteTransition(Doc(r), "ingesting", "ingested")
    BY <1>6, <2>1 DEF PromoteCommit
  <2> QED BY <1>3, <1>4, <1>5, <2>1, <2>2 DEF TaskWrites
<1>7. CASE IngestFail(r)
  <2>1. CASE CanTransition(wrk[r].seen[Doc(r)], "ingestion_failed")
    <3>1. wrk[r].seen[Doc(r)] = "ingesting"
      BY <2>1 DEF CanTransition, Allowed, DocStates
    <3>2. WriteTransition(Doc(r), "ingesting", "ingestion_failed")
      BY <1>7, <2>1, <3>1 DEF IngestFail
    <3> QED BY <1>3, <1>4, <1>5, <3>1, <3>2 DEF TaskWrites
  <2>2. CASE ~CanTransition(wrk[r].seen[Doc(r)], "ingestion_failed")
    BY <1>7, <2>2 DEF IngestFail
  <2> QED BY <2>1, <2>2
<1> QED
  BY <1>1, <1>6, <1>7

(* Who changes a row: the one call, when it is not "ingesting", or the     *)
(* saga of the row, when it is.                                            *)
RowMoves(r, d) ==
  /\ Doc(r) = d
  /\ \/ /\ CallWrites(r)
        /\ docState[d] # "ingesting"
        /\ docState'[d] \in {"proposed", "approved"} => docState[d] \in {Absent, "proposed"}
     \/ /\ TaskWrites(r)
        /\ docState[d] = "ingesting" /\ docState'[d] \in {"ingested", "ingestion_failed"}

LEMMA RowMover ==
  ASSUME Serial, TypeInv, GateInv, IndexInv, SerialInv, [Next]_vars,
         NEW d \in Docs, docState'[d] # docState[d] \/ trace'[d] # trace[d]
  PROVE  \E r \in Requests : RowMoves(r, d)
<1>1. docState \in [Docs -> RowStates] /\ trace \in [Docs -> SUBSET TraceRows]
  BY DEF TypeInv, TypeOK, StoresTypeOK
<1>2. ASSUME NEW r \in Requests, CallWrites(r) PROVE RowMoves(r, d)
  <2>1. CASE UploadCommit(r) /\ docState[Doc(r)] = Absent
    <3>1. Doc(r) = d
      BY <1>1, <2>1 DEF UploadCommit, Doc
    <3> QED BY <1>2, <2>1, <3>1 DEF RowMoves, Absent
  <2>2. ASSUME NEW to \in {"approved", "rejected", "deleted", "ingesting"},
               CanTransition(docState[Doc(r)], to),
               WriteTransition(Doc(r), docState[Doc(r)], to)
        PROVE  RowMoves(r, d)
    <3>1. Doc(r) = d /\ docState'[d] = to
      BY <1>1, <2>2 DEF WriteTransition
    <3>2. docState[d] # "ingesting" /\ (to = "approved" => docState[d] = "proposed")
      BY <2>2, <3>1 DEF CanTransition, Allowed, DocStates
    <3> QED BY <1>2, <3>1, <3>2 DEF RowMoves
  <2> QED BY <1>2, <2>1, <2>2 DEF CallWrites
<1>3. ASSUME NEW r \in Requests, TaskWrites(r) PROVE RowMoves(r, d)
  <2>1. PICK to \in {"ingested", "ingestion_failed"} : WriteTransition(Doc(r), "ingesting", to)
    BY <1>3 DEF TaskWrites
  <2>2. Doc(r) = d /\ docState'[d] = to
    BY <1>1, <2>1 DEF WriteTransition
  <2> QED BY <1>3, <2>2 DEF RowMoves, TaskWrites
<1> QED
  BY <1>2, <1>3, RowCommits, CallCommits, TaskCommits

(* A row under a call that does not move, or past "approved" with a saga   *)
(* that goes on, is left alone.                                            *)
LEMMA CallHoldsRow ==
  ASSUME Serial, TypeInv, GateInv, IndexInv, SerialInv, [Next]_vars, NEW r \in Requests,
         handler'[r] = handler[r], handler[r].pc \in {"insert", "commit", "refresh", "kickoff"}
  PROVE  Doc(r) \in Docs /\ docState'[Doc(r)] = docState[Doc(r)]
<1>1. CallSees(r) /\ CallGate(r) /\ handler[r] \in Handlers /\ HandlerOK(handler[r])
  BY DEF SerialInv, GateInv, TypeInv, TypeOK, ApiTypeOK
<1>2. handler[r].op \in DocOps /\ (handler[r].pc = "commit" => handler[r].op \in {"approve", "reject", "delete"})
  BY <1>1 DEF Handlers, HandlerOK, OpSteps, DocOps
<1>3. PICK d \in Docs : d = Doc(r)
  BY <1>1, <1>2 DEF HandlerOK, Doc
<1>4. docState[d] # "ingesting"
  <2>1. CASE handler[r].pc = "commit"
    <3>1. CanTransition(docState[d], Verdict[handler[r].op])
      BY <1>1, <1>3, <2>1 DEF CallSees, CallGate
    <3> QED BY <1>2, <2>1, <3>1 DEF CanTransition, Allowed, DocStates, Verdict
  <2>2. CASE handler[r].pc # "commit"
    BY <1>1, <1>3, <2>2 DEF CallSees, Absent
  <2> QED BY <2>1, <2>2
<1>5. ASSUME docState'[d] # docState[d] PROVE FALSE
  <2>1. PICK q \in Requests : RowMoves(q, d)
    BY <1>5, RowMover
  <2>2. Active(q) /\ handler'[q].pc # handler[q].pc
    BY <1>4, <2>1 DEF RowMoves, CallWrites
  <2>3. q = r
    BY <2>2 DEF SerialInv, OneCall, Active
  <2> QED BY <2>2, <2>3
<1> QED
  BY <1>3, <1>5

LEMMA SagaHoldsRow ==
  ASSUME Serial, TypeInv, GateInv, IndexInv, SerialInv, [Next]_vars, NEW r \in Requests,
         wrk[r].pc \in IngestSteps, wrk'[r].pc # "return", docState[Doc(r)] = "ingesting"
  PROVE  docState'[Doc(r)] = "ingesting"
<1>1. PICK d \in Docs : d = Doc(r)
  BY IngestDoc DEF TypeInv, Coupled, TaskOfCall
<1>2. ASSUME NEW q \in Requests, wrk[q].pc \in IngestSteps PROVE job[q].status # "none"
  <2>1. IsIngest(q) /\ task[q].status # "none"
    BY <1>2 DEF TypeInv, Coupled, TaskOfCall, IngestSteps
  <2> QED BY <2>1 DEF SerialInv, Begun, Enqueues
<1>3. ASSUME docState'[d] # docState[d] PROVE FALSE
  <2>1. PICK q \in Requests : RowMoves(q, d)
    BY <1>3, RowMover
  <2>2. wrk[q].pc \in IngestSteps /\ wrk'[q].pc = "return" /\ Doc(q) = d
    BY <1>1, <2>1 DEF RowMoves, TaskWrites
  <2>3. q = r
    BY <1>1, <1>2, <2>2 DEF SerialInv, OneJob
  <2> QED BY <2>2, <2>3
<1> QED
  BY <1>1, <1>3

LEMMA AloneArrives ==
  ASSUME Serial, OneCall, NEW r \in Requests, NEW op, Arrives(r, op)
  PROVE  \A q \in Requests : ~Active(q)
<1> DEFINE Running == {q \in Requests : Active(q)}
<1>1. Cardinality(Running) < MaxHandlers /\ MaxHandlers <= 1 /\ MaxHandlers \in Nat
  BY MaxHandlersAssumption DEF Arrives, Serial
<1>2. ASSUME NEW q \in Running PROVE FALSE
  <2>1. Running = {q}
    BY <1>2 DEF OneCall
  <2>2. Cardinality(Running) = 1
    BY <2>1, FS_Singleton
  <2> QED BY <1>1, <2>2
<1> QED
  BY <1>2

(* What a call's own step leaves it with. *)
LEMMA CallMoves ==
  ASSUME Serial, TypeInv, GateInv, IndexInv, SerialInv, [Next]_vars, NEW r \in Requests,
         handler'[r] # handler[r]
  PROVE  /\ CallSees(r)'
         /\ \A q \in Requests : q # r => handler'[q] = handler[q] /\ ~Active(q)
<1>1. /\ handler \in [Requests -> Handlers] /\ handler[r] \in Handlers /\ HandlerOK(handler[r])
      /\ docState \in [Docs -> RowStates]
      /\ OneCall /\ CallSees(r) /\ CallGate(r)
  BY DEF TypeInv, TypeOK, ApiTypeOK, StoresTypeOK, SerialInv, GateInv
<1>2. ApiNext
  BY WorkerKeepsCalls DEF Next, vars
<1>3. PICK s \in Requests :
        \/ \E d \in Docs, direct \in BOOLEAN : UploadStart(s, d, direct)
        \/ \E d \in Docs : ApproveStart(s, d)
        \/ \E d \in Docs : RejectStart(s, d)
        \/ \E d \in Docs, hard \in BOOLEAN : DeleteStart(s, d, hard)
        \/ \E u \in Users : EraseStart(s, u)
        \/ HandlerStep(s)
        \/ HandlerFail(s)
  BY <1>2 DEF ApiNext
<1>4. \A q \in Requests : q # s => handler'[q] = handler[q]
  BY <1>1, <1>3 DEF HandlerStep, UploadStart, UploadCommit, ApproveStart, RejectStart,
     DeleteStart, Load, EraseStart, ModerateCommit, Refresh, Kickoff, KickoffRefused, Enqueue,
     HandlerFail, Goto
<1>5. s = r
  BY <1>4
<1>6. \A q \in Requests : q # r => ~Active(q)
  <2>1. CASE Active(r)
    BY <1>1, <2>1 DEF OneCall
  <2>2. CASE ~Active(r)
    <3>1. \E op : Arrives(r, op)
      BY <1>3, <1>5, <2>2 DEF HandlerStep, UploadStart, UploadCommit, ApproveStart, RejectStart,
         DeleteStart, Load, EraseStart, ModerateCommit, Refresh, Kickoff, KickoffRefused, Enqueue,
         HandlerFail, Active
    <3> QED BY <1>1, <3>1, AloneArrives
  <2> QED BY <2>1, <2>2
<1>7. CallSees(r)'
  <2>1. ASSUME NEW op \in {"approve", "reject", "delete"}, NEW d \in Docs, NEW flag, Load(r, op, d, flag)
        PROVE  CallSees(r)'
    BY <1>1, <2>1 DEF Load, CallSees, Doc
  <2>2. CASE \E d \in Docs, direct \in BOOLEAN : UploadStart(r, d, direct)
    BY <1>1, <2>2 DEF UploadStart, CallSees, Doc
  <2>3. CASE \/ \E d \in Docs : ApproveStart(r, d)
             \/ \E d \in Docs : RejectStart(r, d)
             \/ \E d \in Docs, hard \in BOOLEAN : DeleteStart(r, d, hard)
    BY <2>1, <2>3 DEF ApproveStart, RejectStart, DeleteStart
  <2>4. ASSUME NEW u \in Users, EraseStart(r, u) PROVE FALSE
    BY <2>4 DEF EraseStart, Arrives, Serial
  <2>5. ASSUME NEW next, Goto(r, next)
         PROVE  /\ handler'[r].pc = next /\ handler'[r].op = handler[r].op
                /\ handler'[r].target = handler[r].target
    BY <1>1, <2>5 DEF Goto, Handlers
  <2>6. CASE UploadCommit(r)
    <3>1. Doc(r) \in Docs
      BY <1>1, <2>6, CallCommits DEF CallWrites, SerialInv
    <3>2. handler[r].flag => docState'[Doc(r)] = "approved"
      BY <1>1, <2>6, <3>1 DEF UploadCommit, Doc
    <3> QED BY <1>1, <2>5, <2>6, <3>2 DEF UploadCommit, CallSees, Doc
  <2>7. CASE ModerateCommit(r)
    <3>1. Doc(r) \in Docs
      BY <1>1, <2>7, CallCommits DEF CallWrites, SerialInv
    <3>2. handler[r].op = "approve" => docState'[Doc(r)] = "approved"
      BY <1>1, <2>7, <3>1 DEF ModerateCommit, WriteTransition, Verdict, Doc
    <3>3. handler'[r].pc \in {"refresh", "done", "enqueue"} /\ (handler'[r].pc = "refresh" => handler[r].op = "approve")
      BY <2>5, <2>7 DEF ModerateCommit
    <3> QED BY <1>1, <2>5, <2>7, <3>2, <3>3 DEF ModerateCommit, CallSees, Doc
  <2>8. CASE Refresh(r)
    <3>1. /\ handler'[r].op = handler[r].op /\ handler'[r].target = Doc(r)
          /\ handler'[r].pc = "kickoff" /\ handler'[r].loaded = docState[Doc(r)]
      BY <1>1, <2>8 DEF Refresh, Handlers, Doc
    <3> QED BY <1>1, <2>8, <3>1 DEF Refresh, CallSees, Doc
  <2>9. CASE Kickoff(r) \/ KickoffRefused(r) \/ Enqueue(r) \/ HandlerFail(r)
    BY <1>1, <2>5, <2>9 DEF Kickoff, KickoffRefused, Enqueue, HandlerFail, CallSees
  <2> QED
    BY <1>3, <1>5, <2>2, <2>3, <2>4, <2>6, <2>7, <2>8, <2>9 DEF HandlerStep
<1> QED
  BY <1>4, <1>5, <1>6, <1>7

LEMMA CallsNext ==
  ASSUME Serial, TypeInv, GateInv, IndexInv, SerialInv, [Next]_vars
  PROVE  OneCall' /\ \A r \in Requests : CallSees(r)'
<1>1. ASSUME NEW r \in Requests PROVE CallSees(r)'
  <2>1. CASE handler'[r] # handler[r]
    BY <2>1, CallMoves
  <2>2. CASE handler'[r] = handler[r]
    <3>1. CASE handler[r].pc \in {"insert", "commit", "refresh", "kickoff"}
      <4>1. docState'[Doc(r)] = docState[Doc(r)]
        BY <2>2, <3>1, CallHoldsRow
      <4> QED BY <2>2, <4>1 DEF SerialInv, CallSees, Doc
    <3>2. CASE handler[r].pc \notin {"insert", "commit", "refresh", "kickoff"}
      BY <2>2, <3>2 DEF SerialInv, CallSees
    <3> QED BY <3>1, <3>2
  <2> QED BY <2>1, <2>2
<1>2. ASSUME NEW r \in Requests, NEW q \in Requests, Active(r)', Active(q)', r # q PROVE FALSE
  <2>1. CASE handler'[r] = handler[r] /\ handler'[q] = handler[q]
    BY <1>2, <2>1 DEF Active, SerialInv, OneCall
  <2>2. CASE handler'[r] # handler[r]
    BY <1>2, <2>2, CallMoves DEF Active
  <2>3. CASE handler'[q] # handler[q]
    BY <1>2, <2>3, CallMoves DEF Active
  <2> QED BY <2>1, <2>2, <2>3
<1> QED
  BY <1>1, <1>2 DEF OneCall

(* Only _kickoff_ingestion creates a job, and a job row stays.             *)
LEMMA JobBegins ==
  ASSUME TypeInv, SerialInv, [Next]_vars, NEW r \in Requests
  PROVE  /\ job[r].status # "none" => job'[r].status # "none"
         /\ job'[r].status # "none" => job[r].status # "none" \/ Kickoff(r)
<1> DEFINE Goal == /\ job[r].status # "none" => job'[r].status # "none"
                   /\ job'[r].status # "none" => job[r].status # "none" \/ Kickoff(r)
<1>1. job \in [Requests -> [status : JobStatus, step : SagaSteps]]
  BY DEF TypeInv, TypeOK, StoresTypeOK
<1>2. CASE UNCHANGED job
  BY <1>2
<1>3. ASSUME NEW q \in Requests, Kickoff(q) PROVE Goal
  BY <1>1, <1>3 DEF Kickoff
<1>4. ASSUME NEW q \in Requests, IsIngest(q), task[q].status # "none" PROVE job[q].status # "none"
  BY <1>4 DEF SerialInv, Begun, Enqueues
<1>5. CASE ApiNext
  BY <1>2, <1>3, <1>5 DEF ApiNext, HandlerStep, UploadStart, UploadCommit, ApproveStart,
     RejectStart, DeleteStart, Load, EraseStart, ModerateCommit, Refresh, KickoffRefused, Enqueue,
     HandlerFail
<1>6. ASSUME NEW q \in Requests, PickUp(q) PROVE Goal
  <2>1. CASE PickIngest(q)
    <3>1. job[q].status # "none"
      BY <1>4, <2>1 DEF PickIngest, Take
    <3> QED BY <1>1, <2>1, <3>1 DEF PickIngest
  <2>2. CASE PickCleanup(q) \/ PickErase(q)
    BY <1>2, <2>2 DEF PickCleanup, PickErase
  <2> QED BY <1>6, <2>1, <2>2 DEF PickUp
<1>7. ASSUME NEW q \in Requests, IngestStep(q) PROVE Goal
  <2>1. job[q].status # "none"
    BY <1>4, <1>7, IngestMove
  <2>2. CASE SagaCommit(q)
    BY <1>1, <2>1, <2>2 DEF SagaCommit
  <2>3. CASE PromoteCommit(q) \/ IngestFail(q)
    BY <1>1, <2>1, <2>3 DEF PromoteCommit, IngestFail
  <2>4. CASE ~SagaCommit(q) /\ ~PromoteCommit(q) /\ ~IngestFail(q)
    BY <1>2, <1>7, <2>4 DEF IngestStep, WriteChunks, UpsertDocument, LinkSupersedes, UpsertEntities, LinkMentions, WriteFacts,
       PromoteLoad
  <2> QED BY <2>2, <2>3, <2>4
<1>8. ASSUME NEW q \in Requests, PurgeStep(q) PROVE Goal
  <2>1. CASE DeleteChunks(q) \/ DeleteGraph(q) \/ Sweep(q) \/ DeleteObject(q)
    BY <1>2, <2>1 DEF DeleteChunks, DeleteGraph, Sweep, DeleteObject
  <2>2. CASE StoreFails(q) \/ EraseNext(q) \/ EraseCommit(q)
    BY <1>2, <2>2 DEF StoreFails, EraseNext, EraseCommit
  <2> QED BY <1>8, <2>1, <2>2 DEF PurgeStep
<1>9. ASSUME NEW q \in Requests, TaskReturn(q) \/ TaskTimeout(q) \/ GiveUp(q) PROVE Goal
  BY <1>2, <1>9 DEF TaskReturn, TaskTimeout, GiveUp, Ends
<1>10. CASE WorkerCrash
  BY <1>2, <1>10 DEF WorkerCrash
<1>11. CASE UNCHANGED vars
  BY <1>2, <1>11 DEF vars
<1> QED
  BY <1>5, <1>6, <1>7, <1>8, <1>9, <1>10, <1>11 DEF Next, WorkerNext, TaskStep

(* An ingestion is enqueued by the call that committed its job.             *)
LEMMA EnqueuesNext ==
  ASSUME TypeInv, [Next]_vars, NEW r \in Requests, Enqueues(r)'
  PROVE  Enqueues(r) \/ Kickoff(r)
<1>1. /\ handler \in [Requests -> Handlers] /\ handler[r] \in Handlers /\ HandlerOK(handler[r])
      /\ task \in [Requests -> [status : TaskStates, tries : 0 .. MaxTries]]
  BY DEF TypeInv, TypeOK, ApiTypeOK, WorkerTypeOK
<1>2. CASE ApiNext
  <2>1. PICK s \in Requests :
          \/ \E d \in Docs, direct \in BOOLEAN : UploadStart(s, d, direct)
          \/ \E d \in Docs : ApproveStart(s, d)
          \/ \E d \in Docs : RejectStart(s, d)
          \/ \E d \in Docs, hard \in BOOLEAN : DeleteStart(s, d, hard)
          \/ \E u \in Users : EraseStart(s, u)
          \/ HandlerStep(s)
          \/ HandlerFail(s)
    BY <1>2 DEF ApiNext
  <2>2. CASE s # r
    <3>1. handler'[r] = handler[r] /\ task'[r] = task[r]
      BY <1>1, <2>1, <2>2 DEF HandlerStep, UploadStart, UploadCommit, ApproveStart, RejectStart,
         DeleteStart, Load, EraseStart, ModerateCommit, Refresh, Kickoff, KickoffRefused, Enqueue,
         HandlerFail, Goto
    <3> QED BY <3>1 DEF Enqueues, IsIngest
  <2>3. CASE s = r
    <3>1. handler[r].pc # "done" /\ task[r].status = "none"
      BY <2>1, <2>3 DEF HandlerStep, UploadStart, UploadCommit, ApproveStart, RejectStart,
         DeleteStart, Load, EraseStart, ModerateCommit, Refresh, Kickoff, KickoffRefused, Enqueue,
         HandlerFail, Arrives, Active, TypeInv, Coupled, TaskOfCall
    <3>2. CASE Enqueue(r)
      BY <1>1, <3>2 DEF Enqueue, Goto, Enqueues, IsIngest, Handlers
    <3>3. CASE ModerateCommit(r)
      BY <1>1, <3>1, <3>3 DEF ModerateCommit, Goto, Enqueues, IsIngest, Handlers
    <3>4. CASE \E u \in Users : EraseStart(r, u)
      BY <1>1, <3>4 DEF EraseStart, Enqueues, IsIngest
    <3>5. CASE ~Enqueue(r) /\ ~ModerateCommit(r) /\ ~Kickoff(r) /\ ~\E u \in Users : EraseStart(r, u)
      <4>1. task'[r] = task[r]
        BY <2>1, <2>3, <3>5 DEF HandlerStep, UploadStart, UploadCommit, ApproveStart, RejectStart,
           DeleteStart, Load, Refresh, KickoffRefused, HandlerFail
      <4>2. handler'[r].pc # "enqueue"
        BY <1>1, <2>1, <2>3, <3>5 DEF HandlerStep, UploadStart, UploadCommit, ApproveStart,
           RejectStart, DeleteStart, Load, Refresh, KickoffRefused, HandlerFail, Goto, Handlers
      <4> QED BY <3>1, <4>1, <4>2 DEF Enqueues
    <3> QED BY <3>2, <3>3, <3>4, <3>5
  <2> QED BY <2>2, <2>3
<1>3. CASE WorkerNext
  BY <1>3, WorkerKeepsCalls, WorkerKeepsUnqueued DEF Enqueues, IsIngest
<1>4. CASE UNCHANGED vars
  BY <1>4 DEF vars, Enqueues, IsIngest
<1> QED
  BY <1>2, <1>3, <1>4 DEF Next

LEMMA BegunNext ==
  ASSUME Serial, TypeInv, GateInv, IndexInv, SerialInv, [Next]_vars, NEW r \in Requests
  PROVE  Begun(r)'
<1>1. /\ Begun(r) /\ CallSees(r)
      /\ wrk \in [Requests -> Workers] /\ docState \in [Docs -> RowStates]
      /\ job \in [Requests -> [status : JobStatus, step : SagaSteps]]
      /\ handler[r] \in Handlers /\ HandlerOK(handler[r])
  BY DEF SerialInv, TypeInv, TypeOK, WorkerTypeOK, StoresTypeOK, ApiTypeOK
<1>2. ASSUME IsIngest(r) PROVE IsIngest(r)' /\ Doc(r)' = Doc(r) /\ Doc(r) \in Docs
  BY <1>2, CallFixed, IngestDoc DEF IsIngest, Doc
<1>3. CASE Kickoff(r)
  <2>1. handler[r].op \in DocOps \cup {"erase", "none"} /\ "kickoff" \in OpSteps[handler[r].op]
    BY <1>1, <1>3 DEF Kickoff, Handlers, HandlerOK
  <2>2. IsIngest(r)
    BY <2>1 DEF OpSteps, DocOps, IsIngest
  <2>3. docState'[Doc(r)] = "ingesting" /\ job'[r].status = "queued"
    BY <1>1, <1>2, <1>3, <2>2 DEF Kickoff, WriteTransition, Doc
  <2> QED BY <1>2, <2>2, <2>3 DEF Begun, Absent, Doc
<1>4. CASE ~Kickoff(r)
  <2>1. /\ job'[r].status # "none" => job[r].status # "none"
        /\ job[r].status # "none" => job'[r].status # "none"
        /\ Enqueues(r)' => Enqueues(r)
    BY <1>4, JobBegins, EnqueuesNext
  <2>2. ASSUME job'[r].status # "none"
        PROVE  IsIngest(r)' /\ docState'[Doc(r)'] \notin {Absent, "proposed", "approved"}
    <3>1. IsIngest(r) /\ docState[Doc(r)] \notin {Absent, "proposed", "approved"}
      BY <1>1, <2>1, <2>2 DEF Begun
    <3>2. PICK d \in Docs : d = Doc(r) /\ d = Doc(r)'
      BY <1>2, <3>1
    <3>3. docState'[d] # Absent
      BY <3>1, <3>2, RowsStay
    <3>4. docState'[d] \notin {"proposed", "approved"}
      <4>1. CASE docState'[d] = docState[d]
        BY <3>1, <3>2, <4>1
      <4>2. CASE docState'[d] # docState[d]
        <5>1. PICK q \in Requests : RowMoves(q, d)
          BY <4>2, RowMover
        <5> QED BY <3>1, <3>2, <5>1 DEF RowMoves
      <4> QED BY <4>1, <4>2
    <3> QED BY <1>2, <3>1, <3>2, <3>3, <3>4
  <2>3. ASSUME wrk'[r].pc \in IngestSteps, wrk'[r].seen[Doc(r)'] = "ingesting"
        PROVE  docState'[Doc(r)'] = "ingesting"
    <3>1. CASE wrk'[r].pc \in IngestSteps /\ wrk[r].pc \in IngestSteps /\ wrk'[r].seen[Doc(r)] = wrk[r].seen[Doc(r)]
      <4>1. IsIngest(r) /\ wrk'[r].pc # "return"
        BY <3>1 DEF TypeInv, Coupled, TaskOfCall, IngestSteps
      <4>2. docState[Doc(r)] = "ingesting"
        BY <1>1, <1>2, <2>3, <3>1, <4>1 DEF Begun
      <4> QED BY <1>2, <3>1, <4>1, <4>2, SagaHoldsRow
    <3>2. CASE wrk'[r] = wrk[r]
      BY <1>2, <2>3, <3>1, <3>2 DEF TypeInv, Coupled, TaskOfCall
    <3>3. CASE PickIngest(r)
      <4>1. /\ wrk' = [wrk EXCEPT ![r] = [IdleWorker EXCEPT !.pc = "chunk", !.seen[Doc(r)] = docState[Doc(r)]]]
            /\ IsIngest(r) /\ UNCHANGED docState
        BY <3>3 DEF PickIngest, Take, pgVars
      <4>2. wrk'[r].seen[Doc(r)] = docState[Doc(r)]
        BY <1>1, <1>2, <4>1 DEF IdleWorker
      <4> QED BY <1>2, <2>3, <4>1, <4>2
    <3>4. CASE PickCleanup(r) \/ PickErase(r)
      <4>1. ~IsIngest(r) /\ handler' = handler
        BY <3>4 DEF PickCleanup, PickErase, IsIngest, IsCleanup, IsErase
      <4>2. TaskOfCall(r)'
        BY <3>4, PickType DEF PickUp, TypeInv, Coupled
      <4> QED BY <2>3, <4>1, <4>2 DEF TaskOfCall, IsIngest
    <3>5. CASE IngestStep(r)
      <4>1. wrk[r].pc \in IngestSteps
        BY <3>5, IngestMove
      <4>2. CASE PromoteLoad(r)
        <5>1. wrk'[r].seen = wrk[r].seen
          BY <1>1, <1>2, <4>1, <4>2 DEF PromoteLoad, Serial, Workers, TypeInv, Coupled, TaskOfCall
        <5> QED BY <2>3, <3>1, <4>1, <5>1
      <4>3. CASE Return(r)
        BY <1>1, <2>3, <4>3 DEF Return, IdleWorker, IngestSteps
      <4>4. CASE \E next \in IngestSteps : Step(r, next)
        <5>1. wrk'[r].seen = wrk[r].seen
          BY <1>1, <4>4 DEF Step, Workers
        <5> QED BY <2>3, <3>1, <4>1, <5>1
      <4> QED BY <3>5, <4>2, <4>3, <4>4, IngestMove
    <3>6. CASE PurgeStep(r)
      BY <2>3, <3>6, PurgeMove
    <3>7. CASE wrk'[r] = IdleWorker
      BY <2>3, <3>7 DEF IdleWorker, IngestSteps
    <3> QED BY <3>2, <3>3, <3>4, <3>5, <3>6, <3>7, ApiMove, WorkerMove DEF Next, PickUp, vars
  <2> QED BY <1>1, <2>1, <2>2, <2>3 DEF Begun
<1> QED
  BY <1>3, <1>4

LEMMA OneJobNext ==
  ASSUME TypeInv, SerialInv, [Next]_vars
  PROVE  OneJob'
<1>1. ASSUME NEW r \in Requests, job[r].status # "none"
      PROVE  /\ Doc(r)' = Doc(r)
             /\ docState[Doc(r)] # "approved"
  BY <1>1, CallFixed DEF SerialInv, Begun, IsIngest, Doc
<1>2. ASSUME NEW r \in Requests, Kickoff(r)
      PROVE  /\ Doc(r)' = Doc(r)
             /\ docState[Doc(r)] = "approved"
             /\ \A q \in Requests : Kickoff(q) => q = r
  <2>1. handler[r].op # "none"
    BY <1>2 DEF Kickoff, TypeInv, TypeOK, ApiTypeOK, HandlerOK, OpSteps
  <2>2. handler[r].pc = "kickoff" /\ docState[Doc(r)] = "approved"
    BY <1>2 DEF Kickoff, SerialInv, CallSees
  <2>3. \A q \in Requests : Kickoff(q) => q = r
    BY <2>2 DEF Kickoff, SerialInv, OneCall, Active
  <2> QED BY <2>1, <2>2, <2>3, CallFixed DEF Doc
<1>3. ASSUME NEW r \in Requests, NEW q \in Requests, job'[r].status # "none",
             job'[q].status # "none", Doc(r)' = Doc(q)'
      PROVE  r = q
  <2>1. /\ job[r].status # "none" \/ Kickoff(r)
        /\ job[q].status # "none" \/ Kickoff(q)
    BY <1>3, JobBegins
  <2> QED BY <1>1, <1>2, <1>3, <2>1 DEF SerialInv, OneJob
<1> QED
  BY <1>3 DEF OneJob

LEMMA TraceOfRowNext ==
  ASSUME Serial, TypeInv, GateInv, IndexInv, SerialInv, [Next]_vars
  PROVE  TraceOfRow'
<1> SUFFICES ASSUME NEW d \in Docs, trace'[d] # {} PROVE docState'[d] # Absent
  BY DEF TraceOfRow
<1>1. CASE docState[d] # Absent
  BY <1>1, RowsStay
<1>2. CASE docState[d] = Absent
  <2>1. trace'[d] # trace[d]
    BY <1>2 DEF SerialInv, TraceOfRow
  <2>2. PICK r \in Requests : RowMoves(r, d)
    BY <2>1, RowMover
  <2>3. UploadCommit(r)
    BY <1>2, <2>2 DEF RowMoves, CallWrites, CanTransition, DocStates, Absent
  <2> QED BY <2>2, <2>3 DEF RowMoves, UploadCommit, Doc, Absent, TypeInv, TypeOK, StoresTypeOK
<1> QED
  BY <1>1, <1>2

LEMMA SerialInit == Init => SerialInv
  BY DEF Init, StoresInit, ApiInit, WorkerInit, SerialInv, OneCall, OneJob, TraceOfRow, CallSees,
     Begun, Enqueues, Active, IdleHandler, IdleWorker, IsIngest, IngestSteps, NoJob

(* A commit that writes what it read is a step of the life cycle. *)
LEMMA LifecycleStep ==
  ASSUME Serial, TypeInv, GateInv, IndexInv, SerialInv, [Next]_vars
  PROVE  [Lifecycle!Next]_(Lifecycle!lifecycleVars)
<1>1. ASSUME NEW d \in Docs, NEW to \in DocStates, CanTransition(docState[d], to),
             WriteTransition(d, docState[d], to)
      PROVE  Lifecycle!Next
  <2>1. Lifecycle!Transition(d, to)
    BY <1>1 DEF Lifecycle!Transition, Lifecycle!CanTransition, Lifecycle!Allowed,
       Lifecycle!DocStates, CanTransition, Allowed, DocStates, WriteTransition
  <2> QED BY <1>1, <2>1 DEF Lifecycle!Next, Lifecycle!DocStates, DocStates
<1>2. ASSUME NEW r \in Requests, CallWrites(r) PROVE Lifecycle!Next
  <2>1. CASE UploadCommit(r) /\ docState[Doc(r)] = Absent
    <3> DEFINE direct == handler[r].flag
    <3>1. Doc(r) \in Docs /\ direct \in BOOLEAN /\ trace[Doc(r)] = {}
      BY <1>2, <2>1 DEF CallWrites, TypeInv, TypeOK, ApiTypeOK, Handlers, SerialInv, TraceOfRow
    <3>2. /\ docState' = [docState EXCEPT ![Doc(r)] = IF direct THEN "approved" ELSE "proposed"]
          /\ trace' = [trace EXCEPT ![Doc(r)] = @ \cup {<<"proposed", "proposed">>}
                          \cup (IF direct THEN {<<"proposed", "approved">>} ELSE {})]
      BY <2>1 DEF UploadCommit, Doc
    <3>3. Lifecycle!Upload(Doc(r), direct)
      BY <2>1, <3>1, <3>2 DEF Lifecycle!Upload, Lifecycle!Absent, Absent, TypeInv, TypeOK, StoresTypeOK
    <3> QED BY <3>1, <3>3 DEF Lifecycle!Next
  <2>2. CASE \E to \in {"approved", "rejected", "deleted", "ingesting"} :
               /\ CanTransition(docState[Doc(r)], to)
               /\ WriteTransition(Doc(r), docState[Doc(r)], to)
    BY <1>1, <1>2, <2>2 DEF CallWrites, DocStates
  <2> QED BY <1>2, <2>1, <2>2 DEF CallWrites
<1>3. ASSUME NEW r \in Requests, TaskWrites(r) PROVE Lifecycle!Next
  <2>1. PICK to \in {"ingested", "ingestion_failed"} : WriteTransition(Doc(r), "ingesting", to)
    BY <1>3 DEF TaskWrites
  <2>2. CanTransition("ingesting", to) /\ to \in DocStates
    BY DEF CanTransition, Allowed, DocStates
  <2> QED BY <1>1, <1>3, <2>1, <2>2 DEF TaskWrites
<1>4. CASE UNCHANGED <<docState, trace>>
  BY <1>4 DEF Lifecycle!lifecycleVars
<1> QED
  BY <1>2, <1>3, <1>4, RowCommits, CallCommits, TaskCommits

(* With one call at a time the table behaves as the life cycle of          *)
(* document_state.py says, whatever the tasks do beside the calls: every   *)
(* change of a row is a transition that transition() allows, made from the *)
(* state the row has, and recorded (document_state.py:12-21, 28-49).       *)
THEOREM TableFollowsLifecycle ==
  ASSUME Serial
  PROVE  Spec => RefinesLifecycle
<1>1. Init => Lifecycle!Init
  BY DEF Init, StoresInit, Lifecycle!Init, Lifecycle!Absent, Absent
<1>2. TypeInv /\ GateInv /\ IndexInv /\ SerialInv /\ [Next]_vars => SerialInv'
  <2> SUFFICES ASSUME TypeInv, GateInv, IndexInv, SerialInv, [Next]_vars PROVE SerialInv'
    OBVIOUS
  <2>1. OneCall' /\ \A r \in Requests : CallSees(r)'
    BY CallsNext
  <2>2. OneJob' /\ TraceOfRow'
    BY OneJobNext, TraceOfRowNext
  <2>3. \A r \in Requests : Begun(r)'
    BY BegunNext
  <2> QED BY <2>1, <2>2, <2>3 DEF SerialInv
<1>3. TypeInv /\ GateInv /\ IndexInv /\ SerialInv /\ [Next]_vars
        => [Lifecycle!Next]_(Lifecycle!lifecycleVars)
  BY LifecycleStep
<1> QED
  BY <1>1, <1>2, <1>3, SerialInit, TypeCorrect, GateKept, IndexKept, PTL
     DEF Spec, RefinesLifecycle, Lifecycle!Spec

=============================================================================
