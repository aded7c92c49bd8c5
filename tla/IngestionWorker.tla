--------------------------- MODULE IngestionWorker ---------------------------
(***************************************************************************)
(* The arq worker and the three tasks the API enqueues for documents       *)
(* (backend/app/workers/tasks.py): ingest_document, which runs the saga of *)
(* backend/app/ingestion/pipeline.py, cleanup_document and erase_user.     *)
(*                                                                         *)
(* A task loads its rows once.  The session keeps them after each commit   *)
(* (expire_on_commit=False in backend/app/db/postgres.py), so "seen" is    *)
(* what the task believes while the rows move on.  arq runs a task again   *)
(* from the start when the worker stops under it, at most MaxTries times.  *)
(***************************************************************************)
EXTENDS DocumentApi

CONSTANTS
  MaxJobs,    \* WorkerSettings.max_jobs
  MaxTries,   \* arq's max_tries
  MaxCrashes  \* bounds how often the worker stops

ASSUME MaxJobsAssumption    == MaxJobs \in Nat \ {0}
ASSUME MaxTriesAssumption   == MaxTries \in Nat \ {0}
ASSUME MaxCrashesAssumption == MaxCrashes \in Nat

IngestSteps == {"chunk", "extract", "resolve", "qdrant", "qdrant_commit", "node", "link",
                "entities", "mentions", "facts", "neo4j_commit", "promote", "commit"}
PurgeSteps  == {"qdrant_delete", "graph_delete", "sweep", "object_delete"}
WorkerSteps == IngestSteps \cup PurgeSteps \cup {"idle", "pick", "return"}

(* seen is the identity map of the task's session, Absent where a document *)
(* is not loaded; cur, todo and purged are the loop of erase_user.         *)
IdleWorker == [pc |-> "idle", seen |-> [d \in Docs |-> Absent], cur |-> NoDoc,
               todo |-> {}, purged |-> {}]

WorkerInit ==
  /\ task = [r \in Requests |-> [status |-> "none", tries |-> 0]]
  /\ wrk = [r \in Requests |-> IdleWorker]
  /\ crashes = 0

Workers == [pc : WorkerSteps, seen : [Docs -> RowStates], cur : Docs \cup {NoDoc},
            todo : SUBSET Docs, purged : SUBSET Docs]

WorkerTypeOK ==
  /\ task \in [Requests -> [status : TaskStates, tries : 0 .. MaxTries]]
  /\ wrk \in [Requests -> Workers]
  /\ crashes \in 0 .. MaxCrashes

(* The document of an ingestion or cleanup task, and whose task it is. *)
Doc(r) == handler[r].target
IsIngest(r)  == handler[r].op \in {"upload", "approve"}
IsCleanup(r) == handler[r].op = "delete"
IsErase(r)   == handler[r].op = "erase"

At(r, pc) == wrk[r].pc = pc
Step(r, pc) == wrk' = [wrk EXCEPT ![r].pc = pc]
Return(r) == wrk' = [wrk EXCEPT ![r] = [IdleWorker EXCEPT !.pc = "return"]]

-----------------------------------------------------------------------------
(* arq starts a queued task when a slot is free. *)
Take(r, w) ==
  /\ task[r].status = "queued"
  /\ task[r].tries < MaxTries
  /\ Cardinality({q \in Requests : task[q].status = "running"}) < MaxJobs
  /\ task' = [task EXCEPT ![r] = [status |-> "running", tries |-> @.tries + 1]]
  /\ wrk' = [wrk EXCEPT ![r] = w]

(* Mutant: a second try resumes after the saga step it finds, one too far. *)
PickIngestResumes(r) ==
  /\ IsIngest(r)
  /\ Take(r, [IdleWorker EXCEPT !.pc = IF job[r].step = "qdrant_written"
                                       THEN "promote" ELSE "chunk",
                                !.seen[Doc(r)] = docState[Doc(r)]])
  /\ job' = [job EXCEPT ![r].status = "running"]
  /\ UNCHANGED <<pgVars, storeVars, handler, crashes>>

(* run_ingestion loads the job and the document and marks the job running, *)
(* also when an earlier try has finished the job.                          *)
PickIngest(r) ==
  /\ IsIngest(r)
  /\ Take(r, [IdleWorker EXCEPT !.pc = "chunk", !.seen[Doc(r)] = docState[Doc(r)]])
  /\ job' = [job EXCEPT ![r].status = "running"]
  /\ UNCHANGED <<pgVars, storeVars, handler, crashes>>

PickCleanup(r) ==
  /\ IsCleanup(r)
  /\ Take(r, [IdleWorker EXCEPT !.pc = "qdrant_delete", !.cur = Doc(r)])
  /\ UNCHANGED <<pgVars, job, storeVars, handler, crashes>>

(* erase_user loads every document of the user in one query. *)
PickErase(r) ==
  LET mine == {d \in Docs : Owner[d] = handler[r].target /\ docState[d] # Absent}
  IN  /\ IsErase(r)
      /\ Take(r, [IdleWorker EXCEPT !.pc = "pick", !.todo = mine,
                    !.seen = [d \in Docs |-> IF d \in mine THEN docState[d] ELSE Absent]])
      /\ UNCHANGED <<pgVars, job, storeVars, handler, crashes>>

-----------------------------------------------------------------------------
(* The commits that only move saga_step on: after OCR and chunking, after  *)
(* extraction, after entity resolution, after each store is written.       *)
SagaCommits ==
  [ chunk         |-> [saga |-> "chunked",        next |-> "extract"],
    extract       |-> [saga |-> "extracted",      next |-> "resolve"],
    resolve       |-> [saga |-> "resolved",       next |-> "qdrant"],
    qdrant_commit |-> [saga |-> "qdrant_written", next |-> "node"],
    neo4j_commit  |-> [saga |-> "neo4j_written",  next |-> "promote"] ]

SagaCommit(r) ==
  /\ wrk[r].pc \in DOMAIN SagaCommits
  /\ At(r, "chunk") => Doc(r) \in objects
  /\ job' = [job EXCEPT ![r].step = SagaCommits[wrk[r].pc].saga]
  /\ Step(r, SagaCommits[wrk[r].pc].next)
  /\ UNCHANGED <<pgVars, storeVars, handler, task, crashes>>

(* Step A: write_chunks_to_qdrant. *)
WriteChunks(r) ==
  /\ At(r, "qdrant")
  /\ chunks' = chunks \cup {Doc(r)}
  /\ Step(r, "qdrant_commit")
  /\ UNCHANGED <<pgVars, job, graphVars, objects, handler, task, crashes>>

(* Step B: write_graph, one session of the Neo4j driver per call. *)
UpsertDocument(r) ==
  /\ At(r, "node")
  /\ nodes' = nodes \cup {Doc(r)}
  /\ Step(r, IF Supersedes[Doc(r)] = NoDoc THEN "entities" ELSE "link")
  /\ UNCHANGED <<pgVars, job, chunks, entities, facts, objects, handler, task, crashes>>

(* link_supersedes closes the facts the replaced document has by now. *)
LinkSupersedes(r) ==
  /\ At(r, "link")
  /\ facts' = [facts EXCEPT ![Supersedes[Doc(r)]] = IF @ = "open" THEN "closed" ELSE @]
  /\ Step(r, "entities")
  /\ UNCHANGED <<pgVars, job, chunks, nodes, entities, objects, handler, task, crashes>>

(* upsert_entities: until they are linked, a sweep may take them. *)
UpsertEntities(r) ==
  /\ At(r, "entities")
  /\ entities' = [entities EXCEPT ![Doc(r)] = IF @ = "linked" THEN @ ELSE "loose"]
  /\ Step(r, "mentions")
  /\ UNCHANGED <<pgVars, job, chunks, nodes, facts, objects, handler, task, crashes>>

(* link_mentioned_in: MATCH finds nothing for a node that is gone, and     *)
(* nothing is written, silently.                                           *)
LinkMentions(r) ==
  /\ At(r, "mentions")
  /\ entities' = [entities EXCEPT ![Doc(r)] =
                    IF @ = "loose" /\ Doc(r) \in nodes THEN "linked" ELSE @]
  /\ Step(r, "facts")
  /\ UNCHANGED <<pgVars, job, chunks, nodes, facts, objects, handler, task, crashes>>

(* upsert_relations: MATCH finds nothing for an entity that was swept, and *)
(* the fact is not written, silently.  A second run may write it; tx_to is *)
(* set ON CREATE only, so it does not open a closed fact again.            *)
WriteFacts(r) ==
  /\ At(r, "facts")
  /\ facts' = [facts EXCEPT ![Doc(r)] =
                 IF @ \in {"open", "closed"} THEN @
                 ELSE IF entities[Doc(r)] = "swept" THEN "lost" ELSE "open"]
  /\ Step(r, "neo4j_commit")
  /\ UNCHANGED <<pgVars, job, chunks, nodes, entities, objects, handler, task, crashes>>

(* Step C: the transition to "ingested" is made in memory, then the        *)
(* replaced document is loaded.                                            *)
PromoteLoad(r) ==
  LET old == Supersedes[Doc(r)]
  IN  /\ At(r, "promote")
      /\ CanTransition(wrk[r].seen[Doc(r)], "ingested")
      /\ wrk' = [wrk EXCEPT ![r].pc = "commit",
                            ![r].seen = IF old = NoDoc THEN @
                                        ELSE [@ EXCEPT ![old] = docState[old]]]
      /\ UNCHANGED <<pgVars, job, storeVars, handler, task, crashes>>

(* Mutant: the three states are superseded without asking transition(). *)
ReplacesUnchecked(r) ==
  LET old == Supersedes[Doc(r)]
  IN  /\ old # NoDoc
      /\ wrk[r].seen[old] \in {"ingested", "ingestion_failed", "approved"}

(* Three states are tried; the transition to "superseded" is allowed from  *)
(* "ingested" only and refused silently from the two others.               *)
Replaces(r) ==
  LET old == Supersedes[Doc(r)]
  IN  /\ old # NoDoc
      /\ wrk[r].seen[old] \in {"ingested", "ingestion_failed", "approved"}
      /\ CanTransition(wrk[r].seen[old], "superseded")

(* The commit of step C: both documents, both trace rows and the job. *)
PromoteCommit(r) ==
  LET d == Doc(r)
      old == Supersedes[d]
      seen == wrk[r].seen
  IN  /\ At(r, "commit")
      /\ IF Replaces(r)
         THEN /\ docState' = [docState EXCEPT ![d] = "ingested", ![old] = "superseded"]
              /\ trace' = [trace EXCEPT ![d] = @ \cup {<<seen[d], "ingested">>},
                                        ![old] = @ \cup {<<seen[old], "superseded">>}]
              /\ supersededBy' = [supersededBy EXCEPT ![old] = d]
         ELSE /\ WriteTransition(d, seen[d], "ingested")
              /\ UNCHANGED supersededBy
      /\ job' = [job EXCEPT ![r] = [status |-> "succeeded", step |-> "done"]]
      /\ Return(r)
      /\ UNCHANGED <<erased, storeVars, handler, task, crashes>>

(* A call to a service other than PostgreSQL raises.  One that raises      *)
(* after it had its effect, in part or in full, raises at the step after.  *)
FallibleSteps == IngestSteps \ {"promote", "commit"}

(* Where _ingest raises: a service fails; the file is gone; or the         *)
(* document was not "ingesting" when the task loaded it.                   *)
IngestRaises(r) ==
  \/ "ingest" \in Faults /\ wrk[r].pc \in FallibleSteps
  \/ At(r, "chunk") /\ Doc(r) \notin objects
  \/ At(r, "promote") /\ ~CanTransition(wrk[r].seen[Doc(r)], "ingested")

(* Mutants: the except branch closes the job and forgets the document, or  *)
(* fails the document whatever state it was loaded in.                     *)
IngestFailForgets(r) ==
  /\ IngestRaises(r)
  /\ job' = [job EXCEPT ![r].status = "failed"]
  /\ Return(r)
  /\ UNCHANGED <<pgVars, storeVars, handler, task, crashes>>

IngestFailUnchecked(r) ==
  /\ IngestRaises(r)
  /\ job' = [job EXCEPT ![r].status = "failed"]
  /\ WriteTransition(Doc(r), wrk[r].seen[Doc(r)], "ingestion_failed")
  /\ Return(r)
  /\ UNCHANGED <<supersededBy, erased, storeVars, handler, task, crashes>>

(* run_ingestion's except branch.  What the saga wrote to the stores stays.*)
IngestFail(r) ==
  LET d == Doc(r)
      loaded == wrk[r].seen[d]
  IN  /\ IngestRaises(r)
      /\ job' = [job EXCEPT ![r].status = "failed"]
      /\ IF CanTransition(loaded, "ingestion_failed")
         THEN WriteTransition(d, loaded, "ingestion_failed")
         ELSE UNCHANGED <<docState, trace>>
      /\ Return(r)
      /\ UNCHANGED <<supersededBy, erased, storeVars, handler, task, crashes>>

-----------------------------------------------------------------------------
(* One store at a time, for the document cleanup_document was given or the *)
(* one erase_user has come to.  cleanup_document goes on after a store     *)
(* that raises; erase_user leaves the document and takes the next one.     *)
AfterGraph(r) == IF IsErase(r) \/ handler[r].flag THEN "object_delete" ELSE "return"
AfterObject(r) == IF IsErase(r) THEN "pick" ELSE "return"

DeleteChunks(r) ==
  /\ At(r, "qdrant_delete")
  /\ chunks' = chunks \ {wrk[r].cur}
  /\ Step(r, "graph_delete")
  /\ UNCHANGED <<pgVars, job, graphVars, objects, handler, task, crashes>>

(* Mutant: only the facts of the document are deleted. *)
CascadeKeepsNode(d) ==
  /\ UNCHANGED <<nodes, entities>>
  /\ facts' = IF d \in nodes THEN [facts EXCEPT ![d] = "none"] ELSE facts

(* Mutant: the facts are not asked which document they are from. *)
CascadeAnyFacts(d) ==
  IF d \in nodes
  THEN /\ nodes' = nodes \ {d}
       /\ entities' = [entities EXCEPT ![d] = IF @ = "linked" THEN "loose" ELSE @]
       /\ facts' = [e \in Docs |-> "none"]
  ELSE UNCHANGED graphVars

(* DELETE_DOC_CASCADE starts from the Document node: without it nothing is *)
(* deleted.  The entities stay, without the mentions of this document.     *)
Cascade(d) ==
  IF d \in nodes
  THEN /\ nodes' = nodes \ {d}
       /\ entities' = [entities EXCEPT ![d] = IF @ = "linked" THEN "loose" ELSE @]
       /\ facts' = [facts EXCEPT ![d] = "none"]
  ELSE UNCHANGED graphVars

DeleteGraph(r) ==
  /\ At(r, "graph_delete")
  /\ Cascade(wrk[r].cur)
  /\ Step(r, "sweep")
  /\ UNCHANGED <<pgVars, job, chunks, objects, handler, task, crashes>>

(* CLEANUP_ORPHAN_ENTITIES, for the whole knowledge base: it takes any     *)
(* entities without an edge to a document and without a fact, those of a   *)
(* running ingestion too.  Which of them another document or knowledge     *)
(* base holds is left open.                                                *)
Orphaned(d) == entities[d] = "loose" /\ facts[d] \in {"none", "lost"}

Sweep(r) ==
  /\ At(r, "sweep")
  /\ \E gone \in SUBSET {d \in Docs : Orphaned(d)} :
       entities' = [d \in Docs |-> IF d \in gone THEN "swept" ELSE entities[d]]
  /\ Step(r, AfterGraph(r))
  /\ UNCHANGED <<pgVars, job, chunks, nodes, facts, objects, handler, task, crashes>>

DeleteObject(r) ==
  /\ At(r, "object_delete")
  /\ objects' = objects \ {wrk[r].cur}
  /\ wrk' = [wrk EXCEPT ![r].pc = AfterObject(r),
                        ![r].purged = IF IsErase(r) THEN @ \cup {wrk[r].cur} ELSE @]
  /\ UNCHANGED <<pgVars, job, chunks, graphVars, handler, task, crashes>>

(* Mutant: erase_user goes on after a store that raises, as               *)
(* cleanup_document does.                                                  *)
StoreFailsGoesOn(r) ==
  LET pc == wrk[r].pc
  IN  /\ "store" \in Faults
      /\ pc \in PurgeSteps
      /\ wrk' = [wrk EXCEPT
           ![r].pc = [qdrant_delete |-> "graph_delete", graph_delete |-> AfterGraph(r),
                      sweep |-> AfterGraph(r), object_delete |-> AfterObject(r)][pc],
           ![r].purged = IF pc = "object_delete" THEN @ \cup {wrk[r].cur} ELSE @]
      /\ UNCHANGED <<pgVars, job, storeVars, handler, task, crashes>>

(* The cascade and the sweep are one call of delete_doc_cascade: when the  *)
(* first raises the second is not run.                                     *)
StoreFails(r) ==
  LET pc == wrk[r].pc
  IN  /\ "store" \in Faults
      /\ pc \in PurgeSteps
      /\ Step(r, IF IsErase(r) THEN "pick"
                 ELSE [qdrant_delete |-> "graph_delete", graph_delete |-> AfterGraph(r),
                       sweep |-> AfterGraph(r), object_delete |-> AfterObject(r)][pc])
      /\ UNCHANGED <<pgVars, job, storeVars, handler, task, crashes>>

EraseNext(r) ==
  /\ At(r, "pick")
  /\ \E d \in wrk[r].todo :
       wrk' = [wrk EXCEPT ![r].pc = "qdrant_delete", ![r].cur = d,
                          ![r].todo = @ \ {d}]
  /\ UNCHANGED <<pgVars, job, storeVars, handler, task, crashes>>

(* The one commit of erase_user.  doc.state is assigned without            *)
(* transition(): no check and no trace row; a document that was loaded as  *)
(* deleted is not written.                                                 *)
EraseCommit(r) ==
  /\ At(r, "pick")
  /\ wrk[r].todo = {}
  /\ docState' = [d \in Docs |-> IF d \in wrk[r].purged /\ wrk[r].seen[d] # "deleted"
                                 THEN "deleted" ELSE docState[d]]
  /\ erased' = erased \cup {handler[r].target}
  /\ Return(r)
  /\ UNCHANGED <<supersededBy, trace, job, storeVars, handler, task, crashes>>

-----------------------------------------------------------------------------
Ends(r) ==
  /\ task' = [task EXCEPT ![r].status = "finished"]
  /\ wrk' = [wrk EXCEPT ![r] = IdleWorker]
  /\ UNCHANGED <<pgVars, job, storeVars, handler, crashes>>

(* The task function returns and arq stores its result. *)
TaskReturn(r) == At(r, "return") /\ Ends(r)

(* job_timeout, or an exception out of the task: arq does not run it again.*)
TaskTimeout(r) ==
  /\ "timeout" \in Faults
  /\ task[r].status = "running"
  /\ Ends(r)

(* The worker stopped under the task MaxTries times. *)
GiveUp(r) ==
  /\ task[r].status = "queued"
  /\ task[r].tries = MaxTries
  /\ Ends(r)

(* The worker process stops: arq queues every task it was running again.   *)
WorkerCrash ==
  /\ crashes < MaxCrashes
  /\ \E r \in Requests : task[r].status = "running"
  /\ crashes' = crashes + 1
  /\ task' = [r \in Requests |-> IF task[r].status = "running"
                                 THEN [task[r] EXCEPT !.status = "queued"] ELSE task[r]]
  /\ wrk' = [r \in Requests |-> IdleWorker]
  /\ UNCHANGED <<pgVars, job, storeVars, handler>>

-----------------------------------------------------------------------------
PickUp(r) == PickIngest(r) \/ PickCleanup(r) \/ PickErase(r)

IngestStep(r) ==
  \/ SagaCommit(r)
  \/ WriteChunks(r)
  \/ UpsertDocument(r)
  \/ LinkSupersedes(r)
  \/ UpsertEntities(r)
  \/ LinkMentions(r)
  \/ WriteFacts(r)
  \/ PromoteLoad(r)
  \/ PromoteCommit(r)
  \/ IngestFail(r)

PurgeStep(r) ==
  \/ DeleteChunks(r)
  \/ DeleteGraph(r)
  \/ Sweep(r)
  \/ DeleteObject(r)
  \/ StoreFails(r)
  \/ EraseNext(r)
  \/ EraseCommit(r)

TaskStep(r) == PickUp(r) \/ IngestStep(r) \/ PurgeStep(r) \/ TaskReturn(r) \/ GiveUp(r)

WorkerNext ==
  \/ \E r \in Requests : TaskStep(r) \/ TaskTimeout(r)
  \/ WorkerCrash

=============================================================================
