---------------------------- MODULE DocumentStores ----------------------------
(***************************************************************************)
(* What the API handlers and the arq workers share: the PostgreSQL rows of *)
(* documents, their transition trace, ingestion jobs and users; the chunks *)
(* in Qdrant; the Document nodes, entities and RELATED_TO facts in Neo4j;  *)
(* the files in MinIO; and the arq queue in Redis.  The four stores have   *)
(* no common transaction: every action of the modules above changes what   *)
(* one commit or one call to one store changes.                            *)
(*                                                                         *)
(* One element of Requests stands for one API call.  A call creates at     *)
(* most one ingestion job and enqueues at most one arq task, so the job    *)
(* and the task carry the name of the request that created them.           *)
(***************************************************************************)
EXTENDS DocumentState, Naturals, FiniteSets

CONSTANTS
  Docs,        \* document ids
  Users,       \* users who upload
  Requests,    \* API calls that change state (bounds how many are made)
  NoDoc,       \* null in supersedes_id and superseded_by_id
  Supersedes,  \* supersedes_id of each document, fixed at upload
  Owner,       \* created_by of each document
  Faults       \* the failures a model lets happen, see FaultKinds

ASSUME DocsAssumption  == Docs # {} /\ NoDoc \notin Docs
ASSUME SupersedesAssumption ==
         /\ Supersedes \in [Docs -> Docs \cup {NoDoc}]
         /\ \A d \in Docs : Supersedes[d] # d
ASSUME OwnerAssumption == Owner \in [Docs -> Users]

(* "api": an API call stops before its end (a 500, the process dies, Redis *)
(* refuses the task); "ingest": an ingestion step raises; "store": a       *)
(* deletion in one store raises; "timeout": an arq task ends without       *)
(* finishing (job_timeout, or an exception the task does not catch).       *)
FaultKinds == {"api", "ingest", "store", "timeout"}

ASSUME FaultsAssumption == Faults \subseteq FaultKinds

VARIABLES
  docState,     \* documents.state
  supersededBy, \* documents.superseded_by_id
  trace,        \* document_state_transitions, a set of <<from, to>> per document
  erased,       \* users.erased
  job,          \* ingestion_jobs: status and saga_step
  chunks,       \* documents with points in Qdrant
  nodes,        \* documents with a Document node in Neo4j
  entities,     \* the Entity nodes a document names, see EntityStates
  facts,        \* RELATED_TO edges of a document: tx_to null is "open"
  objects,      \* documents whose file is in MinIO
  handler,      \* the API call: where it stands and what its session loaded
  task,         \* the arq task of a request
  wrk,          \* the coroutine of a task in the worker
  crashes       \* how often the worker stopped

pgVars    == <<docState, supersededBy, trace, erased>>
graphVars == <<nodes, entities, facts>>
storeVars == <<chunks, nodes, entities, facts, objects>>

vars == <<docState, supersededBy, trace, erased, job, chunks, nodes, entities,
          facts, objects, handler, task, wrk, crashes>>

JobStatus == {"none", "queued", "running", "succeeded", "failed"}
SagaSteps == {"none", "chunked", "extracted", "resolved", "qdrant_written",
              "neo4j_written", "done"}

(* The entities the facts of a document relate are "loose" while the       *)
(* document has no MENTIONED_IN edge to them, "linked" when it has, and    *)
(* "swept" when some were deleted as orphans before they were linked.      *)
(* Facts are "lost" when they were written and some of the entities were   *)
(* not there: those are not in the graph.                                  *)
EntityStates == {"none", "loose", "linked", "swept"}
FactStates == {"none", "lost", "open", "closed"}
TaskStates == {"none", "queued", "running", "finished"}

(* A request whose row in ingestion_jobs is not created yet. *)
NoJob == [status |-> "none", step |-> "none"]

StoresInit ==
  /\ docState = [d \in Docs |-> Absent]
  /\ supersededBy = [d \in Docs |-> NoDoc]
  /\ trace = [d \in Docs |-> {}]
  /\ erased = {}
  /\ job = [r \in Requests |-> NoJob]
  /\ chunks = {}
  /\ nodes = {}
  /\ entities = [d \in Docs |-> "none"]
  /\ facts = [d \in Docs |-> "none"]
  /\ objects = {}

StoresTypeOK ==
  /\ docState \in [Docs -> RowStates]
  /\ supersededBy \in [Docs -> Docs \cup {NoDoc}]
  /\ trace \in [Docs -> SUBSET TraceRows]
  /\ erased \in SUBSET Users
  /\ job \in [Requests -> [status : JobStatus, step : SagaSteps]]
  /\ chunks \in SUBSET Docs
  /\ nodes \in SUBSET Docs
  /\ entities \in [Docs -> EntityStates]
  /\ facts \in [Docs -> FactStates]
  /\ objects \in SUBSET Docs

(* One commit that moves d to state "to", with the trace row transition()  *)
(* added for the state "from" that the session held.                       *)
WriteTransition(d, from, to) ==
  /\ docState' = [docState EXCEPT ![d] = to]
  /\ trace' = [trace EXCEPT ![d] = @ \cup {<<from, to>>}]

(* The document has been through a transition, whatever came after it. *)
Traced(d, from, to) == <<from, to>> \in trace[d]
EverDeleted(d) == \E s \in DocStates : Traced(d, s, "deleted")

=============================================================================
