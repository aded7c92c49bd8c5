---------------------------- MODULE DocumentSystem ----------------------------
(***************************************************************************)
(* The API and the workers together, and what the pair must keep true of   *)
(* the four stores whatever the interleaving, the crashes and the retries. *)
(***************************************************************************)
EXTENDS IngestionWorker

Init == StoresInit /\ ApiInit /\ WorkerInit

Next == ApiNext \/ WorkerNext

Spec == Init /\ [][Next]_vars

(* An API call that runs and a task that is queued or running are never    *)
(* left alone by the event loops that schedule them; no call is ever due.  *)
Fairness ==
  \A r \in Requests :
    /\ WF_vars(HandlerStep(r))
    /\ WF_vars(TaskStep(r))

FairSpec == Spec /\ Fairness

TypeOK == StoresTypeOK /\ ApiTypeOK /\ WorkerTypeOK

-----------------------------------------------------------------------------
(* The document was deleted at some time, or its owner is being erased. *)
Removed(d) ==
  \/ EverDeleted(d)
  \/ \E r \in Requests : IsErase(r) /\ handler[r].target = Owner[d]

(* The facts of d found their entities taken, by the sweep that ends the   *)
(* removal of another document.                                            *)
SweptBeside(d) ==
  /\ facts[d] = "lost"
  /\ \E e \in Docs \ {d} : Removed(e)

Indexed(d) ==
  /\ d \in chunks /\ d \in nodes
  /\ facts[d] \in {"open", "closed"} \/ SweptBeside(d)

(* A document that is shown as being ingested has an ingestion job that is *)
(* not finished: no interleaving of two approvals, a deletion, a failure,  *)
(* a crash and a second run leaves a document in "ingesting", where every  *)
(* API call refuses it, with all its jobs closed (pipeline.py:43-52).      *)
NoOrphanIngesting ==
  \A d \in Docs : docState[d] = "ingesting" =>
    \E r \in Requests :
      IsIngest(r) /\ Doc(r) = d /\ job[r].status \in {"queued", "running"}

(* No text of a document is in the search index before an editor approved  *)
(* it and its ingestion was recorded, not even of one that was deleted or  *)
(* whose row went through a lost update since (documents.py:56, 112-118).  *)
ModerationGate ==
  \A d \in chunks :
    /\ Traced(d, "proposed", "approved")
    /\ \E s \in DocStates : Traced(d, s, "ingesting")

(* Commit-last, read from PostgreSQL: what is shown as ingested is in      *)
(* Qdrant and in Neo4j with its facts, unless somebody deleted it.  One    *)
(* thing breaks that promise, and nothing else does: the removal of        *)
(* another document may sweep its entities before they are linked, and its *)
(* facts are then not written (pipeline.py:174-205, tasks.py:27-39,        *)
(* temporal_model.py:69-76, 97-102).                                       *)
IngestedIsIndexed ==
  \A d \in Docs : docState[d] = "ingested" /\ ~Removed(d) => Indexed(d)

(* A document is replaced only by a document that names it, that has been  *)
(* ingested and that can be found in its place, with the same exception    *)
(* for its facts (pipeline.py:180-190).                                    *)
ReplacementIsIndexed ==
  \A old \in Docs :
    /\ docState[old] = "superseded" => supersededBy[old] # NoDoc
    /\ supersededBy[old] # NoDoc =>
         LET new == supersededBy[old]
         IN  /\ Supersedes[new] = old
             /\ Traced(new, "ingesting", "ingested")
             /\ Traced(old, "ingested", "superseded")
             /\ Removed(new) \/ Indexed(new)

(* The file of a document that nobody deleted can be downloaded, so that   *)
(* an approval however late finds what it approves (documents.py:68-91).   *)
FileKept ==
  \A d \in Docs : docState[d] # Absent /\ ~Removed(d) => d \in objects

(* erase_user gives up on a document when a store raises, and declares     *)
(* deleted only those whose file it has removed, also when another erasure *)
(* or a cleanup runs beside it (tasks.py:69-78).                           *)
ErasedFileIsGone ==
  \A d \in Docs : docState[d] = "deleted" /\ ~EverDeleted(d) => d \notin objects

-----------------------------------------------------------------------------
(* Without lost calls and with fewer stops than tries, a document that is  *)
(* being ingested has a task, or a call about to enqueue one: nothing else *)
(* would ever move it on.                                                  *)
IngestingHasWork ==
  \A d \in Docs : docState[d] = "ingesting" =>
    \E r \in Requests :
      /\ IsIngest(r) /\ Doc(r) = d
      /\ handler[r].pc = "enqueue" \/ task[r].status \in {"queued", "running"}

(* An approval is carried out and an ingestion ends, one way or another,   *)
(* also when two calls approve, reject and delete the same document.       *)
Settles ==
  \A d \in Docs :
    docState[d] \in {"approved", "ingesting"} ~> docState[d] \notin {"approved", "ingesting"}

(* Every deletion that is committed takes the document out of both stores  *)
(* of the search, past tries of the cleanup that were interrupted and      *)
(* ingestions that are still writing (documents.py:165, tasks.py:27-39).   *)
(* Nothing keeps it out: a running ingestion may write it again.           *)
DeletionReachesStores ==
  \A d \in Docs :
    LET committed == \E r \in Requests :
          handler[r].pc = "enqueue" /\ handler[r].op = "delete" /\ handler[r].target = d
    IN  /\ committed ~> d \notin chunks
        /\ committed ~> d \notin nodes

(* The table behaves as document_state.py says. *)
Lifecycle == INSTANCE DocumentLifecycle WITH state <- docState

RefinesLifecycle == Lifecycle!Spec

=============================================================================
