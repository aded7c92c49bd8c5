----------------------------- MODULE DocumentApi -----------------------------
(***************************************************************************)
(* The API calls that change a document: upload, approve, reject and       *)
(* delete (backend/app/routers/documents.py) and the erasure of a user     *)
(* (backend/app/routers/users.py).                                         *)
(*                                                                         *)
(* A handler is a coroutine with its own database session.  It loads the   *)
(* row, checks it, and commits: other handlers and the workers run at      *)
(* every await in between, and the commit is an unconditional UPDATE.      *)
(* A call that is refused (404, 409, a role, an illegal transition on what *)
(* it loaded) changes nothing and takes no step here.                      *)
(***************************************************************************)
EXTENDS DocumentStores

CONSTANTS
  Offered,     \* the operations a model lets callers use
  MaxHandlers  \* how many calls run at the same time

DocOps == {"upload", "approve", "reject", "delete"}

ASSUME OfferedAssumption == Offered \subseteq DocOps \cup {"erase"}
ASSUME MaxHandlersAssumption == MaxHandlers \in Nat

(* What no API call changes. *)
workerVars == <<supersededBy, erased, chunks, nodes, entities, facts, wrk, crashes>>

HandlerSteps == {"idle", "insert", "commit", "refresh", "kickoff", "enqueue", "done"}

(* flag is direct_ingest for an upload and hard for a deletion; loaded is  *)
(* the state of the document as the session of the call knows it.          *)
IdleHandler == [pc |-> "idle", op |-> "none", target |-> NoDoc,
                flag |-> FALSE, loaded |-> Absent]

OpSteps ==
  [ none    |-> {"idle"},
    upload  |-> {"insert", "refresh", "kickoff", "enqueue", "done"},
    approve |-> {"commit", "refresh", "kickoff", "enqueue", "done"},
    reject  |-> {"commit", "done"},
    delete  |-> {"commit", "enqueue", "done"},
    erase   |-> {"enqueue", "done"} ]

Handlers == [pc : HandlerSteps, op : DocOps \cup {"erase", "none"},
             target : Docs \cup Users \cup {NoDoc}, flag : BOOLEAN, loaded : RowStates]

HandlerOK(h) ==
  /\ h.pc \in OpSteps[h.op]
  /\ h.op \in DocOps => h.target \in Docs
  /\ h.op = "erase" => h.target \in Users

ApiInit == handler = [r \in Requests |-> IdleHandler]

ApiTypeOK ==
  /\ handler \in [Requests -> Handlers]
  /\ \A r \in Requests : HandlerOK(handler[r])

Active(r) == handler[r].pc \notin {"idle", "done"}

(* A call of an offered operation arrives and a slot is free for it. *)
Arrives(r, op) ==
  /\ op \in Offered
  /\ handler[r].pc = "idle"
  /\ Cardinality({q \in Requests : Active(q)}) < MaxHandlers

Goto(r, pc) == handler' = [handler EXCEPT ![r].pc = pc]

-----------------------------------------------------------------------------
(* upload_document up to the object store: the replaced document must      *)
(* exist, whatever its state, and the file is in MinIO before the row.     *)
UploadStart(r, d, direct) ==
  /\ Arrives(r, "upload")
  /\ docState[d] = Absent /\ d \notin objects
  /\ Owner[d] \notin erased
  /\ Supersedes[d] # NoDoc => docState[Supersedes[d]] # Absent
  /\ objects' = objects \cup {d}
  /\ handler' = [handler EXCEPT ![r] =
                   [pc |-> "insert", op |-> "upload", target |-> d,
                    flag |-> direct, loaded |-> "proposed"]]
  /\ UNCHANGED <<docState, trace, job, task, workerVars>>

(* One commit inserts the row, records proposed -> proposed, and for an    *)
(* editor or an admin also proposed -> approved.                           *)
UploadCommit(r) ==
  LET d == handler[r].target
      direct == handler[r].flag
  IN  /\ handler[r].pc = "insert"
      /\ docState' = [docState EXCEPT ![d] = IF direct THEN "approved" ELSE "proposed"]
      /\ trace' = [trace EXCEPT ![d] = @ \cup {<<"proposed", "proposed">>}
                     \cup (IF direct THEN {<<"proposed", "approved">>} ELSE {})]
      /\ Goto(r, IF direct THEN "refresh" ELSE "done")
      /\ UNCHANGED <<job, objects, task, workerVars>>

-----------------------------------------------------------------------------
(* approve, reject and delete load the row, check it and make the          *)
(* transition in memory; nothing is awaited between the load and the check.*)
Load(r, op, d, flag) ==
  /\ Arrives(r, op)
  /\ handler' = [handler EXCEPT ![r] =
                   [pc |-> "commit", op |-> op, target |-> d,
                    flag |-> flag, loaded |-> docState[d]]]
  /\ UNCHANGED <<docState, trace, job, objects, task, workerVars>>

(* Mutant: a rejected document may be approved after all. *)
ApproveStartReopens(r, d) ==
  /\ docState[d] \in {"proposed", "rejected"}
  /\ Load(r, "approve", d, TRUE)

ApproveStart(r, d) ==
  /\ docState[d] = "proposed"
  /\ Load(r, "approve", d, TRUE)

RejectStart(r, d) ==
  /\ CanTransition(docState[d], "rejected")
  /\ Load(r, "reject", d, FALSE)

DeleteStart(r, d, hard) ==
  /\ CanTransition(docState[d], "deleted")
  /\ Load(r, "delete", d, hard)

(* Mutant: a state that doc_state_enum does not have. *)
VerdictMisspelt == [approve |-> "approved", reject |-> "refused", delete |-> "deleted"]

(* The state each of the three operations commits, over whatever the row   *)
(* holds by then.                                                          *)
Verdict == [approve |-> "approved", reject |-> "rejected", delete |-> "deleted"]

ModerateCommit(r) ==
  LET h == handler[r]
  IN  /\ h.pc = "commit"
      /\ WriteTransition(h.target, h.loaded, Verdict[h.op])
      /\ \/ h.op = "approve" /\ Goto(r, "refresh")
         \/ h.op = "reject"  /\ Goto(r, "done")
         \/ h.op = "delete"  /\ Goto(r, "enqueue")
      /\ UNCHANGED <<job, objects, task, workerVars>>

-----------------------------------------------------------------------------
(* session.refresh(doc) before _kickoff_ingestion. *)
Refresh(r) ==
  /\ handler[r].pc = "refresh"
  /\ handler' = [handler EXCEPT ![r].pc = "kickoff",
                                ![r].loaded = docState[handler[r].target]]
  /\ UNCHANGED <<docState, trace, job, objects, task, workerVars>>

(* Mutant: the job row is committed and its task is never enqueued. *)
KickoffForgets(r) ==
  LET h == handler[r]
  IN  /\ h.pc = "kickoff"
      /\ CanTransition(h.loaded, "ingesting")
      /\ WriteTransition(h.target, h.loaded, "ingesting")
      /\ job' = [job EXCEPT ![r].status = "queued"]
      /\ Goto(r, "done")
      /\ UNCHANGED <<objects, task, workerVars>>

(* _kickoff_ingestion: the job row and the state "ingesting", in one       *)
(* commit, before the task is enqueued.                                    *)
Kickoff(r) ==
  LET h == handler[r]
  IN  /\ h.pc = "kickoff"
      /\ CanTransition(h.loaded, "ingesting")
      /\ WriteTransition(h.target, h.loaded, "ingesting")
      /\ job' = [job EXCEPT ![r].status = "queued"]
      /\ Goto(r, "enqueue")
      /\ UNCHANGED <<objects, task, workerVars>>

(* Another call moved the document on since: IllegalStateTransition, a 500.*)
KickoffRefused(r) ==
  /\ handler[r].pc = "kickoff"
  /\ ~CanTransition(handler[r].loaded, "ingesting")
  /\ Goto(r, "done")
  /\ UNCHANGED <<docState, trace, job, objects, task, workerVars>>

(* DELETE /users/{id}/erase commits an audit row and enqueues the task. *)
EraseStart(r, u) ==
  /\ Arrives(r, "erase")
  /\ handler' = [handler EXCEPT ![r] =
                   [pc |-> "enqueue", op |-> "erase", target |-> u,
                    flag |-> FALSE, loaded |-> Absent]]
  /\ UNCHANGED <<docState, trace, job, objects, task, workerVars>>

(* enqueue_ingestion, enqueue_doc_cleanup, enqueue_user_erasure: a Redis   *)
(* call after the commit, without the job id that would deduplicate it.    *)
Enqueue(r) ==
  /\ handler[r].pc = "enqueue"
  /\ task' = [task EXCEPT ![r].status = "queued"]
  /\ Goto(r, "done")
  /\ UNCHANGED <<docState, trace, job, objects, workerVars>>

(* Mutant: an upload that fails takes its file back, row or no row. *)
HandlerFailDropsFile(r) ==
  /\ "api" \in Faults
  /\ Active(r)
  /\ Goto(r, "done")
  /\ objects' = IF handler[r].op = "upload" THEN objects \ {handler[r].target} ELSE objects
  /\ UNCHANGED <<docState, trace, job, task, workerVars>>

(* The call ends early; what it committed stays. *)
HandlerFail(r) ==
  /\ "api" \in Faults
  /\ Active(r)
  /\ Goto(r, "done")
  /\ UNCHANGED <<docState, trace, job, objects, task, workerVars>>

-----------------------------------------------------------------------------
HandlerStep(r) ==
  \/ UploadCommit(r)
  \/ ModerateCommit(r)
  \/ Refresh(r)
  \/ Kickoff(r)
  \/ KickoffRefused(r)
  \/ Enqueue(r)

ApiNext ==
  \E r \in Requests :
    \/ \E d \in Docs, direct \in BOOLEAN : UploadStart(r, d, direct)
    \/ \E d \in Docs : ApproveStart(r, d)
    \/ \E d \in Docs : RejectStart(r, d)
    \/ \E d \in Docs, hard \in BOOLEAN : DeleteStart(r, d, hard)
    \/ \E u \in Users : EraseStart(r, u)
    \/ HandlerStep(r)
    \/ HandlerFail(r)

=============================================================================
