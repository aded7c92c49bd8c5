# Sonar-Echo: TLA+ models, model checking and proofs

Sonar-Echo is a multi-tenant retrieval service: documents are uploaded, moderated, ingested by a background
worker into four stores (PostgreSQL, MinIO, Qdrant, Neo4j), searched, and talked about in a chat page; automations
send answers on a schedule. This directory specifies what no single process controls: the life of a document across
the stores, the entity graph that ingestions share, the scheduler, the rebuild of communities, the conversation
between the page and the server. TLC checks the specifications on small instances; TLAPS proves their safety
properties and a refinement for instances of every size. Paths below are under
`src/`; `app/` stands for `src/backend/app/`. `PROJECT.json` names, for every definition, the lines it models, and
for every hazard the line where it bites and the properties that watch it.

## 1. The system

| Component | State | Operations | Interacts through |
|---|---|---|---|
| Document state machine (`app/services/document_state.py`) | `documents.state`, `document_state_transitions` | `transition()` | the caller's database session |
| Documents API (`app/routers/documents.py`) | a session per call | upload, approve, reject, delete, `_kickoff_ingestion` | PostgreSQL, MinIO, arq tasks |
| User erasure (`app/routers/users.py`, `app/workers/tasks.py`) | `users.erased` | request, task | as above, all four stores |
| Ingestion saga (`app/ingestion/pipeline.py`, `writers.py`) | `ingestion_jobs`, a session per task | download, chunk, extract, resolve, Qdrant, Neo4j, promote | all four stores, LLM |
| Chunker (`app/ingestion/chunker.py`) | a buffer | `chunk_pages` | called by the saga |
| Cleanup (`app/workers/tasks.py`) | none | purge of one document | Qdrant, Neo4j, MinIO |
| Queue (`app/workers/queue.py`, `arq_settings.py`) | Redis | enqueue, run, retry, time out | API to worker |
| Knowledge graph (`app/graph/`, `app/ingestion/resolver.py`) | Entity and Document nodes, MENTIONED_IN, RELATED_TO | MERGE and DELETE statements | Neo4j |
| Retrieval (`app/retrieval/`, `routers/search.py`) | none | full-text and vector search, expansion, fusion | reads Qdrant, Neo4j, PostgreSQL |
| Communities (`app/services/communities.py`) | `communities`, a GDS projection | rebuild | Neo4j, LLM, PostgreSQL |
| Automations (`app/routers/automations.py`, `services/automation_service.py`, cron in `tasks.py`) | `automations.last_run_at` | schedule, run, deliver | arq, SMTP |
| Chat (`app/routers/chat.py`, `services/chat_service.py`) | conversations, messages | post, stream, rate | retrieval, LLM |
| Frontend (`frontend/js/`) | page state, hash, token, SSE reader | pages, router, login | HTTP |
| Rate limiting (`app/security/rate_limiter.py`, `main.py`) | buckets in memory | check | every call |
| Membership, auth, gems (`app/routers/kbs.py`, `auth.py`, `gems.py`, `app/security/`) | users, memberships, gems | register, login, add a member, share | PostgreSQL |
| MCP server (`app/mcp/server.py`) | none | search and upload tools | the functions above |

What is hard in it:

* **Four stores, no transaction.** A document is a row, a file, points and a subgraph, written one after another by
  a saga that may stop anywhere. Nothing compensates. The graph itself is written one statement at a time.
* **Sessions that do not see each other.** Handlers and tasks are coroutines that load a row, check it in memory and
  commit an unconditional `UPDATE`; with `expire_on_commit=False` a task goes on for up to half an hour with the rows
  it loaded first. Two overlapping calls both pass their check, and the later commit wins.
* **Commit, then enqueue.** A job, and an automation's `last_run_at`, is committed before its task is in Redis.
* **Interrupted tasks run again**, from the start, also those that had committed everything or sent their mail.
* **Deletions race with writers**: cleanup and erasure delete from stores that a running saga is still writing, and
  the sweep of orphan entities covers a whole knowledge base.
* **Answers that arrive late.** The page has one flag for its stream and draws whatever an await brings, whether the
  user is still there, on that page, or logged in.

What makes each part correct: a document never gets stuck in a state no call accepts; nothing is searchable that
nobody approved; what PostgreSQL shows is in the stores; a replacement replaces only when it can be found; files
outlive every document that is not deleted, and are gone when an erasure says so; approvals, ingestions and deletions
end; an ingestion is complete in the graph, unless a removal took its entities before they were linked; no paragraph
of a document is lost; a due automation fires once, and one that a scheduler could not come to is served by a later one;
the communities shown are of one rebuild and of a graph of its time; an answer whose text is shown is stored, and
remembered as long as it fits in the history; nothing of a user stays on the screen after the token is gone.

## 2. The modules

| Module | Models | Lines of |
|---|---|---|
| `DocumentState` | states and the transitions that `transition()` accepts | `document_state.py`, `models/document.py` |
| `DocumentLifecycle` | abstract specification: a table in which every change is an allowed transition of the current state and is traced | what `document_state.py` promises |
| `DocumentStores` | the shared variables of the four stores and the queue, and the traced write | `models/document.py` |
| `DocumentApi` | one coroutine per API call, a step per await | `routers/documents.py`, `routers/users.py`, `queue.py` |
| `IngestionWorker` | the arq worker, the ingestion saga, cleanup, erasure; failures, timeouts, stops, tries | `pipeline.py`, `writers.py`, `tasks.py`, `graph/`, `arq_settings.py` |
| `DocumentSystem` | API and worker together, fairness, the properties, the refinement of `DocumentLifecycle` | |
| `DocumentClaims` | what a test says of the state machine and the code does not do | |
| `KnowledgeGraph` | tasks that resolve, write and delete entities, mentions and facts, statement by statement | `resolver.py`, `writers.py`, `temporal_model.py` |
| `HybridSearch` | a search, read by read, over the tasks of `KnowledgeGraph` | `hybrid.py`, `temporal_model.py` |
| `Chunker` | `chunk_pages`, paragraph by paragraph | `chunker.py` |
| `AutomationScheduler` | automations, the scheduler of each minute, the runs, the clock, stops of the worker | `automations.py`, `tasks.py`, `automation_service.py` |
| `Communities` | rebuilds of one knowledge base | `communities.py`, `routers/entities.py` |
| `ChatService` | conversations and the generator of an answer | `routers/chat.py`, `chat_service.py` |
| `ChatPage` | the single-page application over `ChatService` | `router.js`, `main.js`, `api.js`, `state.js`, `chat.js`, `login.js`, `kb_detail.js` |
| `DocumentProofs`, `DocumentSafety`, `DocumentConsistency`, `GraphProofs`, `ChunkerProofs`, `AutomationProofs`, `CommunitiesProofs`, `ChatProofs` | theorems and proofs | |
| `MC*` | instances for TLC | |

Composition: `DocumentSystem` EXTENDS `IngestionWorker`, which EXTENDS `DocumentApi` over `DocumentStores`;
`HybridSearch` EXTENDS `KnowledgeGraph` and interleaves its reads with that module's steps; `ChatPage` EXTENDS
`ChatService`. `KnowledgeGraph` is the detail of what `IngestionWorker` keeps as one node, one state of its entities and
one of its facts per document.

### Documents

**State.** `docState`, `supersededBy`, `trace` and `erased` are rows in PostgreSQL; `trace[d]` is the set of `<<from,
to>>` rows. `job[r]` is the ingestion job that call `r` created. `chunks`, `nodes`, `facts` and `objects` say which
documents have points in Qdrant, a node in Neo4j, `RELATED_TO` edges there (open while `tx_to` is null) and a file in
MinIO; facts are `lost` when they were written and their entities were not there, so that the MERGE matched nothing.
`entities` says where the entities stand that these facts relate: upserted and without an edge (`loose`), with the
document's mentions (`linked`), or deleted as orphans by a removal before they were linked (`swept`). `handler[r]` is
the API call: the await it stands at and the state its session loaded. `task[r]` is its arq task, `wrk[r]` the coroutine
that runs it, with `seen`, the identity map of its session.

A call creates at most one job and one task, so all three carry the name of the call, an element of `Requests`; the
size of `Requests` bounds how many calls a behaviour makes.

**Actions.** One per await: what happens between two awaits of a coroutine is one step, and other coroutines run
only in between. `UploadStart` is the handler up to the file in MinIO, `UploadCommit` its commit; `ApproveStart`,
`RejectStart` and `DeleteStart` load and check, `ModerateCommit` commits; `Refresh`, `Kickoff` and `Enqueue` are
`session.refresh`, `_kickoff_ingestion` and the Redis call. In the worker `Pick*` starts a task, `SagaCommit` stands for
the commits that only move `saga_step` on, and each write to a store is an action: `WriteChunks`, `UpsertDocument`,
`LinkSupersedes`, `UpsertEntities`, `LinkMentions` and `WriteFacts`, the three groups of statements of `write_graph`;
`DeleteChunks`, `DeleteGraph` (the cascade from the Document node), `Sweep` (the orphans of the knowledge base, of
running ingestions too), `DeleteObject`. `PromoteLoad` and `PromoteCommit` are
step C of the saga; `IngestFail` is the except branch of `run_ingestion`. A call that is refused changes nothing and
takes no step.

**Failures.** `Faults` selects them. `api`: a call stops between two steps. `ingest`: a step of the saga raises;
a service that fails after it had its effect is a failure at the next step. `store`: a deletion in one store raises.
`timeout`: a task is cancelled. Stops of the worker are bounded by `MaxCrashes`. arq is not part of the
repository: that an interrupted task is queued again, at most `max_tries` times, and that a cancelled one is not, is
modelled from how arq is configured here and marked external.

**Abstractions.** Texts, titles, versions, dates, tokens and costs; audit rows, which are in the same commit as the change
they report; single entities, mentions and relations (`KnowledgeGraph` has them; here a document has one state
for each kind, and whether a loose entity is held by another document is left open: the sweep takes any of them or
none); job rows of a document beyond their status and step; roles, which decide only
whether a call starts. An erased user cannot start an upload (`jwt_auth.py` refuses the token).

### Knowledge graph and search

`writer[t]` is a task, an ingestion or a removal of a document, at the statement it is about to run: `Resolve` is the
single lookup of `resolve_entities` and decides everything the task will write later (`canon`, the entity each extracted
one is merged into, and `names`, the alias lists); `WriteChunks` replaces the document's points; `UpsertDocument`,
`LinkSupersedes`, `UpsertEntity`, `LinkMention`, `UpsertRelation` are the MERGE statements, which do nothing when their
MATCH finds no node; `DeleteChunks`, `Cascade`, `Sweep` the removal. `Sweep` is a DETACH DELETE: it takes with an entity
every mention and fact that touches it, so that it takes none is a property and not an assumption. `Stop` lets a task
end anywhere and start again. What an LLM may extract from a document (`Extractions`) and which entities are similar
enough to merge (`Similar`) are constants. The history variables `missed` and `disturbed` record that a task's lookup
has become stale and that a removal came between its writes.

A search reads in four awaits (`Fulltext`, `VectorSearch`, `Promote`, one `Timeline` per entity). Scores and limits
are abstracted to any choice among the matches.

### Chunker

One round of the inner loop is `AddParagraph`, its end `EndPage`. A paragraph is its number of tokens; the buffer is an
interval of paragraphs, which is what `chunk_pages` keeps of it. The limits are compared with the sum of the paragraphs;
a chunk, `Emit`, is the paragraphs joined with blank lines and encoded as one text, which is counted with `BlankLine`
tokens more for each join (of the encoder it is taken that a text has no more tokens than its parts).

### Automations

The clock counts minutes; a cron expression is the set of minutes it names, and `IsDue` is `croniter(...).get_next() <=
now`. `cron[m]` is the scheduler job of minute `m`: it reads the active automations once (`SchedulerStart`) and then
alternates `Fire`, the commit of `last_run_at`, and `SchedulerEnqueue`. `FireGone` is a row deleted under it: the
commit raises, and the rollback makes the log statement in the handler raise as well, so the scheduler ends there
(`cut`). `run[r]` executes an automation: `RunStart` checks the row, `RunDeliver` sends, `RunCommit` writes
`last_run_at` again. A run is named by its automation and what enqueued it, the scheduler of a minute or a call.
`WorkerStop` queues again what runs; arq tries a run `max_tries` times and a cron job once (`CronTries`: `arq_settings.py`
passes no other number), so a scheduler that was stopped is `cut` too. `fires`, `delivered`, `overlap` and `touched`
(the automations created or changed since a scheduler last started) are history.

### Communities

`rebuild[r]` goes through the projection (`DropProjection`, `Project`, `LeidenStarts`, `LeidenWrites`, `ReadMembers`,
`ClearProjection`) and the transaction (`DeleteRows`, `GetLocks`, `InsertRows`). A drop may fail, which the code
swallows; whatever Leiden raises, with or without another rebuild, ends the task in silence (`Skip`). `ids` is the
projection the `community_id` properties in Neo4j come from, `over` the one a rebuild has before it. Row locks and
snapshots are those of READ COMMITTED: a DELETE sees what was committed when it started, waits for rows another
transaction is deleting, and skips those that are gone.

### Chat

`stream[q]` is the request of question `q` and the generator of its response: `Authenticate` looks the token up,
`PostMessage` commits the question, `Search`, `ReadHistory`, `Generate`, `Persist` and `SendAnswer` follow,
`StreamBreaks` is an exception in it, `StreamCancelled` a client that is gone. `ReadHistory` reads all messages of the
conversation by `created_at`, which PostgreSQL's `now()` sets to the beginning of the transaction: `before` is that
order. `Generate` gives the LLM the last `HistoryLength` of them (`history[-10:]`). In the browser an action is what
JavaScript runs between two awaits; `HandleRoute` is the router, `HashChange` an event that is handled with the hash of
that later moment, `Unauthorized` what `api.js` does with a 401, which may answer any request (`CallUnauthorized` is
that of a rating, of the list of conversations, of a page drawn at once). `shown` are the answers whose text was on the
screen; the bubble drawn before an answer has rating buttons too (`placeholder`), whose request names no message and
changes nothing. `page[i]` are instances of the chat page: an instance that has left the screen goes on with what it
awaits. Of the other pages there are two kinds, drawn at once (`kbs`) and drawn after an await (`kb`).

One consequence of the code as it is shapes the model: opening a conversation sets the hash to `#/chat?conv=...`, which
the router does not match, so the next hashchange replaces the chat page by the login page (`hash_shown` below).
Questions are asked before that event is handled, in the conversation that is open, or after a return to `#/chat`.

## 3. What is checked

| Run | Instance | Distinct states | Properties |
|---|---|---|---|
| `races` (`MCRaces`) | 1 document, 3 calls, 2 at a time, 2 slots, 2 tries, 1 stop, all faults | 2 110 000 | `TypeOK`, `NoOrphanIngesting`, `ModerationGate`, `IngestedIsIndexed`, `FileKept` |
| `erase` (`MCErase`) | 2 documents of 1 user, the second replaces the first, 3 calls, failing ingestions and stores | 1 730 000 | `NoOrphanIngesting`, `ErasedFileIsGone`, `IngestedIsIndexed`, `ReplacementIsIndexed` |
| `serial` (`MCSerial`) | 1 document, 4 calls one after the other, all faults, 2 stops, 2 tries | 922 000 | `RefinesLifecycle` |
| `settles` (`MCFair`) | 1 document, 3 calls, 2 at a time, 1 slot, failing ingestions, 1 stop, fair | 139 000 | `IngestingHasWork`, `Settles`, `DeletionReachesStores` |
| `graph` (`MCGraph`) | a document that may be ingested twice, its amendment, a removal of the first; 2 entities | 658 000 | `GraphTypeOK`, `CompleteUnlessDisturbed`, `PayloadIsMentioned`, `RemovedOnlyByOwnCascade`, `ClosedStaysClosed`, `AliasesLostOnlyIfStale` |
| `chunker` (`MCChunker`) | every page of up to 5 paragraphs of 5 sizes, and a second page of at most one | 64 000 | `TypeOK`, `NothingLost`, `BudgetKept`, `ChunksAdvance` |
| `automations` (`MCAutomations`) | 2 automations, 2 minutes, 1 change, 2 slots, 2 tries of a run, 1 fault | 2 817 000 | `TypeOK`, `FiredOnce`, `SentAgainOnlyAfterStop`, `LossesPaid`, `DueIsMarked` |
| `communities` (`MCCommunities`) | 3 rebuilds, 2 tries each, any failures and stops | 1 539 000 | `TypeOK`, `MembersAreRecent`, `OneRunInTable` |
| `chat` (`MCChat`) | 1 conversation, 2 questions, a history of 2, 2 instances of the page, 2 clicks, fair | 500 000 | `TypeOK`, `ShownIsStored`, `RemembersWhatWasShown`, `NoTokenNoPage`, `SendingEnds` |

Documents:

* `NoOrphanIngesting`: a document in `ingesting`, which no API call accepts as a from-state, has a job that is not
  closed. The `except` branch closes a job and fails its document in one commit, but over a row it did not lock and only
  if it had loaded the document as `ingesting`; that this suffices is not obvious.
* `ModerationGate`: chunks are in Qdrant only for documents that were approved and whose ingestion was recorded.
* `IngestedIsIndexed`: the commit-last order of the saga, seen from PostgreSQL: what is shown as ingested, and nobody
  deleted, is in Qdrant and Neo4j. The code keeps that promise but for one case, which the property names: the orphan
  sweep at the end of the removal of *another* document may take the entities between `UpsertEntities` and
  `LinkMentions`; the relations then match nothing and the document is ingested without facts (`SweptBeside`). `races`
  shows it for all failures of one document, `erase` for two documents and that sweep.
* `FileKept`: an approval, however late, finds the file.
* `ReplacementIsIndexed`: a document is superseded only by an ingested document that names it and can be found, with the
  same exception for its facts.
* `ErasedFileIsGone`: an erasure declares deleted only the documents whose file it removed.
* `IngestingHasWork`: when no call is lost and the worker stops less often than arq tries, there is always someone left
  to move an ingesting document on.
* `Settles`: approvals and ingestions come to an end. `DeletionReachesStores`: a committed deletion takes the document
  out of Qdrant and Neo4j at some time, as long as no store raises (cleanup swallows that and nothing tries again) and
  no task is cancelled; the file is not part of it. Nothing in the code keeps it out (an ingestion that is still
  running, or runs again, writes it again, although the README of the repository, line 160, says "soft / hard delete
  (cascade 3 stores)").
* `RefinesLifecycle`: `DocumentSystem` implements `DocumentLifecycle` when calls do not overlap. When they do, it does
  not: see `deleted_terminal`. It does not cover erasure, which bypasses `transition()`, nor replacement.

Knowledge graph:

* `CompleteUnlessDisturbed`: a finished ingestion has all its mentions and facts in Neo4j, unless its document was
  removed, or the orphan sweep of a removal came between its entities and its edges: then the MERGE of the edge
  matches nothing and says nothing. The run shows that these two are the only causes; a stale lookup, a second try
  and a concurrent merge into the same entity are none.
* `PayloadIsMentioned`: the entity ids that Qdrant shows with a chunk are those Neo4j links, although the two are
  written minutes apart from a lookup older than both.
* `RemovedOnlyByOwnCascade`: a mention or a fact disappears only by the cascade of its own document. The sweep deletes
  entities with all their edges; the query's two conditions leave it only entities that have none.
* `ClosedStaysClosed`: a second try of a superseded document does not open its facts again.
* `AliasesLostOnlyIfStale`: aliases are overwritten with a list read earlier; the run shows when names are lost.

Chunker: `NothingLost` and `ChunksAdvance` say that the chunks of a page are intervals that move on, overlap by at most
`overlap_tokens` and leave no paragraph out. `BudgetKept` bounds the text of a chunk: `max_tokens` is exceeded only by the
blank lines of its joins, or by a last paragraph behind an overlap. The blank lines are not little: with the defaults of
`chunk_pages` (target 800, maximum 1500) and a blank line of one token, 799 paragraphs of one token and one of 701 are one
chunk of 2299 tokens.

Automations: `FiredOnce`: a due minute is fired by one scheduler, also with missed minutes, stops and changed rows,
as long as schedulers do not overlap; if they do, it may fire twice. `SentAgainOnlyAfterStop`: at most one more mail
per stop of the worker. `LossesPaid`: `last_run_at` is committed before the run is enqueued, so a run can be lost; it is
lost only to an enqueue that raised or to a stop, which costs one run for each scheduler it interrupts, however many
automations were due. `DueIsMarked`: a scheduler that comes to its end leaves no active automation behind that is due,
minutes missed and schedulers cut short before it included, unless its owner changed it meanwhile. A scheduler that is
cut short (a row deleted under it, a stop) leaves the rest to the next one; arq does not run it again. What `last_run_at`
is past counts as served although its run may be lost (`LossesPaid`), and a run that ends late passes over the minutes
before its end.

Communities: `MembersAreRecent`: the communities that are stored come from a projection of the rebuild itself or of one
it ran together with, never from one that a failed rebuild left behind, although drops fail in silence and anyone's
Leiden overwrites the ids of the entities. That a rebuild may end without a result, alone too, is what the code does
(`communities.py:80-87`) and no property denies it. `OneRunInTable`: rows of two rebuilds are side by side only when
these two ran at the same time.

Chat: `ShownIsStored` (an answer whose text was on the screen has a row; the rating buttons of the bubble drawn before
it have none, see below), `RemembersWhatWasShown` (an answer the user had seen when asking is given to the LLM, unless
at least as many later messages of the conversation as the history holds keep it out), `NoTokenNoPage` (logout or a 401,
in any order with pending answers, clears the screen; pages drawn after an await are excepted because they come back,
`kb_detail.js:20`), `SendingEnds` (the input is given back).

**Bounds.** One document and three calls contain every pair of calls against a third (upload, then two that race), two
ingestions of one document, and an ingestion against an approval and a deletion. Two documents are needed where
documents interact: replacement, and an erasure in which one store call fails. Two slots let tasks interleave; more
slots than tasks change nothing. Two tries and one stop give the interrupted ingestion, also after its last commit;
`serial` has a second stop so that arq gives a task up. In `graph` one entity is named by both documents, one by a
relation and similar to the first, so that merging, sharing, closing and sweeping all occur; a third entity would repeat
one of the two roles. In `chunker` the sizes lie on both sides of each limit and five paragraphs allow a flush, an
overlap, a flush of the overlap alone and a rest; the joins of a chunk reach the number that bounds them. In
`automations` two minutes give a scheduler that overlaps the next one, a missed minute and a minute caught up, two
automations a loop that is cut short after the first. In `communities` two rebuilds race while a third finds what they
left. In `chat` an instance can outlive its screen while a second one asks; two questions fill a history of two, and the
theorem covers longer conversations, in which it overflows. The history of calls, stops and clicks is bounded by
constants that appear in the guards (`Requests`, `MaxCrashes`, `MaxChanges`, `MaxFaults`, `MaxTries`, `RebuildTries`,
`MaxClicks`, `Minutes`). `CHECK_DEADLOCK FALSE`: a behaviour ends when its calls are used up or the algorithm is done.
Symmetry is used only in runs without liveness; `settles` takes
the names of its calls in order (`mcInOrder`), which leaves out copies of behaviours and no step that is fair.

**Fairness.** `DocumentSystem!FairSpec`: weak fairness of each call's steps and of each task's. The event loop runs
every coroutine that is ready, and arq starts a queued task when a slot is free. Weak fairness of taking a task suffices
because `Requests` is finite, so slots cannot be taken for ever by later tasks. No fairness is assumed of the arrival of
calls, of failures, timeouts or stops. `settles` assumes no lost call and no timeout: with them a document may stay
`approved` or `ingesting` for ever, and the code has nothing that would pick it up. `ChatPage!FairSpec`: a generator
goes on until it ends and what arrives is read; nobody needs to click, and the calls that load a page may never be
answered.

**Claims that fail.** Each run checks one sentence of the repository and ends in a counterexample.

| Run | Says | What happens |
|---|---|---|
| `deleted_terminal` (`DocumentClaims`) | `test_state_machine.py:38` "terminal deleted blocks further transitions" | an approval that loaded the row earlier commits over the deletion |
| `promoted` (`HybridSearch`) | `hybrid.py:52` "promote entities mentioned in the chunk hits" | chunk ids are unique within a document only: the query returns entities of every document with a chunk of that number |
| `hash_shown` (`ChatPage`) | `main.js:4` "Re-renders the active page on every hash change" | a hash with a query matches no route, and the login page is drawn for a user who is logged in |

Other differences, met while modelling, which the models contain and no run is spent on:

* `pipeline.py:174` "commit-last (visibility gate)": search reads Qdrant with the knowledge base as its only filter
  (`hybrid.py:159`), so chunks are found before the commit, and after a failure.
* `chat.js:84` "Inclure les versions remplacées": `_qdrant_search` does not use `include_superseded`.
* `tasks.py:52` "GDPR right-to-erasure (cascade ...)": a running ingestion writes its chunks after the purge, and
  `delete_doc_cascade` removes nothing from the graph when the Document node is missing (`temporal_model.py:87`).
* `temporal_model.py:79`: facts the replaced document writes after they were closed stay open.
* `documents.py:84` says "from None -> proposed" and records proposed -> proposed; `tasks.py:75` changes the state
  without `transition()` and without a trace row; `tasks.py:58` says that the documents of an erased user are kept, and
  they are deleted; `pipeline.py:183` lists three states to be superseded, of which `ALLOWED` accepts one.
* `rate_limiter.py:28`: a fixed window that begins with the first call after the last one has expired admits up to twice
  the limit in a minute; `main.py:68`: the middleware catches the limiter's own 429.
* `auth.py:66`: login takes the first user of that e-mail address, over all organisations; `kbs.py:84`: a member added
  twice at once fails on the constraint.
* `kb_detail.js:20`: a page drawn after its await comes back after a logout.
* `writers.py:12` speaks of a "doc_id-scoped delete"; the delete ends with a sweep over the knowledge base, which takes
  entities of running ingestions, and `temporal_model.py:69` then writes no relation and raises nothing.
* `communities.py:81` "Leiden plugin missing": the branch takes every error of Leiden, and the rebuild ends as if it had
  succeeded.
* `chat.js:312`: the bubble of an answer that is still to come has rating buttons, because its retrieval is an empty
  object; they post for a message `undefined` and stay when the stream breaks off.
* `arq_settings.py:18`: a scheduler is tried once; one that is stopped is not run again, although runs are.
* `chunker.py:42` compares `max_tokens` with the paragraphs and not with the text of the chunk, which has blank lines.

## 4. What is proved

All theorems hold for every value of the constants that satisfies the named assumptions of the modules:
`DocsAssumption`, `SupersedesAssumption`, `OwnerAssumption`, `FaultsAssumption`, `OfferedAssumption`,
`MaxHandlersAssumption`, `MaxJobsAssumption`, `MaxTriesAssumption`, `MaxCrashesAssumption` (documents),
`GraphAssumption` (graph), `DocumentsAssumption`, `ParagraphsAssumption`, `BudgetAssumption` (chunker),
`SchedulerAssumption` (automations), `RebuildAssumption` (communities), `ConvAssumption`, `HistoryAssumption`,
`ClicksAssumption` (chat). They give the constants their types and say that a "none" value is not a document, a rebuild
or a conversation, that no paragraph is empty and that a history has a message; TLC evaluates each of them in a run.
Each theorem of a specification follows from an inductive invariant: `Init => Inv`, `Inv /\ [Next]_vars => Inv'` with
one lemma per action or family of actions, and a last step in temporal logic.

* `TypeCorrectness` (`DocumentProofs`): `Spec => []TypeOK`. Types alone are not inductive: `wrk[r].cur` is a document
  only because a purge step belongs to a cleanup or an erasure, `Doc(r)` is a document only because an ingestion step
  belongs to an upload or an approval. `TypeInv` adds `TaskOfCall`, which task a call may have, and `Coupled`, where a
  coroutine of each kind may stand (`TypeCorrect`: `Spec => []TypeInv`).
* `NoOrphans` (`DocumentSafety`): `Spec => []NoOrphanIngesting`. The strengthening says who carries an ingesting
  document: a call whose job is queued, or a task whose session loaded it as `ingesting`. `Kickoff` makes its own call
  the carrier; a commit of another call takes the document out of `ingesting`; the except branch can close the carrier's
  job only by failing the document; and two lemmas (`CallFixed`, `TraceGrows`) say what no step ever changes.
* `Moderated` (`DocumentSafety`): `Spec => []ModerationGate`. The trace only grows, so it suffices that a call past its
  checks, a task in the queue and a coroutine before its write have the approval and the ingestion in the trace.
* `DocumentConsistency` relates the table to the other stores. Its invariants build on each other and on those above:
  * `FilesFollowRows` (`RowInv` and `FileInv`): a call past its load, a task, a session and the lists of an erasure name
    only rows that exist, and a row never leaves the table; a file is missing only for a document somebody deleted or is
    erasing (`Gone`); what an erasure counts as purged has no file and gets none, since a file is stored only before its
    row. From it `FilesAreKept` (`[]FileKept`) and `ErasedHasNoFile` (`[]ErasedFileIsGone`).
  * `IngestedIsShown` (`[]IngestedIsIndexed`) and `ReplacementIsShown` (`[]ReplacementIsIndexed`), from `IndexInv`. That
    what is ingested is in the stores is not inductive, because a deletion may run under the saga: `Written` says at
    each step of a saga that what it has written so far is there *or the document is gone*, which no purge can disturb,
    and `Replaced` keeps, of a replacement, what the table and its trace will always say. For the facts, `InFacts`
    allows them to be lost when something has been removed, and `SweptAfter` says that entities are swept only then: the
    removal of the document itself excuses everything, that of another one is the exception the property names.
  * `IngestingIsServed` (`[]IngestingHasWork`), under the hypothesis `NoTaskLost`: `"api"` and `"timeout"` are not in
    `Faults` and `MaxCrashes < MaxTries`. `TriesPaid` counts the tries of a task against the stops of the worker, so arq
    never gives up; `JobServed` says that an open job has its call or its task. Without the hypothesis the property is
    false of the code: nothing picks up a job whose task is lost.
  * `TableFollowsLifecycle`: `Spec => RefinesLifecycle`, under the hypothesis `Serial`: at most one call at a time, no
    erasure, no replacement. Each part is needed. Two calls commit over each other (run `deleted_terminal`); an erasure
    writes a state without `transition()`; a replacement changes two rows in one commit, the second from a state read
    earlier. What remains is the race of a call with the tasks of the calls before it: `SerialInv` says that what a call
    has loaded is what the row holds, that a document has one job at most (`OneJob`), because it never returns to
    `approved`, and that a session which holds `ingesting` is right. Then a call writes only rows that are not
    `ingesting` and a saga only its own row that is (`RowMover`), and each commit is a `Transition` or an `Upload` of
    `DocumentLifecycle` (`LifecycleStep`).
* `ChunkerProofs`, for documents of any length, paragraphs of any size and any three limits. `NoParagraphLost`
  (`[]NothingLost`): the overlap is a suffix of what was just emitted, so cutting the buffer to it drops only paragraphs
  that are in a chunk. `ChunkTypes` (`[]TypeOK`). `ChunksFitBudget` (`[]BudgetKept`) and `ChunksGoOn`
  (`[]ChunksAdvance`), from `SizesInv`: what the buffer may hold before and after a flush, and what the last two chunks
  say of it; since no paragraph is empty (`SumCounts`), the tokens of the buffer bound its joins. The tokens of the
  buffer are a recursive function (`Sum`); that it exists and adds the last paragraph is proved from the least number at
  which it could fail (`LeastElement`, `SumExists`, `SumSteps`).
* `AutomationProofs`, for any automations, minutes, changes, faults and tries of a run (a scheduler is tried once):
  `AutomationTypes` (`[]TypeOK`, with `Timely`: nothing is dated in the future), `SendsPaidByStops`
  (`[]SentAgainOnlyAfterStop`: a run is enqueued once, and every delivery but one is paid by a stop) `DueFiredOnce`
  (`[]FiredOnce`) and `DueAreMarked` (`DueIsMarked`). For `FiredOnce`, `Marked` says that while schedulers have not
  overlapped `last_run_at` is never behind what was fired, and neither is what the running scheduler read at its start;
  so the stretches of time that were fired for one automation follow each other. For `DueIsMarked`, `NoneLeft` says that
  of an active automation its owner has left alone the running scheduler has an entry still to come, or `last_run_at` is
  past all that is due; `InTime`, that an entry is dated in its scheduler's minute or later.
* `GraphProofs`: `GraphIsComplete` (`[]CompleteUnlessDisturbed`), `PayloadAgreesWithGraph` (`[]PayloadIsMentioned`),
  `EdgesGoWithTheirDocument`, `NothingReopens` and `OnlyStaleListsLoseAliases` (`RemovedOnlyByOwnCascade`,
  `ClosedStaysClosed`, `AliasesLostOnlyIfStale`, facts about single steps) and `TypeCorrectness`. That a finished
  ingestion is complete is not inductive: `Progress` says at each statement which nodes and edges an undisturbed task
  has behind it, `Work` that what it has still to write is of its own extraction, `PointOf` which ingestion answers for
  a point, and `AliasesRead` what the list a task carries still has in common with the node. The steps of one task that
  only add to the graph are covered by one lemma (`OneTaskMoves`); `Cascade` and `Sweep` are the two that take something
  away, and the proof shows that they hit either nobody or a task they mark as disturbed. `SweepTakesNoEdges` is where
  the query of the orphans counts: an entity it names has no mention and no fact, so that the DETACH DELETE detaches
  nothing.
* `CommunitiesProofs`: `OnlyRecentMembers` (`[]MembersAreRecent`), `LatestRunOnly` (`[]OneRunInTable`) and
  `TypeCorrectness`. The invariant says that two rebuilds that run know of each other (`RunningTogether`) and that one
  that has ended is not run again (`NoneRestarts`); that the projection a rebuild meets after it has made its own, and
  the one its Leiden runs over, are of a rebuild it ran with (`MadeTogether`), and the ids it will read of one of these
  or of one they ran with (`IdsAreRecent`); that rows are of rebuilds that are done (`RowsOfEnded`), and that the rows a
  delete will spare are of rebuilds that ran with it (`SparedTogether`).
* `ChatProofs`: `AnswersAreStored`, `HistoryIsComplete`, `NothingAfterToken` (`[]ShownIsStored`,
  `[]RemembersWhatWasShown`, `[]NoTokenNoPage`) and `TypeCorrectness`. For the server, an answer is in the table before
  it is sent and what was seen is stored (`AnswerStored`); of a question, what was seen is in the rows that are read
  (`HistoryOf`), and as rows are only added and those the history had stay in their order, a message is pushed out by
  later ones alone (`HistoryStays`, `GenerateKeeps`, `NoFewer`). For the page, `Cleared` strengthens `NoTokenNoPage` to
  a screen whose hash is already that of the login page.

Every invariant and every action property that a passing run checks is a theorem but `LossesPaid`; a run shows it on an
instance with all the interesting cases, the theorem for every value of the constants.

**Left to TLC.** `Settles`, `DeletionReachesStores` and `SendingEnds`: liveness under fairness, and `ENABLED`, are out
of this prover's reach. `LossesPaid`: it counts the runs of several schedulers in one number. `HybridSearch` is only
used to show a claim that fails and has no theorem.

## 5. What is not modelled, and the plan

Not modelled, because there is no state that two actors share or no order of steps that matters:

* OCR (`ocr.py`), the LLM, embeddings and mail (`llm.py`, `email_smtp.py`): calls to services; what they may return is a
  constant or a choice of the models, that they may fail is an action.
* Rate limiting: one counter in one process; its two oddities are listed above.
* Knowledge bases, membership, authentication, gems: reads and writes of single rows under unique constraints. The
  models use of them that an erased user has no token and that a token may stop being valid.
* The MCP server, the pages of the frontend that only render: functions that are modelled, behind another interface.
* Audit rows and the GDPR report, database clients, settings, schemas, migrations: declarations, sums, and rows written
  in the commit of what they report.

Left out of components that are modelled: rows of `entity_resolution_candidates`, which nothing reads back; `SUPERSEDES`
edges, of which only the effect on facts matters; `MERGE_ENTITY` with APOC, which no code calls; scores, dates, limits,
the community search, the reranker (the identity by default) and `expand_neighbours`, whose result `search` drops;
prompts and the parsing of their answers; citations and token counts.

Plan, in this order:

1. Smaller hypotheses: a refinement by `DocumentLifecycle` with replacement, if the abstract specification is given the
   two rows of step C and the race of a call with that step is stated as a step of its own.
2. Safety of a search over a graph that does not change while it reads (`HybridSearch`), and its theorem.
3. Membership and gems as a small specification of rows under constraints, if a second writer is added to them.
