------------------------------ MODULE GraphProofs ------------------------------
(***************************************************************************)
(* Theorems of KnowledgeGraph, for any documents, entities, extractions,   *)
(* similarities, and any number of tasks and tries.                        *)
(***************************************************************************)
EXTENDS KnowledgeGraph, TLAPS

Stages == {"idle", "done"} \cup IngestSteps \cup DeleteSteps

Writer == [pc : Stages, tries : Nat, found : ExtractionOf, canon : [Entities -> Entities],
           names : [Entities -> SUBSET Names], todo : SUBSET (Entities \cup Mention \cup Fact)]

Types ==
  /\ present \subseteq Entities /\ docNodes \subseteq Docs
  /\ aliases \in [Entities -> SUBSET Names]
  /\ \A e \in Entities \ present : aliases[e] = {}
  /\ mentions \subseteq Mention /\ facts \subseteq Fact /\ closed \subseteq facts
  /\ points \subseteq Point
  /\ writer \in [Tasks -> Writer]
  /\ missed \in [Tasks -> SUBSET Entities]
  /\ disturbed \subseteq Tasks

(* Only removals stand at the steps of a removal, and what a task has      *)
(* still to write is of its own extraction.                                *)
Work(t) ==
  /\ At(t, "cascade") \/ At(t, "sweep") => Job[t].kind = "delete"
  /\ writer[t].pc \in IngestSteps => Job[t].kind = "ingest"
  /\ At(t, "idle") \/ writer[t].tries > 0
  /\ At(t, "entities") => writer[t].todo \subseteq Canonical(t)
  /\ At(t, "mentions") => writer[t].todo \subseteq MentionsOf(t)
  /\ At(t, "relations") => writer[t].todo \subseteq FactsOf(t)

(* What an ingestion that was not disturbed can rely on at each step: the  *)
(* nodes its edges need, and the edges it has behind it.                   *)
Progress(t) ==
  Job[t].kind = "ingest" /\ t \notin disturbed =>
    /\ writer[t].pc \in {"link", "entities", "mentions", "relations"} => Doc(t) \in docNodes
    /\ At(t, "entities") => Canonical(t) \ writer[t].todo \subseteq present
    /\ At(t, "mentions") \/ At(t, "relations") => Canonical(t) \subseteq present
    /\ At(t, "mentions") => MentionsOf(t) \ writer[t].todo \subseteq mentions
    /\ At(t, "relations") => FactsOf(t) \ writer[t].todo \subseteq facts
    /\ At(t, "relations") \/ At(t, "done") => MentionsOf(t) \subseteq mentions
    /\ At(t, "done") => FactsOf(t) \subseteq facts

(* A point was written by an ingestion of its document that still holds    *)
(* the extraction it comes from, or has started again since.               *)
PointOf(p) ==
  \E t \in Tasks :
    /\ Job[t] = [kind |-> "ingest", doc |-> p.doc] /\ writer[t].tries > 0
    /\ \/ writer[t].pc \in {"idle", "points"}
       \/ \A e \in p.entities : [entity |-> e, chunk |-> p.chunk, doc |-> p.doc] \in MentionsOf(t)

(* The aliases a task will write include those in the graph, but for the   *)
(* two reasons AliasesLostOnlyIfStale names.                               *)
Merged(t, e) == \E n \in Extracted(writer[t].found) \ {e} : writer[t].canon[n] = e

AliasesRead(t) ==
  \A e \in Canonical(t) :
    \/ writer[t].pc \in {"points", "node", "link"}
    \/ At(t, "entities") /\ e \in writer[t].todo
    => aliases[e] \subseteq writer[t].names[e] \/ e \in missed[t] \/ Merged(t, e)

Inv ==
  /\ Types
  /\ \A t \in Tasks : Work(t) /\ Progress(t) /\ AliasesRead(t)
  /\ \A p \in points : PointOf(p)

-----------------------------------------------------------------------------
(* The operators on an extraction.                                         *)
LEMMA ExtractionTypes ==
  ASSUME Types, NEW t \in Tasks
  PROVE  /\ writer[t] \in Writer /\ Doc(t) \in Docs /\ Job[t].kind \in {"ingest", "delete"}
         /\ Job[t] = [kind |-> Job[t].kind, doc |-> Doc(t)]
         /\ Canonical(t) \subseteq Entities
         /\ MentionsOf(t) \subseteq Mention /\ FactsOf(t) \subseteq Fact
         /\ \A m \in MentionsOf(t) : m.entity \in Canonical(t) /\ m.doc = Doc(t)
         /\ \A f \in FactsOf(t) : {f.src, f.dst} \subseteq Canonical(t) /\ f.doc = Doc(t)
         /\ Canonical(t) = {} => MentionsOf(t) = {} /\ FactsOf(t) = {}
<1>1. writer[t] \in Writer /\ Job[t] \in [kind : {"ingest", "delete"}, doc : Docs]
  BY GraphAssumption DEF Types
<1>2. /\ writer[t].found \in ExtractionOf
      /\ writer[t].canon \in [Entities -> Entities]
  BY <1>1 DEF Writer
<1>3. \A l \in writer[t].found.locals : l.entity \in Entities /\ l.chunk \in ChunkIds
  BY <1>2 DEF ExtractionOf, Locals
<1>4. \A r \in writer[t].found.relations : r[1] \in Entities /\ r[2] \in Entities
  BY <1>2 DEF ExtractionOf
<1>5. Canonical(t) \subseteq Entities
  BY <1>2, <1>3 DEF Canonical, Extracted
<1>6. Doc(t) \in Docs
  BY <1>1 DEF Doc
<1>7. \A l \in writer[t].found.locals : writer[t].canon[l.entity] \in Canonical(t)
  BY DEF Canonical, Extracted
<1>8. /\ MentionsOf(t) \subseteq Mention
      /\ \A m \in MentionsOf(t) : m.entity \in Canonical(t) /\ m.doc = Doc(t)
  BY <1>3, <1>5, <1>6, <1>7 DEF MentionsOf, Mention
<1>9. /\ FactsOf(t) \subseteq Fact
      /\ \A f \in FactsOf(t) : {f.src, f.dst} \subseteq Canonical(t) /\ f.doc = Doc(t)
  BY <1>5, <1>6, <1>7 DEF FactsOf, Fact, Canonical
<1>10. Canonical(t) = {} => MentionsOf(t) = {} /\ FactsOf(t) = {}
  BY <1>8, <1>9
<1> QED
  BY <1>1, <1>5, <1>6, <1>8, <1>9, <1>10 DEF Doc

(* A task that keeps its extraction and its resolution keeps what they say.*)
LEMMA SameExtraction ==
  ASSUME NEW t, writer'[t].found = writer[t].found, writer'[t].canon = writer[t].canon
  PROVE  /\ Canonical(t)' = Canonical(t) /\ MentionsOf(t)' = MentionsOf(t)
         /\ FactsOf(t)' = FactsOf(t) /\ \A e : Merged(t, e)' <=> Merged(t, e)
BY DEF Canonical, MentionsOf, FactsOf, Merged, Doc

(* Tasks that do not move keep their invariant while the graph only grows. *)
LEMMA OthersKept ==
  ASSUME NEW t \in Tasks, writer'[t] = writer[t], Work(t), Progress(t),
         docNodes \subseteq docNodes', present \subseteq present', mentions \subseteq mentions',
         facts \subseteq facts', t \in disturbed => t \in disturbed'
  PROVE  Work(t)' /\ Progress(t)'
<1>1. /\ Canonical(t)' = Canonical(t) /\ MentionsOf(t)' = MentionsOf(t)
      /\ FactsOf(t)' = FactsOf(t)
  BY SameExtraction
<1> QED
  BY <1>1 DEF Work, Progress, At, Doc

LEMMA OthersAliases ==
  ASSUME NEW t \in Tasks, writer'[t] = writer[t], AliasesRead(t), Canonical(t) \subseteq Entities,
         missed[t] \subseteq missed'[t],
         \A e \in Entities : aliases'[e] \subseteq aliases[e] \/ e \in missed'[t]
  PROVE  AliasesRead(t)'
<1>1. Canonical(t)' = Canonical(t) /\ \A e : Merged(t, e)' <=> Merged(t, e)
  BY SameExtraction
<1> QED
  BY <1>1 DEF AliasesRead, At

(* A point keeps the ingestion it comes from: it goes on, or starts again. *)
LEMMA PointKept ==
  ASSUME NEW p, PointOf(p),
         \A t \in Tasks : writer[t].tries > 0 =>
           /\ writer'[t].tries > 0
           /\ \/ writer'[t].pc \in {"idle", "points"}
              \/ /\ writer'[t].found = writer[t].found /\ writer'[t].canon = writer[t].canon
                 /\ writer[t].pc \notin {"idle", "points"} \/ Job[t].doc # p.doc
  PROVE  PointOf(p)'
<1>1. PICK t \in Tasks :
        /\ Job[t] = [kind |-> "ingest", doc |-> p.doc] /\ writer[t].tries > 0
        /\ \/ writer[t].pc \in {"idle", "points"}
           \/ \A e \in p.entities :
                [entity |-> e, chunk |-> p.chunk, doc |-> p.doc] \in MentionsOf(t)
  BY DEF PointOf
<1>2. CASE writer'[t].pc \in {"idle", "points"}
  BY <1>1, <1>2 DEF PointOf
<1>3. CASE writer'[t].found = writer[t].found /\ writer'[t].canon = writer[t].canon
  <2>1. MentionsOf(t)' = MentionsOf(t)
    BY <1>3, SameExtraction
  <2>2. Job[t].doc = p.doc
    BY <1>1
  <2> QED
    BY <1>1, <1>2, <2>1, <2>2 DEF PointOf
<1> QED
  BY <1>1, <1>2, <1>3

(* A task of an ingestion moves on, and the graph only grows.              *)
LEMMA OneTaskMoves ==
  ASSUME Inv, NEW t \in Tasks, NEW w \in Writer, writer' = [writer EXCEPT ![t] = w],
         w.found = writer[t].found, w.canon = writer[t].canon, w.tries = writer[t].tries,
         writer[t].pc \notin {"idle", "points"},
         docNodes \subseteq docNodes', present \subseteq present', mentions \subseteq mentions',
         facts \subseteq facts', disturbed' = disturbed, points' = points,
         \A u \in Tasks \ {t} : /\ missed[u] \subseteq missed'[u]
                               /\ \A e \in Entities : aliases'[e] \subseteq aliases[e]
                                                        \/ e \in missed'[u],
         Types', Work(t)', Progress(t)', AliasesRead(t)'
  PROVE  Inv'
<1>1. /\ Types /\ \A u \in Tasks : Work(u) /\ Progress(u) /\ AliasesRead(u)
      /\ \A p \in points : PointOf(p)
  BY DEF Inv
<1>2. writer'[t] = w /\ \A u \in Tasks \ {t} : writer'[u] = writer[u]
  BY <1>1 DEF Types
<1>3. \A u \in Tasks \ {t} : Work(u)' /\ Progress(u)'
  BY <1>1, <1>2, OthersKept
<1>4. \A u \in Tasks \ {t} : AliasesRead(u)'
  BY <1>1, <1>2, OthersAliases, ExtractionTypes
<1>5. \A p \in points : PointOf(p)'
  <2>1. \A u \in Tasks : writer[u].tries > 0 =>
          /\ writer'[u].tries > 0
          /\ \/ writer'[u].pc \in {"idle", "points"}
             \/ /\ writer'[u].found = writer[u].found /\ writer'[u].canon = writer[u].canon
                /\ writer[u].pc \notin {"idle", "points"}
    BY <1>2
  <2> QED
    BY <1>1, <2>1, PointKept
<1> QED
  BY <1>3, <1>4, <1>5 DEF Inv

-----------------------------------------------------------------------------
(* StartEntities, from either of the two steps before it. *)
LEMMA StartEntitiesInv ==
  ASSUME Inv, NEW t \in Tasks, At(t, "node") \/ At(t, "link"), StartEntities(t),
         Job[t].kind = "ingest" /\ t \notin disturbed => Doc(t) \in docNodes', docNodes \subseteq docNodes', docNodes' \subseteq Docs,
         closed' \subseteq facts,
         UNCHANGED <<present, aliases, mentions, facts, points, history>>
  PROVE  Inv'
<1> DEFINE stage == IF Canonical(t) = {} THEN "done" ELSE "entities"
<1>w. PICK w : w = [writer[t] EXCEPT !.pc = stage, !.todo = Canonical(t)]
  OBVIOUS
<1>1. /\ Types /\ Work(t) /\ AliasesRead(t) /\ writer[t] \in Writer
      /\ Canonical(t) \subseteq Entities
      /\ Canonical(t) = {} => MentionsOf(t) = {} /\ FactsOf(t) = {}
  BY ExtractionTypes DEF Inv
<1>2. writer' = [writer EXCEPT ![t] = w]
  BY <1>w DEF StartEntities
<1> HIDE DEF stage
<1>3. stage \in Stages /\ Canonical(t) \in SUBSET (Entities \cup Mention \cup Fact)
  BY <1>1 DEF Stages, IngestSteps, stage
<1>4. /\ w \in Writer /\ w.pc = stage /\ w.todo = Canonical(t)
      /\ w.found = writer[t].found /\ w.canon = writer[t].canon /\ w.names = writer[t].names
      /\ w.tries = writer[t].tries
  BY <1>1, <1>3, <1>w DEF Writer
<1>5. writer'[t] = w
  BY <1>1, <1>2 DEF Types
<1>6. /\ Canonical(t)' = Canonical(t) /\ MentionsOf(t)' = MentionsOf(t)
      /\ FactsOf(t)' = FactsOf(t) /\ \A e : Merged(t, e)' <=> Merged(t, e)
  BY <1>4, <1>5, SameExtraction
<1>7. Types'
  BY <1>1, <1>2, <1>4 DEF Types, history
<1>8. Work(t)'
  BY <1>1, <1>4, <1>5, <1>6 DEF Work, At, stage, IngestSteps
<1>9. Progress(t)'
  <2>1. UNCHANGED <<present, mentions, facts, disturbed>> /\ Doc(t)' = Doc(t)
    BY DEF history, Doc
  <2>2. CASE Canonical(t) = {}
    BY <1>1, <1>4, <1>5, <1>6, <2>1, <2>2 DEF Progress, At, stage
  <2>3. CASE Canonical(t) # {}
    BY <1>4, <1>5, <1>6, <2>1, <2>3 DEF Progress, At, stage
  <2> QED
    BY <2>2, <2>3
<1>10. AliasesRead(t)'
  BY <1>1, <1>4, <1>5, <1>6 DEF AliasesRead, At, stage, history
<1>11. writer[t].pc \notin {"idle", "points"}
  BY DEF At
<1> QED
  BY <1>1, <1>2, <1>4, <1>7, <1>8, <1>9, <1>10, <1>11, OneTaskMoves DEF history

LEMMA UpsertDocumentInv ==
  ASSUME Inv, NEW t \in Tasks, UpsertDocument(t)
  PROVE  Inv'
<1>1. /\ Types /\ Work(t) /\ AliasesRead(t) /\ writer[t] \in Writer /\ Doc(t) \in Docs
  BY ExtractionTypes DEF Inv
<1>2. CASE StartEntities(t)
  <2>1. /\ Doc(t) \in docNodes' /\ docNodes \subseteq docNodes' /\ docNodes' \subseteq Docs
        /\ closed' \subseteq facts
    BY <1>1 DEF UpsertDocument, Types
  <2> QED
    BY <1>2, <2>1, StartEntitiesInv DEF UpsertDocument
<1>3. CASE Goto(t, "link")
  <2>w. PICK w : w = [writer[t] EXCEPT !.pc = "link"]
    OBVIOUS
  <2>1. "link" \in Stages
    BY DEF Stages, IngestSteps
  <2>2. /\ w \in Writer /\ w.pc = "link" /\ w.todo = writer[t].todo
        /\ w.found = writer[t].found /\ w.canon = writer[t].canon /\ w.names = writer[t].names
        /\ w.tries = writer[t].tries
    BY <1>1, <2>1, <2>w DEF Writer
  <2>3. writer' = [writer EXCEPT ![t] = w]
    BY <1>3, <2>w DEF Goto
  <2>4. writer'[t] = w
    BY <1>1, <2>3 DEF Types
  <2>5. /\ Canonical(t)' = Canonical(t) /\ \A e : Merged(t, e)' <=> Merged(t, e)
    BY <2>2, <2>4, SameExtraction
  <2>6. Types'
    BY <1>1, <2>2, <2>3 DEF UpsertDocument, Types, history
  <2>7. Work(t)' /\ Progress(t)'
    BY <1>1, <2>2, <2>4 DEF UpsertDocument, Work, Progress, At, IngestSteps, Doc
  <2>8. AliasesRead(t)'
    BY <1>1, <2>2, <2>4, <2>5 DEF UpsertDocument, AliasesRead, At, history
  <2> QED
    BY <1>1, <2>2, <2>3, <2>6, <2>7, <2>8, OneTaskMoves DEF UpsertDocument, At, history
<1> QED
  BY <1>2, <1>3 DEF UpsertDocument

LEMMA LinkSupersedesInv ==
  ASSUME Inv, NEW t \in Tasks, LinkSupersedes(t)
  PROVE  Inv'
<1>1. Types /\ Progress(t)
  BY DEF Inv
<1>2. Job[t].kind = "ingest" /\ t \notin disturbed => Doc(t) \in docNodes'
  BY <1>1 DEF LinkSupersedes, Progress, At
<1>3. closed' \subseteq facts /\ docNodes' = docNodes /\ docNodes' \subseteq Docs
  BY <1>1 DEF LinkSupersedes, Types
<1> QED
  BY <1>2, <1>3, StartEntitiesInv DEF LinkSupersedes

(* MERGE of one entity. *)
LEMMA UpsertEntityInv ==
  ASSUME Inv, NEW t \in Tasks, UpsertEntity(t)
  PROVE  Inv'
<1>1. /\ Types /\ Work(t) /\ Progress(t) /\ AliasesRead(t) /\ writer[t] \in Writer
      /\ Canonical(t) \subseteq Entities /\ MentionsOf(t) \subseteq Mention
      /\ \A m \in MentionsOf(t) : m.entity \in Canonical(t)
      /\ At(t, "entities")
  BY ExtractionTypes DEF Inv, UpsertEntity
<1>2. PICK e \in writer[t].todo :
        /\ present' = present \cup {e}
        /\ aliases' = [aliases EXCEPT ![e] = writer[t].names[e]]
        /\ writer' = [writer EXCEPT ![t] = AfterEntity(t, e)]
        /\ missed' = [u \in Tasks |-> IF u = t THEN missed[u] ELSE missed[u] \cup {e}]
  BY DEF UpsertEntity
<1>3. UNCHANGED <<docNodes, mentions, facts, closed, points, disturbed>>
  BY DEF UpsertEntity
<1>4. e \in Canonical(t) /\ e \in Entities /\ writer[t].todo \subseteq Canonical(t)
  BY <1>1 DEF Work
<1>w. PICK w : w = AfterEntity(t, e)
  OBVIOUS
<1>5. /\ w \in Writer
      /\ w.found = writer[t].found /\ w.canon = writer[t].canon /\ w.names = writer[t].names
      /\ w.tries = writer[t].tries
      /\ \/ /\ w.pc = "entities" /\ w.todo = writer[t].todo \ {e}
         \/ w.pc = "mentions" /\ w.todo = MentionsOf(t) /\ writer[t].todo = {e}
  <2>1. CASE writer[t].todo # {e}
    <3>1. writer[t].todo \ {e} \in SUBSET (Entities \cup Mention \cup Fact)
      BY <1>1, <1>4
    <3>2. w = [writer[t] EXCEPT !.todo = writer[t].todo \ {e}]
      BY <2>1, <1>w DEF AfterEntity
    <3> QED
      BY <1>1, <3>1, <3>2 DEF Writer, At
  <2>2. CASE writer[t].todo = {e}
    <3>1. "mentions" \in Stages /\ MentionsOf(t) \in SUBSET (Entities \cup Mention \cup Fact)
      BY <1>1 DEF Stages, IngestSteps
    <3>2. w = [writer[t] EXCEPT !.pc = "mentions", !.todo = MentionsOf(t)]
      BY <2>2, <1>w DEF AfterEntity
    <3> QED
      BY <1>1, <2>2, <3>1, <3>2 DEF Writer
  <2> QED
    BY <2>1, <2>2
<1>6. writer' = [writer EXCEPT ![t] = w] /\ writer'[t] = w
  BY <1>1, <1>2, <1>w, <1>5 DEF Types
<1>7. /\ Canonical(t)' = Canonical(t) /\ MentionsOf(t)' = MentionsOf(t)
      /\ FactsOf(t)' = FactsOf(t) /\ \A x : Merged(t, x)' <=> Merged(t, x)
  BY <1>5, <1>6, SameExtraction
<1>8. writer[t].names[e] \subseteq Names
  BY <1>1, <1>4 DEF Writer
<1>9. Types'
  BY <1>1, <1>2, <1>3, <1>4, <1>5, <1>6, <1>8 DEF Types
<1>10. Work(t)'
  BY <1>1, <1>4, <1>5, <1>6, <1>7 DEF Work, At, IngestSteps
<1>11. Progress(t)'
  BY <1>1, <1>2, <1>3, <1>4, <1>5, <1>6, <1>7 DEF Progress, At, Doc
<1>12. AliasesRead(t)'
  <2>1. \A x \in Entities \ {e} : aliases'[x] = aliases[x]
    BY <1>1, <1>2 DEF Types
  <2>2. missed'[t] = missed[t]
    BY <1>2
  <2> QED
    BY <1>1, <1>5, <1>6, <1>7, <2>1, <2>2 DEF AliasesRead, At
<1>13. \A u \in Tasks \ {t} : /\ missed[u] \subseteq missed'[u]
                             /\ \A x \in Entities : aliases'[x] \subseteq aliases[x]
                                                      \/ x \in missed'[u]
  BY <1>1, <1>2, <1>4 DEF Types
<1> QED
  BY <1>1, <1>2, <1>3, <1>5, <1>6, <1>9, <1>10, <1>11, <1>12, <1>13, OneTaskMoves DEF At

(* MERGE of one mention: its entity and its document are there, or the     *)
(* task has been disturbed.                                                *)
LEMMA LinkMentionInv ==
  ASSUME Inv, NEW t \in Tasks, LinkMention(t)
  PROVE  Inv'
<1>1. /\ Types /\ Work(t) /\ Progress(t) /\ AliasesRead(t) /\ writer[t] \in Writer
      /\ MentionsOf(t) \subseteq Mention /\ FactsOf(t) \subseteq Fact
      /\ \A m \in MentionsOf(t) : m.entity \in Canonical(t) /\ m.doc = Doc(t)
      /\ At(t, "mentions")
  BY ExtractionTypes DEF Inv, LinkMention
<1>2. PICK m \in writer[t].todo :
        /\ mentions' = IF m.entity \in present /\ m.doc \in docNodes
                       THEN mentions \cup {m} ELSE mentions
        /\ writer' = [writer EXCEPT ![t] = AfterMention(t, m)]
  BY DEF LinkMention
<1>3. UNCHANGED <<present, aliases, docNodes, facts, closed, points, history>>
  BY DEF LinkMention
<1>4. m \in MentionsOf(t) /\ m \in Mention /\ writer[t].todo \subseteq MentionsOf(t)
  BY <1>1 DEF Work
<1>w. PICK w : w = AfterMention(t, m)
  OBVIOUS
<1>5. /\ w \in Writer
      /\ w.found = writer[t].found /\ w.canon = writer[t].canon /\ w.names = writer[t].names
      /\ w.tries = writer[t].tries
      /\ \/ w.pc = "mentions" /\ w.todo = writer[t].todo \ {m}
         \/ /\ w.pc = IF FactsOf(t) = {} THEN "done" ELSE "relations"
            /\ w.todo = FactsOf(t) /\ writer[t].todo = {m}
  <2>1. CASE writer[t].todo # {m}
    <3>1. writer[t].todo \ {m} \in SUBSET (Entities \cup Mention \cup Fact)
      BY <1>1, <1>4
    <3>2. w = [writer[t] EXCEPT !.todo = writer[t].todo \ {m}]
      BY <2>1, <1>w DEF AfterMention
    <3> QED
      BY <1>1, <3>1, <3>2 DEF Writer, At
  <2>2. CASE writer[t].todo = {m}
    <3> DEFINE stage == IF FactsOf(t) = {} THEN "done" ELSE "relations"
    <3>1. stage \in Stages /\ FactsOf(t) \in SUBSET (Entities \cup Mention \cup Fact)
      BY <1>1 DEF Stages, IngestSteps
    <3>2. w = [writer[t] EXCEPT !.pc = stage, !.todo = FactsOf(t)]
      BY <2>2, <1>w DEF AfterMention
    <3> HIDE DEF stage
    <3>3. /\ w \in Writer /\ w.pc = stage /\ w.todo = FactsOf(t)
          /\ w.found = writer[t].found /\ w.canon = writer[t].canon
          /\ w.names = writer[t].names /\ w.tries = writer[t].tries
      BY <1>1, <3>1, <3>2 DEF Writer
    <3> QED
      BY <2>2, <3>3 DEF stage
  <2> QED
    BY <2>1, <2>2
<1>6. writer' = [writer EXCEPT ![t] = w] /\ writer'[t] = w
  BY <1>1, <1>2, <1>w, <1>5 DEF Types
<1>7. /\ Canonical(t)' = Canonical(t) /\ MentionsOf(t)' = MentionsOf(t)
      /\ FactsOf(t)' = FactsOf(t) /\ \A x : Merged(t, x)' <=> Merged(t, x)
  BY <1>5, <1>6, SameExtraction
<1>8. Types'
  BY <1>1, <1>2, <1>3, <1>4, <1>5, <1>6 DEF Types, history
<1>9. Work(t)'
  BY <1>1, <1>4, <1>5, <1>6, <1>7 DEF Work, At, IngestSteps
<1>10. Progress(t)'
  BY <1>1, <1>2, <1>3, <1>4, <1>5, <1>6, <1>7 DEF Progress, At, Doc, history
<1>11. AliasesRead(t)'
  BY <1>1, <1>5, <1>6, <1>7 DEF AliasesRead, At
<1> QED
  BY <1>1, <1>2, <1>3, <1>5, <1>6, <1>8, <1>9, <1>10, <1>11, OneTaskMoves DEF At, history

(* MERGE of one relation. *)
LEMMA UpsertRelationInv ==
  ASSUME Inv, NEW t \in Tasks, UpsertRelation(t)
  PROVE  Inv'
<1>1. /\ Types /\ Work(t) /\ Progress(t) /\ AliasesRead(t) /\ writer[t] \in Writer
      /\ FactsOf(t) \subseteq Fact
      /\ \A f \in FactsOf(t) : {f.src, f.dst} \subseteq Canonical(t)
      /\ At(t, "relations")
  BY ExtractionTypes DEF Inv, UpsertRelation
<1>2. PICK f \in writer[t].todo :
        /\ facts' = IF {f.src, f.dst} \subseteq present THEN facts \cup {f} ELSE facts
        /\ writer' = [writer EXCEPT ![t] = AfterRelation(t, f)]
  BY DEF UpsertRelation
<1>3. UNCHANGED <<present, aliases, docNodes, mentions, closed, points, history>>
  BY DEF UpsertRelation
<1>4. f \in FactsOf(t) /\ f \in Fact /\ writer[t].todo \subseteq FactsOf(t)
  BY <1>1 DEF Work
<1>w. PICK w : w = AfterRelation(t, f)
  OBVIOUS
<1>5. /\ w \in Writer
      /\ w.found = writer[t].found /\ w.canon = writer[t].canon /\ w.names = writer[t].names
      /\ w.tries = writer[t].tries
      /\ w.pc = IF writer[t].todo = {f} THEN "done" ELSE "relations"
      /\ w.todo = writer[t].todo \ {f}
  <2> DEFINE stage == IF writer[t].todo = {f} THEN "done" ELSE "relations"
             left == writer[t].todo \ {f}
  <2>1. stage \in Stages /\ left \in SUBSET (Entities \cup Mention \cup Fact)
    BY <1>1, <1>4 DEF Stages, IngestSteps
  <2>2. w = [writer[t] EXCEPT !.pc = stage, !.todo = left]
    BY <1>1, <1>w DEF AfterRelation, At
  <2> HIDE DEF stage, left
  <2>3. /\ w \in Writer /\ w.pc = stage /\ w.todo = left
        /\ w.found = writer[t].found /\ w.canon = writer[t].canon
        /\ w.names = writer[t].names /\ w.tries = writer[t].tries
    BY <1>1, <2>1, <2>2 DEF Writer
  <2> QED
    BY <2>3 DEF stage, left
<1>6. writer' = [writer EXCEPT ![t] = w] /\ writer'[t] = w
  BY <1>1, <1>2, <1>w, <1>5 DEF Types
<1>7. /\ Canonical(t)' = Canonical(t) /\ MentionsOf(t)' = MentionsOf(t)
      /\ FactsOf(t)' = FactsOf(t) /\ \A x : Merged(t, x)' <=> Merged(t, x)
  BY <1>5, <1>6, SameExtraction
<1>8. Types'
  BY <1>1, <1>2, <1>3, <1>4, <1>5, <1>6 DEF Types, history
<1>9. Work(t)'
  BY <1>1, <1>4, <1>5, <1>6, <1>7 DEF Work, At, IngestSteps
<1>10. Progress(t)'
  BY <1>1, <1>2, <1>3, <1>4, <1>5, <1>6, <1>7 DEF Progress, At, Doc, history
<1>11. AliasesRead(t)'
  BY <1>1, <1>5, <1>6, <1>7 DEF AliasesRead, At
<1> QED
  BY <1>1, <1>2, <1>3, <1>5, <1>6, <1>8, <1>9, <1>10, <1>11, OneTaskMoves DEF At, history

-----------------------------------------------------------------------------
(* The names a task takes include the aliases it read, unless several of   *)
(* its entities are one.                                                   *)
LEMMA ResolvedNames ==
  ASSUME Types, NEW x \in ExtractionOf, NEW c \in Resolutions(x), NEW n \in NameChoices(x, c),
         NEW e \in {c[y] : y \in Extracted(x)}
  PROVE  aliases[e] \subseteq n[e] \/ \E y \in Extracted(x) \ {e} : c[y] = e
<1> DEFINE mine == {l \in x.locals : c[l.entity] = e}
<1>1. \A l \in x.locals : l.entity \in Entities /\ l.entity \in Extracted(x)
  BY DEF ExtractionOf, Locals, Extracted
<1>2. mine # {}
  BY DEF Extracted
<1>3. e \in Entities
  BY <1>1 DEF Resolutions, Extracted
<1>4. PICK l \in mine : n[e] = l.names \cup aliases[l.entity]
  BY <1>2, <1>3 DEF NameChoices
<1>5. CASE l.entity = e
  BY <1>4, <1>5
<1>6. CASE l.entity # e
  BY <1>1, <1>6
<1> QED
  BY <1>5, <1>6

LEMMA ResolveInv ==
  ASSUME Inv, NEW t \in Tasks, Resolve(t)
  PROVE  Inv'
<1>1. /\ Types /\ \A u \in Tasks : Work(u) /\ Progress(u) /\ AliasesRead(u)
      /\ \A p \in points : PointOf(p)
  BY DEF Inv
<1>2. writer[t] \in Writer /\ writer[t].tries \in Nat /\ Doc(t) \in Docs
  BY <1>1, ExtractionTypes DEF Writer
<1>3. /\ Job[t].kind = "ingest" /\ UNCHANGED <<graph, points>>
      /\ missed' = [missed EXCEPT ![t] = {}] /\ disturbed' = disturbed \ {t}
  BY DEF Resolve
<1>x. PICK x \in Extractions[Doc(t)] : \E c \in Resolutions(x) : \E n \in NameChoices(x, c) :
        writer' = [writer EXCEPT ![t] = [pc |-> "points", tries |-> writer[t].tries + 1,
                                         found |-> x, canon |-> c, names |-> n, todo |-> {}]]
  BY DEF Resolve
<1>c. PICK c \in Resolutions(x) : \E n \in NameChoices(x, c) :
        writer' = [writer EXCEPT ![t] = [pc |-> "points", tries |-> writer[t].tries + 1,
                                         found |-> x, canon |-> c, names |-> n, todo |-> {}]]
  BY <1>x
<1>4. PICK n \in NameChoices(x, c) :
        writer' = [writer EXCEPT ![t] = [pc |-> "points", tries |-> writer[t].tries + 1,
                                         found |-> x, canon |-> c, names |-> n, todo |-> {}]]
  BY <1>c
<1>5. x \in ExtractionOf
  BY <1>2, <1>4, GraphAssumption
<1>6. c \in [Entities -> Entities] /\ n \in [Entities -> SUBSET Names]
  BY DEF Resolutions, NameChoices
<1>7. PICK w : w = [pc |-> "points", tries |-> writer[t].tries + 1, found |-> x,
                    canon |-> c, names |-> n, todo |-> {}]
  OBVIOUS
<1>8. /\ w \in Writer /\ w.pc = "points" /\ w.found = x /\ w.canon = c /\ w.names = n
      /\ w.tries > 0
  BY <1>2, <1>5, <1>6, <1>7 DEF Writer, Stages, IngestSteps
<1>9. writer' = [writer EXCEPT ![t] = w] /\ writer'[t] = w
      /\ \A u \in Tasks \ {t} : writer'[u] = writer[u] /\ missed'[u] = missed[u]
  BY <1>1, <1>3, <1>4, <1>7 DEF Types
<1>10. Types'
  BY <1>1, <1>3, <1>8, <1>9 DEF Types, graph
<1>11. Work(t)' /\ Progress(t)'
  BY <1>3, <1>8, <1>9 DEF Work, Progress, At
<1>12. AliasesRead(t)'
  <2>1. Canonical(t)' = {c[y] : y \in Extracted(x)}
    BY <1>8, <1>9 DEF Canonical
  <2>2. \A e : Merged(t, e)' <=> \E y \in Extracted(x) \ {e} : c[y] = e
    BY <1>8, <1>9 DEF Merged
  <2>3. \A e \in Canonical(t)' : aliases[e] \subseteq n[e] \/ Merged(t, e)'
    BY <1>1, <1>5, <2>1, <2>2, ResolvedNames
  <2> QED
    BY <1>3, <1>8, <1>9, <2>3 DEF AliasesRead, graph
<1>13. \A u \in Tasks \ {t} : Work(u)' /\ Progress(u)'
  BY <1>1, <1>3, <1>9, OthersKept DEF graph
<1>14. \A u \in Tasks \ {t} : AliasesRead(u)'
  BY <1>1, <1>3, <1>9, OthersAliases, ExtractionTypes DEF graph
<1>15. \A p \in points' : PointOf(p)'
  BY <1>1, <1>3, <1>8, <1>9, PointKept
<1> QED
  BY <1>10, <1>11, <1>12, <1>13, <1>14, <1>15 DEF Inv

(* A task moves on to a step that needs nothing, and the graph is left     *)
(* alone; the points are the caller's.                                     *)
LEMMA GraphLeftAlone ==
  ASSUME Inv, NEW t \in Tasks, NEW w \in Writer, writer' = [writer EXCEPT ![t] = w],
         UNCHANGED <<graph, history>>, points' \subseteq Point,
         Work(t)', Progress(t)', AliasesRead(t)', \A p \in points' : PointOf(p)'
  PROVE  Inv'
<1>1. Types /\ \A u \in Tasks : Work(u) /\ Progress(u) /\ AliasesRead(u)
  BY DEF Inv
<1>2. \A u \in Tasks \ {t} : writer'[u] = writer[u]
  BY <1>1 DEF Types
<1>3. Types'
  BY <1>1 DEF Types, graph, history
<1>4. \A u \in Tasks \ {t} : Work(u)' /\ Progress(u)'
  BY <1>1, <1>2, OthersKept DEF graph, history
<1>5. \A u \in Tasks \ {t} : AliasesRead(u)'
  BY <1>1, <1>2, OthersAliases, ExtractionTypes DEF graph, history
<1> QED
  BY <1>3, <1>4, <1>5 DEF Inv

LEMMA WriteChunksInv ==
  ASSUME Inv, NEW t \in Tasks, WriteChunks(t)
  PROVE  Inv'
<1>1. /\ Types /\ Work(t) /\ AliasesRead(t) /\ writer[t] \in Writer /\ Doc(t) \in Docs
      /\ MentionsOf(t) \subseteq Mention /\ \A m \in MentionsOf(t) : m.doc = Doc(t)
      /\ \A p \in points : PointOf(p)
      /\ Job[t] = [kind |-> Job[t].kind, doc |-> Doc(t)]
  BY ExtractionTypes DEF Inv
<1>2. /\ At(t, "points") /\ UNCHANGED <<graph, history>> /\ Goto(t, "node")
  BY DEF WriteChunks
<1>3. PICK w : w = [writer[t] EXCEPT !.pc = "node"]
  OBVIOUS
<1>4. /\ w \in Writer /\ w.pc = "node" /\ w.todo = writer[t].todo
      /\ w.found = writer[t].found /\ w.canon = writer[t].canon /\ w.names = writer[t].names
      /\ w.tries = writer[t].tries
  BY <1>1, <1>3 DEF Writer, Stages, IngestSteps
<1>5. writer' = [writer EXCEPT ![t] = w] /\ writer'[t] = w
      /\ \A u \in Tasks \ {t} : writer'[u] = writer[u]
  BY <1>1, <1>2, <1>3 DEF Types, Goto
<1>6. /\ Canonical(t)' = Canonical(t) /\ MentionsOf(t)' = MentionsOf(t)
      /\ \A e : Merged(t, e)' <=> Merged(t, e)
  BY <1>4, <1>5, SameExtraction
<1>7. Work(t)' /\ Progress(t)' /\ AliasesRead(t)'
  BY <1>1, <1>2, <1>4, <1>5, <1>6
     DEF Work, Progress, AliasesRead, At, IngestSteps, graph, history
<1>8. Job[t].kind = "ingest" /\ writer'[t].tries > 0
  BY <1>1, <1>2, <1>4, <1>5 DEF Work, At, IngestSteps
<1> DEFINE entities(c) == {m.entity : m \in {m \in MentionsOf(t) : m.chunk = c}}
           new == {[doc |-> Doc(t), chunk |-> c, entities |-> entities(c)] : c \in ChunkIds}
<1>9. points' = {p \in points : p.doc # Doc(t)} \cup new
  BY DEF WriteChunks
<1>10. \A c \in ChunkIds : \A e \in entities(c) :
         /\ e \in Entities
         /\ [entity |-> e, chunk |-> c, doc |-> Doc(t)] \in MentionsOf(t)
  <2> SUFFICES ASSUME NEW c \in ChunkIds, NEW m \in MentionsOf(t), m.chunk = c
               PROVE  /\ m.entity \in Entities
                      /\ [entity |-> m.entity, chunk |-> c, doc |-> Doc(t)] \in MentionsOf(t)
    OBVIOUS
  <2>1. m \in Mention /\ m.doc = Doc(t)
    BY <1>1
  <2>2. m = [entity |-> m.entity, chunk |-> c, doc |-> Doc(t)] /\ m.entity \in Entities
    BY <2>1 DEF Mention
  <2> QED
    BY <2>2
<1>11. ASSUME NEW p \in points'
       PROVE  p \in Point /\ PointOf(p)'
  <2>1. CASE p \in points /\ p.doc # Doc(t)
    <3>1. PointOf(p)'
      BY <1>1, <1>2, <1>4, <1>5, <2>1, PointKept DEF Doc
    <3> QED
      BY <1>1, <2>1, <3>1 DEF Types
  <2>2. CASE p \in new
    <3>1. PICK c \in ChunkIds : p = [doc |-> Doc(t), chunk |-> c, entities |-> entities(c)]
      BY <2>2
    <3> HIDE DEF entities
    <3>2. p.doc = Doc(t) /\ p.chunk = c /\ p.entities = entities(c)
      BY <3>1
    <3>3. p \in Point
      BY <1>1, <1>10, <3>1 DEF Point
    <3>4. \A e \in p.entities :
            [entity |-> e, chunk |-> p.chunk, doc |-> p.doc] \in MentionsOf(t)'
      BY <1>6, <1>10, <3>2
    <3> QED
      BY <1>1, <1>8, <3>2, <3>3, <3>4 DEF PointOf
  <2> QED
    BY <1>9, <2>1, <2>2
<1>12. points' \subseteq Point /\ \A p \in points' : PointOf(p)'
  BY <1>11
<1> QED
  BY <1>2, <1>4, <1>5, <1>7, <1>12, GraphLeftAlone

LEMMA DeleteChunksInv ==
  ASSUME Inv, NEW t \in Tasks, DeleteChunks(t)
  PROVE  Inv'
<1>1. /\ Types /\ writer[t] \in Writer /\ writer[t].tries \in Nat
      /\ \A p \in points : PointOf(p)
  BY DEF Inv, Types, Writer
<1>2. /\ Job[t].kind = "delete" /\ UNCHANGED <<graph, history>>
      /\ points' = {p \in points : p.doc # Doc(t)}
      /\ writer' = [writer EXCEPT ![t].pc = "cascade", ![t].tries = @ + 1]
  BY DEF DeleteChunks
<1>n. PICK n \in Nat : n = writer[t].tries + 1 /\ n > 0
  BY <1>1
<1>3. PICK w : w = [writer[t] EXCEPT !.pc = "cascade", !.tries = n]
  OBVIOUS
<1>4. /\ w \in Writer /\ w.pc = "cascade" /\ w.tries > 0
      /\ w.found = writer[t].found /\ w.canon = writer[t].canon
  BY <1>1, <1>n, <1>3 DEF Writer, Stages, DeleteSteps
<1>5. writer' = [writer EXCEPT ![t] = w] /\ writer'[t] = w
      /\ \A u \in Tasks \ {t} : writer'[u] = writer[u]
  BY <1>1, <1>2, <1>n, <1>3 DEF Types
<1>6. Work(t)' /\ Progress(t)' /\ AliasesRead(t)'
  BY <1>2, <1>4, <1>5 DEF Work, Progress, AliasesRead, At, IngestSteps
<1>7. \A p \in points' : PointOf(p)'
  BY <1>1, <1>2, <1>4, <1>5, PointKept DEF Doc
<1>8. points' \subseteq Point
  BY <1>1, <1>2 DEF Types
<1> QED
  BY <1>2, <1>4, <1>5, <1>6, <1>7, <1>8, GraphLeftAlone

(* Wherever a task stops, what it wrote stays, and a later start of an     *)
(* ingestion answers for the points of the earlier one.                    *)
LEMMA StopInv ==
  ASSUME Inv, NEW t \in Tasks, Stop(t)
  PROVE  Inv'
<1>1. /\ Types /\ writer[t] \in Writer /\ writer[t].tries \in Nat
      /\ \A p \in points : PointOf(p)
  BY DEF Inv, Types, Writer
<1>2. /\ UNCHANGED <<graph, points, history>>
      /\ writer' = [writer EXCEPT ![t] = [IdleTask EXCEPT !.tries = writer[t].tries]]
  BY DEF Stop
<1>3. PICK w : w = [IdleTask EXCEPT !.tries = writer[t].tries]
  OBVIOUS
<1>4. w \in Writer /\ w.pc = "idle" /\ w.tries = writer[t].tries
  BY <1>1, <1>3 DEF Writer, Stages, IdleTask, Nothing, ExtractionOf
<1>5. writer' = [writer EXCEPT ![t] = w] /\ writer'[t] = w
      /\ \A u \in Tasks \ {t} : writer'[u] = writer[u]
  BY <1>1, <1>2, <1>3 DEF Types
<1>6. Work(t)' /\ Progress(t)' /\ AliasesRead(t)'
  BY <1>4, <1>5 DEF Work, Progress, AliasesRead, At, IngestSteps
<1>7. \A p \in points' : PointOf(p)'
  BY <1>1, <1>2, <1>4, <1>5, PointKept
<1> QED
  BY <1>1, <1>2, <1>4, <1>5, <1>6, <1>7, GraphLeftAlone DEF Types

-----------------------------------------------------------------------------
(* The step of a removal, for the task that makes it.                      *)
LEMMA RemovalMoves ==
  ASSUME Inv, NEW t \in Tasks, NEW stage \in {"sweep", "done"}, Job[t].kind = "delete",
         writer[t].pc \in DeleteSteps, Goto(t, stage), UNCHANGED points
  PROVE  /\ writer' \in [Tasks -> Writer]
         /\ \A u \in Tasks \ {t} : writer'[u] = writer[u]
         /\ Work(t)' /\ Progress(t)' /\ AliasesRead(t)'
         /\ \A p \in points' : PointOf(p)'
<1>1. /\ Types /\ Work(t) /\ writer[t] \in Writer /\ \A p \in points : PointOf(p)
  BY DEF Inv, Types
<1>2. PICK w : w = [writer[t] EXCEPT !.pc = stage]
  OBVIOUS
<1>3. /\ w \in Writer /\ w.pc = stage /\ w.tries = writer[t].tries
      /\ w.found = writer[t].found /\ w.canon = writer[t].canon
  BY <1>1, <1>2 DEF Writer, Stages, DeleteSteps
<1>4. writer' = [writer EXCEPT ![t] = w] /\ writer'[t] = w
      /\ \A u \in Tasks \ {t} : writer'[u] = writer[u]
  BY <1>1, <1>2 DEF Types, Goto
<1>5. writer' \in [Tasks -> Writer]
  BY <1>1, <1>3, <1>4 DEF Types
<1>6. Work(t)' /\ Progress(t)' /\ AliasesRead(t)'
  BY <1>1, <1>3, <1>4 DEF Work, Progress, AliasesRead, At, IngestSteps, DeleteSteps
<1>7. \A p \in points' : PointOf(p)'
  BY <1>1, <1>3, <1>4, PointKept DEF DeleteSteps
<1> QED
  BY <1>4, <1>5, <1>6, <1>7

(* DELETE_DOC_CASCADE takes from another task only what is of the same     *)
(* document, and that task is then disturbed.                              *)
LEMMA CascadeInv ==
  ASSUME Inv, NEW t \in Tasks, Cascade(t)
  PROVE  Inv'
<1>1. /\ Types /\ \A u \in Tasks : Work(u) /\ Progress(u) /\ AliasesRead(u)
  BY DEF Inv
<1>2. /\ At(t, "cascade") /\ Goto(t, "sweep")
      /\ disturbed' = disturbed \cup HasWritten(Doc(t))
      /\ UNCHANGED <<present, aliases, points, missed>>
  BY DEF Cascade
<1>3. Job[t].kind = "delete"
  BY <1>1, <1>2 DEF Work
<1>4. /\ docNodes \ {Doc(t)} \subseteq docNodes' /\ docNodes' \subseteq docNodes
      /\ {m \in mentions : m.doc # Doc(t)} \subseteq mentions' /\ mentions' \subseteq mentions
      /\ {f \in facts : f.doc # Doc(t)} \subseteq facts' /\ facts' \subseteq facts
      /\ closed' \subseteq facts'
  BY <1>1 DEF Cascade, Types
<1>5. /\ writer' \in [Tasks -> Writer]
      /\ \A u \in Tasks \ {t} : writer'[u] = writer[u]
      /\ Work(t)' /\ Progress(t)' /\ AliasesRead(t)'
      /\ \A p \in points' : PointOf(p)'
  BY <1>2, <1>3, RemovalMoves DEF At, DeleteSteps
<1>6. Types'
  BY <1>1, <1>2, <1>4, <1>5 DEF Types, HasWritten
<1>7. \A u \in Tasks \ {t} : AliasesRead(u)'
  BY <1>1, <1>2, <1>5, OthersAliases, ExtractionTypes
<1>8. ASSUME NEW u \in Tasks \ {t}
      PROVE  Work(u)' /\ Progress(u)'
  <2>1. /\ Canonical(u)' = Canonical(u) /\ MentionsOf(u)' = MentionsOf(u)
        /\ FactsOf(u)' = FactsOf(u) /\ writer'[u] = writer[u]
    BY <1>5, SameExtraction
  <2>2. Work(u)'
    BY <1>1, <2>1 DEF Work, At
  <2>3. CASE Doc(u) = Doc(t)
    <3>1. Job[u].kind = "ingest" /\ u \notin disturbed' =>
            writer[u].pc \notin {"link", "entities", "mentions", "relations", "done"}
      BY <1>1, <1>2, <2>3, ExtractionTypes DEF HasWritten
    <3> QED
      BY <2>1, <2>2, <3>1 DEF Progress, At
  <2>4. CASE Doc(u) # Doc(t)
    <3>. u \in Tasks
      OBVIOUS
    <3>a. \A m \in MentionsOf(u) : m.doc = Doc(u)
      BY <1>1, ExtractionTypes
    <3>b. \A f \in FactsOf(u) : f.doc = Doc(u)
      BY <1>1, ExtractionTypes
    <3>1. /\ \A m \in MentionsOf(u) : m.doc # Doc(t)
          /\ \A f \in FactsOf(u) : f.doc # Doc(t)
      BY <2>4, <3>a, <3>b
    <3>2. /\ Doc(u) \in docNodes => Doc(u) \in docNodes'
          /\ \A S \in SUBSET MentionsOf(u) : S \subseteq mentions => S \subseteq mentions'
          /\ \A S \in SUBSET FactsOf(u) : S \subseteq facts => S \subseteq facts'
      BY <1>4, <2>4, <3>1
    <3>3. Progress(u) /\ (u \in disturbed => u \in disturbed')
      BY <1>1, <1>2
    <3> QED
      BY <1>2, <2>1, <2>2, <3>2, <3>3 DEF Progress, At, Doc
  <2> QED
    BY <2>3, <2>4
<1> QED
  BY <1>5, <1>6, <1>7, <1>8 DEF Inv

(* CLEANUP_ORPHAN_ENTITIES detaches its nodes, but orphans have no edges.  *)
LEMMA SweepTakesNoEdges ==
  ASSUME Types, NEW t \in Tasks, Sweep(t)
  PROVE  UNCHANGED <<mentions, facts, closed>>
<1> DEFINE gone == Orphans(Kb[Doc(t)])
<1>1. \A m \in mentions : m.entity \notin gone
  BY DEF Orphans
<1>2. \A f \in facts : {f.src, f.dst} \cap gone = {}
  BY DEF Orphans
<1>3. closed \subseteq facts
  BY DEF Types
<1>4. /\ mentions' = {m \in mentions : m.entity \notin gone}
      /\ facts' = {f \in facts : {f.src, f.dst} \cap gone = {}}
      /\ closed' = {f \in closed : {f.src, f.dst} \cap gone = {}}
  BY DEF Sweep
<1> HIDE DEF gone
<1> QED
  BY <1>1, <1>2, <1>3, <1>4

(* It takes nodes, then, and a task that needs one of them is disturbed.   *)
LEMMA SweepInv ==
  ASSUME Inv, NEW t \in Tasks, Sweep(t)
  PROVE  Inv'
<1>1. /\ Types /\ \A u \in Tasks : Work(u) /\ Progress(u) /\ AliasesRead(u)
  BY DEF Inv
<1> DEFINE gone == Orphans(Kb[Doc(t)])
<1>2. /\ At(t, "sweep") /\ Goto(t, "done")
      /\ present' = present \ gone
      /\ aliases' = [e \in Entities |-> IF e \in gone THEN {} ELSE aliases[e]]
      /\ disturbed' = disturbed \cup
           {u \in Tasks : /\ writer[u].pc \in {"entities", "mentions", "relations"}
                          /\ Canonical(u) \cap gone # {}}
      /\ UNCHANGED <<docNodes, mentions, facts, closed, points, missed>>
  BY <1>1, SweepTakesNoEdges DEF Sweep
<1> HIDE DEF gone
<1>3. Job[t].kind = "delete"
  BY <1>1, <1>2 DEF Work
<1>4. /\ writer' \in [Tasks -> Writer]
      /\ \A u \in Tasks \ {t} : writer'[u] = writer[u]
      /\ Work(t)' /\ Progress(t)' /\ AliasesRead(t)'
      /\ \A p \in points' : PointOf(p)'
  BY <1>2, <1>3, RemovalMoves DEF At, DeleteSteps
<1>5. Types'
  BY <1>1, <1>2, <1>4 DEF Types
<1>6. \A u \in Tasks \ {t} : AliasesRead(u)'
  <2>1. \A e \in Entities : aliases'[e] \subseteq aliases[e]
    BY <1>2
  <2> QED
    BY <1>1, <1>2, <1>4, <2>1, OthersAliases, ExtractionTypes
<1>7. ASSUME NEW u \in Tasks \ {t}
      PROVE  Work(u)' /\ Progress(u)'
  <2>1. /\ Canonical(u)' = Canonical(u) /\ MentionsOf(u)' = MentionsOf(u)
        /\ FactsOf(u)' = FactsOf(u) /\ writer'[u] = writer[u]
    BY <1>4, SameExtraction
  <2>2. Work(u)'
    BY <1>1, <2>1 DEF Work, At
  <2>3. u \notin disturbed' =>
          /\ u \notin disturbed
          /\ writer[u].pc \in {"entities", "mentions", "relations"} => Canonical(u) \cap gone = {}
    BY <1>2
  <2> QED
    BY <1>1, <1>2, <2>1, <2>2, <2>3 DEF Progress, At, Doc
<1> QED
  BY <1>4, <1>5, <1>6, <1>7 DEF Inv

-----------------------------------------------------------------------------
LEMMA InvInitially == Init => Inv
<1> SUFFICES ASSUME Init
             PROVE  Inv
  OBVIOUS
<1>1. IdleTask \in Writer
  BY DEF IdleTask, Nothing, Writer, Stages, ExtractionOf
<1>2. \A t \in Tasks : writer[t] = IdleTask /\ writer[t].pc = "idle"
  BY DEF Init, IdleTask
<1>3. Types
  BY <1>1 DEF Init, Types
<1>4. \A t \in Tasks : Work(t) /\ Progress(t) /\ AliasesRead(t)
  BY <1>2 DEF Work, Progress, AliasesRead, At, IngestSteps
<1>5. points = {}
  BY DEF Init
<1> QED
  BY <1>3, <1>4, <1>5 DEF Inv

LEMMA InvIsKept == Inv /\ [GraphStep]_vars => Inv'
<1>1. ASSUME Inv, UNCHANGED vars
      PROVE  Inv'
  <2>1. \A t \in Tasks : Work(t)' = Work(t) /\ Progress(t)' = Progress(t)
                         /\ AliasesRead(t)' = AliasesRead(t)
    BY <1>1 DEF vars, graph, history, Work, Progress, AliasesRead, At, Doc, Canonical,
                MentionsOf, FactsOf, Merged
  <2>2. \A p \in points : PointOf(p)' = PointOf(p)
    BY <1>1 DEF vars, PointOf, MentionsOf, Doc
  <2>3. Types'
    BY <1>1 DEF Inv, Types, vars, graph, history
  <2> QED
    BY <1>1, <2>1, <2>2, <2>3 DEF Inv, vars
<1>2. ASSUME Inv, NEW t \in Tasks, IngestStep(t)
      PROVE  Inv'
  BY <1>2, ResolveInv, WriteChunksInv, UpsertDocumentInv, LinkSupersedesInv, UpsertEntityInv,
     LinkMentionInv, UpsertRelationInv DEF IngestStep
<1>3. ASSUME Inv, NEW t \in Tasks, DeleteStep(t)
      PROVE  Inv'
  BY <1>3, DeleteChunksInv, CascadeInv, SweepInv DEF DeleteStep
<1>4. ASSUME Inv, NEW t \in Tasks, Stop(t)
      PROVE  Inv'
  BY <1>4, StopInv
<1> QED
  BY <1>1, <1>2, <1>3, <1>4 DEF GraphStep

LEMMA Invariance == GraphSpec => []Inv
<1> QED
  BY InvInitially, InvIsKept, PTL DEF GraphSpec

-----------------------------------------------------------------------------
(* The nodes, edges, points and tasks keep their kinds, what is closed is  *)
(* a fact of the graph, and a node that is not there has no aliases        *)
(* (writers.py:86-151, temporal_model.py:40-102).                          *)
THEOREM TypeCorrectness == GraphSpec => []GraphTypeOK
<1>1. Inv => GraphTypeOK
  BY DEF Inv, Types, GraphTypeOK, Writer, Stages
<1> QED
  BY <1>1, Invariance, PTL

(* write_graph is a sequence of MERGE statements, each its own transaction *)
(* (writers.py:120-151): when it has come to its end everything extracted  *)
(* is in the graph, whatever other tasks did in between, except for a      *)
(* removal of the document or a sweep of its entities                      *)
(* (temporal_model.py:86-102).                                             *)
THEOREM GraphIsComplete == GraphSpec => []CompleteUnlessDisturbed
<1>1. Inv => CompleteUnlessDisturbed
  BY DEF Inv, Progress, CompleteUnlessDisturbed, At
<1> QED
  BY <1>1, Invariance, PTL

(* The two stores agree on a chunk once its ingestions have ended: Qdrant  *)
(* is written first, from the same resolution (pipeline.py:134-170).       *)
THEOREM PayloadAgreesWithGraph == GraphSpec => []PayloadIsMentioned
<1>1. ASSUME Inv
      PROVE  PayloadIsMentioned
  <2> SUFFICES ASSUME NEW p \in points,
                      \A t \in {t \in Tasks : Job[t] = [kind |-> "ingest", doc |-> p.doc]
                                              /\ writer[t].tries > 0} :
                        At(t, "done") /\ t \notin disturbed,
                      NEW e \in p.entities
               PROVE  [entity |-> e, chunk |-> p.chunk, doc |-> p.doc] \in mentions
    BY DEF PayloadIsMentioned
  <2>1. PICK t \in Tasks :
          /\ Job[t] = [kind |-> "ingest", doc |-> p.doc] /\ writer[t].tries > 0
          /\ \/ writer[t].pc \in {"idle", "points"}
             \/ \A x \in p.entities :
                  [entity |-> x, chunk |-> p.chunk, doc |-> p.doc] \in MentionsOf(t)
    BY <1>1 DEF Inv, PointOf
  <2>2. At(t, "done") /\ t \notin disturbed /\ Job[t].kind = "ingest"
    BY <2>1
  <2>3. MentionsOf(t) \subseteq mentions
    BY <1>1, <2>2 DEF Inv, Progress
  <2> QED
    BY <2>1, <2>2, <2>3 DEF At
<1> QED
  BY <1>1, Invariance, PTL

(* Only delete_doc_cascade deletes edges, those of its own document        *)
(* (temporal_model.py:86-102): CLEANUP_ORPHAN_ENTITIES finds only entities *)
(* without any.                                                            *)
THEOREM EdgesGoWithTheirDocument == GraphSpec => RemovedOnlyByOwnCascade
<1> DEFINE Own == \A x \in (mentions \ mentions') \cup (facts \ facts') :
                    \E t \in Tasks : Doc(t) = x.doc /\ Cascade(t)
<1>1. ASSUME Inv, NEW t \in Tasks, IngestStep(t) \/ DeleteChunks(t) \/ Sweep(t) \/ Stop(t)
      PROVE  mentions \subseteq mentions' /\ facts \subseteq facts'
  <2>1. CASE Sweep(t)
    BY <1>1, <2>1, SweepTakesNoEdges DEF Inv
  <2>2. CASE IngestStep(t) \/ DeleteChunks(t) \/ Stop(t)
    BY <2>2 DEF IngestStep, Resolve, WriteChunks, UpsertDocument, LinkSupersedes, UpsertEntity,
                LinkMention, UpsertRelation, DeleteChunks, Stop, graph
  <2> QED
    BY <1>1, <2>1, <2>2
<1>2. ASSUME NEW t \in Tasks, Cascade(t)
      PROVE  Own
  <2>1. /\ {m \in mentions : m.doc # Doc(t)} \subseteq mentions'
        /\ {f \in facts : f.doc # Doc(t)} \subseteq facts'
    BY <1>2 DEF Cascade
  <2> QED
    BY <1>2, <2>1
<1>3. Inv /\ GraphStep => Own
  BY <1>1, <1>2 DEF GraphStep, DeleteStep
<1>4. Inv /\ [GraphStep]_vars => [Own]_vars
  BY <1>3
<1> QED
  BY <1>4, Invariance, PTL DEF GraphSpec, RemovedOnlyByOwnCascade

(* MERGE_RELATED_TO sets tx_to only ON CREATE (temporal_model.py:72-83), so *)
(* what an amendment closed stays closed while it exists.                  *)
THEOREM NothingReopens == GraphSpec => ClosedStaysClosed
<1>1. ASSUME Inv, NEW t \in Tasks, IngestStep(t) \/ DeleteChunks(t) \/ Sweep(t) \/ Stop(t)
      PROVE  closed \subseteq closed'
  <2>1. CASE Sweep(t)
    BY <1>1, <2>1, SweepTakesNoEdges DEF Inv
  <2>2. CASE IngestStep(t) \/ DeleteChunks(t) \/ Stop(t)
    BY <2>2 DEF IngestStep, Resolve, WriteChunks, UpsertDocument, LinkSupersedes, UpsertEntity,
                LinkMention, UpsertRelation, DeleteChunks, Stop, graph
  <2> QED
    BY <1>1, <2>1, <2>2
<1>2. ASSUME NEW t \in Tasks, Cascade(t)
      PROVE  closed \cap facts' \subseteq closed'
  BY <1>2 DEF Cascade
<1>3. Inv /\ [GraphStep]_vars => [closed \cap facts' \subseteq closed']_vars
  BY <1>1, <1>2 DEF GraphStep, DeleteStep
<1> QED
  BY <1>3, Invariance, PTL DEF GraphSpec, ClosedStaysClosed

(* ON MATCH SET replaces the aliases by the list resolve_entities built    *)
(* (temporal_model.py:57, resolver.py:73-117): what that can lose is what  *)
(* another task wrote since the list was read, or the names of an entity   *)
(* another one was merged into.                                            *)
THEOREM OnlyStaleListsLoseAliases == GraphSpec => AliasesLostOnlyIfStale
<1> DEFINE Explained(e) ==
             aliases[e] \subseteq aliases'[e]
             \/ \E t \in Tasks :
                  /\ At(t, "entities") /\ writer'[t] # writer[t]
                  /\ \/ e \in missed[t]
                     \/ \E n \in Extracted(writer[t].found) \ {e} : writer[t].canon[n] = e
           Kept == \A e \in present \cap present' : Explained(e)
<1>1. ASSUME NEW t \in Tasks,
             Resolve(t) \/ WriteChunks(t) \/ UpsertDocument(t) \/ LinkSupersedes(t)
               \/ LinkMention(t) \/ UpsertRelation(t) \/ DeleteChunks(t) \/ Cascade(t) \/ Stop(t)
      PROVE  Kept
  <2>1. aliases' = aliases
    BY <1>1 DEF Resolve, WriteChunks, UpsertDocument, LinkSupersedes, LinkMention,
                UpsertRelation, DeleteChunks, Cascade, Stop, graph
  <2> QED
    BY <2>1
<1>2. ASSUME Inv, NEW t \in Tasks, Sweep(t)
      PROVE  Kept
  BY <1>2 DEF Sweep, Inv, Types
<1>3. ASSUME Inv, NEW t \in Tasks, UpsertEntity(t)
      PROVE  Kept
  <2>1. /\ Types /\ Work(t) /\ AliasesRead(t) /\ At(t, "entities") /\ Canonical(t) \subseteq Entities
    BY <1>3, ExtractionTypes DEF Inv, UpsertEntity
  <2>2. PICK e \in writer[t].todo :
          /\ aliases' = [aliases EXCEPT ![e] = writer[t].names[e]]
          /\ writer' = [writer EXCEPT ![t] = AfterEntity(t, e)]
    BY <1>3 DEF UpsertEntity
  <2>3. e \in Canonical(t) /\ e \in Entities
    BY <2>1 DEF Work
  <2>4. writer'[t] = AfterEntity(t, e)
    BY <2>1, <2>2 DEF Types
  <2>5. writer'[t] # writer[t]
    <3>1. CASE writer[t].todo # {e}
      <4>1. AfterEntity(t, e).todo = writer[t].todo \ {e}
        BY <2>1, <3>1 DEF AfterEntity, Types, Writer
      <4> QED
        BY <2>4, <4>1
    <3>2. CASE writer[t].todo = {e}
      <4>1. AfterEntity(t, e).pc = "mentions"
        BY <2>1, <3>2 DEF AfterEntity, Types, Writer
      <4> QED
        BY <2>1, <2>4, <4>1 DEF At
    <3> QED
      BY <3>1, <3>2
  <2>6. Explained(e)
    BY <2>1, <2>2, <2>3, <2>5 DEF AliasesRead, Merged, Types
  <2>7. \A x \in Entities \ {e} : aliases'[x] = aliases[x]
    BY <2>1, <2>2 DEF Types
  <2> QED
    BY <2>1, <2>6, <2>7 DEF Types
<1>4. Inv /\ GraphStep => Kept
  BY <1>1, <1>2, <1>3 DEF GraphStep, IngestStep, DeleteStep
<1>5. Inv /\ [GraphStep]_vars => [Kept]_vars
  BY <1>4
<1> QED
  BY <1>5, Invariance, PTL DEF GraphSpec, AliasesLostOnlyIfStale

=============================================================================
