------------------------ MODULE KnowledgeBase_proofs ------------------------
(***************************************************************************)
(* Theorems about knowledge bases, for any sets of knowledge bases,        *)
(* documents, contents and requests, any sizes of documents and any number *)
(* of faults: what is searchable, what a removal leaves behind, and what   *)
(* a snapshot or a rollback keeps when nothing disturbs it.                *)
(***************************************************************************)
EXTENDS KnowledgeBase, TLAPS

KbOrNone == Kbs \cup {NoKb}
Records == [status: Statuses, kb: KbOrNone, content: Contents \cup {NoContent},
            snapshot: BOOLEAN]
ChunkRecords == [doc: Docs, kb: Kbs, index: Nat, snapshot: BOOLEAN]
PointRecords == [doc: Docs, index: Nat]
TaskSteps == {"none", "checked", "queued", "started", "recorded", "open", "stamping", "ended", "lost"}
Ops == {"none", "delete_document", "delete_kb", "rollback", "snapshot", "heal"}
Steps == {"none", "done", "chunks", "points", "record", "drop", "docs", "promote",
          "create", "vectors", "read", "upsert"}
PartialCopies == UNION {[ds -> Docs] : ds \in SUBSET Docs}
Views == SUBSET ((Contents \cup {NoContent}) \X Nat)
RequestRecords ==
  [op: Ops, step: Steps, kb: KbOrNone, alone: BOOLEAN, docs: SUBSET Docs,
   snap: KbOrNone, copyOf: PartialCopies, todo: SUBSET ChunkRecords, own: Views]

Types ==
  /\ kb \in [Kbs -> [state: {"unused", "here", "gone"}, snapshot: BOOLEAN, parent: KbOrNone]]
  /\ doc \in [Docs -> Records]
  /\ chunks \in SUBSET ChunkRecords
  /\ collections \in SUBSET Kbs
  /\ points \in [Kbs -> SUBSET PointRecords]
  /\ ingest \in [Docs -> [step: TaskSteps, next: Nat]]
  /\ request \in [Requests -> RequestRecords]
  /\ faults \in Nat
  /\ condemned \in SUBSET Docs /\ raced \in SUBSET Docs

\* Only a request under way has an operation, and each operation its steps.
StepsOf ==
  \A r \in Requests :
    /\ Running(r) <=> request[r].op # "none"
    /\ Running(r) => request[r].kb \in Kbs
    /\ request[r].alone => request[r].op \in {"snapshot", "rollback"}
    /\ request[r].op = "delete_document" => request[r].step \in {"chunks", "points", "record"}
    /\ request[r].op = "delete_kb" => request[r].step \in {"drop", "docs", "chunks", "record"}
    /\ request[r].op = "rollback" =>
         /\ request[r].step \in {"docs", "chunks", "drop", "record", "promote"}
         /\ request[r].snap \in Kbs
    /\ request[r].op = "snapshot" =>
         /\ request[r].step \in {"create", "docs", "chunks", "vectors"}
         /\ request[r].step # "create" => request[r].snap \in Kbs
    /\ request[r].op = "heal" => request[r].step \in {"read", "upsert"}

\* A record that no upload and no snapshot took is untouched, and the task of an
\* upload works on a record of its own.
TasksOwnRecords ==
  \A d \in Docs :
    /\ doc[d].kb = NoKb => /\ doc[d].status = "unused" /\ ~doc[d].snapshot
                           /\ ingest[d].step = "none"
    /\ ingest[d].step # "none" => doc[d].content \in Contents /\ ~doc[d].snapshot
    /\ ingest[d].step \in {"none", "checked", "queued", "started", "recorded"} => ingest[d].next = 1
    /\ doc[d].status = "completed" /\ ~doc[d].snapshot => ingest[d].step \in {"stamping", "ended", "lost"}
    /\ ingest[d].step \in {"stamping", "ended", "checked"} =>
         doc[d].status \notin {"pending", "processing"}

\* Chunks and points have a document that was taken; a chunk has the knowledge
\* base and the snapshot flag of its document.
DataHaveOwners ==
  /\ \A c \in chunks : doc[c.doc].kb = c.kb /\ doc[c.doc].snapshot = c.snapshot
  /\ \A k \in Kbs : \A p \in points[k] : doc[p.doc].kb # NoKb
  /\ \A k \in Kbs : k \notin collections => points[k] = {}

\* So has what requests have read.
RequestsHaveOwners ==
  \A r \in Requests :
    /\ \A c \in request[r].todo : doc[c.doc].kb # NoKb
    /\ \A d \in request[r].docs : doc[d].kb = request[r].kb /\ doc[d].kb # NoKb
    /\ At(r, "snapshot", "chunks") \/ At(r, "snapshot", "vectors") =>
         \A d \in DOMAIN request[r].copyOf :
           LET e == request[r].copyOf[d]
           IN doc[e].kb = request[r].snap /\ doc[e].snapshot

\* How far a task has come with the data of its document.
ChunkRecorded(d, i) ==
  [doc |-> d, kb |-> doc[d].kb, index |-> i, snapshot |-> FALSE] \in chunks
PointStored(d, i) == [doc |-> d, index |-> i] \in points[doc[d].kb]
TasksIndex ==
  \A d \in Docs : d \notin condemned =>
    /\ ingest[d].step \in {"recorded", "open"} \/ (doc[d].status = "completed" /\ ~doc[d].snapshot) =>
         \A i \in 1 .. Size[doc[d].content] : ChunkRecorded(d, i)
    /\ ingest[d].step = "open" => \A i \in 1 .. ingest[d].next - 1 : PointStored(d, i)
    /\ doc[d].status = "completed" /\ ~doc[d].snapshot =>
         \A i \in 1 .. Size[doc[d].content] : PointStored(d, i)

\* No vector of the document is left where it belongs.
NoneLeft(d) == \A p \in points[doc[d].kb] : p.doc # d
RemovalsClean ==
  /\ \A d \in Docs : doc[d].status = "gone" /\ d \notin raced => NoneLeft(d)
  /\ \A r \in Requests :
       /\ At(r, "delete_document", "record") =>
            \A d \in request[r].docs : d \notin raced => NoneLeft(d)
       /\ At(r, "delete_kb", "docs") =>
            \A d \in Docs : doc[d].kb = request[r].kb /\ d \notin raced => NoneLeft(d)

\* A snapshot is of another knowledge base.
SnapshotsOfOthers ==
  /\ \A s \in Kbs : kb[s].snapshot => kb[s].parent # s
  /\ \A r \in Requests :
       At(r, "snapshot", "create") => kb[request[r].kb].state # "unused"

\* What a snapshot that nothing disturbed has copied so far: documents it read,
\* and every chunk if one read returns them all.
Originals(r) == OwnDocs(request[r].kb)
CopiesSoFar ==
  \A r \in Requests : request[r].alone =>
    /\ At(r, "snapshot", "chunks") \/ At(r, "snapshot", "vectors") =>
         /\ DOMAIN request[r].copyOf \subseteq Originals(r)
         /\ \A d \in DOMAIN request[r].copyOf :
              LET e == request[r].copyOf[d]
              IN Here(e) /\ doc[e].content = doc[d].content
    /\ At(r, "snapshot", "vectors") /\ Cardinality(OwnChunks(request[r].kb)) <= ReadLimit =>
         \A c \in OwnChunks(request[r].kb) :
           /\ c.doc \in DOMAIN request[r].copyOf
           /\ \E x \in chunks : x.doc = request[r].copyOf[c.doc] /\ x.index = c.index

\* What a rollback that nothing disturbed leaves of the snapshot.
OwnIsServed ==
  \A r \in Requests : request[r].alone /\ request[r].op = "rollback" =>
    /\ request[r].snap # request[r].kb
    /\ request[r].own \subseteq ServedBy(request[r].snap, DocsOf(request[r].snap))

IInv ==
  /\ Types /\ StepsOf /\ TasksOwnRecords /\ DataHaveOwners /\ RequestsHaveOwners
  /\ TasksIndex /\ RemovalsClean /\ SnapshotsOfOthers /\ CopiesSoFar /\ OwnIsServed

-----------------------------------------------------------------------------
\* A read returns records that are there, and all of them up to the limit.
LEMMA ReadsReturn ==
  ASSUME NEW S, NEW read \in Reads(S)
  PROVE  read \subseteq S /\ (Cardinality(S) <= ReadLimit => read = S)
BY DEF Reads, kSubset

\* A copy of chunks copies some of those whose documents have a copy, and goes on
\* only when it has copied all that one read returned.
LEMMA CopyChunksTo ==
  ASSUME NEW r \in Requests, CopyChunks(r)
  PROVE  LET own == OwnChunks(request[r].kb)
             Copies(cs) == {[c EXCEPT !.doc = CopyId(r, c.doc), !.kb = request[r].snap,
                                      !.snapshot = TRUE] : c \in cs}
         IN \E part \in SUBSET {c \in own : c.doc \in DOMAIN request[r].copyOf} :
              /\ chunks' = chunks \union Copies(part)
              /\ Ends(r) \/ (Continues(r) /\ (Cardinality(own) <= ReadLimit => part = own))
<1> DEFINE own == OwnChunks(request[r].kb)
           Copies(cs) == {[c EXCEPT !.doc = CopyId(r, c.doc), !.kb = request[r].snap,
                                    !.snapshot = TRUE] : c \in cs}
<1>1. PICK read \in Reads(own) :
        \/ /\ \A c \in read : c.doc \in DOMAIN request[r].copyOf
           /\ chunks' = chunks \union Copies(read)
           /\ Continues(r)
        \/ /\ \E part \in SUBSET {c \in read : c.doc \in DOMAIN request[r].copyOf} :
                chunks' = chunks \union Copies(part)
           /\ Ends(r)
  BY DEF CopyChunks
<1>2. read \subseteq own /\ (Cardinality(own) <= ReadLimit => read = own)
  BY ReadsReturn
<1> HIDE DEF own, Copies
<1> QED BY <1>1, <1>2 DEF own, Copies

\* The chunks a re-indexing reads are of its knowledge base.
LEMMA HealReadTo ==
  ASSUME NEW r \in Requests, HealRead(r)
  PROVE  \E read \in SUBSET {c \in chunks : c.kb = request[r].kb} :
           Goes(r, [request[r] EXCEPT !.step = After(r), !.todo = read])
BY ReadsReturn DEF HealRead

\* The step that follows each step of an operation.
LEMMA StepAfter ==
  ASSUME NEW r \in Requests
  PROVE  /\ At(r, "delete_document", "chunks") => After(r) = "points"
         /\ At(r, "delete_document", "points") => After(r) = "record"
         /\ At(r, "delete_document", "record") => After(r) = "done"
         /\ At(r, "delete_kb", "drop") => After(r) = "docs"
         /\ At(r, "delete_kb", "docs") => After(r) = "chunks"
         /\ At(r, "delete_kb", "chunks") => After(r) = "record"
         /\ At(r, "delete_kb", "record") => After(r) = "done"
         /\ At(r, "rollback", "docs") => After(r) = "chunks"
         /\ At(r, "rollback", "chunks") => After(r) = "drop"
         /\ At(r, "rollback", "drop") => After(r) = "record"
         /\ At(r, "rollback", "record") => After(r) = "promote"
         /\ At(r, "rollback", "promote") => After(r) = "done"
         /\ At(r, "snapshot", "create") => After(r) = "docs"
         /\ At(r, "snapshot", "docs") => After(r) = "chunks"
         /\ At(r, "snapshot", "chunks") => After(r) = "vectors"
         /\ At(r, "snapshot", "vectors") => After(r) = "done"
         /\ At(r, "heal", "read") => After(r) = "upsert"
         /\ At(r, "heal", "upsert") => After(r) = "done"
<1>1. /\ At(r, "delete_document", "chunks") => After(r) = "points"
      /\ At(r, "delete_document", "points") => After(r) = "record"
      /\ At(r, "delete_document", "record") => After(r) = "done"
  <2> DEFINE steps == <<"chunks", "points", "record", "done">>
  <2>1. request[r].op = "delete_document" => After(r) = steps[1 + CHOOSE i \in DOMAIN steps : steps[i] = request[r].step]
    BY DEF After, Order, DeleteDocumentOrder, DeleteKbOrder, RollbackOrder,
        SnapshotOrder, HealOrder
  <2>2. (CHOOSE i \in DOMAIN steps : steps[i] = "chunks") = 1
    OBVIOUS
  <2>3. (CHOOSE i \in DOMAIN steps : steps[i] = "points") = 2
    OBVIOUS
  <2>4. (CHOOSE i \in DOMAIN steps : steps[i] = "record") = 3
    OBVIOUS
  <2> QED BY <2>1, <2>2, <2>3, <2>4 DEF At
<1>2. /\ At(r, "delete_kb", "drop") => After(r) = "docs"
      /\ At(r, "delete_kb", "docs") => After(r) = "chunks"
      /\ At(r, "delete_kb", "chunks") => After(r) = "record"
      /\ At(r, "delete_kb", "record") => After(r) = "done"
  <2> DEFINE steps == <<"drop", "docs", "chunks", "record", "done">>
  <2>1. request[r].op = "delete_kb" => After(r) = steps[1 + CHOOSE i \in DOMAIN steps : steps[i] = request[r].step]
    BY DEF After, Order, DeleteDocumentOrder, DeleteKbOrder, RollbackOrder,
        SnapshotOrder, HealOrder
  <2>2. (CHOOSE i \in DOMAIN steps : steps[i] = "drop") = 1
    OBVIOUS
  <2>3. (CHOOSE i \in DOMAIN steps : steps[i] = "docs") = 2
    OBVIOUS
  <2>4. (CHOOSE i \in DOMAIN steps : steps[i] = "chunks") = 3
    OBVIOUS
  <2>5. (CHOOSE i \in DOMAIN steps : steps[i] = "record") = 4
    OBVIOUS
  <2> QED BY <2>1, <2>2, <2>3, <2>4, <2>5 DEF At
<1>3. /\ At(r, "rollback", "docs") => After(r) = "chunks"
      /\ At(r, "rollback", "chunks") => After(r) = "drop"
      /\ At(r, "rollback", "drop") => After(r) = "record"
      /\ At(r, "rollback", "record") => After(r) = "promote"
      /\ At(r, "rollback", "promote") => After(r) = "done"
  <2> DEFINE steps == <<"docs", "chunks", "drop", "record", "promote", "done">>
  <2>1. request[r].op = "rollback" => After(r) = steps[1 + CHOOSE i \in DOMAIN steps : steps[i] = request[r].step]
    BY DEF After, Order, DeleteDocumentOrder, DeleteKbOrder, RollbackOrder,
        SnapshotOrder, HealOrder
  <2>2. (CHOOSE i \in DOMAIN steps : steps[i] = "docs") = 1
    OBVIOUS
  <2>3. (CHOOSE i \in DOMAIN steps : steps[i] = "chunks") = 2
    OBVIOUS
  <2>4. (CHOOSE i \in DOMAIN steps : steps[i] = "drop") = 3
    OBVIOUS
  <2>5. (CHOOSE i \in DOMAIN steps : steps[i] = "record") = 4
    OBVIOUS
  <2>6. (CHOOSE i \in DOMAIN steps : steps[i] = "promote") = 5
    OBVIOUS
  <2> QED BY <2>1, <2>2, <2>3, <2>4, <2>5, <2>6 DEF At
<1>4. /\ At(r, "snapshot", "create") => After(r) = "docs"
      /\ At(r, "snapshot", "docs") => After(r) = "chunks"
      /\ At(r, "snapshot", "chunks") => After(r) = "vectors"
      /\ At(r, "snapshot", "vectors") => After(r) = "done"
  <2> DEFINE steps == <<"create", "docs", "chunks", "vectors", "done">>
  <2>1. request[r].op = "snapshot" => After(r) = steps[1 + CHOOSE i \in DOMAIN steps : steps[i] = request[r].step]
    BY DEF After, Order, DeleteDocumentOrder, DeleteKbOrder, RollbackOrder,
        SnapshotOrder, HealOrder
  <2>2. (CHOOSE i \in DOMAIN steps : steps[i] = "create") = 1
    OBVIOUS
  <2>3. (CHOOSE i \in DOMAIN steps : steps[i] = "docs") = 2
    OBVIOUS
  <2>4. (CHOOSE i \in DOMAIN steps : steps[i] = "chunks") = 3
    OBVIOUS
  <2>5. (CHOOSE i \in DOMAIN steps : steps[i] = "vectors") = 4
    OBVIOUS
  <2> QED BY <2>1, <2>2, <2>3, <2>4, <2>5 DEF At
<1>5. /\ At(r, "heal", "read") => After(r) = "upsert"
      /\ At(r, "heal", "upsert") => After(r) = "done"
  <2> DEFINE steps == <<"read", "upsert", "done">>
  <2>1. request[r].op = "heal" => After(r) = steps[1 + CHOOSE i \in DOMAIN steps : steps[i] = request[r].step]
    BY DEF After, Order, DeleteDocumentOrder, DeleteKbOrder, RollbackOrder,
        SnapshotOrder, HealOrder
  <2>2. (CHOOSE i \in DOMAIN steps : steps[i] = "read") = 1
    OBVIOUS
  <2>3. (CHOOSE i \in DOMAIN steps : steps[i] = "upsert") = 2
    OBVIOUS
  <2> QED BY <2>1, <2>2, <2>3 DEF At
<1> QED BY <1>1, <1>2, <1>3, <1>4, <1>5

\* Requests go on as records of their type.
LEMMA NoRequestTyped == NoRequest \in RequestRecords /\ Ended \in RequestRecords
<1>1. <<>> \in PartialCopies
  BY DEF PartialCopies
<1> QED BY <1>1 DEF NoRequest, Ended, RequestRecords, Ops, Steps, KbOrNone, Views

LEMMA GoesTyped ==
  ASSUME Types, NEW r \in Requests, NEW as \in RequestRecords, Goes(r, as)
  PROVE  request' \in [Requests -> RequestRecords]
<1>1. \A q \in Requests : [request[q] EXCEPT !.alone = FALSE] \in RequestRecords
  BY DEF Types, RequestRecords
<1> QED BY <1>1 DEF Goes

LEMMA DisturbTyped ==
  ASSUME Types, Disturb
  PROVE  request' \in [Requests -> RequestRecords]
<1>1. \A q \in Requests : [request[q] EXCEPT !.alone = FALSE] \in RequestRecords
  BY DEF Types, RequestRecords
<1> QED BY <1>1 DEF Disturb

LEMMA AfterTyped ==
  ASSUME Types, StepsOf, NEW r \in Requests, Running(r)
  PROVE  After(r) \in Steps
<1>1. request[r].op \in Ops
  BY DEF Types, RequestRecords
<1> QED BY <1>1, StepAfter DEF StepsOf, At, Steps, Ops

LEMMA ContinuesTyped ==
  ASSUME Types, StepsOf, NEW r \in Requests, Running(r), Continues(r)
  PROVE  request' \in [Requests -> RequestRecords]
<1>1. [request[r] EXCEPT !.step = After(r)] \in RequestRecords
  BY AfterTyped DEF Types, RequestRecords
<1> QED BY <1>1, GoesTyped, NoRequestTyped DEF Continues, Ends

LEMMA BeginsTyped ==
  ASSUME Types, NEW r \in Requests, NEW op \in Ops \ {"none"}, NEW as \in RequestRecords,
         Begins(r, op, as)
  PROVE  request' \in [Requests -> RequestRecords]
<1>1. Order[op][1] \in Steps /\ (Idle /\ op \in {"snapshot", "rollback"}) \in BOOLEAN
  BY DEF Order, DeleteDocumentOrder, DeleteKbOrder, RollbackOrder, SnapshotOrder, HealOrder,
        Ops, Steps
<1>2. [as EXCEPT !.op = op, !.step = Order[op][1],
                 !.alone = Idle /\ op \in {"snapshot", "rollback"}] \in RequestRecords
  BY <1>1 DEF RequestRecords
<1> QED BY <1>2, GoesTyped DEF Begins

LEMMA TypesInit == Init => Types
BY NoRequestTyped, KbsAssumption DEF Init, Types, Records, Statuses, KbOrNone, TaskSteps

\* Every step keeps the types.
LEMMA ArrivesTyped ==
  ASSUME Types, Arrives
  PROVE  Types'
<1> USE NoRequestTyped DEF Types, mongo, qdrant, history
<1>1. ASSUME NEW k \in Created, CreateKb(k) PROVE Types'
  BY <1>1, KbsAssumption DEF CreateKb
<1>2. ASSUME NEW d \in Docs, NEW k \in Kbs, NEW c \in Contents, Upload(d, k, c) PROVE Types'
  <2>0. [doc[d] EXCEPT !.kb = k, !.content = c] \in Records
    <3>1. doc[d] \in Records /\ k \in KbOrNone /\ c \in Contents \cup {NoContent}
      BY DEF KbOrNone
    <3> HIDE DEF Types
    <3> QED BY <3>1 DEF Records
  <2>1. doc' \in [Docs -> Records]
    BY <1>2, <2>0 DEF Upload
  <2>2. ingest' \in [Docs -> [step: TaskSteps, next: Nat]]
    BY <1>2 DEF Upload, Enters, TaskSteps
  <2> QED BY <1>2, <2>1, <2>2, DisturbTyped DEF Upload
<1>3. ASSUME NEW r \in Requests, NEW d \in Docs, DeleteDocument(r, d) PROVE Types'
  <2>1. [NoRequest EXCEPT !.kb = doc[d].kb, !.docs = {d}] \in RequestRecords
    BY DEF RequestRecords, Records
  <2> QED BY <1>3, <2>1, BeginsTyped DEF DeleteDocument, Ops
<1>4. ASSUME NEW r \in Requests, NEW k \in Kbs PROVE [NoRequest EXCEPT !.kb = k] \in RequestRecords
  BY DEF RequestRecords, KbOrNone
<1>5. ASSUME NEW r \in Requests, NEW k \in Kbs, DeleteKb(r, k) PROVE Types'
  BY <1>4, <1>5, BeginsTyped DEF DeleteKb, Ops
<1>6. ASSUME NEW r \in Requests, NEW k \in Kbs, Snapshot(r, k) PROVE Types'
  BY <1>4, <1>6, BeginsTyped DEF Snapshot, Ops
<1>7. ASSUME NEW r \in Requests, NEW k \in Kbs, Heal(r, k) PROVE Types'
  BY <1>4, <1>7, BeginsTyped DEF Heal, Ops
<1>8. ASSUME NEW r \in Requests, NEW k \in Kbs, NEW s \in Kbs, Rollback(r, k, s) PROVE Types'
  <2>1. ServedBy(s, DocsOf(s)) \in Views
    BY DEF ServedBy, Views, Records, PointRecords
  <2>2. [NoRequest EXCEPT !.kb = k, !.snap = s, !.own = ServedBy(s, DocsOf(s))] \in RequestRecords
    BY <2>1 DEF RequestRecords, KbOrNone
  <2>3. request' \in [Requests -> RequestRecords]
    BY <1>8, <2>2, BeginsTyped DEF Rollback, Ops
  <2>4. faults' \in Nat
    BY <1>8 DEF Rollback, Fault
  <2> QED BY <1>8, <2>3, <2>4 DEF Rollback
<1> QED BY <1>1, <1>2, <1>3, <1>5, <1>6, <1>7, <1>8 DEF Arrives

LEMMA TaskTyped ==
  ASSUME Types, TasksOwnRecords, NEW d \in Docs, Task(d)
  PROVE  Types'
<1> USE DisturbTyped DEF Types, mongo, qdrant, history, Enters
<1>1. \A status \in Statuses : /\ WithStatus(d, status) \in [Docs -> Records]
                              /\ [doc EXCEPT ![d].status = status] \in [Docs -> Records]
  BY DEF WithStatus, Records
<1>2. CASE Insert(d)
  <2>1. ingest' \in [Docs -> [step: TaskSteps, next: Nat]]
    BY <1>2 DEF Insert, TaskSteps
  <2>2. doc' \in [Docs -> Records]
    <3>1. doc' = doc \/ doc' = [doc EXCEPT ![d].status = "pending"]
      BY <1>2 DEF Insert
    <3> QED BY <1>1, <3>1 DEF Statuses
  <2> QED BY <1>2, <2>1, <2>2 DEF Insert
<1>3. CASE Begin(d)
  BY <1>1, <1>3 DEF Begin, Statuses, TaskSteps
<1>4. CASE NoText(d)
  BY <1>1, <1>4 DEF NoText, Statuses, TaskSteps
<1>5. CASE RecordChunks(d)
  <2>1. doc[d].kb \in Kbs
    BY <1>5 DEF TasksOwnRecords, RecordChunks, Records, KbOrNone
  <2>2. {[doc |-> d, kb |-> doc[d].kb, index |-> i, snapshot |-> FALSE] :
            i \in 1 .. Size[doc[d].content]} \subseteq ChunkRecords
    <3>1. Size[doc[d].content] \in Nat
      BY <1>5, SizeAssumption DEF TasksOwnRecords, RecordChunks
    <3> SUFFICES ASSUME NEW i \in 1 .. Size[doc[d].content]
                 PROVE  [doc |-> d, kb |-> doc[d].kb, index |-> i, snapshot |-> FALSE] \in ChunkRecords
      OBVIOUS
    <3>2. i \in Nat
      BY <3>1
    <3> QED BY <2>1, <3>2 DEF ChunkRecords
  <2>3. chunks' \subseteq ChunkRecords
    BY <1>5, <2>2 DEF RecordChunks
  <2> HIDE DEF ChunkRecords
  <2> QED BY <1>5, <2>3 DEF RecordChunks, TaskSteps, Wrote
<1>6. CASE OpenCollection(d)
  <2>1. doc[d].kb \in Kbs
    BY <1>6 DEF TasksOwnRecords, OpenCollection, Records, KbOrNone
  <2> QED BY <1>6, <2>1 DEF OpenCollection, TaskSteps
<1>7. CASE UpsertBatch(d)
  <2>1. [doc |-> d, index |-> ingest[d].next] \in PointRecords
    BY DEF PointRecords
  <2> QED BY <1>7, <2>1 DEF UpsertBatch, Wrote
<1>8. CASE Complete(d)
  BY <1>1, <1>8 DEF Complete, Statuses, TaskSteps
<1>9. CASE Stamp(d)
  BY <1>9 DEF Stamp, TaskSteps
<1>10. CASE IngestionFails(d)
  <2>1. ingest' \in [Docs -> [step: TaskSteps, next: Nat]]
    <3>1. \E step \in TaskSteps : ingest' = [ingest EXCEPT ![d].step = step]
      BY <1>10 DEF IngestionFails, TaskSteps
    <3> QED BY <3>1
  <2>3. faults' \in Nat
    BY <1>10 DEF IngestionFails, Fault
  <2>2. doc' \in [Docs -> Records]
    BY <1>1, <1>10 DEF IngestionFails, Statuses
  <2> QED BY <1>10, <2>1, <2>2, <2>3 DEF IngestionFails
<1> QED BY <1>2, <1>3, <1>4, <1>5, <1>6, <1>7, <1>8, <1>9, <1>10 DEF Task

LEMMA ServesTyped ==
  ASSUME Types, StepsOf, TasksOwnRecords, NEW r \in Requests, Serves(r)
  PROVE  Types'
<1> USE DEF Types, mongo, qdrant, history, Lost
<1>1. request[r] \in RequestRecords
  OBVIOUS
<1>2. \A op \in Ops \ {"none"}, step \in Steps :
        At(r, op, step) => Running(r) /\ request[r].kb \in Kbs
  BY DEF At, StepsOf
<1>3. Running(r) /\ Continues(r) => request' \in [Requests -> RequestRecords]
  BY ContinuesTyped
<1>4. Ends(r) => request' \in [Requests -> RequestRecords]
  BY GoesTyped, NoRequestTyped DEF Ends
<1>5. \A ds : Without(ds) \in [Docs -> Records]
  BY DEF Without, Records, Statuses
<1>6. \A k : Anywhere(k) \subseteq Docs
  BY DEF Anywhere
<1>7. request[r].docs \subseteq Docs /\ request[r].snap \in KbOrNone
  BY <1>1 DEF RequestRecords
<1>8. CASE DeleteChunks(r)
  BY <1>2, <1>3, <1>7, <1>8 DEF DeleteChunks, Ops, Steps
<1>9. CASE DeletePoints(r)
  BY <1>2, <1>3, <1>7, <1>9 DEF DeletePoints, Ops, Steps
<1>10. CASE DeleteRecord(r)
  BY <1>2, <1>3, <1>5, <1>10 DEF DeleteRecord, Ops, Steps
<1>11. CASE DropCollection(r)
  BY <1>2, <1>3, <1>6, <1>11 DEF DropCollection, RemovesKb, Ops, Steps
<1>12. CASE DeleteDocs(r)
  <2>1. DocsOf(request[r].kb) \subseteq Docs
    BY DEF DocsOf
  <2> QED BY <1>2, <1>3, <1>5, <1>12, <2>1 DEF DeleteDocs, RemovesKb, Ops, Steps
<1>13. CASE DeleteKbChunks(r)
  BY <1>2, <1>3, <1>6, <1>13 DEF DeleteKbChunks, RemovesKb, Ops, Steps
<1>14. CASE DeleteKbRecord(r)
  BY <1>2, <1>3, <1>14 DEF DeleteKbRecord, RemovesKb, Ops, Steps
<1>15. CASE Promote(r)
  BY <1>2, <1>3, <1>15 DEF Promote, KbOrNone, Ops, Steps
<1>16. CASE CreateSnapshot(r)
  <2>1. PICK s \in Kbs :
          /\ kb' = [kb EXCEPT ![s] = [state |-> "here", snapshot |-> TRUE, parent |-> request[r].kb]]
          /\ Goes(r, [request[r] EXCEPT !.step = After(r), !.snap = s])
    BY <1>16 DEF CreateSnapshot
  <2>2. [request[r] EXCEPT !.step = After(r), !.snap = s] \in RequestRecords
    BY <1>1, <1>2, <1>16, AfterTyped DEF RequestRecords, KbOrNone, CreateSnapshot, Ops, Steps
  <2>3. request[r].kb \in KbOrNone
    BY <1>1 DEF RequestRecords
  <2> QED BY <1>16, <2>1, <2>2, <2>3, GoesTyped DEF CreateSnapshot
<1>17. CASE CopyDocs(r)
  <2> DEFINE fresh == {d \in Docs : doc[d].kb = NoKb}
             Copy(d) == [doc[d] EXCEPT !.kb = request[r].snap, !.snapshot = TRUE]
  <2>0. PICK read \in Reads(OwnDocs(request[r].kb)) : \E copyOf \in Injection(read, fresh) :
          /\ doc' = [e \in Docs |->
                      IF \E d \in read : copyOf[d] = e
                      THEN Copy(CHOOSE d \in read : copyOf[d] = e) ELSE doc[e]]
          /\ Goes(r, [request[r] EXCEPT !.step = After(r), !.copyOf = copyOf])
    BY <1>17 DEF CopyDocs
  <2>1. PICK copyOf \in Injection(read, fresh) :
          /\ doc' = [e \in Docs |->
                      IF \E d \in read : copyOf[d] = e
                      THEN Copy(CHOOSE d \in read : copyOf[d] = e) ELSE doc[e]]
          /\ Goes(r, [request[r] EXCEPT !.step = After(r), !.copyOf = copyOf])
    BY <2>0
  <2>2. read \subseteq Docs
    BY ReadsReturn DEF OwnDocs, DocsOf
  <2>3. copyOf \in PartialCopies
    <3>1. copyOf \in [read -> fresh]
      BY DEF Injection
    <3>2. copyOf \in [read -> Docs]
      BY <3>1
    <3> QED BY <2>2, <3>2 DEF PartialCopies
  <2>4. [request[r] EXCEPT !.step = After(r), !.copyOf = copyOf] \in RequestRecords
    BY <1>1, <1>2, <1>17, <2>3, AfterTyped DEF RequestRecords, CopyDocs, Ops, Steps
  <2>5. \A d \in Docs : Copy(d) \in Records
    BY <1>7 DEF Records
  <2>6. doc' \in [Docs -> Records]
    <3> HIDE DEF Copy
    <3> QED BY <2>1, <2>2, <2>5
  <2> QED BY <1>17, <2>1, <2>4, <2>6, GoesTyped DEF CopyDocs
<1>18. CASE CopyChunks(r)
  <2> DEFINE copied == {c \in chunks : c.doc \in DOMAIN request[r].copyOf}
             Copies(cs) == {[c EXCEPT !.doc = CopyId(r, c.doc), !.kb = request[r].snap,
                                      !.snapshot = TRUE] : c \in cs}
  <2>1. request[r].snap \in Kbs
    BY <1>18 DEF CopyChunks, At, StepsOf
  <2>2. \A c \in copied : CopyId(r, c.doc) \in Docs
    BY <1>1 DEF CopyId, RequestRecords, PartialCopies
  <2>3. \A part \in SUBSET copied : Copies(part) \subseteq ChunkRecords
    <3>1. ASSUME NEW c \in copied
          PROVE  [c EXCEPT !.doc = CopyId(r, c.doc), !.kb = request[r].snap, !.snapshot = TRUE]
                   \in ChunkRecords
      BY <2>1, <2>2 DEF ChunkRecords
    <3> QED BY <3>1
  <2>5. PICK part \in SUBSET copied : chunks' = chunks \cup Copies(part)
    BY <1>18, CopyChunksTo DEF OwnChunks
  <2>6. request' \in [Requests -> RequestRecords]
    BY <1>2, <1>3, <1>4, <1>18 DEF CopyChunks, Ops, Steps
  <2> HIDE DEF Copies, copied
  <2> QED BY <1>18, <2>3, <2>5, <2>6 DEF CopyChunks
<1>19. CASE CopyVectors(r)
  <2> DEFINE copies == {[p EXCEPT !.doc = CopyId(r, p.doc)] : p \in points[request[r].kb]}
  <2>1. request[r].snap \in Kbs /\ request[r].kb \in Kbs
    BY <1>2, <1>19 DEF CopyVectors, At, StepsOf, Ops, Steps
  <2>2. \A d \in Docs : CopyId(r, d) \in Docs
    BY <1>1 DEF CopyId, RequestRecords, PartialCopies
  <2>3. copies \subseteq PointRecords
    BY <2>1, <2>2 DEF PointRecords
  <2>4. raced' \subseteq Docs
    <3>1. {p.doc : p \in copies} \subseteq Docs
      BY <2>3 DEF PointRecords
    <3> HIDE DEF copies
    <3> QED BY <1>19, <3>1 DEF CopyVectors, Wrote, copies
  <2>5. request' \in [Requests -> RequestRecords]
    BY <1>2, <1>3, <1>19 DEF CopyVectors, Ops, Steps
  <2>6. collections' \subseteq Kbs /\ points' \in [Kbs -> SUBSET PointRecords] /\ faults' \in Nat
    <3> HIDE DEF copies
    <3> QED BY <1>19, <2>1, <2>3 DEF CopyVectors, copies, Fault
  <2> QED BY <1>19, <2>4, <2>5, <2>6 DEF CopyVectors
<1>20. CASE HealRead(r)
  <2>0. PICK read \in SUBSET chunks :
          Goes(r, [request[r] EXCEPT !.step = After(r), !.todo = read])
    BY <1>20, HealReadTo
  <2>1. [request[r] EXCEPT !.step = After(r), !.todo = read] \in RequestRecords
    BY <1>1, <1>2, <1>20, AfterTyped DEF RequestRecords, HealRead, Ops, Steps
  <2> QED BY <1>2, <1>20, <2>0, <2>1, GoesTyped DEF HealRead, Ops, Steps
<1>21. CASE HealUpsert(r)
  <2>1. PICK c \in request[r].todo :
          /\ points' = [points EXCEPT ![request[r].kb] = @ \union {[doc |-> c.doc, index |-> c.index]}]
          /\ Goes(r, [request[r] EXCEPT !.todo = @ \ {c}])
          /\ Wrote({c.doc})
    BY <1>21 DEF HealUpsert
  <2>2. c \in ChunkRecords
    BY <1>1 DEF RequestRecords
  <2>3. c.doc \in Docs /\ [doc |-> c.doc, index |-> c.index] \in PointRecords
    BY <2>2 DEF ChunkRecords, PointRecords
  <2>4. [request[r] EXCEPT !.todo = @ \ {c}] \in RequestRecords
    BY <1>1 DEF RequestRecords
  <2> QED BY <1>2, <1>21, <2>1, <2>3, <2>4, GoesTyped DEF HealUpsert, Wrote, Ops, Steps
<1>22. CASE HealEnds(r)
  BY <1>2, <1>3, <1>4, <1>22 DEF HealEnds, Ops, Steps
<1>23. CASE RequestFails(r)
  BY <1>4, <1>23 DEF RequestFails, Fault
<1> QED BY <1>8, <1>9, <1>10, <1>11, <1>12, <1>13, <1>14, <1>15, <1>16, <1>17, <1>18,
           <1>19, <1>20, <1>21, <1>22, <1>23 DEF Serves

LEMMA CrashTyped ==
  ASSUME Types, Crash
  PROVE  Types'
<1>1. request' \in [Requests -> RequestRecords]
  BY NoRequestTyped DEF Types, Crash
<1>2. ingest' \in [Docs -> [step: TaskSteps, next: Nat]]
  BY DEF Types, Crash, TaskSteps
<1> QED BY <1>1, <1>2 DEF Types, Crash, Fault, mongo, qdrant, history

LEMMA TypesStep ==
  ASSUME Types, StepsOf, TasksOwnRecords, Next
  PROVE  Types'
BY ArrivesTyped, TaskTyped, ServesTyped, CrashTyped DEF Next

-----------------------------------------------------------------------------
(* What one step does to each request.                                     *)

\* A request that begins.
Begun(q) ==
  \/ \E d \in Docs : DeleteDocument(q, d)
  \/ \E k \in Kbs : DeleteKb(q, k) \/ Snapshot(q, k) \/ Heal(q, k)
  \/ \E k, s \in Kbs : Rollback(q, k, s)

\* A request that a step of another passes by: it stays alone only while no
\* document and no data change.
Keeps(q) ==
  /\ request'[q].op = request[q].op /\ request'[q].step = request[q].step
  /\ request'[q].kb = request[q].kb /\ request'[q].docs = request[q].docs
  /\ request'[q].snap = request[q].snap /\ request'[q].copyOf = request[q].copyOf
  /\ request'[q].todo = request[q].todo /\ request'[q].own = request[q].own
  /\ request'[q].alone => request[q].alone /\ UNCHANGED <<doc, chunks, qdrant, ingest, request>>

LEMMA GoesKeeps ==
  ASSUME Types, NEW r \in Requests, NEW as, Goes(r, as), NEW q \in Requests, q # r
  PROVE  Keeps(q)
BY DEF Types, RequestRecords, Goes, Keeps

LEMMA DisturbKeeps ==
  ASSUME Types, Disturb, NEW q \in Requests
  PROVE  Keeps(q)
BY DEF Types, RequestRecords, Disturb, Keeps

\* Every step of a request goes on as something.
LEMMA ServesGoes ==
  ASSUME NEW r \in Requests, Serves(r)
  PROVE  \E as : Goes(r, as)
<1>1. Ends(r) => \E as : Goes(r, as)
  BY DEF Ends
<1>2. Continues(r) => \E as : Goes(r, as)
  BY <1>1 DEF Continues
<1>3. \A as : Goes(r, as) => \E x : Goes(r, x)
  OBVIOUS
<1> HIDE DEF Goes, Ends, Continues
<1>4. CASE DeleteChunks(r) \/ DeletePoints(r) \/ DeleteRecord(r)
  BY <1>2, <1>4 DEF DeleteChunks, DeletePoints, DeleteRecord
<1>5. CASE DropCollection(r) \/ DeleteDocs(r) \/ DeleteKbChunks(r) \/ DeleteKbRecord(r) \/ Promote(r)
  BY <1>2, <1>5 DEF DropCollection, DeleteDocs, DeleteKbChunks, DeleteKbRecord, Promote
<1>6. CASE CreateSnapshot(r)
  BY <1>3, <1>6 DEF CreateSnapshot
<1>7. CASE CopyDocs(r)
  BY <1>3, <1>7 DEF CopyDocs
<1>8. CASE CopyChunks(r) \/ CopyVectors(r)
  BY <1>1, <1>2, <1>8 DEF CopyChunks, CopyVectors
<1>9. CASE HealRead(r) \/ HealUpsert(r)
  BY <1>3, <1>9 DEF HealRead, HealUpsert
<1>10. CASE HealEnds(r) \/ RequestFails(r)
  BY <1>1, <1>2, <1>10 DEF HealEnds, RequestFails
<1> QED BY <1>4, <1>5, <1>6, <1>7, <1>8, <1>9, <1>10 DEF Serves

LEMMA BegunGoes ==
  ASSUME NEW r \in Requests, Begun(r)
  PROVE  \E as : Goes(r, as)
<1>1. \A op, as : Begins(r, op, as) => \E x : Goes(r, x)
  BY DEF Begins
<1> QED BY <1>1 DEF Begun, DeleteDocument, DeleteKb, Snapshot, Heal, Rollback

LEMMA RequestForm ==
  ASSUME Types, StepsOf, Next, NEW q \in Requests
  PROVE  Keeps(q) \/ Begun(q) \/ Serves(q) \/ (Crash /\ request'[q] = Ended)
<1>1. ASSUME NEW r \in Requests, Begun(r) \/ Serves(r)
      PROVE  Keeps(q) \/ Begun(q) \/ Serves(q)
  BY <1>1, ServesGoes, BegunGoes, GoesKeeps
<1>2. CASE Arrives
  <2>1. ASSUME NEW k \in Created, CreateKb(k) PROVE Keeps(q)
    BY <2>1 DEF CreateKb, Keeps
  <2>2. ASSUME NEW d \in Docs, NEW k \in Kbs, NEW c \in Contents, Upload(d, k, c) PROVE Keeps(q)
    BY <2>2, DisturbKeeps DEF Upload
  <2> QED BY <1>1, <1>2, <2>1, <2>2 DEF Arrives, Begun
<1>3. ASSUME NEW d \in Docs, Task(d) PROVE Keeps(q)
  <2>1. Disturb
    BY <1>3 DEF Task, Insert, Begin, NoText, RecordChunks, OpenCollection, UpsertBatch,
                Complete, Stamp, IngestionFails
  <2> QED BY <2>1, DisturbKeeps
<1>4. CASE Crash
  BY <1>4 DEF Crash, Keeps, StepsOf
<1> QED BY <1>1, <1>2, <1>3, <1>4 DEF Next

\* Where a request that goes on finds itself.
LEMMA ContinuesTo ==
  ASSUME Types, StepsOf, NEW r \in Requests, Running(r), Continues(r)
  PROVE  \/ After(r) = "done" /\ request'[r] = Ended
         \/ After(r) # "done" /\ request'[r] = [request[r] EXCEPT !.step = After(r)]
BY DEF Continues, Ends, Goes

\* The step an operation begins with.
LEMMA FirstSteps ==
  /\ Order["delete_document"][1] = "chunks" /\ Order["delete_kb"][1] = "drop"
  /\ Order["rollback"][1] = "docs" /\ Order["snapshot"][1] = "create"
  /\ Order["heal"][1] = "read"
BY DEF Order, DeleteDocumentOrder, DeleteKbOrder, RollbackOrder, SnapshotOrder, HealOrder

\* Where a request that begins finds itself.
LEMMA BeginsAt ==
  ASSUME Types, NEW r \in Requests, NEW op \in Ops, NEW as \in RequestRecords, Begins(r, op, as)
  PROVE  /\ request'[r].op = op /\ request'[r].step = Order[op][1]
         /\ request'[r].kb = as.kb /\ request'[r].docs = as.docs /\ request'[r].snap = as.snap
         /\ request'[r].copyOf = as.copyOf /\ request'[r].todo = as.todo
         /\ request'[r].own = as.own
         /\ request'[r].alone => op \in {"snapshot", "rollback"}
<1> DEFINE new == [as EXCEPT !.op = op, !.step = Order[op][1],
                             !.alone = Idle /\ op \in {"snapshot", "rollback"}]
<1>1. request'[r] = new
  BY DEF Begins, Goes
<1>2. /\ new.op = op /\ new.step = Order[op][1] /\ new.alone = (Idle /\ op \in {"snapshot", "rollback"})
      /\ new.kb = as.kb /\ new.docs = as.docs /\ new.snap = as.snap
      /\ new.copyOf = as.copyOf /\ new.todo = as.todo /\ new.own = as.own
  BY DEF RequestRecords
<1> HIDE DEF new
<1> QED BY <1>1, <1>2

LEMMA BegunAt ==
  ASSUME Types, StepsOf, TasksOwnRecords, NEW q \in Requests
  PROVE  /\ \A d \in Docs : DeleteDocument(q, d) =>
              /\ request'[q].op = "delete_document" /\ request'[q].step = "chunks"
              /\ request'[q].kb = doc[d].kb /\ doc[d].kb \in Kbs /\ request'[q].docs = {d}
              /\ request'[q].todo = {} /\ ~request'[q].alone
         /\ \A k \in Kbs : DeleteKb(q, k) =>
              /\ request'[q].op = "delete_kb" /\ request'[q].step = "drop"
              /\ request'[q].kb = k /\ request'[q].docs = {}
              /\ request'[q].todo = {} /\ ~request'[q].alone
         /\ \A k \in Kbs : Snapshot(q, k) =>
              /\ request'[q].op = "snapshot" /\ request'[q].step = "create"
              /\ request'[q].kb = k /\ request'[q].docs = {} /\ request'[q].todo = {}
         /\ \A k \in Kbs : Heal(q, k) =>
              /\ request'[q].op = "heal" /\ request'[q].step = "read"
              /\ request'[q].kb = k /\ request'[q].docs = {}
              /\ request'[q].todo = {} /\ ~request'[q].alone
         /\ \A k, s \in Kbs : Rollback(q, k, s) =>
              /\ request'[q].op = "rollback" /\ request'[q].step = "docs"
              /\ request'[q].kb = k /\ request'[q].docs = {} /\ request'[q].todo = {}
              /\ request'[q].snap = s /\ request'[q].own = ServedBy(s, DocsOf(s))
<1> DEFINE OneDoc(k, d) == [NoRequest EXCEPT !.kb = k, !.docs = {d}]
           Whole(k) == [NoRequest EXCEPT !.kb = k]
           Back(k, s) == [NoRequest EXCEPT !.kb = k, !.snap = s, !.own = ServedBy(s, DocsOf(s))]
<1>1. ASSUME NEW k \in Kbs, NEW d \in Docs
      PROVE  /\ OneDoc(k, d) \in RequestRecords
             /\ OneDoc(k, d).kb = k /\ OneDoc(k, d).docs = {d} /\ OneDoc(k, d).todo = {}
  BY NoRequestTyped DEF RequestRecords, NoRequest, KbOrNone
<1>2. ASSUME NEW k \in Kbs
      PROVE  Whole(k) \in RequestRecords /\ Whole(k).kb = k /\ Whole(k).docs = {} /\ Whole(k).todo = {}
  BY NoRequestTyped DEF RequestRecords, NoRequest, KbOrNone
<1>3. ASSUME NEW k \in Kbs, NEW s \in Kbs
      PROVE  /\ Back(k, s) \in RequestRecords
             /\ Back(k, s).kb = k /\ Back(k, s).docs = {} /\ Back(k, s).todo = {}
             /\ Back(k, s).snap = s /\ Back(k, s).own = ServedBy(s, DocsOf(s))
  <2>1. ServedBy(s, DocsOf(s)) \in Views
    BY DEF ServedBy, Views, Records, PointRecords, Types
  <2> QED BY <2>1, NoRequestTyped DEF RequestRecords, NoRequest, KbOrNone
<1>4. \A d \in Docs : DeleteDocument(q, d) =>
        doc[d].kb \in Kbs /\ Begins(q, "delete_document", OneDoc(doc[d].kb, d))
  BY DEF DeleteDocument, Here, TasksOwnRecords, Types, Records, KbOrNone
<1>5. \A k \in Kbs :
        /\ DeleteKb(q, k) => Begins(q, "delete_kb", Whole(k))
        /\ Snapshot(q, k) => Begins(q, "snapshot", Whole(k))
        /\ Heal(q, k) => Begins(q, "heal", Whole(k))
  BY DEF DeleteKb, Snapshot, Heal
<1>6. \A k, s \in Kbs : Rollback(q, k, s) => Begins(q, "rollback", Back(k, s))
  BY DEF Rollback
<1> DEFINE Is(op, as) ==
      /\ request'[q].op = op /\ request'[q].step = Order[op][1]
      /\ request'[q].kb = as.kb /\ request'[q].docs = as.docs /\ request'[q].snap = as.snap
      /\ request'[q].todo = as.todo /\ request'[q].own = as.own
      /\ request'[q].alone => op \in {"snapshot", "rollback"}
<1>7. \A op \in Ops, as \in RequestRecords : Begins(q, op, as) => Is(op, as)
  BY BeginsAt
<1> HIDE DEF OneDoc, Whole, Back, Is
<1>8. ASSUME NEW d \in Docs, DeleteDocument(q, d) PROVE Is("delete_document", OneDoc(doc[d].kb, d))
  BY <1>1, <1>4, <1>7, <1>8 DEF Ops
<1>9. ASSUME NEW k \in Kbs
      PROVE  /\ DeleteKb(q, k) => Is("delete_kb", Whole(k))
             /\ Snapshot(q, k) => Is("snapshot", Whole(k))
             /\ Heal(q, k) => Is("heal", Whole(k))
  BY <1>2, <1>5, <1>7 DEF Ops
<1>10. ASSUME NEW k \in Kbs, NEW s \in Kbs, Rollback(q, k, s) PROVE Is("rollback", Back(k, s))
  BY <1>3, <1>6, <1>7, <1>10 DEF Ops
<1> HIDE DEF ServedBy
<1>11. \A d \in Docs : DeleteDocument(q, d) =>
         /\ request'[q].op = "delete_document" /\ request'[q].step = "chunks"
         /\ request'[q].kb = doc[d].kb /\ doc[d].kb \in Kbs /\ request'[q].docs = {d}
         /\ request'[q].todo = {} /\ ~request'[q].alone
  BY <1>1, <1>4, <1>8, FirstSteps DEF Is
<1>12. \A k \in Kbs : DeleteKb(q, k) \/ Snapshot(q, k) \/ Heal(q, k) =>
         request'[q].kb = k /\ request'[q].docs = {} /\ request'[q].todo = {}
  BY <1>2, <1>9 DEF Is
<1>13. \A k \in Kbs :
         /\ DeleteKb(q, k) => /\ request'[q].op = "delete_kb" /\ request'[q].step = "drop"
                              /\ ~request'[q].alone
         /\ Snapshot(q, k) => request'[q].op = "snapshot" /\ request'[q].step = "create"
         /\ Heal(q, k) => /\ request'[q].op = "heal" /\ request'[q].step = "read"
                          /\ ~request'[q].alone
  BY <1>9, FirstSteps DEF Is
<1>14. \A k, s \in Kbs : Rollback(q, k, s) =>
         /\ request'[q].op = "rollback" /\ request'[q].step = "docs"
         /\ request'[q].kb = k /\ request'[q].docs = {} /\ request'[q].todo = {}
         /\ request'[q].snap = s /\ request'[q].own = ServedBy(s, DocsOf(s))
  BY <1>3, <1>10, FirstSteps DEF Is
<1> QED BY <1>11, <1>12, <1>13, <1>14

\* A request takes its steps while it runs.
LEMMA ServesAt ==
  ASSUME NEW q \in Requests, Serves(q), StepsOf
  PROVE  Running(q)
<1>1. \A op \in Ops \ {"none"} : \A step : At(q, op, step) => Running(q)
  BY DEF At, StepsOf
<1> HIDE DEF At
<1>2. CASE DeleteChunks(q) \/ DeletePoints(q) \/ DeleteRecord(q)
  BY <1>1, <1>2 DEF DeleteChunks, DeletePoints, DeleteRecord, Ops
<1>3. CASE DropCollection(q) \/ DeleteDocs(q) \/ DeleteKbChunks(q) \/ DeleteKbRecord(q)
  BY <1>1, <1>3 DEF DropCollection, DeleteDocs, DeleteKbChunks, DeleteKbRecord, RemovesKb, Ops
<1>4. CASE Promote(q) \/ CreateSnapshot(q) \/ CopyDocs(q) \/ CopyChunks(q) \/ CopyVectors(q)
  BY <1>1, <1>4 DEF Promote, CreateSnapshot, CopyDocs, CopyChunks, CopyVectors, Ops
<1>5. CASE HealRead(q) \/ HealUpsert(q) \/ HealEnds(q) \/ RequestFails(q)
  BY <1>1, <1>5 DEF HealRead, HealUpsert, HealEnds, RequestFails, Ops
<1> QED BY <1>2, <1>3, <1>4, <1>5 DEF Serves

\* What a step of a request makes of it: it ends, goes on, or learns something.
LEMMA ServesTo ==
  ASSUME Types, StepsOf, NEW q \in Requests, Serves(q)
  PROVE  LET old == request[q]
             new == request'[q]
             Same == /\ new.op = old.op /\ new.kb = old.kb /\ new.alone = old.alone
                     /\ new.docs = old.docs
         IN \/ new = Ended
            \/ /\ Same /\ new.step = After(q) /\ After(q) # "done"
               /\ new.snap = old.snap /\ new.copyOf = old.copyOf /\ new.todo = old.todo
               /\ new.own = old.own /\ ~CopyDocs(q) /\ ~HealRead(q)
               /\ ~At(q, "snapshot", "create")
            \/ CreateSnapshot(q) /\ Same /\ new.step = "docs" /\ new.snap \in Kbs /\ new.todo = old.todo
            \/ /\ CopyDocs(q) /\ Same /\ new.step = "chunks" /\ new.snap = old.snap
               /\ new.todo = old.todo
            \/ HealRead(q) /\ Same /\ new.step = "upsert" /\ new.todo \subseteq chunks
            \/ HealUpsert(q) /\ Same /\ new.step = "upsert" /\ new.todo \subseteq old.todo
<1> DEFINE old == request[q]
           new == request'[q]
           Same == /\ new.op = old.op /\ new.kb = old.kb /\ new.alone = old.alone
                   /\ new.docs = old.docs
           GoesOn == /\ Same /\ new.step = After(q) /\ After(q) # "done"
                     /\ new.snap = old.snap /\ new.copyOf = old.copyOf /\ new.todo = old.todo
                     /\ new.own = old.own
<1>0. Running(q) /\ old \in RequestRecords
  BY ServesAt DEF Types
<1>1. Continues(q) => new = Ended \/ GoesOn
  BY <1>0, ContinuesTo DEF RequestRecords
<1>2. Ends(q) => new = Ended
  BY DEF Ends, Goes
<1>3. ASSUME NEW as, Goes(q, as) PROVE new = as
  BY <1>3 DEF Goes
<1> HIDE DEF Continues, Ends, Goes
<1>4. CASE CreateSnapshot(q)
  <2>1. PICK s \in Kbs : Goes(q, [old EXCEPT !.step = After(q), !.snap = s])
    BY <1>4 DEF CreateSnapshot
  <2>2. After(q) = "docs"
    BY <1>4, StepAfter DEF CreateSnapshot
  <2> QED BY <1>0, <1>3, <1>4, <2>1, <2>2 DEF RequestRecords
<1>5. CASE CopyDocs(q)
  <2>1. PICK copyOf : Goes(q, [old EXCEPT !.step = After(q), !.copyOf = copyOf])
    BY <1>5 DEF CopyDocs
  <2>2. After(q) = "chunks"
    BY <1>5, StepAfter DEF CopyDocs
  <2> QED BY <1>0, <1>3, <1>5, <2>1, <2>2 DEF RequestRecords
<1>6. CASE HealRead(q)
  <2>1. PICK read \in SUBSET chunks : new = [old EXCEPT !.step = After(q), !.todo = read]
    BY <1>3, <1>6, HealReadTo
  <2>2. After(q) = "upsert"
    BY <1>6, StepAfter DEF HealRead
  <2> QED BY <1>0, <1>6, <2>1, <2>2 DEF RequestRecords
<1>7. CASE HealUpsert(q)
  <2>1. PICK c \in old.todo : Goes(q, [old EXCEPT !.todo = @ \ {c}])
    BY <1>7 DEF HealUpsert
  <2>2. old.step = "upsert"
    BY <1>7 DEF HealUpsert, At
  <2> QED BY <1>0, <1>3, <1>7, <2>1, <2>2 DEF RequestRecords
<1>8. /\ CopyDocs(q) => At(q, "snapshot", "docs")
      /\ HealRead(q) => At(q, "heal", "read")
  BY DEF CopyDocs, HealRead
<1>9. \A op, step, op2, step2 :
        At(q, op, step) /\ At(q, op2, step2) => op = op2 /\ step = step2
  BY DEF At
<1> HIDE DEF Same, GoesOn, At
<1>10. CASE DeleteChunks(q) \/ DeletePoints(q) \/ DeleteRecord(q)
  <2>1. Continues(q) /\ \E step : At(q, "delete_document", step)
    BY <1>10 DEF DeleteChunks, DeletePoints, DeleteRecord
  <2> QED BY <1>1, <1>8, <1>9, <2>1 DEF GoesOn, Same
<1>11. CASE DropCollection(q) \/ DeleteDocs(q) \/ DeleteKbChunks(q) \/ DeleteKbRecord(q)
  <2>1. Continues(q) /\ \E step : At(q, "delete_kb", step) \/ At(q, "rollback", step)
    BY <1>11 DEF DropCollection, DeleteDocs, DeleteKbChunks, DeleteKbRecord, RemovesKb
  <2> QED BY <1>1, <1>8, <1>9, <2>1 DEF GoesOn, Same
<1>12. CASE Promote(q)
  <2>1. Continues(q) /\ At(q, "rollback", "promote")
    BY <1>12 DEF Promote
  <2> QED BY <1>1, <1>8, <1>9, <2>1 DEF GoesOn, Same
<1>13. CASE CopyChunks(q)
  <2>1. (Continues(q) \/ Ends(q)) /\ At(q, "snapshot", "chunks")
    BY <1>13 DEF CopyChunks
  <2> QED BY <1>1, <1>2, <1>8, <1>9, <2>1 DEF GoesOn, Same
<1>14. CASE CopyVectors(q)
  <2>1. Continues(q) /\ At(q, "snapshot", "vectors")
    BY <1>14 DEF CopyVectors
  <2> QED BY <1>1, <1>8, <1>9, <2>1 DEF GoesOn, Same
<1>15. CASE HealEnds(q)
  <2>1. (Continues(q) \/ Ends(q)) /\ At(q, "heal", "upsert")
    BY <1>15 DEF HealEnds
  <2> QED BY <1>1, <1>2, <1>8, <1>9, <2>1 DEF GoesOn, Same
<1>16. CASE RequestFails(q)
  BY <1>2, <1>16 DEF RequestFails
<1> QED BY <1>4, <1>5, <1>6, <1>7, <1>10, <1>11, <1>12, <1>13, <1>14, <1>15, <1>16 DEF Serves, Same, GoesOn

LEMMA StepsStep ==
  ASSUME Types, StepsOf, TasksOwnRecords, Next
  PROVE  StepsOf'
<1> DEFINE Fits(q) ==
      /\ Running(q) <=> request[q].op # "none"
      /\ Running(q) => request[q].kb \in Kbs
      /\ request[q].alone => request[q].op \in {"snapshot", "rollback"}
      /\ request[q].op = "delete_document" => request[q].step \in {"chunks", "points", "record"}
      /\ request[q].op = "delete_kb" => request[q].step \in {"drop", "docs", "chunks", "record"}
      /\ request[q].op = "rollback" =>
           /\ request[q].step \in {"docs", "chunks", "drop", "record", "promote"}
           /\ request[q].snap \in Kbs
      /\ request[q].op = "snapshot" =>
           /\ request[q].step \in {"create", "docs", "chunks", "vectors"}
           /\ request[q].step # "create" => request[q].snap \in Kbs
      /\ request[q].op = "heal" => request[q].step \in {"read", "upsert"}
<1> SUFFICES ASSUME NEW q \in Requests PROVE Fits(q)'
  BY DEF StepsOf
<1>0. Fits(q) /\ request[q] \in RequestRecords
  BY DEF StepsOf, Types
<1>1. CASE Keeps(q)
  BY <1>0, <1>1 DEF Keeps, Running
<1>2. request'[q] = Ended => Fits(q)'
  BY DEF Ended, NoRequest, Running
<1>3. CASE Begun(q)
  <2>1. ASSUME NEW d \in Docs, DeleteDocument(q, d) PROVE Fits(q)'
    BY <2>1, BegunAt DEF Running
  <2>2. ASSUME NEW k \in Kbs, DeleteKb(q, k) \/ Snapshot(q, k) \/ Heal(q, k) PROVE Fits(q)'
    BY <2>2, BegunAt DEF Running
  <2>3. ASSUME NEW k \in Kbs, NEW s \in Kbs, Rollback(q, k, s) PROVE Fits(q)'
    BY <2>3, BegunAt DEF Running
  <2> QED BY <1>3, <2>1, <2>2, <2>3 DEF Begun
<1>4. CASE Serves(q)
  <2>1. Running(q) /\ request[q].op \in Ops \ {"none"}
    BY <1>0, <1>4, ServesAt DEF RequestRecords
  <2>2. CASE /\ request'[q].op = request[q].op /\ request'[q].step = After(q)
             /\ request'[q].kb = request[q].kb /\ request'[q].alone = request[q].alone
             /\ request'[q].snap = request[q].snap /\ After(q) # "done"
             /\ ~At(q, "snapshot", "create")
    <3>1. After(q) # "none"
      BY <1>0, <2>1, StepAfter DEF At, Ops
    <3> QED BY <1>0, <2>1, <2>2, <3>1, StepAfter DEF At, Running, Ops
  <2>3. CASE /\ CreateSnapshot(q) \/ CopyDocs(q) \/ HealRead(q) \/ HealUpsert(q)
             /\ request'[q].op = request[q].op
             /\ request'[q].kb = request[q].kb /\ request'[q].alone = request[q].alone
             /\ \/ request'[q].step = "docs" /\ CreateSnapshot(q) /\ request'[q].snap \in Kbs
                \/ request'[q].step = "chunks" /\ CopyDocs(q) /\ request'[q].snap = request[q].snap
                \/ request'[q].step = "upsert" /\ (HealRead(q) \/ HealUpsert(q))
    <3>1. /\ CreateSnapshot(q) => At(q, "snapshot", "create")
          /\ CopyDocs(q) => At(q, "snapshot", "docs")
          /\ HealRead(q) => At(q, "heal", "read")
          /\ HealUpsert(q) => At(q, "heal", "upsert")
      BY DEF CreateSnapshot, CopyDocs, HealRead, HealUpsert
    <3> QED BY <1>0, <2>1, <2>3, <3>1 DEF At, Running
  <2> HIDE DEF Fits
  <2> QED BY <1>2, <1>4, <2>2, <2>3, ServesTo
<1> QED BY <1>1, <1>2, <1>3, <1>4, RequestForm

-----------------------------------------------------------------------------
(* Which steps change what.                                                *)

ChangesKb ==
  \/ \E k \in Created : CreateKb(k)
  \/ \E r \in Requests : DeleteKbRecord(r) \/ Promote(r) \/ CreateSnapshot(r)
ChangesDoc ==
  \/ \E d \in Docs, k \in Kbs, c \in Contents : Upload(d, k, c)
  \/ \E d \in Docs : Insert(d) \/ Begin(d) \/ NoText(d) \/ Complete(d) \/ IngestionFails(d)
  \/ \E r \in Requests : DeleteRecord(r) \/ DeleteDocs(r) \/ CopyDocs(r)
ChangesChunks ==
  \/ \E d \in Docs : RecordChunks(d)
  \/ \E r \in Requests : DeleteChunks(r) \/ DeleteKbChunks(r) \/ CopyChunks(r)
ChangesQdrant ==
  \/ \E d \in Docs : OpenCollection(d) \/ UpsertBatch(d)
  \/ \E r \in Requests : \/ DeletePoints(r) \/ DropCollection(r) \/ CopyVectors(r)
                         \/ HealRead(r) \/ HealUpsert(r)
ChangesIngest ==
  \/ \E d \in Docs, k \in Kbs, c \in Contents : Upload(d, k, c)
  \/ \E d \in Docs : Task(d)
  \/ Crash

LEMMA Footprints ==
  ASSUME Next
  PROVE  /\ kb' = kb \/ ChangesKb
         /\ doc' = doc \/ ChangesDoc
         /\ chunks' = chunks \/ ChangesChunks
         /\ UNCHANGED qdrant \/ ChangesQdrant
         /\ ingest' = ingest \/ ChangesIngest
<1> USE DEF ChangesKb, ChangesDoc, ChangesChunks, ChangesQdrant, ChangesIngest, mongo, qdrant
<1>1. CASE Arrives
  BY <1>1 DEF Arrives, CreateKb, Upload, DeleteDocument, DeleteKb, Snapshot, Heal, Rollback
<1>2. ASSUME NEW d \in Docs, Task(d) PROVE kb' = kb /\ (doc' = doc \/ ChangesDoc)
         /\ (chunks' = chunks \/ ChangesChunks) /\ (UNCHANGED qdrant \/ ChangesQdrant)
  BY <1>2 DEF Task, Insert, Begin, NoText, RecordChunks, OpenCollection, UpsertBatch,
              Complete, Stamp, IngestionFails
<1>3. ASSUME NEW r \in Requests, Serves(r)
      PROVE  /\ kb' = kb \/ ChangesKb
             /\ doc' = doc \/ ChangesDoc
             /\ chunks' = chunks \/ ChangesChunks
             /\ UNCHANGED qdrant \/ ChangesQdrant
             /\ ingest' = ingest
  <2>1. CASE DeleteChunks(r) \/ DeletePoints(r) \/ DeleteRecord(r) \/ DropCollection(r) \/ DeleteDocs(r)
    BY <2>1 DEF DeleteChunks, DeletePoints, DeleteRecord, DropCollection, DeleteDocs
  <2>2. CASE DeleteKbChunks(r) \/ DeleteKbRecord(r) \/ Promote(r) \/ CreateSnapshot(r)
    BY <2>2 DEF DeleteKbChunks, DeleteKbRecord, Promote, CreateSnapshot
  <2>3. CASE CopyDocs(r) \/ CopyChunks(r) \/ CopyVectors(r)
    BY <2>3 DEF CopyDocs, CopyChunks, CopyVectors
  <2>4. CASE HealRead(r) \/ HealUpsert(r) \/ HealEnds(r) \/ RequestFails(r)
    BY <2>4 DEF HealRead, HealUpsert, HealEnds, RequestFails
  <2> QED BY <1>3, <2>1, <2>2, <2>3, <2>4 DEF Serves
<1>4. CASE Crash
  BY <1>4 DEF Crash
<1> QED BY <1>1, <1>2, <1>3, <1>4 DEF Next

\* A copy of documents takes records that none has taken.
LEMMA CopyDocsTo ==
  ASSUME Types, StepsOf, NEW r \in Requests, CopyDocs(r)
  PROVE  LET copyOf == request'[r].copyOf
             fresh == {e \in Docs : doc[e].kb = NoKb}
         IN /\ DOMAIN copyOf \subseteq Originals(r)
            /\ copyOf \in [DOMAIN copyOf -> fresh]
            /\ \A e \in Docs :
                 IF \E d \in DOMAIN copyOf : copyOf[d] = e
                 THEN doc'[e].kb = request[r].snap /\ doc'[e].snapshot
                 ELSE doc'[e] = doc[e]
            /\ \A d \in DOMAIN copyOf :
                 doc'[copyOf[d]].status = doc[d].status /\ doc'[copyOf[d]].content = doc[d].content
            /\ request[r].snap \in Kbs
<1> DEFINE fresh == {e \in Docs : doc[e].kb = NoKb}
           Copy(d) == [doc[d] EXCEPT !.kb = request[r].snap, !.snapshot = TRUE]
<1>0. PICK read \in Reads(Originals(r)) : \E copyOf \in Injection(read, fresh) :
        /\ doc' = [e \in Docs |->
                    IF \E d \in read : copyOf[d] = e
                    THEN Copy(CHOOSE d \in read : copyOf[d] = e) ELSE doc[e]]
        /\ Goes(r, [request[r] EXCEPT !.step = After(r), !.copyOf = copyOf])
  BY DEF CopyDocs, Originals
<1>1. PICK copyOf \in Injection(read, fresh) :
        /\ doc' = [e \in Docs |->
                    IF \E d \in read : copyOf[d] = e
                    THEN Copy(CHOOSE d \in read : copyOf[d] = e) ELSE doc[e]]
        /\ Goes(r, [request[r] EXCEPT !.step = After(r), !.copyOf = copyOf])
  BY <1>0
<1>2. request'[r].copyOf = copyOf
  BY <1>1 DEF Goes, Types, RequestRecords
<1>3. /\ copyOf \in [read -> fresh]
      /\ \A d, f \in read : copyOf[d] = copyOf[f] => d = f
  BY DEF Injection, IsInjective
<1>4. request[r].snap \in Kbs
  BY DEF CopyDocs, At, StepsOf
<1>5. \A d \in Docs : /\ Copy(d).kb = request[r].snap /\ Copy(d).snapshot
                      /\ Copy(d).status = doc[d].status /\ Copy(d).content = doc[d].content
  BY DEF Types, Records
<1>6. read \subseteq Originals(r) /\ Originals(r) \subseteq Docs
  BY ReadsReturn DEF Originals, OwnDocs, DocsOf
<1> HIDE DEF fresh, Copy
<1>7. \A d \in read : (CHOOSE f \in read : copyOf[f] = copyOf[d]) = d
  BY <1>3
<1>8. \A d \in read : doc'[copyOf[d]] = Copy(d)
  BY <1>1, <1>3, <1>7 DEF fresh
<1>9. \A e \in Docs : (~\E d \in read : copyOf[d] = e) => doc'[e] = doc[e]
  BY <1>1
<1>10. DOMAIN copyOf = read
  BY <1>3
<1> QED BY <1>2, <1>3, <1>4, <1>5, <1>6, <1>8, <1>9, <1>10 DEF fresh

\* A record that was taken keeps its knowledge base, its content and its
\* snapshot flag.
LEMMA DocKept ==
  ASSUME Types, StepsOf, TasksOwnRecords, Next, NEW d \in Docs, doc[d].kb # NoKb
  PROVE  doc'[d].kb = doc[d].kb /\ doc'[d].content = doc[d].content /\ doc'[d].snapshot = doc[d].snapshot
<1> USE DEF Types, Records
<1>1. ASSUME NEW e \in Docs, NEW k \in Kbs, NEW c \in Contents, Upload(e, k, c) PROVE doc'[d] = doc[d]
  BY <1>1 DEF Upload
<1>2. ASSUME NEW e \in Docs, Insert(e) \/ Begin(e) \/ NoText(e) \/ Complete(e) \/ IngestionFails(e)
      PROVE  doc' = doc \/ \E status : doc' = [doc EXCEPT ![e].status = status]
  BY <1>2 DEF Insert, Begin, NoText, Complete, IngestionFails, WithStatus
<1>3. ASSUME NEW r \in Requests, DeleteRecord(r) \/ DeleteDocs(r)
      PROVE  doc'[d] = doc[d] \/ doc'[d] = [doc[d] EXCEPT !.status = "gone"]
  BY <1>3 DEF DeleteRecord, DeleteDocs, Without
<1>4. ASSUME NEW r \in Requests, CopyDocs(r) PROVE doc'[d] = doc[d]
  BY <1>4, CopyDocsTo
<1>5. CASE ChangesDoc
  BY <1>1, <1>2, <1>3, <1>4, <1>5 DEF ChangesDoc
<1> QED BY <1>5, Footprints

\* A record that is taken now is an upload's, or a copy for a snapshot.
LEMMA DocTaken ==
  ASSUME Types, StepsOf, TasksOwnRecords, RequestsHaveOwners, Next,
         NEW d \in Docs, doc[d].kb = NoKb, doc'[d] # doc[d]
  PROVE  \/ \E k \in Kbs, c \in Contents : Upload(d, k, c)
         \/ \E r \in Requests : CopyDocs(r) /\ doc'[d].snapshot /\ doc'[d].kb \in Kbs
                                /\ doc'[d].status \notin {"unused", "gone"}
<1> USE DEF Types, Records
<1>1. ASSUME NEW e \in Docs, NEW k \in Kbs, NEW c \in Contents, Upload(e, k, c) PROVE e = d
  BY <1>1 DEF Upload
<1>2. ASSUME NEW e \in Docs, Insert(e) \/ Begin(e) \/ NoText(e) \/ Complete(e) \/ IngestionFails(e)
      PROVE  FALSE
  <2>1. ingest[e].step # "none"
    BY <1>2 DEF Insert, Begin, NoText, Complete, IngestionFails, Indexing
  <2>2. e # d
    BY <2>1 DEF TasksOwnRecords
  <2> QED BY <1>2, <2>2 DEF Insert, Begin, NoText, Complete, IngestionFails, WithStatus
<1>3. ASSUME NEW r \in Requests, DeleteRecord(r) \/ DeleteDocs(r) PROVE FALSE
  <2>1. CASE DeleteDocs(r)
    <3>1. d \notin DocsOf(request[r].kb)
      BY DEF DocsOf, Here, TasksOwnRecords
    <3> QED BY <2>1, <3>1 DEF DeleteDocs, Without
  <2>2. CASE DeleteRecord(r)
    BY <2>2 DEF DeleteRecord, Without, RequestsHaveOwners
  <2> QED BY <1>3, <2>1, <2>2
<1>4. ASSUME NEW r \in Requests, CopyDocs(r)
      PROVE  doc'[d].snapshot /\ doc'[d].kb \in Kbs /\ doc'[d].status \notin {"unused", "gone"}
  <2>1. PICK f \in DOMAIN request'[r].copyOf : request'[r].copyOf[f] = d
    BY <1>4, CopyDocsTo
  <2>2. f \in Docs /\ Here(f)
    BY <1>4, CopyDocsTo DEF Originals, OwnDocs, DocsOf
  <2> QED BY <1>4, <2>1, <2>2, CopyDocsTo DEF Here
<1> QED BY <1>1, <1>2, <1>3, <1>4, Footprints DEF ChangesDoc

\* The histories and the faults only grow.
Grows == /\ condemned \subseteq condemned' /\ raced \subseteq raced'
         /\ faults' = faults \/ faults' = faults + 1

LEMMA HistoryGrows ==
  ASSUME Next
  PROVE  Grows
<1>1. UNCHANGED <<faults, history>> => Grows
  BY DEF Grows, history
<1>2. \A ds : UNCHANGED <<faults, condemned>> /\ Wrote(ds) => Grows
  BY DEF Grows, Wrote
<1>3. \A ds : UNCHANGED <<faults, raced>> /\ Lost(ds) => Grows
  BY DEF Grows, Lost
<1>4. Fault /\ UNCHANGED history => Grows
  BY DEF Grows, Fault, history
<1> HIDE DEF Grows
<1>5. CASE Arrives
  BY <1>1, <1>4, <1>5 DEF Arrives, CreateKb, Upload, DeleteDocument, DeleteKb, Snapshot, Heal, Rollback
<1>6. ASSUME NEW d \in Docs, Task(d) PROVE Grows
  BY <1>1, <1>2, <1>4, <1>6 DEF Task, Insert, Begin, NoText, RecordChunks, OpenCollection, UpsertBatch,
              Complete, Stamp, IngestionFails
<1>7. ASSUME NEW r \in Requests, Serves(r) PROVE Grows
  <2>1. CASE DeleteChunks(r) \/ DeletePoints(r) \/ DeleteRecord(r) \/ DropCollection(r)
    BY <1>1, <1>3, <2>1 DEF DeleteChunks, DeletePoints, DeleteRecord, DropCollection
  <2>2. CASE DeleteDocs(r)
    BY <2>2 DEF DeleteDocs, Grows
  <2>3. CASE DeleteKbChunks(r) \/ DeleteKbRecord(r) \/ Promote(r) \/ CreateSnapshot(r)
    BY <1>1, <1>3, <2>3 DEF DeleteKbChunks, DeleteKbRecord, Promote, CreateSnapshot
  <2>4. CASE CopyDocs(r) \/ CopyChunks(r)
    BY <1>1, <2>4 DEF CopyDocs, CopyChunks
  <2>5. CASE CopyVectors(r)
    BY <1>1, <1>2, <1>4, <2>5 DEF CopyVectors, history
  <2>6. CASE HealRead(r) \/ HealUpsert(r)
    BY <1>1, <1>2, <2>6 DEF HealRead, HealUpsert
  <2>7. CASE HealEnds(r) \/ RequestFails(r)
    BY <1>1, <1>4, <2>7 DEF HealEnds, RequestFails
  <2> QED BY <1>7, <2>1, <2>2, <2>3, <2>4, <2>5, <2>6, <2>7 DEF Serves
<1>8. CASE Crash
  BY <1>4, <1>8 DEF Crash
<1> QED BY <1>5, <1>6, <1>7, <1>8 DEF Next

\* A point that is new belongs to a document that was taken, and is recorded as
\* a race when that document is being removed.
LEMMA NewPoints ==
  ASSUME Types, StepsOf, TasksOwnRecords, DataHaveOwners, RequestsHaveOwners, Next,
         NEW k \in Kbs, NEW p \in points'[k], p \notin points[k]
  PROVE  /\ doc[p.doc].kb # NoKb
         /\ Removing(p.doc) => p.doc \in raced'
         /\ k \in collections'
<1> USE DEF Types
<1>1. ASSUME NEW d \in Docs, UpsertBatch(d)
      PROVE  /\ doc[p.doc].kb # NoKb /\ (Removing(p.doc) => p.doc \in raced') /\ k \in collections'
  <2>1. p.doc = d /\ k = doc[d].kb
    BY <1>1 DEF UpsertBatch
  <2> QED BY <1>1, <2>1 DEF UpsertBatch, Wrote, TasksOwnRecords
<1>2. ASSUME NEW r \in Requests, CopyVectors(r)
      PROVE  /\ doc[p.doc].kb # NoKb /\ (Removing(p.doc) => p.doc \in raced') /\ k \in collections'
  <2> DEFINE copies == {[q EXCEPT !.doc = CopyId(r, q.doc)] : q \in points[request[r].kb]}
  <2>1. At(r, "snapshot", "vectors") /\ request[r].snap \in Kbs /\ request[r].kb \in Kbs
    BY <1>2 DEF CopyVectors, StepsOf, At
  <2>2. /\ points' = [points EXCEPT ![request[r].snap] = @ \union copies]
        /\ Wrote({q.doc : q \in copies})
        /\ collections' = collections \union {request[r].snap}
    BY <1>2 DEF CopyVectors, qdrant
  <2>3. k = request[r].snap /\ p \in copies
    BY <2>1, <2>2
  <2>4. PICK q \in points[request[r].kb] : p = [q EXCEPT !.doc = CopyId(r, q.doc)]
    BY <2>3
  <2>5. p.doc = CopyId(r, q.doc) /\ doc[q.doc].kb # NoKb /\ q.doc \in Docs
    BY <2>1, <2>4 DEF DataHaveOwners, PointRecords
  <2>6. doc[p.doc].kb # NoKb /\ p.doc \in Docs
    <3>1. CASE q.doc \in DOMAIN request[r].copyOf
      <4>1. p.doc = request[r].copyOf[q.doc]
        BY <2>5, <3>1 DEF CopyId
      <4>2. doc[p.doc].kb = request[r].snap
        BY <2>1, <3>1, <4>1 DEF RequestsHaveOwners
      <4>3. p.doc \in Docs
        BY <3>1, <4>1 DEF RequestRecords, PartialCopies
      <4> QED BY <2>1, <4>2, <4>3, KbsAssumption
    <3>2. CASE q.doc \notin DOMAIN request[r].copyOf
      BY <2>5, <3>2 DEF CopyId
    <3> QED BY <3>1, <3>2
  <2>7. Removing(p.doc) => p.doc \in raced'
    BY <2>2, <2>3 DEF Wrote
  <2> QED BY <2>2, <2>3, <2>6, <2>7
<1>3. ASSUME NEW r \in Requests, HealUpsert(r)
      PROVE  /\ doc[p.doc].kb # NoKb /\ (Removing(p.doc) => p.doc \in raced') /\ k \in collections'
  <2>1. PICK c \in request[r].todo :
          /\ points' = [points EXCEPT ![request[r].kb] = @ \union {[doc |-> c.doc, index |-> c.index]}]
          /\ Wrote({c.doc})
    BY <1>3 DEF HealUpsert
  <2>2. p.doc = c.doc /\ k = request[r].kb
    BY <2>1
  <2>3. doc[c.doc].kb # NoKb
    BY DEF RequestsHaveOwners
  <2> QED BY <1>3, <2>1, <2>2, <2>3 DEF HealUpsert, Wrote
<1>4. ASSUME NEW d \in Docs, OpenCollection(d) PROVE FALSE
  BY <1>4 DEF OpenCollection
<1>5. ASSUME NEW r \in Requests, DeletePoints(r) \/ DropCollection(r) \/ HealRead(r) PROVE FALSE
  BY <1>5 DEF DeletePoints, DropCollection, HealRead
<1>6. ~UNCHANGED qdrant
  BY DEF qdrant
<1> QED BY <1>1, <1>2, <1>3, <1>4, <1>5, <1>6, Footprints DEF ChangesQdrant

\* A chunk that is new is recorded by the task of its document, or a copy for a
\* snapshot.
LEMMA NewChunks ==
  ASSUME Types, StepsOf, TasksOwnRecords, DataHaveOwners, RequestsHaveOwners, Next,
         NEW c \in chunks', c \notin chunks
  PROVE  /\ doc[c.doc].kb = c.kb /\ c.kb \in Kbs /\ doc[c.doc].snapshot = c.snapshot /\ c.doc \in Docs
         /\ c.snapshot \/ RecordChunks(c.doc)
<1> USE DEF Types
<1>1. ASSUME NEW d \in Docs, RecordChunks(d)
      PROVE  /\ doc[c.doc].kb = c.kb /\ c.kb \in Kbs /\ doc[c.doc].snapshot = c.snapshot
             /\ c.doc = d
  <2>1. PICK i : c = [doc |-> d, kb |-> doc[d].kb, index |-> i, snapshot |-> FALSE]
    BY <1>1 DEF RecordChunks
  <2>2. doc[d].kb \in Kbs /\ doc[d].snapshot = FALSE
    BY <1>1 DEF RecordChunks, TasksOwnRecords, Records, KbOrNone
  <2> QED BY <2>1, <2>2
<1>2. ASSUME NEW r \in Requests, CopyChunks(r)
      PROVE  /\ doc[c.doc].kb = c.kb /\ c.kb \in Kbs /\ doc[c.doc].snapshot = c.snapshot
             /\ c.doc \in Docs /\ c.snapshot
  <2> DEFINE copied == {x \in chunks : x.doc \in DOMAIN request[r].copyOf}
             Copies(cs) == {[x EXCEPT !.doc = CopyId(r, x.doc), !.kb = request[r].snap,
                                      !.snapshot = TRUE] : x \in cs}
  <2>1. PICK part \in SUBSET copied : chunks' = chunks \union Copies(part)
    BY <1>2, CopyChunksTo DEF OwnChunks
  <2>2. PICK x \in copied : c = [x EXCEPT !.doc = CopyId(r, x.doc), !.kb = request[r].snap,
                                          !.snapshot = TRUE]
    <3>2. c \in Copies(part)
      BY <2>1
    <3> HIDE DEF copied
    <3> QED BY <3>2
  <2>3. x \in ChunkRecords
    OBVIOUS
  <2>4. c.doc = request[r].copyOf[x.doc] /\ c.kb = request[r].snap /\ c.snapshot = TRUE
    BY <2>2, <2>3 DEF CopyId, ChunkRecords
  <2>5. At(r, "snapshot", "chunks") /\ request[r].snap \in Kbs
    BY <1>2 DEF CopyChunks, At, StepsOf
  <2>6. doc[c.doc].kb = request[r].snap /\ doc[c.doc].snapshot
    BY <2>2, <2>4, <2>5 DEF RequestsHaveOwners
  <2>7. c.doc \in Docs
    BY <2>2, <2>4 DEF RequestRecords, PartialCopies
  <2> QED BY <2>4, <2>5, <2>6, <2>7 DEF Records
<1>3. ASSUME NEW r \in Requests, DeleteChunks(r) \/ DeleteKbChunks(r) PROVE FALSE
  BY <1>3 DEF DeleteChunks, DeleteKbChunks
<1> QED BY <1>1, <1>2, <1>3, Footprints DEF ChangesChunks

\* A document that no removal has reached loses no chunk, except to the task
\* that replaces its chunks, and no point where it belongs.
LEMMA NothingLost ==
  ASSUME Types, StepsOf, DataHaveOwners, RequestsHaveOwners, Next,
         NEW d \in Docs, d \notin condemned', doc[d].kb \in Kbs
  PROVE  /\ \A c \in chunks : c.doc = d => c \in chunks' \/ RecordChunks(d)
         /\ \A p \in points[doc[d].kb] : p.doc = d => p \in points'[doc[d].kb]
<1> USE DEF Types
<1>1. ASSUME NEW c \in chunks, c.doc = d PROVE c \in chunks' \/ RecordChunks(d)
  <2>1. ASSUME NEW e \in Docs, RecordChunks(e), e # d PROVE c \in chunks'
    BY <1>1, <2>1 DEF RecordChunks, ChunksOf
  <2>2. ASSUME NEW r \in Requests, DeleteChunks(r) PROVE c \in chunks'
    BY <1>1, <2>2 DEF DeleteChunks, Lost
  <2>3. ASSUME NEW r \in Requests, DeleteKbChunks(r) PROVE c \in chunks'
    <3>1. d \in Anywhere(c.kb)
      BY <1>1 DEF Anywhere, DataHaveOwners
    <3> QED BY <2>3, <3>1 DEF DeleteKbChunks, Lost
  <2>4. ASSUME NEW r \in Requests, CopyChunks(r) PROVE c \in chunks'
    BY <2>4 DEF CopyChunks
  <2> QED BY <2>1, <2>2, <2>3, <2>4, Footprints DEF ChangesChunks
<1>2. ASSUME NEW p \in points[doc[d].kb], p.doc = d PROVE p \in points'[doc[d].kb]
  <2>1. ASSUME NEW e \in Docs, OpenCollection(e) \/ UpsertBatch(e) PROVE p \in points'[doc[d].kb]
    BY <2>1 DEF OpenCollection, UpsertBatch
  <2>2. ASSUME NEW r \in Requests, DeletePoints(r) PROVE p \in points'[doc[d].kb]
    BY <1>2, <2>2 DEF DeletePoints, Lost
  <2>3. ASSUME NEW r \in Requests, DropCollection(r) PROVE p \in points'[doc[d].kb]
    BY <2>3 DEF DropCollection, Lost, Anywhere
  <2>4. ASSUME NEW r \in Requests, CopyVectors(r) PROVE p \in points'[doc[d].kb]
    BY <2>4 DEF CopyVectors, qdrant
  <2>5. ASSUME NEW r \in Requests, HealRead(r) \/ HealUpsert(r) PROVE p \in points'[doc[d].kb]
    BY <2>5 DEF HealRead, HealUpsert
  <2> QED BY <2>1, <2>2, <2>3, <2>4, <2>5, Footprints DEF ChangesQdrant, qdrant
<1> QED BY <1>1, <1>2

-----------------------------------------------------------------------------
(* Every step keeps each part of the invariant.                            *)

LEMMA TasksOwnStep ==
  ASSUME Types, StepsOf, TasksOwnRecords, RequestsHaveOwners, Next
  PROVE  TasksOwnRecords'
<1> DEFINE Own(d) ==
      /\ doc[d].kb = NoKb => /\ doc[d].status = "unused" /\ ~doc[d].snapshot
                             /\ ingest[d].step = "none"
      /\ ingest[d].step # "none" => doc[d].content \in Contents /\ ~doc[d].snapshot
      /\ ingest[d].step \in {"none", "checked", "queued", "started", "recorded"} => ingest[d].next = 1
      /\ doc[d].status = "completed" /\ ~doc[d].snapshot => ingest[d].step \in {"stamping", "ended", "lost"}
      /\ ingest[d].step \in {"stamping", "ended", "checked"} =>
           doc[d].status \notin {"pending", "processing"}
<1> SUFFICES ASSUME NEW d \in Docs PROVE Own(d)'
  BY DEF TasksOwnRecords
<1> USE DEF Types
<1>0. Own(d)
  BY DEF TasksOwnRecords
<1>2. CASE doc' = doc /\ ingest' = ingest
  BY <1>0, <1>2
<1>3. ASSUME NEW e \in Docs, NEW k \in Kbs, NEW c \in Contents, Upload(e, k, c) PROVE Own(d)'
  <2>1. e # d => doc'[d] = doc[d] /\ ingest'[d] = ingest[d]
    BY <1>3 DEF Upload, Enters
  <2>2. e = d => /\ doc'[d].kb = k /\ doc'[d].content = c /\ doc'[d].status = "unused"
                 /\ ~doc'[d].snapshot /\ ingest'[d].step = "checked" /\ ingest'[d].next = 1
    BY <1>0, <1>3 DEF Upload, Enters, Records
  <2> QED BY <1>0, <2>1, <2>2, KbsAssumption
<1>4. ASSUME NEW e \in Docs, Task(e) PROVE Own(d)'
  <2> USE <1>0 DEF Enters, Records
  <2>1. e # d => doc'[d] = doc[d] /\ ingest'[d] = ingest[d]
    BY <1>4 DEF Task, Insert, Begin, NoText, RecordChunks, OpenCollection, UpsertBatch,
                Complete, Stamp, IngestionFails, WithStatus, mongo
  <2>2. CASE e = d /\ Insert(d)
    <3>1. ingest[d].step = "checked" /\ ingest'[d].next = ingest[d].next
      BY <2>2 DEF Insert
    <3>2. \/ doc' = doc /\ ingest'[d].step = "ended"
          \/ doc' = [doc EXCEPT ![d].status = "pending"] /\ ingest'[d].step = "queued"
      BY <2>2 DEF Insert
    <3> QED BY <3>1, <3>2
  <2>3. CASE e = d /\ Begin(d)
    BY <2>3 DEF Begin, WithStatus, Here
  <2>4. CASE e = d /\ NoText(d)
    BY <2>4 DEF NoText, WithStatus, Here
  <2>5. CASE e = d /\ (RecordChunks(d) \/ OpenCollection(d))
    BY <2>5 DEF RecordChunks, OpenCollection, mongo
  <2>6. CASE e = d /\ UpsertBatch(d)
    BY <2>6 DEF UpsertBatch, mongo
  <2>7. CASE e = d /\ Complete(d)
    BY <2>7 DEF Complete, WithStatus, Here
  <2>8. CASE e = d /\ Stamp(d)
    BY <2>8 DEF Stamp, mongo
  <2>9. CASE e = d /\ IngestionFails(d)
    <3>1. /\ ingest'[d].step \in {"ended", "lost"} /\ ingest[d].step \notin {"none", "ended", "lost"}
          /\ ingest'[d].next = ingest[d].next
      BY <2>9 DEF IngestionFails, Indexing
    <3>2. \/ doc' = doc /\ ingest'[d].step = "lost"
          \/ doc' = [doc EXCEPT ![d].status = "failed"] /\ Here(d)
          \/ doc' = doc /\ ~Here(d)
      BY <2>9 DEF IngestionFails, WithStatus
    <3> QED BY <3>1, <3>2 DEF Here
  <2> QED BY <1>4, <2>1, <2>2, <2>3, <2>4, <2>5, <2>6, <2>7, <2>8, <2>9 DEF Task
<1>5. ASSUME NEW r \in Requests, DeleteRecord(r) \/ DeleteDocs(r) PROVE Own(d)'
  <2>1. doc'[d] = doc[d] \/ (doc'[d] = [doc[d] EXCEPT !.status = "gone"] /\ doc[d].kb # NoKb)
    <3>1. CASE DeleteRecord(r)
      BY <3>1 DEF DeleteRecord, Without, RequestsHaveOwners
    <3>2. CASE DeleteDocs(r)
      BY <1>0, <3>2 DEF DeleteDocs, Without, DocsOf, Here
    <3> QED BY <1>5, <3>1, <3>2
  <2>2. ingest' = ingest
    BY <1>5 DEF DeleteRecord, DeleteDocs
  <2> QED BY <1>0, <2>1, <2>2 DEF Records
<1>6. ASSUME NEW r \in Requests, CopyDocs(r) PROVE Own(d)'
  <2>1. ingest' = ingest
    BY <1>6 DEF CopyDocs
  <2>2. doc'[d] = doc[d] \/ (doc[d].kb = NoKb /\ doc'[d].kb \in Kbs /\ doc'[d].snapshot)
    BY <1>6, CopyDocsTo
  <2> QED BY <1>0, <2>1, <2>2, KbsAssumption
<1>7. CASE Crash
  <2>1. doc' = doc
    BY <1>7 DEF Crash, mongo
  <2>2. ingest'[d].next = ingest[d].next /\ (ingest'[d].step = ingest[d].step \/ (ingest'[d].step = "lost" /\ Uploading(d)))
    BY <1>7 DEF Crash
  <2> QED BY <1>0, <2>1, <2>2 DEF Uploading, Indexing
<1> HIDE DEF Own
<1> QED BY <1>2, <1>3, <1>4, <1>5, <1>6, <1>7, Footprints DEF ChangesDoc, ChangesIngest, Task

LEMMA DataOwnersStep ==
  ASSUME Types, StepsOf, TasksOwnRecords, DataHaveOwners, RequestsHaveOwners, Next
  PROVE  DataHaveOwners'
<1> USE DEF Types
<1>1. ASSUME NEW c \in chunks' PROVE doc'[c.doc].kb = c.kb /\ doc'[c.doc].snapshot = c.snapshot
  <2>1. /\ doc[c.doc].kb = c.kb /\ c.kb \in Kbs /\ doc[c.doc].snapshot = c.snapshot /\ c.doc \in Docs
    <3>1. CASE c \in chunks
      BY <3>1 DEF DataHaveOwners, ChunkRecords
    <3> QED BY <3>1, NewChunks
  <2> QED BY <2>1, DocKept, KbsAssumption
<1>2. ASSUME NEW k \in Kbs, NEW p \in points'[k] PROVE doc'[p.doc].kb # NoKb
  <2>1. doc[p.doc].kb # NoKb
    <3>1. CASE p \in points[k]
      BY <3>1 DEF DataHaveOwners
    <3> QED BY <3>1, NewPoints
  <2>2. p.doc \in Docs
    BY TypesStep DEF PointRecords
  <2> QED BY <2>1, <2>2, DocKept
<1>3. ASSUME NEW k \in Kbs, k \notin collections' PROVE points'[k] = {}
  <2>1. k \in collections => points'[k] = {}
    <3>1. ASSUME NEW d \in Docs, OpenCollection(d) \/ UpsertBatch(d) PROVE k \notin collections
      BY <1>3, <3>1 DEF OpenCollection, UpsertBatch
    <3>2. ASSUME NEW r \in Requests, DropCollection(r) PROVE k \in collections => points'[k] = {}
      BY <1>3, <3>2 DEF DropCollection
    <3>3. ASSUME NEW r \in Requests, DeletePoints(r) \/ CopyVectors(r) \/ HealRead(r) \/ HealUpsert(r)
          PROVE  k \notin collections
      BY <1>3, <3>3 DEF DeletePoints, CopyVectors, HealRead, HealUpsert, qdrant
    <3> QED BY <1>3, <3>1, <3>2, <3>3, Footprints DEF ChangesQdrant, qdrant
  <2>2. k \notin collections => points[k] = {}
    BY DEF DataHaveOwners
  <2>3. \A p \in points'[k] : p \in points[k]
    BY <1>3, NewPoints
  <2> QED BY <2>1, <2>2, <2>3
<1> QED BY <1>1, <1>2, <1>3 DEF DataHaveOwners

LEMMA RequestsOwnersStep ==
  ASSUME Types, StepsOf, TasksOwnRecords, DataHaveOwners, RequestsHaveOwners, Next
  PROVE  RequestsHaveOwners'
<1> USE DEF Types
<1> SUFFICES ASSUME NEW q \in Requests
             PROVE  /\ \A c \in request'[q].todo : doc'[c.doc].kb # NoKb
                    /\ \A d \in request'[q].docs : doc'[d].kb = request'[q].kb /\ doc'[d].kb # NoKb
                    /\ (At(q, "snapshot", "chunks") \/ At(q, "snapshot", "vectors"))' =>
                         \A d \in DOMAIN request'[q].copyOf :
                           doc'[request'[q].copyOf[d]].kb = request'[q].snap
                           /\ doc'[request'[q].copyOf[d]].snapshot
  BY DEF RequestsHaveOwners
<1>0. \A d \in Docs : doc[d].kb # NoKb =>
        /\ doc'[d].kb = doc[d].kb /\ doc'[d].kb # NoKb /\ doc'[d].snapshot = doc[d].snapshot
  BY DocKept
<1>1. request[q] \in RequestRecords
  OBVIOUS
<1>2. \A c \in request[q].todo : doc[c.doc].kb # NoKb /\ c.doc \in Docs
  BY <1>1 DEF RequestsHaveOwners, RequestRecords, ChunkRecords
<1>3. \A d \in request[q].docs : doc[d].kb = request[q].kb /\ doc[d].kb # NoKb /\ d \in Docs
  BY <1>1 DEF RequestsHaveOwners, RequestRecords
<1>4. At(q, "snapshot", "chunks") \/ At(q, "snapshot", "vectors") =>
        \A d \in DOMAIN request[q].copyOf :
          LET e == request[q].copyOf[d]
          IN doc[e].kb = request[q].snap /\ doc[e].snapshot /\ e \in Docs /\ doc[e].kb # NoKb
  <2> SUFFICES ASSUME At(q, "snapshot", "chunks") \/ At(q, "snapshot", "vectors"),
                      NEW d \in DOMAIN request[q].copyOf
               PROVE  LET e == request[q].copyOf[d]
                      IN doc[e].kb = request[q].snap /\ doc[e].snapshot /\ e \in Docs /\ doc[e].kb # NoKb
    OBVIOUS
  <2>1. request[q].copyOf[d] \in Docs
    BY <1>1 DEF RequestRecords, PartialCopies
  <2>2. request[q].snap \in Kbs
    BY DEF At, StepsOf
  <2> QED BY <2>1, <2>2, KbsAssumption DEF RequestsHaveOwners
<1>5. /\ request'[q].todo \subseteq request[q].todo => \A c \in request'[q].todo : doc'[c.doc].kb # NoKb
      /\ request'[q].docs = request[q].docs /\ request'[q].kb = request[q].kb =>
           \A d \in request'[q].docs : doc'[d].kb = request'[q].kb /\ doc'[d].kb # NoKb
  BY <1>0, <1>2, <1>3
<1>6. (At(q, "snapshot", "chunks") \/ At(q, "snapshot", "vectors"))
      /\ request'[q].copyOf = request[q].copyOf /\ request'[q].snap = request[q].snap =>
           \A d \in DOMAIN request'[q].copyOf :
             doc'[request'[q].copyOf[d]].kb = request'[q].snap /\ doc'[request'[q].copyOf[d]].snapshot
  BY <1>0, <1>4
<1>7. CASE Keeps(q)
  BY <1>5, <1>6, <1>7 DEF Keeps, At
<1>8. CASE request'[q] = Ended
  BY <1>8 DEF Ended, NoRequest, At
<1>9. CASE Begun(q)
  <2>1. request'[q].todo = {} /\ request'[q].step \notin {"vectors"}
        /\ (request'[q].step = "chunks" => request'[q].op # "snapshot")
    BY <1>9, BegunAt DEF Begun
  <2>2. \A d \in request'[q].docs : d \in Docs /\ doc[d].kb = request'[q].kb /\ doc[d].kb # NoKb
    BY <1>9, BegunAt, KbsAssumption DEF Begun
  <2> QED BY <1>0, <2>1, <2>2 DEF At
<1>10. CASE Serves(q)
  <2> DEFINE Same == /\ request'[q].op = request[q].op /\ request'[q].kb = request[q].kb
                     /\ request'[q].docs = request[q].docs
  <2>1. CASE /\ Same /\ request'[q].step = After(q) /\ After(q) # "done"
             /\ request'[q].snap = request[q].snap /\ request'[q].copyOf = request[q].copyOf
             /\ request'[q].todo = request[q].todo /\ ~CopyDocs(q) /\ ~At(q, "snapshot", "create")
    <3>1. (At(q, "snapshot", "chunks") \/ At(q, "snapshot", "vectors"))' =>
             At(q, "snapshot", "chunks") \/ At(q, "snapshot", "vectors") \/ At(q, "snapshot", "docs")
      BY <2>1 DEF At, StepsOf
    <3>2. ~At(q, "snapshot", "docs")
      <4>1. ~RequestFails(q)
        BY <2>1 DEF RequestFails, Ends, Goes, Ended, NoRequest
      <4>2. SUFFICES ASSUME At(q, "snapshot", "docs") PROVE FALSE
        OBVIOUS
      <4> QED BY <1>10, <2>1, <4>1, <4>2 DEF Serves, DeleteChunks, DeletePoints, DeleteRecord,
         DropCollection, DeleteDocs, DeleteKbChunks, DeleteKbRecord, Promote, CreateSnapshot,
         CopyChunks, CopyVectors, HealRead, HealUpsert, HealEnds, RemovesKb, At
    <3> QED BY <1>5, <1>6, <2>1, <3>1, <3>2
  <2>2. CASE CreateSnapshot(q) /\ Same /\ request'[q].step = "docs" /\ request'[q].todo = request[q].todo
    BY <1>5, <2>2 DEF At
  <2>3. CASE /\ CopyDocs(q) /\ Same /\ request'[q].snap = request[q].snap
             /\ request'[q].todo = request[q].todo
    <3>1. \A d \in DOMAIN request'[q].copyOf : request'[q].copyOf[d] \in Docs
      BY <2>3, CopyDocsTo
    <3> QED BY <1>5, <2>3, <3>1, CopyDocsTo
  <2>4. CASE HealRead(q) /\ Same /\ request'[q].step = "upsert"
             /\ request'[q].todo \subseteq chunks
    <3>1. \A c \in chunks : c.doc \in Docs /\ doc[c.doc].kb # NoKb
      BY KbsAssumption DEF DataHaveOwners, ChunkRecords
    <3> QED BY <1>0, <1>5, <2>4, <3>1 DEF At
  <2>5. CASE HealUpsert(q) /\ Same /\ request'[q].step = "upsert" /\ request'[q].todo \subseteq request[q].todo
    BY <1>5, <2>5 DEF At
  <2> HIDE DEF Same
  <2> QED BY <1>8, <1>10, <2>1, <2>2, <2>3, <2>4, <2>5, ServesTo DEF Same
<1> QED BY <1>7, <1>8, <1>9, <1>10, RequestForm

\* A step that is not of the task of a document takes that task no further.
LEMMA OthersTasks ==
  ASSUME Types, StepsOf, TasksOwnRecords, Next, NEW d \in Docs, doc[d].kb # NoKb, ~Task(d)
  PROVE  /\ ingest'[d] = ingest[d] \/ ingest'[d].step = "lost"
         /\ doc'[d].status = doc[d].status \/ doc'[d].status = "gone"
<1> USE DEF Types, Records
<1>1. ASSUME NEW e \in Docs, NEW k \in Kbs, NEW c \in Contents, Upload(e, k, c)
      PROVE  doc'[d] = doc[d] /\ ingest'[d] = ingest[d]
  BY <1>1 DEF Upload, Enters
<1>2. ASSUME NEW e \in Docs, Task(e) PROVE doc'[d] = doc[d] /\ ingest'[d] = ingest[d]
  <2>1. e # d
    BY <1>2
  <2> QED BY <1>2, <2>1 DEF Task, Insert, Begin, NoText, RecordChunks, OpenCollection, UpsertBatch,
                Complete, Stamp, IngestionFails, WithStatus, mongo, Enters
<1>3. ASSUME NEW r \in Requests, DeleteRecord(r) \/ DeleteDocs(r)
      PROVE  (doc'[d] = doc[d] \/ doc'[d].status = "gone") /\ ingest' = ingest
  BY <1>3 DEF DeleteRecord, DeleteDocs, Without
<1>4. ASSUME NEW r \in Requests, CopyDocs(r) PROVE doc'[d] = doc[d] /\ ingest' = ingest
  <2>1. ingest' = ingest
    BY <1>4 DEF CopyDocs
  <2> QED BY <1>4, <2>1, CopyDocsTo
<1>5. CASE Crash
  BY <1>5 DEF Crash, mongo
<1> QED BY <1>1, <1>2, <1>3, <1>4, <1>5, Footprints DEF ChangesDoc, ChangesIngest, Task

LEMMA TasksIndexStep ==
  ASSUME Types, StepsOf, TasksOwnRecords, DataHaveOwners, RequestsHaveOwners, TasksIndex, Next
  PROVE  TasksIndex'
<1> DEFINE Complet(d) == doc[d].status = "completed" /\ ~doc[d].snapshot
           Indexed(d) ==
             /\ ingest[d].step \in {"recorded", "open"} \/ Complet(d) =>
                  \A i \in 1 .. Size[doc[d].content] : ChunkRecorded(d, i)
             /\ ingest[d].step = "open" => \A i \in 1 .. ingest[d].next - 1 : PointStored(d, i)
             /\ Complet(d) => \A i \in 1 .. Size[doc[d].content] : PointStored(d, i)
<1> SUFFICES ASSUME NEW d \in Docs, d \notin condemned' PROVE Indexed(d)'
  BY DEF TasksIndex
<1> USE DEF Types
<1>0. Indexed(d)
  BY HistoryGrows DEF Grows, TasksIndex
<1>1. CASE doc[d].kb = NoKb
  <2>1. ingest[d].step = "none" /\ doc[d].status = "unused"
    BY <1>1 DEF TasksOwnRecords
  <2>2. ingest'[d].step \in {"none", "checked", "lost"}
    <3>1. ~Task(d)
      BY <2>1 DEF Task, Insert, Begin, NoText, RecordChunks, OpenCollection, UpsertBatch,
                Complete, Stamp, IngestionFails, Indexing
    <3>2. ASSUME NEW e \in Docs, NEW k \in Kbs, NEW c \in Contents, Upload(e, k, c)
          PROVE  ingest'[d].step \in {"none", "checked"}
      BY <2>1, <3>2 DEF Upload, Enters
    <3>3. ASSUME NEW e \in Docs, Task(e) PROVE ingest'[d] = ingest[d]
      <4>1. e # d
        BY <3>1, <3>3
      <4> QED BY <3>3, <4>1 DEF Task, Insert, Begin, NoText, RecordChunks, OpenCollection, UpsertBatch,
                Complete, Stamp, IngestionFails, Enters
    <3>4. CASE Crash
      BY <2>1, <3>4 DEF Crash
    <3> QED BY <2>1, <3>2, <3>3, <3>4, Footprints DEF ChangesIngest
  <2>3. ~Complet(d)'
    <3>1. ASSUME NEW k \in Kbs, NEW c \in Contents, Upload(d, k, c) PROVE doc'[d].status = "unused"
      BY <2>1, <3>1 DEF Upload, Records
    <3> QED BY <1>1, <2>1, <3>1, DocTaken
  <2> QED BY <2>2, <2>3
<1>2. CASE doc[d].kb # NoKb
  <2>1. doc'[d].kb = doc[d].kb /\ doc'[d].content = doc[d].content /\ doc'[d].snapshot = doc[d].snapshot
    BY <1>2, DocKept
  <2>2. doc[d].kb \in Kbs
    BY <1>2 DEF Records, KbOrNone
  <2>3. ASSUME NEW i, ChunkRecorded(d, i), ~RecordChunks(d) PROVE ChunkRecorded(d, i)'
    BY <2>1, <2>2, <2>3, NothingLost DEF ChunkRecorded
  <2>4. ASSUME NEW i, PointStored(d, i) PROVE PointStored(d, i)'
    BY <2>1, <2>2, <2>4, NothingLost DEF PointStored
  <2>5. CASE ~Task(d)
    <3>1. ~RecordChunks(d)
      BY <2>5 DEF Task
    <3> QED BY <1>0, <1>2, <2>1, <2>3, <2>4, <2>5, <3>1, OthersTasks
  <2>6. CASE RecordChunks(d)
    <3>1. ingest'[d].step = "recorded" /\ doc' = doc /\ ingest[d].step = "started"
      BY <2>6 DEF RecordChunks, Enters
    <3>2. ~Complet(d)'
      BY <3>1 DEF TasksOwnRecords
    <3>3. \A i \in 1 .. Size[doc[d].content] :
            [doc |-> d, kb |-> doc[d].kb, index |-> i, snapshot |-> FALSE] \in chunks'
      BY <2>6 DEF RecordChunks
    <3> QED BY <3>1, <3>2, <3>3 DEF ChunkRecorded
  <2>7. CASE Insert(d) \/ Begin(d) \/ IngestionFails(d)
    <3>1. ingest'[d].step \notin {"recorded", "open"} /\ ~RecordChunks(d)
      BY <2>7 DEF Insert, Begin, IngestionFails, Enters, RecordChunks
    <3>2. Complet(d)' => Complet(d)
      BY <2>7 DEF Insert, Begin, IngestionFails, WithStatus, Records
    <3> QED BY <1>0, <2>1, <2>3, <2>4, <3>1, <3>2
  <2>8. CASE NoText(d)
    <3>1. ingest'[d].step = "ended" /\ Size[doc'[d].content] = 0
      BY <2>1, <2>8 DEF NoText, Enters
    <3> QED BY <3>1
  <2>9. CASE OpenCollection(d)
    <3>1. /\ ingest[d].step = "recorded" /\ ingest'[d].step = "open" /\ ingest'[d].next = ingest[d].next
          /\ doc' = doc /\ ~RecordChunks(d)
      BY <2>9 DEF OpenCollection, Enters, mongo, RecordChunks
    <3>2. ingest[d].next = 1
      BY <3>1 DEF TasksOwnRecords
    <3> QED BY <1>0, <2>3, <2>4, <3>1, <3>2
  <2>10. CASE UpsertBatch(d)
    <3>1. /\ ingest[d].step = "open" /\ ingest'[d].step = "open" /\ ingest'[d].next = ingest[d].next + 1
          /\ doc' = doc /\ ~RecordChunks(d) /\ ingest[d].next \in Nat
      BY <2>10 DEF UpsertBatch, mongo, RecordChunks
    <3>2. [doc |-> d, index |-> ingest[d].next] \in points'[doc'[d].kb]
      BY <2>1, <2>2, <2>10 DEF UpsertBatch
    <3>3. \A n \in Nat : \A i \in 1 .. (n + 1) - 1 : i \in 1 .. n - 1 \/ i = n
      OBVIOUS
    <3>4. \A i \in 1 .. ingest'[d].next - 1 : i \in 1 .. ingest[d].next - 1 \/ i = ingest[d].next
      BY <3>1, <3>3
    <3>5. \A i \in 1 .. ingest'[d].next - 1 : PointStored(d, i)'
      BY <1>0, <2>4, <3>1, <3>2, <3>4 DEF PointStored
    <3>6. \A i \in 1 .. Size[doc'[d].content] : ChunkRecorded(d, i)'
      BY <1>0, <2>1, <2>3, <3>1
    <3>7. ~Complet(d)'
      BY <3>1 DEF TasksOwnRecords
    <3> QED BY <3>5, <3>6, <3>7
  <2>11. CASE Complete(d)
    <3>1. /\ ingest[d].step = "open" /\ ingest'[d].step = "stamping" /\ ~RecordChunks(d)
          /\ ingest[d].next > Size[doc[d].content]
      BY <2>11 DEF Complete, Enters, RecordChunks
    <3>2. ingest[d].next \in Nat /\ Size[doc[d].content] \in Nat
      BY <3>1, SizeAssumption DEF TasksOwnRecords
    <3>3. \A i \in 1 .. Size[doc[d].content] : i \in 1 .. ingest[d].next - 1
      BY <3>1, <3>2
    <3> QED BY <1>0, <2>1, <2>3, <2>4, <3>1, <3>3
  <2>12. CASE Stamp(d)
    <3>1. ingest'[d].step = "ended" /\ doc' = doc /\ ~RecordChunks(d)
      BY <2>12 DEF Stamp, Enters, mongo, RecordChunks
    <3> QED BY <1>0, <2>3, <2>4, <3>1
  <2> QED BY <2>5, <2>6, <2>7, <2>8, <2>9, <2>10, <2>11, <2>12 DEF Task
<1> QED BY <1>1, <1>2

LEMMA RemovalsStep ==
  ASSUME Types, StepsOf, TasksOwnRecords, DataHaveOwners, RequestsHaveOwners, RemovalsClean, Next
  PROVE  RemovalsClean'
<1> USE DEF Types
<1>0. raced \subseteq raced'
  BY HistoryGrows DEF Grows
\* What was clean, and was being removed, is clean still.
<1>1. ASSUME NEW d \in Docs, doc[d].kb # NoKb, NoneLeft(d), Removing(d), d \notin raced'
      PROVE  NoneLeft(d)'
  <2>1. doc'[d].kb = doc[d].kb /\ doc[d].kb \in Kbs
    BY <1>1, DocKept DEF Records, KbOrNone
  <2> QED BY <1>1, <2>1, NewPoints DEF NoneLeft
\* A record that was not taken has no points.
<1>2. ASSUME NEW d \in Docs, doc[d].kb = NoKb, doc'[d].kb \in Kbs PROVE NoneLeft(d)'
  BY <1>2, NewPoints DEF DataHaveOwners, NoneLeft
<1>3. ASSUME NEW d \in Docs, doc'[d].status = "gone", d \notin raced' PROVE NoneLeft(d)'
  <2>1. doc[d].kb # NoKb
    <3> SUFFICES ASSUME doc[d].kb = NoKb PROVE FALSE
      OBVIOUS
    <3>1. doc[d].status = "unused"
      BY DEF TasksOwnRecords
    <3>2. ASSUME NEW k \in Kbs, NEW c \in Contents, Upload(d, k, c) PROVE FALSE
      BY <1>3, <3>1, <3>2 DEF Upload, Records
    <3> QED BY <1>3, <3>1, <3>2, DocTaken
  <2>2. CASE doc[d].status = "gone"
    BY <1>0, <1>1, <1>3, <2>1, <2>2 DEF RemovalsClean, Removing, Here
  <2>3. CASE doc[d].status # "gone"
    <3>1. ASSUME NEW r \in Requests, DeleteRecord(r) PROVE NoneLeft(d)'
      <4>1. d \in request[r].docs /\ At(r, "delete_document", "record")
        BY <1>3, <2>3, <3>1 DEF DeleteRecord, Without
      <4>2. NoneLeft(d)
        BY <1>0, <1>3, <4>1 DEF RemovalsClean
      <4>3. doc'[d].kb = doc[d].kb /\ points' = points
        BY <2>1, <3>1, DocKept DEF DeleteRecord, qdrant
      <4> QED BY <4>2, <4>3 DEF NoneLeft
    <3>2. ASSUME NEW r \in Requests, DeleteDocs(r) PROVE NoneLeft(d)'
      <4>1. d \in DocsOf(request[r].kb)
        BY <1>3, <2>3, <3>2 DEF DeleteDocs, Without
      <4>2. At(r, "delete_kb", "docs")
        BY <1>3, <3>2, <4>1 DEF DeleteDocs, RemovesKb, At
      <4>3. NoneLeft(d)
        BY <1>0, <1>3, <4>1, <4>2 DEF RemovalsClean, DocsOf
      <4>4. doc'[d].kb = doc[d].kb /\ points' = points
        BY <2>1, <3>2, DocKept DEF DeleteDocs, qdrant
      <4> QED BY <4>3, <4>4 DEF NoneLeft
    <3>3. ASSUME NEW e \in Docs, Insert(e) \/ Begin(e) \/ NoText(e) \/ Complete(e) \/ IngestionFails(e)
          PROVE  FALSE
      <4>1. doc \in [Docs -> Records]
        OBVIOUS
      <4>2. doc' = doc \/ \E x \in {"pending", "processing", "completed", "failed"} :
                           doc' = [doc EXCEPT ![e].status = x]
        BY <3>3 DEF Insert, Begin, NoText, Complete, IngestionFails, WithStatus
      <4>3. doc'[d].status # "gone"
        BY <2>3, <4>1, <4>2 DEF Records
      <4> QED BY <1>3, <4>3
    <3>4. ASSUME NEW r \in Requests, CopyDocs(r) PROVE FALSE
      BY <1>3, <2>1, <2>3, <3>4, CopyDocsTo
    <3>5. ASSUME NEW e \in Docs, NEW k \in Kbs, NEW c \in Contents, Upload(e, k, c) PROVE FALSE
      BY <1>3, <2>1, <2>3, <3>5 DEF Upload
    <3> QED BY <1>3, <2>3, <3>1, <3>2, <3>3, <3>4, <3>5, Footprints DEF ChangesDoc
  <2> QED BY <2>2, <2>3
<1>4. ASSUME NEW r \in Requests, At(r, "delete_document", "record")', NEW d \in request'[r].docs,
             d \notin raced'
      PROVE  NoneLeft(d)'
  <2>1. CASE Keeps(r)
    <3>1. At(r, "delete_document", "record") /\ d \in request[r].docs
      BY <1>4, <2>1 DEF Keeps, At
    <3>2. d \in Docs /\ doc[d].kb # NoKb
      BY <3>1 DEF RequestsHaveOwners, RequestRecords
    <3>3. Removing(d)
      BY <3>1 DEF Removing, At, StepsOf
    <3> QED BY <1>0, <1>1, <1>4, <3>1, <3>2, <3>3 DEF RemovalsClean
  <2>2. CASE Serves(r)
    <3>1. At(r, "delete_document", "points") /\ request'[r].docs = request[r].docs
      BY <1>4, <2>2, ServesTo, StepAfter DEF At, Ended, NoRequest, StepsOf
    <3>2. DeletePoints(r)
      BY <1>4, <2>2, <3>1 DEF Serves, DeleteChunks, DeleteRecord, DropCollection, DeleteDocs,
         DeleteKbChunks, DeleteKbRecord, Promote, CreateSnapshot, CopyDocs, CopyChunks, CopyVectors,
         HealRead, HealUpsert, HealEnds, RequestFails, RemovesKb, At, Ends, Goes, Ended, NoRequest
    <3>3. d \in Docs /\ doc[d].kb # NoKb /\ doc[d].kb = request[r].kb
      BY <1>4, <3>1 DEF RequestsHaveOwners, RequestRecords
    <3>4. doc'[d].kb = request[r].kb /\ request[r].kb \in Kbs
      BY <3>3, DocKept DEF Records, KbOrNone
    <3> QED BY <1>4, <3>1, <3>2, <3>4 DEF DeletePoints, NoneLeft
  <2>3. CASE Begun(r)
    BY <1>4, <2>3, BegunAt DEF Begun, At
  <2>4. CASE request'[r] = Ended
    BY <1>4, <2>4 DEF At, Ended, NoRequest
  <2> QED BY <2>1, <2>2, <2>3, <2>4, RequestForm
<1>5. ASSUME NEW r \in Requests, At(r, "delete_kb", "docs")', NEW d \in Docs,
             doc'[d].kb = request'[r].kb, d \notin raced'
      PROVE  NoneLeft(d)'
  <2>1. request'[r].kb \in Kbs
    BY <1>5, StepsStep DEF StepsOf, At
  <2>2. CASE Keeps(r)
    <3>1. At(r, "delete_kb", "docs") /\ request'[r].kb = request[r].kb
      BY <1>5, <2>2 DEF Keeps, At
    <3>2. CASE doc[d].kb # NoKb
      <4>1. doc[d].kb = request[r].kb
        BY <1>5, <3>1, <3>2, DocKept
      <4>2. Removing(d)
        BY <3>1, <4>1 DEF Removing, At, StepsOf
      <4> QED BY <1>0, <1>1, <1>5, <3>1, <3>2, <4>1, <4>2 DEF RemovalsClean
    <3> QED BY <1>2, <1>5, <2>1, <3>2
  <2>3. CASE Serves(r)
    <3>0. CreateSnapshot(r) => request[r].op = "snapshot"
      BY DEF CreateSnapshot, At
    <3>1. At(r, "delete_kb", "drop") /\ request'[r].kb = request[r].kb
      BY <1>5, <2>3, <3>0, ServesTo, StepAfter DEF At, Ended, NoRequest, StepsOf
    <3>2. DropCollection(r)
      BY <1>5, <2>3, <3>1 DEF Serves, DeleteChunks, DeletePoints, DeleteRecord, DeleteDocs,
         DeleteKbChunks, DeleteKbRecord, Promote, CreateSnapshot, CopyDocs, CopyChunks, CopyVectors,
         HealRead, HealUpsert, HealEnds, RequestFails, RemovesKb, At, Ends, Goes, Ended, NoRequest
    <3> QED BY <1>5, <2>1, <3>1, <3>2 DEF DropCollection, NoneLeft
  <2>4. CASE Begun(r)
    BY <1>5, <2>4, BegunAt DEF Begun, At
  <2>5. CASE request'[r] = Ended
    BY <1>5, <2>5 DEF At, Ended, NoRequest
  <2> QED BY <2>2, <2>3, <2>4, <2>5, RequestForm
<1> QED BY <1>3, <1>4, <1>5 DEF RemovalsClean

LEMMA SnapshotsStep ==
  ASSUME Types, StepsOf, TasksOwnRecords, SnapshotsOfOthers, Next
  PROVE  SnapshotsOfOthers'
<1> USE DEF Types
\* No knowledge base becomes unused.
<1>1. ASSUME NEW k \in Kbs, kb[k].state # "unused" PROVE kb'[k].state # "unused"
  <2>1. ASSUME NEW j \in Created, CreateKb(j) PROVE kb'[k].state # "unused"
    BY <1>1, <2>1 DEF CreateKb
  <2>2. ASSUME NEW r \in Requests, DeleteKbRecord(r) PROVE kb'[k].state # "unused"
    BY <1>1, <2>2 DEF DeleteKbRecord
  <2>3. ASSUME NEW r \in Requests, Promote(r) PROVE kb'[k].state # "unused"
    BY <1>1, <2>3 DEF Promote
  <2>4. ASSUME NEW r \in Requests, CreateSnapshot(r) PROVE kb'[k].state # "unused"
    BY <1>1, <2>4 DEF CreateSnapshot
  <2> QED BY <1>1, <2>1, <2>2, <2>3, <2>4, Footprints DEF ChangesKb
<1>2. ASSUME NEW s \in Kbs, kb'[s].snapshot PROVE kb'[s].parent # s
  <2>1. ASSUME NEW j \in Created, CreateKb(j) PROVE kb'[s].parent # s
    BY <1>2, <2>1 DEF CreateKb, SnapshotsOfOthers
  <2>2. ASSUME NEW r \in Requests, DeleteKbRecord(r) PROVE kb'[s].parent # s
    BY <1>2, <2>2 DEF DeleteKbRecord, SnapshotsOfOthers
  <2>3. ASSUME NEW r \in Requests, Promote(r) PROVE kb'[s].parent # s
    BY <1>2, <2>3 DEF Promote, SnapshotsOfOthers
  <2>4. ASSUME NEW r \in Requests, CreateSnapshot(r) PROVE kb'[s].parent # s
    BY <1>2, <2>4 DEF CreateSnapshot, SnapshotsOfOthers
  <2> QED BY <1>2, <2>1, <2>2, <2>3, <2>4, Footprints DEF ChangesKb, SnapshotsOfOthers
<1>3. ASSUME NEW r \in Requests, At(r, "snapshot", "create")' PROVE kb'[request'[r].kb].state # "unused"
  <2>1. CASE Keeps(r)
    <3>1. At(r, "snapshot", "create") /\ request'[r].kb = request[r].kb
      BY <1>3, <2>1 DEF Keeps, At
    <3>2. request[r].kb \in Kbs
      BY <3>1 DEF At, StepsOf
    <3> QED BY <1>1, <3>1, <3>2 DEF SnapshotsOfOthers
  <2>2. CASE Serves(r)
    <3>1. After(r) # "create"
      BY <2>2, ServesAt, StepAfter DEF At, StepsOf, RequestRecords, Ops
    <3> QED BY <1>3, <2>2, <3>1, ServesTo DEF At, Ended, NoRequest
  <2>3. CASE Begun(r)
    <3>1. PICK k \in Kbs : Snapshot(r, k)
      BY <1>3, <2>3, BegunAt DEF Begun, At
    <3>2. request'[r].kb = k /\ kb[k].state # "unused"
      BY <3>1, BegunAt DEF Snapshot, Exists
    <3> QED BY <1>1, <3>2
  <2>4. CASE request'[r] = Ended
    BY <1>3, <2>4 DEF At, Ended, NoRequest
  <2> QED BY <2>1, <2>2, <2>3, <2>4, RequestForm
<1> QED BY <1>2, <1>3 DEF SnapshotsOfOthers

\* A request that is still alone has taken the step itself, or nothing it reads
\* has changed.
LEMMA AloneForm ==
  ASSUME Types, StepsOf, TasksOwnRecords, Next, NEW q \in Requests, request'[q].alone
  PROVE  \/ UNCHANGED <<doc, chunks, qdrant, ingest, request>>
         \/ \E k \in Kbs : Snapshot(q, k)
         \/ \E k, s \in Kbs : Rollback(q, k, s)
         \/ CreateSnapshot(q) \/ CopyDocs(q) \/ CopyChunks(q) \/ CopyVectors(q)
         \/ DropCollection(q) \/ DeleteDocs(q) \/ DeleteKbChunks(q) \/ DeleteKbRecord(q) \/ Promote(q)
<1>1. CASE Keeps(q)
  BY <1>1 DEF Keeps
<1>2. CASE Begun(q)
  BY <1>2, BegunAt DEF Begun
<1>3. CASE request'[q] = Ended
  BY <1>3 DEF Ended, NoRequest
<1>4. CASE Serves(q)
  <2>1. request'[q].op = request[q].op /\ request'[q].alone = request[q].alone
    BY <1>4, ServesTo DEF Ended, NoRequest
  <2>2. request[q].op \in {"snapshot", "rollback"}
    BY <2>1 DEF StepsOf
  <2>3. ~RequestFails(q)
    BY DEF RequestFails, Ends, Goes, Ended, NoRequest, Types
  <2> QED BY <1>4, <2>2, <2>3 DEF Serves, DeleteChunks, DeletePoints, DeleteRecord, HealRead,
         HealUpsert, HealEnds, At
<1> QED BY <1>1, <1>2, <1>3, <1>4, RequestForm

LEMMA OwnStep ==
  ASSUME Types, StepsOf, TasksOwnRecords, DataHaveOwners, SnapshotsOfOthers, OwnIsServed, Next
  PROVE  OwnIsServed'
<1> USE DEF Types
<1> DEFINE View(s) == ServedBy(s, DocsOf(s))
<1> DEFINE Kept(q) == request[q].snap # request[q].kb /\ request[q].own \subseteq View(request[q].snap)
<1> SUFFICES ASSUME NEW q \in Requests, request'[q].alone, request'[q].op = "rollback"
             PROVE  Kept(q)'
  BY DEF OwnIsServed
<1>0. request'[q].snap \in Kbs /\ request'[q].kb \in Kbs
  BY StepsStep DEF StepsOf
<1> SUFFICES ASSUME NEW s \in Kbs, NEW k \in Kbs, request'[q].snap = s, request'[q].kb = k
             PROVE  s # k /\ request'[q].own \subseteq View(s)'
  BY <1>0
<1>1. CASE UNCHANGED <<doc, chunks, qdrant, ingest, request>>
  <2>1. View(s)' = View(s)
    BY <1>1 DEF ServedBy, DocsOf, Here, qdrant
  <2> QED BY <1>1, <2>1 DEF OwnIsServed
<1>2. ASSUME NEW k0 \in Kbs, NEW s0 \in Kbs, Rollback(q, k0, s0)
      PROVE  s # k /\ request'[q].own \subseteq View(s)'
  <2>1. s = s0 /\ k = k0 /\ request'[q].own = View(s)
    BY <1>2, BegunAt
  <2>2. s # k
    BY <1>2, <2>1 DEF Rollback, SnapshotsOfOthers
  <2>3. View(s)' = View(s)
    BY <1>2 DEF Rollback, ServedBy, DocsOf, Here, mongo, qdrant
  <2> QED BY <2>1, <2>2, <2>3
<1>3. CASE DropCollection(q) \/ DeleteDocs(q) \/ DeleteKbChunks(q) \/ DeleteKbRecord(q) \/ Promote(q)
  <2>1. /\ request[q].alone /\ request[q].op = "rollback"
        /\ request[q].snap = s /\ request[q].kb = k /\ request'[q].own = request[q].own
    <3>1. Serves(q) /\ ~CopyDocs(q) /\ ~CreateSnapshot(q) /\ ~HealRead(q) /\ ~HealUpsert(q)
      BY <1>3 DEF Serves, DropCollection, DeleteDocs, DeleteKbChunks, DeleteKbRecord, Promote,
          CopyDocs, CreateSnapshot, HealRead, HealUpsert, RemovesKb, At
    <3> QED BY <3>1, ServesTo DEF Ended, NoRequest
  <2>2. s # k /\ s \in Kbs /\ k \in Kbs /\ request[q].own \subseteq View(s)
    BY <2>1 DEF OwnIsServed, StepsOf
  <2>3. DocsOf(s)' = DocsOf(s) /\ \A d \in DocsOf(s) : doc'[d] = doc[d] /\ Here(d)'
    <3>1. CASE DeleteDocs(q)
      BY <2>1, <2>2, <3>1 DEF DeleteDocs, Without, DocsOf, Here, Records
    <3>2. CASE DropCollection(q) \/ DeleteKbChunks(q) \/ DeleteKbRecord(q) \/ Promote(q)
      <4>1. doc' = doc
        BY <3>2 DEF DropCollection, DeleteKbChunks, DeleteKbRecord, Promote, mongo
      <4> QED BY <4>1 DEF DocsOf, Here
    <3> QED BY <1>3, <3>1, <3>2
  <2>4. points'[s] = points[s]
    <3>1. CASE DropCollection(q)
      BY <2>1, <2>2, <3>1 DEF DropCollection
    <3>2. CASE DeleteDocs(q) \/ DeleteKbChunks(q) \/ DeleteKbRecord(q) \/ Promote(q)
      BY <3>2 DEF DeleteDocs, DeleteKbChunks, DeleteKbRecord, Promote, qdrant
    <3> QED BY <1>3, <3>1, <3>2
  <2>5. \A c \in chunks : c.doc \in DocsOf(s) => c \in chunks'
    <3>1. CASE DeleteKbChunks(q)
      BY <2>1, <2>2, <3>1 DEF DeleteKbChunks, DataHaveOwners, DocsOf
    <3>2. CASE DropCollection(q) \/ DeleteDocs(q) \/ DeleteKbRecord(q) \/ Promote(q)
      BY <3>2 DEF DropCollection, DeleteDocs, DeleteKbRecord, Promote, mongo
    <3> QED BY <1>3, <3>1, <3>2
  <2>6. View(s) \subseteq View(s)'
    <3> SUFFICES ASSUME NEW p \in points[s], p.doc \in DocsOf(s), Here(p.doc),
                        NEW c \in chunks, c.doc = p.doc, c.index = p.index
                 PROVE  <<doc[p.doc].content, p.index>> \in View(s)'
      BY DEF ServedBy
    <3>1. c \in chunks' /\ p \in points'[s] /\ p.doc \in DocsOf(s)' /\ Here(p.doc)' /\ doc'[p.doc] = doc[p.doc]
      BY <2>3, <2>4, <2>5
    <3> QED BY <3>1 DEF ServedBy
  <2> QED BY <2>1, <2>2, <2>6
<1>4. CASE CreateSnapshot(q) \/ CopyDocs(q) \/ CopyChunks(q) \/ CopyVectors(q)
  <2>1. request[q].op = "snapshot" /\ Serves(q)
    BY <1>4 DEF CreateSnapshot, CopyDocs, CopyChunks, CopyVectors, At, Serves
  <2> QED BY <2>1, ServesTo DEF Ended, NoRequest
<1>5. ASSUME NEW j \in Kbs, Snapshot(q, j) PROVE FALSE
  BY <1>5, BegunAt
<1> QED BY <1>1, <1>2, <1>3, <1>4, <1>5, AloneForm

LEMMA CopiesStep ==
  ASSUME Types, StepsOf, TasksOwnRecords, DataHaveOwners, RequestsHaveOwners, CopiesSoFar, Next
  PROVE  CopiesSoFar'
<1> USE DEF Types
<1> DEFINE DocsCopied(q) ==
             /\ DOMAIN request[q].copyOf \subseteq Originals(q)
             /\ \A d \in DOMAIN request[q].copyOf :
                  LET e == request[q].copyOf[d]
                  IN Here(e) /\ doc[e].content = doc[d].content
           ChunksCopied(q) ==
             Cardinality(OwnChunks(request[q].kb)) <= ReadLimit =>
               \A c \in OwnChunks(request[q].kb) :
                 /\ c.doc \in DOMAIN request[q].copyOf
                 /\ \E x \in chunks : x.doc = request[q].copyOf[c.doc] /\ x.index = c.index
<1> SUFFICES ASSUME NEW q \in Requests, request'[q].alone,
                    (At(q, "snapshot", "chunks") \/ At(q, "snapshot", "vectors"))'
             PROVE  DocsCopied(q)' /\ (At(q, "snapshot", "vectors")' => ChunksCopied(q)')
  BY DEF CopiesSoFar
<1>1. CASE UNCHANGED <<doc, chunks, qdrant, ingest, request>>
  BY <1>1 DEF CopiesSoFar, Originals, OwnDocs, OwnChunks, DocsOf, Here, At
<1>2. CASE \/ \E k \in Kbs : Snapshot(q, k)
           \/ \E k, s \in Kbs : Rollback(q, k, s)
  BY <1>2, BegunAt DEF At
<1>3. CASE \/ DropCollection(q) \/ DeleteDocs(q) \/ DeleteKbChunks(q) \/ DeleteKbRecord(q) \/ Promote(q)
           \/ CreateSnapshot(q) \/ CopyVectors(q)
  <2>1. Serves(q)
    BY <1>3 DEF Serves
  <2>2. CASE CreateSnapshot(q)
    <3>1. At(q, "snapshot", "create") /\ ~CopyDocs(q) /\ ~HealRead(q) /\ ~HealUpsert(q)
      BY <2>2 DEF CreateSnapshot, CopyDocs, HealRead, HealUpsert, At
    <3> QED BY <2>1, <3>1, ServesTo DEF At, Ended, NoRequest
  <2>3. CASE CopyVectors(q)
    <3>1. At(q, "snapshot", "vectors") /\ Continues(q) /\ Running(q)
      BY <2>1, <2>3, ServesAt DEF CopyVectors
    <3> QED BY <3>1, ContinuesTo, StepAfter DEF Ended, NoRequest
  <2>4. CASE DropCollection(q) \/ DeleteDocs(q) \/ DeleteKbChunks(q) \/ DeleteKbRecord(q) \/ Promote(q)
    <3>1. request[q].op # "snapshot"
      BY <2>4 DEF DropCollection, DeleteDocs, DeleteKbChunks, DeleteKbRecord, Promote, RemovesKb, At
    <3> QED BY <2>1, <3>1, ServesTo DEF At, Ended, NoRequest
  <2> QED BY <1>3, <2>2, <2>3, <2>4
<1>4. CASE CopyDocs(q)
  <2>1. Serves(q) /\ ~CreateSnapshot(q) /\ ~HealRead(q) /\ ~HealUpsert(q)
    BY <1>4 DEF Serves, CopyDocs, CreateSnapshot, HealRead, HealUpsert, At
  <2>2. request'[q].step = "chunks" /\ request'[q].kb = request[q].kb /\ request[q].kb \in Kbs
    BY <1>4, <2>1, ServesTo, ServesAt DEF Ended, NoRequest, StepsOf
  <2> DEFINE copyOf == request'[q].copyOf
  <2>3. /\ DOMAIN copyOf \subseteq Originals(q)
        /\ copyOf \in [DOMAIN copyOf -> {e \in Docs : doc[e].kb = NoKb}]
        /\ \A e \in Docs :
             IF \E d \in DOMAIN copyOf : copyOf[d] = e
             THEN doc'[e].kb = request[q].snap /\ doc'[e].snapshot
             ELSE doc'[e] = doc[e]
        /\ \A d \in DOMAIN copyOf :
             doc'[copyOf[d]].status = doc[d].status /\ doc'[copyOf[d]].content = doc[d].content
    BY <1>4, CopyDocsTo
  <2>4. \A d \in Originals(q) : d \in Docs /\ Here(d) /\ doc[d].kb = request[q].kb /\ ~doc[d].snapshot
    BY DEF Originals, OwnDocs, DocsOf
  <2>5. ASSUME NEW d \in Originals(q) PROVE doc'[d] = doc[d]
    <3>1. d \in Docs /\ doc[d].kb # NoKb
      BY <2>2, <2>4, KbsAssumption
    <3>2. ~\E f \in DOMAIN copyOf : copyOf[f] = d
      BY <2>3, <3>1
    <3> QED BY <2>3, <3>1, <3>2
  <2>6. Originals(q)' = Originals(q)
    <3>1. ASSUME NEW d \in Originals(q) PROVE d \in Originals(q)'
      BY <2>2, <2>4, <2>5 DEF Originals, OwnDocs, DocsOf, Here
    <3>2. ASSUME NEW d \in Originals(q)' PROVE d \in Originals(q)
      <4>1. d \in Docs /\ Here(d)' /\ doc'[d].kb = request[q].kb /\ ~doc'[d].snapshot
        BY <2>2, <3>2 DEF Originals, OwnDocs, DocsOf
      <4>2. doc'[d] = doc[d]
        BY <2>3, <4>1
      <4> QED BY <4>1, <4>2 DEF Originals, OwnDocs, DocsOf, Here
    <3> QED BY <3>1, <3>2
  <2>7. ASSUME NEW d \in DOMAIN copyOf
        PROVE  /\ doc'[copyOf[d]].status \notin {"unused", "gone"}
               /\ doc'[copyOf[d]].content = doc'[d].content
    <3>1. Here(d) /\ doc'[d] = doc[d]
      BY <2>3, <2>4, <2>5
    <3>2. doc'[copyOf[d]].status = doc[d].status /\ doc'[copyOf[d]].content = doc[d].content
      BY <2>3
    <3> HIDE DEF copyOf
    <3> QED BY <3>1, <3>2 DEF Here
  <2>8. DocsCopied(q)'
    <3>1. DOMAIN copyOf \subseteq Originals(q)'
      BY <2>3, <2>6
    <3> QED BY <2>7, <3>1 DEF Here
  <2> QED BY <2>2, <2>8 DEF At
<1>5. CASE CopyChunks(q)
  <2> DEFINE own == OwnChunks(request[q].kb)
             CopyChunk(c) == [c EXCEPT !.doc = CopyId(q, c.doc), !.kb = request[q].snap,
                                       !.snapshot = TRUE]
  <2>1. At(q, "snapshot", "chunks") /\ Serves(q) /\ Running(q)
    BY <1>5, ServesAt DEF CopyChunks, Serves
  <2>2. request'[q] # Ended
    BY DEF Ended, NoRequest
  <2>3. PICK part \in SUBSET {c \in own : c.doc \in DOMAIN request[q].copyOf} :
          /\ chunks' = chunks \union {CopyChunk(c) : c \in part}
          /\ Continues(q) /\ (Cardinality(own) <= ReadLimit => part = own)
    BY <1>5, <2>2, CopyChunksTo DEF Ends, Goes
  <2>4. request'[q] = [request[q] EXCEPT !.step = "vectors"]
    BY <2>1, <2>3, <2>2, ContinuesTo, StepAfter
  <2>5. /\ request[q].alone /\ request'[q].kb = request[q].kb
        /\ request'[q].copyOf = request[q].copyOf /\ doc' = doc
    <3>1. request[q] \in RequestRecords
      OBVIOUS
    <3>2. doc' = doc
      BY <1>5 DEF CopyChunks
    <3> QED BY <2>4, <3>1, <3>2 DEF RequestRecords
  <2>6. Originals(q)' = Originals(q)
    BY <2>5 DEF Originals, OwnDocs, DocsOf, Here
  <2>7. DocsCopied(q)
    BY <2>1, <2>5 DEF CopiesSoFar
  <2>8. DocsCopied(q)'
    BY <2>5, <2>6, <2>7 DEF Here
  <2>9. \A c \in part : CopyChunk(c).snapshot /\ CopyChunk(c).doc = request[q].copyOf[c.doc]
                       /\ CopyChunk(c).index = c.index
    BY DEF CopyId, ChunkRecords, OwnChunks
  <2>10. OwnChunks(request[q].kb)' = own
    <3> HIDE DEF CopyChunk
    <3>1. \A c \in chunks' \ chunks : c.snapshot
      BY <2>3, <2>9
    <3>2. \A c \in chunks' : c.kb = request[q].kb /\ ~c.snapshot => c \in chunks
      BY <3>1
    <3> QED BY <2>3, <2>5, <3>2 DEF OwnChunks
  <2>11. ChunksCopied(q)'
    <3> SUFFICES ASSUME Cardinality(own) <= ReadLimit, NEW c \in own
                 PROVE  /\ c.doc \in DOMAIN request[q].copyOf
                        /\ \E x \in chunks' : x.doc = request[q].copyOf[c.doc] /\ x.index = c.index
      BY <2>5, <2>10
    <3>1. c \in part
      BY <2>3
    <3> HIDE DEF CopyChunk, own
    <3>2. CopyChunk(c) \in chunks'
      BY <2>3, <3>1
    <3> QED BY <2>3, <2>9, <3>1, <3>2
  <2> QED BY <2>8, <2>11
<1> QED BY <1>1, <1>2, <1>3, <1>4, <1>5, AloneForm

-----------------------------------------------------------------------------
LEMMA InitInvariant == Init => IInv
<1> SUFFICES ASSUME Init PROVE IInv
  OBVIOUS
<1>1. Types
  BY TypesInit
<1>2. \A r \in Requests : /\ request[r].op = "none" /\ request[r].step = "none" /\ ~request[r].alone
                          /\ request[r].docs = {} /\ request[r].todo = {}
  BY DEF Init, NoRequest
<1>3. StepsOf
  BY <1>2 DEF StepsOf, Running
<1>4. TasksOwnRecords
  BY DEF Init, TasksOwnRecords
<1>5. DataHaveOwners /\ TasksIndex /\ SnapshotsOfOthers
  BY <1>2 DEF Init, DataHaveOwners, TasksIndex, SnapshotsOfOthers, At
<1>6. RequestsHaveOwners /\ CopiesSoFar /\ OwnIsServed
  BY <1>2 DEF RequestsHaveOwners, CopiesSoFar, OwnIsServed, At
<1>7. RemovalsClean
  BY <1>2 DEF Init, RemovalsClean, At
<1> QED BY <1>1, <1>3, <1>4, <1>5, <1>6, <1>7 DEF IInv

LEMMA StepInvariant == IInv /\ [Next]_vars => IInv'
<1>1. ASSUME IInv, Next PROVE IInv'
  BY <1>1, TypesStep, StepsStep, TasksOwnStep, DataOwnersStep, RequestsOwnersStep, TasksIndexStep,
     RemovalsStep, SnapshotsStep, CopiesStep, OwnStep DEF IInv
<1>2. ASSUME IInv, UNCHANGED vars PROVE IInv'
  <2> USE <1>2 DEF vars, mongo, qdrant, history
  <2>1. (Types /\ StepsOf)'
    BY DEF IInv, Types, StepsOf, Running
  <2>2. (TasksOwnRecords /\ DataHaveOwners /\ RequestsHaveOwners)'
    BY DEF IInv, TasksOwnRecords, DataHaveOwners, RequestsHaveOwners, At
  <2>3. (TasksIndex /\ RemovalsClean /\ SnapshotsOfOthers)'
    BY DEF IInv, TasksIndex, RemovalsClean, SnapshotsOfOthers, At, NoneLeft, ChunkRecorded, PointStored
  <2>4. (CopiesSoFar /\ OwnIsServed)'
    BY DEF IInv, CopiesSoFar, OwnIsServed, At, Originals, OwnDocs, OwnChunks, DocsOf, Here, ServedBy
  <2> QED BY <2>1, <2>2, <2>3, <2>4 DEF IInv
<1> QED BY <1>1, <1>2

\* Wherever operations interleave, fail or crash, documents, chunks, points and
\* requests stay in step as the parts of IInv say.
THEOREM KnowledgeBaseInvariant == Spec => []IInv
BY InitInvariant, StepInvariant, PTL DEF Spec

\* A document marked completed has every chunk and every point until a removal
\* takes them (_index_parsed_chunks).
THEOREM CompletedDocumentsAreSearchable == Spec => []CompletedIsSearchable
<1>1. IInv => CompletedIsSearchable
  BY DEF IInv, TasksIndex, CompletedIsSearchable, ChunkRecorded, PointStored
<1> QED BY <1>1, KnowledgeBaseInvariant, PTL

\* No removal leaves vectors behind without the record by which it could be
\* retried (delete_document, delete_kb).
THEOREM RemovalsLeaveNoVectors == Spec => []NoOrphanedVectors
<1>1. IInv => NoOrphanedVectors
  BY DEF IInv, RemovalsClean, NoneLeft, NoOrphanedVectors
<1> QED BY <1>1, KnowledgeBaseInvariant, PTL

\* Whatever call fails, an upload's task that comes to its end leaves no document
\* pending or processing (index_parsed_chunks).
THEOREM UploadsSettle == Spec => []UploadsAreSettled
<1>1. IInv => UploadsAreSettled
  BY DEF IInv, TasksOwnRecords, UploadsAreSettled
<1> QED BY <1>1, KnowledgeBaseInvariant, PTL

\* A rollback that nothing disturbed loses nothing that the documents of the
\* snapshot itself served (rollback_kb_to_snapshot).
THEOREM RollbacksKeepTheirOwn == Spec => RollbackKeepsOwn
<1>1. IInv => \A r \in Requests : At(r, "rollback", "promote") /\ request[r].alone =>
                                    request[r].own \subseteq Served(request[r].snap)
  BY DEF IInv, OwnIsServed, At, Served, ServedBy, DocsOf
<1> QED BY <1>1, KnowledgeBaseInvariant, PTL DEF RollbackKeepsOwn

\* The step that ends a snapshot nothing disturbed.
LEMMA SnapshotEnds ==
  ASSUME IInv, Next, NEW r \in Requests, NEW s \in Kbs,
         At(r, "snapshot", "vectors"), request[r].alone, request[r].snap = s,
         request'[r] = Ended, faults' = 0, Cardinality(OwnChunks(request[r].kb)) <= ReadLimit
  PROVE  ServedBy(request[r].kb, Originals(r)) \subseteq Served(s)'
<1> USE DEF IInv, Types
<1>1. CopyVectors(r) /\ UNCHANGED mongo
  <2>1. faults \in Nat /\ Running(r)
    BY DEF StepsOf, At
  <2>2. ~Crash /\ ~RequestFails(r)
    BY <2>1 DEF Crash, RequestFails, Fault
  <2>3. ~Keeps(r)
    BY DEF Keeps, Ended, NoRequest, At
  <2>4. ~Begun(r)
    BY BegunAt DEF Begun, Ended, NoRequest
  <2>5. Serves(r)
    BY <2>2, <2>3, <2>4, RequestForm
  <2>6. CopyVectors(r) => UNCHANGED mongo
    BY DEF CopyVectors
  <2> QED BY <2>2, <2>5, <2>6 DEF Serves, DeleteChunks, DeletePoints, DeleteRecord, DropCollection,
       DeleteDocs, DeleteKbChunks, DeleteKbRecord, Promote, CreateSnapshot, CopyDocs, CopyChunks,
       CopyVectors, HealRead, HealUpsert, HealEnds, RemovesKb, At
<1> DEFINE k == request[r].kb
<1>2. k \in Kbs
  BY DEF StepsOf, At
<1>3. CASE k \notin collections
  BY <1>2, <1>3 DEF DataHaveOwners, ServedBy
<1>4. CASE k \in collections
  <2> DEFINE copies == {[p EXCEPT !.doc = CopyId(r, p.doc)] : p \in points[k]}
  <2>1. points'[s] = points[s] \union copies
    BY <1>1, <1>4 DEF CopyVectors, Fault
  <2>2. doc' = doc /\ chunks' = chunks
    BY <1>1 DEF mongo
  <2> SUFFICES ASSUME NEW p \in points[k], p.doc \in Originals(r), Here(p.doc),
                      NEW c \in chunks, c.doc = p.doc, c.index = p.index
               PROVE  <<doc[p.doc].content, p.index>> \in Served(s)'
    BY DEF ServedBy
  <2> DEFINE e == request[r].copyOf[p.doc]
  <2>3. c \in OwnChunks(k)
    BY DEF DataHaveOwners, Originals, OwnDocs, OwnChunks, DocsOf
  <2>4. /\ p.doc \in DOMAIN request[r].copyOf /\ CopyId(r, p.doc) = e
        /\ Here(e) /\ doc[e].content = doc[p.doc].content
    BY <2>3 DEF CopiesSoFar, CopyId
  <2>5. PICK q \in copies : q.doc = e /\ q.index = p.index
    <3>1. p \in PointRecords
      BY <1>2
    <3>2. [p EXCEPT !.doc = CopyId(r, p.doc)].doc = e /\ [p EXCEPT !.doc = CopyId(r, p.doc)].index = p.index
      BY <2>4, <3>1 DEF PointRecords
    <3> HIDE DEF e
    <3> QED BY <3>2
  <2>7. PICK x \in chunks : x.doc = e /\ x.index = p.index
    BY <2>3 DEF CopiesSoFar
  <2>8. e \in Docs
    BY <2>4 DEF RequestRecords, PartialCopies
  <2> HIDE DEF copies, e
  <2>9. q \in points'[s] /\ Here(q.doc)' /\ doc'[q.doc].content = doc[p.doc].content
    BY <2>1, <2>2, <2>4, <2>5 DEF Here
  <2> QED BY <2>2, <2>5, <2>7, <2>8, <2>9 DEF Served, ServedBy
<1> QED BY <1>3, <1>4

\* A snapshot made while nothing else went on serves what the knowledge base's
\* own documents serve, if one read returns all its chunks (create_kb_snapshot,
\* _copy_kb_vectors).
THEOREM SnapshotsAreComplete == Spec => SnapshotIsComplete
<1> DEFINE Complete1 ==
      \A r \in Requests, s \in Kbs :
        LET k == request[r].kb
        IN Reports(r, s) /\ Cardinality(OwnChunks(k)) <= ReadLimit
           => ServedBy(k, OwnDocs(k)) \subseteq Served(s)'
<1>1. IInv /\ [Next]_vars => [Complete1]_vars
  BY SnapshotEnds DEF Originals, Reports
<1> QED BY <1>1, KnowledgeBaseInvariant, PTL DEF SnapshotIsComplete, Spec
=============================================================================
