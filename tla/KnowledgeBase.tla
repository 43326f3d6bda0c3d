--------------------------- MODULE KnowledgeBase ---------------------------
(***************************************************************************)
(* Knowledge bases and their documents (services/kb_service.py), the       *)
(* ingestion that makes documents searchable (ingestion/pipeline.py), and  *)
(* the re-indexing an analysis starts when it finds an empty collection    *)
(* (agent/graph.py, retrieval_node).                                       *)
(*                                                                         *)
(* A document lives in three places that no transaction spans: its record  *)
(* and its chunks in MongoDB, and its points in the Qdrant collection of   *)
(* its knowledge base.  Every operation awaits each of its calls, so       *)
(* operations interleave between any two of them, and a crash may end them *)
(* there.  An operation here is a request with a step counter.             *)
(*                                                                         *)
(* Abstractions.  Batches hold one chunk.  A snapshot reads and copies one *)
(* kind of data in one step.  The embedding pin, page images and the       *)
(* answer cache (module SemanticCache) are left out; ownership is taken to *)
(* hold.                                                                   *)
(***************************************************************************)
EXTENDS Integers, Sequences, FiniteSetsExt, Functions

CONSTANTS Kbs,          \* identities of knowledge bases
          Created,      \* those that users create; snapshots take any
          NoKb,         \* no parent
          Docs,         \* identities of document records
          Contents, NoContent, \* what uploads contain, up to their hash
          Size,         \* chunks of a document of each content
          Requests,     \* requests that may be made, each once
          ReadLimit,    \* records that one read returns at most: to_list(10000)
          MaxFaults     \* bound on failing calls and restarts of the server

ASSUME KbsAssumption == IsFiniteSet(Kbs) /\ Kbs # {} /\ NoKb \notin Kbs /\ Created \subseteq Kbs
ASSUME SizeAssumption == Size \in [Contents -> Nat]
ASSUME BoundsAssumption == MaxFaults \in Nat /\ ReadLimit \in Nat \ {0}

VARIABLES
    kb,          \* knowledge_bases: existing ones, with their snapshot fields
    doc,         \* documents: existing records
    chunks,      \* document_chunks
    collections, \* Qdrant collections that exist
    points,      \* the points of each collection
    ingest,      \* the upload and ingestion task of each document
    request,     \* how far each other request is
    faults,      \* failing calls and restarts so far, for the bound
    condemned,   \* history: documents that lost data to a removal
    raced        \* history: documents written to during or after their removal,
                 \* or whose records a rollback removed before their vectors

mongo == <<kb, doc, chunks>>
qdrant == <<collections, points>>
history == <<condemned, raced>>
vars == <<mongo, qdrant, ingest, request, faults, history>>

Statuses == {"unused", "pending", "processing", "completed", "failed", "gone"}

Exists(k) == kb[k].state = "here"
Here(d) == doc[d].status \notin {"unused", "gone"}
DocsOf(k) == {d \in Docs : Here(d) /\ doc[d].kb = k}
ChunksOf(d) == {c \in chunks : c.doc = d}

\* A knowledge base's own documents and chunks, which a snapshot copies: not
\* those that came with a snapshot.
OwnDocs(k) == {d \in DocsOf(k) : ~doc[d].snapshot}
OwnChunks(k) == {c \in chunks : c.kb = k /\ ~c.snapshot}

\* What a read of these records may return: beyond the limit, and without an
\* order, any of them, and nothing tells the reader.
Reads(S) == IF Cardinality(S) <= ReadLimit THEN {S} ELSE kSubset(ReadLimit, S)

WithStatus(d, status) == IF Here(d) THEN [doc EXCEPT ![d].status = status] ELSE doc
Without(ds) == [d \in Docs |-> IF d \in ds THEN [doc[d] EXCEPT !.status = "gone"] ELSE doc[d]]

\* What retrieval serves from a knowledge base: points whose document has a
\* record (apply_temporal_filtering) and whose chunk is in MongoDB
\* (audit_evidence_integrity), which looks for it in any knowledge base.
ServedBy(k, ds) ==
    {<<doc[p.doc].content, p.index>> : p \in {q \in points[k] :
        /\ q.doc \in ds
        /\ Here(q.doc)
        /\ \E c \in chunks : c.doc = q.doc /\ c.index = q.index}}
Served(k) == ServedBy(k, Docs)

\* What a request is about: documents to remove, a snapshot and its documents,
\* chunks still to be indexed, and for a property what the snapshot served.
NoRequest == [op |-> "none", step |-> "none", kb |-> NoKb, alone |-> FALSE,
              docs |-> {}, snap |-> NoKb, copyOf |-> <<>>, todo |-> {}, own |-> {}]
Ended == [NoRequest EXCEPT !.step = "done"]
Running(r) == request[r].step \notin {"none", "done"}
Indexing(d) == ingest[d].step \in {"started", "recorded", "open", "stamping"}
Uploading(d) == Indexing(d) \/ ingest[d].step \in {"checked", "queued"}
Idle == (\A r \in Requests : ~Running(r)) /\ (\A d \in Docs : ~Uploading(d))

DeleteDocumentOrder == <<"chunks", "points", "record", "done">>

\* Mutant: delete_kb removes the records before the vectors.
DeleteKbMongoFirst == <<"docs", "chunks", "drop", "record", "done">>
DeleteKbOrder == <<"drop", "docs", "chunks", "record", "done">>

RollbackOrder == <<"docs", "chunks", "drop", "record", "promote", "done">>
SnapshotOrder == <<"create", "docs", "chunks", "vectors", "done">>
HealOrder == <<"read", "upsert", "done">>

\* The order in which each operation takes its steps.
Order == [delete_document |-> DeleteDocumentOrder, delete_kb |-> DeleteKbOrder,
          rollback |-> RollbackOrder, snapshot |-> SnapshotOrder, heal |-> HealOrder]

After(r) ==
    LET steps == Order[request[r].op]
    IN steps[1 + CHOOSE i \in DOMAIN steps : steps[i] = request[r].step]

At(r, op, step) == request[r].op = op /\ request[r].step = step

\* A step of a task disturbs every request that is running.
Disturb == request' = [r \in Requests |-> [request[r] EXCEPT !.alone = FALSE]]

\* Request r goes on as this; the others have been disturbed.
Goes(r, as) ==
    request' = [q \in Requests |-> IF q = r THEN as ELSE [request[q] EXCEPT !.alone = FALSE]]
Begins(r, op, as) ==
    /\ request[r].step = "none"
    /\ Goes(r, [as EXCEPT !.op = op, !.step = Order[op][1],
                          !.alone = Idle /\ op \in {"snapshot", "rollback"}])
Ends(r) == Goes(r, Ended)
Continues(r) ==
    IF After(r) = "done" THEN Ends(r) ELSE Goes(r, [request[r] EXCEPT !.step = After(r)])

\* A call of MongoDB or Qdrant fails, or the server is restarted.
Fault == faults < MaxFaults /\ faults' = faults + 1

\* The removal of a document is under way or done.
Removing(d) ==
    \/ ~Here(d)
    \/ \E r \in Requests :
        /\ Running(r)
        /\ \/ request[r].op = "delete_document" /\ d \in request[r].docs
           \/ request[r].op \in {"delete_kb", "rollback"} /\ request[r].kb = doc[d].kb
Wrote(ds) == raced' = raced \union {d \in ds : Removing(d)}
Lost(ds) == condemned' = condemned \union ds
Anywhere(k) == {d \in Docs : doc[d].kb = k}

----------------------------------------------------------------------------
Init ==
    /\ kb = [k \in Kbs |-> [state |-> "unused", snapshot |-> FALSE, parent |-> NoKb]]
    /\ doc = [d \in Docs |-> [status |-> "unused", kb |-> NoKb,
                              content |-> NoContent, snapshot |-> FALSE]]
    /\ chunks = {} /\ collections = {} /\ points = [k \in Kbs |-> {}]
    /\ ingest = [d \in Docs |-> [step |-> "none", next |-> 1]]
    /\ request = [r \in Requests |-> NoRequest]
    /\ faults = 0
    /\ condemned = {} /\ raced = {}

CreateKb(k) ==
    /\ kb[k].state = "unused"
    /\ kb' = [kb EXCEPT ![k].state = "here"]
    /\ UNCHANGED <<doc, chunks, qdrant, ingest, request, faults, history>>

----------------------------------------------------------------------------
(* Upload and ingestion (_ingest_content, index_parsed_chunks).            *)

Enters(d, step) == ingest' = [ingest EXCEPT ![d].step = step]

\* add_document has found the knowledge base.
Upload(d, k, c) ==
    /\ doc[d].kb = NoKb
    /\ Exists(k)
    /\ doc' = [doc EXCEPT ![d] = [@ EXCEPT !.kb = k, !.content = c]]
    /\ Enters(d, "checked") /\ Disturb
    /\ UNCHANGED <<kb, chunks, qdrant, faults, history>>

\* Its record is inserted, unless the unique index on content refuses it.
Insert(d) ==
    /\ ingest[d].step = "checked"
    /\ IF \E e \in DocsOf(doc[d].kb) : doc[e].content = doc[d].content
       THEN Enters(d, "ended") /\ UNCHANGED doc
       ELSE Enters(d, "queued") /\ doc' = [doc EXCEPT ![d].status = "pending"]
    /\ Disturb
    /\ UNCHANGED <<kb, chunks, qdrant, faults, history>>

\* The semaphore of ingestion admits one task.
Begin(d) ==
    /\ ingest[d].step = "queued"
    /\ \A e \in Docs : ~Indexing(e)
    /\ Enters(d, "started")
    /\ doc' = WithStatus(d, "processing")
    /\ Disturb
    /\ UNCHANGED <<kb, chunks, qdrant, faults, history>>

\* A document without text is complete at once.
NoText(d) ==
    /\ ingest[d].step = "started"
    /\ Size[doc[d].content] = 0
    /\ Enters(d, "ended")
    /\ doc' = WithStatus(d, "completed")
    /\ Disturb
    /\ UNCHANGED <<kb, chunks, qdrant, faults, history>>

RecordChunks(d) ==
    /\ ingest[d].step = "started"
    /\ Size[doc[d].content] > 0
    /\ chunks' = (chunks \ ChunksOf(d)) \union
            {[doc |-> d, kb |-> doc[d].kb, index |-> i, snapshot |-> FALSE] :
                i \in 1 .. Size[doc[d].content]}
    /\ Enters(d, "recorded") /\ Disturb /\ Wrote({d})
    /\ UNCHANGED <<kb, doc, qdrant, faults, condemned>>

OpenCollection(d) ==
    /\ ingest[d].step = "recorded"
    /\ collections' = collections \union {doc[d].kb}
    /\ Enters(d, "open") /\ Disturb
    /\ UNCHANGED <<mongo, points, faults, history>>

\* One batch, into a collection that may have been dropped meanwhile.
UpsertBatch(d) ==
    LET k == doc[d].kb
    IN /\ ingest[d].step = "open"
       /\ ingest[d].next <= Size[doc[d].content]
       /\ k \in collections
       /\ points' = [points EXCEPT ![k] = @ \union {[doc |-> d, index |-> ingest[d].next]}]
       /\ ingest' = [ingest EXCEPT ![d].next = @ + 1]
       /\ Disturb /\ Wrote({d})
       /\ UNCHANGED <<mongo, collections, faults, condemned>>

\* Mutant: the last batch is left out.
CompleteEarly(d) ==
    /\ ingest[d].step = "open"
    /\ ingest[d].next >= Size[doc[d].content]
    /\ doc' = WithStatus(d, "completed")
    /\ Enters(d, "stamping") /\ Disturb
    /\ UNCHANGED <<kb, chunks, qdrant, faults, history>>

Complete(d) ==
    /\ ingest[d].step = "open"
    /\ ingest[d].next > Size[doc[d].content]
    /\ doc' = WithStatus(d, "completed")
    /\ Enters(d, "stamping") /\ Disturb
    /\ UNCHANGED <<kb, chunks, qdrant, faults, history>>

\* The dimension is stamped on the knowledge base, still within the try block.
Stamp(d) ==
    /\ ingest[d].step = "stamping"
    /\ Enters(d, "ended") /\ Disturb
    /\ UNCHANGED <<mongo, qdrant, faults, history>>

\* Mutant: a vanished collection ends the task without marking the document.
IngestionFailsSilently(d) ==
    /\ Indexing(d)
    /\ \/ Fault /\ doc' = WithStatus(d, "failed") /\ Enters(d, "ended")
       \/ Fault /\ UNCHANGED doc /\ Enters(d, "lost")
       \/ /\ ingest[d].step = "open" /\ doc[d].kb \notin collections
          /\ Enters(d, "ended")
          /\ UNCHANGED <<doc, faults>>
    /\ Disturb
    /\ UNCHANGED <<kb, chunks, qdrant, history>>

\* Any call of the task raises: the document is marked failed, unless MongoDB
\* is away for that write too.
IngestionFails(d) ==
    /\ Indexing(d)
    /\ \/ Fault /\ doc' = WithStatus(d, "failed") /\ Enters(d, "ended")
       \/ Fault /\ UNCHANGED doc /\ Enters(d, "lost")
       \/ /\ ingest[d].step = "open" /\ doc[d].kb \notin collections
          /\ doc' = WithStatus(d, "failed") /\ Enters(d, "ended")
          /\ UNCHANGED faults
    /\ Disturb
    /\ UNCHANGED <<kb, chunks, qdrant, history>>

Task(d) ==
    \/ Insert(d) \/ Begin(d) \/ NoText(d) \/ RecordChunks(d) \/ OpenCollection(d)
    \/ UpsertBatch(d) \/ Complete(d) \/ Stamp(d)
    \/ IngestionFails(d)

----------------------------------------------------------------------------
(* Removing documents and knowledge bases (delete_document, delete_kb,     *)
(* rollback_kb_to_snapshot).  The three share steps but not their order.   *)

DeleteDocument(r, d) ==
    /\ Here(d) /\ Exists(doc[d].kb)
    /\ Begins(r, "delete_document", [NoRequest EXCEPT !.kb = doc[d].kb, !.docs = {d}])
    /\ UNCHANGED <<mongo, qdrant, ingest, faults, history>>

DeleteKb(r, k) ==
    /\ Exists(k)
    /\ Begins(r, "delete_kb", [NoRequest EXCEPT !.kb = k])
    /\ UNCHANGED <<mongo, qdrant, ingest, faults, history>>

\* A snapshot without points is refused if it has chunks; when its points
\* cannot be counted the rollback goes ahead.
Rollback(r, k, s) ==
    /\ Exists(k) /\ Exists(s)
    /\ kb[s].snapshot /\ kb[s].parent = k
    /\ \/ UNCHANGED faults
          /\ (s \in collections /\ points[s] = {} => \A c \in chunks : c.kb # s)
       \/ Fault
    /\ Begins(r, "rollback", [NoRequest EXCEPT !.kb = k, !.snap = s,
                                             !.own = ServedBy(s, DocsOf(s))])
    /\ UNCHANGED <<mongo, qdrant, ingest, history>>

DeleteChunks(r) ==
    /\ At(r, "delete_document", "chunks")
    /\ chunks' = {c \in chunks : c.doc \notin request[r].docs}
    /\ Continues(r) /\ Lost(request[r].docs)
    /\ UNCHANGED <<kb, doc, qdrant, ingest, faults, raced>>

DeletePoints(r) ==
    /\ At(r, "delete_document", "points")
    /\ points' = [points EXCEPT ![request[r].kb] = {p \in @ : p.doc \notin request[r].docs}]
    /\ Continues(r) /\ Lost(request[r].docs)
    /\ UNCHANGED <<mongo, collections, ingest, faults, raced>>

DeleteRecord(r) ==
    /\ At(r, "delete_document", "record")
    /\ doc' = Without(request[r].docs)
    /\ Continues(r)
    /\ UNCHANGED <<kb, chunks, qdrant, ingest, faults, history>>

RemovesKb(r, step) == At(r, "delete_kb", step) \/ At(r, "rollback", step)

DropCollection(r) ==
    /\ RemovesKb(r, "drop")
    /\ collections' = collections \ {request[r].kb}
    /\ points' = [points EXCEPT ![request[r].kb] = {}]
    /\ Continues(r) /\ Lost(Anywhere(request[r].kb))
    /\ UNCHANGED <<mongo, ingest, faults, raced>>

DeleteDocs(r) ==
    LET ds == DocsOf(request[r].kb)
    IN /\ RemovesKb(r, "docs")
       /\ doc' = Without(ds)
       /\ raced' = IF request[r].op = "rollback" THEN raced \union ds ELSE raced
       /\ Continues(r)
       /\ UNCHANGED <<kb, chunks, qdrant, ingest, faults, condemned>>

DeleteKbChunks(r) ==
    /\ RemovesKb(r, "chunks")
    /\ chunks' = {c \in chunks : c.kb # request[r].kb}
    /\ Continues(r) /\ Lost(Anywhere(request[r].kb))
    /\ UNCHANGED <<kb, doc, qdrant, ingest, faults, raced>>

DeleteKbRecord(r) ==
    /\ RemovesKb(r, "record")
    /\ kb' = [kb EXCEPT ![request[r].kb].state = "gone"]
    /\ Continues(r)
    /\ UNCHANGED <<doc, chunks, qdrant, ingest, faults, history>>

\* The snapshot becomes the live knowledge base; its documents and chunks keep
\* their snapshot flag.
Promote(r) ==
    LET s == request[r].snap
    IN /\ At(r, "rollback", "promote")
       /\ kb' = IF Exists(s) THEN [kb EXCEPT ![s] = [@ EXCEPT !.snapshot = FALSE, !.parent = NoKb]]
                 ELSE kb
       /\ Continues(r)
       /\ UNCHANGED <<doc, chunks, qdrant, ingest, faults, history>>

----------------------------------------------------------------------------
(* Copying a knowledge base (create_kb_snapshot, _copy_kb_vectors).        *)

Snapshot(r, k) ==
    /\ Exists(k)
    /\ Begins(r, "snapshot", [NoRequest EXCEPT !.kb = k])
    /\ UNCHANGED <<mongo, qdrant, ingest, faults, history>>

CreateSnapshot(r) ==
    /\ At(r, "snapshot", "create")
    /\ \E s \in Kbs :
        /\ kb[s].state = "unused"
        /\ kb' = [kb EXCEPT ![s] = [state |-> "here", snapshot |-> TRUE, parent |-> request[r].kb]]
        /\ Goes(r, [request[r] EXCEPT !.step = After(r), !.snap = s])
    /\ UNCHANGED <<doc, chunks, qdrant, ingest, faults, history>>

\* Documents that carry the snapshot flag are not copied, and of the others
\* those that one read returns.
CopyDocs(r) ==
    LET fresh == {d \in Docs : doc[d].kb = NoKb}
        Copy(d) == [doc[d] EXCEPT !.kb = request[r].snap, !.snapshot = TRUE]
    IN /\ At(r, "snapshot", "docs")
       /\ \E read \in Reads(OwnDocs(request[r].kb)) : \E copyOf \in Injection(read, fresh) :
            /\ doc' = [e \in Docs |->
                        IF \E d \in read : copyOf[d] = e
                        THEN Copy(CHOOSE d \in read : copyOf[d] = e) ELSE doc[e]]
            /\ Goes(r, [request[r] EXCEPT !.step = After(r), !.copyOf = copyOf])
       /\ UNCHANGED <<kb, chunks, qdrant, ingest, faults, history>>

CopyId(r, d) == IF d \in DOMAIN request[r].copyOf THEN request[r].copyOf[d] ELSE d

\* Mutant: the copies stay with the knowledge base they were copied from.
CopyChunksUnmoved(r) ==
    /\ At(r, "snapshot", "chunks")
    /\ chunks' = chunks \union {[c EXCEPT !.doc = CopyId(r, c.doc), !.snapshot = TRUE] :
                                   c \in OwnChunks(request[r].kb)}
    /\ Continues(r)
    /\ UNCHANGED <<kb, doc, qdrant, ingest, faults, history>>

\* What one read returns is copied.  The chunk of a document that was not copied
\* keeps its document's id, and its insertion violates the unique index: the
\* snapshot ends half done.
CopyChunks(r) ==
    LET HasCopy(c) == c.doc \in DOMAIN request[r].copyOf
        Copies(cs) == {[c EXCEPT !.doc = CopyId(r, c.doc), !.kb = request[r].snap,
                                 !.snapshot = TRUE] : c \in cs}
    IN /\ At(r, "snapshot", "chunks")
       /\ \E read \in Reads(OwnChunks(request[r].kb)) :
            \/ /\ \A c \in read : HasCopy(c)
               /\ chunks' = chunks \union Copies(read)
               /\ Continues(r)
            \/ /\ \E c \in read : ~HasCopy(c)
               /\ \E part \in SUBSET {c \in read : HasCopy(c)} :
                    chunks' = chunks \union Copies(part)
               /\ Ends(r)
       /\ UNCHANGED <<kb, doc, qdrant, ingest, faults, history>>

\* Mutant: the snapshot gets no vectors.
CopyVectorsNot(r) ==
    /\ At(r, "snapshot", "vectors")
    /\ Continues(r)
    /\ UNCHANGED <<mongo, qdrant, ingest, faults, history>>

\* All points are copied.  When the collection cannot be looked up the copy is
\* skipped with a warning and the snapshot is reported as made.
CopyVectors(r) ==
    LET k == request[r].kb
        s == request[r].snap
        copies == {[p EXCEPT !.doc = CopyId(r, p.doc)] : p \in points[k]}
    IN /\ At(r, "snapshot", "vectors")
       /\ \/ /\ k \in collections
             /\ collections' = collections \union {s}
             /\ points' = [points EXCEPT ![s] = @ \union copies]
             /\ Wrote({p.doc : p \in copies})
             /\ UNCHANGED faults
          \/ k \notin collections /\ UNCHANGED <<qdrant, faults, raced>>
          \/ Fault /\ UNCHANGED <<qdrant, raced>>
       /\ Continues(r)
       /\ UNCHANGED <<mongo, ingest, condemned>>

----------------------------------------------------------------------------
(* Re-indexing (retrieval_node): the first retrieval of an analysis finds  *)
(* no points although MongoDB holds chunks.                                *)

Heal(r, k) ==
    /\ Exists(k)
    /\ points[k] = {} /\ \E c \in chunks : c.kb = k
    /\ Begins(r, "heal", [NoRequest EXCEPT !.kb = k])
    /\ UNCHANGED <<mongo, qdrant, ingest, faults, history>>

\* One read again, of the chunks that come first in their documents.
HealRead(r) ==
    LET there == {c \in chunks : c.kb = request[r].kb}
    IN /\ At(r, "heal", "read")
       /\ collections' = collections \union {request[r].kb}
       /\ \E read \in Reads(there) :
            /\ \A c \in read, e \in there \ read : c.index <= e.index
            /\ Goes(r, [request[r] EXCEPT !.step = After(r), !.todo = read])
       /\ UNCHANGED <<mongo, points, ingest, faults, history>>

HealUpsert(r) ==
    LET k == request[r].kb
    IN /\ At(r, "heal", "upsert")
       /\ k \in collections
       /\ \E c \in request[r].todo :
            /\ points' = [points EXCEPT ![k] = @ \union {[doc |-> c.doc, index |-> c.index]}]
            /\ Goes(r, [request[r] EXCEPT !.todo = @ \ {c}])
            /\ Wrote({c.doc})
       /\ UNCHANGED <<mongo, collections, ingest, faults, condemned>>

HealEnds(r) ==
    /\ At(r, "heal", "upsert")
    /\ \/ request[r].todo = {} /\ Continues(r)
       \/ request[r].kb \notin collections /\ Ends(r)
    /\ UNCHANGED <<mongo, qdrant, ingest, faults, history>>

----------------------------------------------------------------------------
\* A call of a request fails and the exception ends it where it is.
RequestFails(r) ==
    /\ Running(r)
    /\ Fault
    /\ Ends(r)
    /\ UNCHANGED <<mongo, qdrant, ingest, history>>

\* The server stops: requests and background tasks are gone, and nothing
\* resumes them after the restart.
Crash ==
    /\ Fault
    /\ request' = [r \in Requests |->
                    IF Running(r) THEN Ended ELSE request[r]]
    /\ ingest' = [d \in Docs |->
                    IF Uploading(d) THEN [ingest[d] EXCEPT !.step = "lost"] ELSE ingest[d]]
    /\ UNCHANGED <<mongo, qdrant, history>>

Arrives ==
    \/ \E k \in Created : CreateKb(k)
    \/ \E d \in Docs, k \in Kbs, c \in Contents : Upload(d, k, c)
    \/ \E r \in Requests, d \in Docs : DeleteDocument(r, d)
    \/ \E r \in Requests, k \in Kbs : DeleteKb(r, k) \/ Snapshot(r, k) \/ Heal(r, k)
    \/ \E r \in Requests, k, s \in Kbs : Rollback(r, k, s)

Serves(r) ==
    \/ DeleteChunks(r) \/ DeletePoints(r) \/ DeleteRecord(r)
    \/ DropCollection(r) \/ DeleteDocs(r) \/ DeleteKbChunks(r) \/ DeleteKbRecord(r) \/ Promote(r)
    \/ CreateSnapshot(r) \/ CopyDocs(r) \/ CopyChunks(r) \/ CopyVectors(r)
    \/ HealRead(r) \/ HealUpsert(r) \/ HealEnds(r)
    \/ RequestFails(r)

Next ==
    \/ Arrives
    \/ \E d \in Docs : Task(d)
    \/ \E r \in Requests : Serves(r)
    \/ Crash

Spec == Init /\ [][Next]_vars

----------------------------------------------------------------------------
(* What a knowledge base promises.                                         *)

\* Whatever fails or crashes in between, a document marked completed has every
\* chunk in MongoDB and every point in Qdrant until a removal takes them
\* (_index_parsed_chunks).
CompletedIsSearchable ==
    \A d \in Docs :
        doc[d].status = "completed" /\ ~doc[d].snapshot /\ d \notin condemned =>
            \A i \in 1 .. Size[doc[d].content] :
                /\ [doc |-> d, kb |-> doc[d].kb, index |-> i, snapshot |-> FALSE] \in chunks
                /\ [doc |-> d, index |-> i] \in points[doc[d].kb]

\* No vectors are left behind without the record by which their removal could
\* be retried, wherever a deletion fails or crashes and however deletions
\* overlap, unless the document was written to during its removal or a rollback
\* dropped the records first (delete_document, delete_kb).
NoOrphanedVectors ==
    \A d \in Docs :
        doc[d].status = "gone" /\ d \notin raced =>
            \A p \in points[doc[d].kb] : p.doc # d

\* The step that reports snapshot s as made, when nothing went on meanwhile and
\* no call failed.
Reports(r, s) ==
    /\ At(r, "snapshot", "vectors") /\ request[r].alone /\ request[r].snap = s
    /\ request'[r] = Ended /\ faults' = 0

\* A snapshot made while nothing else went on serves what the knowledge base's
\* own documents serve, if one read returns all its chunks: beyond that limit
\* the vectors are copied and the text they stand for is not.  Documents beyond
\* it need no such condition, since their chunks end the snapshot
\* (create_kb_snapshot, _copy_kb_vectors).
SnapshotIsComplete ==
    [][\A r \in Requests, s \in Kbs :
        LET k == request[r].kb
        IN Reports(r, s) /\ Cardinality(OwnChunks(k)) <= ReadLimit
           => ServedBy(k, OwnDocs(k)) \subseteq Served(s)']_vars

\* A rollback that nothing disturbed loses nothing the documents of the
\* snapshot itself served (rollback_kb_to_snapshot).
RollbackKeepsOwn ==
    [][\A r \in Requests :
        At(r, "rollback", "promote") /\ request[r].alone =>
            request[r].own \subseteq Served(request[r].snap)]_vars

\* However its knowledge base or its collection is removed under it and whatever
\* call fails, the task of an upload that comes to its end does not leave its
\* document pending or processing, which would block another upload of that
\* content for good.  A task is lost, and may, when the server stops or MongoDB is
\* away for its last write as well (index_parsed_chunks).
UploadsAreSettled ==
    \A d \in Docs :
        ingest[d].step = "ended" => doc[d].status \notin {"pending", "processing"}
============================================================================
