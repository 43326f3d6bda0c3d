------------------------ MODULE SemanticCache_proofs ------------------------
(***************************************************************************)
(* Proofs about the answer cache for any numbers of analyses, knowledge    *)
(* bases, topics and embedding models, any bound on the deque, and any     *)
(* bounds on changes and restarts.                                         *)
(***************************************************************************)
EXTENDS SemanticCache, FiniteSetTheorems, TLAPS

Entries == [by: Analyses, space: Spaces, model: Spaces \union {NoModel}]

Types ==
  /\ entries \in SUBSET Entries /\ IsFiniteSet(entries)
  /\ disk \in SUBSET Entries /\ IsFiniteSet(disk)
  /\ dirty \in BOOLEAN
  /\ phase \in [Analyses -> Phases]
  /\ ask \in [Analyses -> [kb: Kbs, topic: Topics]]
  /\ answer \in [Analyses -> Analyses \union {NoAnalysis}]
  /\ found \in [Analyses -> Analyses \union {NoAnalysis}]
  /\ stamp \in [Analyses -> Nat]
  /\ purged \in [Kbs -> Nat]
  /\ space \in Spaces

\* An answer is stored once, after all that were stored before it.
Stamped ==
  /\ Stores \in Nat
  /\ \A a \in Analyses : stamp[a] <= Stores
  /\ \A a, b \in Analyses : stamp[a] > 0 /\ stamp[a] = stamp[b] => a = b
  /\ \A a \in Analyses : stamp[a] > 0 => phase[a] = "done"

\* What a deque and the file hold is stored, each answer once.
Deque(es) ==
  /\ \A e \in es : stamp[e.by] > 0
  /\ \A e, f \in es : e.by = f.by => e = f
DequesInv == Deque(entries) /\ Deque(disk)

\* What a lookup can match was stored after the last invalidation; nothing in
\* the file can be matched.
PurgedInv ==
  /\ \A k \in Kbs : purged[k] <= Stores
  /\ \A e \in entries : e.model # NoModel => stamp[e.by] > purged[Kb(e.by)]
  /\ \A e \in disk : e.model = NoModel

\* The rows of a matrix are those of the oldest entries of a deque.
Aligned(rows, es) ==
  rows # <<>> =>
    /\ DOMAIN rows \subseteq 1 .. Cardinality(es)
    /\ \A e \in es : Position(es, e) \in DOMAIN rows => rows[Position(es, e)] = Row(e)
MatrixInv == ~dirty /\ Cardinality(entries) < MaxEntries => Aligned(matrix, entries)

CacheInv == Types /\ Stamped /\ DequesInv /\ PurgedInv /\ MatrixInv

-----------------------------------------------------------------------------
(* Positions in a deque.                                                      *)

\* The entries up to one in the deque.
UpTo(es, e) == {f \in es : stamp[f.by] <= stamp[e.by]}

LEMMA Positions ==
  ASSUME Types, NEW es \in SUBSET Entries, IsFiniteSet(es), NEW e \in es
  PROVE  /\ IsFiniteSet(UpTo(es, e)) /\ Position(es, e) = Cardinality(UpTo(es, e))
         /\ Position(es, e) \in 1 .. Cardinality(es)
<1>1. UpTo(es, e) \in SUBSET es /\ e \in UpTo(es, e)
  BY DEF UpTo, Types, Entries
<1>2. IsFiniteSet(UpTo(es, e)) /\ Cardinality(UpTo(es, e)) <= Cardinality(es)
  BY <1>1, FS_Subset
<1>3. Cardinality(UpTo(es, e)) \in Nat /\ Cardinality(UpTo(es, e)) # 0 /\ Cardinality(es) \in Nat
  BY <1>1, <1>2, FS_CardinalityType, FS_EmptySet
<1>4. Position(es, e) = Cardinality(UpTo(es, e))
  BY DEF Position, UpTo
<1> QED BY <1>2, <1>3, <1>4

\* Two entries of a deque are in two places.
LEMMA PositionsDiffer ==
  ASSUME Types, Stamped, NEW es \in SUBSET Entries, IsFiniteSet(es), Deque(es),
         NEW e \in es, NEW f \in es, Position(es, e) = Position(es, f)
  PROVE  e = f
<1>1. e.by \in Analyses /\ f.by \in Analyses /\ stamp[e.by] \in Nat /\ stamp[f.by] \in Nat
  BY DEF Types, Entries
<1>2. ASSUME NEW g \in es, NEW h \in es, Position(es, g) = Position(es, h),
             stamp[g.by] \in Nat, stamp[h.by] \in Nat, stamp[g.by] <= stamp[h.by]
      PROVE  stamp[h.by] <= stamp[g.by]
  <2>1. UpTo(es, g) \in SUBSET UpTo(es, h)
    BY <1>2 DEF UpTo, Types, Entries
  <2>2. UpTo(es, g) = UpTo(es, h)
    BY <1>2, <2>1, Positions, FS_Subset
  <2>3. h \in UpTo(es, h)
    BY <1>2 DEF UpTo
  <2> QED BY <2>2, <2>3 DEF UpTo
<1>3. stamp[e.by] = stamp[f.by]
  BY <1>1, <1>2
<1> QED BY <1>1, <1>3 DEF Deque, Stamped

\* A rebuilt matrix has the rows of the deque it was built from.
LEMMA StackedAligned ==
  ASSUME Types, Stamped, NEW es \in SUBSET Entries, IsFiniteSet(es), Deque(es)
  PROVE  Aligned(Stacked(es), es)
<1> DEFINE rows == [i \in 1 .. Cardinality(es) |-> Row(CHOOSE e \in es : Position(es, e) = i)]
<1>1. CASE ~ \A e, f \in es : e.space = f.space
  BY <1>1 DEF Stacked, Aligned
<1>2. CASE \A e, f \in es : e.space = f.space
  <2>1. Stacked(es) = rows
    BY <1>2 DEF Stacked
  <2>2. ASSUME NEW e \in es
        PROVE  rows[Position(es, e)] = Row(e)
    <3>1. Position(es, e) \in 1 .. Cardinality(es)
      BY Positions
    <3>2. (CHOOSE f \in es : Position(es, f) = Position(es, e)) = e
      BY PositionsDiffer
    <3> QED BY <3>1, <3>2
  <2>3. DOMAIN rows = 1 .. Cardinality(es)
    OBVIOUS
  <2> HIDE DEF rows
  <2> QED BY <2>1, <2>2, <2>3 DEF Aligned
<1> QED BY <1>1, <1>2


-----------------------------------------------------------------------------
(* Types.                                                                     *)

LEMMA SweptTyped ==
  ASSUME Types
  PROVE  Swept \in SUBSET entries /\ Swept \in SUBSET Entries /\ IsFiniteSet(Swept)
<1>1. Swept \in SUBSET entries
  BY DEF Swept
<1> QED BY <1>1, FS_Subset DEF Types

\* An append adds the entry and no other.
LEMMA AppendedTyped ==
  ASSUME NEW es \in SUBSET Entries, IsFiniteSet(es), NEW entry \in Entries
  PROVE  /\ Appended(es, entry) \in SUBSET (es \union {entry})
         /\ Appended(es, entry) \in SUBSET Entries /\ IsFiniteSet(Appended(es, entry))
<1>1. Appended(es, entry) \in SUBSET (es \union {entry})
  BY DEF Appended
<1>2. IsFiniteSet(es \union {entry})
  BY FS_AddElement
<1> QED BY <1>1, <1>2, FS_Subset

\* What is written to the file are the entries without their models.
LEMMA PersistTyped ==
  ASSUME Types, NEW es \in SUBSET Entries, IsFiniteSet(es), Persist(es)
  PROVE  /\ disk' \in SUBSET Entries /\ IsFiniteSet(disk')
         /\ \/ disk' = disk
            \/ \A e \in disk' : \E f \in es : e.by = f.by /\ e = [f EXCEPT !.model = NoModel]
<1> DEFINE written == {[e EXCEPT !.model = NoModel] : e \in es}
           strip == [e \in es |-> [e EXCEPT !.model = NoModel]]
<1>1. strip \in Surjection(es, written)
  BY DEF Surjection
<1>2. IsFiniteSet(written)
  BY <1>1, FS_Surjection
<1>3. \A e \in es : [e EXCEPT !.model = NoModel] \in Entries /\ [e EXCEPT !.model = NoModel].by = e.by
  BY DEF Entries
<1>4. disk' = disk \/ disk' = written
  BY DEF Persist
<1> QED BY <1>2, <1>3, <1>4 DEF Types

LEMMA KbTyped ==
  ASSUME Types, NEW a \in Analyses
  PROVE  Kb(a) \in Kbs
BY DEF Types, Kb

\* Every step keeps the types.
LEMMA StepTypes ==
  ASSUME Types, Stamped, [Next]_vars
  PROVE  Types'
<1>1. ASSUME NEW a \in Analyses, Lookup(a)
      PROVE  Types'
  <2> DEFINE rows == IF SweptDirty THEN Stacked(Swept) ELSE matrix
             matches == Matches(Swept, rows, Kb(a), ask[a].topic)
  <2>1. \A entry \in matches : entry.by \in Analyses
    <3>1. matches \in SUBSET Swept
      BY DEF Matches, Candidates
    <3> HIDE DEF matches
    <3> QED BY <3>1, SweptTyped DEF Entries
  <2>2. \/ \E entry \in matches : /\ found' = [found EXCEPT ![a] = entry.by]
                                  /\ answer' = [answer EXCEPT ![a] = answer[entry.by]]
        \/ UNCHANGED <<found, answer>>
    BY <1>1 DEF Lookup
  <2> HIDE DEF matches
  <2>3. found' \in [Analyses -> Analyses \union {NoAnalysis}] /\ answer' \in [Analyses -> Analyses \union {NoAnalysis}]
    BY <2>1, <2>2 DEF Types
  <2>4. entries' = Swept /\ dirty' = FALSE /\ phase' = [phase EXCEPT ![a] = "running"]
        /\ UNCHANGED <<ask, disk, stamp, purged, space>>
    BY <1>1 DEF Lookup
  <2> QED BY <2>3, <2>4, SweptTyped DEF Types, Phases
<1>2. ASSUME NEW a \in Analyses, Work(a)
      PROVE  Types'
  <2>1. answer' \in [Analyses -> Analyses \union {NoAnalysis}]
    BY <1>2 DEF Types, Work
  <2> QED BY <1>2, <2>1 DEF Types, Work, Phases, cacheVars
<1>3. ASSUME NEW a \in Analyses, Store(a)
      PROVE  Types'
  <2> DEFINE entry == [by |-> a, space |-> space, model |-> space]
  <2>1. entry \in Entries
    BY DEF Entries, Types
  <2>2. entries' = Appended(Swept, entry) /\ Persist(entries')
    BY <1>3 DEF Store
  <2>3. entries' \in SUBSET Entries /\ IsFiniteSet(entries')
    BY <2>1, <2>2, SweptTyped, AppendedTyped
  <2>4. disk' \in SUBSET Entries /\ IsFiniteSet(disk')
    BY <2>2, <2>3, PersistTyped
  <2>5. stamp' \in [Analyses -> Nat]
    BY <1>3 DEF Store, Types, Stamped
  <2>6. dirty' \in BOOLEAN
    BY <1>3 DEF Store, SweptDirty, Types
  <2> QED BY <1>3, <2>3, <2>4, <2>5, <2>6 DEF Types, Store, Phases
<1>4. ASSUME NEW a \in Analyses, Leave(a)
      PROVE  Types'
  BY <1>4 DEF Types, Leave, Phases, cacheVars
<1>5. ASSUME NEW k \in Kbs, RemoveEvidence(k) \/ AddDocument(k)
      PROVE  Types'
  BY <1>5 DEF Types, RemoveEvidence, AddDocument, cacheVars, askVars
<1>6. ASSUME NEW k \in Kbs, Invalidate(k)
      PROVE  Types'
  <2>1. entries' \in SUBSET entries /\ Persist(entries')
    BY <1>6 DEF Invalidate
  <2>2. entries' \in SUBSET Entries /\ IsFiniteSet(entries')
    BY <2>1, FS_Subset DEF Types
  <2>3. disk' \in SUBSET Entries /\ IsFiniteSet(disk')
    BY <2>1, <2>2, PersistTyped
  <2>4. purged' \in [Kbs -> Nat]
    BY <1>6 DEF Invalidate, Types, Stamped
  <2> QED BY <1>6, <2>2, <2>3, <2>4 DEF Types, Invalidate, askVars
<1>7. CASE Expire
  BY <1>7 DEF Types, Expire, cacheVars, askVars
<1>8. CASE Sweep
  BY <1>8, SweptTyped DEF Types, Sweep, askVars
<1>9. CASE Restart
  <2>1. entries' \in SUBSET disk
    BY <1>9 DEF Restart
  <2>2. entries' \in SUBSET Entries /\ IsFiniteSet(entries')
    BY <2>1, FS_Subset DEF Types
  <2> QED BY <1>9, <2>2 DEF Types, Restart, Phases
<1>10. CASE UNCHANGED vars
  BY <1>10 DEF Types, vars, cacheVars, askVars
<1> QED BY <1>1, <1>2, <1>3, <1>4, <1>5, <1>6, <1>7, <1>8, <1>9, <1>10 DEF Next

-----------------------------------------------------------------------------
(* Stamps and deques.                                                         *)

\* A store is stamped after all before it.
LEMMA StoreStamps ==
  ASSUME Types, Stamped, NEW a \in Analyses, Store(a)
  PROVE  /\ stamp[a] = 0 /\ stamp' = [stamp EXCEPT ![a] = Stores + 1]
         /\ Stores' = Stores + 1
<1>1. stamp[a] = 0 /\ stamp' = [stamp EXCEPT ![a] = Stores + 1]
  BY DEF Store, Types, Stamped
<1> DEFINE before == {b \in Analyses : stamp[b] > 0}
           after == {b \in Analyses : stamp'[b] > 0}
<1>2. after = before \union {a} /\ a \notin before
  BY <1>1 DEF Types, Stamped
<1>3. IsFiniteSet(before)
  BY AnalysesAssumption, FS_Subset
<1>4. Stores = Cardinality(before) /\ Stores' = Cardinality(after)
  BY DEF Stores
<1> HIDE DEF before, after
<1>5. Cardinality(after) = Cardinality(before) + 1
  BY <1>2, <1>3, FS_AddElement
<1> QED BY <1>1, <1>4, <1>5

LEMMA StepStamped ==
  ASSUME Types, Stamped, [Next]_vars
  PROVE  Stamped'
<1>1. ASSUME NEW a \in Analyses, Store(a)
      PROVE  Stamped'
  <2>1. phase' = [phase EXCEPT ![a] = "done"]
    BY <1>1 DEF Store
  <2>2. Stores \in Nat /\ Stores' = Stores + 1 /\ stamp' = [stamp EXCEPT ![a] = Stores + 1]
    BY <1>1, StoreStamps DEF Stamped
  <2>3. \A b \in Analyses : stamp'[b] = IF b = a THEN Stores + 1 ELSE stamp[b]
    BY <2>2 DEF Types
  <2>4. \A b \in Analyses : stamp[b] \in Nat /\ stamp[b] <= Stores
    BY DEF Types, Stamped
  <2>5. \A b \in Analyses : stamp'[b] <= Stores'
    BY <2>2, <2>3, <2>4
  <2>6. \A b, d \in Analyses : stamp'[b] > 0 /\ stamp'[b] = stamp'[d] => b = d
    BY <2>2, <2>3, <2>4 DEF Stamped
  <2>7. \A b \in Analyses : stamp'[b] > 0 => phase'[b] = "done"
    BY <2>1, <2>3 DEF Types, Stamped
  <2> QED BY <2>2, <2>5, <2>6, <2>7 DEF Stamped
<1>2. ASSUME UNCHANGED stamp, \A a \in Analyses : phase[a] = "done" => phase'[a] = "done"
      PROVE  Stamped'
  <2>1. Stores' = Stores
    BY <1>2 DEF Stores
  <2> QED BY <1>2, <2>1 DEF Stamped
<1>3. ASSUME NEW a \in Analyses, Lookup(a) \/ Work(a) \/ Leave(a)
      PROVE  Stamped'
  BY <1>2, <1>3 DEF Types, Lookup, Work, Leave
<1>4. ASSUME NEW k \in Kbs, RemoveEvidence(k) \/ AddDocument(k) \/ Invalidate(k)
      PROVE  Stamped'
  BY <1>2, <1>4 DEF RemoveEvidence, AddDocument, Invalidate, askVars
<1>5. CASE Restart
  BY <1>2, <1>5 DEF Types, Restart
<1>6. CASE Expire \/ Sweep \/ UNCHANGED vars
  BY <1>2, <1>6 DEF Expire, Sweep, vars, askVars
<1> QED BY <1>1, <1>3, <1>4, <1>5, <1>6 DEF Next

\* The start of the cache.
LEMMA InitCache == Init => CacheInv
<1> SUFFICES ASSUME Init PROVE CacheInv
  OBVIOUS
<1>1. Types
  BY FS_EmptySet DEF Init, Types, Phases
<1>2. Stores = 0
  <2>1. {a \in Analyses : stamp[a] > 0} = {}
    BY DEF Init
  <2> QED BY <2>1, FS_EmptySet DEF Stores
<1>3. Stamped /\ DequesInv /\ PurgedInv /\ MatrixInv
  BY <1>2 DEF Init, Stamped, DequesInv, Deque, PurgedInv, MatrixInv
<1> QED BY <1>1, <1>3 DEF CacheInv


\* A part of a deque is a deque.
LEMMA DequePart ==
  ASSUME NEW es, NEW part \in SUBSET es, Deque(es)
  PROVE  Deque(part)
BY DEF Deque

\* The file holds a deque if what was written did.
LEMMA PersistDeque ==
  ASSUME Types, NEW es \in SUBSET Entries, IsFiniteSet(es), Persist(es), Deque(disk), Deque(es)
  PROVE  Deque(disk')
<1>1. CASE disk' = disk
  BY <1>1
<1>2. CASE \A e \in disk' : \E f \in es : e.by = f.by /\ e = [f EXCEPT !.model = NoModel]
  <2>1. \A e \in disk' : stamp[e.by] > 0
    BY <1>2 DEF Deque
  <2>2. ASSUME NEW e \in disk', NEW f \in disk', e.by = f.by
        PROVE  e = f
    BY <1>2, <2>2 DEF Deque
  <2> QED BY <2>1, <2>2 DEF Deque
<1> QED BY <1>1, <1>2, PersistTyped

\* A deque stays one when another analysis stores its answer.
LEMMA StoreKeepsDeque ==
  ASSUME Types, Stamped, NEW a \in Analyses, Store(a), NEW es \in SUBSET Entries, Deque(es)
  PROVE  /\ Deque(es)'
         /\ \A e \in es : e.by # a /\ stamp'[e.by] = stamp[e.by]
<1>1. \A e \in es : e.by # a /\ stamp'[e.by] = stamp[e.by]
  BY StoreStamps DEF Types, Deque, Entries
<1> QED BY <1>1 DEF Deque

LEMMA StepDeques ==
  ASSUME CacheInv, [Next]_vars
  PROVE  DequesInv'
<1> USE DEF CacheInv, DequesInv
<1>1. ASSUME NEW a \in Analyses, Store(a)
      PROVE  DequesInv'
  <2> DEFINE entry == [by |-> a, space |-> space, model |-> space]
  <2>1. entry \in Entries /\ entries' = Appended(Swept, entry) /\ Persist(entries')
    BY <1>1 DEF Entries, Types, Store
  <2>2. entries' \in SUBSET (Swept \union {entry}) /\ entries' \in SUBSET Entries /\ IsFiniteSet(entries')
    BY <2>1, SweptTyped, AppendedTyped
  <2>3. Deque(Swept)
    BY DequePart, SweptTyped
  <2>4. \A e \in Swept : e.by # a /\ stamp'[e.by] = stamp[e.by]
    BY <1>1, <2>3, SweptTyped, StoreKeepsDeque
  <2>5. stamp'[a] > 0
    BY <1>1, StoreStamps DEF Types, Stamped
  <2>6. Deque(entries)'
    BY <2>2, <2>3, <2>4, <2>5 DEF Deque
  <2>7. Deque(disk)'
    <3>1. CASE disk' = disk
      BY <1>1, <3>1, StoreKeepsDeque DEF Types, Deque
    <3>2. CASE \A e \in disk' : \E f \in entries' : e.by = f.by /\ e = [f EXCEPT !.model = NoModel]
      BY <2>6, <3>2 DEF Deque
    <3> QED BY <2>1, <2>2, <3>1, <3>2, PersistTyped
  <2> QED BY <2>6, <2>7
<1>2. ASSUME UNCHANGED stamp, Deque(entries'), Deque(disk')
      PROVE  DequesInv'
  BY <1>2 DEF Deque
<1>3. ASSUME NEW k \in Kbs, Invalidate(k)
      PROVE  DequesInv'
  <2>1. entries' \in SUBSET entries /\ Persist(entries') /\ UNCHANGED stamp
    BY <1>3 DEF Invalidate
  <2>2. entries' \in SUBSET Entries /\ IsFiniteSet(entries') /\ Deque(entries')
    BY <2>1, DequePart, FS_Subset DEF Types
  <2>3. Deque(disk')
    BY <2>1, <2>2, PersistDeque
  <2> QED BY <1>2, <2>1, <2>2, <2>3
<1>4. ASSUME UNCHANGED <<stamp, disk>>, entries' \in SUBSET entries \/ entries' \in SUBSET disk
      PROVE  DequesInv'
  <2>1. Deque(entries')
    BY <1>4, DequePart
  <2> QED BY <1>2, <1>4, <2>1
<1>5. ASSUME NEW a \in Analyses, Lookup(a)
      PROVE  DequesInv'
  BY <1>4, <1>5, SweptTyped DEF Lookup
<1>6. ASSUME NEW a \in Analyses, Work(a) \/ Leave(a)
      PROVE  DequesInv'
  BY <1>4, <1>6 DEF Work, Leave, cacheVars
<1>7. ASSUME NEW k \in Kbs, RemoveEvidence(k) \/ AddDocument(k)
      PROVE  DequesInv'
  BY <1>4, <1>7 DEF RemoveEvidence, AddDocument, cacheVars
<1>8. CASE Expire \/ Sweep \/ Restart \/ UNCHANGED vars
  BY <1>4, <1>8, SweptTyped DEF Expire, Sweep, Restart, vars, cacheVars
<1> QED BY <1>1, <1>3, <1>5, <1>6, <1>7, <1>8 DEF Next

-----------------------------------------------------------------------------
(* Invalidation.                                                              *)

LEMMA StepPurged ==
  ASSUME CacheInv, [Next]_vars
  PROVE  PurgedInv'
<1> USE DEF CacheInv
<1>1. \A e \in entries \union disk : e.by \in Analyses /\ Kb(e.by) \in Kbs
  BY KbTyped DEF Types, Entries
<1>2. \A a \in Analyses : Kb(a)' = Kb(a)
  BY DEF Next, Lookup, Work, Store, Leave, RemoveEvidence, AddDocument, Invalidate, Expire, Sweep, Restart,
     Kb, vars, askVars
<1>3. \A k \in Kbs : purged[k] \in Nat /\ purged[k] <= Stores /\ Stores \in Nat
  BY DEF Types, Stamped, PurgedInv
<1>4. ASSUME NEW a \in Analyses, Store(a)
      PROVE  PurgedInv'
  <2> DEFINE entry == [by |-> a, space |-> space, model |-> space]
  <2>1. entry \in Entries /\ entries' = Appended(Swept, entry) /\ Persist(entries') /\ UNCHANGED purged
    BY <1>4 DEF Entries, Types, Store
  <2>2. entries' \in SUBSET (entries \union {entry}) /\ entries' \in SUBSET Entries /\ IsFiniteSet(entries')
    BY <2>1, SweptTyped, AppendedTyped
  <2>3. Stores' = Stores + 1 /\ stamp'[a] = Stores + 1
    BY <1>4, StoreStamps DEF Types
  <2>4. \A e \in entries : stamp'[e.by] = stamp[e.by]
    BY <1>4, StoreKeepsDeque DEF Types, DequesInv
  <2>5. \A k \in Kbs : purged'[k] <= Stores'
    BY <1>3, <2>1, <2>3
  <2>6. ASSUME NEW e \in entries', e.model # NoModel
        PROVE  stamp'[e.by] > purged'[Kb(e.by)']
    <3>1. CASE e \in entries
      BY <1>1, <1>2, <2>1, <2>4, <2>6, <3>1 DEF PurgedInv
    <3>2. CASE e = entry
      <4>1. Kb(a)' \in Kbs
        BY <1>2, KbTyped
      <4> QED BY <1>3, <2>1, <2>3, <3>2, <4>1
    <3> QED BY <2>2, <3>1, <3>2
  <2>7. \A e \in disk' : e.model = NoModel
    BY <2>1, <2>2, PersistTyped DEF PurgedInv, Entries
  <2> QED BY <2>5, <2>6, <2>7 DEF PurgedInv
<1>5. ASSUME NEW k \in Kbs, Invalidate(k)
      PROVE  PurgedInv'
  <2>1. /\ entries' = {entry \in entries : Kb(entry.by) # k} /\ Persist(entries') /\ UNCHANGED stamp
        /\ purged' = [purged EXCEPT ![k] = Stores]
    BY <1>5 DEF Invalidate
  <2>2. entries' \in SUBSET Entries /\ IsFiniteSet(entries')
    BY <2>1, FS_Subset DEF Types
  <2>3. Stores' = Stores
    BY <2>1 DEF Stores
  <2>4. \A j \in Kbs : purged'[j] <= Stores'
    BY <1>3, <2>1, <2>3 DEF Types
  <2>5. \A e \in entries' : e.model # NoModel => stamp'[e.by] > purged'[Kb(e.by)']
    BY <1>1, <1>2, <2>1 DEF PurgedInv, Types
  <2>6. \A e \in disk' : e.model = NoModel
    BY <2>1, <2>2, PersistTyped DEF PurgedInv, Entries
  <2> QED BY <2>4, <2>5, <2>6 DEF PurgedInv
<1>6. ASSUME UNCHANGED <<stamp, disk, purged>>, entries' \in SUBSET entries \/ entries' \in SUBSET disk
      PROVE  PurgedInv'
  <2>1. Stores' = Stores
    BY <1>6 DEF Stores
  <2> QED BY <1>1, <1>2, <1>6, <2>1 DEF PurgedInv
<1>7. ASSUME NEW a \in Analyses, Lookup(a)
      PROVE  PurgedInv'
  BY <1>6, <1>7, SweptTyped DEF Lookup
<1>8. ASSUME NEW a \in Analyses, Work(a) \/ Leave(a)
      PROVE  PurgedInv'
  BY <1>6, <1>8 DEF Work, Leave, cacheVars
<1>9. ASSUME NEW k \in Kbs, RemoveEvidence(k) \/ AddDocument(k)
      PROVE  PurgedInv'
  BY <1>6, <1>9 DEF RemoveEvidence, AddDocument, cacheVars
<1>10. CASE Expire \/ Sweep \/ Restart \/ UNCHANGED vars
  BY <1>6, <1>10, SweptTyped DEF Expire, Sweep, Restart, vars, cacheVars
<1> QED BY <1>4, <1>5, <1>7, <1>8, <1>9, <1>10 DEF Next


-----------------------------------------------------------------------------
(* The matrix and the deque.                                                  *)

\* Positions and rows depend on the stamps and the questions alone.
LEMMA AlignedFrame ==
  ASSUME UNCHANGED <<stamp, ask>>, NEW rows, NEW es, Aligned(rows, es)
  PROVE  Aligned(rows, es)'
BY DEF Aligned, Position, Row

\* A new entry goes behind the others, which keep their places.
LEMMA AppendKeepsPlaces ==
  ASSUME Types, Stamped, Deque(entries), Swept = entries, NEW a \in Analyses, Store(a),
         Cardinality(entries) < MaxEntries,
         NEW entry, entry = [by |-> a, space |-> space, model |-> space]
  PROVE  /\ entries' = entries \union {entry} /\ entry \notin entries
         /\ Cardinality(entries') = Cardinality(entries) + 1
         /\ \A e \in entries : Position(entries, e)' = Position(entries, e)
         /\ Position(entries, entry)' = Cardinality(entries) + 1
<1>1. entries' = entries \union {entry}
  BY DEF Store, Appended
<1>2. \A e \in entries : e.by # a /\ stamp'[e.by] = stamp[e.by] /\ stamp[e.by] \in Nat /\ stamp[e.by] <= Stores
  BY StoreKeepsDeque DEF Types, Entries, Stamped
<1>3. stamp'[a] = Stores + 1 /\ Stores \in Nat
  BY StoreStamps DEF Types, Stamped
<1>4. entry \notin entries
  BY <1>2
<1>5. Cardinality(entries') = Cardinality(entries) + 1
  BY <1>1, <1>4, FS_AddElement DEF Types
<1>6. ASSUME NEW e \in entries
      PROVE  Position(entries, e)' = Position(entries, e)
  <2>1. {f \in entries' : stamp'[f.by] <= stamp'[e.by]} = {f \in entries : stamp[f.by] <= stamp[e.by]}
    BY <1>1, <1>2, <1>3
  <2> QED BY <2>1 DEF Position
<1>7. Position(entries, entry)' = Cardinality(entries) + 1
  <2>1. {f \in entries' : stamp'[f.by] <= stamp'[entry.by]} = entries'
    BY <1>1, <1>2, <1>3
  <2> QED BY <1>5, <2>1 DEF Position
<1> QED BY <1>1, <1>4, <1>5, <1>6, <1>7

\* A full deque stays full.
LEMMA AppendStaysFull ==
  ASSUME Types, Stamped, Deque(entries), Swept = entries, NEW a \in Analyses, Store(a),
         ~ (Cardinality(entries) < MaxEntries)
  PROVE  ~ (Cardinality(entries') < MaxEntries)
<1> DEFINE entry == [by |-> a, space |-> space, model |-> space]
           oldest == CHOOSE e \in entries : \A f \in entries : stamp[e.by] <= stamp[f.by]
           rest == entries \ {oldest}
<1>1. entries' = rest \union {entry}
  BY DEF Store, Appended
<1>2. entry \notin entries
  <2>1. \A e \in entries : e.by # a
    BY StoreKeepsDeque DEF Types
  <2> QED BY <2>1
<1>3. Cardinality(entries) \in Nat /\ IsFiniteSet(entries)
  BY FS_CardinalityType DEF Types
<1> HIDE DEF oldest, entry
<1>4. IsFiniteSet(rest) /\ Cardinality(rest) \in Nat /\ Cardinality(rest) >= Cardinality(entries) - 1
  BY <1>3, FS_RemoveElement, FS_CardinalityType
<1>5. Cardinality(entries') = Cardinality(rest) + 1
  BY <1>1, <1>2, <1>4, FS_AddElement
<1> QED BY <1>3, <1>4, <1>5, BoundsAssumption

LEMMA StepMatrix ==
  ASSUME CacheInv, [Next]_vars
  PROVE  MatrixInv'
<1> USE DEF CacheInv
<1>1. ASSUME NEW a \in Analyses, Lookup(a)
      PROVE  MatrixInv'
  <2>1. /\ entries' = Swept /\ matrix' = (IF SweptDirty THEN Stacked(Swept) ELSE matrix)
        /\ UNCHANGED <<stamp, ask>>
    BY <1>1 DEF Lookup
  <2>2. CASE SweptDirty
    <3>1. Deque(Swept)
      BY SweptTyped, DequePart DEF DequesInv
    <3>2. Aligned(Stacked(Swept), Swept)
      BY <3>1, SweptTyped, StackedAligned
    <3>3. ASSUME NEW rows, NEW es, Aligned(rows, es), matrix' = rows, entries' = es
          PROVE  MatrixInv'
      <4>1. Aligned(rows, es)'
        BY <2>1, <3>3, AlignedFrame
      <4> QED BY <3>3, <4>1 DEF MatrixInv, Aligned, Position
    <3> QED BY <2>1, <2>2, <3>2, <3>3
  <2>3. CASE ~SweptDirty
    <3>1. Swept = entries /\ ~dirty /\ UNCHANGED <<entries, matrix>>
      BY <2>1, <2>3 DEF SweptDirty, Types
    <3> QED BY <2>1, <3>1 DEF MatrixInv, Aligned, Position, Row
  <2> QED BY <2>2, <2>3
<1>2. ASSUME NEW a \in Analyses, Store(a)
      PROVE  MatrixInv'
  <2>1. dirty' = SweptDirty /\ UNCHANGED <<matrix, ask>>
    BY <1>2 DEF Store
  <2>2. SUFFICES ASSUME ~dirty', Cardinality(entries') < MaxEntries
                 PROVE  Aligned(matrix, entries)'
    BY DEF MatrixInv
  <2>3. ~dirty /\ Swept = entries
    BY <2>1, <2>2 DEF SweptDirty, Types
  <2>4. Cardinality(entries) < MaxEntries
    BY <1>2, <2>2, <2>3, AppendStaysFull DEF DequesInv
  <2>5. Aligned(matrix, entries)
    BY <2>3, <2>4 DEF MatrixInv
  <2>6. PICK entry : entry = [by |-> a, space |-> space, model |-> space]
    OBVIOUS
  <2>7. /\ entries' = entries \union {entry} /\ entry \notin entries
        /\ Cardinality(entries') = Cardinality(entries) + 1
        /\ \A e \in entries : Position(entries, e)' = Position(entries, e)
        /\ Position(entries, entry)' = Cardinality(entries) + 1
    BY <1>2, <2>3, <2>4, <2>6, AppendKeepsPlaces DEF DequesInv
  <2>8. Cardinality(entries) \in Nat
    BY FS_CardinalityType DEF Types
  <2>9. CASE matrix = <<>>
    BY <2>1, <2>9 DEF Aligned
  <2>10. CASE matrix # <<>>
    <3>1. DOMAIN matrix' \subseteq 1 .. Cardinality(entries')
      BY <2>1, <2>5, <2>7, <2>8, <2>10 DEF Aligned
    <3>2. ASSUME NEW e \in entries', Position(entries, e)' \in DOMAIN matrix'
          PROVE  matrix'[Position(entries, e)'] = Row(e)'
      <4>1. Row(e)' = Row(e)
        BY <2>1 DEF Row
      <4>2. CASE e \in entries
        BY <2>1, <2>5, <2>7, <2>10, <3>2, <4>1, <4>2 DEF Aligned
      <4>3. CASE e = entry
        BY <2>1, <2>5, <2>7, <2>8, <2>10, <3>2, <4>3 DEF Aligned
      <4> QED BY <2>7, <4>2, <4>3
    <3> QED BY <3>1, <3>2 DEF Aligned
  <2> QED BY <2>9, <2>10
<1>3. CASE dirty'
  BY <1>3 DEF MatrixInv
<1>4. CASE UNCHANGED <<entries, matrix, dirty, stamp, ask>>
  BY <1>4 DEF MatrixInv, Aligned, Position, Row
<1>5. ASSUME NEW a \in Analyses, Work(a) \/ Leave(a)
      PROVE  MatrixInv'
  BY <1>4, <1>5 DEF Work, Leave, cacheVars
<1>6. ASSUME NEW k \in Kbs, RemoveEvidence(k) \/ AddDocument(k) \/ Invalidate(k)
      PROVE  MatrixInv'
  BY <1>3, <1>4, <1>6 DEF RemoveEvidence, AddDocument, Invalidate, cacheVars, askVars
<1>7. CASE Expire \/ Sweep \/ Restart \/ UNCHANGED vars
  BY <1>3, <1>4, <1>7 DEF Expire, Sweep, Restart, vars, cacheVars, askVars
<1> QED BY <1>1, <1>2, <1>5, <1>6, <1>7 DEF Next

-----------------------------------------------------------------------------
(* The theorems.                                                              *)

\* The inductive invariant: stamps order the answers, the deque and the file
\* hold each stored answer once, what can be matched is younger than the last
\* invalidation, and an unflagged matrix has the rows of the oldest entries
\* while the deque is below its bound.
THEOREM CacheInvariant == Spec => []CacheInv
<1>1. CacheInv /\ [Next]_vars => CacheInv'
  BY StepTypes, StepStamped, StepDeques, StepPurged, StepMatrix DEF CacheInv
<1> QED BY <1>1, InitCache, PTL DEF Spec

\* A match is an entry of the deque for the same knowledge base and model.
LEMMA MatchesOf ==
  ASSUME NEW es, NEW rows, NEW kb, NEW topic, NEW e \in Matches(es, rows, kb, topic)
  PROVE  e \in es /\ Kb(e.by) = kb /\ e.model = space
BY DEF Matches, Candidates

\* What a lookup serves.
LEMMA LookupServes ==
  ASSUME Types, NEW a \in Analyses, Lookup(a), NEW b \in Analyses, found'[b] # found[b] \/ answer'[b] # answer[b]
  PROVE  /\ b = a
         /\ \E e \in Matches(Swept, IF SweptDirty THEN Stacked(Swept) ELSE matrix, Kb(a), ask[a].topic) :
              found'[a] = e.by /\ answer'[a] = answer[e.by]
BY DEF Lookup, Types

\* No answer crosses knowledge bases, whatever the state of the matrix
\* (check_semantic_cache, kb_indices).
THEOREM AnswersStayInTheirKb == Spec => []AnswersStayInKb
<1>1. Init => AnswersStayInKb
  BY DEF Init, AnswersStayInKb
<1>2. CacheInv /\ AnswersStayInKb /\ [Next]_vars => AnswersStayInKb'
  <2> SUFFICES ASSUME CacheInv, AnswersStayInKb, [Next]_vars
               PROVE  AnswersStayInKb'
    OBVIOUS
  <2>1. Types
    BY DEF CacheInv
  <2>2. \A a \in Analyses : answer[a] \in Analyses \union {NoAnalysis}
    BY <2>1 DEF Types
  <2>3. UNCHANGED ask
    BY DEF Next, Lookup, Work, Store, Leave, RemoveEvidence, AddDocument, Invalidate, Expire, Sweep, Restart,
       vars, askVars
  <2>4. ASSUME NEW a \in Analyses, Lookup(a), NEW b \in Analyses, answer'[b] # NoAnalysis
        PROVE  Kb(answer'[b]) = Kb(b)
    <3>1. CASE answer'[b] = answer[b]
      BY <2>4, <3>1 DEF AnswersStayInKb
    <3>2. CASE answer'[b] # answer[b]
      <4>1. PICK e \in Matches(Swept, IF SweptDirty THEN Stacked(Swept) ELSE matrix, Kb(a), ask[a].topic) :
              answer'[a] = answer[e.by]
        BY <2>1, <2>4, <3>2, LookupServes
      <4>2. b = a
        BY <2>1, <2>4, <3>2, LookupServes
      <4>3. e \in Swept /\ Kb(e.by) = Kb(a)
        BY MatchesOf
      <4>4. e.by \in Analyses
        BY <2>1, <4>3, SweptTyped DEF Entries
      <4> QED BY <2>4, <4>1, <4>2, <4>3, <4>4 DEF AnswersStayInKb
    <3> QED BY <3>1, <3>2
  <2>5. ASSUME NEW a \in Analyses, Work(a), NEW b \in Analyses, answer'[b] # NoAnalysis
        PROVE  Kb(answer'[b]) = Kb(b)
    BY <2>1, <2>5 DEF Work, Types, AnswersStayInKb
  <2>6. ASSUME UNCHANGED answer, NEW b \in Analyses, answer'[b] # NoAnalysis
        PROVE  Kb(answer'[b]) = Kb(b)
    BY <2>6 DEF AnswersStayInKb
  <2>7. UNCHANGED answer \/ \E a \in Analyses : Lookup(a) \/ Work(a)
    BY DEF Next, Store, Leave, RemoveEvidence, AddDocument, Invalidate, Expire, Sweep, Restart,
       vars, askVars
  <2>8. \A b \in Analyses : answer'[b] # NoAnalysis => Kb(answer'[b]) = Kb(b)
    BY <2>4, <2>5, <2>6, <2>7
  <2> QED BY <2>3, <2>8 DEF AnswersStayInKb, Kb
<1> QED BY <1>1, <1>2, CacheInvariant, PTL DEF Spec

\* Only a lookup finds.
LEMMA OnlyLookupFinds ==
  ASSUME [Next]_vars, ~ UNCHANGED found
  PROVE  \E a \in Analyses : Lookup(a)
BY DEF Next, Work, Store, Leave, RemoveEvidence, AddDocument, Invalidate, Expire, Sweep, Restart, vars, askVars

\* An answer that was in the cache when its knowledge base was invalidated is
\* never served again, through any number of restarts and failing writes.
THEOREM InvalidatedStaysGone == Spec => InvalidatedIsGone
<1>1. ASSUME CacheInv, [Next]_vars, NEW a \in Analyses, found'[a] # found[a]
      PROVE  stamp[found'[a]] > purged[Kb(a)]
  <2>1. Types /\ Lookup(a)
    BY <1>1, OnlyLookupFinds, LookupServes DEF CacheInv
  <2>2. PICK e \in Matches(Swept, IF SweptDirty THEN Stacked(Swept) ELSE matrix, Kb(a), ask[a].topic) :
          found'[a] = e.by
    BY <1>1, <2>1, LookupServes
  <2>3. e \in Swept /\ Kb(e.by) = Kb(a) /\ e.model = space
    BY MatchesOf
  <2>4. e \in entries /\ e.model # NoModel
    BY <2>1, <2>3, SweptTyped, SpacesAssumption DEF Types
  <2> QED BY <1>1, <2>2, <2>3, <2>4 DEF CacheInv, PurgedInv
<1>2. CacheInv /\ [Next]_vars
        => [\A a \in Analyses : found'[a] # found[a] => stamp[found'[a]] > purged[Kb(a)]]_vars
  BY <1>1
<1> QED BY <1>2, CacheInvariant, PTL DEF Spec, InvalidatedIsGone

\* What a lookup finds by position is an answer to an equivalent question, as
\* long as the deque is below its bound.
THEOREM FindsAreEquivalent == Spec => EquivalentUnlessFull
<1>1. ASSUME CacheInv, [Next]_vars, NEW a \in Analyses, found'[a] # found[a], Cardinality(entries) < MaxEntries
      PROVE  ask[found'[a]].topic = ask[a].topic
  <2> DEFINE rows == IF SweptDirty THEN Stacked(Swept) ELSE matrix
  <2>1. Types /\ Lookup(a)
    BY <1>1, OnlyLookupFinds, LookupServes DEF CacheInv
  <2>2. PICK e \in Matches(Swept, rows, Kb(a), ask[a].topic) : found'[a] = e.by
    BY <1>1, <2>1, LookupServes
  <2>3. e \in Swept
    BY MatchesOf
  <2>4. Aligned(rows, Swept)
    <3>1. CASE SweptDirty
      <4>1. Deque(Swept)
        BY <1>1, <2>1, SweptTyped, DequePart DEF CacheInv, DequesInv
      <4> QED BY <1>1, <2>1, <3>1, <4>1, SweptTyped, StackedAligned DEF CacheInv
    <3>2. CASE ~SweptDirty
      <4>1. ~dirty /\ Swept = entries
        BY <3>2 DEF SweptDirty
      <4> QED BY <1>1, <3>2, <4>1 DEF CacheInv, MatrixInv
    <3> QED BY <3>1, <3>2
  <2> HIDE DEF rows
  <2>5. Row(e).topic = ask[a].topic
    <3>1. CASE rows = <<>>
      BY <2>2, <3>1 DEF Matches
    <3>2. CASE rows # <<>>
      <4>1. Position(Swept, e) \in DOMAIN rows /\ rows[Position(Swept, e)].topic = ask[a].topic
        BY <2>2, <3>2 DEF Matches, Selectable
      <4> QED BY <2>3, <2>4, <3>2, <4>1 DEF Aligned
    <3> QED BY <3>1, <3>2
  <2> QED BY <2>2, <2>5 DEF Row
<1>2. CacheInv /\ [Next]_vars
        => [\A a \in Analyses :
              found'[a] # found[a] /\ Cardinality(entries) < MaxEntries
                => ask[found'[a]].topic = ask[a].topic]_vars
  BY <1>1
<1> QED BY <1>2, CacheInvariant, PTL DEF Spec, EquivalentUnlessFull
=============================================================================
