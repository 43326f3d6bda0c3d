----------------------- MODULE ClaimVerification_proofs -----------------------
(***************************************************************************)
(* Theorems about one verification, for any number of claims, segments and *)
(* checks and any cap on the calls: what each verdict on record is about   *)
(* and linked to, and that the whole implements ClaimCheck.                *)
(***************************************************************************)
EXTENDS ClaimVerification, FiniteSetTheorems, TLAPS

First == {"fused", "decompose", "batch", "retry"}
Endings == {"counted", "nothing", "broken"}
Pcs == First \cup {"targeted", "persist"} \cup Endings

Links1 == {"chunks", "fresh"} \X (1..SegmentCount)
Docs == [verdict: Verdicts, about: 1..MaxClaims, on: Contexts, evidence: SUBSET Links1]

Types ==
  /\ pc \in Pcs
  /\ chunks \in BOOLEAN /\ attempt \in Nat
  /\ n \in 0..MaxClaims
  /\ pc \in {"batch", "retry", "targeted", "persist", "counted"} => n >= 1
  /\ stray \in Nat
  /\ linked \in [1..MaxClaims -> SUBSET ({"fresh"} \X (1..SegmentCount))]
  /\ budget \in Nat /\ exited \in BOOLEAN
  /\ docs \in Seq(Docs) /\ Len(docs) <= n
  /\ calls \in Nat /\ spent \in Nat
  /\ inserted \in BOOLEAN

\* A result that a turn of the loop may use: segment numbers are kept only with
\* the context of the round.
Usable(r) ==
  /\ r \in Results
  /\ r.on \in {"fresh", "unchecked"} => r.segments = {}
  /\ r.on = "nothing" => ~chunks
LastUsable == last = Unbound \/ Usable(last)

\* Results are the batch's or a targeted retrieval's, about their own claims.
ResultsOwn ==
  /\ DOMAIN results \subseteq 1..n
  /\ results = [i \in DOMAIN results |-> results[i]]
  /\ \A i \in DOMAIN results :
       /\ Usable(results[i])
       /\ results[i].about = i /\ results[i].on \in {"chunks", "fresh"}
  /\ pc \in First \/ ~chunks => DOMAIN results = {}

TodoNeutral ==
  /\ \A i \in todo : i \in DOMAIN results /\ results[i].verdict = "NEUTRAL"
  /\ pc \in {"persist", "counted"} => todo = {}

LinkedFresh ==
  \A i \in 1..MaxClaims :
    linked[i] # {} => i \in DOMAIN results /\ results[i].on = "fresh"

\* What is on record follows the results.
DocsFollow ==
  /\ pc \in First \cup {"targeted"} => docs = <<>>
  /\ pc = "counted" => Len(docs) = n
  /\ \A i \in DOMAIN docs : i \in DOMAIN results => docs[i].verdict = results[i].verdict

\* Each further call has a claim of its own.
Handled == (DOMAIN results \ todo) \cup 1..Len(docs)
Spending ==
  /\ pc = "fused" => spent = 0
  /\ pc = "decompose" => spent <= 1
  /\ pc = "batch" => spent <= 2
  /\ pc = "retry" => spent <= 3
  /\ spent <= 4 + Cardinality(Handled)

\* Without chunks a recovery round decides nothing.
NoneDecided ==
  attempt > 0 =>
    /\ pc = "persist" => budget = 0
    /\ ~chunks => \A i \in DOMAIN docs : docs[i].verdict = "NEUTRAL"

OwnWhileCapLasts == ~Exhausted => \A i \in DOMAIN docs : docs[i].about = i

ExitIsOver == pc \in {"persist", "counted"} /\ exited => OverThreshold

IInv ==
  /\ Types /\ LastUsable /\ ResultsOwn /\ TodoNeutral /\ LinkedFresh /\ DocsFollow
  /\ Spending /\ NoneDecided /\ OwnWhileCapLasts /\ ExitIsOver /\ LinksMatchContext

-----------------------------------------------------------------------------
LEMMA BoundedCount ==
  ASSUME NEW m \in Nat, NEW S, S \subseteq 1..m
  PROVE  IsFiniteSet(S) /\ Cardinality(S) \in 0..m
<1>1. IsFiniteSet(1..m) /\ Cardinality(1..m) = m
  BY FS_Interval
<1>2. IsFiniteSet(S) /\ Cardinality(S) <= m
  BY <1>1, FS_Subset
<1>3. Cardinality(S) \in Nat
  BY <1>2, FS_CardinalityType
<1> QED BY <1>2, <1>3

\* The calls never grow less, and grow by one at most.
LEMMA SpendStep ==
  ASSUME Types, Spend({0, 1}) \/ Spend({0}) \/ Spend({1}) \/ UNCHANGED ledger
  PROVE  /\ calls' \in Nat /\ calls' >= calls
         /\ spent' \in Nat /\ spent' >= spent /\ spent' <= spent + 1
  BY DEF Types, Spend, ledger

LEMMA CapStaysReached ==
  ASSUME Types, calls' \in Nat, calls' >= calls, Exhausted
  PROVE  Exhausted'
  BY VerificationAssumption DEF Types, Exhausted

LEMMA CheckedIsUsable ==
  ASSUME NEW i \in 1..MaxClaims, NEW on \in {"chunks", RoundContext}, NEW r \in Checked(i, on)
  PROVE  Usable(r) /\ r.about = i /\ r.on = on
  BY DEF Checked, Usable, Results, RoundContext, Contexts

-----------------------------------------------------------------------------
(* The first verdicts. *)

\* A step on the way to them that leaves no results.
LEMMA OnTheWayStep ==
  ASSUME IInv, pc \in First, pc' \in First \cup {"nothing"},
         n' \in 0..MaxClaims, pc' \in {"batch", "retry"} => n' >= 1,
         UNCHANGED <<round, results, stray, todo, linked, budget, exited, last, docs, inserted>>,
         Spend({0, 1}) \/ Spend({0}),
         \/ pc' = "nothing"
         \/ pc = "fused" /\ pc' = "decompose"
         \/ pc = "decompose" /\ pc' = "batch"
         \/ pc = "batch" /\ pc' = "retry"
  PROVE  IInv'
<1> USE DEF IInv, round
<1>1. /\ calls' \in Nat /\ calls' >= calls
      /\ spent' \in Nat /\ spent' <= spent + 1
  BY SpendStep
<1>2. DOMAIN results = {} /\ todo = {} /\ docs = <<>>
  BY DEF ResultsOwn, TodoNeutral, DocsFollow
<1>3. Types'
  BY <1>1, <1>2 DEF Types, First, Pcs, Endings
<1>4. LastUsable' /\ ResultsOwn' /\ TodoNeutral' /\ LinkedFresh' /\ DocsFollow'
  BY <1>2 DEF LastUsable, Usable, ResultsOwn, TodoNeutral, LinkedFresh, DocsFollow, First
<1>5. Spending'
  <2>1. Handled = {} /\ Handled' = {}
    BY <1>2 DEF Handled
  <2>2. Cardinality({}) = 0
    BY FS_EmptySet
  <2> QED BY <1>1, <2>1, <2>2 DEF Spending, Types, First
<1>6. NoneDecided' /\ OwnWhileCapLasts' /\ ExitIsOver' /\ LinksMatchContext'
  BY <1>2 DEF NoneDecided, OwnWhileCapLasts, ExitIsOver, LinksMatchContext, First
<1> QED BY <1>3, <1>4, <1>5, <1>6

\* The verdicts of the fused call or of the batch.
LEMMA JudgedStep ==
  ASSUME IInv, pc \in First, NEW res, Judged(res), n' \in 1..MaxClaims, stray' \in Nat,
         res = [i \in DOMAIN res |-> res[i]], DOMAIN res \subseteq 1..n',
         \A i \in DOMAIN res : res[i] \in Checked(i, "chunks"),
         chunks \/ DOMAIN res = {},
         UNCHANGED <<round, linked, budget, exited, last, docs, inserted>>,
         Spend({0, 1}) \/ Spend({0}) \/ Spend({1}) \/ UNCHANGED ledger
  PROVE  IInv'
<1> USE DEF IInv, round
<1>1. /\ calls' \in Nat /\ calls' >= calls
      /\ spent' \in Nat /\ spent' <= spent + 1
  BY SpendStep
<1>2. DOMAIN results = {} /\ docs = <<>> /\ \A i \in 1..MaxClaims : linked[i] = {}
  BY DEF ResultsOwn, DocsFollow, LinkedFresh
<1>3. results' = res /\ pc' = "targeted"
  BY DEF Judged
<1>4. Types'
  BY <1>1, <1>2, <1>3 DEF Types, Pcs
<1>5. ResultsOwn'
  <2>1. ASSUME NEW i \in DOMAIN res PROVE Usable(res[i])' /\ res[i].about = i /\ res[i].on = "chunks"
    <3>1. i \in 1..MaxClaims
      BY VerificationAssumption
    <3>2. Usable(res[i]) /\ res[i].about = i /\ res[i].on = "chunks"
      BY <3>1, CheckedIsUsable
    <3> QED BY <3>2 DEF Usable
  <2> QED BY <1>3, <2>1 DEF ResultsOwn, First
<1>6. TodoNeutral'
  BY <1>3 DEF Judged, TodoNeutral, Targets, NeutralPositions
<1>7. LastUsable' /\ LinkedFresh' /\ DocsFollow'
  BY <1>2, <1>3 DEF LastUsable, Usable, LinkedFresh, DocsFollow, First
<1>8. Spending'
  <2>1. Handled' \subseteq 1..n'
    BY <1>2, <1>3 DEF Handled
  <2>2. Cardinality(Handled') \in Nat
    BY <2>1, BoundedCount, VerificationAssumption
  <2>3. spent <= 3
    <3>1. Handled = {}
      BY <1>2 DEF Handled, TodoNeutral
    <3> QED BY DEF Spending, First, Types
  <2>4. spent' <= 4 + Cardinality(Handled')
    <3>1. spent \in Nat /\ spent' \in Nat /\ spent' <= 4
      BY <1>1, <2>3 DEF Types
    <3> QED BY <2>2, <3>1
  <2> QED BY <1>3, <2>4 DEF Spending
<1>9. NoneDecided' /\ OwnWhileCapLasts' /\ ExitIsOver' /\ LinksMatchContext'
  BY <1>2, <1>3 DEF NoneDecided, OwnWhileCapLasts, ExitIsOver, LinksMatchContext
<1> QED BY <1>4, <1>5, <1>6, <1>7, <1>8, <1>9

LEMMA FirstStep ==
  ASSUME IInv,
         \/ FusedAnswers \/ FusedMisses \/ Decompose \/ DecomposeNothing
         \/ BatchAnswers \/ BatchWithoutChunks \/ BatchFails
  PROVE  IInv'
<1> USE DEF First
<1>1. CASE FusedAnswers
  <2>1. PICK m \in 1..MaxClaims : Texts(m) /\ \E res \in [1..m -> Results] :
          (\A i \in 1..m : res[i] \in Checked(i, "chunks")) /\ Judged(res)
    BY <1>1 DEF FusedAnswers
  <2>2. PICK res \in [1..m -> Results] :
          (\A i \in 1..m : res[i] \in Checked(i, "chunks")) /\ Judged(res)
    BY <2>1
  <2>3. n' = m /\ DOMAIN res = 1..m /\ res = [i \in DOMAIN res |-> res[i]]
    BY <2>1, <2>2 DEF Texts
  <2> QED BY <1>1, <2>2, <2>3, JudgedStep DEF FusedAnswers, IInv, Types
<1>2. CASE FusedMisses
  BY <1>2, OnTheWayStep DEF FusedMisses, IInv, Types, texts
<1>3. CASE Decompose
  BY <1>3, OnTheWayStep, VerificationAssumption DEF Decompose, Texts, IInv, Types
<1>4. CASE DecomposeNothing
  BY <1>4, OnTheWayStep DEF DecomposeNothing, IInv, Types, texts
<1>5. (n \in 1..MaxClaims /\ n' = n) \/ ~(BatchAnswers \/ BatchWithoutChunks \/ BatchFails)
  BY DEF BatchAnswers, BatchWithoutChunks, BatchFails, IInv, Types, texts
<1>6. CASE BatchAnswers
  <2>1. PICK found \in SUBSET (1..n) : \E res \in [found -> Results] :
          (\A i \in found : res[i] \in Checked(i, "chunks")) /\ Judged(res)
    BY <1>6 DEF BatchAnswers
  <2>2. PICK res \in [found -> Results] :
          (\A i \in found : res[i] \in Checked(i, "chunks")) /\ Judged(res)
    BY <2>1
  <2>3. DOMAIN res = found /\ res = [i \in DOMAIN res |-> res[i]]
    BY <2>2
  <2>4. /\ chunks /\ pc \in First /\ stray' \in Nat /\ Spend({1})
        /\ UNCHANGED <<round, linked, budget, exited, last, docs, inserted>>
    BY <1>6 DEF BatchAnswers
  <2>5. n' \in 1..MaxClaims /\ n' = n
    BY <1>5, <1>6
  <2> QED BY <2>2, <2>3, <2>4, <2>5, JudgedStep
<1>7. CASE BatchWithoutChunks
  <2>1. Judged(<<>>) /\ DOMAIN <<>> = {} /\ <<>> = [i \in DOMAIN <<>> |-> <<>>[i]]
    BY <1>7 DEF BatchWithoutChunks
  <2> QED BY <1>5, <1>7, <2>1, JudgedStep DEF BatchWithoutChunks, IInv, Types
<1>8. CASE BatchFails /\ pc = "batch"
  BY <1>5, <1>8, OnTheWayStep DEF BatchFails, IInv, Types
<1>9. CASE BatchFails /\ pc = "retry"
  <2>1. Judged(<<>>) /\ DOMAIN <<>> = {} /\ <<>> = [i \in DOMAIN <<>> |-> <<>>[i]]
    BY <1>9 DEF BatchFails
  <2> QED BY <1>5, <1>9, <2>1, JudgedStep DEF BatchFails, IInv, Types
<1> QED BY <1>1, <1>2, <1>3, <1>4, <1>6, <1>7, <1>8, <1>9 DEF BatchFails

-----------------------------------------------------------------------------
(* Targeted retrieval. *)

LEMMA HandledInRange ==
  ASSUME IInv
  PROVE  /\ Handled \subseteq 1..n
         /\ IsFiniteSet(Handled) /\ Cardinality(Handled) \in 0..n
<1>1. 1..Len(docs) \subseteq 1..n /\ n \in Nat
  BY VerificationAssumption DEF IInv, Types
<1>2. Handled \subseteq 1..n
  BY <1>1 DEF IInv, ResultsOwn, Handled
<1> QED BY <1>1, <1>2, BoundedCount

\* A claim more is handled.
LEMMA OneMoreHandled ==
  ASSUME IInv, NEW i, i \notin Handled, Handled' = Handled \cup {i},
         spent' \in Nat, spent' <= spent + 1, pc' \notin First
  PROVE  Spending'
<1>1. Cardinality(Handled') = Cardinality(Handled) + 1
  BY HandledInRange, FS_AddElement
<1>2. Cardinality(Handled) \in Nat
  BY HandledInRange, VerificationAssumption DEF IInv, Types
<1> QED BY <1>1, <1>2 DEF Spending, First, IInv, Types

LEMMA TargetedStep ==
  ASSUME IInv, TargetedKeeps \/ TargetedFlips
  PROVE  IInv'
<1> USE DEF IInv, round, texts
<1>1. PICK i \in todo :
        /\ todo' = todo \ {i}
        /\ \/ UNCHANGED <<results, linked>>
           \/ \E r \in Checked(i, "fresh") :
                /\ r.verdict # "NEUTRAL"
                /\ results' = [results EXCEPT ![i] = [r EXCEPT !.segments = {}]]
                /\ linked' = [linked EXCEPT ![i] = {"fresh"} \X (r.segments \cap 1..SegmentCount)]
  BY DEF TargetedKeeps, TargetedFlips
<1>2. /\ pc = "targeted" /\ pc' = pc
      /\ Spend({0, 1}) \/ Spend({1})
      /\ UNCHANGED <<round, texts, stray, budget, exited, last, docs, inserted>>
  BY DEF TargetedKeeps, TargetedFlips
<1>3. /\ calls' \in Nat /\ calls' >= calls
      /\ spent' \in Nat /\ spent' <= spent + 1
  BY <1>2, SpendStep
<1>4. i \in DOMAIN results /\ results[i].verdict = "NEUTRAL" /\ i \in 1..MaxClaims /\ docs = <<>>
  BY <1>2, VerificationAssumption DEF TodoNeutral, DocsFollow, ResultsOwn, Types
<1>5. DOMAIN results' = DOMAIN results /\ \A j \in DOMAIN results \ {i} : results'[j] = results[j]
  BY <1>1
<1>6. results' = [j \in DOMAIN results' |-> results'[j]]
  BY <1>1 DEF ResultsOwn
<1>7. Types'
  <2>1. linked' \in [1..MaxClaims -> SUBSET ({"fresh"} \X (1..SegmentCount))]
    BY <1>1, <1>4 DEF Types
  <2> QED BY <1>2, <1>3, <2>1 DEF Types
<1>8. \/ results'[i] = results[i] /\ linked' = linked
      \/ /\ results'[i] \in Results /\ results'[i].segments = {}
         /\ results'[i].about = i /\ results'[i].on = "fresh"
         /\ \A j \in 1..MaxClaims \ {i} : linked'[j] = linked[j]
  <2>1. CASE UNCHANGED <<results, linked>>
    BY <2>1
  <2>2. ASSUME NEW r \in Checked(i, "fresh"),
               results' = [results EXCEPT ![i] = [r EXCEPT !.segments = {}]],
               linked' = [linked EXCEPT ![i] = {"fresh"} \X (r.segments \cap 1..SegmentCount)]
        PROVE  /\ results'[i] \in Results /\ results'[i].segments = {}
               /\ results'[i].about = i /\ results'[i].on = "fresh"
               /\ \A j \in 1..MaxClaims \ {i} : linked'[j] = linked[j]
    <3>1. results'[i] = [r EXCEPT !.segments = {}]
      BY <1>4, <2>2
    <3>2. [r EXCEPT !.segments = {}] \in Results
      BY <1>4 DEF Checked, Results, Contexts
    <3> QED BY <2>2, <3>1, <3>2 DEF Checked, Types
  <2> QED BY <1>1, <2>1, <2>2
<1>9. ResultsOwn'
  <2>1. Usable(results[i])' /\ results'[i].about = i /\ results'[i].on \in {"chunks", "fresh"}
    BY <1>2, <1>4, <1>8 DEF ResultsOwn, Usable
  <2>2. ASSUME NEW j \in DOMAIN results \ {i}
        PROVE  /\ Usable(results[j])' /\ results'[j].about = j
               /\ results'[j].on \in {"chunks", "fresh"}
    BY <1>2, <1>5 DEF ResultsOwn, Usable
  <2>3. DOMAIN results' \subseteq 1..n' /\ (pc' \in First \/ ~chunks' => DOMAIN results' = {})
    BY <1>2, <1>5 DEF ResultsOwn
  <2> QED BY <1>5, <1>6, <2>1, <2>2, <2>3 DEF ResultsOwn
<1>10. TodoNeutral'
  BY <1>1, <1>2, <1>5 DEF TodoNeutral
<1>11. LinkedFresh'
  BY <1>4, <1>5, <1>8 DEF LinkedFresh
<1>12. LastUsable' /\ DocsFollow'
  BY <1>2, <1>4 DEF LastUsable, Usable, DocsFollow
<1>13. Spending'
  <2>1. i \notin Handled /\ Handled' = Handled \cup {i}
    BY <1>1, <1>2, <1>4, <1>5 DEF Handled
  <2> QED BY <1>2, <1>3, <2>1, OneMoreHandled DEF First
<1>14. NoneDecided' /\ OwnWhileCapLasts' /\ ExitIsOver' /\ LinksMatchContext'
  BY <1>2, <1>4 DEF NoneDecided, OwnWhileCapLasts, ExitIsOver, LinksMatchContext
<1> QED BY <1>7, <1>9, <1>10, <1>11, <1>12, <1>13, <1>14

LEMMA StartPersistingStep ==
  ASSUME IInv, StartPersisting
  PROVE  IInv'
<1> USE DEF IInv, StartPersisting, round, texts, ledger
<1>1. docs = <<>>
  BY DEF DocsFollow
<1>2. Types'
  BY <1>1, VerificationAssumption DEF Types, Pcs, OverThreshold
<1>3. LastUsable' /\ ResultsOwn' /\ TodoNeutral' /\ LinkedFresh' /\ DocsFollow'
  BY <1>1 DEF LastUsable, Usable, ResultsOwn, TodoNeutral, LinkedFresh, DocsFollow, First
<1>4. Spending'
  BY DEF Spending, Handled
<1>5. NoneDecided' /\ OwnWhileCapLasts' /\ LinksMatchContext'
  BY <1>1 DEF NoneDecided, OwnWhileCapLasts, LinksMatchContext
<1>6. ExitIsOver'
  <2>1. OverThreshold' = OverThreshold
    BY DEF OverThreshold, Contradictions
  <2> QED BY <2>1 DEF ExitIsOver
<1> QED BY <1>2, <1>3, <1>4, <1>5, <1>6

-----------------------------------------------------------------------------
(* The loop over the claims. *)

\* A turn that puts r on record.
LEMMA AppendStep ==
  ASSUME IInv, InLoop, NEW r, Append1(r), Usable(r),
         Position \in DOMAIN results => r = results[Position],
         Exhausted \/ r.about = Position,
         attempt > 0 /\ ~chunks => r.verdict = "NEUTRAL",
         pc' = pc, budget' \in Nat, budget' <= budget,
         calls' \in Nat, calls' >= calls, spent' \in Nat, spent' <= spent + 1,
         Position \in DOMAIN results => spent' = spent,
         UNCHANGED <<round, texts, results, stray, todo, linked, exited, inserted>>
  PROVE  IInv'
<1> USE DEF IInv, round, texts
<1> DEFINE d == [verdict |-> r.verdict, about |-> r.about, on |-> r.on, evidence |-> Links(Position, r)]
<1>1. pc = "persist" /\ Position = Len(docs) + 1 /\ Position \in 1..n /\ Position \in 1..MaxClaims
  BY VerificationAssumption DEF InLoop, Position, Types
<1>2. last' = r /\ docs' = Append(docs, d)
  BY DEF Append1
<1>3. d \in Docs
  <2>1. Links(Position, r) \in SUBSET Links1
    BY <1>1 DEF Links, InContext, Links1, Types
  <2> QED BY <2>1 DEF Usable, Results, Docs
<1> HIDE DEF d
<1>4. /\ docs' \in Seq(Docs) /\ Len(docs') = Len(docs) + 1 /\ DOMAIN docs' = 1..Len(docs')
      /\ \A i \in 1..Len(docs) : docs'[i] = docs[i]
      /\ docs'[Position] = d /\ DOMAIN docs = 1..Len(docs) /\ Len(docs) \in Nat
  BY <1>1, <1>2, <1>3 DEF Types
<1>5. DOMAIN docs' = DOMAIN docs \cup {Position}
  BY <1>1, <1>4
<1>6. d.verdict = r.verdict /\ d.about = r.about /\ d.on = r.on /\ d.evidence = Links(Position, r)
  BY DEF d
<1>7. Types'
  BY <1>1, <1>4 DEF Types
<1>8. LastUsable'
  BY <1>2 DEF LastUsable, Usable
<1>9. ResultsOwn' /\ TodoNeutral' /\ LinkedFresh' /\ ExitIsOver'
  <2>1. OverThreshold' = OverThreshold
    BY DEF OverThreshold, Contradictions
  <2>2. ResultsOwn'
    BY DEF ResultsOwn, Usable
  <2> QED BY <2>1, <2>2 DEF TodoNeutral, LinkedFresh, ExitIsOver
<1>10. DocsFollow'
  BY <1>1, <1>4, <1>5, <1>6 DEF DocsFollow, First
<1>11. Spending'
  <2>1. Handled' = Handled \cup {Position}
    BY <1>1, <1>4 DEF Handled
  <2>2. CASE Position \in DOMAIN results
    <3>1. Position \in Handled
      BY <1>1, <2>2 DEF Handled, TodoNeutral
    <3>2. Handled' = Handled
      BY <2>1, <3>1
    <3> QED BY <1>1, <2>2, <3>2 DEF Spending
  <2>3. CASE Position \notin DOMAIN results
    <3>1. Position \notin Handled
      BY <1>1, <1>4, <2>3 DEF Handled
    <3> QED BY <1>1, <2>1, <3>1, OneMoreHandled DEF First
  <2> QED BY <2>2, <2>3
<1>12. NoneDecided'
  BY <1>1, <1>4, <1>5, <1>6 DEF NoneDecided, Types
<1>13. OwnWhileCapLasts'
  <2>1. Exhausted => Exhausted'
    BY CapStaysReached
  <2> QED BY <1>4, <1>5, <1>6, <2>1 DEF OwnWhileCapLasts
<1>14. LinksMatchContext'
  <2>1. ASSUME NEW e \in d.evidence \ InContext(cites[Position]) PROVE e[1] = d.on
    <3>1. e \in InContext(r.segments \cup cites[Position]) \cup linked[Position]
      BY <1>6, <2>1 DEF Links
    <3>2. CASE e \in linked[Position]
      <4>1. Position \in DOMAIN results /\ results[Position].on = "fresh"
        BY <1>1, <3>2 DEF LinkedFresh
      <4>2. e[1] = "fresh"
        BY <1>1, <3>2 DEF Types
      <4> QED BY <1>6, <4>1, <4>2
    <3>3. CASE e \notin linked[Position]
      <4>1. chunks /\ e \in {"chunks"} \X (r.segments \cap 1..SegmentCount)
        BY <2>1, <3>1, <3>3 DEF InContext
      <4>2. e[1] = "chunks" /\ r.segments # {}
        BY <4>1
      <4>3. r.on = "chunks"
        BY <4>1, <4>2 DEF Usable, Results, Contexts
      <4> QED BY <1>6, <4>2, <4>3
    <3> QED BY <3>2, <3>3
  <2>2. ASSUME NEW i \in DOMAIN docs' PROVE InContext(cites[i])' = InContext(cites[i])
    BY DEF InContext
  <2> QED BY <1>4, <1>5, <2>1, <2>2 DEF LinksMatchContext
<1> QED BY <1>7, <1>8, <1>9, <1>10, <1>11, <1>12, <1>13, <1>14

LEMMA LoopStep ==
  ASSUME IInv, UseResult \/ FallBack \/ FallBackStopped \/ Skip
  PROVE  IInv'
<1>1. InLoop /\ pc = "persist" /\ Position \in 1..MaxClaims
  BY VerificationAssumption DEF UseResult, FallBack, FallBackStopped, Skip, InLoop, Position, IInv, Types
<1>2. budget \in Nat /\ calls \in Nat /\ spent \in Nat
  BY DEF IInv, Types
<1>3. Usable(Skipped(Position)) /\ Skipped(Position).about = Position
      /\ Skipped(Position).verdict = "NEUTRAL"
  BY <1>1 DEF Skipped, Usable, Results, Verdicts, Contexts
<1>4. CASE UseResult
  <2>1. Usable(results[Position]) /\ results[Position].about = Position /\ chunks
    BY <1>4 DEF UseResult, IInv, ResultsOwn, Types
  <2> QED BY <1>1, <1>2, <1>4, <2>1, AppendStep DEF UseResult, ledger
<1>5. CASE FallBack
  <2>1. /\ Position \notin DOMAIN results /\ budget' \in Nat /\ budget' <= budget
        /\ attempt = 0
        /\ UNCHANGED <<pc, round, texts, results, stray, todo, linked, exited, inserted>>
    BY <1>1, <1>2, <1>5 DEF FallBack, IInv, NoneDecided, Types
  <2>2. /\ calls' \in Nat /\ calls' >= calls /\ spent' \in Nat /\ spent' <= spent + 1
    BY <1>5, SpendStep DEF FallBack, IInv
  <2>3. CASE \E r \in Checked(Position, RoundContext) : Append1(r)
    <3>1. PICK r \in Checked(Position, RoundContext) : Append1(r)
      BY <2>3
    <3>2. Usable(r) /\ r.about = Position
      BY <1>1, <3>1, CheckedIsUsable
    <3> QED BY <1>1, <2>1, <2>2, <3>1, <3>2, AppendStep
  <2>4. CASE Append1(Skipped(Position))
    BY <1>1, <1>3, <2>1, <2>2, <2>4, AppendStep
  <2> QED BY <1>5, <2>3, <2>4 DEF FallBack
<1>6. CASE FallBackStopped /\ last # Unbound
  <2>1. /\ Usable(last) /\ Append1(last) /\ pc' = pc /\ Exhausted /\ attempt = 0
        /\ Position \notin DOMAIN results
    BY <1>1, <1>6 DEF FallBackStopped, IInv, LastUsable, NoneDecided, Types
  <2> QED BY <1>1, <1>2, <1>6, <2>1, AppendStep DEF FallBackStopped, ledger
<1>7. CASE FallBackStopped /\ last = Unbound
  BY <1>7 DEF FallBackStopped, IInv, round, texts, ledger, Types, Pcs, Endings, LastUsable, Usable,
     ResultsOwn, First, TodoNeutral, LinkedFresh, DocsFollow, Spending, Handled, NoneDecided,
     OwnWhileCapLasts, Exhausted, ExitIsOver, LinksMatchContext, InContext
<1>8. CASE Skip
  BY <1>1, <1>2, <1>3, <1>8, AppendStep DEF Skip, ledger
<1> QED BY <1>4, <1>5, <1>6, <1>7, <1>8

LEMMA EndStep ==
  ASSUME IInv, Insert \/ BreaksOff \/ Ended
  PROVE  IInv'
<1> USE DEF IInv, Insert, BreaksOff, Ended, vars, round, texts, ledger
<1>1. Types'
  BY DEF Types, Pcs, Endings
<1>2. LastUsable' /\ LinkedFresh'
  BY DEF LastUsable, Usable, LinkedFresh
<1>3. ResultsOwn'
  BY DEF ResultsOwn, Usable, First
<1>4. TodoNeutral'
  BY DEF TodoNeutral
<1>5. DocsFollow'
  BY DEF DocsFollow, First, Position, Types
<1>6. Spending'
  BY DEF Spending, Handled
<1>7. NoneDecided' /\ LinksMatchContext'
  BY DEF NoneDecided, LinksMatchContext, InContext
<1>8. OwnWhileCapLasts' /\ ExitIsOver'
  BY DEF OwnWhileCapLasts, Exhausted, ExitIsOver, OverThreshold, Contradictions
<1> QED BY <1>1, <1>2, <1>3, <1>4, <1>5, <1>6, <1>7, <1>8

-----------------------------------------------------------------------------
(* The theorems. *)

LEMMA InvariantStep ==
  ASSUME IInv, [Next]_vars
  PROVE  IInv'
<1>1. CASE UNCHANGED vars
  BY <1>1, EndStep DEF Ended, vars, IInv, Types, Pcs, First, Endings, LastUsable, Usable,
     ResultsOwn, TodoNeutral, LinkedFresh, DocsFollow, Spending, Handled, NoneDecided,
     OwnWhileCapLasts, Exhausted, ExitIsOver, OverThreshold, Contradictions,
     LinksMatchContext, InContext
<1> QED BY <1>1, FirstStep, TargetedStep, StartPersistingStep, LoopStep, EndStep DEF Next

LEMMA InvariantInit ==
  ASSUME Init
  PROVE  IInv
<1> USE DEF Init
<1>1. Types /\ LastUsable
  <2>1. calls \in Nat /\ n \in 0..MaxClaims /\ attempt \in Nat
    BY VerificationAssumption
  <2>2. docs \in Seq(Docs) /\ Len(docs) = 0
    OBVIOUS
  <2>3. linked \in [1..MaxClaims -> SUBSET ({"fresh"} \X (1..SegmentCount))]
    OBVIOUS
  <2>4. /\ stray \in Nat /\ budget \in Nat /\ spent \in Nat /\ Len(docs) <= n
        /\ pc \notin {"batch", "retry", "targeted", "persist", "counted"}
    BY <2>2
  <2>6. /\ pc \in Pcs /\ chunks \in BOOLEAN /\ exited \in BOOLEAN /\ inserted \in BOOLEAN
    BY DEF Pcs, First
  <2>5. LastUsable
    BY DEF LastUsable
  <2> HIDE DEF Init
  <2> QED BY <2>1, <2>2, <2>3, <2>4, <2>5, <2>6 DEF Types
<1>2. ResultsOwn /\ TodoNeutral /\ LinkedFresh /\ DocsFollow
  BY DEF ResultsOwn, TodoNeutral, LinkedFresh, DocsFollow
<1>3. Spending
  <2>1. Handled = {}
    BY DEF Handled
  <2> QED BY <2>1, FS_EmptySet DEF Spending
<1>4. NoneDecided /\ OwnWhileCapLasts /\ ExitIsOver /\ LinksMatchContext
  BY DEF NoneDecided, OwnWhileCapLasts, ExitIsOver, LinksMatchContext
<1> QED BY <1>1, <1>2, <1>3, <1>4 DEF IInv

\* The inductive invariant of one verification: results are about their own
\* claims, links belong to the context of the result, and each further call has a
\* claim of its own (execute_claim_verification).
THEOREM VerificationInvariant == Spec => []IInv
<1> QED BY InvariantInit, InvariantStep, PTL DEF Spec

\* Segment numbers of one context are never read in another: a claim is linked,
\* but for what its text cites, to evidence of the context it was decided on.
THEOREM LinksAreOfTheirContext == Spec => []LinksMatchContext
<1>1. IInv => LinksMatchContext
  BY DEF IInv
<1> QED BY <1>1, VerificationInvariant, PTL

\* As long as the budget of calls lasts, the loop over the claims files every
\* verdict under the claim it was reached about.
THEOREM VerdictsAreAboutTheirClaims == Spec => []VerdictsAreOwn
<1>1. IInv => VerdictsAreOwn
  BY DEF IInv, OwnWhileCapLasts, VerdictsAreOwn
<1> QED BY <1>1, VerificationInvariant, PTL

\* How many of the claims on record have each verdict.
LEMMA CountsAddUp ==
  ASSUME IInv, Len(docs) = n, n >= 1
  PROVE  /\ CountsOf \in [sup: 0..MaxClaims, con: 0..MaxClaims, neu: 0..MaxClaims]
         /\ Total(CountsOf) = n /\ n \in 1..MaxClaims
<1> DEFINE H(v) == {i \in DOMAIN docs : docs[i].verdict = v}
<1>1. n \in 1..MaxClaims /\ DOMAIN docs = 1..n
  BY VerificationAssumption DEF IInv, Types
<1>2. \A i \in DOMAIN docs : docs[i].verdict \in Verdicts
  <2>1. \A i \in DOMAIN docs : docs[i] \in Docs
    BY DEF IInv, Types
  <2> QED BY <2>1 DEF Docs
<1>3. \A v : H(v) \subseteq 1..n
  BY <1>1
<1>4. \A v : IsFiniteSet(H(v)) /\ Cardinality(H(v)) \in 0..n
  <2> SUFFICES ASSUME NEW v PROVE IsFiniteSet(H(v)) /\ Cardinality(H(v)) \in 0..n
    OBVIOUS
  <2> HIDE DEF H
  <2> QED BY <1>1, <1>3, BoundedCount
<1>5. 1..n = (H("SUPPORTED") \cup H("CONTRADICTED")) \cup H("NEUTRAL")
  BY <1>1, <1>2 DEF Verdicts
<1>6. H("SUPPORTED") \cap H("CONTRADICTED") = {}
  OBVIOUS
<1>7. (H("SUPPORTED") \cup H("CONTRADICTED")) \cap H("NEUTRAL") = {}
  OBVIOUS
<1>8. \A v : Having(v) = Cardinality(H(v))
  BY DEF Having
<1> HIDE DEF H
<1>9. Cardinality(1..n) = n
  BY <1>1, FS_Interval
<1>10. /\ IsFiniteSet(H("SUPPORTED") \cup H("CONTRADICTED"))
       /\ Cardinality(H("SUPPORTED") \cup H("CONTRADICTED"))
            = Cardinality(H("SUPPORTED")) + Cardinality(H("CONTRADICTED"))
  <2>1. Cardinality({}) = 0
    BY FS_EmptySet
  <2>2. IsFiniteSet(H("SUPPORTED")) /\ IsFiniteSet(H("CONTRADICTED"))
    BY <1>4
  <2>3. /\ IsFiniteSet(H("SUPPORTED") \cup H("CONTRADICTED"))
        /\ Cardinality(H("SUPPORTED") \cup H("CONTRADICTED"))
             = Cardinality(H("SUPPORTED")) + Cardinality(H("CONTRADICTED"))
                 - Cardinality(H("SUPPORTED") \cap H("CONTRADICTED"))
    BY <2>2, FS_Union
  <2>4. /\ Cardinality(H("SUPPORTED")) \in Nat /\ Cardinality(H("CONTRADICTED")) \in Nat
    BY <1>1, <1>4
  <2>5. Cardinality(H("SUPPORTED") \cap H("CONTRADICTED")) = 0
    BY <1>6, <2>1, Zenon
  <2> QED BY <2>3, <2>4, <2>5
<1>11. n = Cardinality(H("SUPPORTED")) + Cardinality(H("CONTRADICTED")) + Cardinality(H("NEUTRAL"))
  <2>1. Cardinality({}) = 0
    BY FS_EmptySet
  <2>2. Cardinality((H("SUPPORTED") \cup H("CONTRADICTED")) \cup H("NEUTRAL"))
          = Cardinality(H("SUPPORTED") \cup H("CONTRADICTED")) + Cardinality(H("NEUTRAL"))
              - Cardinality({})
    BY <1>4, <1>7, <1>10, FS_Union
  <2>3. /\ Cardinality(H("SUPPORTED")) \in Nat /\ Cardinality(H("CONTRADICTED")) \in Nat
        /\ Cardinality(H("NEUTRAL")) \in Nat
    BY <1>1, <1>4
  <2>4. n = Cardinality((H("SUPPORTED") \cup H("CONTRADICTED")) \cup H("NEUTRAL"))
    BY <1>5, <1>9
  <2> QED BY <1>10, <2>1, <2>2, <2>3, <2>4
<1>12. \A v : Cardinality(H(v)) \in 0..MaxClaims
  BY <1>1, <1>4, VerificationAssumption
<1>13. CountsOf = [sup |-> Cardinality(H("SUPPORTED")), con |-> Cardinality(H("CONTRADICTED")),
                   neu |-> Cardinality(H("NEUTRAL"))]
  BY <1>8 DEF CountsOf
<1> QED BY <1>1, <1>11, <1>12, <1>13 DEF Total

\* The early exit on contradictions never decides the verdict: what it skips
\* could not have saved the answer, as long as the batch numbers its rows as it
\* was told.
THEOREM EarlyExitsFail == Spec => []EarlyExitFails
<1>1. IInv => EarlyExitFails
  <2> SUFFICES ASSUME IInv, pc = "counted", exited, stray = 0
               PROVE  ComputeVerdict(CountsOf, FALSE).diagnosis = "EVIDENCE_CONFLICT"
    BY DEF EarlyExitFails
  <2> DEFINE R == {i \in DOMAIN results : results[i].verdict = "CONTRADICTED"}
             D == {i \in DOMAIN docs : docs[i].verdict = "CONTRADICTED"}
  <2>1. DOMAIN docs = 1..n /\ n \in Nat
    BY VerificationAssumption DEF IInv, Types, DocsFollow
  <2>2. R \subseteq D /\ D \subseteq 1..n
    BY <2>1 DEF IInv, ResultsOwn, DocsFollow
  <2>3. Contradictions = Cardinality(R) /\ CountsOf.con = Cardinality(D)
    <3>1. Cardinality(R) \in Nat
      BY <2>1, <2>2, BoundedCount
    <3> QED BY <3>1 DEF Contradictions, CountsOf, Having
  <2> HIDE DEF R, D
  <2>4. Cardinality(R) <= Cardinality(D) /\ Cardinality(R) \in Nat /\ Cardinality(D) \in Nat
    <3>1. IsFiniteSet(D) /\ Cardinality(D) \in 0..n
      BY <2>1, <2>2, BoundedCount
    <3>2. R \subseteq 1..n
      BY <2>2
    <3>3. Cardinality(R) \in 0..n
      BY <2>1, <3>2, BoundedCount
    <3>4. Cardinality(R) <= Cardinality(D)
      BY <2>2, <3>1, FS_Subset
    <3> QED BY <2>1, <3>1, <3>3, <3>4
  <2>5. 100 * Cardinality(R) > MaxContradiction * n
    BY <2>3 DEF IInv, ExitIsOver, OverThreshold
  <2>6. Total(CountsOf) = n /\ n # 0
    BY CountsAddUp DEF IInv, Types, DocsFollow
  <2>7. MaxContradiction * n \in Nat
    BY <2>1, ThresholdsAssumption
  <2>8. ~PassesContradiction(CountsOf)
    BY <2>3, <2>4, <2>5, <2>6, <2>7 DEF PassesContradiction
  <2> QED BY <2>6, <2>8 DEF ComputeVerdict, DiagnosisType, Passes
<1> QED BY <1>1, VerificationInvariant, PTL

\* A decided claim stays as it is to the end of the round: no failure of a later
\* call, and no targeted retrieval, undoes it.
THEOREM DecidedClaimsStay == Spec => DecidedStays
<1>1. ASSUME IInv, [Next]_vars, NEW i \in DOMAIN results, results[i].verdict # "NEUTRAL"
      PROVE  results'[i] = results[i]
  <2>1. pc \notin First
    BY <1>1 DEF IInv, ResultsOwn
  <2>2. CASE TargetedFlips
    <3>1. PICK j \in todo : \E r \in Checked(j, "fresh") :
            results' = [results EXCEPT ![j] = [r EXCEPT !.segments = {}]]
      BY <2>2 DEF TargetedFlips
    <3>2. i # j
      BY <1>1 DEF IInv, TodoNeutral
    <3> QED BY <3>1, <3>2
  <2>3. CASE ~TargetedFlips
    BY <1>1, <2>1, <2>3 DEF Next, First, FusedAnswers, FusedMisses, Decompose, DecomposeNothing,
       BatchAnswers, BatchWithoutChunks, BatchFails, TargetedKeeps, StartPersisting,
       UseResult, FallBack, FallBackStopped, Skip, Insert, BreaksOff, Ended, vars
  <2> QED BY <2>2, <2>3
<1>2. IInv /\ [Next]_vars =>
        [\A i \in DOMAIN results : results[i].verdict # "NEUTRAL" => results'[i] = results[i]]_vars
  BY <1>1
<1> QED BY <1>2, VerificationInvariant, PTL DEF Spec, DecidedStays

-----------------------------------------------------------------------------
(* ClaimVerification implements ClaimCheck. *)

AbstractPhase == IF pc \in Endings THEN pc ELSE "checking"
AbstractCounts == IF pc = "counted" THEN CountsOf ELSE NoCounts

LEMMA AbstractNext ==
  Abstract!Next <=>
    \/ /\ AbstractPhase = "checking" /\ spent < CallBound /\ spent' = spent + 1
       /\ UNCHANGED <<AbstractPhase, AbstractCounts, inserted, chunks, attempt>>
    \/ /\ AbstractPhase = "checking" /\ AbstractPhase' = "counted"
       /\ AbstractCounts' \in [sup: 0..MaxClaims, con: 0..MaxClaims, neu: 0..MaxClaims]
       /\ Total(AbstractCounts') \in 1..MaxClaims
       /\ chunks \/ attempt = 0 \/ (AbstractCounts'.sup = 0 /\ AbstractCounts'.con = 0)
       /\ inserted' = TRUE
       /\ UNCHANGED <<spent, chunks, attempt>>
    \/ /\ AbstractPhase = "checking" /\ AbstractPhase' = "nothing"
       /\ spent' \in {spent, spent + 1} \cap 0..CallBound
       /\ UNCHANGED <<AbstractCounts, inserted, chunks, attempt>>
    \/ /\ AbstractPhase = "checking" /\ AbstractPhase' = "broken"
       /\ inserted' \in BOOLEAN
       /\ UNCHANGED <<AbstractCounts, spent, chunks, attempt>>
  BY DEF Abstract!Next, Abstract!Call, Abstract!Counted, Abstract!Nothing, Abstract!BreaksOff,
     Abstract!Possible, Abstract!Total, Abstract!NoCounts, NoCounts, Total, AbstractPhase,
     AbstractCounts, Endings

LEMMA AbstractStutters ==
  ASSUME UNCHANGED <<AbstractPhase, AbstractCounts, spent, inserted, chunks, attempt>>
  PROVE  UNCHANGED Abstract!vars
  BY DEF Abstract!vars, Abstract!NoCounts, NoCounts, AbstractPhase, AbstractCounts, Endings

\* While it goes on, a step completes a call or none.
LEMMA RunningRefines ==
  ASSUME IInv, IInv', Next, pc \notin Endings, pc' \notin Endings
  PROVE  Abstract!Next \/ UNCHANGED Abstract!vars
<1>1. UNCHANGED <<AbstractPhase, AbstractCounts>> /\ AbstractPhase = "checking"
  BY DEF AbstractPhase, AbstractCounts, Endings
<1>2. /\ UNCHANGED <<chunks, attempt, inserted>>
      /\ Spend({0, 1}) \/ Spend({0}) \/ Spend({1}) \/ UNCHANGED ledger
  BY DEF Next, round, Endings, FusedAnswers, FusedMisses, Decompose, DecomposeNothing, BatchAnswers,
     BatchWithoutChunks, BatchFails, TargetedKeeps, TargetedFlips, StartPersisting, UseResult,
     FallBack, FallBackStopped, Skip, Insert, BreaksOff, Ended
<1>3. spent \in Nat /\ (spent' = spent \/ spent' = spent + 1)
  BY <1>2, SpendStep DEF IInv, Types
<1>4. spent' <= CallBound
  <2>1. (IInv => Handled \subseteq 1..n /\ IsFiniteSet(Handled) /\ Cardinality(Handled) \in 0..n)'
    BY HandledInRange, PTL
  <2>2. Cardinality(Handled') \in 0..n' /\ n' \in 0..MaxClaims /\ spent' \in Nat
        /\ spent' <= 4 + Cardinality(Handled')
    BY <2>1 DEF IInv, Types, Spending
  <2> QED BY <2>2, VerificationAssumption DEF CallBound
<1>5. CASE spent' = spent
  BY <1>1, <1>2, <1>5, AbstractStutters
<1>6. CASE spent' = spent + 1
  <2>1. CallBound \in Nat
    BY VerificationAssumption DEF CallBound
  <2>2. spent < CallBound
    BY <1>3, <1>4, <1>6, <2>1
  <2> QED BY <1>1, <1>2, <1>6, <2>2, AbstractNext
<1> QED BY <1>3, <1>5, <1>6

LEMMA InsertRefines ==
  ASSUME IInv, Insert
  PROVE  Abstract!Next
<1>1. Len(docs) = n /\ n >= 1 /\ pc = "persist"
  BY VerificationAssumption DEF Insert, Position, IInv, Types
<1>2. CountsOf' = CountsOf
  BY DEF Insert, CountsOf, Having
<1>3. CountsOf \in [sup: 0..MaxClaims, con: 0..MaxClaims, neu: 0..MaxClaims]
      /\ Total(CountsOf) \in 1..MaxClaims
  BY <1>1, CountsAddUp
<1>4. chunks \/ attempt = 0 \/ (CountsOf.sup = 0 /\ CountsOf.con = 0)
  <2> SUFFICES ASSUME ~chunks, attempt # 0
               PROVE  CountsOf.sup = 0 /\ CountsOf.con = 0
    OBVIOUS
  <2>1. attempt > 0
    BY DEF IInv, Types
  <2>2. \A i \in DOMAIN docs : docs[i].verdict = "NEUTRAL"
    BY <2>1 DEF IInv, NoneDecided
  <2>3. /\ {i \in DOMAIN docs : docs[i].verdict = "SUPPORTED"} = {}
        /\ {i \in DOMAIN docs : docs[i].verdict = "CONTRADICTED"} = {}
    BY <2>2
  <2> QED BY <2>3, FS_EmptySet DEF CountsOf, Having
<1>5. AbstractPhase = "checking" /\ AbstractPhase' = "counted" /\ AbstractCounts' = CountsOf
  BY <1>1, <1>2 DEF Insert, AbstractPhase, AbstractCounts, Endings
<1>6. inserted' = TRUE /\ UNCHANGED <<spent, chunks, attempt>>
  BY DEF Insert, round, ledger
<1> QED BY <1>3, <1>4, <1>5, <1>6, AbstractNext

LEMMA NothingRefines ==
  ASSUME IInv, DecomposeNothing
  PROVE  Abstract!Next
<1>1. /\ AbstractPhase = "checking" /\ AbstractPhase' = "nothing"
      /\ UNCHANGED <<AbstractCounts, inserted, chunks, attempt>>
  BY DEF DecomposeNothing, round, AbstractPhase, AbstractCounts, Endings
<1>2. spent' \in {spent, spent + 1} \cap 0..CallBound
  <2>1. spent \in Nat /\ spent <= 1 /\ (spent' = spent \/ spent' = spent + 1)
    BY DEF DecomposeNothing, Spend, IInv, Types, Spending
  <2> QED BY <2>1, VerificationAssumption DEF CallBound
<1> QED BY <1>1, <1>2, AbstractNext

LEMMA BrokenRefines ==
  ASSUME IInv, IInv', Next, pc \notin Endings, pc' = "broken"
  PROVE  Abstract!Next
<1>1. FallBackStopped \/ BreaksOff
  BY DEF Next, Endings, First, FusedAnswers, FusedMisses, Decompose, DecomposeNothing, BatchAnswers,
     BatchWithoutChunks, BatchFails, Judged, TargetedKeeps, TargetedFlips, StartPersisting, UseResult,
     FallBack, Skip, Insert, Ended
<1>2. UNCHANGED <<spent, chunks, attempt>>
  BY <1>1 DEF FallBackStopped, BreaksOff, round, ledger
<1>3. /\ AbstractPhase = "checking" /\ AbstractPhase' = "broken"
      /\ UNCHANGED AbstractCounts
  BY DEF AbstractPhase, AbstractCounts, Endings
<1>4. inserted' \in BOOLEAN
  BY DEF IInv, Types
<1> QED BY <1>2, <1>3, <1>4, AbstractNext

LEMMA StepRefines ==
  ASSUME IInv, [Next]_vars
  PROVE  [Abstract!Next]_(Abstract!vars)
<1>1. IInv'
  BY InvariantStep
<1>2. CASE UNCHANGED vars \/ Ended
  <2>1. UNCHANGED vars
    BY <1>2 DEF Ended
  <2>2. UNCHANGED <<pc, docs, spent, inserted, chunks, attempt>>
    BY <2>1 DEF vars
  <2> QED BY <2>2, AbstractStutters DEF AbstractPhase, AbstractCounts, CountsOf, Having
<1>3. CASE Next /\ ~Ended
  <2>1. pc \notin Endings
    BY <1>3 DEF Next, Endings, FusedAnswers, FusedMisses, Decompose, DecomposeNothing, BatchAnswers,
       BatchWithoutChunks, BatchFails, TargetedKeeps, TargetedFlips, StartPersisting, UseResult,
       FallBack, FallBackStopped, Skip, InLoop, Insert, BreaksOff
  <2>2. CASE pc' \notin Endings
    BY <1>1, <1>3, <2>1, <2>2, RunningRefines
  <2>3. CASE pc' = "broken"
    BY <1>1, <1>3, <2>1, <2>3, BrokenRefines
  <2>4. CASE pc' = "counted"
    <3>1. Insert
      BY <1>3, <2>1, <2>4 DEF Next, Endings, FusedAnswers, FusedMisses, Decompose, DecomposeNothing,
         BatchAnswers, BatchWithoutChunks, BatchFails, Judged, TargetedKeeps, TargetedFlips,
         StartPersisting, UseResult, FallBack, FallBackStopped, Skip, InLoop, BreaksOff
    <3> QED BY <3>1, InsertRefines
  <2>5. CASE pc' = "nothing"
    <3>1. DecomposeNothing
      BY <1>3, <2>1, <2>5 DEF Next, Endings, FusedAnswers, FusedMisses, Decompose, Insert,
         BatchAnswers, BatchWithoutChunks, BatchFails, Judged, TargetedKeeps, TargetedFlips,
         StartPersisting, UseResult, FallBack, FallBackStopped, Skip, InLoop, BreaksOff
    <3> QED BY <3>1, NothingRefines
  <2> QED BY <2>2, <2>3, <2>4, <2>5 DEF Endings
<1> QED BY <1>2, <1>3

\* One verification is what the reliability loop takes it for: each step of it is
\* a completed call, an end that ClaimCheck allows, or nothing the loop sees.
THEOREM VerificationImplementsClaimCheck == Spec => ImplementsClaimCheck
<1>1. Init => Abstract!Init
  BY DEF Init, Abstract!Init, Abstract!NoCounts, NoCounts
<1>2. IInv /\ [Next]_vars => [Abstract!Next]_(Abstract!vars)
  BY StepRefines
<1> QED BY <1>1, <1>2, VerificationInvariant, PTL DEF Spec, ImplementsClaimCheck, Abstract!Spec

=============================================================================
