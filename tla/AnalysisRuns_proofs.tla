------------------------- MODULE AnalysisRuns_proofs ------------------------
(* Proofs about the analysis service for any number of analyses and permits   *)
(* and any bounds on calls, failing writes and restarts, and about the pages  *)
(* over it.                                                                   *)
EXTENDS AnalysisPages, FiniteSetTheorems, TLAPS

\* Before the result is stored nothing is announced and no status is terminal.
Undecided == {"none", "dropped", "scheduled", "queued", "admitted", "running", "calling",
              "generating", "returned"}

\* What holds of one analysis in each phase of its task.
TaskInv(a) ==
  /\ phase[a] \in Undecided => Announced(a) = {} /\ status[a] \notin Terminal
  /\ phase[a] = "returned" => outcome[a] \in Outcomes
  /\ phase[a] = "stored" => /\ outcome[a] \in Outcomes \ {"echoed"}
                            /\ Announced(a) = {} /\ status[a] = StatusOf(outcome[a])
  /\ phase[a] = "raised" => Announced(a) = {} /\ (status[a] \in Terminal => faults >= 1)
  /\ phase[a] = "reported" => Announced(a) = {"failed"} /\ (status[a] \in Terminal => faults >= 1)
  /\ phase[a] = "done" /\ faults <= 1 /\ status[a] \in Terminal => Announced(a) = {status[a]}
  /\ phase[a] \in {"done", "lost"} => \A s \in Announced(a) \ {"failed"} : status[a] = s

\* The line holds the waiting tasks, each once.
Waiting == {"queued", "calling"}
LineInv == Once(line) /\ Members(line) = In({"queued", "calling"})

\* A permit of the semaphore for a pipeline, and another for its call.
Weight(ph) == IF ph \in {"admitted", "running", "calling"} THEN 1
              ELSE IF ph = "generating" THEN 2 ELSE 0
HeldInv == Held \in 0 .. Permits

RunInv == TypeOK /\ LineInv /\ HeldInv /\ \A a \in Analyses : TaskInv(a)

-----------------------------------------------------------------------------
(* Types.                                                                     *)

\* The write of an event keeps the trace and the queues in their types.
LEMMA RecordTyped ==
  ASSUME TypeOK, NEW a \in Analyses, NEW e \in Events, Record(a, e)
  PROVE  trace' \in [Analyses -> SUBSET Events] /\ queue' \in [Analyses -> Seq(Events)]
BY DEF TypeOK, Record

\* So does acquiring a permit, for the phases and the line.
LEMMA AcquireTyped ==
  ASSUME TypeOK, NEW a \in Analyses, NEW w \in Phases, NEW g \in Phases, Acquire(a, w, g)
  PROVE  phase' \in [Analyses -> Phases] /\ line' \in Seq(Analyses)
<1>1. phase' \in [Analyses -> Phases]
  BY DEF TypeOK, Acquire
<1>2. line' \in Seq(Analyses)
  <2>1. CASE line' = line
    BY <2>1 DEF TypeOK
  <2>2. CASE line' = Append(line, a)
    BY <2>2 DEF TypeOK
  <2> QED BY <2>1, <2>2 DEF Acquire
<1> QED BY <1>1, <1>2

\* The exception handler is entered with the types kept.
LEMMA RaiseTyped ==
  ASSUME TypeOK, NEW a \in Analyses, Raise(a)
  PROVE  TypeOK'
BY BoundsAssumption DEF TypeOK, Raise, Goto, Fails, record, sse, Phases

\* Every event of an outcome is an event, every status a status.
LEMMA OutcomesTyped ==
  ASSUME NEW o \in Outcomes \cup {"none"}
  PROVE  EventOf(o) \in Events /\ StatusOf(o) \in Statuses
BY DEF Outcomes, EventOf, StatusOf, Events, TerminalEvents, Statuses, Terminal

\* A line without one of its waiters is a line.
LEMMA WithoutTyped ==
  ASSUME NEW S, NEW s \in Seq(S), NEW i \in DOMAIN s
  PROVE  Without(s, i) \in Seq(S)
<1>1. Len(s) \in Nat \ {0} /\ i \in 1 .. Len(s) /\ DOMAIN s = 1 .. Len(s)
  OBVIOUS
<1>2. \A j \in 1 .. Len(s) - 1 : (IF j < i THEN s[j] ELSE s[j + 1]) \in S
  BY <1>1
<1> QED BY <1>1, <1>2 DEF Without

\* Every step of a task keeps the types.
LEMMA PipelineTyped ==
  ASSUME TypeOK, NEW a \in Analyses, Pipeline(a)
  PROVE  TypeOK'
<1>1. CASE Start(a)
  <2>1. phase' \in [Analyses -> Phases] /\ line' \in Seq(Analyses)
    BY <1>1, AcquireTyped DEF Start, Phases
  <2> QED BY <1>1, <2>1 DEF TypeOK, Start, record, sse, environment
<1>2. CASE MarkProcessing(a)
  BY <1>2, RaiseTyped DEF TypeOK, MarkProcessing, Goto, sse, environment, Phases, Statuses
<1>3. CASE Call(a)
  <2>1. phase' \in [Analyses -> Phases] /\ line' \in Seq(Analyses)
    BY <1>3, AcquireTyped DEF Call, Phases
  <2>2. calls' \in [Analyses -> 0 .. MaxCalls]
    BY <1>3, BoundsAssumption DEF TypeOK, Call
  <2> QED BY <1>3, <2>1, <2>2 DEF TypeOK, Call, record, sse, environment
<1>4. CASE Answer(a)
  BY <1>4 DEF TypeOK, Answer, Goto, record, sse, environment, Phases
<1>5. CASE TimeOut(a)
  <2>1. line' \in Seq(Analyses)
    <3>1. CASE line' = line
      BY <3>1 DEF TypeOK
    <3>2. ASSUME NEW i \in DOMAIN line, line' = Without(line, i)
          PROVE  line' \in Seq(Analyses)
      BY <3>2, WithoutTyped DEF TypeOK
    <3> QED BY <1>5, <3>1, <3>2 DEF TimeOut
  <2> QED BY <1>5, <2>1 DEF TypeOK, TimeOut, Goto, record, sse, environment, Phases
<1>6. CASE Return(a)
  BY <1>6 DEF TypeOK, Return, Goto, record, sse, environment, Phases
<1>7. CASE LoopRaises(a)
  BY <1>7 DEF TypeOK, LoopRaises, Goto, record, sse, environment, Phases
<1>8. CASE DiscardEcho(a)
  <2>1. CASE Raise(a)
    BY <2>1, RaiseTyped
  <2>2. CASE ~Raise(a)
    <3>1. Record(a, "generation.degenerate")
      BY <1>8, <2>2 DEF DiscardEcho
    <3>2. trace' \in [Analyses -> SUBSET Events] /\ queue' \in [Analyses -> Seq(Events)]
      BY <3>1, RecordTyped DEF Events
    <3> QED BY <1>8, <2>2, <3>2 DEF TypeOK, DiscardEcho, environment, Outcomes
  <2> QED BY <2>1, <2>2
<1>9. CASE StoreResult(a)
  <2>1. outcome[a] \in Outcomes \cup {"none"}
    BY DEF TypeOK
  <2>2. CASE Raise(a)
    BY <2>2, RaiseTyped
  <2>3. CASE ~Raise(a)
    BY <1>9, <2>1, <2>3, OutcomesTyped
       DEF TypeOK, StoreResult, Goto, sse, environment, Phases
  <2> QED BY <2>2, <2>3
<1>10. CASE Announce(a)
  <2>1. CASE Raise(a)
    BY <2>1, RaiseTyped
  <2>2. CASE ~Raise(a)
    <3>1. EventOf(outcome[a]) \in Events
      BY OutcomesTyped DEF TypeOK
    <3>2. trace' \in [Analyses -> SUBSET Events] /\ queue' \in [Analyses -> Seq(Events)]
      BY <1>10, <2>2, <3>1, RecordTyped DEF Announce
    <3> QED BY <1>10, <2>2, <3>2 DEF TypeOK, Announce, Goto, environment, Phases, Over
  <2> QED BY <2>1, <2>2
<1>11. CASE AnnounceFailure(a)
  <2>1. trace' \in [Analyses -> SUBSET Events] /\ queue' \in [Analyses -> Seq(Events)]
    <3>1. "analysis.failed" \in Events
      BY DEF Events, TerminalEvents
    <3>2. CASE Record(a, "analysis.failed")
      BY <3>1, <3>2, RecordTyped
    <3>3. CASE UNCHANGED <<trace, queue>>
      BY <3>3 DEF TypeOK
    <3> QED BY <1>11, <3>2, <3>3 DEF AnnounceFailure
  <2>2. phase' \in [Analyses -> Phases]
    BY <1>11 DEF TypeOK, AnnounceFailure, Goto, Phases, Over
  <2>3. faults' \in 0 .. MaxFaults /\ crashes' \in 0 .. MaxCrashes
    BY <1>11, BoundsAssumption DEF TypeOK, AnnounceFailure, Fails, environment
  <2> QED BY <1>11, <2>1, <2>2, <2>3 DEF TypeOK, AnnounceFailure
<1>12. CASE StoreFailure(a)
  BY <1>12, BoundsAssumption DEF TypeOK, StoreFailure, Goto, Fails, sse, environment, Phases, Over, Statuses, Terminal
<1> QED BY <1>1, <1>2, <1>3, <1>4, <1>5, <1>6, <1>7, <1>8, <1>9, <1>10, <1>11, <1>12 DEF Pipeline

\* Every step of the service keeps the types.
LEMMA StepTyped ==
  ASSUME TypeOK, [ServiceNext]_serviceVars
  PROVE  TypeOK'
<1>1. CASE \E a \in Analyses : Pipeline(a)
  BY <1>1, PipelineTyped
<1>2. CASE \E a \in Analyses : Send(a)
  <2>1. PICK a \in Analyses : Send(a)
    BY <1>2
  <2>2. queue[a] \in Seq(Events) /\ queue[a] # <<>>
    BY <2>1 DEF TypeOK, Send
  <2>3. Tail(queue[a]) \in Seq(Events) /\ <<>> \in Seq(Events)
    BY <2>2
  <2>4. queue' \in [Analyses -> Seq(Events)]
    BY <2>1, <2>3 DEF TypeOK, Send, Closed
  <2> QED BY <2>1, <2>4 DEF TypeOK, Send, Closed, record, task, environment
<1>3. CASE \E a \in Analyses : Disconnect(a)
  BY <1>3 DEF TypeOK, Disconnect, Closed, record, task, environment
<1>4. CASE Grant
  <2>1. Head(line) \in Analyses /\ Tail(line) \in Seq(Analyses)
    BY <1>4 DEF TypeOK, Grant
  <2> QED BY <1>4, <2>1 DEF TypeOK, Grant, record, sse, environment, Phases
<1>5. CASE Crash
  BY <1>5, BoundsAssumption DEF TypeOK, Crash, record, Phases, Over
<1>6. CASE \E a \in Analyses : Create(a)
  <2>1. PICK a \in Analyses : Create(a)
    BY <1>6
  <2>2. trace' \in [Analyses -> SUBSET Events] /\ queue' \in [Analyses -> Seq(Events)]
    <3>1. "analysis.started" \in Events
      BY DEF Events
    <3>2. CASE Record(a, "analysis.started")
      BY <3>1, <3>2, RecordTyped
    <3>3. CASE UNCHANGED <<trace, queue>>
      BY <3>3 DEF TypeOK
    <3> QED BY <2>1, <3>2, <3>3 DEF Create
  <2>3. phase' \in [Analyses -> Phases] /\ status' \in [Analyses -> Statuses]
    BY <2>1 DEF TypeOK, Create, Goto, Phases, Over, Statuses
  <2>4. faults' \in 0 .. MaxFaults /\ crashes' \in 0 .. MaxCrashes
    BY <2>1, BoundsAssumption DEF TypeOK, Create, Fails, environment
  <2> QED BY <2>1, <2>2, <2>3, <2>4 DEF TypeOK, Create
<1>7. CASE \E a \in Analyses, granted \in BOOLEAN : Subscribe(a, granted)
  BY <1>7 DEF TypeOK, Subscribe, record, task, environment
<1>8. CASE UNCHANGED serviceVars
  BY <1>8 DEF TypeOK, serviceVars
<1> QED BY <1>1, <1>2, <1>3, <1>4, <1>5, <1>6, <1>7, <1>8 DEF ServiceNext, ServiceStep, Request

\* The service starts in its types.
LEMMA InitTyped == Init => TypeOK
BY BoundsAssumption DEF Init, TypeOK, Phases, Over, Statuses

\* Type correctness: records, tasks, the line of the semaphore and the streams
\* stay in their types in every run of the service.
THEOREM TypeCorrect == ServiceSpec => []TypeOK
BY InitTyped, StepTyped, PTL DEF ServiceSpec

-----------------------------------------------------------------------------
(* What is announced is what is stored.                                       *)

\* A step that leaves an analysis alone keeps what holds of it: writes that
\* failed stay failed.
LEMMA FrameInv ==
  ASSUME NEW b \in Analyses, TaskInv(b), faults \in Nat, faults' \in Nat, faults' >= faults,
         phase'[b] = phase[b], status'[b] = status[b], trace'[b] = trace[b], outcome'[b] = outcome[b]
  PROVE  TaskInv(b)'
<1>1. Announced(b)' = Announced(b)
  BY DEF Announced
<1> QED BY <1>1 DEF TaskInv

\* What an event adds to what is announced.
LEMMA AnnouncedAfter ==
  ASSUME TypeOK, NEW a \in Analyses, NEW e \in Events, Record(a, e)
  PROVE  Announced(a)' = Announced(a) \cup {s \in Terminal : e \in Telling(s)}
<1>1. trace'[a] = trace[a] \cup {e}
  BY DEF TypeOK, Record
<1> QED BY <1>1 DEF Announced

\* The event of an outcome tells of its status and of no other.
LEMMA EventTells ==
  ASSUME NEW o \in Outcomes \ {"echoed"}
  PROVE  EventOf(o) \in Events /\ StatusOf(o) \in Terminal
         /\ {s \in Terminal : EventOf(o) \in Telling(s)} = {StatusOf(o)}
BY DEF Outcomes, EventOf, StatusOf, Events, TerminalEvents, Terminal, Telling

\* The other events: only that of a failure tells of a status.
LEMMA OtherEventsTell ==
  /\ {"analysis.failed", "analysis.started", "generation.degenerate"} \subseteq Events
  /\ {s \in Terminal : "analysis.failed" \in Telling(s)} = {"failed"}
  /\ {s \in Terminal : "analysis.started" \in Telling(s)} = {}
  /\ {s \in Terminal : "generation.degenerate" \in Telling(s)} = {}
BY DEF Events, TerminalEvents, Terminal, Telling

\* The handler is entered with nothing announced; a status that is terminal by
\* then was written by this task, and the write that failed has been counted.
LEMMA RaiseInv ==
  ASSUME TypeOK, NEW a \in Analyses, TaskInv(a), Raise(a),
         phase[a] \in Undecided \cup {"stored"}
  PROVE  TaskInv(a)'
<1>1. Announced(a)' = Announced(a) /\ Announced(a) = {}
  BY DEF Announced, TaskInv, Raise, record
<1>2. phase'[a] = "raised" /\ faults' >= 1
  BY DEF TypeOK, Raise, Goto, Fails
<1> QED BY <1>1, <1>2 DEF TaskInv, Undecided

\* A step of a task from one undecided phase to another.
LEMMA UndecidedInv ==
  ASSUME NEW a \in Analyses, TaskInv(a), phase[a] \in Undecided, phase'[a] \in Undecided,
         trace'[a] = trace[a], status'[a] = status[a] \/ status'[a] \notin Terminal,
         phase'[a] = "returned" => outcome'[a] \in Outcomes
  PROVE  TaskInv(a)'
<1>1. Announced(a)' = Announced(a) /\ Announced(a) = {}
  BY DEF Announced, TaskInv
<1> QED BY <1>1 DEF TaskInv, Undecided

\* Every step of a task keeps what holds of its analysis.
LEMMA PipelineInv ==
  ASSUME TypeOK, NEW a \in Analyses, TaskInv(a), Pipeline(a)
  PROVE  TaskInv(a)'
<1>1. CASE Start(a) \/ Call(a) \/ Answer(a) \/ TimeOut(a) \/ Return(a)
  <2>1. phase[a] \in Undecided /\ phase'[a] \in Undecided
    BY <1>1 DEF TypeOK, Start, Call, Answer, TimeOut, Return, Acquire, Goto, Undecided
  <2>2. UNCHANGED <<status, trace>>
    BY <1>1 DEF Start, Call, Answer, TimeOut, Return, record
  <2>3. phase'[a] = "returned" => outcome'[a] \in Outcomes
    BY <1>1 DEF TypeOK, Start, Call, Answer, TimeOut, Return, Acquire, Goto
  <2> QED BY <2>1, <2>2, <2>3, UndecidedInv
<1>2. CASE MarkProcessing(a)
  <2>1. CASE Raise(a)
    BY <1>2, <2>1, RaiseInv DEF MarkProcessing, Undecided
  <2>2. CASE ~Raise(a)
    <3>1. phase[a] \in Undecided /\ phase'[a] \in Undecided /\ trace'[a] = trace[a]
          /\ status'[a] \notin Terminal /\ phase'[a] # "returned"
      BY <1>2, <2>2 DEF TypeOK, MarkProcessing, Goto, Undecided, Terminal
    <3> QED BY <3>1, UndecidedInv
  <2> QED BY <2>1, <2>2
<1>3. CASE LoopRaises(a)
  <2>1. Announced(a)' = {} /\ status'[a] \notin Terminal /\ phase'[a] = "raised"
    BY <1>3 DEF TypeOK, TaskInv, Announced, LoopRaises, Goto, record, Undecided
  <2> QED BY <2>1 DEF TaskInv, Undecided
<1>4. CASE DiscardEcho(a)
  <2>1. CASE Raise(a)
    BY <1>4, <2>1, RaiseInv DEF DiscardEcho, Undecided
  <2>2. CASE ~Raise(a)
    <3>1. Record(a, "generation.degenerate") /\ UNCHANGED <<status, phase>> /\ phase[a] = "returned"
          /\ outcome'[a] \in Outcomes
      BY <1>4, <2>2 DEF TypeOK, DiscardEcho, Outcomes
    <3>2. Announced(a)' = Announced(a)
      BY <3>1, AnnouncedAfter, OtherEventsTell
    <3> QED BY <3>1, <3>2 DEF TaskInv, Undecided
  <2> QED BY <2>1, <2>2
<1>5. CASE StoreResult(a)
  <2>1. CASE Raise(a)
    BY <1>5, <2>1, RaiseInv DEF StoreResult, Undecided
  <2>2. CASE ~Raise(a)
    <3>1. /\ phase[a] = "returned" /\ phase'[a] = "stored" /\ UNCHANGED <<trace, outcome>>
          /\ outcome[a] # "echoed" /\ status'[a] = StatusOf(outcome[a])
      BY <1>5, <2>2 DEF TypeOK, StoreResult, Goto
    <3>2. outcome[a] # "none"
      BY <3>1 DEF TaskInv, Outcomes
    <3>3. Announced(a)' = {}
      BY <3>1 DEF TaskInv, Announced, Undecided
    <3> QED BY <3>1, <3>2, <3>3 DEF TypeOK, TaskInv, Undecided
  <2> QED BY <2>1, <2>2
<1>6. CASE Announce(a)
  <2>1. CASE Raise(a)
    BY <1>6, <2>1, RaiseInv DEF Announce
  <2>2. CASE ~Raise(a)
    <3>1. /\ phase[a] = "stored" /\ phase'[a] = "done" /\ UNCHANGED <<status, outcome>>
          /\ Record(a, EventOf(outcome[a]))
      BY <1>6, <2>2 DEF TypeOK, Announce, Goto
    <3>2. outcome[a] \in Outcomes \ {"echoed"} /\ Announced(a) = {} /\ status[a] = StatusOf(outcome[a])
      BY <3>1 DEF TaskInv
    <3>3. Announced(a)' = {status[a]}
      BY <3>1, <3>2, AnnouncedAfter, EventTells
    <3> QED BY <3>1, <3>3 DEF TaskInv, Undecided
  <2> QED BY <2>1, <2>2
<1>7. CASE AnnounceFailure(a)
  <2>1. phase[a] = "raised" /\ Announced(a) = {} /\ (status[a] \in Terminal => faults >= 1)
    BY <1>7 DEF AnnounceFailure, TaskInv
  <2>2. CASE Record(a, "analysis.failed") /\ Goto(a, "reported") /\ UNCHANGED environment
    <3>1. Announced(a)' = {"failed"}
      BY <2>1, <2>2, AnnouncedAfter, OtherEventsTell
    <3>2. phase'[a] = "reported" /\ UNCHANGED <<status, faults>>
      BY <1>7, <2>2 DEF TypeOK, AnnounceFailure, Goto, environment
    <3> QED BY <2>1, <3>1, <3>2 DEF TaskInv, Undecided
  <2>3. CASE Goto(a, "done") /\ Fails /\ UNCHANGED <<trace, queue>>
    <3>1. phase'[a] = "done" /\ faults' = faults + 1 /\ UNCHANGED <<status, trace>>
      BY <1>7, <2>3 DEF TypeOK, AnnounceFailure, Goto, Fails
    <3>2. Announced(a)' = {}
      BY <2>1, <3>1 DEF Announced
    <3>3. faults' <= 1 => status'[a] \notin Terminal
      BY <2>1, <3>1 DEF TypeOK
    <3> QED BY <3>1, <3>2, <3>3 DEF TaskInv, Undecided
  <2> QED BY <1>7, <2>2, <2>3 DEF AnnounceFailure
<1>8. CASE StoreFailure(a)
  <2>1. /\ phase[a] = "reported" /\ Announced(a) = {"failed"} /\ (status[a] \in Terminal => faults >= 1)
        /\ phase'[a] = "done"
    BY <1>8 DEF TypeOK, StoreFailure, Goto, TaskInv
  <2>2. Announced(a)' = {"failed"}
    BY <1>8, <2>1 DEF StoreFailure, Announced
  <2>3. status'[a] = "failed" \/ (status'[a] = status[a] /\ faults' = faults + 1)
    BY <1>8 DEF TypeOK, StoreFailure, Fails
  <2>4. faults' <= 1 /\ status'[a] \in Terminal => status'[a] = "failed"
    BY <2>1, <2>3 DEF TypeOK
  <2> QED BY <2>1, <2>2, <2>4 DEF TaskInv, Undecided
<1> QED BY <1>1, <1>2, <1>3, <1>4, <1>5, <1>6, <1>7, <1>8 DEF Pipeline

-----------------------------------------------------------------------------
(* The line of the semaphore.                                                 *)

\* One more waiter at the end of a line he is not in.
LEMMA AppendOnce ==
  ASSUME NEW S, NEW s \in Seq(S), NEW x \in S, Once(s), x \notin Members(s)
  PROVE  Once(Append(s, x)) /\ Members(Append(s, x)) = Members(s) \cup {x}
<1> DEFINE t == Append(s, x)
<1>1. /\ DOMAIN s = 1 .. Len(s) /\ DOMAIN t = 1 .. Len(s) + 1 /\ Len(s) \in Nat
      /\ t[Len(s) + 1] = x /\ \A i \in 1 .. Len(s) : t[i] = s[i]
  OBVIOUS
<1>2. Once(t)
  BY <1>1 DEF Once, Members
<1>3. Members(t) = Members(s) \cup {x}
  <2>1. \A y \in Members(t) : y \in Members(s) \cup {x}
    BY <1>1 DEF Members
  <2>2. \A y \in Members(s) : y \in Members(t)
    BY <1>1 DEF Members
  <2>3. x \in Members(t)
    BY <1>1 DEF Members
  <2> QED BY <2>1, <2>2, <2>3
<1> QED BY <1>2, <1>3

\* The first of a line leaves it.
LEMMA TailOnce ==
  ASSUME NEW S, NEW s \in Seq(S), s # <<>>, Once(s)
  PROVE  Once(Tail(s)) /\ Members(Tail(s)) = Members(s) \ {Head(s)} /\ Head(s) \in Members(s)
<1> DEFINE t == Tail(s)
<1>1. /\ DOMAIN s = 1 .. Len(s) /\ DOMAIN t = 1 .. Len(s) - 1 /\ Len(s) \in Nat \ {0}
      /\ Head(s) = s[1] /\ \A i \in 1 .. Len(s) - 1 : t[i] = s[i + 1]
  OBVIOUS
<1>2. Once(t)
  BY <1>1 DEF Once
<1>3. \A y \in Members(t) : y \in Members(s) /\ y # Head(s)
  BY <1>1 DEF Members, Once
<1>4. \A y \in Members(s) \ {Head(s)} : y \in Members(t)
  <2> TAKE y \in Members(s) \ {Head(s)}
  <2>1. PICK i \in 1 .. Len(s) : s[i] = y
    BY <1>1 DEF Members
  <2>2. i - 1 \in 1 .. Len(s) - 1 /\ t[i - 1] = y
    BY <1>1, <2>1
  <2> QED BY <1>1, <2>2 DEF Members
<1>5. Head(s) \in Members(s)
  BY <1>1 DEF Members
<1> QED BY <1>2, <1>3, <1>4, <1>5

\* One in the middle of a line leaves it.
LEMMA RemoveOnce ==
  ASSUME NEW S, NEW s \in Seq(S), NEW i \in 1 .. Len(s), Once(s)
  PROVE  Without(s, i) \in Seq(S) /\ Once(Without(s, i)) /\ Members(Without(s, i)) = Members(s) \ {s[i]}
<1> DEFINE n == Len(s)
           t == Without(s, i)
<1>1. /\ n \in Nat /\ DOMAIN s = 1 .. n /\ DOMAIN t = 1 .. n - 1
      /\ \A j \in 1 .. n - 1 : t[j] = IF j < i THEN s[j] ELSE s[j + 1]
  BY DEF Without
<1>2. t \in Seq(S)
  BY DEF Without
<1> HIDE DEF t, n
<1>3. i \in 1 .. n
  BY DEF n
<1>4. Once(t)
  <2> SUFFICES ASSUME NEW j \in 1 .. n - 1, NEW k \in 1 .. n - 1, t[j] = t[k]
               PROVE  j = k
    BY <1>1 DEF Once
  <2> DEFINE jj == IF j < i THEN j ELSE j + 1
             kk == IF k < i THEN k ELSE k + 1
  <2>1. jj \in 1 .. n /\ kk \in 1 .. n
    BY <1>1, <1>3
  <2>2. s[jj] = s[kk]
    BY <1>1
  <2>3. jj = kk
    BY <1>1, <2>1, <2>2 DEF Once
  <2> QED BY <1>1, <1>3, <2>3
<1>5. \A y \in Members(t) : y \in Members(s) /\ y # s[i]
  <2> TAKE y \in Members(t)
  <2>1. PICK j \in 1 .. n - 1 : t[j] = y
    BY <1>1 DEF Members
  <2>2. PICK k \in 1 .. n : y = s[k] /\ k # i
    BY <1>1, <1>3, <2>1
  <2> QED BY <1>1, <1>3, <2>2 DEF Members, Once
<1>6. \A y \in Members(s) \ {s[i]} : y \in Members(t)
  <2> TAKE y \in Members(s) \ {s[i]}
  <2>1. PICK j \in 1 .. n : s[j] = y
    BY <1>1 DEF Members
  <2>2. CASE j < i
    BY <1>1, <1>3, <2>1, <2>2 DEF Members
  <2>3. CASE j > i
    <3>1. j - 1 \in 1 .. n - 1 /\ t[j - 1] = y
      BY <1>1, <1>3, <2>1, <2>3
    <3> QED BY <1>1, <3>1 DEF Members
  <2> QED BY <1>3, <2>1, <2>2, <2>3
<1> QED BY <1>2, <1>4, <1>5, <1>6 DEF t

\* A task that neither waits before its step nor after it is not in line.
LEMMA LineFrame ==
  ASSUME LineInv, NEW a \in Analyses, NEW x, phase \in [Analyses -> Phases],
         phase' = [phase EXCEPT ![a] = x], phase[a] \in Waiting <=> x \in Waiting, UNCHANGED line
  PROVE  LineInv'
BY DEF LineInv, Waiting, In

\* Acquiring a permit.
LEMMA AcquireLine ==
  ASSUME TypeOK, LineInv, NEW a \in Analyses, NEW w \in Waiting, NEW g \in Phases \ Waiting,
         Acquire(a, w, g), phase[a] \notin Waiting
  PROVE  LineInv'
<1>0. phase \in [Analyses -> Phases] /\ line \in Seq(Analyses)
  BY DEF TypeOK
<1>1. CASE line' = line /\ phase' = [phase EXCEPT ![a] = g]
  BY <1>0, <1>1, LineFrame DEF Acquire
<1>2. CASE line' = Append(line, a) /\ phase' = [phase EXCEPT ![a] = w]
  <2>1. a \notin Members(line)
    BY DEF LineInv, In, Waiting
  <2>2. Once(line') /\ Members(line') = Members(line) \cup {a}
    BY <1>0, <1>2, <2>1, AppendOnce DEF LineInv
  <2>3. In({"queued", "calling"})' = In({"queued", "calling"}) \cup {a}
    BY <1>0, <1>2 DEF In, Waiting
  <2> QED BY <2>2, <2>3 DEF LineInv, Once, Members
<1> QED BY <1>1, <1>2 DEF Acquire

\* The first waiter is granted his permit.
LEMMA GrantLine ==
  ASSUME TypeOK, LineInv, Grant
  PROVE  LineInv' /\ Head(line) \in In(Waiting)
<1>0. phase \in [Analyses -> Phases] /\ line \in Seq(Analyses) /\ line # <<>>
  BY DEF TypeOK, Grant
<1>1. Once(Tail(line)) /\ Members(Tail(line)) = Members(line) \ {Head(line)} /\ Head(line) \in Members(line)
  BY <1>0, TailOnce DEF LineInv
<1>2. In({"queued", "calling"})' = In({"queued", "calling"}) \ {Head(line)}
  BY <1>0, <1>1 DEF In, Grant, LineInv
<1>3. line' = Tail(line)
  BY DEF Grant
<1>4. LineInv'
  <2>1. Once(line)' /\ Members(line)' = Members(Tail(line))
    BY <1>1, <1>3 DEF Once, Members
  <2> QED BY <1>1, <1>2, <2>1 DEF LineInv
<1>5. Head(line) \in In(Waiting)
  BY <1>1 DEF LineInv, Waiting
<1> QED BY <1>4, <1>5

\* A waiter whose node times out leaves the line.
LEMMA TimeOutLine ==
  ASSUME TypeOK, LineInv, NEW a \in Analyses, TimeOut(a)
  PROVE  LineInv'
<1>0. phase \in [Analyses -> Phases] /\ line \in Seq(Analyses) /\ phase' = [phase EXCEPT ![a] = "running"]
  BY DEF TypeOK, TimeOut, Goto
<1>1. CASE phase[a] = "generating" /\ UNCHANGED line
  BY <1>0, <1>1, LineFrame DEF Waiting
<1>2. ASSUME phase[a] = "calling", NEW i \in DOMAIN line, line[i] = a,
             line' = Without(line, i)
      PROVE  LineInv'
  <2>1. i \in 1 .. Len(line)
    BY <1>0, <1>2
  <2>2. Once(line') /\ Members(line') = Members(line) \ {a}
    BY <1>0, <1>2, <2>1, RemoveOnce DEF LineInv
  <2>3. In({"queued", "calling"})' = In({"queued", "calling"}) \ {a}
    BY <1>0 DEF In
  <2> QED BY <2>2, <2>3 DEF LineInv, Once, Members
<1> QED BY <1>1, <1>2 DEF TimeOut

\* Every step keeps the line.
LEMMA StepLine ==
  ASSUME TypeOK, LineInv, [ServiceNext]_serviceVars
  PROVE  LineInv'
<1>0. phase \in [Analyses -> Phases]
  BY DEF TypeOK
<1>1. ASSUME NEW a \in Analyses, Start(a)
      PROVE  LineInv'
  BY <1>1, AcquireLine DEF Start, Waiting, Phases
<1>2. ASSUME NEW a \in Analyses, Call(a)
      PROVE  LineInv'
  BY <1>2, AcquireLine DEF Call, Waiting, Phases
<1>3. ASSUME NEW a \in Analyses, TimeOut(a)
      PROVE  LineInv'
  BY <1>3, TimeOutLine
<1>4. ASSUME NEW a \in Analyses,
             \/ MarkProcessing(a) \/ Answer(a) \/ Return(a) \/ LoopRaises(a) \/ DiscardEcho(a)
             \/ StoreResult(a) \/ Announce(a) \/ AnnounceFailure(a) \/ StoreFailure(a) \/ Create(a)
      PROVE  LineInv'
  <2>1. UNCHANGED line /\ phase[a] \notin Waiting
    BY <1>4 DEF MarkProcessing, Answer, Return, LoopRaises, DiscardEcho, StoreResult, Announce,
       AnnounceFailure, StoreFailure, Create, Raise, Waiting
  <2>2. \E x \in Phases \ Waiting : phase' = [phase EXCEPT ![a] = x]
    <3>1. {"running", "raised", "returned", "stored", "done", "reported", "scheduled", "dropped"}
            \subseteq Phases \ Waiting
      BY DEF Phases, Over, Waiting
    <3>2. phase[a] \in Phases /\ phase = [phase EXCEPT ![a] = phase[a]]
      BY <1>0
    <3> QED BY <1>4, <2>1, <3>1, <3>2
        DEF MarkProcessing, Answer, Return, LoopRaises, DiscardEcho, StoreResult, Announce,
            AnnounceFailure, StoreFailure, Create, Raise, Goto
  <2> QED BY <1>0, <2>1, <2>2, LineFrame
<1>5. CASE Grant
  BY <1>5, GrantLine
<1>6. CASE Crash
  <2>1. line' = <<>> /\ In({"queued", "calling"})' = {}
    BY <1>6 DEF Crash, In, Over
  <2> QED BY <2>1 DEF LineInv, Once, Members
<1>7. ASSUME UNCHANGED <<phase, line>>
      PROVE  LineInv'
  BY <1>7 DEF LineInv, In
<1>8. CASE \E a \in Analyses : Send(a) \/ Disconnect(a) \/ \E granted \in BOOLEAN : Subscribe(a, granted)
  BY <1>7, <1>8 DEF Send, Disconnect, Subscribe, task
<1>9. CASE UNCHANGED serviceVars
  BY <1>7, <1>9 DEF serviceVars
<1> QED BY <1>1, <1>2, <1>3, <1>4, <1>5, <1>6, <1>8, <1>9 DEF ServiceNext, ServiceStep, Request, Pipeline

-----------------------------------------------------------------------------
(* The permits that are out.                                                  *)

\* How the number of tasks in given phases changes with one task.
LEMMA CountAfter ==
  ASSUME NEW P, NEW a \in Analyses, NEW x, phase \in [Analyses -> Phases],
         phase' = [phase EXCEPT ![a] = x]
  PROVE  /\ Cardinality(In(P)) \in Nat /\ Cardinality(In(P))' \in Nat
         /\ Cardinality(In(P))' = Cardinality(In(P)) - (IF phase[a] \in P THEN 1 ELSE 0)
                                                     + (IF x \in P THEN 1 ELSE 0)
         /\ phase[a] \in P => Cardinality(In(P)) > 0
<1>1. IsFiniteSet(In(P))
  BY AnalysesAssumption, FS_Subset DEF In
<1>2. Cardinality(In(P)) \in Nat
  BY <1>1, FS_CardinalityType
<1>3. CASE x \in P
  <2>1. In(P)' = In(P) \cup {a}
    BY <1>3 DEF In
  <2>2. a \in In(P) <=> phase[a] \in P
    BY DEF In
  <2>3. Cardinality(In(P) \cup {a}) = IF a \in In(P) THEN Cardinality(In(P)) ELSE Cardinality(In(P)) + 1
    BY <1>1, FS_AddElement
  <2>4. a \in In(P) => Cardinality(In(P)) > 0
    BY <1>1, <1>2, FS_EmptySet
  <2> QED BY <1>2, <1>3, <2>1, <2>2, <2>3, <2>4
<1>4. CASE x \notin P
  <2>1. In(P)' = In(P) \ {a}
    BY <1>4 DEF In
  <2>2. a \in In(P) <=> phase[a] \in P
    BY DEF In
  <2>3. Cardinality(In(P) \ {a}) = IF a \in In(P) THEN Cardinality(In(P)) - 1 ELSE Cardinality(In(P))
    BY <1>1, FS_RemoveElement
  <2>4. a \in In(P) => Cardinality(In(P)) > 0
    BY <1>1, <1>2, FS_EmptySet
  <2> QED BY <1>2, <1>4, <2>1, <2>2, <2>3, <2>4
<1> QED BY <1>3, <1>4

\* The permits that are out change by the weights of the two phases.
LEMMA HeldAfter ==
  ASSUME NEW a \in Analyses, NEW x, phase \in [Analyses -> Phases], phase' = [phase EXCEPT ![a] = x]
  PROVE  Held \in Nat /\ Held' \in Nat /\ Held' = Held - Weight(phase[a]) + Weight(x)
<1> DEFINE P == {"admitted", "running", "calling"}
           Q == {"generating"}
<1>1. /\ Cardinality(In(P)) \in Nat /\ Cardinality(In(P))' \in Nat
      /\ Cardinality(In(P))' = Cardinality(In(P)) - (IF phase[a] \in P THEN 1 ELSE 0)
                                                  + (IF x \in P THEN 1 ELSE 0)
  BY CountAfter
<1>2. /\ Cardinality(In(Q)) \in Nat /\ Cardinality(In(Q))' \in Nat
      /\ Cardinality(In(Q))' = Cardinality(In(Q)) - (IF phase[a] \in Q THEN 1 ELSE 0)
                                                  + (IF x \in Q THEN 1 ELSE 0)
  BY CountAfter
<1>3. Held = Cardinality(In(P)) + 2 * Cardinality(In(Q)) /\ Held' = Cardinality(In(P))' + 2 * Cardinality(In(Q))'
  BY DEF Held
<1> DEFINE u == Cardinality(In(P))
           v == Cardinality(In(Q))
           uu == Cardinality(In(P))'
           vv == Cardinality(In(Q))'
<1>4. u \in Nat /\ uu \in Nat /\ v \in Nat /\ vv \in Nat /\ Held = u + 2 * v /\ Held' = uu + 2 * vv
  BY <1>1, <1>2, <1>3
<1>5. uu = u - (IF phase[a] \in P THEN 1 ELSE 0) + (IF x \in P THEN 1 ELSE 0)
  BY <1>1
<1>6. vv = v - (IF phase[a] \in Q THEN 1 ELSE 0) + (IF x \in Q THEN 1 ELSE 0)
  BY <1>2
<1> HIDE DEF u, v, uu, vv
<1> QED BY <1>4, <1>5, <1>6 DEF Weight

\* No step hands out a permit that is not there.
LEMMA StepHeld ==
  ASSUME TypeOK, LineInv, HeldInv, [ServiceNext]_serviceVars
  PROVE  HeldInv'
<1>0. phase \in [Analyses -> Phases] /\ Held \in 0 .. Permits /\ Permits \in Nat
  BY PermitsAssumption DEF TypeOK, HeldInv
<1>1. ASSUME NEW a \in Analyses, NEW x, phase' = [phase EXCEPT ![a] = x],
             Weight(x) <= Weight(phase[a]) \/ (Free > 0 /\ Weight(x) = Weight(phase[a]) + 1)
      PROVE  HeldInv'
  <2>1. Held' \in Nat /\ Held' = Held - Weight(phase[a]) + Weight(x)
    BY <1>0, <1>1, HeldAfter
  <2>2. Weight(x) \in Nat /\ Weight(phase[a]) \in Nat
    BY DEF Weight
  <2> DEFINE w == Weight(x)
             v == Weight(phase[a])
  <2>3. w <= v \/ (Permits - Held > 0 /\ w = v + 1)
    BY <1>1 DEF Free
  <2>4. w \in Nat /\ v \in Nat /\ Held' = Held - v + w
    BY <2>1, <2>2
  <2> HIDE DEF w, v
  <2>5. Held' <= Permits
    BY <1>0, <2>3, <2>4
  <2> QED BY <1>0, <2>1, <2>5 DEF HeldInv
<1>2. ASSUME NEW a \in Analyses, Start(a)
      PROVE  HeldInv'
  <2>1. phase[a] = "scheduled" /\ Weight("scheduled") = 0 /\ Weight("queued") = 0 /\ Weight("admitted") = 1
    BY <1>2 DEF Start, Weight
  <2> QED BY <1>1, <1>2, <2>1 DEF Start, Acquire
<1>3. ASSUME NEW a \in Analyses, Call(a)
      PROVE  HeldInv'
  <2>1. phase[a] = "running" /\ Weight("running") = 1 /\ Weight("calling") = 1 /\ Weight("generating") = 2
    BY <1>3 DEF Call, Weight
  <2> QED BY <1>1, <1>3, <2>1 DEF Call, Acquire
<1>4. ASSUME NEW a \in Analyses, Answer(a) \/ TimeOut(a)
      PROVE  HeldInv'
  <2>1. phase[a] \in {"calling", "generating"} /\ phase' = [phase EXCEPT ![a] = "running"]
    BY <1>4 DEF Answer, TimeOut, Goto
  <2>2. Weight("running") <= Weight(phase[a])
    BY <2>1 DEF Weight
  <2> QED BY <1>1, <2>1, <2>2
<1>5. ASSUME NEW a \in Analyses, MarkProcessing(a)
      PROVE  HeldInv'
  <2>1. phase[a] = "admitted" /\ Weight("admitted") = 1 /\ Weight("running") = 1 /\ Weight("raised") = 0
    BY <1>5 DEF MarkProcessing, Weight
  <2> QED BY <1>1, <1>5, <2>1 DEF MarkProcessing, Raise, Goto
<1>6. ASSUME NEW a \in Analyses,
             \/ Return(a) \/ LoopRaises(a) \/ DiscardEcho(a)
             \/ StoreResult(a) \/ Announce(a) \/ AnnounceFailure(a) \/ StoreFailure(a) \/ Create(a)
      PROVE  HeldInv'
  <2>1. \E x : Weight(x) = 0 /\ phase' = [phase EXCEPT ![a] = x]
    <3>1. \A x \in {"raised", "returned", "stored", "done", "reported", "scheduled", "dropped"} : Weight(x) = 0
      BY DEF Weight
    <3>2. phase = [phase EXCEPT ![a] = phase[a]]
      BY <1>0
    <3> QED BY <1>6, <3>1, <3>2
        DEF Return, LoopRaises, DiscardEcho, StoreResult, Announce,
            AnnounceFailure, StoreFailure, Create, Raise, Goto
  <2>2. Weight(phase[a]) >= 0
    BY DEF Weight
  <2> QED BY <1>1, <2>1, <2>2
<1>7. CASE Grant
  <2>1. PICK a \in Analyses : a = Head(line) /\ phase[a] \in Waiting /\ Free > 0
    BY <1>7, GrantLine DEF In, Grant
  <2>2. Weight("queued") = 0 /\ Weight("admitted") = 1 /\ Weight("calling") = 1 /\ Weight("generating") = 2
    BY DEF Weight
  <2>3. CASE phase[a] = "queued"
    <3>1. phase' = [phase EXCEPT ![a] = "admitted"]
      BY <1>0, <1>7, <2>1, <2>3 DEF Grant
    <3>2. Free > 0 /\ Weight("admitted") = Weight(phase[a]) + 1
      BY <2>1, <2>2, <2>3
    <3> QED BY <1>1, <3>1, <3>2
  <2>4. CASE phase[a] = "calling"
    <3>1. phase' = [phase EXCEPT ![a] = "generating"]
      BY <1>0, <1>7, <2>1, <2>4 DEF Grant
    <3>2. Free > 0 /\ Weight("generating") = Weight(phase[a]) + 1
      BY <2>1, <2>2, <2>4
    <3> QED BY <1>1, <3>1, <3>2
  <2> QED BY <2>1, <2>3, <2>4 DEF Waiting
<1>8. CASE Crash
  <2>1. In({"admitted", "running", "calling"})' = {} /\ In({"generating"})' = {}
    BY <1>8 DEF Crash, In, Over
  <2>2. Held' = 0
    BY <2>1, FS_EmptySet DEF Held
  <2> QED BY <1>0, <2>2 DEF HeldInv
<1>9. ASSUME UNCHANGED phase
      PROVE  HeldInv'
  BY <1>0, <1>9 DEF HeldInv, Held, In
<1>10. CASE \E a \in Analyses : Send(a) \/ Disconnect(a) \/ \E granted \in BOOLEAN : Subscribe(a, granted)
  BY <1>9, <1>10 DEF Send, Disconnect, Subscribe, task
<1>11. CASE UNCHANGED serviceVars
  BY <1>9, <1>11 DEF serviceVars
<1> QED BY <1>2, <1>3, <1>4, <1>5, <1>6, <1>7, <1>8, <1>10, <1>11
        DEF ServiceNext, ServiceStep, Request, Pipeline

\* Every step of the service keeps the invariant of every analysis.
LEMMA StepInv ==
  ASSUME RunInv, [ServiceNext]_serviceVars
  PROVE  RunInv'
<1> USE DEF RunInv
<1>1. TypeOK'
  BY StepTyped
<1>2. faults \in Nat /\ faults' \in Nat
  BY <1>1, BoundsAssumption DEF TypeOK
<1>3. ASSUME NEW a \in Analyses, Pipeline(a), NEW b \in Analyses
      PROVE  TaskInv(b)'
  <2>1. CASE b = a
    BY <1>3, <2>1, PipelineInv
  <2>2. CASE b # a
    <3>1. phase'[b] = phase[b] /\ status'[b] = status[b] /\ trace'[b] = trace[b] /\ outcome'[b] = outcome[b]
      BY <1>3, <2>2 DEF TypeOK, Pipeline, Start, MarkProcessing, Call, Answer, TimeOut, Return,
         LoopRaises, DiscardEcho, StoreResult, Announce, AnnounceFailure, StoreFailure,
         Acquire, Raise, Record, Goto, Fails, record
    <3>2. faults' >= faults
      BY <1>2, <1>3 DEF Pipeline, Start, MarkProcessing, Call, Answer, TimeOut, Return,
         LoopRaises, DiscardEcho, StoreResult, Announce, AnnounceFailure, StoreFailure,
         Raise, Fails, environment
    <3> QED BY <1>2, <3>1, <3>2, FrameInv
  <2> QED BY <2>1, <2>2
<1>4. ASSUME NEW a \in Analyses, Create(a), NEW b \in Analyses
      PROVE  TaskInv(b)'
  <2>1. faults' >= faults
    BY <1>2, <1>4 DEF Create, Fails, environment
  <2>2. CASE b = a
    <3>1. phase[a] = "none" /\ phase'[a] \in {"scheduled", "dropped"} /\ status'[a] = "pending"
      BY <1>4 DEF TypeOK, Create, Goto
    <3>2. CASE Record(a, "analysis.started")
      <4>1. Announced(a)' = Announced(a)
        BY <3>2, AnnouncedAfter, OtherEventsTell
      <4> QED BY <2>2, <3>1, <4>1 DEF TaskInv, Undecided, Terminal
    <3>3. CASE UNCHANGED trace
      BY <2>2, <3>1, <3>3 DEF TaskInv, Undecided, Terminal, Announced
    <3> QED BY <1>4, <3>2, <3>3 DEF Create
  <2>3. CASE b # a
    <3>1. phase'[b] = phase[b] /\ status'[b] = status[b] /\ trace'[b] = trace[b] /\ outcome'[b] = outcome[b]
      BY <1>4, <2>3 DEF TypeOK, Create, Record, Goto
    <3> QED BY <1>2, <2>1, <3>1, FrameInv
  <2> QED BY <2>2, <2>3
<1>5. ASSUME Grant, NEW b \in Analyses
      PROVE  TaskInv(b)'
  <2>1. UNCHANGED <<status, trace, outcome, faults>>
    BY <1>5 DEF Grant, record, environment
  <2>2. CASE phase'[b] = phase[b]
    BY <1>2, <2>1, <2>2, FrameInv
  <2>3. CASE phase'[b] # phase[b]
    <3>1. phase'[b] \in {"admitted", "generating"} /\ b = Head(line)
      BY <1>5, <2>3 DEF TypeOK, Grant
    <3>2. phase[b] \in Undecided
      BY <1>5, <3>1, GrantLine DEF In, Waiting, Undecided
    <3> QED BY <2>1, <3>1, <3>2, UndecidedInv DEF Undecided
  <2> QED BY <2>2, <2>3
<1>6. ASSUME Crash, NEW b \in Analyses
      PROVE  TaskInv(b)'
  <2>1. UNCHANGED <<status, trace, outcome, faults>>
    BY <1>6 DEF Crash, record
  <2>2. CASE phase[b] \in Over
    <3>1. phase'[b] = phase[b]
      BY <1>6, <2>2 DEF Crash
    <3> QED BY <1>2, <2>1, <3>1, FrameInv
  <2>3. CASE phase[b] \notin Over
    <3>1. phase'[b] = "lost" /\ phase[b] \in Phases \ Over
      BY <1>6, <2>3 DEF TypeOK, Crash
    <3>2. Announced(b)' = Announced(b) /\ status'[b] = status[b]
      BY <2>1 DEF Announced
    <3>3. Announced(b) \subseteq {"failed"}
      BY <3>1 DEF TaskInv, Undecided, Phases, Over
    <3> QED BY <3>1, <3>2, <3>3 DEF TaskInv, Undecided
  <2> QED BY <2>2, <2>3
<1>7. ASSUME UNCHANGED <<status, trace, phase, outcome, faults>>, NEW b \in Analyses
      PROVE  TaskInv(b)'
  BY <1>2, <1>7, FrameInv
<1>8. ASSUME NEW a \in Analyses, Send(a) \/ Disconnect(a) \/ \E granted \in BOOLEAN : Subscribe(a, granted)
      PROVE  \A b \in Analyses : TaskInv(b)'
  BY <1>7, <1>8 DEF Send, Disconnect, Subscribe, record, task, environment
<1>9. ASSUME UNCHANGED serviceVars
      PROVE  \A b \in Analyses : TaskInv(b)'
  BY <1>7, <1>9 DEF serviceVars
<1>10. \A b \in Analyses : TaskInv(b)'
  BY <1>3, <1>4, <1>5, <1>6, <1>8, <1>9 DEF ServiceNext, ServiceStep, Request
<1>11. LineInv' /\ HeldInv'
  BY StepLine, StepHeld
<1> QED BY <1>1, <1>10, <1>11

\* The invariant holds at the start.
LEMMA InitInv == Init => RunInv
<1> SUFFICES ASSUME Init PROVE RunInv
  OBVIOUS
<1>1. TypeOK
  BY InitTyped
<1>2. LineInv
  BY DEF Init, LineInv, Once, Members, In
<1>3. HeldInv
  <2>1. In({"admitted", "running", "calling"}) = {} /\ In({"generating"}) = {}
    BY DEF Init, In
  <2>2. Held = 0
    BY <2>1, FS_EmptySet DEF Held
  <2> QED BY <2>2, PermitsAssumption DEF HeldInv
<1>4. ASSUME NEW a \in Analyses
      PROVE  TaskInv(a)
  BY DEF Init, TaskInv, Announced, Undecided, Terminal
<1> QED BY <1>1, <1>2, <1>3, <1>4 DEF RunInv

\* The inductive invariant of the service.
LEMMA Invariant == ServiceSpec => []RunInv
BY InitInv, StepInv, PTL DEF ServiceSpec

\* In every ended run with at most one failing write, a stored result is the
\* one the trace announces, and no other is announced.
THEOREM ResultsAreReported == ServiceSpec => []ReportedIsStored
<1>1. RunInv => ReportedIsStored
  BY DEF RunInv, TaskInv, ReportedIsStored
<1> QED BY <1>1, Invariant, PTL

\* No permit of the semaphore is taken twice and no waiter is lost or doubled,
\* whatever times out.
THEOREM PermitsAreKept == ServiceSpec => []PermitsKept
<1>1. RunInv => PermitsKept
  BY DEF RunInv, LineInv, HeldInv, PermitsKept
<1> QED BY <1>1, Invariant, PTL

\* No step takes an event out of the trace.
LEMMA TraceGrows ==
  ASSUME TypeOK, [ServiceNext]_serviceVars, NEW b \in Analyses
  PROVE  trace[b] \subseteq trace'[b]
<1>1. ASSUME NEW a \in Analyses, NEW e, Record(a, e)
      PROVE  trace[b] \subseteq trace'[b]
  BY <1>1 DEF TypeOK, Record
<1>2. ASSUME NEW a \in Analyses, Pipeline(a)
      PROVE  trace[b] \subseteq trace'[b]
  BY <1>1, <1>2 DEF Pipeline, Start, MarkProcessing, Call, Answer, TimeOut, Return, LoopRaises,
     DiscardEcho, StoreResult, Announce, AnnounceFailure, StoreFailure, Raise, record
<1>3. ASSUME NEW a \in Analyses, Create(a)
      PROVE  trace[b] \subseteq trace'[b]
  BY <1>1, <1>3 DEF Create
<1> QED BY <1>2, <1>3 DEF ServiceNext, ServiceStep, Request, Send, Disconnect, Subscribe, Grant, Crash,
        record, serviceVars

\* A result other than a failure is in the record before it is announced, and
\* stays there.
THEOREM AnnouncedResultsAreFinal == ServiceSpec => AnnouncedIsFinal
<1>1. ASSUME RunInv, [ServiceNext]_serviceVars, NEW a \in Analyses, NEW s \in Announced(a) \ {"failed"}
      PROVE  status[a] = s /\ status'[a] = s
  <2>1. phase[a] \in {"done", "lost"} /\ status[a] = s
    BY <1>1 DEF RunInv, TypeOK, TaskInv, Undecided, Phases, Over
  <2>2. RunInv'
    BY <1>1, StepInv
  <2>3. s \in Announced(a)'
    <3>1. trace[a] \subseteq trace'[a]
      BY <1>1, TraceGrows DEF RunInv
    <3> QED BY <1>1, <3>1 DEF Announced
  <2>4. \A b \in Announced(a)' \ {"failed"} : status'[a] = b
    BY <2>2 DEF RunInv, TypeOK, TaskInv, Undecided, Phases, Over
  <2> QED BY <1>1, <2>1, <2>3, <2>4
<1>2. RunInv /\ [ServiceNext]_serviceVars
        => [\A a \in Analyses :
              \A s \in Announced(a) \ {"failed"} : status[a] = s /\ status'[a] = s]_serviceVars
  BY <1>1
<1> QED BY <1>2, Invariant, PTL DEF ServiceSpec, AnnouncedIsFinal

-----------------------------------------------------------------------------
(* The pages.                                                                 *)

\* A step of the pages is a step of the service, or leaves it alone.
LEMMA PageStepServes ==
  ASSUME [PageNext]_allVars
  PROVE  [ServiceNext]_serviceVars
<1> USE PagesAssumption
<1>1. ASSUME NEW a \in Pages, Submit(a)
      PROVE  ServiceNext
  BY <1>1 DEF Submit, ServiceNext, Request
<1>2. ASSUME NEW a \in Pages, Open(a)
      PROVE  ServiceNext
  BY <1>2 DEF Open, ServiceNext, Request
<1>3. ASSUME NEW a \in Pages, NEW v, Settle(a, v)
      PROVE  [ServiceNext]_serviceVars
  BY <1>3 DEF Settle, ServiceNext, ServiceStep
<1>4. ASSUME NEW a \in Pages, Fetch(a)
      PROVE  [ServiceNext]_serviceVars
  BY <1>3, <1>4 DEF Fetch
<1>5. ASSUME NEW a \in Pages, StreamEnds(a) \/ PollTick(a)
      PROVE  UNCHANGED serviceVars
  BY <1>5 DEF StreamEnds, PollTick
<1>6. ASSUME NEW a \in Analyses, Create(a)
      PROVE  ServiceNext
  BY <1>6 DEF ServiceNext, Request
<1>7. CASE ServiceStep
  BY <1>7 DEF ServiceNext
<1>8. CASE UNCHANGED allVars
  BY <1>8 DEF allVars
<1> QED BY <1>1, <1>2, <1>4, <1>5, <1>6, <1>7, <1>8 DEF PageNext, Browser

\* The pages run the service as it is specified, and so keep what it promises:
\* they add no step of their own to it and take none away.
THEOREM PagesRunTheService == PageSpec => ServiceSpec
<1>1. PageInit => Init
  BY DEF PageInit
<1>2. [PageNext]_allVars => [ServiceNext]_serviceVars
  BY PageStepServes
<1> QED BY <1>1, <1>2, PTL DEF PageSpec, ServiceSpec

\* Writes that failed are never forgotten.
LEMMA FaultsGrow ==
  ASSUME TypeOK, [ServiceNext]_serviceVars
  PROVE  faults \in Nat /\ faults' >= faults
BY BoundsAssumption DEF TypeOK, ServiceNext, ServiceStep, Request, Pipeline, Start, MarkProcessing,
   Call, Answer, TimeOut, Return, LoopRaises, DiscardEcho, StoreResult, Announce, AnnounceFailure,
   StoreFailure, Send, Disconnect, Subscribe, Grant, Crash, Create, Raise, Fails, environment, serviceVars

\* As long as no write failed, a stored result is never written again.
LEMMA StoredStays ==
  ASSUME RunInv, [ServiceNext]_serviceVars, faults' = 0, NEW b \in Analyses, status[b] \in Terminal
  PROVE  status'[b] = status[b]
<1>1. RunInv' /\ faults = 0
  <2>1. faults \in Nat /\ faults' >= faults
    BY FaultsGrow DEF RunInv
  <2> QED BY <2>1, StepInv
<1>2. phase[b] \in {"stored", "done", "lost"}
  BY <1>1 DEF RunInv, TypeOK, TaskInv, Undecided, Phases, Over
<1>3. ASSUME NEW a \in Analyses, Pipeline(a)
      PROVE  status'[b] = status[b]
  <2>1. CASE a = b
    BY <1>2, <1>3, <2>1 DEF Pipeline, Start, MarkProcessing, Call, Answer, TimeOut, Return, LoopRaises,
       DiscardEcho, StoreResult, Announce, AnnounceFailure, StoreFailure, Raise, record
  <2>2. CASE a # b
    BY <1>3, <2>2 DEF RunInv, TypeOK, Pipeline, Start, MarkProcessing, Call, Answer, TimeOut, Return, LoopRaises,
       DiscardEcho, StoreResult, Announce, AnnounceFailure, StoreFailure, Raise, record
  <2> QED BY <2>1, <2>2
<1>4. ASSUME NEW a \in Analyses, Create(a)
      PROVE  status'[b] = status[b]
  BY <1>2, <1>4 DEF RunInv, TypeOK, Create
<1> QED BY <1>3, <1>4 DEF ServiceNext, ServiceStep, Request, Send, Disconnect, Subscribe, Grant, Crash,
        record, serviceVars

\* What a page has fetched is what the record says once it is final, also
\* before the page shows it.
FetchedIsStored ==
  /\ last \in [Pages -> Statuses]
  /\ \A a \in Pages : last[a] \in Terminal /\ faults = 0 => status[a] = last[a]

\* A step of the service under the pages that fetch nothing keeps it.
LEMMA FetchedFrame ==
  ASSUME RunInv, FetchedIsStored, [ServiceNext]_serviceVars, UNCHANGED last
  PROVE  FetchedIsStored'
<1>1. ASSUME NEW a \in Pages, last[a] \in Terminal, faults' = 0
      PROVE  status'[a] = last[a]
  <2>1. faults = 0
    BY <1>1, FaultsGrow DEF RunInv
  <2>2. status[a] = last[a]
    BY <1>1, <2>1 DEF FetchedIsStored
  <2> QED BY <1>1, <2>2, StoredStays, PagesAssumption
<1> QED BY <1>1 DEF FetchedIsStored

\* A fetch leaves the record as it is, and so does the end of it.
LEMMA FetchKeepsRecord ==
  ASSUME NEW a \in Pages, Fetch(a)
  PROVE  UNCHANGED <<status, faults>>
BY DEF Fetch, Settle, Disconnect, serviceVars, record, environment

LEMMA FetchedStep ==
  ASSUME RunInv, FetchedIsStored, [PageNext]_allVars
  PROVE  FetchedIsStored'
<1>1. [ServiceNext]_serviceVars
  BY PageStepServes
<1>2. CASE UNCHANGED last
  BY <1>1, <1>2, FetchedFrame
<1>3. ASSUME NEW a \in Pages, Fetch(a)
      PROVE  FetchedIsStored'
  <2>1. UNCHANGED <<status, faults>>
    BY <1>3, FetchKeepsRecord
  <2>2. PICK reached \in BOOLEAN : last' = [last EXCEPT ![a] = IF reached THEN status[a] ELSE @]
    BY <1>3 DEF Fetch
  <2>3. status[a] \in Statuses
    BY PagesAssumption DEF RunInv, TypeOK
  <2> QED BY <2>1, <2>2, <2>3 DEF FetchedIsStored
<1>4. UNCHANGED last \/ \E a \in Pages : Fetch(a)
  BY DEF PageNext, Submit, Browser, Open, StreamEnds, PollTick, See, pageVars, allVars
<1> QED BY <1>2, <1>3, <1>4

\* A result the page shows is the one in the record, as long as no write failed.
THEOREM ShownResultsAreStored == PageSpec => []ShownIsStored
<1>1. PageInit => RunInv /\ FetchedIsStored
  <2>1. PageInit => FetchedIsStored
    BY DEF PageInit, FetchedIsStored, Statuses, Terminal
  <2> QED BY <2>1, InitInv DEF PageInit
<1>2. RunInv /\ FetchedIsStored /\ [PageNext]_allVars => (RunInv /\ FetchedIsStored)'
  BY PageStepServes, StepInv, FetchedStep
<1>3. FetchedIsStored => ShownIsStored
  BY DEF FetchedIsStored, ShownIsStored
<1> QED BY <1>1, <1>2, <1>3, PTL DEF PageSpec

-----------------------------------------------------------------------------
(* The pages over the service implement AnalysisResult.                       *)

\* The record follows the task: nothing is decided before it is being processed.
StatusInv ==
  \A a \in Analyses :
    /\ phase[a] = "none" <=> status[a] = "none"
    /\ phase[a] \in {"dropped", "scheduled", "queued", "admitted"} => status[a] = "pending"
    /\ phase[a] \in {"running", "calling", "generating", "returned"} => status[a] = "processing"

\* One step of one task.
LEMMA PipelineStatus ==
  ASSUME TypeOK, StatusInv, NEW a \in Analyses, Pipeline(a)
  PROVE  StatusInv'
<1>1. /\ phase \in [Analyses -> Phases] /\ status \in [Analyses -> Statuses]
      /\ phase[a] # "none" /\ status[a] # "none"
  BY DEF TypeOK, StatusInv, Pipeline, Start, MarkProcessing, Call, Answer, TimeOut, Return, LoopRaises,
         DiscardEcho, StoreResult, Announce, AnnounceFailure, StoreFailure
<1>2. ASSUME NEW x, phase' = [phase EXCEPT ![a] = x], UNCHANGED status,
             \/ x \in {"queued", "admitted"} /\ phase[a] \in {"scheduled", "queued"}
             \/ x \in {"running", "calling", "generating", "returned"}
                /\ phase[a] \in {"running", "calling", "generating", "returned"}
             \/ x \in {"raised", "reported", "done"}
      PROVE  StatusInv'
  BY <1>1, <1>2 DEF StatusInv
<1>3. Raise(a) => StatusInv'
  BY <1>2 DEF Raise, Goto, record
<1>4. ASSUME NEW x, NEW s, phase' = [phase EXCEPT ![a] = x], status' = [status EXCEPT ![a] = s],
             \/ x = "running" /\ s = "processing"
             \/ x \in {"stored", "done"} /\ s \in Terminal
      PROVE  StatusInv'
  BY <1>1, <1>4 DEF StatusInv, Terminal
<1>5. CASE Start(a) \/ Call(a)
  BY <1>2, <1>5 DEF Start, Call, Acquire, record
<1>6. CASE Answer(a) \/ TimeOut(a) \/ Return(a) \/ LoopRaises(a)
  BY <1>2, <1>6 DEF Answer, TimeOut, Return, LoopRaises, Goto, record
<1>7. CASE MarkProcessing(a)
  BY <1>3, <1>4, <1>7 DEF MarkProcessing, Goto
<1>8. CASE DiscardEcho(a)
  BY <1>3, <1>8 DEF DiscardEcho, StatusInv
<1>9. CASE StoreResult(a)
  <2>1. StatusOf(outcome[a]) \in Terminal
    BY DEF StatusOf, Terminal
  <2> QED BY <1>3, <1>4, <1>9, <2>1 DEF StoreResult, Goto
<1>10. CASE Announce(a)
  BY <1>2, <1>3, <1>10 DEF Announce, Goto
<1>11. CASE AnnounceFailure(a)
  BY <1>2, <1>11 DEF AnnounceFailure, Goto
<1>12. CASE StoreFailure(a)
  BY <1>2, <1>4, <1>12 DEF StoreFailure, Goto, Terminal
<1> QED BY <1>5, <1>6, <1>7, <1>8, <1>9, <1>10, <1>11, <1>12 DEF Pipeline

LEMMA StatusStep ==
  ASSUME RunInv, StatusInv, [ServiceNext]_serviceVars
  PROVE  StatusInv'
<1>1. /\ TypeOK /\ phase \in [Analyses -> Phases] /\ status \in [Analyses -> Statuses]
  BY DEF RunInv, TypeOK
<1>2. CASE \E a \in Analyses : Pipeline(a)
  BY <1>1, <1>2, PipelineStatus
<1>3. CASE Grant
  <2>1. Head(line) \in In({"queued", "calling"})
    BY <1>3, GrantLine DEF RunInv, Waiting
  <2>2. /\ phase' = [phase EXCEPT ![Head(line)] = IF @ = "queued" THEN "admitted" ELSE "generating"]
        /\ UNCHANGED status
    BY <1>3 DEF Grant, record
  <2> QED BY <1>1, <2>1, <2>2 DEF StatusInv, In
<1>4. CASE Crash
  BY <1>1, <1>4 DEF Crash, record, StatusInv, Over
<1>5. ASSUME NEW a \in Analyses, Create(a)
      PROVE  StatusInv'
  BY <1>1, <1>5 DEF Create, Goto, StatusInv
<1>6. CASE UNCHANGED <<phase, status>>
  BY <1>6 DEF StatusInv
<1> QED BY <1>2, <1>3, <1>4, <1>5, <1>6 DEF ServiceNext, ServiceStep, Request, Send, Disconnect, Subscribe,
        task, record, serviceVars

Told == [a \in Analyses |-> Announced(a)]
Shown == [a \in Pages |-> IF view[a] = "shown" /\ last[a] \in Terminal THEN last[a] ELSE "none"]

\* An event that is recorded tells what its name says, of its analysis alone.
LEMMA ToldAfter ==
  ASSUME TypeOK, NEW a \in Analyses, NEW e \in Events, Record(a, e)
  PROVE  Told' = [Told EXCEPT ![a] = @ \cup {s \in Terminal : e \in Telling(s)}]
<1>1. \A b \in Analyses : b # a => Announced(b)' = Announced(b)
  BY DEF TypeOK, Record, Announced
<1>2. Announced(a)' = Announced(a) \cup {s \in Terminal : e \in Telling(s)}
  BY AnnouncedAfter
<1> QED BY <1>1, <1>2 DEF Told

LEMMA ToldStays ==
  ASSUME UNCHANGED trace
  PROVE  UNCHANGED Told
BY DEF Told, Announced

LEMMA ToldNothing ==
  ASSUME TypeOK, NEW a \in Analyses, NEW e \in {"analysis.started", "generation.degenerate"}, Record(a, e)
  PROVE  UNCHANGED Told
<1>1. \A b \in Analyses : b # a => Announced(b)' = Announced(b)
  BY DEF TypeOK, Record, Announced
<1>2. e \in Events /\ {s \in Terminal : e \in Telling(s)} = {}
  BY OtherEventsTell
<1>3. Announced(a)' = Announced(a)
  BY <1>2, AnnouncedAfter
<1> QED BY <1>1, <1>3 DEF Told

\* What a step leaves of the result.
Steady == UNCHANGED <<status, Told, faults>>

LEMMA RaiseIsFault ==
  ASSUME NEW a \in Analyses, Raise(a)
  PROVE  Result!Service
BY ToldStays DEF Raise, Fails, record, Result!Service, Result!Fault, Told

\* Each step of a task is one of the analysis, a failing write, or nothing of it.
LEMMA PipelineRefines ==
  ASSUME RunInv, StatusInv, NEW a \in Analyses, Pipeline(a)
  PROVE  Result!Service \/ Steady
<1>1. /\ TypeOK /\ TaskInv(a) /\ status \in [Analyses -> Statuses] /\ outcome \in [Analyses -> Outcomes \cup {"none"}]
      /\ Told[a] = Announced(a) /\ faults \in Nat /\ Told \in [Analyses -> SUBSET Terminal]
  BY DEF RunInv, TypeOK, Told, Announced
<1>2. CASE Start(a) \/ Call(a) \/ Answer(a) \/ TimeOut(a) \/ Return(a) \/ LoopRaises(a)
  BY <1>2, ToldStays DEF Start, Call, Answer, TimeOut, Return, LoopRaises, record, environment, Steady
<1>3. CASE Raise(a)
  BY <1>3, RaiseIsFault
<1>4. CASE MarkProcessing(a) /\ ~Raise(a)
  <2>1. /\ status[a] = "pending" /\ status' = [status EXCEPT ![a] = "processing"]
        /\ UNCHANGED <<trace, faults>>
    BY <1>4 DEF MarkProcessing, StatusInv, environment
  <2>2. Result!Begin(a)
    BY <2>1, ToldStays DEF Result!Begin, Result!Store, Told
  <2> QED BY <2>2 DEF Result!Service
<1>5. CASE DiscardEcho(a) /\ ~Raise(a)
  <2>1. Record(a, "generation.degenerate") /\ UNCHANGED <<status, faults>>
    BY <1>5 DEF DiscardEcho, environment
  <2>2. UNCHANGED Told
    BY <1>1, <2>1, ToldNothing
  <2> QED BY <2>1, <2>2 DEF Steady
<1>6. CASE StoreResult(a) /\ ~Raise(a)
  <2>1. /\ phase[a] = "returned" /\ outcome[a] # "echoed"
        /\ status' = [status EXCEPT ![a] = StatusOf(outcome[a])] /\ UNCHANGED <<trace, faults>>
    BY <1>6 DEF StoreResult, environment
  <2>2. status[a] = "processing" /\ Announced(a) = {}
    BY <1>1, <2>1 DEF StatusInv, TaskInv, Undecided
  <2>3. StatusOf(outcome[a]) \in Result!Final
    BY DEF StatusOf, Result!Final
  <2>4. Result!Decide(a)
    BY <1>1, <2>1, <2>2, <2>3, ToldStays DEF Result!Decide, Result!Store, Told
  <2> QED BY <2>4 DEF Result!Service
<1>7. CASE Announce(a) /\ ~Raise(a)
  <2>1. phase[a] = "stored" /\ Record(a, EventOf(outcome[a])) /\ UNCHANGED <<status, faults>>
    BY <1>7 DEF Announce, environment
  <2>2. outcome[a] \in Outcomes \ {"echoed"} /\ Announced(a) = {} /\ status[a] = StatusOf(outcome[a])
    BY <1>1, <2>1 DEF TaskInv
  <2>3. Told' = [Told EXCEPT ![a] = {status[a]}]
    BY <1>1, <2>1, <2>2, ToldAfter, EventTells
  <2>4. status[a] \in Result!Final
    BY <2>2, EventTells DEF Terminal, Result!Final
  <2>5. Result!Announce(a)
    BY <1>1, <2>1, <2>2, <2>3, <2>4 DEF Result!Announce, Result!Tell, Told
  <2> QED BY <2>5 DEF Result!Service
<1>8. CASE AnnounceFailure(a)
  <2>1. /\ phase[a] = "raised" /\ UNCHANGED status
        /\ \/ Record(a, "analysis.failed") /\ UNCHANGED faults
           \/ faults' = faults + 1 /\ UNCHANGED trace
    BY <1>8 DEF AnnounceFailure, environment, Fails
  <2>2. Announced(a) = {} /\ (status[a] \in Terminal => faults >= 1) /\ status[a] # "none"
    BY <1>1, <2>1 DEF TaskInv, StatusInv
  <2>3. CASE Record(a, "analysis.failed") /\ UNCHANGED faults
    <3>1. Told' = [Told EXCEPT ![a] = {"failed"}]
      BY <1>1, <2>2, <2>3, ToldAfter, OtherEventsTell
    <3>2. status[a] \in Result!Final => faults > 0
      BY <1>1, <2>2 DEF Result!Final, Terminal
    <3>3. Result!GiveUp(a)
      BY <1>1, <2>1, <2>2, <2>3, <3>1, <3>2 DEF Result!GiveUp, Result!Tell, Told
    <3> QED BY <3>3 DEF Result!Service
  <2>4. CASE faults' = faults + 1 /\ UNCHANGED trace
    BY <2>1, <2>4, ToldStays DEF Result!Service, Result!Fault, Told
  <2> QED BY <2>1, <2>3, <2>4
<1>9. CASE StoreFailure(a)
  <2>1. /\ phase[a] = "reported" /\ UNCHANGED trace
        /\ \/ status' = [status EXCEPT ![a] = "failed"] /\ UNCHANGED faults
           \/ faults' = faults + 1 /\ UNCHANGED status
    BY <1>9 DEF StoreFailure, environment, Fails
  <2>2. Announced(a) = {"failed"}
    BY <1>1, <2>1 DEF TaskInv
  <2>3. CASE status' = [status EXCEPT ![a] = "failed"] /\ UNCHANGED faults
    <3>1. Result!StoreFailure(a)
      BY <1>1, <2>1, <2>2, <2>3, ToldStays DEF Result!StoreFailure, Result!Store, Told
    <3> QED BY <3>1 DEF Result!Service
  <2>4. CASE faults' = faults + 1 /\ UNCHANGED status
    BY <2>1, <2>4, ToldStays DEF Result!Service, Result!Fault, Told
  <2> QED BY <2>1, <2>3, <2>4
<1> QED BY <1>2, <1>3, <1>4, <1>5, <1>6, <1>7, <1>8, <1>9 DEF Pipeline

LEMMA ServiceRefines ==
  ASSUME RunInv, StatusInv, [ServiceNext]_serviceVars
  PROVE  Result!Service \/ Steady
<1>1. TypeOK /\ status \in [Analyses -> Statuses]
  BY DEF RunInv, TypeOK
<1>2. CASE \E a \in Analyses : Pipeline(a)
  BY <1>2, PipelineRefines
<1>3. ASSUME NEW a \in Analyses, Create(a)
      PROVE  Result!Service
  <2>1. /\ status[a] = "none" /\ status' = [status EXCEPT ![a] = "pending"]
        /\ \/ Record(a, "analysis.started") /\ UNCHANGED faults
           \/ faults' = faults + 1 /\ UNCHANGED trace
    BY <1>3 DEF Create, StatusInv, Fails, environment
  <2>2. UNCHANGED Told
    BY <1>1, <2>1, ToldNothing, ToldStays
  <2>3. Result!Accept(a)
    BY <2>1, <2>2 DEF Result!Accept, Result!Store, Result!Fault, Told
  <2> QED BY <2>3 DEF Result!Service
<1>4. CASE UNCHANGED <<status, trace, faults>>
  BY <1>4, ToldStays DEF Steady
<1> QED BY <1>2, <1>3, <1>4 DEF ServiceNext, ServiceStep, Request, Send, Disconnect, Subscribe, Grant, Crash,
        task, record, environment, serviceVars

\* Before a page shows a result it has fetched none.
FetchedIsShown ==
  /\ view \in [Pages -> {"idle", "opening", "watching", "fetching", "shown", "error"}]
  /\ last \in [Pages -> Statuses]
  /\ \A a \in Pages : last[a] \in Terminal => view[a] = "shown"

\* A page that does not fetch goes on without a result.
LEMMA SeesNothing ==
  ASSUME FetchedIsShown, NEW a \in Pages, view[a] # "shown",
         NEW v \in {"opening", "watching", "fetching", "error"}, See(a, v)
  PROVE  FetchedIsShown' /\ UNCHANGED Shown
<1>1. /\ view' = [view EXCEPT ![a] = v] /\ UNCHANGED last /\ last[a] \notin Terminal
  BY DEF See, FetchedIsShown
<1>2. \A b \in Pages : view'[b] = (IF b = a THEN v ELSE view[b])
  BY <1>1 DEF FetchedIsShown
<1>3. FetchedIsShown'
  BY <1>1, <1>2 DEF FetchedIsShown
<1>4. UNCHANGED Shown
  BY <1>1, <1>2 DEF Shown
<1> QED BY <1>3, <1>4

\* A fetch shows the record, or shows nothing.
LEMMA FetchShows ==
  ASSUME TypeOK, FetchedIsShown, NEW a \in Pages, Fetch(a)
  PROVE  FetchedIsShown' /\ (Result!Show(a) \/ (Steady /\ UNCHANGED Shown))
<1>1. /\ a \in Analyses /\ status[a] \in Statuses /\ view[a] = "fetching" /\ last[a] \notin Terminal
      /\ view \in [Pages -> {"idle", "opening", "watching", "fetching", "shown", "error"}]
      /\ last \in [Pages -> Statuses]
  BY PagesAssumption DEF TypeOK, FetchedIsShown, Fetch
<1>2. UNCHANGED <<status, trace, faults>>
  BY DEF Fetch, Settle, Disconnect, serviceVars, record, environment
<1>3. Steady
  BY <1>2, ToldStays DEF Steady
<1>4. PICK reached \in BOOLEAN :
        /\ last' = [last EXCEPT ![a] = IF reached THEN status[a] ELSE last[a]]
        /\ \/ reached /\ status[a] \in Terminal /\ Settle(a, "shown")
           \/ ~(reached /\ status[a] \in Terminal) /\ UNCHANGED view
           \/ ~(reached /\ status[a] \in Terminal) /\ \E v \in {"error", "shown"} : Settle(a, v)
  BY DEF Fetch
<1>5. last' \in [Pages -> Statuses] /\ \A b \in Pages : b # a => last'[b] = last[b]
  BY <1>1, <1>4
<1>6. CASE reached /\ status[a] \in Terminal /\ Settle(a, "shown")
  <2>1. view' = [view EXCEPT ![a] = "shown"] /\ last'[a] = status[a]
    BY <1>1, <1>4, <1>6 DEF Settle
  <2>2. FetchedIsShown'
    BY <1>1, <1>5, <2>1 DEF FetchedIsShown
  <2>3. Shown' = [Shown EXCEPT ![a] = status[a]] /\ Shown[a] = "none"
    BY <1>1, <1>5, <1>6, <2>1 DEF Shown
  <2>4. status[a] \in Result!Final
    BY <1>6 DEF Terminal, Result!Final
  <2>5. Result!Show(a)
    BY <1>2, <1>3, <2>3, <2>4 DEF Result!Show, Shown, Told, Steady
  <2> QED BY <2>2, <2>5
<1>7. CASE ~(reached /\ status[a] \in Terminal) /\ (UNCHANGED view \/ \E v \in {"error", "shown"} : Settle(a, v))
  <2>1. /\ last'[a] \notin Terminal
        /\ view' \in [Pages -> {"idle", "opening", "watching", "fetching", "shown", "error"}]
        /\ \A b \in Pages : b # a => view'[b] = view[b]
    BY <1>1, <1>4, <1>7 DEF Settle
  <2>2. FetchedIsShown'
    BY <1>1, <1>5, <2>1 DEF FetchedIsShown
  <2>3. UNCHANGED Shown
    BY <1>1, <1>5, <2>1 DEF Shown
  <2> QED BY <1>3, <2>2, <2>3
<1> QED BY <1>4, <1>6, <1>7

\* Each step of the pages over the service is one of the result, or a stutter.
LEMMA PagesRefine ==
  ASSUME RunInv, StatusInv, FetchedIsShown, [PageNext]_allVars
  PROVE  FetchedIsShown' /\ [Result!Next]_(Result!vars)
<1>1. TypeOK /\ [ServiceNext]_serviceVars
  BY PageStepServes DEF RunInv
<1>2. CASE FetchedIsShown' /\ UNCHANGED Shown
  <2>1. CASE Result!Service
    BY <1>2, <2>1 DEF Result!Next, Shown
  <2>2. CASE Steady
    BY <1>2, <2>2 DEF Steady, Result!vars, Told, Shown
  <2> QED BY <1>1, <1>2, <2>1, <2>2, ServiceRefines
<1>3. ASSUME NEW a \in Pages, Submit(a)
      PROVE  FetchedIsShown' /\ UNCHANGED Shown
  <2>1. view[a] # "shown" /\ \E v \in {"opening", "error"} : See(a, v)
    BY <1>3 DEF Submit
  <2> QED BY <2>1, SeesNothing
<1>4. ASSUME NEW a \in Pages, Open(a) \/ StreamEnds(a) \/ PollTick(a)
      PROVE  FetchedIsShown' /\ UNCHANGED Shown
  <2>1. view[a] # "shown" /\ \E v \in {"watching", "fetching"} : See(a, v)
    BY <1>4 DEF Open, StreamEnds, PollTick
  <2> QED BY <2>1, SeesNothing
<1>5. ASSUME NEW a \in Pages, Fetch(a)
      PROVE  FetchedIsShown' /\ [Result!Next]_(Result!vars)
  <2>1. CASE Result!Show(a)
    BY <1>1, <1>5, <2>1, FetchShows DEF Result!Next
  <2>2. CASE Steady /\ UNCHANGED Shown
    BY <1>1, <1>5, <2>2, FetchShows DEF Steady, Result!vars, Told, Shown
  <2> QED BY <1>1, <1>5, <2>1, <2>2, FetchShows
<1>6. CASE UNCHANGED pageVars
  BY <1>2, <1>6 DEF pageVars, FetchedIsShown, Shown
<1> QED BY <1>2, <1>3, <1>4, <1>5, <1>6 DEF PageNext, Browser, allVars

\* The service and the pages, with every failing write, timeout, lost stream
\* and restart, come to no more than AnalysisResult says: a result is decided
\* once, told once and after it is stored, shown only as it is stored, and taken
\* back only by a failing write before anybody was told.
THEOREM PagesImplementResult == PageSpec => ImplementsResult
<1>1. PageInit => RunInv /\ StatusInv /\ FetchedIsShown /\ Result!Init
  <2> SUFFICES ASSUME PageInit PROVE RunInv /\ StatusInv /\ FetchedIsShown /\ Result!Init
    OBVIOUS
  <2>1. RunInv
    BY InitInv DEF PageInit
  <2>2. StatusInv
    BY DEF PageInit, Init, StatusInv
  <2>3. FetchedIsShown
    BY DEF PageInit, FetchedIsShown, Statuses, Terminal
  <2>4. \A a \in Analyses : Announced(a) = {}
    BY DEF PageInit, Init, Announced
  <2>5. Result!Init
    BY <2>4 DEF PageInit, Init, Result!Init
  <2> QED BY <2>1, <2>2, <2>3, <2>5
<1>2. RunInv /\ StatusInv /\ FetchedIsShown /\ [PageNext]_allVars
        => /\ (RunInv /\ StatusInv /\ FetchedIsShown)'
           /\ [Result!Next]_(Result!vars)
  BY PageStepServes, StepInv, StatusStep, PagesRefine
<1> QED BY <1>1, <1>2, PTL DEF PageSpec, ImplementsResult, Result!Spec
=============================================================================
