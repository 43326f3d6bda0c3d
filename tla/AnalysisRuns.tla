---------------------------- MODULE AnalysisRuns ----------------------------
(* The analysis service (services/analysis_service.py): the background task   *)
(* that runs each analysis, the semaphore it shares with the local inference  *)
(* clients (core/concurrency.py, core/local_llm.py), the analysis record and  *)
(* the trace in MongoDB, and the event streams of browsers.                   *)
(*                                                                            *)
(* The reliability loop is the phase "running": it calls the model some       *)
(* number of times and ends with an outcome, or raises.  MongoDB and the      *)
(* process may fail, at most MaxFaults and MaxCrashes times.                  *)
EXTENDS Integers, Sequences, FiniteSets

CONSTANTS Analyses,     \* the analyses users start
          Local,        \* those that run on a local inference server
          Permits,      \* LOCAL_LLM_MAX_CONCURRENCY
          MaxCalls,     \* bound: calls of one analysis to its local server
          MaxFaults,    \* bound: failing writes to MongoDB
          MaxCrashes    \* bound: restarts of the process

ASSUME AnalysesAssumption == IsFiniteSet(Analyses) /\ Local \subseteq Analyses
ASSUME PermitsAssumption == Permits \in Nat \ {0}
ASSUME BoundsAssumption == MaxCalls \in Nat /\ MaxFaults \in Nat /\ MaxCrashes \in Nat

VARIABLES
  status,    \* status[a]: the status field of the analysis record
  trace,     \* trace[a]: the events of the analysis in MongoDB
  phase,     \* phase[a]: where the background task of the analysis is
  outcome,   \* outcome[a]: what the reliability loop returned
  calls,     \* calls[a]: calls to the local server so far
  line,      \* the waiters of the semaphore, first come first served
  stream,    \* stream[a]: the event stream of the analysis
  queue,     \* queue[a]: events published to the stream, not yet sent
  faults,    \* writes that failed so far
  crashes    \* restarts so far

task == <<phase, outcome, calls, line>>
record == <<status, trace>>
sse == <<stream, queue>>
environment == <<faults, crashes>>
serviceVars == <<status, trace, phase, outcome, calls, line, stream, queue, faults, crashes>>

Terminal == {"completed", "abstained", "failed"}
Statuses == {"none", "pending", "processing"} \cup Terminal
TerminalEvents == {"analysis.completed", "analysis.abstained", "analysis.failed", "analysis.outage"}
Events == {"analysis.started", "generation.degenerate"} \cup TerminalEvents
Outcomes == {"outage", "abstained", "completed", "echoed"}

\* "dropped": the record exists and no task was ever scheduled for it;
\* "lost": the process died while the task ran.
Over == {"none", "dropped", "done", "lost"}
Phases == Over \cup {"scheduled", "queued", "admitted", "running", "calling", "generating",
                     "returned", "stored", "raised", "reported"}

StatusOf(o) == CASE o = "outage" -> "failed" [] o = "abstained" -> "abstained" [] OTHER -> "completed"
EventOf(o) == CASE o = "outage" -> "analysis.outage" [] o = "abstained" -> "analysis.abstained"
                [] OTHER -> "analysis.completed"

-----------------------------------------------------------------------------
(* The semaphore.  A pipeline holds one permit for the whole of its loop, and *)
(* each local call of that loop takes another permit of the same semaphore.   *)

In(ph) == {a \in Analyses : phase[a] \in ph}
Held == Cardinality(In({"admitted", "running", "calling"})) + 2 * Cardinality(In({"generating"}))
Free == Permits - Held

\* Acquire a permit: at once when one is free and nobody waits, else in line.
Acquire(a, waiting, granted) ==
  \/ line = <<>> /\ Free > 0 /\ phase' = [phase EXCEPT ![a] = granted] /\ UNCHANGED line
  \/ ~(line = <<>> /\ Free > 0) /\ phase' = [phase EXCEPT ![a] = waiting]
                                /\ line' = Append(line, a)

\* A waiter who gives up leaves the line.
Without(s, i) == [j \in 1 .. Len(s) - 1 |-> IF j < i THEN s[j] ELSE s[j + 1]]

\* A released permit goes to the first in line.
Grant ==
  /\ line # <<>> /\ Free > 0
  /\ phase' = [phase EXCEPT ![Head(line)] = IF @ = "queued" THEN "admitted" ELSE "generating"]
  /\ line' = Tail(line)
  /\ UNCHANGED <<record, outcome, calls, sse, environment>>

-----------------------------------------------------------------------------
(* Writes to MongoDB, and events.                                             *)

Fails == faults < MaxFaults /\ faults' = faults + 1 /\ UNCHANGED crashes

\* add_trace_event: the event is stored, then published to the open stream.
Record(a, e) ==
  /\ trace' = [trace EXCEPT ![a] = @ \cup {e}]
  /\ queue' = [queue EXCEPT ![a] = IF stream[a] = "open" THEN Append(@, e) ELSE @]

Goto(a, ph) == phase' = [phase EXCEPT ![a] = ph]

\* A step that writes: done, or the write fails and the exception handler runs.
Raise(a) == Goto(a, "raised") /\ Fails /\ UNCHANGED <<record, outcome, calls, line, sse>>

-----------------------------------------------------------------------------
Init ==
  /\ status = [a \in Analyses |-> "none"]
  /\ trace = [a \in Analyses |-> {}]
  /\ phase = [a \in Analyses |-> "none"]
  /\ outcome = [a \in Analyses |-> "none"]
  /\ calls = [a \in Analyses |-> 0]
  /\ line = <<>>
  /\ stream = [a \in Analyses |-> "none"]
  /\ queue = [a \in Analyses |-> <<>>]
  /\ faults = 0 /\ crashes = 0

\* create_analysis: the record, its first event, and the task of the response.
\* When the event cannot be stored the request fails and the record stays.
Create(a) ==
  /\ phase[a] = "none"
  /\ status' = [status EXCEPT ![a] = "pending"]
  /\ \/ Goto(a, "scheduled") /\ Record(a, "analysis.started") /\ UNCHANGED environment
     \/ Goto(a, "dropped") /\ Fails /\ UNCHANGED <<trace, queue>>
  /\ UNCHANGED <<outcome, calls, line, stream>>

Start(a) ==
  /\ phase[a] = "scheduled"
  /\ Acquire(a, "queued", "admitted")
  /\ UNCHANGED <<record, outcome, calls, sse, environment>>

MarkProcessing(a) ==
  /\ phase[a] = "admitted"
  /\ \/ /\ status' = [status EXCEPT ![a] = "processing"] /\ Goto(a, "running")
        /\ UNCHANGED <<trace, outcome, calls, line, sse, environment>>
     \/ Raise(a)

\* A node of the loop calls the local server.
Call(a) ==
  /\ phase[a] = "running" /\ a \in Local /\ calls[a] < MaxCalls
  /\ calls' = [calls EXCEPT ![a] = @ + 1]
  /\ Acquire(a, "calling", "generating")
  /\ UNCHANGED <<record, outcome, sse, environment>>

Answer(a) ==
  /\ phase[a] = "generating" /\ Goto(a, "running")
  /\ UNCHANGED <<record, outcome, calls, line, sse, environment>>

\* Mutant: a call that has left the line keeps its place in it.
TimeOutKeepingPlace(a) ==
  /\ phase[a] \in {"calling", "generating"} /\ Goto(a, "running")
  /\ UNCHANGED <<record, outcome, calls, line, sse, environment>>

\* Mutant: only a call the server is working on times out.
TimeOutServed(a) ==
  /\ phase[a] = "generating" /\ Goto(a, "running")
  /\ UNCHANGED <<record, outcome, calls, line, sse, environment>>

\* The timeout of the node cancels the call, in line or at the server; the
\* loop goes on with the fallback of the node.
TimeOut(a) ==
  /\ Goto(a, "running")
  /\ \/ phase[a] = "generating" /\ UNCHANGED line
     \/ /\ phase[a] = "calling"
        /\ \E i \in DOMAIN line :
             line[i] = a /\ line' = Without(line, i)
  /\ UNCHANGED <<record, outcome, calls, sse, environment>>

\* The loop returns and the pipeline leaves `async with sem`.
Return(a) ==
  /\ phase[a] = "running" /\ Goto(a, "returned")
  /\ \E o \in Outcomes : outcome' = [outcome EXCEPT ![a] = o]
  /\ UNCHANGED <<record, calls, line, sse, environment>>

LoopRaises(a) ==
  /\ phase[a] = "running" /\ Goto(a, "raised")
  /\ UNCHANGED <<record, outcome, calls, line, sse, environment>>

\* An answer that echoes the prompt is noted and replaced before it is stored.
DiscardEcho(a) ==
  /\ phase[a] = "returned" /\ outcome[a] = "echoed"
  /\ \/ /\ Record(a, "generation.degenerate") /\ outcome' = [outcome EXCEPT ![a] = "completed"]
        /\ UNCHANGED <<status, phase, calls, line, stream, environment>>
     \/ Raise(a)

\* Mutant: the event is published before the record is written.
StoreResultEventFirst(a) ==
  /\ phase[a] = "returned" /\ outcome[a] # "echoed"
  /\ Record(a, EventOf(outcome[a]))
  /\ \/ status' = [status EXCEPT ![a] = StatusOf(outcome[a])] /\ Goto(a, "done") /\ UNCHANGED environment
     \/ Goto(a, "raised") /\ Fails /\ UNCHANGED status
  /\ UNCHANGED <<outcome, calls, line, stream>>

StoreResult(a) ==
  /\ phase[a] = "returned" /\ outcome[a] # "echoed"
  /\ \/ /\ status' = [status EXCEPT ![a] = StatusOf(outcome[a])] /\ Goto(a, "stored")
        /\ UNCHANGED <<trace, outcome, calls, line, sse, environment>>
     \/ Raise(a)

\* Mutant: what follows the event (the metrics) may raise into the handler.
AnnounceUnguarded(a) ==
  /\ phase[a] = "stored"
  /\ Record(a, EventOf(outcome[a])) /\ (Goto(a, "done") \/ Goto(a, "raised"))
  /\ UNCHANGED <<status, outcome, calls, line, stream, environment>>

Announce(a) ==
  /\ phase[a] = "stored"
  /\ \/ /\ Record(a, EventOf(outcome[a])) /\ Goto(a, "done")
        /\ UNCHANGED <<status, outcome, calls, line, stream, environment>>
     \/ Raise(a)

\* The exception handler: the event first, then the record.  A write that
\* fails here ends the task.
AnnounceFailure(a) ==
  /\ phase[a] = "raised"
  /\ \/ Record(a, "analysis.failed") /\ Goto(a, "reported") /\ UNCHANGED environment
     \/ Goto(a, "done") /\ Fails /\ UNCHANGED <<trace, queue>>
  /\ UNCHANGED <<status, outcome, calls, line, stream>>

StoreFailure(a) ==
  /\ phase[a] = "reported" /\ Goto(a, "done")
  /\ \/ status' = [status EXCEPT ![a] = "failed"] /\ UNCHANGED environment
     \/ Fails /\ UNCHANGED status
  /\ UNCHANGED <<trace, outcome, calls, line, sse>>

Pipeline(a) ==
  \/ Start(a) \/ MarkProcessing(a) \/ Call(a) \/ Answer(a) \/ TimeOut(a)
  \/ Return(a) \/ LoopRaises(a) \/ DiscardEcho(a) \/ StoreResult(a) \/ Announce(a)
  \/ AnnounceFailure(a) \/ StoreFailure(a)

-----------------------------------------------------------------------------
(* sse_event_generator, one stream per analysis.                              *)

\* The ticket of the stream is single-use and expires: the stream may be refused.
Subscribe(a, granted) ==
  /\ stream[a] = "none" /\ status[a] # "none"
  /\ stream' = [stream EXCEPT ![a] = IF granted THEN "open" ELSE "ended"]
  /\ UNCHANGED <<record, task, queue, environment>>

Closed(a) == stream' = [stream EXCEPT ![a] = "ended"] /\ queue' = [queue EXCEPT ![a] = <<>>]

\* An event is sent; a terminal one is the last.
Send(a) ==
  /\ stream[a] = "open" /\ queue[a] # <<>>
  /\ \/ Head(queue[a]) \in TerminalEvents /\ Closed(a)
     \/ /\ Head(queue[a]) \notin TerminalEvents
        /\ queue' = [queue EXCEPT ![a] = Tail(@)] /\ UNCHANGED stream
  /\ UNCHANGED <<record, task, environment>>

\* Six minutes without an event end the stream, and so does the network.
Disconnect(a) ==
  /\ stream[a] = "open" /\ Closed(a)
  /\ UNCHANGED <<record, task, environment>>

-----------------------------------------------------------------------------
\* The process restarts: tasks, streams and the semaphore are gone, MongoDB
\* stays, and nothing resumes or closes the analyses that were under way.
Crash ==
  /\ crashes < MaxCrashes /\ crashes' = crashes + 1
  /\ phase' = [a \in Analyses |-> IF phase[a] \in Over THEN phase[a] ELSE "lost"]
  /\ line' = <<>>
  /\ stream' = [a \in Analyses |-> IF stream[a] = "open" THEN "ended" ELSE stream[a]]
  /\ queue' = [a \in Analyses |-> <<>>]
  /\ UNCHANGED <<record, outcome, calls, faults>>

ServiceStep ==
  \/ \E a \in Analyses : Pipeline(a) \/ Send(a) \/ Disconnect(a)
  \/ Grant \/ Crash

Request(a) == Create(a) \/ \E granted \in BOOLEAN : Subscribe(a, granted)

ServiceNext == ServiceStep \/ \E a \in Analyses : Request(a)
ServiceSpec == Init /\ [][ServiceNext]_serviceVars

\* The event loop runs every task that is ready, the semaphore wakes its first
\* waiter, and the timers of nodes and streams go off.
ServiceFairness ==
  /\ \A a \in Analyses : WF_serviceVars(Pipeline(a)) /\ WF_serviceVars(Send(a) \/ Disconnect(a))
  /\ WF_serviceVars(Grant)

-----------------------------------------------------------------------------
(* What the service promises.                                                 *)

TypeOK ==
  /\ status \in [Analyses -> Statuses]
  /\ trace \in [Analyses -> SUBSET Events]
  /\ phase \in [Analyses -> Phases]
  /\ outcome \in [Analyses -> Outcomes \cup {"none"}]
  /\ calls \in [Analyses -> 0 .. MaxCalls]
  /\ line \in Seq(Analyses)
  /\ stream \in [Analyses -> {"none", "open", "ended"}]
  /\ queue \in [Analyses -> Seq(Events)]
  /\ faults \in 0 .. MaxFaults
  /\ crashes \in 0 .. MaxCrashes

\* The events that tell of a status, and what the trace of an analysis tells.
Telling(s) ==
  CASE s = "completed" -> {"analysis.completed"}
    [] s = "abstained" -> {"analysis.abstained"}
    [] OTHER -> {"analysis.failed", "analysis.outage"}
Announced(a) == {s \in Terminal : Telling(s) \cap trace[a] # {}}

\* When a task has ended and at most one write failed, a stored result has its
\* event in the trace and no event announces another (the order of the writes
\* in the three endings and in the exception handler of run_analysis_pipeline).
ReportedIsStored ==
  \A a \in Analyses :
    phase[a] = "done" /\ faults <= 1 /\ status[a] \in Terminal => Announced(a) = {status[a]}

\* A result a browser has been told of is in the record, and is never changed
\* again: "Update database first, then publish trace event".
AnnouncedIsFinal ==
  [][\A a \in Analyses :
       \A s \in Announced(a) \ {"failed"} : status[a] = s /\ status'[a] = s]_serviceVars

Members(s) == {s[i] : i \in DOMAIN s}
Once(s) == \A i, j \in DOMAIN s : s[i] = s[j] => i = j

\* No permit is taken twice: a waiter is in line once, only while it waits, and
\* at most Permits permits are out, also after timeouts and a restart.
PermitsKept ==
  /\ Held \in 0 .. Permits
  /\ Once(line)
  /\ Members(line) = In({"queued", "calling"})

\* Pipelines that hold permits and wait for more do not block each other for
\* ever: the timeouts of their nodes end every run that was scheduled.
EveryRunEnds == \A a \in Analyses : phase[a] = "scheduled" ~> phase[a] \in {"done", "lost"}
=============================================================================
