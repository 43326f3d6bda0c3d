--------------------------- MODULE AnalysisPages ---------------------------
(* The page that starts an analysis and shows its result                      *)
(* (apps/web/src/pages/PlaygroundPage.jsx with lib/api.js), over the analysis *)
(* service.  A page opens the event stream, polls the record every two        *)
(* seconds beside it, and at the first sign of an end fetches the final       *)
(* record, at most MaxFetches times.                                          *)
EXTENDS AnalysisRuns

CONSTANTS Pages,        \* the analyses started by a page, others by a client of the API
          MaxFetches    \* maxPollAttempts of fetchFinalAnalysis
ASSUME PagesAssumption == Pages \subseteq Analyses
ASSUME MaxFetchesAssumption == MaxFetches \in Nat \ {0}

VARIABLES
  view,      \* view[a]: what the page of the analysis does
  fetches,   \* fetches[a]: attempts of fetchFinalAnalysis
  last       \* last[a]: the status last fetched

pageVars == <<view, fetches, last>>
allVars == <<serviceVars, pageVars>>

PageInit ==
  /\ Init
  /\ view = [a \in Pages |-> "idle"]
  /\ fetches = [a \in Pages |-> 0]
  /\ last = [a \in Pages |-> "none"]

See(a, v) == view' = [view EXCEPT ![a] = v] /\ UNCHANGED <<fetches, last>>

\* handleSubmit: without a response the page shows the error.
Submit(a) ==
  /\ view[a] = "idle" /\ Create(a)
  /\ See(a, IF phase'[a] = "dropped" THEN "error" ELSE "opening")

\* openAnalysisStream: onError starts the final fetch at once.
Open(a) ==
  /\ view[a] = "opening"
  /\ \E granted \in BOOLEAN :
       Subscribe(a, granted) /\ See(a, IF granted THEN "watching" ELSE "fetching")

\* A terminal event, or the end of the stream without one.
StreamEnds(a) ==
  /\ view[a] = "watching" /\ stream[a] = "ended" /\ See(a, "fetching")
  /\ UNCHANGED serviceVars

\* startFallbackPolling: the record is final before the stream says so.
PollTick(a) ==
  /\ view[a] = "watching" /\ status[a] \in Terminal /\ See(a, "fetching")
  /\ UNCHANGED serviceVars

\* The end of fetchFinalAnalysis closes the stream, and no poll is left.
Settle(a, v) ==
  /\ view' = [view EXCEPT ![a] = v]
  /\ IF stream[a] = "open" THEN Disconnect(a) ELSE UNCHANGED serviceVars

\* Mutant: a record that is not final is fetched again without counting.
FetchUnbounded(a) ==
  /\ view[a] = "fetching" /\ status[a] \in Terminal
  /\ last' = [last EXCEPT ![a] = status[a]]
  /\ Settle(a, "shown") /\ UNCHANGED fetches

\* One attempt of fetchFinalAnalysis: a final record is shown, and after the
\* last attempt whatever was fetched.
Fetch(a) ==
  /\ view[a] = "fetching"
  /\ fetches' = [fetches EXCEPT ![a] = @ + 1]
  /\ \E reached \in BOOLEAN :
       /\ last' = [last EXCEPT ![a] = IF reached THEN status[a] ELSE @]
       /\ \/ reached /\ status[a] \in Terminal /\ Settle(a, "shown")
          \/ /\ ~(reached /\ status[a] \in Terminal) /\ fetches[a] + 1 < MaxFetches
             /\ UNCHANGED <<view, serviceVars>>
          \/ /\ ~(reached /\ status[a] \in Terminal) /\ fetches[a] + 1 = MaxFetches
             /\ Settle(a, IF last'[a] = "none" THEN "error" ELSE "shown")

Browser(a) == Open(a) \/ StreamEnds(a) \/ PollTick(a) \/ Fetch(a)

PageNext ==
  \/ ServiceStep /\ UNCHANGED pageVars
  \/ \E a \in Pages : Submit(a) \/ Browser(a)
  \/ \E a \in Analyses \ Pages : Create(a) /\ UNCHANGED pageVars

PageSpec == PageInit /\ [][PageNext]_allVars /\ ServiceFairness /\ \A a \in Pages : WF_allVars(Browser(a))

-----------------------------------------------------------------------------

\* A result the page shows is the one in the record, as long as no write
\* failed: the page fetches after the stream or the poll tells it to.
ShownIsStored ==
  \A a \in Pages :
    view[a] = "shown" /\ last[a] \in Terminal /\ faults = 0 => status[a] = last[a]

Result == INSTANCE AnalysisResult WITH
  stored   <- status,
  told     <- [a \in Analyses |-> Announced(a)],
  shown    <- [a \in Pages |-> IF view[a] = "shown" /\ last[a] \in Terminal THEN last[a] ELSE "none"],
  failures <- faults

\* The pipeline, its exception handler, the restarts and the fetches of a page
\* come to no more than: accepted, begun, decided, told, shown, in this order,
\* or given up, which takes back no result that was told.
ImplementsResult == Result!Spec

\* The page never spins for ever: whatever the stream, the server and the
\* process do, it shows something or an error.
PageSettles == \A a \in Pages : view[a] = "opening" ~> view[a] \in {"shown", "error"}
=============================================================================
