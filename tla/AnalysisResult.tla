--------------------------- MODULE AnalysisResult ---------------------------
(***************************************************************************)
(* What those who ask for an analysis may rely on: its record goes from    *)
(* pending to processing to one result, the result is told once it is      *)
(* stored, and a page shows no result but the stored one.  An analysis may *)
(* instead be given up: that is told first and stored after, and it is the *)
(* only way to take back a result, which nobody was told of, because a     *)
(* write to the database failed.                                           *)
(*                                                                         *)
(* How the service comes to a result, what it waits for, and how events    *)
(* and records reach a page is left open; AnalysisPages implements this.   *)
(***************************************************************************)
EXTENDS Integers

CONSTANTS Analyses, Pages

VARIABLES
  stored,    \* the status in the record
  told,      \* the results that events have told of
  shown,     \* the result a page shows
  failures   \* writes that failed so far

vars == <<stored, told, shown, failures>>

Final == {"completed", "abstained", "failed"}

Init ==
  /\ stored = [a \in Analyses |-> "none"]
  /\ told = [a \in Analyses |-> {}]
  /\ shown = [a \in Pages |-> "none"]
  /\ failures = 0

Store(a, s) == stored' = [stored EXCEPT ![a] = s]
Tell(a, s) == told' = [told EXCEPT ![a] = {s}]

Fault == failures' = failures + 1

Accept(a) ==
  /\ stored[a] = "none" /\ Store(a, "pending")
  /\ Fault \/ UNCHANGED failures
  /\ UNCHANGED told

Begin(a) == stored[a] = "pending" /\ Store(a, "processing") /\ UNCHANGED <<told, failures>>

Decide(a) ==
  /\ stored[a] = "processing" /\ told[a] = {}
  /\ \E s \in Final : Store(a, s)
  /\ UNCHANGED <<told, failures>>

Announce(a) ==
  /\ stored[a] \in Final /\ told[a] = {} /\ Tell(a, stored[a])
  /\ UNCHANGED <<stored, failures>>

GiveUp(a) ==
  /\ stored[a] # "none" /\ told[a] = {}
  /\ stored[a] \in Final => failures > 0
  /\ Tell(a, "failed") /\ UNCHANGED <<stored, failures>>

StoreFailure(a) == told[a] = {"failed"} /\ Store(a, "failed") /\ UNCHANGED <<told, failures>>

Service ==
  \/ \E a \in Analyses : Accept(a) \/ Begin(a) \/ Decide(a) \/ Announce(a) \/ GiveUp(a) \/ StoreFailure(a)
  \/ Fault /\ UNCHANGED <<stored, told>>

Show(a) ==
  /\ stored[a] \in Final /\ shown[a] = "none" /\ shown' = [shown EXCEPT ![a] = stored[a]]
  /\ UNCHANGED <<stored, told, failures>>

Next ==
  \/ Service /\ UNCHANGED shown
  \/ \E a \in Pages : Show(a)

Spec == Init /\ [][Next]_vars

=============================================================================
