------------------------------- MODULE Listing -------------------------------
(***************************************************************************)
(* Finite sets put in order.  What the code filters, sorts or merges is    *)
(* the set of the places it keeps of a list, and the order they come in.   *)
(***************************************************************************)
EXTENDS Integers, Sequences, FiniteSets

\* The members of S, each behind those that come before it.
Listed(S, before) ==
  [k \in 1..Cardinality(S) |-> CHOOSE x \in S : Cardinality({y \in S : <<y, x>> \in before}) = k - 1]

Pairs(S) == S \X S
Ascending(S) == Listed(S, {p \in Pairs(S) : p[1] < p[2]})

\* What a filter leaves of a list.
Keep(list, places) ==
  LET order == Ascending(places) IN [k \in DOMAIN order |-> list[order[k]]]

\* Two places of lists that are gone through one after the other.
Earlier(p, q) == p[1] < q[1] \/ (p[1] = q[1] /\ p[2] < q[2])

Smaller(m, n) == IF m < n THEN m ELSE n
First(n, list) == [i \in 1..Smaller(n, Len(list)) |-> list[i]]
Latest(n, list) ==
  LET gone == Len(list) - Smaller(n, Len(list)) IN [i \in 1..Smaller(n, Len(list)) |-> list[gone + i]]
=============================================================================
