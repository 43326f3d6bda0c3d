--------------------------- MODULE MCModelDiscovery ---------------------------
(***************************************************************************)
(* ModelDiscovery with one provider of each kind: all is installed at      *)
(* first, or nothing, and of the models of the second provider one is      *)
(* found by the scan of the hub only.                                      *)
(***************************************************************************)
EXTENDS ModelDiscovery

CONSTANT Hub \* such models

MCDisks == {[p \in OnDemand \cup Loaded |-> S] : S \in {Models, {}}}
MCHubOnly == [p \in OnDemand \cup Loaded |-> IF p \in Loaded THEN Hub ELSE {}]
=============================================================================
