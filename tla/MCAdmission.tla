----------------------------- MODULE MCAdmission -----------------------------
(***************************************************************************)
(* Admission with one local and both cloud providers; each of the two has  *)
(* another default and supports nothing but that.  The second verifies     *)
(* with another model than it generates with.                              *)
(***************************************************************************)
EXTENDS Admission

MCYaml == [p \in Local \cup Cloud |-> IF p = "nvidia" THEN "large" ELSE "small"]
MCVerifiers == [p \in Local \cup Cloud |-> "small"]
MCSupported == [p \in Cloud |-> {MCYaml[p]}]
=============================================================================
