--------------------------- MODULE Admission_proofs ---------------------------
(***************************************************************************)
(* Which model an analysis runs on, for any models, providers, lists and   *)
(* environment.                                                            *)
(***************************************************************************)
EXTENDS Admission, TLAPS

\* The one environment in which policy and resolution part.
TwoNames(p, m) ==
  /\ p = "gemini" /\ m = None
  /\ env.GEMINI_MODEL # None /\ env.LLM_MODEL # None /\ env.GEMINI_MODEL # env.LLM_MODEL

\* An admitted request was allowed the model that the policy took for its own.
PolicyHeld ==
  \A r \in Requests : request[r] # Nobody =>
    Effective(request[r].of, request[r].named) \in request[r].allowed

\* What is recorded is what was resolved.
RecordedIsResolved ==
  \A r \in Requests : request[r].step \in {"probing", "running"} =>
    request[r].model = Resolved(r)

IInv == AdmissionTypeOK /\ PolicyHeld /\ RecordedIsResolved

-----------------------------------------------------------------------------
(* The two derivations of the model. *)

LEMMA LocalOverride ==
  ASSUME NEW p \in Local PROVE Override(p) = env.local[p]
<1>1. p # "gemini" /\ p # "nvidia"
  BY AdmissionAssumption
<1> QED BY <1>1 DEF Override

\* Settings and ModelConfig agree on every model but one that is named twice.
LEMMA DerivationsAgree ==
  ASSUME env \in Environments, NEW p \in Providers, NEW m \in Maybe, ~TwoNames(p, m)
  PROVE  Or(m, ModelFor(p)) = Effective(p, m)
<1>1. CASE m # None
  BY <1>1 DEF Or, Effective
<1>2. CASE m = None /\ p \in Local
  BY <1>2, LocalOverride DEF Or, Effective, ModelFor
<1>3. CASE m = None /\ p \in Cloud /\ p = "gemini"
  <2>1. p \notin Local
    BY <1>3, AdmissionAssumption
  <2>2. Override(p) = Or(env.GEMINI_MODEL, env.LLM_MODEL)
    BY <2>1, <1>3 DEF Override
  <2> QED BY <2>1, <2>2, <1>3 DEF Or, Effective, ModelFor, TwoNames
<1>4. CASE m = None /\ p \in Cloud /\ p = "nvidia"
  <2>1. p \notin Local
    BY <1>4, AdmissionAssumption
  <2>2. Override(p) = ModelFor(p) \/ Override(p) = None
    BY <2>1, <1>4 DEF Override
  <2> QED BY <2>2, <1>4 DEF Or, Effective
<1> QED BY <1>1, <1>2, <1>3, <1>4, AdmissionAssumption DEF Providers

\* Every provider has a model, whatever the environment leaves open.
LEMMA ResolvesToAModel ==
  ASSUME env \in Environments, NEW p \in Providers
  PROVE  ModelFor(p) \in Models
<1>1. Yaml[p] \in Models
  BY AdmissionAssumption DEF Providers
<1>2. CASE p \in Local
  BY <1>1, <1>2 DEF ModelFor, Or, Environments, Maybe
<1>3. CASE p \notin Local
  BY <1>1, <1>3 DEF ModelFor, Or, Environments, Maybe
<1> QED BY <1>2, <1>3

LEMMA AllowedIsModels ==
  ASSUME AdmissionTypeOK, NEW p \in Providers
  PROVE  Allowed(p) \in SUBSET Models
<1>1. Listed(p) \in SUBSET Models
  BY AdmissionAssumption DEF Listed, AdmissionTypeOK, Providers
<1>2. Override(p) \in Maybe
  <2>1. CASE p \in Local
    BY <2>1, LocalOverride DEF AdmissionTypeOK, Environments
  <2>2. CASE p \notin Local /\ p = "gemini"
    BY <2>2 DEF Override, AdmissionTypeOK, Environments, Or
  <2>3. CASE p \notin Local /\ p = "nvidia"
    <3>1. Override(p) = ModelFor(p) \/ Override(p) = None
      BY <2>3 DEF Override
    <3> QED BY <3>1, ResolvesToAModel DEF AdmissionTypeOK, Maybe
  <2> QED BY <2>1, <2>2, <2>3, AdmissionAssumption DEF Providers
<1> QED BY <1>1, <1>2 DEF Allowed, Maybe

-----------------------------------------------------------------------------
(* The actions. *)

LEMMA AskStep ==
  ASSUME IInv, NEW r \in Requests, NEW named \in Providers \cup {None}, NEW m \in Maybe,
         Ask(r, named, m)
  PROVE  IInv'
<1> DEFINE p == Or(named, env.provider)
           new == [step |-> "valid", of |-> p, named |-> m, allowed |-> Allowed(p), model |-> None]
<1>1. p \in Providers
  BY DEF Or, IInv, AdmissionTypeOK, Environments
<1>2. new \in Admitted
  BY <1>1, AllowedIsModels DEF IInv, Admitted, Maybe
<1>3. request' = [request EXCEPT ![r] = new] /\ Effective(p, m) \in Allowed(p)
      /\ UNCHANGED <<env, discovered, stamp, answered, probes>>
  BY DEF Ask
<1>4. AdmissionTypeOK'
  BY <1>2, <1>3 DEF IInv, AdmissionTypeOK
<1>5. \A q \in Requests : q # r => request'[q] = request[q]
  BY <1>3 DEF IInv, AdmissionTypeOK
<1>6. request'[r] = new
  BY <1>3 DEF IInv, AdmissionTypeOK
<1>7. \A o, n : Effective(o, n)' = Effective(o, n) /\ ModelFor(o)' = ModelFor(o)
  BY <1>3 DEF Effective, ModelFor, Override, Or
<1>8. PolicyHeld'
  BY <1>3, <1>5, <1>6, <1>7 DEF IInv, PolicyHeld
<1>9. RecordedIsResolved'
  BY <1>5, <1>6, <1>7 DEF IInv, RecordedIsResolved, Resolved, Or
<1> QED BY <1>4, <1>8, <1>9 DEF IInv

\* An admitted request gets a step and a model that is resolved, or is dropped;
\* whatever else moves is not what the invariant is about.
LEMMA AdvanceStep ==
  ASSUME IInv, NEW r \in Requests, request[r] # Nobody,
         UNCHANGED env, discovered' \in [Local -> SUBSET Models],
         stamp' \in [Cloud \X Models -> 0..Ttl], answered' \in [Cloud \X Models -> 0..Ttl],
         probes' \in 0..MaxProbes,
         \/ request' = [request EXCEPT ![r] = Nobody]
         \/ \E s \in {"probing", "running"} :
              request' = [request EXCEPT ![r].step = s, ![r].model = Resolved(r)]
  PROVE  IInv'
<1>1. request[r] \in Admitted /\ request \in [Requests -> {Nobody} \cup Admitted]
  BY DEF IInv, AdmissionTypeOK
<1>2. Resolved(r) \in Maybe
  BY <1>1, ResolvesToAModel DEF Resolved, Or, Admitted, IInv, AdmissionTypeOK, Maybe
<1>3. \A q \in Requests : q # r => request'[q] = request[q]
  BY <1>1
<1>4. \/ request'[r] = Nobody
      \/ /\ request'[r] \in Admitted
         /\ request'[r].of = request[r].of /\ request'[r].named = request[r].named
         /\ request'[r].allowed = request[r].allowed /\ request'[r].model = Resolved(r)
  BY <1>1, <1>2 DEF Admitted
<1>5. AdmissionTypeOK'
  BY <1>1, <1>3, <1>4 DEF IInv, AdmissionTypeOK
<1>6. \A o, n : Effective(o, n)' = Effective(o, n) /\ ModelFor(o)' = ModelFor(o)
  BY DEF Effective, ModelFor, Override, Or
<1>7. PolicyHeld'
  BY <1>3, <1>4, <1>6 DEF IInv, PolicyHeld
<1>8. \A q \in Requests : q # r => Resolved(q)' = Resolved(q)
  BY <1>3, <1>6 DEF Resolved, Or
<1>9. request'[r] # Nobody => Resolved(r)' = Resolved(r)
  BY <1>4, <1>6 DEF Resolved, Or, Nobody
<1>10. RecordedIsResolved'
  BY <1>3, <1>4, <1>8, <1>9 DEF IInv, RecordedIsResolved, Nobody
<1> QED BY <1>5, <1>7, <1>10 DEF IInv

LEMMA OlderTypes ==
  ASSUME NEW ages \in [Cloud \X Models -> 0..Ttl]
  PROVE  Older(ages) \in [Cloud \X Models -> 0..Ttl]
  BY AdmissionAssumption DEF Older

\* Both derivations read the environment and nothing else.
LEMMA SameRequests ==
  ASSUME IInv, UNCHANGED <<env, request>>
  PROVE  PolicyHeld' /\ RecordedIsResolved'
<1>1. \A o, n : Effective(o, n)' = Effective(o, n) /\ ModelFor(o)' = ModelFor(o)
  BY DEF Effective, ModelFor, Override, Or
<1>2. PolicyHeld'
  BY <1>1 DEF IInv, PolicyHeld
<1>3. \A r \in Requests : Resolved(r)' = Resolved(r)
  BY <1>1 DEF Resolved, Or
<1>4. RecordedIsResolved'
  BY <1>3 DEF IInv, RecordedIsResolved
<1> QED BY <1>2, <1>4

LEMMA QuietStep ==
  ASSUME IInv, (\E p \in Local : \E found \in SUBSET Models : Discover(p, found)) \/ Tick
  PROVE  IInv'
<1>1. UNCHANGED <<env, request>>
  BY DEF Discover, Tick
<1>2. AdmissionTypeOK'
  BY <1>1, OlderTypes DEF IInv, AdmissionTypeOK, Discover, Tick
<1>3. PolicyHeld' /\ RecordedIsResolved'
  BY <1>1, SameRequests
<1> QED BY <1>2, <1>3 DEF IInv

-----------------------------------------------------------------------------
\* Whatever the environment, the policy was held against the model that runs or
\* against the other of two names.
THEOREM AdmissionInvariant == Spec => []IInv
<1>1. Init => IInv
  BY AdmissionAssumption DEF Init, IInv, AdmissionTypeOK, PolicyHeld, RecordedIsResolved, Nobody
<1>2. IInv /\ [Next]_vars => IInv'
  <2> SUFFICES ASSUME IInv, [Next]_vars PROVE IInv'
    OBVIOUS
  <2>1. CASE \E r \in Requests : \E p \in Providers \cup {None}, m \in Maybe : Ask(r, p, m)
    BY <2>1, AskStep
  <2>2. ASSUME NEW r \in Requests, Preflight(r) PROVE IInv'
    <3>1. request[r] # Nobody
      BY <2>2 DEF Preflight, PreflightLocal, PreflightReused, PreflightCloud, Nobody
    <3>2. CASE PreflightLocal(r)
      BY <3>1, <3>2, AdvanceStep DEF PreflightLocal, Drop, IInv, AdmissionTypeOK
    <3>3. CASE PreflightReused(r)
      BY <3>1, <3>3, AdvanceStep DEF PreflightReused, IInv, AdmissionTypeOK
    <3>4. CASE PreflightCloud(r)
      <4>1. probes' \in 0..MaxProbes
        BY <3>4, AdmissionAssumption DEF PreflightCloud, IInv, AdmissionTypeOK
      <4> QED BY <3>1, <3>4, <4>1, AdvanceStep DEF PreflightCloud, IInv, AdmissionTypeOK
    <3> QED BY <2>2, <3>2, <3>3, <3>4 DEF Preflight
  <2>3. ASSUME NEW r \in Requests, ProbeAnswers(r) PROVE IInv'
    <3>1. request[r] \in Admitted /\ request[r].model = Resolved(r) /\ request[r] # Nobody
      BY <2>3 DEF ProbeAnswers, IInv, AdmissionTypeOK, RecordedIsResolved, Nobody
    <3>2. request' = [request EXCEPT ![r].step = "running", ![r].model = Resolved(r)]
      <4>1. request' = [request EXCEPT ![r].step = "running"]
        BY <2>3 DEF ProbeAnswers, Advance
      <4>2. [request[r] EXCEPT !.step = "running"]
              = [request[r] EXCEPT !.step = "running", !.model = Resolved(r)]
        BY <3>1 DEF Admitted
      <4> QED BY <4>1, <4>2 DEF IInv, AdmissionTypeOK
    <3>3. stamp' \in [Cloud \X Models -> 0..Ttl] /\ answered' \in [Cloud \X Models -> 0..Ttl]
      <4>1. 0 \in 0..Ttl
        BY AdmissionAssumption
      <4> QED BY <2>3, <4>1 DEF ProbeAnswers, IInv, AdmissionTypeOK
    <3> QED BY <2>3, <3>1, <3>2, <3>3, AdvanceStep DEF ProbeAnswers, IInv, AdmissionTypeOK
  <2>4. ASSUME NEW r \in Requests, ProbeFails(r) \/ Ends(r) PROVE IInv'
    <3>1. request[r] # Nobody
      BY <2>4 DEF ProbeFails, Ends, Nobody
    <3> QED BY <2>4, <3>1, AdvanceStep DEF ProbeFails, Ends, Drop, IInv, AdmissionTypeOK
  <2>5. CASE (\E p \in Local : \E found \in SUBSET Models : Discover(p, found)) \/ Tick
    BY <2>5, QuietStep
  <2>6. CASE UNCHANGED vars
    <3>1. AdmissionTypeOK'
      BY <2>6 DEF vars, IInv, AdmissionTypeOK
    <3>2. PolicyHeld' /\ RecordedIsResolved'
      BY <2>6, SameRequests DEF vars
    <3> QED BY <3>1, <3>2 DEF IInv
  <2> QED BY <2>1, <2>2, <2>3, <2>4, <2>5, <2>6 DEF Next
<1> QED BY <1>1, <1>2, PTL DEF Spec

\* Every admitted analysis runs on a model it was allowed, unless two variables
\* name one for gemini and the request names none.
THEOREM AnalysesRunWhatWasAllowed == Spec => []RunsWhatWasAllowed
<1>1. IInv => RunsWhatWasAllowed
  <2> SUFFICES ASSUME IInv, NEW r \in Requests, request[r].step \in {"probing", "running"}
               PROVE  request[r].model \in request[r].allowed \/ NamedTwice(r)
    BY DEF RunsWhatWasAllowed
  <2>1. request[r] \in Admitted /\ request[r] # Nobody
    BY DEF IInv, AdmissionTypeOK, Nobody
  <2>2. CASE TwoNames(request[r].of, request[r].named)
    BY <2>2 DEF TwoNames, NamedTwice
  <2>3. CASE ~TwoNames(request[r].of, request[r].named)
    <3>1. request[r].of \in Providers /\ request[r].named \in Maybe
      BY <2>1 DEF Admitted
    <3>2. Resolved(r) = Effective(request[r].of, request[r].named)
      BY <2>3, <3>1, DerivationsAgree DEF Resolved, IInv, AdmissionTypeOK
    <3>3. Resolved(r) \in request[r].allowed
      BY <2>1, <3>2 DEF IInv, PolicyHeld
    <3>4. request[r].model = Resolved(r)
      BY DEF IInv, RecordedIsResolved
    <3> QED BY <3>3, <3>4
  <2> QED BY <2>2, <2>3
<1> QED BY <1>1, AdmissionInvariant, PTL


-----------------------------------------------------------------------------
(* The memory of the probes. *)

\* A stamp is as old as the last answer of its model: nothing sets one but an
\* answer, and both age alike.
StampsAreAnswers == stamp = answered

LEMMA StampsStep ==
  ASSUME StampsAreAnswers, [Next]_vars
  PROVE  StampsAreAnswers'
<1>1. CASE \E r \in Requests : ProbeAnswers(r)
  BY <1>1 DEF StampsAreAnswers, ProbeAnswers
<1>2. CASE Tick
  BY <1>2 DEF StampsAreAnswers, Tick
<1>3. CASE UNCHANGED <<stamp, answered>>
  BY <1>3 DEF StampsAreAnswers
<1> QED
  BY <1>1, <1>2, <1>3 DEF Next, Ask, Preflight, PreflightLocal, PreflightReused, PreflightCloud,
                          ProbeFails, Ends, Discover, vars

\* What a request that starts or is probed becomes.
LEMMA StartedRequest ==
  ASSUME IInv, NEW r \in Requests, NEW m,
         \/ request' = [request EXCEPT ![r].step = "running"] /\ m = request[r].model
         \/ request' = [request EXCEPT ![r].step = "running", ![r].model = m],
         request[r] # Nobody
  PROVE  request'[r].of = request[r].of /\ request'[r].model = m
<1>1. request[r] \in Admitted /\ request \in [Requests -> {Nobody} \cup Admitted]
  BY DEF IInv, AdmissionTypeOK
<1> QED BY <1>1 DEF Admitted

\* A step that touches no request but another one starts nothing.
LEMMA OthersStay ==
  ASSUME IInv, NEW r, NEW q \in Requests, q # r,
         \/ \E new : request' = [request EXCEPT ![r] = new]
         \/ \E s : request' = [request EXCEPT ![r].step = s]
         \/ \E s, m : request' = [request EXCEPT ![r].step = s, ![r].model = m]
  PROVE  request'[q] = request[q]
  BY DEF IInv, AdmissionTypeOK

\* An analysis starts on a cloud model only within the lifetime of an answer of
\* that very model, for any requests, probes and failures of them
\* (preflight_provider, _CLOUD_PROBE_OK).
THEOREM CloudModelsAreLive == Spec => LiveModels
<1>1. IInv /\ StampsAreAnswers /\ [Next]_vars => [StartsOnALiveModel]_vars
  <2> SUFFICES ASSUME IInv, StampsAreAnswers, Next,
                      NEW r \in Requests, request[r].step \in {"valid", "probing"},
                      request'[r].step = "running", request[r].of \notin Local
               PROVE  answered'[<<request'[r].of, request'[r].model>>] < Ttl
    BY DEF StartsOnALiveModel
  <2>1. request[r] # Nobody /\ request[r].step # "running"
    BY DEF Nobody
  <2>2. /\ request \in [Requests -> {Nobody} \cup Admitted] /\ request[r] \in Admitted
        /\ request[r].of \in Cloud
        /\ answered \in [Cloud \X Models -> 0..Ttl]
    BY <2>1 DEF IInv, AdmissionTypeOK, Admitted, Providers
  <2>3. request' # request
    BY <2>1
  <2>4. CASE PreflightReused(r)
    <3>1. request' = [request EXCEPT ![r].step = "running", ![r].model = Resolved(r)]
          /\ answered' = answered /\ answered[<<request[r].of, Resolved(r)>>] < Ttl
      BY <2>4 DEF PreflightReused, StampsAreAnswers
    <3>2. request'[r].of = request[r].of /\ request'[r].model = Resolved(r)
      BY <2>1, <3>1, StartedRequest
    <3> QED BY <3>1, <3>2
  <2>5. CASE ProbeAnswers(r)
    <3>1. request' = [request EXCEPT ![r].step = "running"]
          /\ answered' = [answered EXCEPT ![Key(r)] = 0]
      BY <2>5 DEF ProbeAnswers, Advance
    <3>2. request'[r].of = request[r].of /\ request'[r].model = request[r].model
      BY <2>1, <3>1, StartedRequest
    <3>3. request[r].model = Resolved(r)
      BY <2>5 DEF ProbeAnswers, IInv, RecordedIsResolved
    <3>4. Resolved(r) \in Models
      BY <2>2, ResolvesToAModel DEF Resolved, Or, Admitted, IInv, AdmissionTypeOK, Maybe
    <3>5. answered'[Key(r)] = 0
      BY <2>2, <3>1, <3>3, <3>4 DEF Key
    <3> QED BY <3>2, <3>5, AdmissionAssumption DEF Key
  <2>6. CASE PreflightLocal(r)
    BY <2>6, AdmissionAssumption DEF PreflightLocal
  <2>7. CASE PreflightCloud(r)
    <3>1. request' = [request EXCEPT ![r].step = "probing", ![r].model = Resolved(r)]
      BY <2>7 DEF PreflightCloud
    <3>2. request'[r].step = "probing"
      BY <2>2, <3>1 DEF Admitted
    <3> QED BY <3>2
  <2>8. CASE ProbeFails(r) \/ Ends(r) \/ (\E p \in Providers \cup {None}, m \in Maybe : Ask(r, p, m))
    <3>1. CASE ProbeFails(r) \/ Ends(r)
      <4>1. request' = [request EXCEPT ![r] = Nobody]
        BY <3>1 DEF ProbeFails, Ends, Drop
      <4>2. request'[r].step = "none"
        BY <2>2, <4>1 DEF Nobody
      <4> QED BY <4>2
    <3>2. CASE \E p \in Providers \cup {None}, m \in Maybe : Ask(r, p, m)
      BY <2>1, <3>2 DEF Ask
    <3> QED BY <2>8, <3>1, <3>2
  <2>9. ASSUME NEW q \in Requests, q # r,
               Preflight(q) \/ ProbeAnswers(q) \/ ProbeFails(q) \/ Ends(q)
                 \/ \E p \in Providers \cup {None}, m \in Maybe : Ask(q, p, m)
        PROVE  FALSE
    <3>1. request'[r] = request[r]
      <4>1. CASE PreflightLocal(q) \/ PreflightReused(q) \/ PreflightCloud(q)
        <5>1. (\E s, m : request' = [request EXCEPT ![q].step = s, ![q].model = m])
              \/ request' = [request EXCEPT ![q] = Nobody]
          BY <4>1 DEF PreflightLocal, PreflightReused, PreflightCloud, Drop
        <5>2. CASE request' = [request EXCEPT ![q] = Nobody]
          BY <2>9, <5>2, OthersStay
        <5>3. CASE \E s, m : request' = [request EXCEPT ![q].step = s, ![q].model = m]
          BY <2>9, <5>3, OthersStay
        <5> QED BY <5>1, <5>2, <5>3
      <4>2. CASE ProbeAnswers(q)
        BY <2>9, <4>2, OthersStay DEF ProbeAnswers, Advance
      <4>3. CASE ProbeFails(q) \/ Ends(q)
        BY <2>9, <4>3, OthersStay DEF ProbeFails, Ends, Drop
      <4>4. CASE \E p \in Providers \cup {None}, m \in Maybe : Ask(q, p, m)
        <5>1. \E new : request' = [request EXCEPT ![q] = new]
          BY <4>4 DEF Ask
        <5> QED BY <2>9, <5>1, OthersStay
      <4> QED BY <2>9, <4>1, <4>2, <4>3, <4>4 DEF Preflight
    <3> QED BY <2>1, <3>1
  <2>10. CASE (\E p \in Local : \E found \in SUBSET Models : Discover(p, found)) \/ Tick
    BY <2>3, <2>10 DEF Discover, Tick
  <2> QED BY <2>4, <2>5, <2>6, <2>7, <2>8, <2>9, <2>10 DEF Next, Preflight
<1>2. Init => StampsAreAnswers
  BY DEF Init, StampsAreAnswers
<1> QED BY <1>1, <1>2, StampsStep, AdmissionInvariant, PTL DEF Spec, LiveModels
=============================================================================
