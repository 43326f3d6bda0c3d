------------------------------ MODULE Admission ------------------------------
(***************************************************************************)
(* Which model an analysis runs on: the policy the request is held against *)
(* (AnalysisCreate.enforce_server_model_policy), the resolution of the     *)
(* model that is recorded and used (create_analysis, ModelConfig), and the *)
(* preflight that asks a server whether it answers, with its memory of     *)
(* recent successes (core/local_llm.py).                                   *)
(*                                                                         *)
(* The same environment is read by two classes, Settings and ModelConfig,  *)
(* in two orders.                                                          *)
(***************************************************************************)
EXTENDS Integers

CONSTANTS
  Local,       \* ollama, llama_cpp, mlx
  Cloud,       \* gemini, nvidia
  Models, None,
  Supported,   \* supported_models_*: the models a caller may name, by cloud provider
  Yaml,        \* the default of models.yaml, by provider
  Verifiers,   \* what models.yaml makes of it for verification, by provider
  Requests,    \* requests under way at once
  Ttl,         \* CLOUD_PROBE_SUCCESS_TTL_SECONDS
  MaxProbes    \* bound: probes of a cloud model

Providers == Local \cup Cloud

ASSUME AdmissionAssumption ==
  /\ Local \subseteq {"ollama", "llama_cpp", "mlx"} /\ Cloud \subseteq {"gemini", "nvidia"}
  /\ None \notin Models \cup Providers
  /\ Supported \in [Cloud -> SUBSET Models]
  /\ Yaml \in [Local \cup Cloud -> Models]
  /\ Verifiers \in [Local \cup Cloud -> Models]
  /\ Ttl \in Nat \ {0} /\ MaxProbes \in Nat

VARIABLES
  env,         \* what the operator configured
  discovered,  \* get_discovered_llms
  request,     \* how far each request is
  stamp,       \* _CLOUD_PROBE_OK, as the time since; Ttl stands for longer
  answered,    \* history: the time since each cloud model last answered
  probes       \* the probes paid for

vars == <<env, discovered, request, stamp, answered, probes>>

Maybe == Models \cup {None}

\* AI_PROVIDER or LLM_PROVIDER names the provider of both models; aliased when
\* it was written as nim, google_genai or llamacpp.
Environments ==
  [provider: Providers, aliased: BOOLEAN, verifies: Providers,
   GEMINI_MODEL: Maybe, LLM_MODEL: Maybe, VERIFICATION_MODEL: Maybe,
   local: [Local -> Maybe]]

Nobody == [step |-> "none"]
Admitted ==
  [step: {"valid", "probing", "running"}, of: Providers, named: Maybe, allowed: SUBSET Models,
   model: Maybe]

AdmissionTypeOK ==
  /\ env \in Environments
  /\ discovered \in [Local -> SUBSET Models]
  /\ request \in [Requests -> {Nobody} \cup Admitted]
  /\ stamp \in [Cloud \X Models -> 0..Ttl] /\ answered \in [Cloud \X Models -> 0..Ttl]
  /\ probes \in 0..MaxProbes

Init ==
  /\ env \in Environments
  /\ discovered \in [Local -> SUBSET Models]
  /\ request = [r \in Requests |-> Nobody]
  /\ stamp = [k \in Cloud \X Models |-> Ttl]
  /\ answered = stamp
  /\ probes = 0

-----------------------------------------------------------------------------
(* The first of several names that is there. *)
Or(a, b) == IF a # None THEN a ELSE b

\* ModelConfig.llm_model_for
ModelFor(p) ==
  IF p \in Local THEN Or(env.local[p], Yaml[p])
  ELSE Or(Or(env.LLM_MODEL, env.GEMINI_MODEL), Yaml[p])

\* ModelConfig.verification_model_for
VerifierFor(p) ==
  Or(IF p \in Local THEN env.local[p] ELSE env.VERIFICATION_MODEL, Verifiers[p])

\* operator_llm_overrides: Settings takes GEMINI_MODEL before LLM_MODEL, for
\* gemini alone; for nvidia the raw name of the provider is compared.
Override(p) ==
  CASE p \in Local -> env.local[p]
    [] p = "gemini" -> Or(env.GEMINI_MODEL, env.LLM_MODEL)
    [] p = "nvidia" -> IF env.provider = p /\ ~env.aliased THEN ModelFor(p) ELSE None

Listed(p) == IF p \in Local THEN discovered[p] ELSE Supported[p]

\* allowed_llms, with the override of the provider asked for.
Allowed(p) == (Listed(p) \cup {Override(p)}) \ {None}

\* What the policy takes for the model that will run.
Effective(p, m) == Or(Or(m, Override(p)), ModelFor(p))

\* The model configured for verification, which the policy checks for a cloud
\* provider; the override is in the list of the provider asked for alone.
VerifierAllowed(p) ==
  LET v == env.verifies
  IN v \in Cloud =>
       VerifierFor(v) \in (IF v = p THEN Allowed(p) ELSE Supported[v]) \cup {env.VERIFICATION_MODEL}

-----------------------------------------------------------------------------
(* A request. *)

Advance(r, step) == request' = [request EXCEPT ![r].step = step]
Drop(r) == request' = [request EXCEPT ![r] = Nobody]

\* A model is held against the list only when the request names it.
AskNamedOnly(r, named, m) ==
  LET p == Or(named, env.provider)
  IN /\ request[r] = Nobody
     /\ m # None => m \in Allowed(p)
     /\ VerifierAllowed(p)
     /\ request' = [request EXCEPT ![r] =
          [step |-> "valid", of |-> p, named |-> m, allowed |-> Allowed(p), model |-> None]]
     /\ UNCHANGED <<env, discovered, stamp, answered, probes>>

\* The body is parsed: the policy holds, or the answer is 422 and nothing else
\* happens.
Ask(r, named, m) ==
  LET p == Or(named, env.provider)
  IN /\ request[r] = Nobody
     /\ Effective(p, m) \in Allowed(p)
     /\ VerifierAllowed(p)
     /\ request' = [request EXCEPT ![r] =
          [step |-> "valid", of |-> p, named |-> m, allowed |-> Allowed(p), model |-> None]]
     /\ UNCHANGED <<env, discovered, stamp, answered, probes>>

Key(r) == <<request[r].of, request[r].model>>
Resolved(r) == Or(request[r].named, ModelFor(request[r].of))

\* create_analysis resolves the model. A local server is asked for its list of
\* models; it answers, or the request ends in 503.
PreflightLocal(r) ==
  /\ request[r].step = "valid" /\ request[r].of \in Local
  /\ \/ request' = [request EXCEPT ![r].step = "running", ![r].model = Resolved(r)]
     \/ Drop(r)
  /\ UNCHANGED <<env, discovered, stamp, answered, probes>>

\* A cloud model that answered within the last Ttl is not asked again.
PreflightReused(r) ==
  /\ request[r].step = "valid" /\ request[r].of \in Cloud
  /\ stamp[<<request[r].of, Resolved(r)>>] < Ttl
  /\ request' = [request EXCEPT ![r].step = "running", ![r].model = Resolved(r)]
  /\ UNCHANGED <<env, discovered, stamp, answered, probes>>

\* Any other is sent one small completion, which is billed. Requests that come
\* before its answer each send their own.
PreflightCloud(r) ==
  /\ request[r].step = "valid" /\ request[r].of \in Cloud
  /\ stamp[<<request[r].of, Resolved(r)>>] = Ttl
  /\ probes < MaxProbes /\ probes' = probes + 1
  /\ request' = [request EXCEPT ![r].step = "probing", ![r].model = Resolved(r)]
  /\ UNCHANGED <<env, discovered, stamp, answered>>

ProbeAnswers(r) ==
  /\ request[r].step = "probing"
  /\ stamp' = [stamp EXCEPT ![Key(r)] = 0]
  /\ answered' = [answered EXCEPT ![Key(r)] = 0]
  /\ Advance(r, "running")
  /\ UNCHANGED <<env, discovered, probes>>

\* The stamp is set whatever the outcome.
ProbeFailsStamped(r) ==
  /\ request[r].step = "probing"
  /\ stamp' = [stamp EXCEPT ![Key(r)] = 0]
  /\ Drop(r)
  /\ UNCHANGED <<env, discovered, answered, probes>>

\* No key, a quota, a server error or sixty seconds of silence: 503.
ProbeFails(r) ==
  /\ request[r].step = "probing"
  /\ Drop(r)
  /\ UNCHANGED <<env, discovered, stamp, answered, probes>>

\* The analysis is over.
Ends(r) ==
  /\ request[r].step = "running"
  /\ Drop(r)
  /\ UNCHANGED <<env, discovered, stamp, answered, probes>>

\* A status check finds other models (ModelDiscovery).
Discover(p, found) ==
  /\ discovered' = [discovered EXCEPT ![p] = found]
  /\ UNCHANGED <<env, request, stamp, answered, probes>>

Older(ages) == [k \in DOMAIN ages |-> IF ages[k] < Ttl THEN ages[k] + 1 ELSE Ttl]

Tick ==
  /\ stamp' = Older(stamp) /\ answered' = Older(answered)
  /\ UNCHANGED <<env, discovered, request, probes>>

-----------------------------------------------------------------------------
Preflight(r) == PreflightLocal(r) \/ PreflightReused(r) \/ PreflightCloud(r)

Next ==
  \/ \E r \in Requests : \E p \in Providers \cup {None}, m \in Maybe : Ask(r, p, m)
  \/ \E r \in Requests : Preflight(r) \/ ProbeAnswers(r) \/ ProbeFails(r) \/ Ends(r)
  \/ \E p \in Local : \E found \in SUBSET Models : Discover(p, found)
  \/ Tick

Spec == Init /\ [][Next]_vars

-----------------------------------------------------------------------------
(* Properties *)

\* Two variables name a gemini model and the caller leaves the choice to the
\* service.
NamedTwice(r) ==
  /\ request[r].of = "gemini" /\ request[r].named = None
  /\ env.GEMINI_MODEL # None /\ env.LLM_MODEL # None /\ env.GEMINI_MODEL # env.LLM_MODEL

\* An analysis runs on a model that its own request was allowed, although the
\* policy and the resolution derive it separately and in different orders, and
\* although the models of the host change in between; the one exception is an
\* environment that names two models for gemini, where the policy checks one
\* and the other runs (schemas/analysis.py:119 "Whatever model will actually be
\* used must be in the allowlist").
RunsWhatWasAllowed ==
  \A r \in Requests :
    request[r].step \in {"probing", "running"} =>
      request[r].model \in request[r].allowed \/ NamedTwice(r)

\* No analysis starts on a cloud model that did not answer within the last Ttl:
\* neither a failed probe nor one of another model counts.
StartsOnALiveModel ==
  \A r \in Requests :
    (request[r].step \in {"valid", "probing"} /\ request'[r].step = "running")
      => \/ request[r].of \in Local
         \/ answered'[<<request'[r].of, request'[r].model>>] < Ttl
LiveModels == [][StartsOnALiveModel]_vars
=============================================================================
