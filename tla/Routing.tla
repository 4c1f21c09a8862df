------------------------------ MODULE Routing ------------------------------
(***************************************************************************)
(* How a chat request finds its provider and calls it: the budget          *)
(* downgrade, resolveModelWithFallback over one circuit per provider, and  *)
(* callProviderResilientWithStats (withRetry around withCircuitBreaker,    *)
(* with a latency and outcome sample at the end).  The scripts of the      *)
(* breaker are those of module CircuitBreaker without their clock: an open *)
(* period may be over, and a key may expire, at any time.  Requests meet   *)
(* only in Redis, so the model follows one request among any number of     *)
(* others, which run the same scripts at any time.                         *)
(***************************************************************************)
EXTENDS Integers, Sequences, FiniteSets, SequencesExt, FiniteSetsExt, Subsequences

CONSTANTS
    Providers,         \* the adapters of buildRegistry
    Rules,             \* [model -> provider]: which rule of the registry matches
    Pricing,           \* PRICING: [model -> [inp, out]], in thousandths of a dollar per million
    Configured,        \* the providers whose API key is in the environment
    Candidates,        \* <<env.DEFAULT_MODEL>> \o env.AUTO_FALLBACK_MODELS
    RawAb,             \* the org's ab_config as stored: <<model, weight>> pairs
    BudgetModel,       \* env.BUDGET_CONSTRAINED_MODEL
    MaxAttempts,       \* env.RETRY_MAX_ATTEMPTS
    FailureThreshold,  \* env.CIRCUIT_FAILURE_THRESHOLD
    Latencies,         \* what a provider call may take, in ms
    MaxSamples         \* bound on the samples of one stats window

Models == DOMAIN Rules

ASSUME RoutingAssumption ==
    /\ Rules \in [Models -> Providers]
    /\ \A m \in DOMAIN Pricing : Pricing[m] \in [inp : Nat, out : Nat]
    /\ Configured \subseteq Providers
    /\ Providers \subseteq {"openai", "anthropic", "gemini", "ollama", "mock"}
    /\ Candidates \in Seq(Models) /\ Candidates # <<>>
    /\ BudgetModel \in Models /\ RawAb \in Seq(Models \X Int)
    /\ "auto" \notin Models
    /\ {MaxAttempts, FailureThreshold, MaxSamples} \subseteq Nat \ {0}
    /\ Latencies \subseteq Nat

VARIABLES
    circuit,    \* the hashes circuit:{provider}
    stats,      \* the sorted sets routing:stats:{provider}, oldest sample first
    req,        \* where the request is
    wasOpen     \* history: the circuits open at some time while it was routed

routingVars == <<circuit, stats, req, wasOpen>>

Idle == [pc |-> "idle", asked |-> "auto", low |-> FALSE, ab |-> "none",
         i |-> 0, avail |-> <<>>, model |-> "none", n |-> 0,
         threw |-> FALSE, answered |-> FALSE, sampled |-> {}, result |-> "none"]

Closed == [state |-> "closed", failures |-> 0, cooled |-> FALSE]

Tripped == [state |-> "open", failures |-> FailureThreshold, cooled |-> FALSE]

RoutingInit ==
    /\ circuit = [p \in Providers |-> Closed]
    /\ stats = [p \in Providers |-> <<>>]
    /\ req = Idle
    /\ wasOpen = {}

Provider == Rules[req.model]

OpenIn(circuits) == {p \in Providers : circuits[p].state = "open"}

WriteCircuit(p, c) == circuit' = [circuit EXCEPT ![p] = c]

\* While the request is routed the history sees every write of a circuit.
Watch == wasOpen' = IF req.pc = "peek" THEN wasOpen \cup OpenIn(circuit') ELSE wasOpen

-----------------------------------------------------------------------------
(* resolveModelWithFallback *)

Least(a, b) == IF a <= b THEN a ELSE b
Greatest(a, b) == IF a >= b THEN a ELSE b

\* AB_CONFIG_MAX_WEIGHT, AB_CONFIG_MAX_VARIANTS
MaxWeight == 1000000
MaxVariants == 10

\* coerceAbConfig: variants with a weight outside the range are dropped, and of
\* the others the first ten are kept.
AbConfig ==
    LET valid == {k \in DOMAIN RawAb : RawAb[k][2] > 0 /\ RawAb[k][2] <= MaxWeight}
        entries == Selected(RawAb, valid)
    IN  SubSeq(entries, 1, Least(MaxVariants, Len(entries)))

AbModels == [k \in DOMAIN AbConfig |-> AbConfig[k][1]]

Weight(m) == LET v == CHOOSE v \in ToSet(AbConfig) : v[1] = m IN v[2]

\* The models that the pass in progress looks at.
Pass == IF req.ab = "trying" THEN AbModels ELSE Candidates

\* Mutant: near the cap every model is swapped, explicit ones too.
EffectiveModelAny(asked, low) == IF low THEN BudgetModel ELSE asked

\* effectiveModelName: near its cap an enforcing org gets the cheap model,
\* but only where it left the choice to the gateway.
EffectiveModel(asked, low) == IF low /\ asked = "auto" THEN BudgetModel ELSE asked

\* The route is decided: the first attempt starts.
RouteTo(rec, m) == [rec EXCEPT !.pc = "attempt", !.n = 1, !.i = 0, !.avail = <<>>, !.model = m]

\* A request arrives.  low: its org enforces its budget and has less than 5%
\* of it left; ab: the org has an ab_config.  An explicit model goes to the
\* provider of its rule, whatever the circuit says.
Begin ==
    /\ req.pc = "idle"
    /\ \E asked \in Models \cup {"auto"}, low \in BOOLEAN :
          LET effective == EffectiveModel(asked, low)
              rec == [Idle EXCEPT !.asked = asked, !.low = low]
          IN  \/ /\ effective # "auto"
                 /\ req' = RouteTo(rec, effective)
                 /\ UNCHANGED wasOpen
              \/ /\ effective = "auto"
                 /\ \E ab \in {"none"} \cup (IF AbConfig = <<>> THEN {} ELSE {"trying"}) :
                       req' = [rec EXCEPT !.pc = "peek", !.i = 1, !.ab = ab]
                 /\ wasOpen' = OpenIn(circuit)
    /\ UNCHANGED <<circuit, stats>>

\* Mutant: only a closed circuit may be routed to.
MayRouteClosed(c) == c.state = "closed"

\* The peek of getCircuitState: the stored state, whether or not the open
\* period is over.
MayRoute(c) == c.state # "open"

\* resolveOpenCandidates, one turn of its loop: one HGET.
Peek ==
    /\ req.pc = "peek" /\ req.i <= Len(Pass)
    /\ LET m == Pass[req.i]
       IN  req' = [req EXCEPT !.i = @ + 1,
                     !.avail = IF MayRoute(circuit[Rules[m]]) THEN Append(@, m) ELSE @]
    /\ UNCHANGED <<circuit, stats, wasOpen>>

\* The sum of the first k weights of the variants s.
Cumulative(s, k) == FoldLeft(LAMBDA sum, m : sum + Weight(m), 0, SubSeq(s, 1, k))

\* The loop of selectAbVariant: the first variant that brings roll to zero or
\* below; roll is real-valued, so it is counted in halves.
PickVariant(s, roll) ==
    LET hits == {k \in DOMAIN s : roll <= 2 * Cumulative(s, k)}
    IN  s[IF hits = {} THEN Len(s) ELSE Min(hits)]

\* selectAbVariant: a weighted choice among the variants that may be routed
\* to, or, when there is none, the ordinary pass over the candidates.
SelectAbVariant ==
    /\ req.pc = "peek" /\ req.ab = "trying" /\ req.i > Len(AbModels)
    /\ UNCHANGED <<circuit, stats, wasOpen>>
    /\ \/ /\ req.avail = <<>>
          /\ req' = [req EXCEPT !.ab = "left", !.i = 1]
       \/ /\ req.avail # <<>>
          /\ \E roll \in 0 .. 2 * Cumulative(req.avail, Len(req.avail)) - 1 :
                req' = RouteTo(req, PickVariant(req.avail, roll))

-----------------------------------------------------------------------------
(* Scoring: numbers are in ten-thousandths, weights in tenths. *)

\* percentile of a window of latencies: the sample at the nearest rank of p percent,
\* the smallest latency that so many of the samples do not exceed.
Percentile(lats, p) ==
    LET rank == (p * Len(lats) + 99) \div 100
        place == Greatest(1, Least(Len(lats), rank))
    IN  IF lats = <<>> THEN 0
        ELSE Min({v \in ToSet(lats) : Cardinality({k \in DOMAIN lats : lats[k] <= v}) >= place})

\* getProviderStats: what scoring uses of a provider's window.
P99(p) == Percentile([k \in DOMAIN stats[p] |-> stats[p][k].lat], 99)

Successes(p) == Cardinality({k \in DOMAIN stats[p] : stats[p][k].ok})

\* getModelPricing: a model that is not listed is free.
ModelPricing(m) == IF m \in DOMAIN Pricing THEN Pricing[m] ELSE [inp |-> 0, out |-> 0]

\* getBlendedCostPer1k, the mean of the two prices, in half millionths of a dollar.
BlendedCostPer1k(m) == ModelPricing(m).inp + ModelPricing(m).out

\* The cost term of the score, 1 / cost with MIN_COST_PER_1K as the least cost; it is
\* kept to hundredths.
InvCost(m) == 100 * (200000000 \div Greatest(2, BlendedCostPer1k(m)))

\* ROUTING_PRESETS
Presets ==
    [cost_optimized    |-> [latency |-> 2, cost |-> 6, reliability |-> 2],
     latency_optimized |-> [latency |-> 6, cost |-> 1, reliability |-> 3],
     balanced          |-> [latency |-> 3, cost |-> 4, reliability |-> 3]]

\* computeRoutingScore, with ASSUMED_P99_MS_WHEN_UNKNOWN, MIN_LATENCY_MS and
\* ASSUMED_SUCCESS_RATE_WHEN_UNKNOWN.
RoutingScore(m, w) ==
    LET p == Rules[m]
        known == stats[p] # <<>>
    IN  (10000 \div (IF known THEN Greatest(1, P99(p)) ELSE 1000)) * w.latency
        + InvCost(m) * w.cost
        + (IF known THEN (10000 * Successes(p)) \div Len(stats[p]) ELSE 9500) * w.reliability

\* scored[0] after the sort, which is stable: of equal scores the earlier
\* candidate comes first.
Best(s, w) ==
    s[CHOOSE k \in DOMAIN s :
        \A j \in DOMAIN s \ {k} :
            RoutingScore(s[k], w) >= RoutingScore(s[j], w) + (IF j < k THEN 1 ELSE 0)]

\* scoreCandidates after its peeks, and what resolveModelWithFallback makes of
\* it: AllProvidersUnavailableError, or the best candidate under the org's
\* preset.  The windows are read one after another; other traffic can bring
\* about every combination of windows, so one step reads them all.  (The last
\* rule of buildRegistry matches every model: no ValidationError.)
SelectScored ==
    /\ req.pc = "peek" /\ req.ab # "trying" /\ req.i > Len(Candidates)
    /\ UNCHANGED <<circuit, stats, wasOpen>>
    /\ \/ /\ req.avail = <<>>
          /\ req' = [req EXCEPT !.pc = "done", !.i = 0, !.result = "all_down"]
       \/ /\ req.avail # <<>>
          /\ \E preset \in DOMAIN Presets :
                req' = RouteTo(req, Best(req.avail, Presets[preset]))

-----------------------------------------------------------------------------
(* callProviderResilientWithStats *)

\* ATTEMPT_SCRIPT lets the call through.  A half-open circuit's probe slot is
\* always taken: the probe that made it half open took it.
Allowed(c) == c.state = "closed" \/ (c.state = "open" /\ c.cooled)

\* The circuits ATTEMPT_SCRIPT may leave: the failure window may be over.
AttemptScript(c) ==
    CASE c.state = "closed" -> {c, Closed}
      [] c.state = "open" /\ c.cooled -> {[c EXCEPT !.state = "half_open", !.cooled = FALSE]}
      [] OTHER -> {c}

\* REPORT_SCRIPT with success = 1.
SuccessScript(c) == IF c.state = "half_open" THEN Closed ELSE c

\* REPORT_SCRIPT with success = 0.
FailureScript(c) ==
    IF c.state = "half_open" \/ c.failures + 1 >= FailureThreshold
    THEN Tripped ELSE [c EXCEPT !.failures = @ + 1]

\* How the route was found does not outlive the first attempt.
ForgetRoute(rec) == [rec EXCEPT !.asked = "auto", !.low = FALSE, !.ab = "none"]

\* An attempt: the provider is called, or CircuitOpenError, which withRetry
\* does not retry, becomes ServiceUnavailableError.
Attempt ==
    /\ req.pc = "attempt"
    /\ \E after \in AttemptScript(circuit[Provider]) : WriteCircuit(Provider, after)
    /\ req' = [ForgetRoute(req) EXCEPT !.pc =
                  IF Allowed(circuit[Provider]) THEN "calling" ELSE "refused"]
    /\ wasOpen' = {}
    /\ UNCHANGED stats

\* Mutant: attempts are not counted.
CatchUncounted(rec) == [rec EXCEPT !.threw = TRUE, !.n = 0, !.pc = "backoff"]

\* The catch of withRetry: a backoff before another attempt, or, after the
\* last, the error goes on.
CatchThrown(rec) ==
    [rec EXCEPT !.threw = TRUE,
                !.pc = IF rec.n >= MaxAttempts THEN "record_failure" ELSE "backoff"]

\* The eval of ATTEMPT_SCRIPT rejects, whether or not the script ran.
AttemptLost ==
    /\ req.pc = "attempt"
    /\ \E after \in AttemptScript(circuit[Provider]) \cup {circuit[Provider]} :
          WriteCircuit(Provider, after)
    /\ req' = CatchThrown(ForgetRoute(req))
    /\ wasOpen' = {}
    /\ UNCHANGED stats

\* What a provider's API may do with a call: a completion, a well-formed body with
\* nothing in it, a body that is no JSON, an error status, or no response.
ApiAnswers == {"completion", "empty", "garbled", "status", "none"}

\* The answers that the adapters' chat() turns into a response; on any other, and
\* without the API key it needs, it throws.
OpenAIChat == IF "openai" \in Configured THEN {"completion"} ELSE {}
AnthropicChat == IF "anthropic" \in Configured THEN {"completion", "empty"} ELSE {}
GeminiChat == IF "gemini" \in Configured THEN {"completion"} ELSE {}
OllamaChat == {"completion"}
MockChat == ApiAnswers

ChatReturns(p) ==
    CASE p = "openai" -> OpenAIChat
      [] p = "anthropic" -> AnthropicChat
      [] p = "gemini" -> GeminiChat
      [] p = "ollama" -> OllamaChat
      [] p = "mock" -> MockChat

\* The adapter returns and the success is reported.
Answered ==
    /\ req.pc = "calling" /\ ChatReturns(Provider) # {}
    /\ WriteCircuit(Provider, SuccessScript(circuit[Provider]))
    /\ req' = [req EXCEPT !.pc = "record_success", !.answered = TRUE]
    /\ UNCHANGED <<stats, wasOpen>>

\* The adapter returns, but the report's reply is lost: the catch that
\* follows takes the call for failed.
AnsweredLost ==
    /\ req.pc = "calling" /\ ChatReturns(Provider) # {}
    /\ \E after \in {circuit[Provider], SuccessScript(circuit[Provider])} :
          WriteCircuit(Provider, after)
    /\ req' = [req EXCEPT !.pc = "catch", !.answered = TRUE]
    /\ UNCHANGED <<stats, wasOpen>>

\* The call failed and the failure is reported, or the report is lost.
CallFails ==
    /\ \/ req.pc = "catch"
       \/ req.pc = "calling" /\ ~(ApiAnswers \subseteq ChatReturns(Provider))
    /\ \E after \in {circuit[Provider], FailureScript(circuit[Provider])} :
          WriteCircuit(Provider, after)
    /\ req' = CatchThrown(req)
    /\ UNCHANGED <<stats, wasOpen>>

\* The sleep of withRetry is over.
Retry ==
    /\ req.pc = "backoff"
    /\ req' = [req EXCEPT !.pc = "attempt", !.n = @ + 1]
    /\ UNCHANGED <<circuit, stats, wasOpen>>

\* recordProviderOutcome: ZADD.  At the bound the oldest sample ages out.
AddSample(p, ok) ==
    \E lat \in Latencies :
        LET window == Append(stats[p], [lat |-> lat, ok |-> ok])
        IN  stats' = [stats EXCEPT ![p] =
                        IF Len(window) > MaxSamples THEN Tail(window) ELSE window]

\* The answer goes to the client after its sample has been recorded; if the
\* recording throws, with or without having run, the catch records a failure.
RecordSuccess ==
    /\ req.pc = "record_success"
    /\ \/ /\ AddSample(Provider, TRUE)
          /\ req' = [req EXCEPT !.pc = "done", !.sampled = {TRUE}, !.result = "ok"]
       \/ /\ AddSample(Provider, TRUE)
          /\ req' = [req EXCEPT !.pc = "record_failure", !.sampled = {TRUE}]
       \/ /\ UNCHANGED stats
          /\ req' = [req EXCEPT !.pc = "record_failure"]
    /\ UNCHANGED <<circuit, wasOpen>>

\* An error other than ServiceUnavailableError is recorded, or the recording is
\* lost; either way the request fails.
RecordFailure ==
    /\ req.pc = "record_failure"
    /\ \/ /\ AddSample(Provider, FALSE)
          /\ req' = [req EXCEPT !.pc = "done", !.sampled = @ \cup {FALSE}, !.result = "error"]
       \/ /\ UNCHANGED stats
          /\ req' = [req EXCEPT !.pc = "done", !.result = "error"]
    /\ UNCHANGED <<circuit, wasOpen>>

\* Mutant: a refusal is recorded as a failure of the provider.
RefuseRecorded ==
    /\ req.pc = "refused"
    /\ AddSample(Provider, FALSE)
    /\ req' = [req EXCEPT !.pc = "done", !.sampled = {FALSE}, !.result = "unavailable"]
    /\ UNCHANGED <<circuit, wasOpen>>

\* ServiceUnavailableError goes to the client without a sample.
Refuse ==
    /\ req.pc = "refused"
    /\ req' = [req EXCEPT !.pc = "done", !.result = "unavailable"]
    /\ UNCHANGED <<circuit, stats, wasOpen>>

\* The answer has been sent, or the gateway died with the request: the next one.
Leave ==
    /\ req.pc # "idle"
    /\ req' = Idle
    /\ wasOpen' = {}
    /\ UNCHANGED <<circuit, stats>>

-----------------------------------------------------------------------------
(* Other requests, and time. *)

\* Another request runs one of the breaker's scripts.
OtherCall(p) ==
    /\ \E after \in AttemptScript(circuit[p])
                    \cup {SuccessScript(circuit[p]), FailureScript(circuit[p])} :
          WriteCircuit(p, after)
    /\ Watch
    /\ UNCHANGED <<stats, req>>

\* Another request records its outcome.
OtherSample(p) ==
    /\ \E ok \in BOOLEAN : AddSample(p, ok)
    /\ UNCHANGED <<circuit, req, wasOpen>>

\* The open period of a circuit is over.
Cool(p) ==
    /\ circuit[p].state = "open" /\ ~circuit[p].cooled
    /\ WriteCircuit(p, [circuit[p] EXCEPT !.cooled = TRUE])
    /\ Watch
    /\ UNCHANGED <<stats, req>>

\* The TTL of a circuit's key runs out.
Expire(p) ==
    /\ circuit[p] # Closed
    /\ WriteCircuit(p, Closed)
    /\ Watch
    /\ UNCHANGED <<stats, req>>

\* A sample leaves the five-minute window.
AgeOut(p) ==
    /\ stats[p] # <<>>
    /\ stats' = [stats EXCEPT ![p] = Tail(@)]
    /\ UNCHANGED <<circuit, req, wasOpen>>

Serve ==
    \/ Peek \/ SelectAbVariant \/ SelectScored
    \/ Attempt \/ AttemptLost \/ Answered \/ AnsweredLost \/ CallFails \/ Retry
    \/ RecordSuccess \/ RecordFailure \/ Refuse

RoutingNext ==
    \/ Begin \/ Serve \/ Leave
    \/ \E p \in Providers : OtherCall(p) \/ OtherSample(p) \/ Cool(p) \/ Expire(p) \/ AgeOut(p)

\* A live gateway runs a request's continuations; a provider call ends because
\* the adapter's fetch answers or fails.
RoutingSpec == RoutingInit /\ [][RoutingNext]_routingVars /\ WF_routingVars(Serve)

-----------------------------------------------------------------------------
(* Properties *)

\* A request goes where it asked to go: an explicit model is never swapped, not
\* even near the budget's cap; an org near its cap gets the cheap model for "auto";
\* a variant of an A/B split is one of the split, and the split is left for the
\* candidates only when each of its variants was open while the request was routed,
\* whatever the circuits did between the peeks.
RoutedAsAsked ==
    req.pc = "attempt" /\ req.n = 1 =>
        CASE req.asked # "auto" -> req.model = req.asked
          [] req.asked = "auto" /\ req.low -> req.model = BudgetModel
          [] req.asked = "auto" /\ ~req.low /\ req.ab = "trying" ->
                 req.model \in ToSet(AbModels)
          [] OTHER -> /\ req.model \in ToSet(Candidates)
                      /\ req.ab = "left" => \A m \in ToSet(AbModels) : Rules[m] \in wasOpen

\* AllProvidersUnavailableError is an outage: every candidate's circuit was open
\* at some time while the request was being routed.  A half-open circuit, or
\* one that never opened, is no reason for it.
UnavailableMeansOutage ==
    req.result = "all_down" => \A m \in ToSet(Candidates) : Rules[m] \in wasOpen

\* The samples that steer routing are honest across retries, lost replies and
\* failed recordings: a success sample comes from a provider that answered, a
\* failure sample from a request in which something was thrown (never from one
\* that the breaker only refused), and an answer that was served has a success
\* sample and no other.
SamplesHonest ==
    /\ TRUE \in req.sampled => req.answered
    /\ FALSE \in req.sampled => req.threw \/ req.answered
    /\ req.result = "ok" => req.sampled = {TRUE}

\* Every request ends, after at most MaxAttempts attempts, whatever the circuits
\* do between its attempts.
RoutingEnds == req.pc # "idle" ~> req.pc \in {"idle", "done"}
=============================================================================
