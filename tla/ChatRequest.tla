---------------------------- MODULE ChatRequest -----------------------------
(***************************************************************************)
(* POST /v1/chat for one organization and one prompt: idempotent replay,   *)
(* the budget check under the distributed billing lock, the semantic       *)
(* cache, the provider call (possibly coalesced by RequestDedup), the      *)
(* usage record with its outbox event, and the stored idempotent result.   *)
(* Every await of the handler that touches shared state is a step.         *)
(*                                                                         *)
(* A slot is one of the requests the organization can have outstanding at  *)
(* a time; it serves one request after another.  A provider response is    *)
(* its id, the request_id of its usage record, and costs one budget unit.  *)
(***************************************************************************)
EXTENDS Integers, FiniteSets

CONSTANTS
    Slots,          \* concurrently outstanding requests
    Budget,         \* monthly budget, in responses
    LowBudget,      \* remaining units under which a warning is published
    LockRetries,    \* BILLING_LOCK_RETRIES
    FlagSets,       \* the feature flags the organization may have
    KeyInput,       \* whether requests may have the Idempotency-Key
    StreamInput,    \* whether requests may ask for a stream
    MaxResponses    \* bound on the provider responses of a behaviour

Flags == [billing: BOOLEAN, cache: BOOLEAN, dedup: BOOLEAN]

ASSUME ChatAssumption ==
    /\ IsFiniteSet(Slots)
    /\ Budget \in Nat \ {0} /\ LowBudget \in Nat
    /\ LockRetries \in Nat /\ MaxResponses \in Nat
    /\ FlagSets \subseteq Flags /\ KeyInput \subseteq BOOLEAN /\ StreamInput \subseteq BOOLEAN

VARIABLES
    flags,          \* the organization's feature flags
    lock,           \* billing:lock:{org}:{period}: the holder's slot, or {}
    pc, tries,      \* where the slot's request is; its failed lock attempts
    keyed, stream,  \* the request has the Idempotency-Key; asks for a stream
    low,            \* the budget check found less than LowBudget left
    resp,           \* the response the request holds, 0 if none yet
    responses,      \* number of responses the provider has produced
    idem,           \* idempotency:{org}:{key}: the stored response, 0 if none
    cache,          \* the newest semantic_cache row of the prompt, 0 if none
    shared,         \* the result a dedup leader left for followers, 0 if none
    usage,          \* request_id's of the usage_records rows
    recorded,       \* number of usage.recorded events in the outbox, per id
    alerts,         \* other event types written to the outbox
    served,         \* history: responses a client has got in full, with 200
    unended         \* history: those sent as a stream whose handler has not ended well

lockVars == <<lock, tries, low>>
billVars == <<usage, recorded>>
storeVars == <<idem, cache, shared>>
reqVars == <<keyed, stream>>
histVars == <<served, unended>>

vars == <<flags, pc, resp, responses, alerts, histVars, lockVars, billVars, storeVars, reqVars>>

Ids == 1..MaxResponses

Init ==
    /\ flags \in FlagSets
    /\ lock = {}
    /\ pc = [s \in Slots |-> "idle"]
    /\ tries = [s \in Slots |-> 0] /\ low = [s \in Slots |-> FALSE]
    /\ keyed = [s \in Slots |-> FALSE] /\ stream = [s \in Slots |-> FALSE]
    /\ resp = [s \in Slots |-> 0]
    /\ responses = 0
    /\ idem = 0 /\ cache = 0 /\ shared = 0
    /\ usage = {} /\ recorded = [i \in Ids |-> 0]
    /\ alerts = {}
    /\ served = {} /\ unended = {}

Goto(s, label) == pc' = [pc EXCEPT ![s] = label]

\* The request is over; nothing of it is left in the process.
End(s) ==
    /\ Goto(s, "idle")
    /\ resp' = [resp EXCEPT ![s] = 0]
    /\ tries' = [tries EXCEPT ![s] = 0] /\ low' = [low EXCEPT ![s] = FALSE]
    /\ keyed' = [keyed EXCEPT ![s] = FALSE] /\ stream' = [stream EXCEPT ![s] = FALSE]

\* The request goes on without having ended.
GoOn(s, label) == Goto(s, label) /\ UNCHANGED reqVars

-----------------------------------------------------------------------------
(* Arrival, replay and the budget gate *)

Arrive(s) ==
    /\ pc[s] = "idle"
    /\ Goto(s, "arrived")
    /\ \E k \in KeyInput : keyed' = [keyed EXCEPT ![s] = k]
    /\ \E b \in StreamInput : stream' = [stream EXCEPT ![s] = b]
    /\ UNCHANGED <<flags, lockVars, resp, responses, storeVars, billVars, alerts, histVars>>

\* getIdempotentReplay: the stored result of the request's key, 0 for none.
GetIdempotentReplay(s) == IF keyed[s] THEN idem ELSE 0

\* A stored result is the answer.
Replay(s) ==
    /\ pc[s] = "arrived"
    /\ GetIdempotentReplay(s) # 0
    /\ served' = served \cup {GetIdempotentReplay(s)}
    /\ End(s)
    /\ UNCHANGED <<flags, lock, responses, storeVars, billVars, alerts, unended>>

\* There is none; the feature flags are read.
Proceed(s) ==
    /\ pc[s] = "arrived"
    /\ GetIdempotentReplay(s) = 0
    /\ GoOn(s, IF flags.billing THEN "locking" ELSE "routing")
    /\ UNCHANGED <<flags, lockVars, resp, responses, storeVars, billVars, alerts, histVars>>

\* withDistributedLock: SET key token PX ttl NX succeeds, and the retries end.
Acquire(s) ==
    /\ pc[s] = "locking"
    /\ lock = {}
    /\ lock' = {s}
    /\ tries' = [tries EXCEPT ![s] = 0]
    /\ GoOn(s, "checking")
    /\ UNCHANGED <<flags, low, resp, responses, storeVars, billVars, alerts, histVars>>

\* Mutant: the retries of a contended lock are not counted.
ContendForever(s) ==
    /\ pc[s] = "locking" /\ lock # {}
    /\ UNCHANGED vars

\* The lock is taken: sleep and try again, or throw LockAcquisitionError,
\* which is no AppError and becomes a 500.
Contend(s) ==
    /\ pc[s] = "locking"
    /\ lock # {}
    /\ \/ /\ tries[s] < LockRetries
          /\ tries' = [tries EXCEPT ![s] = @ + 1]
          /\ UNCHANGED <<pc, low, resp, reqVars>>
       \/ /\ tries[s] >= LockRetries
          /\ End(s)
    /\ UNCHANGED <<flags, lock, responses, storeVars, billVars, alerts, histVars>>

\* getBudgetStatus: the month's spend is summed from the usage records, whatever
\* the requests that are still running will add to it.
Remaining == Budget - Cardinality(usage)

\* Mutant: remainingUsd < 0 instead of <= 0.
CheckBudgetStrict(s) ==
    /\ pc[s] = "checking"
    /\ \/ Remaining >= 0 /\ GoOn(s, "passed") /\ UNCHANGED alerts
       \/ /\ Remaining < 0 /\ GoOn(s, "rejected")
          /\ alerts' = alerts \cup {"budget.exceeded"}
    /\ UNCHANGED <<flags, lockVars, resp, responses, storeVars, billVars, histVars>>

\* getBudgetStatus under the lock; without budget left the budget.exceeded
\* event is written before BudgetExceededError is thrown.
CheckBudget(s) ==
    /\ pc[s] = "checking"
    /\ \/ /\ Remaining > 0
          /\ GoOn(s, "passed")
          /\ low' = [low EXCEPT ![s] = Remaining < LowBudget]
          /\ UNCHANGED alerts
       \/ /\ Remaining <= 0
          /\ GoOn(s, "rejected")
          /\ alerts' = alerts \cup {"budget.exceeded"}
          /\ UNCHANGED low
    /\ UNCHANGED <<flags, lock, tries, resp, responses, storeVars, billVars, histVars>>

\* Mutant: a plain DEL.
ReleaseScriptBlind(s) == {}

\* RELEASE_SCRIPT: delete the lock if it still holds our token.
ReleaseScript(s) == IF lock = {s} THEN {} ELSE lock

\* The finally of withDistributedLock.
Release(s) ==
    /\ lock' = ReleaseScript(s)
    /\ \/ pc[s] = "passed" /\ GoOn(s, "routing") /\ UNCHANGED <<tries, low, resp>>
       \/ pc[s] = "rejected" /\ End(s)
    /\ UNCHANGED <<flags, responses, storeVars, billVars, alerts, histVars>>

\* Postgres fails during the check, or Redis at the release: the lock stays
\* until its TTL, and the request fails.
GateError(s) ==
    /\ \/ pc[s] = "checking" /\ lock' = ReleaseScript(s)
       \/ pc[s] \in {"passed", "rejected"} /\ UNCHANGED lock
    /\ End(s)
    /\ UNCHANGED <<flags, responses, storeVars, billVars, alerts, histVars>>

-----------------------------------------------------------------------------
(* Routing, cache and provider *)

\* maybePublishBudgetWarning: an event when the check found little left.
MaybePublishBudgetWarning(s) ==
    alerts' = IF low[s] THEN alerts \cup {"budget.warning"} ELSE alerts

\* resolveModelWithFallback finds a model; what the budget check found has no use
\* after this.
Route(s) ==
    /\ pc[s] = "routing"
    /\ GoOn(s, IF flags.cache /\ ~stream[s] THEN "lookup" ELSE "calling")
    /\ MaybePublishBudgetWarning(s) /\ low' = [low EXCEPT ![s] = FALSE]
    /\ UNCHANGED <<flags, lock, tries, resp, responses, storeVars, billVars, histVars>>

\* A request ends before the provider is asked: the body is invalid, Redis or
\* Postgres fails, the model is unknown, or no provider has a closed circuit.
EarlyError(s) ==
    /\ pc[s] \in {"arrived", "locking", "routing"}
    /\ End(s)
    /\ UNCHANGED <<flags, lock, responses, storeVars, billVars, alerts, histVars>>

\* lookupCache: a hit is answered without a provider call and not billed.
Lookup(s) ==
    /\ pc[s] = "lookup"
    /\ \/ /\ cache # 0
          /\ resp' = [resp EXCEPT ![s] = cache]
          /\ GoOn(s, "saving")
       \/ /\ cache = 0
          /\ UNCHANGED resp
          /\ GoOn(s, "calling")
    /\ UNCHANGED <<flags, lockVars, responses, storeVars, billVars, alerts, histVars>>

AfterCall(s) ==
    IF stream[s] THEN "streaming" ELSE IF flags.cache THEN "caching" ELSE "recording"

\* The provider answers (for a stream: its first chunk arrives).
ProviderOk(s) ==
    /\ pc[s] = "calling"
    /\ responses < MaxResponses
    /\ responses' = responses + 1
    /\ resp' = [resp EXCEPT ![s] = responses + 1]
    /\ shared' = IF flags.dedup /\ ~stream[s] THEN responses + 1 ELSE shared
    /\ GoOn(s, AfterCall(s))
    /\ UNCHANGED <<flags, lockVars, idem, cache, billVars, alerts, histVars>>

\* withRequestDedup returns the result of another request's call.
Coalesce(s) ==
    /\ pc[s] = "calling"
    /\ flags.dedup /\ ~stream[s] /\ shared # 0
    /\ resp' = [resp EXCEPT ![s] = shared]
    /\ GoOn(s, AfterCall(s))
    /\ UNCHANGED <<flags, lockVars, responses, storeVars, billVars, alerts, histVars>>

\* Every retry failed, the circuit is open, or the embedding call failed.
ProviderFail(s) ==
    /\ pc[s] \in {"lookup", "calling"}
    /\ End(s)
    /\ UNCHANGED <<flags, lock, responses, storeVars, billVars, alerts, histVars>>

\* The stream is written to the client to its last chunk, under a 200; it is
\* recorded after that.
StreamDone(s) ==
    /\ pc[s] = "streaming"
    /\ GoOn(s, "recording")
    /\ served' = served \cup {resp[s]} /\ unended' = unended \cup {resp[s]}
    /\ UNCHANGED <<flags, lockVars, resp, responses, storeVars, billVars, alerts>>

\* The provider breaks off: the client gets an error event, nothing is billed
\* or stored.
StreamFail(s) ==
    /\ pc[s] = "streaming"
    /\ End(s)
    /\ UNCHANGED <<flags, lock, responses, storeVars, billVars, alerts, histVars>>

\* The newest row after storeCache: an INSERT that does not look for the rows that
\* are there, or an error.
Stored(s) == {resp[s], cache}

\* storeCache, awaited; its errors are swallowed.
StoreCache(s) ==
    /\ pc[s] = "caching"
    /\ cache' \in Stored(s)
    /\ GoOn(s, "recording")
    /\ UNCHANGED <<flags, lockVars, resp, responses, idem, shared, billVars, alerts, histVars>>

-----------------------------------------------------------------------------
(* Billing and the answer *)

\* recordUsageAndOutbox: row and event in one transaction, both only for a
\* request_id that has no row yet.
Record(s) ==
    /\ pc[s] = "recording"
    /\ usage' = usage \cup {resp[s]}
    /\ recorded' = IF resp[s] \in usage THEN recorded
                   ELSE [recorded EXCEPT ![resp[s]] = @ + 1]
    /\ GoOn(s, "saving")
    /\ UNCHANGED <<flags, lockVars, resp, responses, storeVars, alerts, histVars>>

\* Where an error after the provider's answer leaves the request: a plain one
\* becomes a 500; a stream is hijacked, so nobody ends its connection.
Throw(s) ==
    \/ ~stream[s] /\ End(s)
    \/ stream[s] /\ GoOn(s, "hung") /\ UNCHANGED <<tries, low, resp>>

\* Mutant: the failure is counted and swallowed.
RecordFailSwallowed(s) ==
    /\ pc[s] = "recording"
    /\ GoOn(s, "saving")
    /\ UNCHANGED <<flags, lockVars, resp, responses, storeVars, billVars, alerts, histVars>>

\* The transaction fails (recordUsageOrCountFailure rethrows).
RecordFail(s) ==
    /\ pc[s] = "recording"
    /\ Throw(s)
    /\ UNCHANGED <<flags, lock, responses, storeVars, billVars, alerts, histVars>>

\* storeIdempotentResult, if there is a key: SET without NX, the last one stays.
StoreIdempotentResult(s) == idem' = IF keyed[s] THEN resp[s] ELSE idem

\* The result is stored; the plain answer is sent, or the stream's reply ended.
Save(s) ==
    /\ pc[s] = "saving"
    /\ StoreIdempotentResult(s)
    /\ served' = served \cup {resp[s]} /\ unended' = unended \ {resp[s]}
    /\ End(s)
    /\ UNCHANGED <<flags, lock, responses, cache, shared, billVars, alerts>>

\* Redis fails to store the result, of a response already billed.
SaveFail(s) ==
    /\ pc[s] = "saving" /\ keyed[s]
    /\ Throw(s)
    /\ UNCHANGED <<flags, lock, responses, storeVars, billVars, alerts, histVars>>

-----------------------------------------------------------------------------
(* Crashes, expiries and the flush route *)

\* The process dies, or the client of a hung stream gives up.
Crash(s) ==
    /\ pc[s] # "idle"
    /\ End(s)
    /\ UNCHANGED <<flags, lock, responses, storeVars, billVars, alerts, histVars>>

\* BILLING_LOCK_TTL_MS is over, whether or not the holder is done.
LockExpire ==
    /\ lock # {}
    /\ lock' = {}
    /\ UNCHANGED <<flags, pc, resp, responses, alerts, tries, low, billVars, histVars,
                   storeVars, reqVars>>

\* The dedup or idempotency key expires, or the cache row does or is flushed.
Forget ==
    /\ \/ shared # 0 /\ shared' = 0 /\ UNCHANGED <<idem, cache>>
       \/ idem # 0 /\ idem' = 0 /\ UNCHANGED <<shared, cache>>
       \/ cache # 0 /\ cache' = 0 /\ UNCHANGED <<idem, shared>>
    /\ UNCHANGED <<flags, pc, resp, responses, alerts, lockVars, billVars, histVars,
                   reqVars>>

\* The handler goes on; the provider answers or fails.
Handle(s) ==
    \/ Replay(s) \/ Proceed(s) \/ Acquire(s) \/ Contend(s) \/ CheckBudget(s) \/ Release(s)
    \/ Route(s) \/ Lookup(s) \/ ProviderOk(s) \/ Coalesce(s) \/ ProviderFail(s)
    \/ StreamDone(s) \/ StreamFail(s) \/ StoreCache(s) \/ Record(s) \/ Save(s)

\* Redis or Postgres fails, or the process dies.
Fault(s) ==
    \/ GateError(s) \/ EarlyError(s) \/ RecordFail(s) \/ SaveFail(s) \/ Crash(s)

Next ==
    \/ \E s \in Slots : Arrive(s) \/ Handle(s) \/ Fault(s)
    \/ LockExpire
    \/ Forget

Spec == Init /\ [][Next]_vars

\* A handler that has begun is run to its end.
FairSpec == Spec /\ \A s \in Slots : WF_vars(Handle(s))

-----------------------------------------------------------------------------
(* Properties *)

\* "The overage is bounded (at most as many in-flight concurrent requests as an
\* org can have outstanding at once, not unbounded)" (billing.ts): spend exceeds
\* the budget by less than the number of slots, although the lock does not
\* cover the call and the write, expires, and is lost in crashes.
OverageBounded ==
    flags.billing => Cardinality(usage) < Budget + Cardinality(Slots)

\* A holder whose TTL ran out does not release the lock of another: only the
\* holder's own handler, its crash or the TTL may free it.
ReleaseOnlyOwn ==
    [][\A s, t \in Slots :
          lock = {t} /\ s # t /\ pc[s] \in {"passed", "rejected", "checking"} /\ pc'[s] # pc[s]
             => lock' = lock]_vars

\* Without the semantic cache, a response a client has got with 200 is billed,
\* as a plain answer, as a replay of its key, through dedup or as a stream whose
\* handler ended well; and a usage record has one usage.recorded event, however
\* many requests share its response and record it at the same time.  The exception
\* is a stream sent in full whose record then fails, or whose handler dies before
\* it: it stays unbilled, although routes.ts:213 calls that "a real revenue gap".
ServedIsBilled ==
    /\ ~flags.cache => served \ unended \subseteq usage
    /\ \A i \in Ids : recorded[i] = IF i \in usage THEN 1 ELSE 0

\* Every request ends, although the lock's holder may die with it.
RequestEnds == \A s \in Slots : pc[s] # "idle" ~> pc[s] \in {"idle", "hung"}
=============================================================================
