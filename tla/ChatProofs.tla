----------------------------- MODULE ChatProofs -----------------------------
(***************************************************************************)
(* A chat request, and how it finds its provider.                          *)
(*                                                                         *)
(* ChatRequest: the overage of the budget is bounded, what is served       *)
(* without the cache and ends well is billed, once, and the lock is        *)
(* released by its holder only, for any slots, budget, retries, flags and  *)
(* number of responses.  The budget's part counts the admitted requests,   *)
(* each of which may still add a usage record: the check admits one only   *)
(* while the budget is not used up, and there are never more of them than  *)
(* slots.                                                                  *)
(*                                                                         *)
(* Routing: requests go where they ask to go, an outage is one, and the    *)
(* samples are honest, for any providers, models, candidates, split and    *)
(* windows.  The argument follows the loop of resolveOpenCandidates: what  *)
(* it has looked at may be routed to or was open since.                    *)
(***************************************************************************)
EXTENDS ChatRequest, Routing, WellFoundedInduction, FiniteSetTheorems, TLAPS

\* Past the budget check and not yet recorded ...
AdmittedLabels ==
    {"passed", "routing", "lookup", "calling", "streaming", "caching", "recording"}

\* ... and with a response in hand.
HoldingLabels == {"streaming", "caching", "recording", "saving"}

Labels ==
    AdmittedLabels \cup HoldingLabels
    \cup {"idle", "arrived", "locking", "checking", "rejected", "hung"}

Response == Ids \cup {0}

Typed ==
    /\ flags \in Flags
    /\ pc \in [Slots -> Labels] /\ resp \in [Slots -> Response]
    /\ responses \in 0..MaxResponses
    /\ idem \in Response /\ cache \in Response /\ shared \in Response
    /\ usage \subseteq Ids /\ recorded \in [Ids -> Nat]

\* A request that is to be cached, recorded or answered has a response.
HoldingInv == \A s \in Slots : pc[s] \in HoldingLabels => resp[s] \in Ids

\* Without the semantic cache, what can be answered is billed: the response of a
\* request that is past its usage record, and the stored idempotent result.
BilledInv ==
    ~flags.cache =>
        /\ cache = 0 /\ served \ unended \subseteq usage /\ idem \in usage \cup {0}
        /\ \A s \in Slots :
              pc[s] # "caching" /\ (pc[s] = "saving" => resp[s] \in usage)

\* One event for each usage record.
EventInv == \A i \in Ids : recorded[i] = IF i \in usage THEN 1 ELSE 0

Admitted == {s \in Slots : pc[s] \in AdmittedLabels}

\* What is spent and what the admitted requests may still spend.
SpendInv ==
    flags.billing => Cardinality(usage) + Cardinality(Admitted) < Budget + Cardinality(Slots)

ChatInv == Typed /\ HoldingInv /\ BilledInv /\ EventInv /\ SpendInv

\* The step of a slot that goes to label l with response x, and bills nothing.
SlotStep(s, l, x) ==
    /\ pc' = [pc EXCEPT ![s] = l] /\ resp' = [resp EXCEPT ![s] = x]
    /\ UNCHANGED <<flags, usage, recorded>>
    /\ responses' \in 0..MaxResponses
    /\ idem' \in Response /\ cache' \in Response /\ shared' \in Response
    /\ l \in HoldingLabels => x \in Ids
    /\ ~flags.cache =>
          /\ cache' = 0 /\ served' \ unended' \subseteq usage /\ idem' \in usage \cup {0}
          /\ l # "caching" /\ (l = "saving" => x \in usage)
    /\ flags.billing /\ l \in AdmittedLabels
          => pc[s] \in AdmittedLabels \/ Cardinality(usage) < Budget

-----------------------------------------------------------------------------

USE DEF lockVars, billVars, storeVars, reqVars, histVars, Goto, GoOn

\* The sets that are counted are finite.
LEMMA CountsFinite ==
    ASSUME Typed
    PROVE  /\ IsFiniteSet(usage) /\ Cardinality(usage) \in Nat
           /\ IsFiniteSet(Admitted) /\ Cardinality(Admitted) \in Nat
           /\ Cardinality(Slots) \in Nat
           /\ Cardinality(Admitted) <= Cardinality(Slots)
<1>1. IsFiniteSet(Ids)
  BY ChatAssumption, FS_Interval DEF ChatAssumption, Ids
<1>2. IsFiniteSet(usage)
  BY <1>1, FS_Subset DEF Typed
<1>3. IsFiniteSet(Slots) /\ Admitted \subseteq Slots
  BY ChatAssumption DEF ChatAssumption, Admitted
<1>4. IsFiniteSet(Admitted) /\ Cardinality(Admitted) <= Cardinality(Slots)
  BY <1>3, FS_Subset
<1> QED
  BY <1>2, <1>3, <1>4, FS_CardinalityType

\* Nothing is spent at the start.
LEMMA ChatStart == Init => ChatInv
<1> SUFFICES ASSUME Init PROVE ChatInv
  OBVIOUS
<1>1. Typed
  <2>1. flags \in Flags
    BY ChatAssumption DEF ChatAssumption, Init
  <2> QED
    BY <2>1, ChatAssumption DEF ChatAssumption, Init, Typed, Labels, Response
<1>2. HoldingInv /\ BilledInv /\ EventInv
  BY DEF Init, HoldingInv, HoldingLabels, BilledInv, EventInv
<1>3. SpendInv
  <2>1. usage = {} /\ Admitted = {}
    BY DEF Init, Admitted, AdmittedLabels
  <2>2. Cardinality(usage) = 0 /\ Cardinality(Admitted) = 0
    BY <2>1, FS_EmptySet
  <2> QED
    BY <1>1, <2>2, CountsFinite, ChatAssumption DEF ChatAssumption, SpendInv
<1> QED
  BY <1>1, <1>2, <1>3 DEF ChatInv

\* A slot's step that bills nothing keeps the invariant: it admits nobody, or one
\* of at most as many as there are slots while budget is left.
LEMMA SlotStepKeeps ==
    ASSUME ChatInv, NEW s \in Slots, NEW l \in Labels, NEW x \in Response, SlotStep(s, l, x)
    PROVE  ChatInv'
<1>1. Typed'
  BY DEF ChatInv, Typed, SlotStep
<1>2. HoldingInv'
  BY DEF ChatInv, Typed, HoldingInv, SlotStep
<1>3. BilledInv'
  BY DEF ChatInv, Typed, BilledInv, SlotStep
<1>4. EventInv'
  BY DEF ChatInv, EventInv, SlotStep
<1>5. /\ Cardinality(usage) \in Nat /\ Cardinality(Slots) \in Nat /\ Budget \in Nat
      /\ IsFiniteSet(Admitted) /\ Cardinality(Admitted) \in Nat
  BY CountsFinite, ChatAssumption DEF ChatAssumption, ChatInv
<1>6. Cardinality(Admitted') \in Nat /\ Cardinality(Admitted') <= Cardinality(Slots)
  <2>1. IsFiniteSet(Slots) /\ Admitted' \subseteq Slots
    BY ChatAssumption DEF ChatAssumption, Admitted
  <2> QED
    BY <2>1, FS_Subset, FS_CardinalityType
<1>7. ASSUME flags.billing
      PROVE  Cardinality(usage) + Cardinality(Admitted') < Budget + Cardinality(Slots)
  <2>1. CASE l \in AdmittedLabels /\ pc[s] \notin AdmittedLabels
    <3>1. Cardinality(usage) < Budget
      BY <1>7, <2>1 DEF SlotStep
    <3> QED
      BY <1>5, <1>6, <3>1
  <2>2. CASE l \notin AdmittedLabels \/ pc[s] \in AdmittedLabels
    <3>1. Admitted' \subseteq Admitted
      BY <2>2 DEF ChatInv, Typed, SlotStep, Admitted
    <3>2. Cardinality(Admitted') <= Cardinality(Admitted)
      BY <1>5, <3>1, FS_Subset
    <3>3. Cardinality(usage) + Cardinality(Admitted) < Budget + Cardinality(Slots)
      BY <1>7 DEF ChatInv, SpendInv
    <3> QED
      BY <1>5, <1>6, <3>2, <3>3
  <2> QED
    BY <2>1, <2>2
<1>8. SpendInv'
  BY <1>7 DEF SpendInv, SlotStep
<1> QED
  BY <1>1, <1>2, <1>3, <1>4, <1>8 DEF ChatInv

\* The end of a request, whatever ends it.
LEMMA EndKeeps ==
    ASSUME ChatInv, NEW s \in Slots, End(s),
           UNCHANGED <<flags, responses, storeVars, billVars, histVars>>
    PROVE  ChatInv'
<1>1. SlotStep(s, "idle", 0)
  BY DEF ChatInv, Typed, BilledInv, End, SlotStep, HoldingLabels, AdmittedLabels
<1> QED
  BY <1>1, SlotStepKeeps DEF Labels, Response

\* A step that changes nothing but where the slot is.
LEMMA MoveKeeps ==
    ASSUME ChatInv, NEW s \in Slots, NEW l \in Labels, Goto(s, l),
           UNCHANGED <<flags, resp, responses, storeVars, billVars, histVars>>,
           l \notin {"caching", "saving"},
           l \in HoldingLabels => pc[s] \in HoldingLabels,
           flags.billing /\ l \in AdmittedLabels
              => pc[s] \in AdmittedLabels \/ Cardinality(usage) < Budget
    PROVE  ChatInv'
<1>1. resp[s] \in Response /\ resp' = [resp EXCEPT ![s] = resp[s]]
  BY DEF ChatInv, Typed
<1>2. SlotStep(s, l, resp[s])
  BY <1>1 DEF ChatInv, Typed, HoldingInv, BilledInv, SlotStep
<1> QED
  BY <1>1, <1>2, SlotStepKeeps

-----------------------------------------------------------------------------

\* Arrival, replay and the lock: nobody is admitted, and what is replayed is billed.
LEMMA ArrivalKeeps ==
    ASSUME ChatInv, NEW s \in Slots, Arrive(s) \/ Replay(s) \/ Proceed(s) \/ Acquire(s) \/ Contend(s)
    PROVE  ChatInv'
<1>1. CASE Arrive(s)
  <2>1. Goto(s, "arrived")
    BY <1>1 DEF Arrive
  <2> QED
    BY <1>1, <2>1, MoveKeeps DEF Arrive, Labels, HoldingLabels, AdmittedLabels
<1>2. CASE Replay(s)
  <2>1. SlotStep(s, "idle", 0)
    BY <1>2 DEF Replay, GetIdempotentReplay, End, ChatInv, Typed, BilledInv, SlotStep,
       HoldingLabels, AdmittedLabels
  <2> QED
    BY <2>1, SlotStepKeeps DEF Labels, Response
<1>3. CASE Proceed(s)
  <2>1. CASE flags.billing
    <3>1. Goto(s, "locking")
      BY <1>3, <2>1 DEF Proceed
    <3> QED
      BY <1>3, <3>1, MoveKeeps DEF Proceed, Labels, HoldingLabels, AdmittedLabels
  <2>2. CASE ~flags.billing
    <3>1. Goto(s, "routing")
      BY <1>3, <2>2 DEF Proceed
    <3>2. flags.billing /\ "routing" \in AdmittedLabels
             => pc[s] \in AdmittedLabels \/ Cardinality(usage) < Budget
      BY <2>2, Zenon
    <3>3. UNCHANGED <<flags, resp, responses, storeVars, billVars, histVars>>
      BY <1>3 DEF Proceed
    <3>4. "routing" \in Labels /\ "routing" \notin HoldingLabels
      BY DEF Labels, HoldingLabels, AdmittedLabels
    <3> QED
      BY <3>1, <3>2, <3>3, <3>4, MoveKeeps
  <2> QED
    BY <2>1, <2>2
<1>4. CASE Acquire(s)
  <2>1. Goto(s, "checking")
    BY <1>4 DEF Acquire
  <2> QED
    BY <1>4, <2>1, MoveKeeps DEF Acquire, Labels, HoldingLabels, AdmittedLabels
<1>5. CASE Contend(s)
  <2>1. CASE End(s)
    BY <1>5, <2>1, EndKeeps DEF Contend
  <2>2. CASE UNCHANGED <<pc, resp>>
    <3>1. pc[s] = "locking" /\ Goto(s, "locking")
      BY <1>5, <2>2 DEF Contend, ChatInv, Typed
    <3> QED
      BY <1>5, <2>2, <3>1, MoveKeeps DEF Contend, Labels, HoldingLabels, AdmittedLabels
  <2> QED
    BY <1>5, <2>1, <2>2 DEF Contend
<1> QED
  BY <1>1, <1>2, <1>3, <1>4, <1>5

\* The gate: a request is admitted only while budget is left.
LEMMA GateKeeps ==
    ASSUME ChatInv, NEW s \in Slots, CheckBudget(s) \/ Release(s)
    PROVE  ChatInv'
<1>1. CASE CheckBudget(s)
  <2>1. CASE Remaining > 0 /\ Goto(s, "passed")
    <3>1. Cardinality(usage) < Budget
      BY <2>1, CountsFinite, ChatAssumption DEF ChatAssumption, Remaining, ChatInv
    <3> QED
      BY <1>1, <2>1, <3>1, MoveKeeps DEF CheckBudget, Labels, AdmittedLabels, HoldingLabels
  <2>2. CASE Goto(s, "rejected")
    BY <1>1, <2>2, MoveKeeps DEF CheckBudget, Labels, AdmittedLabels, HoldingLabels
  <2> QED
    BY <1>1, <2>1, <2>2 DEF CheckBudget
<1>2. CASE Release(s)
  <2>1. CASE End(s)
    BY <1>2, <2>1, EndKeeps DEF Release
  <2>2. CASE pc[s] = "passed" /\ Goto(s, "routing") /\ UNCHANGED resp
    BY <1>2, <2>2, MoveKeeps DEF Release, Labels, AdmittedLabels, HoldingLabels
  <2> QED
    BY <1>2, <2>1, <2>2 DEF Release
<1> QED
  BY <1>1, <1>2

\* Routing and the cache lookup: an admitted request stays admitted.
LEMMA LookupKeeps == ASSUME ChatInv, NEW s \in Slots, Route(s) \/ Lookup(s) PROVE ChatInv'
<1>1. CASE Route(s)
  <2>1. PICK l \in {"lookup", "calling"} : Goto(s, l)
    BY <1>1 DEF Route
  <2> QED
    BY <1>1, <2>1, MoveKeeps DEF Route, Labels, AdmittedLabels, HoldingLabels
<1>2. CASE Lookup(s)
  <2>1. CASE cache # 0 /\ resp' = [resp EXCEPT ![s] = cache] /\ Goto(s, "saving")
    <3>1. flags.cache /\ cache \in Ids
      BY <2>1 DEF ChatInv, Typed, BilledInv, Response
    <3>2. SlotStep(s, "saving", cache)
      BY <1>2, <2>1, <3>1 DEF Lookup, ChatInv, Typed, SlotStep, AdmittedLabels
    <3> QED
      BY <3>1, <3>2, SlotStepKeeps DEF Labels, HoldingLabels, Response
  <2>2. CASE UNCHANGED resp /\ Goto(s, "calling")
    BY <1>2, <2>2, MoveKeeps DEF Lookup, Labels, AdmittedLabels, HoldingLabels
  <2> QED
    BY <1>2, <2>1, <2>2 DEF Lookup
<1> QED
  BY <1>1, <1>2

\* The response, of the provider or of another request, is still to be recorded.
LEMMA CallKeeps ==
    ASSUME ChatInv, NEW s \in Slots, ProviderOk(s) \/ Coalesce(s)
    PROVE  ChatInv'
<1>1. /\ AfterCall(s) \in {"streaming", "caching", "recording"}
      /\ ~flags.cache => AfterCall(s) # "caching"
  BY DEF AfterCall
<1>2. pc[s] = "calling" /\ Goto(s, AfterCall(s))
  BY DEF ProviderOk, Coalesce
<1>3. CASE ProviderOk(s)
  <2>1. responses + 1 \in Ids /\ responses' = responses + 1
    BY <1>3, ChatAssumption DEF ChatAssumption, ProviderOk, ChatInv, Typed, Ids
  <2>2. shared' \in Response
    BY <1>3, <2>1 DEF ProviderOk, ChatInv, Typed, Response
  <2>3. SlotStep(s, AfterCall(s), responses + 1)
    BY <1>1, <1>2, <1>3, <2>1, <2>2 DEF ProviderOk, ChatInv, Typed, BilledInv, SlotStep,
       AdmittedLabels, Ids
  <2> QED
    BY <1>1, <2>1, <2>3, SlotStepKeeps DEF Labels, HoldingLabels, Response
<1>4. CASE Coalesce(s)
  <2>1. shared \in Ids
    BY <1>4 DEF Coalesce, ChatInv, Typed, Response
  <2>2. SlotStep(s, AfterCall(s), shared)
    BY <1>1, <1>2, <1>4, <2>1 DEF Coalesce, ChatInv, Typed, BilledInv, SlotStep, AdmittedLabels
  <2> QED
    BY <1>1, <2>1, <2>2, SlotStepKeeps DEF Labels, HoldingLabels, Response
<1> QED
  BY <1>3, <1>4

\* The end of a stream and storeCache lead to the record.
LEMMA StoreKeeps ==
    ASSUME ChatInv, NEW s \in Slots, StreamDone(s) \/ StoreCache(s)
    PROVE  ChatInv'
<1>1. CASE StreamDone(s)
  <2>1. pc[s] = "streaming" /\ resp[s] \in Ids
    BY <1>1 DEF StreamDone, ChatInv, HoldingInv, HoldingLabels
  <2>2. resp' = [resp EXCEPT ![s] = resp[s]]
    BY <1>1 DEF StreamDone, ChatInv, Typed
  <2>3. served' \ unended' \subseteq served \ unended
    BY <1>1 DEF StreamDone
  <2>4. SlotStep(s, "recording", resp[s])
    BY <1>1, <2>1, <2>2, <2>3 DEF StreamDone, ChatInv, Typed, BilledInv, SlotStep, AdmittedLabels
  <2> QED
    BY <2>1, <2>4, SlotStepKeeps DEF Labels, HoldingLabels, Response
<1>2. CASE StoreCache(s)
  <2>1. pc[s] = "caching" /\ flags.cache /\ resp[s] \in Ids
    BY <1>2 DEF StoreCache, ChatInv, HoldingInv, HoldingLabels, BilledInv
  <2>2. resp' = [resp EXCEPT ![s] = resp[s]]
    BY <1>2 DEF StoreCache, ChatInv, Typed
  <2>3. cache' \in Response
    BY <1>2, <2>1 DEF StoreCache, Stored, ChatInv, Typed, Response
  <2>4. SlotStep(s, "recording", resp[s])
    BY <1>2, <2>1, <2>2, <2>3 DEF StoreCache, ChatInv, Typed, SlotStep, AdmittedLabels
  <2> QED
    BY <2>1, <2>4, SlotStepKeeps DEF Labels, HoldingLabels, Response
<1> QED
  BY <1>1, <1>2

\* recordUsageAndOutbox: the request is no longer among those that may spend, and
\* has spent at most once.
LEMMA RecordKeeps == ASSUME ChatInv, NEW s \in Slots, Record(s) PROVE ChatInv'
<1>1. /\ pc[s] = "recording" /\ pc' = [pc EXCEPT ![s] = "saving"]
      /\ usage' = usage \cup {resp[s]}
      /\ UNCHANGED <<flags, resp, responses, idem, cache, shared, histVars>>
  BY DEF Record
<1>2. resp[s] \in Ids
  BY <1>1 DEF ChatInv, HoldingInv, HoldingLabels
<1>3. recorded' \in [Ids -> Nat] /\ EventInv'
  BY <1>1, <1>2 DEF Record, ChatInv, Typed, EventInv
<1>4. Typed'
  BY <1>1, <1>2, <1>3 DEF ChatInv, Typed, Labels, HoldingLabels
<1>5. HoldingInv'
  BY <1>1, <1>2 DEF ChatInv, Typed, HoldingInv
<1>6. BilledInv'
  BY <1>1 DEF ChatInv, Typed, BilledInv
<1>7. Admitted' = Admitted \ {s} /\ s \in Admitted
  BY <1>1 DEF ChatInv, Typed, Admitted, AdmittedLabels
<1>8. /\ IsFiniteSet(usage) /\ Cardinality(usage) \in Nat
      /\ IsFiniteSet(Admitted) /\ Cardinality(Admitted) \in Nat
      /\ Cardinality(Slots) \in Nat /\ Budget \in Nat
  BY CountsFinite, ChatAssumption DEF ChatAssumption, ChatInv
<1>9. Cardinality(Admitted') = Cardinality(Admitted) - 1
  BY <1>7, <1>8, FS_RemoveElement
<1>10. Cardinality(usage') = IF resp[s] \in usage THEN Cardinality(usage) ELSE Cardinality(usage) + 1
  BY <1>1, <1>8, FS_AddElement
<1>11. SpendInv'
  <2>1. flags' = flags
    BY <1>1
  <2> QED
    BY <2>1, <1>8, <1>9, <1>10 DEF ChatInv, SpendInv
<1> QED
  BY <1>3, <1>4, <1>5, <1>6, <1>11 DEF ChatInv

\* The answer, and the stored result, are billed.
LEMMA SaveKeeps == ASSUME ChatInv, NEW s \in Slots, Save(s) PROVE ChatInv'
<1>1. pc[s] = "saving" /\ resp[s] \in Ids
  BY DEF Save, ChatInv, HoldingInv, HoldingLabels
<1>2. idem' \in Response
  BY <1>1 DEF Save, StoreIdempotentResult, ChatInv, Typed, Response
<1>3. SlotStep(s, "idle", 0)
  BY <1>1, <1>2 DEF Save, StoreIdempotentResult, End, ChatInv, Typed, BilledInv, SlotStep,
     HoldingLabels, AdmittedLabels
<1> QED
  BY <1>3, SlotStepKeeps DEF Labels, Response

\* A failure ends the request, or leaves its stream hung.
LEMMA FailureKeeps ==
    ASSUME ChatInv, NEW s \in Slots, Fault(s) \/ ProviderFail(s) \/ StreamFail(s)
    PROVE  ChatInv'
<1>1. CASE GateError(s) \/ EarlyError(s) \/ Crash(s) \/ ProviderFail(s) \/ StreamFail(s)
  <2>1. End(s) /\ UNCHANGED <<flags, responses, storeVars, billVars, histVars>>
    BY <1>1 DEF GateError, EarlyError, Crash, ProviderFail, StreamFail
  <2> QED
    BY <2>1, EndKeeps
<1>2. CASE RecordFail(s) \/ SaveFail(s)
  <2>1. Throw(s) /\ UNCHANGED <<flags, responses, storeVars, billVars, histVars>>
    BY <1>2 DEF RecordFail, SaveFail
  <2>2. CASE End(s)
    BY <2>1, <2>2, EndKeeps
  <2>3. CASE Goto(s, "hung") /\ UNCHANGED resp
    BY <2>1, <2>3, MoveKeeps DEF Labels, AdmittedLabels, HoldingLabels
  <2> QED
    BY <2>1, <2>2, <2>3 DEF Throw
<1> QED
  BY <1>1, <1>2 DEF Fault

\* An expiry takes a lock or a stored result away.
LEMMA ExpiryKeeps == ASSUME ChatInv, LockExpire \/ Forget PROVE ChatInv'
<1>1. /\ UNCHANGED <<flags, pc, resp, responses, usage, recorded, histVars>>
      /\ idem' \in {idem, 0} /\ cache' \in {cache, 0} /\ shared' \in {shared, 0}
  BY DEF LockExpire, Forget
<1>2. Typed' /\ HoldingInv' /\ BilledInv' /\ EventInv'
  BY <1>1 DEF ChatInv, Typed, Response, HoldingInv, BilledInv, EventInv
<1>3. SpendInv'
  BY <1>1 DEF ChatInv, SpendInv, Admitted
<1> QED
  BY <1>2, <1>3 DEF ChatInv

\* Every step of the requests and of Redis keeps the invariant.
LEMMA ChatStep == ASSUME ChatInv, [Next]_vars PROVE ChatInv'
<1>1. CASE UNCHANGED vars
  BY <1>1 DEF vars, ChatInv, Typed, HoldingInv, BilledInv, EventInv, SpendInv, Admitted
<1>2. ASSUME NEW s \in Slots, Arrive(s) \/ Handle(s) PROVE ChatInv'
  BY <1>2, ArrivalKeeps, GateKeeps, LookupKeeps, CallKeeps, StoreKeeps, RecordKeeps, SaveKeeps,
     FailureKeeps DEF Handle
<1>3. ASSUME NEW s \in Slots, Fault(s) PROVE ChatInv'
  BY <1>3, FailureKeeps
<1>4. CASE LockExpire \/ Forget
  BY <1>4, ExpiryKeeps
<1> QED
  BY <1>1, <1>2, <1>3, <1>4 DEF Next

\* In every reachable state the spend and the admitted requests are within the bound.
THEOREM ChatInvariant == Spec => []ChatInv
<1>1. ChatInv /\ [Next]_vars => ChatInv'
  BY ChatStep
<1> QED
  BY ChatStart, <1>1, PTL DEF Spec

\* The comment of billing.ts: the overage is less than the number of requests an
\* organization can have outstanding, although the lock covers the check only,
\* expires under its holder and is lost in crashes.
THEOREM ChatOverageBounded == Spec => []OverageBounded
<1>1. ASSUME ChatInv PROVE OverageBounded
  BY <1>1, CountsFinite, ChatAssumption DEF ChatAssumption, ChatInv, SpendInv, OverageBounded
<1> QED
  BY ChatInvariant, <1>1, PTL

\* Without the semantic cache whatever a client has got with 200 is billed, replays,
\* coalesced responses and streams whose handler ended well included, and each usage
\* record has one event.
THEOREM ChatServedIsBilled == Spec => []ServedIsBilled
<1>1. ChatInv => ServedIsBilled
  BY DEF ChatInv, BilledInv, EventInv, ServedIsBilled
<1> QED
  BY ChatInvariant, <1>1, PTL

-----------------------------------------------------------------------------

\* A slot's step moves no other slot.
LEMMA OwnSlotOnly ==
    ASSUME ChatInv, NEW u \in Slots, Arrive(u) \/ Handle(u) \/ Fault(u), NEW s \in Slots, s # u
    PROVE  pc'[s] = pc[s]
<1>1. pc' = pc \/ \E l : Goto(u, l)
  <2>1. CASE Arrive(u) \/ Fault(u)
    BY <2>1 DEF Arrive, Fault, GateError, EarlyError, RecordFail, SaveFail, Crash, Throw, End
  <2>2. CASE Replay(u) \/ Proceed(u) \/ Acquire(u) \/ Contend(u) \/ CheckBudget(u) \/ Release(u)
    BY <2>2 DEF Replay, Proceed, Acquire, Contend, CheckBudget, Release, End
  <2>3. CASE Route(u) \/ Lookup(u) \/ ProviderOk(u) \/ Coalesce(u) \/ ProviderFail(u)
    BY <2>3 DEF Route, Lookup, ProviderOk, Coalesce, ProviderFail, End
  <2>4. CASE StreamDone(u) \/ StreamFail(u) \/ StoreCache(u) \/ Record(u) \/ Save(u)
    BY <2>4 DEF StreamDone, StreamFail, StoreCache, Record, Save, End
  <2> QED
    BY <2>1, <2>2, <2>3, <2>4 DEF Handle
<1> QED
  BY <1>1 DEF ChatInv, Typed

\* A slot that is inside withDistributedLock leaves the lock of another alone.
LEMMA OwnLockOnly ==
    ASSUME NEW s \in Slots, NEW t \in Slots, s # t, lock = {t},
           pc[s] \in {"passed", "rejected", "checking"}, Arrive(s) \/ Handle(s) \/ Fault(s)
    PROVE  lock' = lock
<1>1. ReleaseScript(s) = lock
  BY DEF ReleaseScript
<1>2. CASE Arrive(s) \/ Fault(s)
  BY <1>1, <1>2 DEF Arrive, Fault, GateError, EarlyError, RecordFail, SaveFail, Crash
<1>3. CASE Replay(s) \/ Proceed(s) \/ Acquire(s) \/ Contend(s) \/ CheckBudget(s) \/ Release(s)
  BY <1>1, <1>3 DEF Replay, Proceed, Acquire, Contend, CheckBudget, Release
<1>4. CASE Route(s) \/ Lookup(s) \/ ProviderOk(s) \/ Coalesce(s) \/ ProviderFail(s)
  BY <1>4 DEF Route, Lookup, ProviderOk, Coalesce, ProviderFail
<1>5. CASE StreamDone(s) \/ StreamFail(s) \/ StoreCache(s) \/ Record(s) \/ Save(s)
  BY <1>5 DEF StreamDone, StreamFail, StoreCache, Record, Save
<1> QED
  BY <1>2, <1>3, <1>4, <1>5 DEF Handle

\* RELEASE_SCRIPT compares the token: a request whose TTL ran out, and whose lock
\* another has taken since, cannot free it by ending its check, in whatever way.
THEOREM ChatReleaseOnlyOwn == Spec => ReleaseOnlyOwn
<1> DEFINE Own ==
      \A s, t \in Slots :
          lock = {t} /\ s # t /\ pc[s] \in {"passed", "rejected", "checking"} /\ pc'[s] # pc[s]
             => lock' = lock
<1>1. ChatInv /\ [Next]_vars => [Own]_vars
  <2> SUFFICES ASSUME ChatInv, Next, NEW s \in Slots, NEW t \in Slots, lock = {t}, s # t,
                      pc[s] \in {"passed", "rejected", "checking"}, pc'[s] # pc[s]
               PROVE  lock' = lock
    OBVIOUS
  <2>1. CASE LockExpire \/ Forget
    BY <2>1 DEF LockExpire, Forget
  <2>2. ASSUME NEW u \in Slots, Arrive(u) \/ Handle(u) \/ Fault(u) PROVE lock' = lock
    <3>1. u = s
      BY <2>2, OwnSlotOnly
    <3> QED
      BY <2>2, <3>1, OwnLockOnly
  <2> QED
    BY <2>1, <2>2 DEF Next
<1> QED
  BY ChatInvariant, <1>1, PTL DEF Spec, ReleaseOnlyOwn

-----------------------------------------------------------------------------
(* Routing *)

Samples == [lat : Latencies, ok : BOOLEAN]

Circuits == [state : {"closed", "open", "half_open"}, failures : Nat, cooled : BOOLEAN]

Places == {"idle", "peek", "attempt", "calling", "refused", "backoff", "catch",
           "record_success", "record_failure", "done"}

RequestRecord ==
    [pc : Places, asked : Models \cup {"auto"}, low : BOOLEAN, ab : {"none", "trying", "left"},
     i : Nat, avail : Seq(Models), model : Models \cup {"none"}, n : Nat,
     threw : BOOLEAN, answered : BOOLEAN, sampled : SUBSET BOOLEAN,
     result : {"none", "ok", "error", "unavailable", "all_down"}]

RoutingTyped ==
    /\ circuit \in [Providers -> Circuits]
    /\ stats \in [Providers -> Seq(Samples)]
    /\ req \in RequestRecord
    /\ wasOpen \subseteq Providers

\* The models of a pass: the A/B variants, or the candidates.
PassOf(ab) == IF ab = "trying" THEN AbModels ELSE Candidates

\* A request that is routed looks at one candidate after another: those it has seen
\* may be routed to or were open, and what is open now is known to have been.
PeekInv ==
    req.pc = "peek" =>
        /\ req.i >= 1 /\ req.asked = "auto" /\ ~req.low /\ req.model = "none"
        /\ ToSet(req.avail) \subseteq ToSet(PassOf(req.ab))
        /\ \A k \in DOMAIN PassOf(req.ab) :
              k < req.i => \/ PassOf(req.ab)[k] \in ToSet(req.avail)
                          \/ Rules[PassOf(req.ab)[k]] \in wasOpen
        /\ req.ab = "left" => \A m \in ToSet(AbModels) : Rules[m] \in wasOpen
        /\ OpenIn(circuit) \subseteq wasOpen

\* The model is known from the first attempt on, and attempts are counted.
CallInv ==
    req.pc \notin {"idle", "peek", "done"} => req.model \in Models /\ req.n >= 1

\* What has been sampled, and what may still be.
SampleInv ==
    /\ req.pc \notin {"record_failure", "done"} => req.sampled = {}
    /\ req.pc # "done" => req.result = "none"
    /\ req.pc \in {"record_success", "catch"} => req.answered
    /\ req.pc = "record_failure" => (req.threw \/ req.answered) /\ FALSE \notin req.sampled

RoutingInv ==
    /\ RoutingTyped /\ PeekInv /\ CallInv /\ SampleInv
    /\ SamplesHonest /\ UnavailableMeansOutage

-----------------------------------------------------------------------------
(* The operators of the model *)

\* A non-empty set of numbers has a minimum.
LEMMA MinMember ==
    ASSUME NEW S \in SUBSET Nat, S # {}
    PROVE  Min(S) \in S /\ \A y \in S : Min(S) <= y
<1> DEFINE Less == {pair \in Nat \X Nat : pair[1] < pair[2]}
<1>1. IsWellFoundedOn(Less, Nat)
  BY NatLessThanWellFounded, Zenon DEF OpToRel
<1>2. S \subseteq Nat
  OBVIOUS
<1>3. \E x \in S : \A y \in S : ~ (<<y, x>> \in Less)
  <2> HIDE DEF Less
  <2> QED
    BY <1>1, <1>2, WFMin, Zenon
<1>4. PICK x \in S : \A y \in S : ~ (<<y, x>> \in Less)
  BY <1>3, Zenon
<1>5. ASSUME NEW y \in S PROVE ~ (y < x)
  <2>1. <<y, x>> \in Nat \X Nat
    BY <1>2
  <2>2. <<y, x>>[1] = y /\ <<y, x>>[2] = x
    OBVIOUS
  <2>3. ~ (<<y, x>>[1] < <<y, x>>[2])
    BY <1>4, <2>1, Zenon
  <2> QED
    BY <2>2, <2>3, Zenon
<1>6. \A y \in S : x <= y
  BY <1>2, <1>5
<1> QED
  BY <1>6 DEF Min

\* A set of the first n numbers is finite.
LEMMA IntervalPart ==
    ASSUME NEW n \in Nat, NEW S \in SUBSET (1..n)
    PROVE  IsFiniteSet(S) /\ Cardinality(S) \in Nat /\ Cardinality(S) <= n
<1>1. IsFiniteSet(1..n) /\ Cardinality(1..n) = n
  BY FS_Interval
<1>2. IsFiniteSet(S) /\ Cardinality(S) <= Cardinality(1..n)
  BY <1>1, FS_Subset
<1> QED
  BY <1>1, <1>2, FS_CardinalityType

\* A set of the first n numbers has a j-th smallest.
LEMMA NthMember ==
    ASSUME NEW n \in Nat, NEW S \in SUBSET (1..n), NEW j \in 1..Cardinality(S)
    PROVE  Nth(S, j) \in S
<1> DEFINE UpTo(m) == {i \in S : i <= m}
           T == {m \in Nat : Cardinality(UpTo(m)) >= j}
<1>0. \A i \in S : i \in Nat /\ 1 <= i /\ i <= n
  OBVIOUS
<1>1. IsFiniteSet(S) /\ Cardinality(S) \in Nat
  BY IntervalPart
<1>2. \A m \in Nat : IsFiniteSet(UpTo(m)) /\ Cardinality(UpTo(m)) \in Nat
  <2> TAKE m \in Nat
  <2>1. UpTo(m) \subseteq S
    OBVIOUS
  <2> QED
    BY <1>1, <2>1, FS_Subset, FS_CardinalityType
<1>3. n \in T
  <2>1. UpTo(n) = S
    BY <1>0
  <2> QED
    BY <1>1, <2>1
<1>4. Min(T) \in T /\ \A y \in T : Min(T) <= y
  <2>1. T \in SUBSET Nat /\ T # {}
    BY <1>3
  <2> QED
    BY <2>1, MinMember
<1> DEFINE k == Min(T)
<1>5. k \in Nat /\ Cardinality(UpTo(k)) >= j
  BY <1>4
<1>6. k # 0
  <2>0. \A i \in S : ~(i <= 0)
    BY <1>0
  <2>1. UpTo(0) = {}
    BY <2>0, Zenon
  <2>2. Cardinality(UpTo(0)) = 0
    BY <2>1, FS_EmptySet
  <2> HIDE DEF k
  <2> QED
    BY <1>1, <1>5, <2>2
<1>7. k - 1 \in Nat /\ Cardinality(UpTo(k - 1)) < j
  <2>1. k - 1 \in Nat
    BY <1>5, <1>6
  <2>2. k - 1 \notin T
    <3>1. k \in Nat /\ \A y \in T : k <= y
      BY <1>4, <1>5
    <3> HIDE DEF T, k
    <3> QED
      BY <2>1, <3>1
  <2>3. Cardinality(UpTo(k - 1)) \in Nat
    BY <1>2, <2>1
  <2> HIDE DEF UpTo
  <2> QED
    BY <2>1, <2>2, <2>3
<1> HIDE DEF k
<1>8. k \in S
  <2> SUFFICES ASSUME k \notin S PROVE FALSE
    OBVIOUS
  <2>0. \A i \in S : i <= k <=> i <= k - 1
    BY <1>0, <1>5, <1>7
  <2>1. UpTo(k) = UpTo(k - 1)
    BY <2>0, Zenon
  <2> HIDE DEF UpTo
  <2> QED
    BY <1>2, <1>5, <1>7, <2>1
<1>9. Cardinality(UpTo(k)) = j
  <2>0. /\ \A i \in S : i <= k <=> i <= k - 1 \/ i = k
        /\ ~(k <= k - 1)
    BY <1>0, <1>5, <1>7
  <2>1. UpTo(k) = UpTo(k - 1) \cup {k} /\ k \notin UpTo(k - 1)
    BY <1>8, <2>0
  <2>2. Cardinality(UpTo(k)) = Cardinality(UpTo(k - 1)) + 1
    BY <1>2, <1>7, <2>1, FS_AddElement
  <2> HIDE DEF UpTo
  <2> QED
    BY <1>2, <1>5, <1>7, <2>2
<1> QED
  BY <1>8, <1>9 DEF Nth

\* The A/B variants are models.
LEMMA AbModelsTyped == AbModels \in Seq(Models)
<1> DEFINE valid == {k \in DOMAIN RawAb : RawAb[k][2] > 0 /\ RawAb[k][2] <= MaxWeight}
           entries == Selected(RawAb, valid)
           size == Least(MaxVariants, Len(entries))
<1>1. RawAb \in Seq(Models \X Int)
  BY RoutingAssumption DEF RoutingAssumption
<1>2. valid \in SUBSET (1..Len(RawAb)) /\ Len(RawAb) \in Nat
  BY <1>1
<1>3. Cardinality(valid) \in Nat
  BY <1>2, IntervalPart
<1>4. entries \in Seq(Models \X Int)
  <2>1. ASSUME NEW j \in 1..Cardinality(valid) PROVE RawAb[Nth(valid, j)] \in Models \X Int
    <3>1. Nth(valid, j) \in valid
      <4> HIDE DEF valid
      <4> QED
        BY <1>2, NthMember
    <3> QED
      BY <1>1, <3>1
  <2>2. entries = [j \in 1..Cardinality(valid) |-> RawAb[Nth(valid, j)]]
    BY DEF Selected
  <2> HIDE DEF entries, valid
  <2> QED
    BY <1>3, <2>1, <2>2
<1>5. AbConfig = SubSeq(entries, 1, size)
  BY DEF AbConfig
<1> HIDE DEF valid, entries
<1>6. size \in Nat /\ size <= Len(entries)
  BY <1>4 DEF Least, MaxVariants
<1> HIDE DEF size
<1>7. AbConfig \in Seq(Models \X Int)
  BY <1>4, <1>5, <1>6
<1> HIDE DEF AbConfig
<1>8. Len(AbConfig) \in Nat /\ DOMAIN AbConfig = 1..Len(AbConfig)
  BY <1>7
<1>9. \A k \in 1..Len(AbConfig) : AbConfig[k][1] \in Models
  BY <1>7
<1>10. AbModels = [k \in 1..Len(AbConfig) |-> AbConfig[k][1]]
  BY <1>8 DEF AbModels
<1> QED
  BY <1>8, <1>9, <1>10

\* A sequence of numbers has a bound.
LEMMA SeqBounded ==
    ASSUME NEW s \in Seq(Nat)
    PROVE  \E b \in Nat : \A k \in DOMAIN s : s[k] <= b
<1> DEFINE Bounded(m) == \E b \in Nat : \A k \in DOMAIN s : k <= m => s[k] <= b
           T == {m \in Nat : ~Bounded(m)}
<1>0. DOMAIN s = 1..Len(s) /\ Len(s) \in Nat /\ \A k \in DOMAIN s : s[k] \in Nat
  OBVIOUS
<1>1. ASSUME T # {} PROVE FALSE
  <2>1. T \in SUBSET Nat
    OBVIOUS
  <2> DEFINE m == Min(T)
  <2>2. m \in T /\ \A y \in T : m <= y
    <3> HIDE DEF T
    <3> QED
      BY <1>1, <2>1, MinMember
  <2> HIDE DEF m
  <2>3. m \in Nat /\ ~Bounded(m)
    BY <2>2
  <2>4. m # 0
    <3>1. Bounded(0)
      <4>1. \A k \in DOMAIN s : ~(k <= 0)
        BY <1>0
      <4> QED
        BY <4>1
    <3> HIDE DEF Bounded
    <3> QED
      BY <2>3, <3>1
  <2>5. m - 1 \in Nat /\ m - 1 \notin T
    <3>1. m - 1 \in Nat
      BY <2>3, <2>4
    <3> HIDE DEF T
    <3> QED
      BY <2>2, <2>3, <3>1
  <2>6. PICK b \in Nat : \A k \in DOMAIN s : k <= m - 1 => s[k] <= b
    BY <2>5
  <2>7. ASSUME m \notin DOMAIN s PROVE FALSE
    <3>1. \A k \in DOMAIN s : k <= m => k <= m - 1
      BY <1>0, <2>3, <2>7
    <3> QED
      BY <2>3, <2>6, <3>1
  <2>8. ASSUME m \in DOMAIN s PROVE FALSE
    <3>1. s[m] \in Nat /\ b + s[m] \in Nat
      BY <1>0, <2>8
    <3>2. ASSUME NEW k \in DOMAIN s, k <= m PROVE s[k] <= b + s[m]
      <4>1. k \in Nat /\ s[k] \in Nat
        BY <1>0
      <4>2. CASE k = m
        BY <3>1, <4>2
      <4>3. CASE k # m
        <5>1. k <= m - 1
          BY <2>3, <3>2, <4>1, <4>3
        <5>2. s[k] <= b
          BY <2>6, <5>1
        <5> QED
          BY <3>1, <4>1, <5>2
      <4> QED
        BY <4>2, <4>3
    <3> QED
      BY <2>3, <3>1, <3>2
  <2> QED
    BY <2>7, <2>8
<1>2. Bounded(Len(s))
  BY <1>0, <1>1
<1> QED
  BY <1>0, <1>2

\* A sequence of numbers that is not empty has a largest one.
LEMMA SeqLargest ==
    ASSUME NEW s \in Seq(Nat), s # <<>>
    PROVE  \E j \in DOMAIN s : \A k \in DOMAIN s : s[k] <= s[j]
<1> DEFINE B == {b \in Nat : \A k \in DOMAIN s : s[k] <= b}
<1>0. 1 \in DOMAIN s /\ \A k \in DOMAIN s : s[k] \in Nat
  OBVIOUS
<1>1. B \in SUBSET Nat /\ B # {}
  BY SeqBounded
<1> DEFINE b == Min(B)
<1>2. b \in B /\ \A y \in B : b <= y
  <2> HIDE DEF B
  <2> QED
    BY <1>1, MinMember
<1>3. b \in Nat /\ \A k \in DOMAIN s : s[k] <= b
  BY <1>2
<1> HIDE DEF b
<1>4. ASSUME \A k \in DOMAIN s : s[k] # b PROVE FALSE
  <2>1. \A k \in DOMAIN s : s[k] <= b - 1
    BY <1>0, <1>3, <1>4
  <2>2. b - 1 \in Nat
    BY <1>0, <1>3, <2>1
  <2>3. b - 1 \in B
    BY <2>1, <2>2
  <2> HIDE DEF B
  <2> QED
    BY <1>2, <1>3, <2>3
<1> QED
  BY <1>3, <1>4

\* A percentile of latencies is a number.
LEMMA PercentileNat ==
    ASSUME NEW s \in Seq(Nat), NEW p \in Nat
    PROVE  Percentile(s, p) \in Nat
<1> DEFINE rank == (p * Len(s) + 99) \div 100
           place == Greatest(1, Least(Len(s), rank))
           V == {v \in ToSet(s) : Cardinality({k \in DOMAIN s : s[k] <= v}) >= place}
<1>1. CASE s = <<>>
  BY <1>1 DEF Percentile
<1>2. CASE s # <<>>
  <2>0. DOMAIN s = 1..Len(s) /\ Len(s) \in Nat /\ Len(s) >= 1 /\ \A k \in DOMAIN s : s[k] \in Nat
    BY <1>2
  <2>1. PICK j \in DOMAIN s : \A k \in DOMAIN s : s[k] <= s[j]
    BY <1>2, SeqLargest
  <2>2. {k \in DOMAIN s : s[k] <= s[j]} = 1..Len(s)
    BY <2>0, <2>1
  <2>3. Cardinality({k \in DOMAIN s : s[k] <= s[j]}) = Len(s)
    <3>1. \A n \in Nat : n >= 1 => Cardinality(1..n) = n
      BY FS_Interval
    <3> QED
      BY <2>0, <2>2, <3>1
  <2>4. rank \in Int
    <3>1. p * Len(s) \in Nat
      BY <2>0
    <3> QED
      BY <3>1
  <2>5. place <= Len(s)
    <3> HIDE DEF rank
    <3> QED
      BY <2>0, <2>4 DEF Greatest, Least
  <2> HIDE DEF rank, place
  <2>6. s[j] \in V
    BY <2>1, <2>3, <2>5 DEF ToSet
  <2>7. V \in SUBSET Nat /\ V # {}
    BY <2>0, <2>6 DEF ToSet
  <2>8. Min(V) \in Nat
    <3> HIDE DEF V
    <3> QED
      BY <2>7, MinMember
  <2>9. Percentile(s, p) = Min(V)
    BY <1>2, Zenon DEF Percentile, place, rank
  <2> QED
    BY <2>8, <2>9
<1> QED
  BY <1>1, <1>2

\* Quotients and products of numbers are numbers.
LEMMA DivNat ==
    ASSUME NEW x \in Nat, NEW d \in Nat \ {0}
    PROVE  x \div d \in Nat
OBVIOUS

LEMMA ProductNat ==
    ASSUME NEW x \in Nat, NEW y \in Nat
    PROVE  x * y \in Nat
OBVIOUS

\* A score is a number.
LEMMA ScoreNat ==
    ASSUME stats \in [Providers -> Seq(Samples)], NEW m \in Models, NEW preset \in DOMAIN Presets
    PROVE  RoutingScore(m, Presets[preset]) \in Nat
<1> USE RoutingAssumption DEF RoutingAssumption
<1> DEFINE w == Presets[preset]
           p == Rules[m]
           a == 10000 \div (IF stats[p] # <<>> THEN Greatest(1, P99(p)) ELSE 1000)
           b == IF stats[p] # <<>> THEN (10000 * Successes(p)) \div Len(stats[p]) ELSE 9500
<1>1. p \in Providers /\ stats[p] \in Seq(Samples)
  BY SMT DEF Models
<1>2. InvCost(m) \in Nat
  <2>1. BlendedCostPer1k(m) \in Nat
    BY SMT DEF BlendedCostPer1k, ModelPricing
  <2> DEFINE d == Greatest(2, BlendedCostPer1k(m))
  <2>2. d \in Nat \ {0}
    BY <2>1, SMT DEF Greatest
  <2> DEFINE x == 200000000
  <2>3. x \in Nat
    BY SMT
  <2> HIDE DEF d, x
  <2>4. x \div d \in Nat
    BY <2>2, <2>3, DivNat
  <2> QED
    BY <2>4, SMT DEF InvCost, d, x
<1>3. w.cost \in Nat /\ w.latency \in Nat /\ w.reliability \in Nat
  BY SMT DEF Presets
<1>4. a \in Nat
  <2>1. P99(p) \in Nat
    <3>1. [k \in DOMAIN stats[p] |-> stats[p][k].lat] \in Seq(Nat)
      <4>1. Len(stats[p]) \in Nat /\ DOMAIN stats[p] = 1..Len(stats[p])
        BY <1>1, SMT
      <4>2. \A k \in 1..Len(stats[p]) : stats[p][k] \in Samples
        BY <1>1, SMT
      <4>3. \A x \in Samples : x.lat \in Nat
        BY DEF Samples
      <4> QED
        BY <4>1, <4>2, <4>3
    <3> QED
      BY <3>1, PercentileNat DEF P99
  <2> DEFINE d == IF stats[p] # <<>> THEN Greatest(1, P99(p)) ELSE 1000
  <2>2. d \in Nat \ {0}
    BY <2>1, SMT DEF Greatest
  <2> DEFINE x == 10000
  <2>3. x \in Nat
    BY SMT
  <2> HIDE DEF d, x
  <2>4. x \div d \in Nat
    BY <2>2, <2>3, DivNat
  <2> QED
    BY <2>4, SMT DEF d, x
<1>5. b \in Nat
  <2>1. CASE stats[p] = <<>>
    BY <2>1, SMT
  <2>2. CASE stats[p] # <<>>
    <3>1. Len(stats[p]) \in Nat /\ Len(stats[p]) >= 1 /\ DOMAIN stats[p] = 1..Len(stats[p])
      BY <1>1, <2>2, SMT
    <3>2. {k \in DOMAIN stats[p] : stats[p][k].ok} \in SUBSET (1..Len(stats[p]))
      BY <3>1, SMT
    <3>3. Successes(p) \in Nat
      BY <3>1, <3>2, IntervalPart DEF Successes
    <3>4. (10000 * Successes(p)) \div Len(stats[p]) \in Nat
      <4>1. 10000 * Successes(p) \in Nat /\ Len(stats[p]) \in Nat \ {0}
        BY <3>1, <3>3, SMT
      <4> QED
        BY <4>1, DivNat, SMT
    <3> QED
      BY <2>2, <3>4, SMT
  <2> QED
    BY <2>1, <2>2, SMT
<1>6. RoutingScore(m, w) = a * w.latency + InvCost(m) * w.cost + b * w.reliability
  BY SMT DEF RoutingScore
<1> HIDE DEF a, b, w
<1>7. a * w.latency \in Nat /\ InvCost(m) * w.cost \in Nat /\ b * w.reliability \in Nat
  BY <1>2, <1>3, <1>4, <1>5, ProductNat, Zenon
<1>8. RoutingScore(m, w) \in Nat
  BY <1>6, <1>7, SMT
<1> QED
  BY <1>8 DEF w

\* Best returns one of the candidates.
LEMMA BestChoice ==
    ASSUME stats \in [Providers -> Seq(Samples)], NEW s \in Seq(Models), s # <<>>, NEW preset \in DOMAIN Presets
    PROVE  \E k \in DOMAIN s : Best(s, Presets[preset]) = s[k]
<1> DEFINE w == Presets[preset]
           f == [k \in DOMAIN s |-> RoutingScore(s[k], w)]
           First(k) == \A j \in DOMAIN s \ {k} :
                          RoutingScore(s[k], w) >= RoutingScore(s[j], w) + (IF j < k THEN 1 ELSE 0)
<1>1. DOMAIN s = 1..Len(s) /\ Len(s) \in Nat /\ \A k \in DOMAIN s : s[k] \in Models
  OBVIOUS
<1>2. \A k \in DOMAIN s : RoutingScore(s[k], w) \in Nat
  BY <1>1, ScoreNat
<1>3. f \in Seq(Nat) /\ DOMAIN f = DOMAIN s /\ f # <<>> /\ \A k \in DOMAIN s : f[k] = RoutingScore(s[k], w)
  <2>1. f \in [1..Len(s) -> Nat] /\ DOMAIN f = 1..Len(s)
    BY <1>1, <1>2
  <2>2. f \in Seq(Nat)
    BY <1>1, <2>1
  <2>3. Len(s) # 0
    OBVIOUS
  <2> QED
    BY <1>1, <2>1, <2>2, <2>3
<1>4. PICK top \in DOMAIN s : \A k \in DOMAIN s : f[k] <= f[top]
  <2> HIDE DEF f
  <2> QED
    BY <1>3, SeqLargest
<1> DEFINE K == {k \in DOMAIN s : RoutingScore(s[k], w) = RoutingScore(s[top], w)}
<1>5. K \in SUBSET Nat /\ K # {}
  BY <1>1
<1>6. PICK k \in K : \A y \in K : k <= y
  <2> HIDE DEF K
  <2> QED
    BY <1>5, MinMember
<1>7. k \in DOMAIN s /\ \A j \in DOMAIN s : RoutingScore(s[j], w) <= RoutingScore(s[k], w)
  BY <1>3, <1>4, <1>6
<1>8. First(k)
  <2> SUFFICES ASSUME NEW j \in DOMAIN s, j # k
               PROVE  RoutingScore(s[k], w) >= RoutingScore(s[j], w) + (IF j < k THEN 1 ELSE 0)
    OBVIOUS
  <2>1. j \in Nat /\ k \in Nat
    BY <1>1, <1>7
  <2>2. CASE j < k
    <3>1. j \notin K
      BY <1>6, <2>1, <2>2
    <3>2. RoutingScore(s[j], w) # RoutingScore(s[k], w)
      BY <1>6, <3>1
    <3> QED
      BY <1>2, <1>7, <2>2, <3>2
  <2>3. CASE ~(j < k)
    BY <1>2, <1>7, <2>3
  <2> QED
    BY <2>2, <2>3
<1> DEFINE c == CHOOSE x \in DOMAIN s : First(x)
<1>9. c \in DOMAIN s /\ First(c)
  <2> HIDE DEF First
  <2> QED
    BY <1>7, <1>8
<1>10. Best(s, Presets[preset]) = s[c]
  BY DEF Best
<1> HIDE DEF c
<1> QED
  BY <1>9, <1>10

\* The weighted choice returns one of the variants.
LEMMA PickMember ==
    ASSUME NEW S, NEW s \in Seq(S), s # <<>>, NEW roll
    PROVE  PickVariant(s, roll) \in ToSet(s)
<1> DEFINE hits == {k \in DOMAIN s : roll <= 2 * Cumulative(s, k)}
           place == IF hits = {} THEN Len(s) ELSE Min(hits)
<1>1. hits \in SUBSET Nat /\ hits \subseteq DOMAIN s
  OBVIOUS
<1>2. hits # {} => Min(hits) \in hits
  <2> HIDE DEF hits
  <2> QED
    BY <1>1, MinMember
<1>3. Len(s) \in DOMAIN s
  OBVIOUS
<1>4. place \in DOMAIN s
  <2> HIDE DEF hits
  <2> QED
    BY <1>1, <1>2, <1>3
<1>5. PickVariant(s, roll) = s[place]
  BY DEF PickVariant
<1> HIDE DEF place
<1> QED
  BY <1>4, <1>5 DEF ToSet

-----------------------------------------------------------------------------
(* The parts of a step *)

\* The breaker's scripts leave circuits.
LEMMA ScriptsTyped ==
    ASSUME NEW c \in Circuits
    PROVE  AttemptScript(c) \subseteq Circuits /\ SuccessScript(c) \in Circuits /\ FailureScript(c) \in Circuits
<1>0. FailureThreshold \in Nat
  BY RoutingAssumption DEF RoutingAssumption
<1>1. Closed \in Circuits /\ Tripped \in Circuits
  BY <1>0 DEF Circuits, Closed, Tripped
<1>2. [c EXCEPT !.state = "half_open", !.cooled = FALSE] \in Circuits
  BY DEF Circuits
<1>3. [c EXCEPT !.failures = c.failures + 1] \in Circuits
  <2>1. c.failures + 1 \in Nat
    BY DEF Circuits
  <2> QED
    BY <2>1 DEF Circuits
<1>4. AttemptScript(c) \subseteq {c, Closed, [c EXCEPT !.state = "half_open", !.cooled = FALSE]}
  BY Zenon DEF AttemptScript
<1>5. FailureScript(c) \in {Tripped, [c EXCEPT !.failures = c.failures + 1]}
  BY DEF FailureScript
<1> QED
  BY <1>1, <1>2, <1>3, <1>4, <1>5 DEF SuccessScript

\* A written circuit keeps the circuits typed.
LEMMA WriteTyped ==
    ASSUME circuit \in [Providers -> Circuits], NEW p \in Providers, NEW c \in Circuits, WriteCircuit(p, c)
    PROVE  circuit' \in [Providers -> Circuits]
BY DEF WriteCircuit

\* A recorded sample keeps the windows typed.
LEMMA SampleTyped ==
    ASSUME stats \in [Providers -> Seq(Samples)], NEW p \in Providers, NEW ok \in BOOLEAN, AddSample(p, ok)
    PROVE  stats' \in [Providers -> Seq(Samples)]
<1>1. PICK lat \in Latencies :
          LET window == Append(stats[p], [lat |-> lat, ok |-> ok])
          IN  stats' = [stats EXCEPT ![p] = IF Len(window) > MaxSamples THEN Tail(window) ELSE window]
  BY DEF AddSample
<1> DEFINE x == [lat |-> lat, ok |-> ok]
           window == Append(stats[p], x)
<1>2. x \in Samples
  BY DEF Samples
<1>3. stats' = [stats EXCEPT ![p] = IF Len(window) > MaxSamples THEN Tail(window) ELSE window]
  BY <1>1
<1> HIDE DEF x
<1>4. stats[p] \in Seq(Samples)
  OBVIOUS
<1>5. window \in Seq(Samples) /\ window # <<>>
  BY <1>2, <1>4
<1> HIDE DEF window
<1>6. Tail(window) \in Seq(Samples)
  BY <1>5
<1> QED
  BY <1>3, <1>5, <1>6

\* From the first attempt on the request has a provider.
LEMMA ProviderTyped ==
    ASSUME RoutingTyped, CallInv, req.pc \notin {"idle", "peek", "done"}
    PROVE  Provider \in Providers
BY RoutingAssumption DEF CallInv, Provider, Models, RoutingAssumption

\* The members of the pass are models, and there is one at every place of it.
LEMMA PassTyped ==
    ASSUME NEW ab
    PROVE  /\ PassOf(ab) \in Seq(Models) /\ Len(PassOf(ab)) \in Nat
           /\ DOMAIN PassOf(ab) = 1..Len(PassOf(ab))
           /\ \A k \in DOMAIN PassOf(ab) : PassOf(ab)[k] \in Models /\ Rules[PassOf(ab)[k]] \in Providers
<1>1. AbModels \in Seq(Models) /\ Candidates \in Seq(Models) /\ Rules \in [Models -> Providers]
  BY AbModelsTyped, RoutingAssumption DEF RoutingAssumption
<1>2. PassOf(ab) \in Seq(Models)
  BY <1>1 DEF PassOf
<1> QED
  BY <1>1, <1>2

\* What the catch of withRetry makes of a request, and what Attempt forgets.
LEMMA CatchTyped ==
    ASSUME NEW r \in RequestRecord
    PROVE  /\ CatchThrown(r) \in RequestRecord /\ ForgetRoute(r) \in RequestRecord
           /\ \/ CatchThrown(r) = [r EXCEPT !.threw = TRUE, !.pc = "record_failure"]
              \/ CatchThrown(r) = [r EXCEPT !.threw = TRUE, !.pc = "backoff"]
<1>1. "record_failure" \in Places /\ "backoff" \in Places
  BY DEF Places
<1>2. \/ CatchThrown(r) = [r EXCEPT !.threw = TRUE, !.pc = "record_failure"]
      \/ CatchThrown(r) = [r EXCEPT !.threw = TRUE, !.pc = "backoff"]
  BY Zenon DEF CatchThrown
<1>3. CatchThrown(r) \in RequestRecord
  BY <1>1, <1>2 DEF RequestRecord
<1>4. ForgetRoute(r) \in RequestRecord
  BY DEF ForgetRoute, RequestRecord
<1> QED
  BY <1>2, <1>3, <1>4

\* A request whose model is decided.
LEMMA RouteTyped ==
    ASSUME NEW r \in RequestRecord, NEW m \in Models
    PROVE  /\ RouteTo(r, m) \in RequestRecord
           /\ RouteTo(r, m).pc = "attempt" /\ RouteTo(r, m).n = 1 /\ RouteTo(r, m).model = m
           /\ RouteTo(r, m).asked = r.asked /\ RouteTo(r, m).low = r.low /\ RouteTo(r, m).ab = r.ab
           /\ RouteTo(r, m).sampled = r.sampled /\ RouteTo(r, m).result = r.result
<1>1. <<>> \in Seq(Models) /\ m \in Models \cup {"none"} /\ 0 \in Nat /\ 1 \in Nat
  OBVIOUS
<1>2. "attempt" \in Places
  BY DEF Places
<1> QED
  BY <1>1, <1>2 DEF RequestRecord, RouteTo

-----------------------------------------------------------------------------
(* The steps of the request *)

\* What a step that neither routes nor refuses the request leaves to show.
LEMMA OffPeek ==
    ASSUME RoutingTyped', CallInv', SampleInv', SamplesHonest',
           req'.pc # "peek", req'.result # "all_down"
    PROVE  RoutingInv'
BY Zenon DEF RoutingInv, PeekInv, UnavailableMeansOutage

LEMMA AttemptStep ==
    ASSUME RoutingInv, Attempt
    PROVE  RoutingInv'
<1> USE DEF RoutingInv
<1>1. req.pc = "attempt" /\ req \in RequestRecord /\ req.model \in Models /\ req.n >= 1
  BY DEF Attempt, CallInv, RoutingTyped
<1>2. req.sampled = {} /\ req.result = "none"
  BY <1>1 DEF SampleInv
<1>3. PICK place \in {"calling", "refused"} : req' = [ForgetRoute(req) EXCEPT !.pc = place]
  BY DEF Attempt
<1>4. req' \in RequestRecord
  <2>1. place \in Places
    BY DEF Places
  <2>2. ForgetRoute(req) \in RequestRecord
    BY <1>1, CatchTyped
  <2> HIDE DEF RoutingInv
  <2> QED
    BY <1>3, <2>1, <2>2 DEF RequestRecord
<1>5. /\ req'.pc = place /\ req'.model = req.model /\ req'.n = req.n
      /\ req'.sampled = {} /\ req'.result = "none"
  <2> HIDE DEF RoutingInv
  <2> QED
    BY <1>1, <1>2, <1>3 DEF RequestRecord, ForgetRoute
<1>6. Provider \in Providers
  BY <1>1, ProviderTyped
<1>7. PICK after \in AttemptScript(circuit[Provider]) : WriteCircuit(Provider, after)
  BY DEF Attempt
<1>8. circuit' \in [Providers -> Circuits]
  <2>1. circuit[Provider] \in Circuits
    BY <1>6 DEF RoutingTyped
  <2>2. after \in Circuits
    BY <1>7, <2>1, ScriptsTyped
  <2> QED
    BY <1>6, <1>7, <2>2, WriteTyped DEF RoutingTyped
<1>9. RoutingTyped'
  BY <1>4, <1>8 DEF Attempt, RoutingTyped
<1>10. CallInv' /\ SampleInv' /\ SamplesHonest'
  BY <1>1, <1>5 DEF CallInv, SampleInv, SamplesHonest
<1> HIDE DEF RoutingInv
<1> QED
  BY <1>5, <1>9, <1>10, OffPeek

LEMMA AttemptLostStep ==
    ASSUME RoutingInv, AttemptLost
    PROVE  RoutingInv'
<1> USE DEF RoutingInv
<1>1. req.pc = "attempt" /\ req \in RequestRecord /\ req.model \in Models /\ req.n >= 1
  BY DEF AttemptLost, CallInv, RoutingTyped
<1>2. req.sampled = {} /\ req.result = "none"
  BY <1>1 DEF SampleInv
<1> DEFINE r == ForgetRoute(req)
<1>3. r \in RequestRecord /\ r.model = req.model /\ r.n = req.n /\ r.sampled = {} /\ r.result = "none"
  <2>1. r \in RequestRecord
    BY <1>1, CatchTyped
  <2> HIDE DEF RoutingInv
  <2> QED
    BY <1>1, <1>2, <2>1 DEF RequestRecord, ForgetRoute
<1>4. req' = CatchThrown(r)
  BY DEF AttemptLost
<1> HIDE DEF r
<1>5. req' \in RequestRecord
  BY <1>3, <1>4, CatchTyped
<1>6. /\ req'.pc \in {"record_failure", "backoff"} /\ req'.model = req.model /\ req'.n = req.n
      /\ req'.sampled = {} /\ req'.result = "none" /\ req'.threw
  <2>1. \/ req' = [r EXCEPT !.threw = TRUE, !.pc = "record_failure"]
        \/ req' = [r EXCEPT !.threw = TRUE, !.pc = "backoff"]
    BY <1>3, <1>4, CatchTyped, Zenon
  <2> HIDE DEF RoutingInv
  <2> QED
    BY <1>3, <2>1 DEF RequestRecord
<1>7. Provider \in Providers
  BY <1>1, ProviderTyped
<1>8. PICK after \in AttemptScript(circuit[Provider]) \cup {circuit[Provider]} : WriteCircuit(Provider, after)
  BY DEF AttemptLost
<1>9. circuit' \in [Providers -> Circuits]
  <2>1. circuit[Provider] \in Circuits
    BY <1>7 DEF RoutingTyped
  <2>2. after \in Circuits
    BY <1>8, <2>1, ScriptsTyped
  <2> QED
    BY <1>7, <1>8, <2>2, WriteTyped DEF RoutingTyped
<1>10. RoutingTyped'
  BY <1>5, <1>9 DEF AttemptLost, RoutingTyped
<1>11. CallInv' /\ SampleInv' /\ SamplesHonest'
  BY <1>1, <1>6 DEF CallInv, SampleInv, SamplesHonest
<1> HIDE DEF RoutingInv
<1> QED
  BY <1>6, <1>10, <1>11, OffPeek

LEMMA AnsweredStep ==
    ASSUME RoutingInv, Answered \/ AnsweredLost
    PROVE  RoutingInv'
<1> USE DEF RoutingInv
<1>1. req.pc = "calling" /\ req \in RequestRecord /\ req.model \in Models /\ req.n >= 1
  BY DEF Answered, AnsweredLost, CallInv, RoutingTyped
<1>2. req.sampled = {} /\ req.result = "none"
  BY <1>1 DEF SampleInv
<1>3. PICK place \in {"record_success", "catch"} : req' = [req EXCEPT !.pc = place, !.answered = TRUE]
  BY DEF Answered, AnsweredLost
<1>4. req' \in RequestRecord
  <2>1. place \in Places
    BY DEF Places
  <2> HIDE DEF RoutingInv
  <2> QED
    BY <1>1, <1>3, <2>1 DEF RequestRecord
<1>5. /\ req'.pc = place /\ req'.model = req.model /\ req'.n = req.n
      /\ req'.sampled = {} /\ req'.result = "none" /\ req'.answered
  <2> HIDE DEF RoutingInv
  <2> QED
    BY <1>1, <1>2, <1>3 DEF RequestRecord
<1>6. Provider \in Providers
  BY <1>1, ProviderTyped
<1>7. PICK after \in {circuit[Provider], SuccessScript(circuit[Provider])} : WriteCircuit(Provider, after)
  BY DEF Answered, AnsweredLost
<1>8. circuit' \in [Providers -> Circuits]
  <2>1. circuit[Provider] \in Circuits
    BY <1>6 DEF RoutingTyped
  <2>2. after \in Circuits
    BY <1>7, <2>1, ScriptsTyped
  <2> QED
    BY <1>6, <1>7, <2>2, WriteTyped DEF RoutingTyped
<1>9. RoutingTyped'
  BY <1>4, <1>8 DEF Answered, AnsweredLost, RoutingTyped
<1>10. CallInv' /\ SampleInv' /\ SamplesHonest'
  BY <1>1, <1>5 DEF CallInv, SampleInv, SamplesHonest
<1> HIDE DEF RoutingInv
<1> QED
  BY <1>5, <1>9, <1>10, OffPeek

LEMMA CallFailsStep ==
    ASSUME RoutingInv, CallFails
    PROVE  RoutingInv'
<1> USE DEF RoutingInv
<1>1. req.pc \in {"calling", "catch"} /\ req \in RequestRecord /\ req.model \in Models /\ req.n >= 1
  BY DEF CallFails, CallInv, RoutingTyped
<1>2. req.sampled = {} /\ req.result = "none"
  BY <1>1 DEF SampleInv
<1>3. req' = CatchThrown(req)
  BY DEF CallFails
<1>4. req' \in RequestRecord
  BY <1>1, <1>3, CatchTyped
<1>5. /\ req'.pc \in {"record_failure", "backoff"} /\ req'.model = req.model /\ req'.n = req.n
      /\ req'.sampled = {} /\ req'.result = "none" /\ req'.threw
  <2>1. \/ req' = [req EXCEPT !.threw = TRUE, !.pc = "record_failure"]
        \/ req' = [req EXCEPT !.threw = TRUE, !.pc = "backoff"]
    BY <1>1, <1>3, CatchTyped, Zenon
  <2> HIDE DEF RoutingInv
  <2> QED
    BY <1>1, <1>2, <2>1 DEF RequestRecord
<1>6. Provider \in Providers
  BY <1>1, ProviderTyped
<1>7. PICK after \in {circuit[Provider], FailureScript(circuit[Provider])} : WriteCircuit(Provider, after)
  BY DEF CallFails
<1>8. circuit' \in [Providers -> Circuits]
  <2>1. circuit[Provider] \in Circuits
    BY <1>6 DEF RoutingTyped
  <2>2. after \in Circuits
    BY <1>7, <2>1, ScriptsTyped
  <2> QED
    BY <1>6, <1>7, <2>2, WriteTyped DEF RoutingTyped
<1>9. RoutingTyped'
  BY <1>4, <1>8 DEF CallFails, RoutingTyped
<1>10. CallInv' /\ SampleInv' /\ SamplesHonest'
  BY <1>1, <1>5 DEF CallInv, SampleInv, SamplesHonest
<1> HIDE DEF RoutingInv
<1> QED
  BY <1>5, <1>9, <1>10, OffPeek

LEMMA RetryStep ==
    ASSUME RoutingInv, Retry
    PROVE  RoutingInv'
<1> USE DEF RoutingInv
<1>1. req.pc = "backoff" /\ req \in RequestRecord /\ req.model \in Models /\ req.n >= 1
  BY DEF Retry, CallInv, RoutingTyped
<1>2. req.sampled = {} /\ req.result = "none"
  BY <1>1 DEF SampleInv
<1>3. req.n \in Nat
  BY <1>1 DEF RequestRecord
<1>4. req' = [req EXCEPT !.pc = "attempt", !.n = req.n + 1]
  BY DEF Retry
<1>5. req' \in RequestRecord
  <2>1. req.n + 1 \in Nat
    BY <1>3
  <2>2. "attempt" \in Places
    BY DEF Places
  <2> HIDE DEF RoutingInv
  <2> QED
    BY <1>1, <1>4, <2>1, <2>2 DEF RequestRecord
<1>6. /\ req'.pc = "attempt" /\ req'.model = req.model /\ req'.n = req.n + 1
      /\ req'.sampled = {} /\ req'.result = "none"
  <2> HIDE DEF RoutingInv
  <2> QED
    BY <1>1, <1>2, <1>4 DEF RequestRecord
<1>7. RoutingTyped'
  BY <1>5 DEF Retry, RoutingTyped
<1>8. CallInv' /\ SampleInv' /\ SamplesHonest'
  BY <1>1, <1>3, <1>6 DEF CallInv, SampleInv, SamplesHonest
<1> HIDE DEF RoutingInv
<1> QED
  BY <1>6, <1>7, <1>8, OffPeek

LEMMA RefuseStep ==
    ASSUME RoutingInv, Refuse
    PROVE  RoutingInv'
<1> USE DEF RoutingInv
<1>1. req.pc = "refused" /\ req \in RequestRecord /\ req.sampled = {}
  BY DEF Refuse, SampleInv, RoutingTyped
<1>2. req' = [req EXCEPT !.pc = "done", !.result = "unavailable"]
  BY DEF Refuse
<1>3. req' \in RequestRecord /\ req'.pc = "done" /\ req'.sampled = {} /\ req'.result = "unavailable"
  <2>1. "done" \in Places
    BY DEF Places
  <2> HIDE DEF RoutingInv
  <2> QED
    BY <1>1, <1>2, <2>1 DEF RequestRecord
<1>4. RoutingTyped'
  BY <1>3 DEF Refuse, RoutingTyped
<1>5. CallInv' /\ SampleInv' /\ SamplesHonest'
  BY <1>3 DEF CallInv, SampleInv, SamplesHonest
<1> HIDE DEF RoutingInv
<1> QED
  BY <1>3, <1>4, <1>5, OffPeek

LEMMA RecordSuccessStep ==
    ASSUME RoutingInv, RecordSuccess
    PROVE  RoutingInv'
<1> USE DEF RoutingInv
<1>1. req.pc = "record_success" /\ req \in RequestRecord /\ req.model \in Models /\ req.n >= 1
  BY DEF RecordSuccess, CallInv, RoutingTyped
<1>2. req.sampled = {} /\ req.result = "none" /\ req.answered
  BY <1>1 DEF SampleInv
<1>3. \/ req' = [req EXCEPT !.pc = "done", !.sampled = {TRUE}, !.result = "ok"]
      \/ req' = [req EXCEPT !.pc = "record_failure", !.sampled = {TRUE}]
      \/ req' = [req EXCEPT !.pc = "record_failure"]
  BY DEF RecordSuccess
<1>4. req' \in RequestRecord
  <2>1. "done" \in Places /\ "record_failure" \in Places /\ {TRUE} \in SUBSET BOOLEAN
    BY DEF Places
  <2> HIDE DEF RoutingInv
  <2> QED
    BY <1>1, <1>3, <2>1 DEF RequestRecord
<1>5. /\ req'.model = req.model /\ req'.n = req.n /\ req'.answered
      /\ \/ req'.pc = "done" /\ req'.sampled = {TRUE} /\ req'.result = "ok"
         \/ req'.pc = "record_failure" /\ req'.sampled = {TRUE} /\ req'.result = "none"
         \/ req'.pc = "record_failure" /\ req'.sampled = {} /\ req'.result = "none"
  <2> HIDE DEF RoutingInv
  <2> QED
    BY <1>1, <1>2, <1>3 DEF RequestRecord
<1>6. stats' \in [Providers -> Seq(Samples)]
  <2>1. Provider \in Providers
    BY <1>1, ProviderTyped
  <2>2. AddSample(Provider, TRUE) \/ stats' = stats
    BY DEF RecordSuccess
  <2> QED
    BY <2>1, <2>2, SampleTyped DEF RoutingTyped
<1>7. RoutingTyped'
  BY <1>4, <1>6 DEF RecordSuccess, RoutingTyped
<1>8. CallInv'
  BY <1>1, <1>5 DEF CallInv
<1>9. SampleInv' /\ SamplesHonest'
  BY <1>5 DEF SampleInv, SamplesHonest
<1> HIDE DEF RoutingInv
<1> QED
  BY <1>5, <1>7, <1>8, <1>9, OffPeek

LEMMA RecordFailureStep ==
    ASSUME RoutingInv, RecordFailure
    PROVE  RoutingInv'
<1> USE DEF RoutingInv
<1>1. req.pc = "record_failure" /\ req \in RequestRecord
  BY DEF RecordFailure, RoutingTyped
<1>2. (req.threw \/ req.answered) /\ (TRUE \in req.sampled => req.answered)
  BY <1>1 DEF SampleInv, SamplesHonest
<1>3. \/ req' = [req EXCEPT !.pc = "done", !.sampled = req.sampled \cup {FALSE}, !.result = "error"]
      \/ req' = [req EXCEPT !.pc = "done", !.result = "error"]
  BY DEF RecordFailure
<1>4. req' \in RequestRecord
  <2>1. "done" \in Places
    BY DEF Places
  <2>2. req.sampled \cup {FALSE} \in SUBSET BOOLEAN
    BY <1>1 DEF RequestRecord
  <2> HIDE DEF RoutingInv
  <2> QED
    BY <1>1, <1>3, <2>1, <2>2 DEF RequestRecord
<1>5. /\ req'.pc = "done" /\ req'.result = "error" /\ req'.threw = req.threw /\ req'.answered = req.answered
      /\ req'.sampled = req.sampled \cup {FALSE} \/ req'.sampled = req.sampled
  <2> HIDE DEF RoutingInv
  <2> QED
    BY <1>1, <1>3 DEF RequestRecord
<1>6. stats' \in [Providers -> Seq(Samples)]
  <2>1. Provider \in Providers
    BY <1>1, ProviderTyped
  <2>2. AddSample(Provider, FALSE) \/ stats' = stats
    BY DEF RecordFailure
  <2> QED
    BY <2>1, <2>2, SampleTyped DEF RoutingTyped
<1>7. RoutingTyped'
  BY <1>4, <1>6 DEF RecordFailure, RoutingTyped
<1>8. CallInv' /\ SampleInv'
  BY <1>5 DEF CallInv, SampleInv
<1>9. SamplesHonest'
  BY <1>2, <1>5 DEF SamplesHonest
<1> HIDE DEF RoutingInv
<1> QED
  BY <1>5, <1>7, <1>8, <1>9, OffPeek

\* The request that is not there.
LEMMA IdleFields ==
    /\ Idle \in RequestRecord /\ Idle.pc = "idle" /\ Idle.asked = "auto" /\ Idle.low = FALSE
    /\ Idle.ab = "none" /\ Idle.i = 0 /\ Idle.avail = <<>> /\ Idle.model = "none"
    /\ Idle.sampled = {} /\ Idle.result = "none"
BY DEF Idle, RequestRecord, Places

LEMMA LeaveStep ==
    ASSUME RoutingInv, Leave
    PROVE  RoutingInv'
<1>1. req' = Idle
  BY DEF Leave
<1>2. req' \in RequestRecord /\ req'.pc = "idle" /\ req'.sampled = {} /\ req'.result = "none"
  BY <1>1, IdleFields
<1>3. RoutingTyped'
  BY <1>2 DEF Leave, RoutingTyped, RoutingInv
<1>4. CallInv' /\ SampleInv' /\ SamplesHonest'
  BY <1>2 DEF CallInv, SampleInv, SamplesHonest
<1> QED
  BY <1>2, <1>3, <1>4, OffPeek

-----------------------------------------------------------------------------
(* The steps that route *)

\* A routed request may be peeking or on its way to an attempt.
LEMMA RoutedStep ==
    ASSUME RoutingInv, NEW r \in RequestRecord, NEW m \in Models, req' = RouteTo(r, m),
           r.sampled = {}, r.result = "none", UNCHANGED <<circuit, stats>>, wasOpen' \subseteq Providers
    PROVE  RoutingInv'
<1>1. /\ req' \in RequestRecord /\ req'.pc = "attempt" /\ req'.n = 1 /\ req'.model = m
      /\ req'.sampled = {} /\ req'.result = "none"
  BY RouteTyped, Zenon
<1>2. RoutingTyped'
  BY <1>1 DEF RoutingTyped, RoutingInv
<1>3. CallInv' /\ SampleInv' /\ SamplesHonest'
  BY <1>1 DEF CallInv, SampleInv, SamplesHonest
<1> QED
  BY <1>1, <1>2, <1>3, OffPeek

LEMMA BeginStep ==
    ASSUME RoutingInv, Begin
    PROVE  RoutingInv'
<1>1. PICK asked \in Models \cup {"auto"}, near \in BOOLEAN :
          \/ /\ EffectiveModel(asked, near) # "auto"
             /\ req' = RouteTo([Idle EXCEPT !.asked = asked, !.low = near], EffectiveModel(asked, near))
             /\ UNCHANGED wasOpen
          \/ /\ EffectiveModel(asked, near) = "auto"
             /\ \E ab \in {"none", "trying"} :
                   req' = [[Idle EXCEPT !.asked = asked, !.low = near]
                              EXCEPT !.pc = "peek", !.i = 1, !.ab = ab]
             /\ wasOpen' = OpenIn(circuit)
  BY DEF Begin
<1>2. UNCHANGED <<circuit, stats>>
  BY DEF Begin
<1> DEFINE rec == [Idle EXCEPT !.asked = asked, !.low = near]
<1>3. /\ rec \in RequestRecord /\ rec.asked = asked /\ rec.low = near
      /\ rec.sampled = {} /\ rec.result = "none" /\ rec.avail = <<>> /\ rec.model = "none"
  BY IdleFields DEF RequestRecord
<1>4. BudgetModel \in Models /\ "auto" \notin Models
  BY RoutingAssumption DEF RoutingAssumption
<1>5. CASE EffectiveModel(asked, near) # "auto"
  <2>1. req' = RouteTo(rec, EffectiveModel(asked, near)) /\ wasOpen' = wasOpen
    BY <1>1, <1>5
  <2>2. EffectiveModel(asked, near) \in Models
    BY <1>4, <1>5 DEF EffectiveModel
  <2>3. wasOpen' \subseteq Providers
    BY <2>1 DEF RoutingInv, RoutingTyped
  <2> HIDE DEF rec
  <2> QED
    BY <1>2, <1>3, <2>1, <2>2, <2>3, RoutedStep
<1>6. CASE EffectiveModel(asked, near) = "auto"
  <2>1. asked = "auto" /\ near = FALSE
    BY <1>4, <1>6 DEF EffectiveModel
  <2>2. PICK ab \in {"none", "trying"} : req' = [rec EXCEPT !.pc = "peek", !.i = 1, !.ab = ab]
    BY <1>1, <1>6
  <2>3. wasOpen' = OpenIn(circuit)
    BY <1>1, <1>6
  <2> HIDE DEF rec
  <2>4. /\ req' \in RequestRecord /\ req'.pc = "peek" /\ req'.i = 1 /\ req'.ab = ab
        /\ req'.asked = "auto" /\ req'.low = FALSE /\ req'.avail = <<>> /\ req'.model = "none"
        /\ req'.sampled = {} /\ req'.result = "none"
    <3>1. "peek" \in Places
      BY DEF Places
    <3> QED
      BY <1>3, <2>1, <2>2, <3>1 DEF RequestRecord
  <2>5. RoutingTyped'
    BY <1>2, <2>3, <2>4 DEF RoutingInv, RoutingTyped, OpenIn
  <2>6. PeekInv'
    <3>1. ToSet(req'.avail) = {}
      BY <2>4 DEF ToSet
    <3>2. \A k \in DOMAIN PassOf(req'.ab) : ~(k < req'.i)
      BY <2>4, PassTyped
    <3>3. OpenIn(circuit') \subseteq wasOpen'
      BY <1>2, <2>3, Zenon
    <3>4. req'.i >= 1 /\ req'.ab # "left"
      BY <2>4
    <3> QED
      BY <2>4, <3>1, <3>2, <3>3, <3>4, Zenon DEF PeekInv
  <2>7. CallInv' /\ SampleInv' /\ SamplesHonest' /\ UnavailableMeansOutage'
    BY <2>4 DEF CallInv, SampleInv, SamplesHonest, UnavailableMeansOutage
  <2> QED
    BY <2>5, <2>6, <2>7 DEF RoutingInv
<1> QED
  BY <1>5, <1>6

\* Before the request is routed.
LEMMA PeekFields ==
    ASSUME RoutingInv, req.pc = "peek"
    PROVE  /\ req \in RequestRecord /\ req.i \in Nat /\ req.i >= 1 /\ req.avail \in Seq(Models)
           /\ req.asked = "auto" /\ req.low = FALSE /\ req.model = "none"
           /\ req.sampled = {} /\ req.result = "none"
<1>1. req \in RequestRecord
  BY DEF RoutingInv, RoutingTyped
<1>2. req.i \in Nat /\ req.avail \in Seq(Models) /\ req.low \in BOOLEAN
  BY <1>1 DEF RequestRecord
<1> QED
  BY <1>1, <1>2 DEF RoutingInv, PeekInv, SampleInv

LEMMA PeekStep ==
    ASSUME RoutingInv, Peek
    PROVE  RoutingInv'
<1> DEFINE m == Pass[req.i]
           more == IF MayRoute(circuit[Rules[m]]) THEN Append(req.avail, m) ELSE req.avail
<1>1. req.pc = "peek" /\ req.i <= Len(Pass) /\ UNCHANGED <<circuit, stats, wasOpen>>
  BY DEF Peek
<1>2. /\ req \in RequestRecord /\ req.i \in Nat /\ req.i >= 1 /\ req.avail \in Seq(Models)
      /\ req.asked = "auto" /\ req.low = FALSE /\ req.model = "none"
      /\ req.sampled = {} /\ req.result = "none"
  BY <1>1, PeekFields
<1>3. Pass = PassOf(req.ab)
  BY DEF Pass, PassOf
<1>4. req.i \in DOMAIN Pass /\ m \in Models /\ Rules[m] \in Providers
  BY <1>1, <1>2, <1>3, PassTyped
<1>5. req' = [req EXCEPT !.i = req.i + 1, !.avail = more]
  BY DEF Peek
<1>6. /\ more \in Seq(Models)
      /\ ToSet(req.avail) \subseteq ToSet(more) /\ ToSet(more) \subseteq ToSet(req.avail) \cup {m}
      /\ MayRoute(circuit[Rules[m]]) => m \in ToSet(more)
  <2>1. CASE MayRoute(circuit[Rules[m]])
    <3>1. more = Append(req.avail, m)
      BY <2>1
    <3> HIDE DEF m, more
    <3>2. /\ more \in Seq(Models) /\ Len(more) = Len(req.avail) + 1 /\ Len(req.avail) \in Nat
          /\ more[Len(req.avail) + 1] = m
          /\ \A k \in 1..Len(req.avail) : more[k] = req.avail[k]
          /\ DOMAIN more = 1..(Len(req.avail) + 1) /\ DOMAIN req.avail = 1..Len(req.avail)
      BY <1>2, <1>4, <3>1
    <3> QED
      BY <3>2 DEF ToSet
  <2>2. CASE ~MayRoute(circuit[Rules[m]])
    BY <1>2, <2>2
  <2> QED
    BY <2>1, <2>2
<1> HIDE DEF more
<1>7. /\ req' \in RequestRecord /\ req'.pc = "peek" /\ req'.i = req.i + 1 /\ req'.ab = req.ab
      /\ req'.asked = "auto" /\ req'.low = FALSE /\ req'.avail = more /\ req'.model = "none"
      /\ req'.sampled = {} /\ req'.result = "none"
  <2>1. req.i + 1 \in Nat
    BY <1>2
  <2> QED
    BY <1>1, <1>2, <1>5, <1>6, <2>1 DEF RequestRecord
<1>8. RoutingTyped'
  BY <1>1, <1>7 DEF RoutingInv, RoutingTyped
<1>9. PeekInv'
  <2>1. m \in ToSet(more) \/ Rules[m] \in wasOpen
    <3>1. CASE circuit[Rules[m]].state = "open"
      BY <1>1, <1>4, <3>1 DEF RoutingInv, PeekInv, OpenIn
    <3>2. CASE circuit[Rules[m]].state # "open"
      BY <1>6, <3>2 DEF MayRoute
    <3> QED
      BY <3>1, <3>2
  <2>2. m \in ToSet(PassOf(req.ab)) /\ m = PassOf(req.ab)[req.i]
    BY <1>3, <1>4 DEF ToSet
  <2> HIDE DEF m
  <2>3. /\ ToSet(req.avail) \subseteq ToSet(PassOf(req.ab))
        /\ \A k \in DOMAIN PassOf(req.ab) :
              k < req.i => PassOf(req.ab)[k] \in ToSet(req.avail) \/ Rules[PassOf(req.ab)[k]] \in wasOpen
        /\ req.ab = "left" => \A v \in ToSet(AbModels) : Rules[v] \in wasOpen
        /\ OpenIn(circuit) \subseteq wasOpen
    BY <1>1 DEF RoutingInv, PeekInv
  <2>4. \A k \in DOMAIN PassOf(req.ab) : k < req.i + 1 => k < req.i \/ k = req.i
    BY <1>2, PassTyped
  <2>5. \A k \in DOMAIN PassOf(req.ab) :
           k < req.i + 1 => PassOf(req.ab)[k] \in ToSet(more) \/ Rules[PassOf(req.ab)[k]] \in wasOpen
    BY <1>6, <2>1, <2>2, <2>3, <2>4, Zenon
  <2>6. ToSet(more) \subseteq ToSet(PassOf(req.ab))
    BY <1>6, <2>2, <2>3, Zenon
  <2>7. req.i + 1 >= 1
    BY <1>2
  <2>8. OpenIn(circuit') = OpenIn(circuit) /\ wasOpen' = wasOpen
    BY <1>1, Zenon
  <2> QED
    BY <1>7, <2>3, <2>5, <2>6, <2>7, <2>8, Zenon DEF PeekInv
<1>10. CallInv' /\ SampleInv' /\ SamplesHonest' /\ UnavailableMeansOutage'
  BY <1>7 DEF CallInv, SampleInv, SamplesHonest, UnavailableMeansOutage
<1> QED
  BY <1>8, <1>9, <1>10 DEF RoutingInv

LEMMA SelectAbStep ==
    ASSUME RoutingInv, SelectAbVariant
    PROVE  RoutingInv'
<1>1. req.pc = "peek" /\ req.ab = "trying" /\ req.i > Len(AbModels) /\ UNCHANGED <<circuit, stats, wasOpen>>
  BY DEF SelectAbVariant
<1>2. /\ req \in RequestRecord /\ req.i \in Nat /\ req.i >= 1 /\ req.avail \in Seq(Models)
      /\ req.asked = "auto" /\ req.low = FALSE /\ req.model = "none"
      /\ req.sampled = {} /\ req.result = "none"
  BY <1>1, PeekFields
<1>3. PassOf(req.ab) = AbModels
  BY <1>1 DEF PassOf
<1>4. CASE req.avail = <<>>
  <2>1. req' = [req EXCEPT !.ab = "left", !.i = 1]
    BY <1>4 DEF SelectAbVariant
  <2>2. /\ req' \in RequestRecord /\ req'.pc = "peek" /\ req'.i = 1 /\ req'.ab = "left"
        /\ req'.asked = "auto" /\ req'.low = FALSE /\ req'.avail = <<>> /\ req'.model = "none"
        /\ req'.sampled = {} /\ req'.result = "none"
    BY <1>1, <1>2, <1>4, <2>1 DEF RequestRecord
  <2>3. RoutingTyped'
    BY <1>1, <2>2 DEF RoutingInv, RoutingTyped
  <2>4. PeekInv'
    <3>1. ToSet(req'.avail) = {} /\ ToSet(req.avail) = {}
      BY <1>4, <2>2 DEF ToSet
    <3>2. \A k \in DOMAIN PassOf(req'.ab) : ~(k < req'.i)
      BY <2>2, PassTyped
    <3>3. \A v \in ToSet(AbModels) : Rules[v] \in wasOpen
      <4>1. \A k \in DOMAIN AbModels : k < req.i
        BY <1>1, <1>2, <1>3, PassTyped
      <4>2. \A k \in DOMAIN AbModels : Rules[AbModels[k]] \in wasOpen
        BY <1>1, <1>3, <3>1, <4>1 DEF RoutingInv, PeekInv
      <4> QED
        BY <4>2 DEF ToSet
    <3>4. OpenIn(circuit') \subseteq wasOpen' /\ wasOpen' = wasOpen
      BY <1>1 DEF RoutingInv, PeekInv
    <3>5. req'.i >= 1
      BY <2>2
    <3> QED
      BY <2>2, <3>1, <3>2, <3>3, <3>4, <3>5, Zenon DEF PeekInv
  <2>5. CallInv' /\ SampleInv' /\ SamplesHonest' /\ UnavailableMeansOutage'
    BY <2>2 DEF CallInv, SampleInv, SamplesHonest, UnavailableMeansOutage
  <2> QED
    BY <2>3, <2>4, <2>5 DEF RoutingInv
<1>5. CASE req.avail # <<>>
  <2>1. PICK roll : req' = RouteTo(req, PickVariant(req.avail, roll))
    BY <1>5 DEF SelectAbVariant
  <2>2. PickVariant(req.avail, roll) \in Models
    <3>1. PickVariant(req.avail, roll) \in ToSet(req.avail)
      BY <1>2, <1>5, PickMember
    <3> QED
      BY <1>2, <3>1 DEF ToSet
  <2>3. wasOpen' \subseteq Providers
    BY <1>1 DEF RoutingInv, RoutingTyped
  <2> QED
    BY <1>1, <1>2, <2>1, <2>2, <2>3, RoutedStep
<1> QED
  BY <1>4, <1>5

LEMMA SelectScoredStep ==
    ASSUME RoutingInv, SelectScored
    PROVE  RoutingInv'
<1>1. /\ req.pc = "peek" /\ req.ab # "trying" /\ req.i > Len(Candidates)
      /\ UNCHANGED <<circuit, stats, wasOpen>>
  BY DEF SelectScored
<1>2. /\ req \in RequestRecord /\ req.i \in Nat /\ req.i >= 1 /\ req.avail \in Seq(Models)
      /\ req.asked = "auto" /\ req.low = FALSE /\ req.model = "none"
      /\ req.sampled = {} /\ req.result = "none"
  BY <1>1, PeekFields
<1>3. PassOf(req.ab) = Candidates
  BY <1>1 DEF PassOf
<1>4. CASE req.avail = <<>>
  <2>1. req' = [req EXCEPT !.pc = "done", !.i = 0, !.result = "all_down"]
    BY <1>4 DEF SelectScored
  <2>2. /\ req' \in RequestRecord /\ req'.pc = "done" /\ req'.sampled = {} /\ req'.result = "all_down"
    <3>1. "done" \in Places
      BY DEF Places
    <3> QED
      BY <1>1, <1>2, <2>1, <3>1 DEF RequestRecord
  <2>3. RoutingTyped'
    BY <1>1, <2>2 DEF RoutingInv, RoutingTyped
  <2>4. UnavailableMeansOutage'
    <3>1. ToSet(req.avail) = {}
      BY <1>4 DEF ToSet
    <3>2. \A k \in DOMAIN Candidates : k < req.i
      BY <1>1, <1>2, <1>3, PassTyped
    <3>3. \A k \in DOMAIN Candidates : Rules[Candidates[k]] \in wasOpen
      BY <1>1, <1>3, <3>1, <3>2 DEF RoutingInv, PeekInv
    <3>4. \A m \in ToSet(Candidates) : Rules[m] \in wasOpen'
      BY <1>1, <3>3 DEF ToSet
    <3> QED
      BY <3>4 DEF UnavailableMeansOutage
  <2>5. PeekInv' /\ CallInv' /\ SampleInv' /\ SamplesHonest'
    BY <2>2 DEF PeekInv, CallInv, SampleInv, SamplesHonest
  <2> QED
    BY <2>3, <2>4, <2>5 DEF RoutingInv
<1>5. CASE req.avail # <<>>
  <2>1. PICK preset \in DOMAIN Presets :
            req' = RouteTo(req, Best(req.avail, Presets[preset]))
    BY <1>5 DEF SelectScored
  <2> DEFINE best == Best(req.avail, Presets[preset])
  <2>2. best \in Models
    <3>1. stats \in [Providers -> Seq(Samples)]
      BY DEF RoutingInv, RoutingTyped
    <3>2. PICK k \in DOMAIN req.avail : best = req.avail[k]
      BY <1>2, <1>5, <3>1, BestChoice, Zenon
    <3> HIDE DEF best
    <3> QED
      BY <1>2, <3>2
  <2>3. wasOpen' \subseteq Providers
    BY <1>1 DEF RoutingInv, RoutingTyped
  <2>4. req \in RequestRecord /\ req.sampled = {} /\ req.result = "none"
    BY <1>2 DEF RequestRecord
  <2>5. req' = RouteTo(req, best)
    BY <2>1
  <2> HIDE DEF best
  <2> QED
    BY <1>1, <2>2, <2>3, <2>4, <2>5, RoutedStep
<1> QED
  BY <1>4, <1>5

-----------------------------------------------------------------------------
(* The steps of others *)

\* A circuit is written by someone else, or time changes it.
LEMMA OthersWrite ==
    ASSUME RoutingInv, circuit' \in [Providers -> Circuits], Watch, UNCHANGED <<stats, req>>
    PROVE  RoutingInv'
<1>1. wasOpen \subseteq wasOpen' /\ wasOpen' \subseteq Providers
  BY DEF Watch, OpenIn, RoutingInv, RoutingTyped
<1>2. RoutingTyped'
  BY <1>1 DEF RoutingInv, RoutingTyped
<1>3. PeekInv'
  <2> SUFFICES ASSUME req.pc = "peek" PROVE PeekInv'
    BY DEF PeekInv
  <2>1. OpenIn(circuit') \subseteq wasOpen'
    BY DEF Watch
  <2> QED
    BY <1>1, <2>1, Zenon DEF PeekInv, RoutingInv
<1>4. UnavailableMeansOutage'
  BY <1>1, Zenon DEF RoutingInv, UnavailableMeansOutage
<1>5. CallInv' /\ SampleInv' /\ SamplesHonest'
  BY Zenon DEF RoutingInv, CallInv, SampleInv, SamplesHonest
<1> QED
  BY <1>2, <1>3, <1>4, <1>5 DEF RoutingInv

\* A window of samples changes, and nothing else does.
LEMMA OthersSample ==
    ASSUME RoutingInv, stats' \in [Providers -> Seq(Samples)], UNCHANGED <<circuit, req, wasOpen>>
    PROVE  RoutingInv'
<1>1. RoutingTyped'
  BY DEF RoutingInv, RoutingTyped
<1>2. PeekInv' /\ UnavailableMeansOutage' /\ CallInv' /\ SampleInv' /\ SamplesHonest'
  BY Zenon DEF RoutingInv, PeekInv, UnavailableMeansOutage, CallInv, SampleInv, SamplesHonest
<1> QED
  BY <1>1, <1>2 DEF RoutingInv

LEMMA OthersStep ==
    ASSUME RoutingInv, NEW p \in Providers,
           OtherCall(p) \/ OtherSample(p) \/ Cool(p) \/ Expire(p) \/ AgeOut(p)
    PROVE  RoutingInv'
<1>0. /\ circuit \in [Providers -> Circuits] /\ circuit[p] \in Circuits
      /\ stats \in [Providers -> Seq(Samples)] /\ stats[p] \in Seq(Samples)
  BY DEF RoutingInv, RoutingTyped
<1>1. CASE OtherCall(p)
  <2>1. PICK after \in AttemptScript(circuit[p])
                       \cup {SuccessScript(circuit[p]), FailureScript(circuit[p])} : WriteCircuit(p, after)
    BY <1>1 DEF OtherCall
  <2>2. after \in Circuits
    BY <1>0, <2>1, ScriptsTyped
  <2>3. circuit' \in [Providers -> Circuits]
    BY <1>0, <2>1, <2>2, WriteTyped
  <2> QED
    BY <1>1, <2>3, OthersWrite DEF OtherCall
<1>2. CASE OtherSample(p)
  <2>1. stats' \in [Providers -> Seq(Samples)]
    BY <1>0, <1>2, SampleTyped DEF OtherSample
  <2> QED
    BY <1>2, <2>1, OthersSample DEF OtherSample
<1>3. CASE Cool(p)
  <2>1. [circuit[p] EXCEPT !.cooled = TRUE] \in Circuits
    BY <1>0 DEF Circuits
  <2>2. WriteCircuit(p, [circuit[p] EXCEPT !.cooled = TRUE])
    BY <1>3 DEF Cool
  <2>3. circuit' \in [Providers -> Circuits]
    BY <1>0, <2>1, <2>2, WriteTyped
  <2> QED
    BY <1>3, <2>3, OthersWrite DEF Cool
<1>4. CASE Expire(p)
  <2>1. Closed \in Circuits
    BY DEF Circuits, Closed
  <2>2. circuit' \in [Providers -> Circuits]
    BY <1>0, <1>4, <2>1, WriteTyped DEF Expire
  <2> QED
    BY <1>4, <2>2, OthersWrite DEF Expire
<1>5. CASE AgeOut(p)
  <2>1. Tail(stats[p]) \in Seq(Samples)
    BY <1>0, <1>5 DEF AgeOut
  <2>2. stats' \in [Providers -> Seq(Samples)]
    BY <1>0, <1>5, <2>1 DEF AgeOut
  <2> QED
    BY <1>5, <2>2, OthersSample DEF AgeOut
<1> QED
  BY <1>1, <1>2, <1>3, <1>4, <1>5

-----------------------------------------------------------------------------
(* The theorems *)

LEMMA RoutingStarts ==
    ASSUME RoutingInit
    PROVE  RoutingInv
<1>1. req \in RequestRecord /\ req.pc = "idle" /\ req.sampled = {} /\ req.result = "none"
  BY IdleFields DEF RoutingInit
<1>2. Closed \in Circuits
  BY DEF Circuits, Closed
<1>3. RoutingTyped
  BY <1>1, <1>2 DEF RoutingInit, RoutingTyped
<1> QED
  BY <1>1, <1>3 DEF RoutingInv, PeekInv, CallInv, SampleInv, SamplesHonest, UnavailableMeansOutage

LEMMA RoutingStep ==
    ASSUME RoutingInv, [RoutingNext]_routingVars
    PROVE  RoutingInv'
<1>1. CASE UNCHANGED routingVars
  <2>1. UNCHANGED <<circuit, stats, req, wasOpen>>
    BY <1>1 DEF routingVars
  <2>2. stats' \in [Providers -> Seq(Samples)]
    BY <2>1 DEF RoutingInv, RoutingTyped
  <2> QED
    BY <2>1, <2>2, OthersSample
<1>2. CASE Begin \/ Leave
  BY <1>2, BeginStep, LeaveStep
<1>3. CASE Peek \/ SelectAbVariant \/ SelectScored
  BY <1>3, PeekStep, SelectAbStep, SelectScoredStep
<1>4. CASE Attempt \/ AttemptLost \/ Answered \/ AnsweredLost \/ CallFails
  BY <1>4, AttemptStep, AttemptLostStep, AnsweredStep, CallFailsStep
<1>5. CASE Retry \/ RecordSuccess \/ RecordFailure \/ Refuse
  BY <1>5, RetryStep, RecordSuccessStep, RecordFailureStep, RefuseStep
<1>6. CASE \E p \in Providers : OtherCall(p) \/ OtherSample(p) \/ Cool(p) \/ Expire(p) \/ AgeOut(p)
  BY <1>6, OthersStep
<1> QED
  BY <1>1, <1>2, <1>3, <1>4, <1>5, <1>6, Zenon DEF RoutingNext, Serve

\* The invariant of routing: the request, the circuits and the statistics have their
\* types, every candidate that resolveOpenCandidates has looked at may be routed to
\* or was open, and a sample is recorded where its outcome is known.
THEOREM RoutingInvariant == RoutingSpec => []RoutingInv
<1>1. RoutingInit => RoutingInv
  BY RoutingStarts
<1>2. RoutingInv /\ [RoutingNext]_routingVars => RoutingInv'
  BY RoutingStep
<1> QED
  BY <1>1, <1>2, PTL DEF RoutingSpec

\* AllProvidersUnavailableError is an outage: every candidate's circuit was open
\* while resolveModelWithFallback was looking for a provider.
THEOREM RoutingOutage == RoutingSpec => []UnavailableMeansOutage
<1>1. RoutingInv => UnavailableMeansOutage
  BY DEF RoutingInv
<1> QED
  BY <1>1, RoutingInvariant, PTL

\* The samples that callProviderResilientWithStats records are honest across
\* retries, lost replies and failed recordings.
THEOREM RoutingSamples == RoutingSpec => []SamplesHonest
<1>1. RoutingInv => SamplesHonest
  BY DEF RoutingInv
<1> QED
  BY <1>1, RoutingInvariant, PTL

\* A choice that was made by score is one of the candidates, and an A/B split was not
\* left for it while a variant could be routed to.
LEMMA ScoredAsAsked ==
    ASSUME RoutingInv, SelectScored
    PROVE  RoutedAsAsked'
<1>1. /\ req.pc = "peek" /\ req.ab # "trying" /\ req.i > Len(Candidates)
      /\ UNCHANGED <<circuit, stats, wasOpen>>
  BY DEF SelectScored
<1>2. /\ req \in RequestRecord /\ req.i \in Nat /\ req.i >= 1 /\ req.avail \in Seq(Models)
      /\ req.asked = "auto" /\ req.low = FALSE /\ req.model = "none"
      /\ req.sampled = {} /\ req.result = "none"
  BY <1>1, PeekFields
<1>3. CASE req.avail = <<>>
  <2>1. req' = [req EXCEPT !.pc = "done", !.i = 0, !.result = "all_down"]
    BY <1>3 DEF SelectScored
  <2>2. req'.pc = "done"
    BY <1>2, <2>1 DEF RequestRecord
  <2> QED
    BY <2>2 DEF RoutedAsAsked
<1>4. CASE req.avail # <<>>
  <2>0. stats \in [Providers -> Seq(Samples)]
    BY DEF RoutingInv, RoutingTyped
  <2>1. PICK preset \in DOMAIN Presets :
            req' = RouteTo(req, Best(req.avail, Presets[preset]))
    BY <1>4 DEF SelectScored
  <2> DEFINE best == Best(req.avail, Presets[preset])
  <2>2. PICK k \in DOMAIN req.avail : best = req.avail[k]
    BY <1>2, <1>4, <2>0, BestChoice, Zenon
  <2>3. req \in RequestRecord /\ req.asked = "auto" /\ req.low = FALSE
    BY <1>2 DEF RequestRecord
  <2>4. req' = RouteTo(req, best)
    BY <2>1
  <2> HIDE DEF best
  <2>5. best \in Models /\ best \in ToSet(req.avail)
    BY <1>2, <2>2 DEF ToSet
  <2>6. req'.asked = "auto" /\ req'.low = FALSE /\ req'.ab = req.ab /\ req'.model = best
    BY <2>3, <2>4, <2>5, RouteTyped
  <2>7. req'.model \in ToSet(Candidates)
    BY <1>1, <2>5, <2>6 DEF RoutingInv, PeekInv, PassOf
  <2>8. req'.ab = "left" => \A m \in ToSet(AbModels) : Rules[m] \in wasOpen'
    BY <1>1, <2>6 DEF RoutingInv, PeekInv
  <2>9. req'.asked = "auto" /\ ~req'.low /\ req'.ab # "trying"
    BY <1>1, <2>6
  <2> QED
    BY <2>7, <2>8, <2>9, Zenon DEF RoutedAsAsked
<1> QED
  BY <1>3, <1>4

LEMMA BeginAsAsked ==
    ASSUME RoutingInv, Begin
    PROVE  RoutedAsAsked'
<1>1. PICK asked \in Models \cup {"auto"}, near \in BOOLEAN :
          \/ /\ EffectiveModel(asked, near) # "auto"
             /\ req' = RouteTo([Idle EXCEPT !.asked = asked, !.low = near], EffectiveModel(asked, near))
          \/ \E ab \in {"none", "trying"} :
                req' = [[Idle EXCEPT !.asked = asked, !.low = near]
                           EXCEPT !.pc = "peek", !.i = 1, !.ab = ab]
  BY DEF Begin
<1> DEFINE rec == [Idle EXCEPT !.asked = asked, !.low = near]
<1>2. rec \in RequestRecord /\ rec.asked = asked /\ rec.low = near
  BY IdleFields DEF RequestRecord
<1>3. BudgetModel \in Models /\ "auto" \notin Models
  BY RoutingAssumption DEF RoutingAssumption
<1> HIDE DEF rec
<1>4. CASE \E ab \in {"none", "trying"} : req' = [rec EXCEPT !.pc = "peek", !.i = 1, !.ab = ab]
  <2>1. req'.pc = "peek"
    BY <1>2, <1>4 DEF RequestRecord
  <2> QED
    BY <2>1 DEF RoutedAsAsked
<1>5. CASE EffectiveModel(asked, near) # "auto" /\ req' = RouteTo(rec, EffectiveModel(asked, near))
  <2>1. EffectiveModel(asked, near) \in Models
    BY <1>3, <1>5 DEF EffectiveModel
  <2>2. req'.asked = asked /\ req'.low = near /\ req'.model = EffectiveModel(asked, near)
    BY <1>2, <1>5, <2>1, RouteTyped
  <2>3. CASE asked # "auto"
    <3>1. req'.asked # "auto" /\ req'.model = req'.asked
      BY <2>2, <2>3 DEF EffectiveModel
    <3> QED
      BY <3>1, Zenon DEF RoutedAsAsked
  <2>4. CASE asked = "auto"
    <3>1. req'.asked = "auto" /\ req'.low /\ req'.model = BudgetModel
      BY <1>5, <2>2, <2>4 DEF EffectiveModel
    <3> QED
      BY <3>1, Zenon DEF RoutedAsAsked
  <2> QED
    BY <2>3, <2>4
<1> QED
  BY <1>1, <1>4, <1>5 DEF rec

LEMMA SplitAsAsked ==
    ASSUME RoutingInv, SelectAbVariant
    PROVE  RoutedAsAsked'
<1>1. req.pc = "peek" /\ req.ab = "trying"
  BY DEF SelectAbVariant
<1>2. /\ req \in RequestRecord /\ req.avail \in Seq(Models) /\ req.asked = "auto" /\ req.low = FALSE
  BY <1>1, PeekFields
<1>3. CASE req.avail = <<>>
  <2>1. req' = [req EXCEPT !.ab = "left", !.i = 1]
    BY <1>3 DEF SelectAbVariant
  <2>2. req'.pc = "peek"
    BY <1>1, <1>2, <2>1 DEF RequestRecord
  <2> QED
    BY <2>2 DEF RoutedAsAsked
<1>4. CASE req.avail # <<>>
  <2>1. PICK roll : req' = RouteTo(req, PickVariant(req.avail, roll))
    BY <1>4 DEF SelectAbVariant
  <2>2. PickVariant(req.avail, roll) \in ToSet(req.avail)
    BY <1>2, <1>4, PickMember
  <2>3. PickVariant(req.avail, roll) \in Models
    BY <1>2, <2>2 DEF ToSet
  <2>4. /\ req'.asked = "auto" /\ req'.low = FALSE /\ req'.ab = "trying"
        /\ req'.model = PickVariant(req.avail, roll)
    BY <1>1, <1>2, <2>1, <2>3, RouteTyped
  <2>5. req'.model \in ToSet(AbModels)
    BY <1>1, <2>2, <2>4 DEF RoutingInv, PeekInv, PassOf
  <2>6. req'.asked = "auto" /\ ~req'.low /\ req'.ab = "trying"
    BY <2>4
  <2> QED
    BY <2>5, <2>6, Zenon DEF RoutedAsAsked
<1> QED
  BY <1>3, <1>4

\* The steps after which no first attempt is due, or the same one as before.
LEMMA OtherAsAsked ==
    ASSUME RoutingInv, RoutedAsAsked, [RoutingNext]_routingVars,
           ~Begin, ~SelectAbVariant, ~SelectScored
    PROVE  RoutedAsAsked'
<1>0. req \in RequestRecord /\ req.n \in Nat
  BY DEF RoutingInv, RoutingTyped, RequestRecord
<1>1. CASE req' = req /\ (wasOpen' = wasOpen \/ req.pc = "peek")
  BY <1>1, Zenon DEF RoutedAsAsked
<1>2. ASSUME UNCHANGED routingVars PROVE req' = req /\ wasOpen' = wasOpen
  BY <1>2 DEF routingVars
<1>3. ASSUME NEW p \in Providers,
             OtherCall(p) \/ OtherSample(p) \/ Cool(p) \/ Expire(p) \/ AgeOut(p)
      PROVE  req' = req /\ (wasOpen' = wasOpen \/ req.pc = "peek")
  BY <1>3 DEF OtherCall, OtherSample, Cool, Expire, AgeOut, Watch
<1>4. CASE req'.pc # "attempt"
  BY <1>4, Zenon DEF RoutedAsAsked
<1>5. ASSUME Leave PROVE req'.pc # "attempt"
  BY <1>5, IdleFields DEF Leave
<1>6. ASSUME Peek PROVE req'.pc # "attempt"
  <2>1. PICK i, more : req' = [req EXCEPT !.i = i, !.avail = more]
    BY <1>6 DEF Peek
  <2> QED
    BY <1>0, <1>6, <2>1 DEF RequestRecord, Peek
<1>7. ASSUME Attempt PROVE req'.pc # "attempt"
  <2>1. PICK place \in {"calling", "refused"} : req' = [ForgetRoute(req) EXCEPT !.pc = place]
    BY <1>7 DEF Attempt
  <2>2. ForgetRoute(req) \in RequestRecord
    BY <1>0, CatchTyped
  <2> QED
    BY <2>1, <2>2 DEF RequestRecord
<1>8. ASSUME AttemptLost \/ CallFails PROVE req'.pc # "attempt"
  <2>1. PICK r \in RequestRecord : req' = CatchThrown(r)
    BY <1>0, <1>8, CatchTyped DEF AttemptLost, CallFails
  <2>2. \/ req' = [r EXCEPT !.threw = TRUE, !.pc = "record_failure"]
        \/ req' = [r EXCEPT !.threw = TRUE, !.pc = "backoff"]
    BY <2>1, CatchTyped, Zenon
  <2> QED
    BY <2>2 DEF RequestRecord
<1>9. ASSUME Answered \/ AnsweredLost \/ RecordSuccess \/ RecordFailure \/ Refuse PROVE req'.pc # "attempt"
  BY <1>0, <1>9 DEF Answered, AnsweredLost, RecordSuccess, RecordFailure, Refuse, RequestRecord
<1>10. CASE Retry
  <2>1. req.n >= 1
    BY <1>10 DEF RoutingInv, CallInv, Retry
  <2>2. req'.n = req.n + 1
    BY <1>0, <1>10 DEF Retry, RequestRecord
  <2>3. req'.n # 1
    BY <1>0, <2>1, <2>2
  <2> QED
    BY <2>3, Zenon DEF RoutedAsAsked
<1> QED
  BY <1>1, <1>2, <1>3, <1>4, <1>5, <1>6, <1>7, <1>8, <1>9, <1>10, Zenon DEF RoutingNext, Serve

\* A request goes where it asked to go, whatever the circuits do while
\* resolveModelWithFallback looks at them: an explicit model is never swapped, the
\* budget's model is taken only for "auto", and an A/B split is left only when each of
\* its variants was open.
THEOREM RoutingAsAsked == RoutingSpec => []RoutedAsAsked
<1>1. RoutingInit => RoutedAsAsked
  <2>1. RoutingInit => req.pc = "idle"
    BY IdleFields DEF RoutingInit
  <2> QED
    BY <2>1, Zenon DEF RoutedAsAsked
<1>2. RoutingInv /\ RoutedAsAsked /\ [RoutingNext]_routingVars => RoutedAsAsked'
  BY BeginAsAsked, SplitAsAsked, ScoredAsAsked, OtherAsAsked, Zenon
<1> QED
  BY <1>1, <1>2, RoutingInvariant, PTL DEF RoutingSpec
=============================================================================
