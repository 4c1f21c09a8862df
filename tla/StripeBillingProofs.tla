------------------------- MODULE StripeBillingProofs ------------------------
(***************************************************************************)
(* An event of Stripe is applied to the invoice at most once, and an       *)
(* invoice whose events come in order has the status of the newest, for    *)
(* any events, concurrent handlers and faults.                             *)
(***************************************************************************)
EXTENDS StripeBilling, TLAPS

Labels == {"idle", "verify", "insert", "org", "upsert", "answer"}

\* A handler that has recorded its event and not applied it yet.
AtWork(h) == pc[h] \in {"org", "upsert"}

Typed ==
    /\ linked \in BOOLEAN /\ inOrder \in BOOLEAN
    /\ unanswered \subseteq Events /\ answered \subseteq Events
    /\ seen \subseteq Events /\ missed \subseteq Events
    /\ invoice \in Events /\ newest \in Events
    /\ pc \in [Handlers -> Labels] /\ ev \in [Handlers -> Events]
    /\ applied \in [Events -> Nat]
    /\ faults \in Nat

\* The row of stripe_events is a licence to apply the event once: it is given to
\* one handler, and used up when that handler has applied the event or ended.
LicenceInv ==
    /\ \A e \in Events : e \notin seen => applied[e] = 0
    /\ \A h \in Handlers : AtWork(h) => ev[h] \in seen /\ applied[ev[h]] = 0
    /\ \A g, h \in Handlers : AtWork(g) /\ AtWork(h) /\ ev[g] = ev[h] => g = h

\* What is recorded, or in a handler's hands, has been sent by Stripe; a 200 is
\* sent only for what is recorded.
SentInv ==
    /\ seen \subseteq unanswered \cup answered
    /\ answered \subseteq seen
    /\ \A h \in Handlers :
          /\ pc[h] # "idle" => ev[h] \in unanswered \cup answered
          /\ pc[h] = "upsert" => ev[h] # Other
          /\ pc[h] = "answer" => ev[h] \in seen

\* While Stripe keeps the order, nothing but the newest event can still reach the
\* invoice, and a recorded one has reached it, is about to, or has been missed.
OrderInv ==
    inOrder =>
        /\ unanswered \subseteq {newest, Other}
        /\ \A h \in Handlers : pc[h] # "idle" => ev[h] \in {newest, Other}
        /\ newest \in seen \ missed =>
              invoice = newest \/ \E h \in Handlers : AtWork(h) /\ ev[h] = newest

StripeInv == Typed /\ LicenceInv /\ AppliedOnce /\ SentInv /\ OrderInv

-----------------------------------------------------------------------------

USE DEF dbVars, histVars, orderVars

\* Nothing has been sent at the start.
LEMMA StripeStart == Init => StripeInv
<1> SUFFICES ASSUME Init PROVE StripeInv
  OBVIOUS
<1>1. Typed
  BY DEF Init, Typed, Events, Labels
<1>2. LicenceInv /\ AppliedOnce
  BY DEF Init, LicenceInv, AppliedOnce, AtWork, Events
<1>3. SentInv
  BY DEF Init, SentInv
<1>4. OrderInv
  BY DEF Init, OrderInv
<1> QED
  BY <1>1, <1>2, <1>3, <1>4 DEF StripeInv

\* The link to the customer is read only when a handler looks for it.
LEMMA LinkCustomerKeeps == ASSUME StripeInv, LinkCustomer PROVE StripeInv'
<1>1. Typed'
  BY DEF LinkCustomer, StripeInv, Typed, Events, Labels
<1>2. LicenceInv' /\ AppliedOnce'
  BY DEF LinkCustomer, StripeInv, Typed, LicenceInv, AppliedOnce, AtWork
<1>3. SentInv'
  BY DEF LinkCustomer, StripeInv, Typed, SentInv, LicenceInv, AtWork
<1>4. OrderInv'
  BY DEF LinkCustomer, StripeInv, Typed, SentInv, OrderInv, AtWork
<1> QED
  BY <1>1, <1>2, <1>3, <1>4 DEF StripeInv

\* A new event is not recorded, and in order only when nothing is under way.
LEMMA EmitKeeps == ASSUME StripeInv, NEW e \in Events, Emit(e) PROVE StripeInv'
<1>1. Typed'
  BY DEF Emit, StripeInv, Typed, Events, Labels
<1>2. LicenceInv' /\ AppliedOnce'
  BY DEF Emit, StripeInv, Typed, LicenceInv, AppliedOnce, AtWork
<1>3. SentInv'
  BY DEF Emit, StripeInv, Typed, SentInv, LicenceInv, AtWork
<1>4. OrderInv'
  BY DEF Emit, StripeInv, Typed, SentInv, OrderInv, AtWork
<1> QED
  BY <1>1, <1>2, <1>3, <1>4 DEF StripeInv

\* A delivery hands a sent event to an idle handler.
LEMMA DeliverKeeps ==
    ASSUME StripeInv, NEW h \in Handlers, NEW e \in Events, Deliver(h, e)
    PROVE  StripeInv'
<1>1. Typed'
  BY DEF Deliver, StripeInv, Typed, Events, Labels
<1>2. LicenceInv' /\ AppliedOnce'
  BY DEF Deliver, StripeInv, Typed, LicenceInv, AppliedOnce, AtWork
<1>3. SentInv'
  BY DEF Deliver, StripeInv, Typed, SentInv, LicenceInv, AtWork
<1>4. OrderInv'
  BY DEF Deliver, StripeInv, Typed, SentInv, OrderInv, AtWork
<1> QED
  BY <1>1, <1>2, <1>3, <1>4 DEF StripeInv

\* A verified event is still the one that was sent.
LEMMA VerifyKeeps == ASSUME StripeInv, NEW h \in Handlers, Verify(h) PROVE StripeInv'
<1>1. Typed'
  BY DEF Verify, StripeInv, Typed, Events, Labels
<1>2. LicenceInv' /\ AppliedOnce'
  BY DEF Verify, StripeInv, Typed, LicenceInv, AppliedOnce, AtWork
<1>3. SentInv'
  BY DEF Verify, StripeInv, Typed, SentInv, LicenceInv, AtWork
<1>4. OrderInv'
  BY DEF Verify, StripeInv, Typed, SentInv, OrderInv, AtWork
<1> QED
  BY <1>1, <1>2, <1>3, <1>4 DEF StripeInv

\* A refused delivery has recorded nothing.
LEMMA RefuseKeeps == ASSUME StripeInv, NEW h \in Handlers, Refuse(h) PROVE StripeInv'
<1>1. Typed'
  BY DEF Refuse, NoAnswer, StripeInv, Typed, Events, Labels
<1>2. LicenceInv' /\ AppliedOnce'
  BY DEF Refuse, NoAnswer, StripeInv, Typed, LicenceInv, AppliedOnce, AtWork
<1>3. SentInv'
  BY DEF Refuse, NoAnswer, StripeInv, Typed, SentInv, LicenceInv, AtWork
<1>4. OrderInv'
  BY DEF Refuse, NoAnswer, StripeInv, Typed, SentInv, OrderInv, AtWork
<1> QED
  BY <1>1, <1>2, <1>3, <1>4 DEF StripeInv

\* The unique key: only the handler that adds the row goes on to apply the event.
LEMMA InsertEventKeeps == ASSUME StripeInv, NEW h \in Handlers, InsertEvent(h) PROVE StripeInv'
<1>1. Typed'
  BY DEF InsertEvent, Answer, StripeInv, Typed, Events, Labels
<1>2. LicenceInv' /\ AppliedOnce'
  BY DEF InsertEvent, Answer, StripeInv, Typed, LicenceInv, AppliedOnce, AtWork
<1>3. SentInv'
  BY DEF InsertEvent, Answer, StripeInv, Typed, SentInv, LicenceInv, AtWork
<1>4. OrderInv'
  BY DEF InsertEvent, Answer, StripeInv, Typed, SentInv, OrderInv, AtWork
<1> QED
  BY <1>1, <1>2, <1>3, <1>4 DEF StripeInv

\* An event that changes no invoice is counted as missed.
LEMMA FindOrgKeeps == ASSUME StripeInv, NEW h \in Handlers, FindOrg(h) PROVE StripeInv'
<1>1. Typed'
  BY DEF FindOrg, Answer, StripeInv, Typed, Events, Labels
<1>2. LicenceInv' /\ AppliedOnce'
  BY DEF FindOrg, Answer, StripeInv, Typed, LicenceInv, AppliedOnce, AtWork
<1>3. SentInv'
  BY DEF FindOrg, Answer, StripeInv, Typed, SentInv, LicenceInv, AtWork
<1>4. OrderInv'
  BY DEF FindOrg, Answer, StripeInv, Typed, SentInv, OrderInv, AtWork
<1> QED
  BY <1>1, <1>2, <1>3, <1>4 DEF StripeInv

\* The licence is used: the event is applied for the first time, and in order it is the
\* newest.
LEMMA UpsertKeeps == ASSUME StripeInv, NEW h \in Handlers, Upsert(h) PROVE StripeInv'
<1>1. Typed'
  BY DEF Upsert, StripeInv, Typed, Events, Labels
<1>2. LicenceInv' /\ AppliedOnce'
  BY DEF Upsert, StripeInv, Typed, LicenceInv, AppliedOnce, AtWork
<1>3. SentInv'
  BY DEF Upsert, StripeInv, Typed, SentInv, LicenceInv, AtWork
<1>4. OrderInv'
  BY DEF Upsert, StripeInv, Typed, SentInv, OrderInv, AtWork
<1> QED
  BY <1>1, <1>2, <1>3, <1>4 DEF StripeInv

\* A 200 is for a recorded event.
LEMMA ReplyKeeps == ASSUME StripeInv, NEW h \in Handlers, Reply(h) PROVE StripeInv'
<1>1. Typed'
  BY DEF Reply, Answer, StripeInv, Typed, Events, Labels
<1>2. LicenceInv' /\ AppliedOnce'
  BY DEF Reply, Answer, StripeInv, Typed, LicenceInv, AppliedOnce, AtWork
<1>3. SentInv'
  BY DEF Reply, Answer, StripeInv, Typed, SentInv, LicenceInv, AtWork
<1>4. OrderInv'
  BY DEF Reply, Answer, StripeInv, Typed, SentInv, OrderInv, AtWork
<1> QED
  BY <1>1, <1>2, <1>3, <1>4 DEF StripeInv

\* A handler cut off takes its licence with it; the event is missed.
LEMMA HandlerFailsKeeps ==
    ASSUME StripeInv, NEW h \in Handlers, HandlerFails(h)
    PROVE  StripeInv'
<1>1. Typed'
  BY DEF HandlerFails, NoAnswer, StripeInv, Typed, Events, Labels
<1>2. LicenceInv' /\ AppliedOnce'
  BY DEF HandlerFails, NoAnswer, StripeInv, Typed, LicenceInv, AppliedOnce, AtWork
<1>3. SentInv'
  BY DEF HandlerFails, NoAnswer, StripeInv, Typed, SentInv, LicenceInv, AtWork
<1>4. OrderInv'
  BY DEF HandlerFails, NoAnswer, StripeInv, Typed, SentInv, OrderInv, AtWork
<1> QED
  BY <1>1, <1>2, <1>3, <1>4 DEF StripeInv

\* Every step of Stripe and of the handlers keeps the invariant.
LEMMA StripeStep == ASSUME StripeInv, [Next]_vars PROVE StripeInv'
<1>1. CASE UNCHANGED vars
  BY <1>1 DEF vars, StripeInv, Typed, LicenceInv, AppliedOnce,
     SentInv, OrderInv, AtWork
<1>2. CASE LinkCustomer
  BY <1>2, LinkCustomerKeeps
<1>3. ASSUME NEW e \in Events, Emit(e) PROVE StripeInv'
  BY <1>3, EmitKeeps
<1>4. ASSUME NEW h \in Handlers, NEW e \in Events, Deliver(h, e) PROVE StripeInv'
  BY <1>4, DeliverKeeps
<1>5. ASSUME NEW h \in Handlers, Handle(h) PROVE StripeInv'
  BY <1>5, VerifyKeeps, InsertEventKeeps, FindOrgKeeps, UpsertKeeps, ReplyKeeps DEF Handle
<1>6. ASSUME NEW h \in Handlers, Refuse(h) \/ HandlerFails(h) PROVE StripeInv'
  BY <1>6, RefuseKeeps, HandlerFailsKeeps
<1> QED
  BY <1>1, <1>2, <1>3, <1>4, <1>5, <1>6 DEF Next

\* In every reachable state each recorded event has one licence, and in order only
\* the newest event can still reach the invoice.
THEOREM StripeInvariant == Spec => []StripeInv
<1>1. StripeInv /\ [Next]_vars => StripeInv'
  BY StripeStep
<1> QED
  BY StripeStart, <1>1, PTL DEF Spec

\* processStripeWebhookEvent applies an event to the invoice at most once, however
\* often Stripe repeats it, however many handlers have it, and wherever they fail.
THEOREM StripeAppliedOnce == Spec => []AppliedOnce
<1>1. StripeInv => AppliedOnce
  BY DEF StripeInv
<1> QED
  BY StripeInvariant, <1>1, PTL

\* An invoice whose events are created one after the other has the newest one's
\* status once that one is answered and applied, repeats and failures included.
THEOREM StripeInvoiceCurrent == Spec => []InvoiceCurrent
<1>1. StripeInv => InvoiceCurrent
  BY DEF StripeInv, SentInv, OrderInv, InvoiceCurrent, AtWork
<1> QED
  BY StripeInvariant, <1>1, PTL
=============================================================================
