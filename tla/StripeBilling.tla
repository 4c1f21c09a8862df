--------------------------- MODULE StripeBilling ----------------------------
(***************************************************************************)
(* The API's Stripe webhook: verifyWebhookSignature and                    *)
(* processStripeWebhookEvent, which records the event in stripe_events and *)
(* then applies it to the invoice.  Stripe repeats an event until it is    *)
(* answered 200, may send it twice at once, and may send events out of     *)
(* order.  One invoice of one customer.                                    *)
(***************************************************************************)
EXTENDS Naturals

CONSTANTS
    InvoiceEvents,  \* events of the types in EVENT_STATUS
    Other,          \* an event of another type
    Handlers,       \* concurrent runs of the route
    MaxFaults       \* bound on crashes, refusals and lost answers

ASSUME StripeAssumption == MaxFaults \in Nat /\ Other \notin InvoiceEvents

VARIABLES
    linked,     \* the organization has the invoice's stripeCustomerId
    unanswered, \* events Stripe has sent and not had a 200 for
    answered,   \* events Stripe has had a 200 for
    seen,       \* stripe_events rows
    invoice,    \* the event whose status and amount the invoices row has; Other if none
    pc, ev,     \* where each handler is, and with which event
    applied,    \* history: how often each event was applied to the invoice
    newest,     \* history: the invoice event Stripe created last; Other if none
    inOrder,    \* history: it created each one when it was done with those before
    missed,     \* history: events of another type or customer, and events whose
                \* handler ended early after its INSERT
    faults

dbVars == <<seen, invoice>>
orderVars == <<newest, inOrder>>
histVars == <<orderVars, applied, missed>>
vars == <<linked, unanswered, answered, dbVars, pc, ev, histVars, faults>>

Events == InvoiceEvents \cup {Other}

Init ==
    /\ linked = FALSE
    /\ unanswered = {} /\ answered = {}
    /\ seen = {} /\ invoice = Other
    /\ pc = [h \in Handlers |-> "idle"] /\ ev = [h \in Handlers |-> Other]
    /\ applied = [e \in Events |-> 0] /\ missed = {}
    /\ newest = Other /\ inOrder = TRUE
    /\ faults = 0

\* stripe_customer_id is set (by hand: no code of the repository does it).
LinkCustomer ==
    /\ ~linked /\ linked' = TRUE
    /\ UNCHANGED <<unanswered, answered, dbVars, pc, ev, histVars, faults>>

\* Stripe creates an event.
Emit(e) ==
    /\ e \notin unanswered \cup answered
    /\ unanswered' = unanswered \cup {e}
    /\ newest' = IF e = Other THEN newest ELSE e
    /\ inOrder' = (inOrder /\ unanswered = {} /\ \A h \in Handlers : pc[h] = "idle")
    /\ UNCHANGED <<linked, answered, dbVars, pc, ev, applied, missed, faults>>

-----------------------------------------------------------------------------

\* The handler ends with a 200 for its event ...
Answer(h) ==
    /\ pc' = [pc EXCEPT ![h] = "idle"] /\ ev' = [ev EXCEPT ![h] = Other]
    /\ unanswered' = unanswered \ {ev[h]}
    /\ answered' = answered \cup {ev[h]}

\* ... or without one: Stripe will send the event again.
NoAnswer(h) ==
    /\ faults < MaxFaults /\ faults' = faults + 1
    /\ pc' = [pc EXCEPT ![h] = "idle"] /\ ev' = [ev EXCEPT ![h] = Other]
    /\ UNCHANGED <<unanswered, answered>>

\* Stripe sends an event, perhaps once more, freshly signed.
Deliver(h, e) ==
    /\ pc[h] = "idle" /\ e \in unanswered
    /\ pc' = [pc EXCEPT ![h] = "verify"] /\ ev' = [ev EXCEPT ![h] = e]
    /\ UNCHANGED <<linked, unanswered, answered, dbVars, histVars, faults>>

\* verifyWebhookSignature, and the route's rate limit before it.
Verify(h) ==
    /\ pc[h] = "verify"
    /\ pc' = [pc EXCEPT ![h] = "insert"]
    /\ UNCHANGED <<linked, unanswered, answered, dbVars, ev, histVars, faults>>

\* Too late a delivery, a secret that is being changed, or a 429.
Refuse(h) ==
    /\ pc[h] = "verify"
    /\ NoAnswer(h)
    /\ UNCHANGED <<linked, dbVars, histVars>>

\* Mutant: the event is looked up and never recorded.
InsertEventLax(h) ==
    /\ pc[h] = "insert"
    /\ IF ev[h] \in seen
         THEN Answer(h) /\ UNCHANGED seen
         ELSE /\ pc' = [pc EXCEPT ![h] = "org"]
              /\ UNCHANGED <<seen, unanswered, answered, ev>>
    /\ UNCHANGED <<linked, invoice, histVars, faults>>

\* Mutant: the error of the unique key is thrown on, and answered 500.
InsertEventThrows(h) ==
    /\ pc[h] = "insert"
    /\ IF ev[h] \in seen
         THEN /\ pc' = [pc EXCEPT ![h] = "idle"] /\ ev' = [ev EXCEPT ![h] = Other]
              /\ UNCHANGED <<seen, unanswered, answered>>
         ELSE /\ seen' = seen \cup {ev[h]}
              /\ pc' = [pc EXCEPT ![h] = "org"]
              /\ UNCHANGED <<unanswered, answered, ev>>
    /\ UNCHANGED <<linked, invoice, histVars, faults>>

\* INSERT into stripe_events, whose unique key tells a duplicate.
InsertEvent(h) ==
    /\ pc[h] = "insert"
    /\ IF ev[h] \in seen
         THEN Answer(h) /\ UNCHANGED seen
         ELSE /\ seen' = seen \cup {ev[h]}
              /\ pc' = [pc EXCEPT ![h] = "org"]
              /\ UNCHANGED <<unanswered, answered, ev>>
    /\ UNCHANGED <<linked, invoice, histVars, faults>>

\* An event of another type, or of a customer no organization has, is answered
\* and changes nothing.
FindOrg(h) ==
    /\ pc[h] = "org"
    /\ IF ev[h] # Other /\ linked
         THEN pc' = [pc EXCEPT ![h] = "upsert"] /\ UNCHANGED <<unanswered, answered, ev, missed>>
         ELSE Answer(h) /\ missed' = missed \cup {ev[h]}
    /\ UNCHANGED <<linked, dbVars, orderVars, applied, faults>>

\* Mutant: only the first event of an invoice is stored.
UpsertCreateOnly(h) ==
    /\ pc[h] = "upsert"
    /\ invoice' = IF invoice = Other THEN ev[h] ELSE invoice
    /\ applied' = [applied EXCEPT ![ev[h]] = @ + 1]
    /\ pc' = [pc EXCEPT ![h] = "answer"]
    /\ UNCHANGED <<linked, unanswered, answered, seen, ev, orderVars, missed, faults>>

\* The invoice gets the event's status and amount, whatever it had.
Upsert(h) ==
    /\ pc[h] = "upsert"
    /\ invoice' = ev[h]
    /\ applied' = [applied EXCEPT ![ev[h]] = @ + 1]
    /\ pc' = [pc EXCEPT ![h] = "answer"]
    /\ UNCHANGED <<linked, unanswered, answered, seen, ev, orderVars, missed, faults>>

Reply(h) ==
    /\ pc[h] = "answer"
    /\ Answer(h)
    /\ UNCHANGED <<linked, dbVars, histVars, faults>>

\* The 200 is lost, a statement fails, or the process dies.
HandlerFails(h) ==
    /\ pc[h] \in {"insert", "org", "upsert", "answer"}
    /\ NoAnswer(h)
    /\ missed' = IF pc[h] \in {"org", "upsert"} THEN missed \cup {ev[h]} ELSE missed
    /\ UNCHANGED <<linked, dbVars, orderVars, applied>>

-----------------------------------------------------------------------------

Handle(h) ==
    \/ Verify(h) \/ InsertEvent(h) \/ FindOrg(h) \/ Upsert(h) \/ Reply(h)

Next ==
    \/ LinkCustomer
    \/ \E e \in Events : Emit(e)
    \/ \E h \in Handlers : \/ \E e \in Events : Deliver(h, e)
                           \/ Handle(h) \/ Refuse(h) \/ HandlerFails(h)

\* A handler that has an event goes on, and Stripe repeats each event it has had
\* no 200 for.
Fairness ==
    /\ \A h \in Handlers : WF_vars(Handle(h))
    /\ \A e \in Events : SF_vars(\E h \in Handlers : Deliver(h, e))

Spec == Init /\ [][Next]_vars /\ Fairness

-----------------------------------------------------------------------------
(* Properties *)

\* An event is applied to the invoice at most once, although Stripe repeats it
\* and two handlers may have it at the same time.
AppliedOnce == \A e \in Events : applied[e] <= 1

\* When Stripe creates the events of an invoice one after the other, repeats
\* included, the invoice has the newest one's status once it is answered, unless
\* that one was of another customer or its handler was cut off after its INSERT.
InvoiceCurrent ==
    inOrder /\ newest \in answered \ missed /\ (\A h \in Handlers : pc[h] = "idle")
        => invoice = newest

\* Every event is answered 200 in the end: no error of one keeps Stripe repeating
\* it for ever.
EventSettles == \A e \in Events : e \in unanswered ~> e \in answered
=============================================================================
