---------------------------- MODULE EventDelivery ---------------------------
(***************************************************************************)
(* A durable consumer of the event stream: subscribe() of packages/events  *)
(* with a handler of modules/events/subscribers.ts, behind the outbox that *)
(* fills the stream.  The subscribers have a durable each and do not       *)
(* interact, so one of them at a time is modelled; the fifth, the webhook  *)
(* dispatcher, is WebhookDelivery.  Every writer of the outbox puts the    *)
(* orgId into its event.                                                   *)
(***************************************************************************)
EXTENDS Outbox

CONSTANTS
    Kinds,          \* the subscribers: "analytics", "audit", "billing", "email"
    Typings,        \* the eventTypes of the events that are tried with each of them
    Workers,        \* consumer processes on the durable (one, two in a rollout)
    Poison,         \* events that fail the schema
    MaxDeliver,     \* max_deliver
    None            \* no message

\* The k-th message of event e.
Messages == Events \X (1..MaxCopies)

ASSUME DeliveryAssumption ==
    /\ Kinds \subseteq {"analytics", "audit", "billing", "email"}
    /\ Poison \subseteq Events
    /\ MaxDeliver \in Nat \ {0}
    /\ None \notin Messages

VARIABLES
    kind,           \* the subscriber of the durable
    type,           \* the eventType of each event
    mail,           \* the durable's state of each message
    tries,          \* deliveries of each message
    held,           \* the message each worker's pump is at
    handled,        \* the handler of the held message has resolved
    log             \* effects of the subscriber per event (audit_log rows, INCRs, emails)

deliveryVars == <<kind, type, mail, tries, held, handled, log>>

vars == <<outboxVars, deliveryVars>>

Init ==
    /\ OutboxInit
    /\ kind \in Kinds /\ type \in Typings[kind]
    /\ mail = [m \in Messages |-> "ready"]
    /\ tries = [m \in Messages |-> 0]
    /\ held = [w \in Workers |-> None]
    /\ handled = [w \in Workers |-> FALSE]
    /\ log = [e \in Events |-> 0]

InStream(m) == m[2] <= copies[m[1]]

\* What becomes of an unacknowledged message: it is ready again until it has
\* been delivered MaxDeliver times.
Returned(m) == IF tries[m] < MaxDeliver THEN "ready" ELSE "dead"

\* What the durable's filter_subject lets through.
Wanted(e) == kind \in {"analytics", "billing"} => type[e] = "usage.recorded"

\* Event e has its effect once more.
Again(e) == [log EXCEPT ![e] = @ + 1]

\* Analytics counts whatever it is given, also a second time.
AnalyticsEffects(e) == {Again(e)}

\* Mutant: audit_log.event_id is not UNIQUE.
AuditEffectsNotUnique(e) == {Again(e)}

\* The audit subscriber takes P2002 for success.
AuditEffects(e) == {IF log[e] > 0 THEN log ELSE Again(e)}

\* consumers.ts injects no reportUsage: the billing subscriber only acknowledges.
BillingEffects(e) == {log}

EMAIL_SUBJECTS == {"job.completed", "job.failed", "budget.warning", "budget.exceeded",
                   "api_key.created", "api_key.revoked"}

\* ResendAdapter.sendEmail: sent, or it throws (not configured, refused, no answer).
SendEmail(e) == {log, Again(e)}

\* The email subscriber writes to the organization's owner, if there is one; an
\* error of Resend is caught, and the email is lost.
EmailEffects(e) == IF type[e] \in EMAIL_SUBJECTS THEN SendEmail(e) ELSE {log}

\* What the log may be when the handler of event e has resolved.
Effects(e) ==
    CASE kind = "analytics" -> AnalyticsEffects(e)
      [] kind = "audit" -> AuditEffects(e)
      [] kind = "billing" -> BillingEffects(e)
      [] kind = "email" -> EmailEffects(e)

\* What it may be when the handler has thrown: Redis and Postgres may have done
\* what they were asked, the billing handler calls nobody, and the email handler
\* throws only when the owner is not found out.
ThrownEffects(e) ==
    CASE kind = "analytics" -> {log} \cup AnalyticsEffects(e)
      [] kind = "audit" -> {log} \cup AuditEffects(e)
      [] kind = "billing" -> {}
      [] kind = "email" -> IF type[e] \in EMAIL_SUBJECTS THEN {log} ELSE {}

\* The pump is done with its message.
Drop(w) == held' = [held EXCEPT ![w] = None] /\ handled' = [handled EXCEPT ![w] = FALSE]

\* The pump gets the next message.
Receive(w, m) ==
    /\ held[w] = None
    /\ InStream(m) /\ mail[m] = "ready" /\ Wanted(m[1])
    /\ mail' = [mail EXCEPT ![m] = "out"]
    /\ tries' = [tries EXCEPT ![m] = @ + 1]
    /\ held' = [held EXCEPT ![w] = m]
    /\ UNCHANGED <<outboxVars, kind, type, handled, log>>

\* parseEvent throws: term.
Terminate(w) ==
    /\ held[w] # None /\ ~handled[w]
    /\ held[w][1] \in Poison
    /\ mail' = [mail EXCEPT ![held[w]] = "termed"]
    /\ Drop(w)
    /\ UNCHANGED <<outboxVars, kind, type, tries, log>>

\* The handler resolves.
Handle(w) ==
    /\ held[w] # None /\ ~handled[w]
    /\ held[w][1] \notin Poison
    /\ log' \in Effects(held[w][1])
    /\ handled' = [handled EXCEPT ![w] = TRUE]
    /\ UNCHANGED <<outboxVars, kind, type, mail, tries, held>>

\* Mutant: a failed message is acknowledged.
HandlerThrowsAck(w) ==
    /\ held[w] # None /\ ~handled[w]
    /\ mail' = [mail EXCEPT ![held[w]] = "acked"]
    /\ Drop(w)
    /\ UNCHANGED <<outboxVars, kind, type, tries, log>>

\* Mutant: a failed message is terminated like a poisoned one.
HandlerThrowsTerm(w) ==
    /\ held[w] # None /\ ~handled[w]
    /\ mail' = [mail EXCEPT ![held[w]] = "termed"]
    /\ Drop(w)
    /\ UNCHANGED <<outboxVars, kind, type, tries, log>>

\* The handler throws: nak, without a delay.
HandlerThrows(w) ==
    /\ held[w] # None /\ ~handled[w]
    /\ held[w][1] \notin Poison
    /\ log' \in ThrownEffects(held[w][1])
    /\ mail' = [mail EXCEPT ![held[w]] = IF @ = "out" THEN Returned(held[w]) ELSE @]
    /\ Drop(w)
    /\ UNCHANGED <<outboxVars, kind, type, tries>>

\* msg.ack(), which may come after the ack wait and which nobody awaits.
Ack(w) ==
    /\ held[w] # None /\ handled[w]
    /\ mail' \in {mail, [mail EXCEPT ![held[w]] = "acked"]}
    /\ Drop(w)
    /\ UNCHANGED <<outboxVars, kind, type, tries, log>>

\* The consumer process dies.
WorkerCrash(w) ==
    /\ held[w] # None
    /\ Drop(w)
    /\ UNCHANGED <<outboxVars, kind, type, mail, tries, log>>

\* The ack wait of a message is over: its worker died, is slow, or its ack
\* was lost.
AckWait(m) ==
    /\ mail[m] = "out"
    /\ mail' = [mail EXCEPT ![m] = Returned(m)]
    /\ UNCHANGED <<outboxVars, kind, type, tries, held, handled, log>>

WorkerStep(w) ==
    \/ \E m \in Messages : Receive(w, m)
    \/ Terminate(w) \/ Handle(w) \/ HandlerThrows(w) \/ Ack(w)

Next ==
    \/ OutboxNext /\ UNCHANGED deliveryVars
    \/ \E w \in Workers : WorkerStep(w) \/ WorkerCrash(w)
    \/ \E m \in Messages : AckWait(m)

Spec == Init /\ [][Next]_vars

\* Pollers and workers run, ack waits end.  Of the times a poller is at a given
\* row, not all end in a crash or, for a row that can be published, in an error
\* of NATS or Postgres.
FairSpec ==
    /\ Spec
    /\ \A p \in Pollers : WF_vars(PollerStep(p) /\ UNCHANGED deliveryVars)
    /\ \A p \in Pollers, e \in Events \ Unpublishable :
          /\ SF_vars(PublishOk(p) /\ Current(p) = e /\ UNCHANGED deliveryVars)
          /\ SF_vars(Mark(p) /\ Current(p) = e /\ UNCHANGED deliveryVars)
    /\ \A p \in Pollers, e \in Unpublishable :
          SF_vars(PublishFail(p) /\ Current(p) = e /\ UNCHANGED deliveryVars)
    /\ \A w \in Workers : WF_vars(WorkerStep(w))
    /\ \A m \in Messages : WF_vars(AckWait(m))

-----------------------------------------------------------------------------
(* Properties *)

\* The variables have their types; only a held message can be handled.
TypeOK ==
    /\ OutboxTypeOK
    /\ kind \in Kinds /\ type \in Typings[kind]
    /\ mail \in [Messages -> {"ready", "out", "acked", "termed", "dead"}]
    /\ tries \in [Messages -> 0..MaxDeliver]
    /\ held \in [Workers -> Messages \cup {None}]
    /\ handled \in [Workers -> BOOLEAN]
    /\ \A w \in Workers : handled[w] => held[w] # None
    /\ log \in [Events -> Nat]

\* Whatever is republished, redelivered or handled by two workers at once, an
\* event has at most one row in audit_log.
AuditOnce == kind = "audit" => \A e \in Events : log[e] <= 1

\* These subscribers never give up an event of their own accord.
Reliable == kind \in {"analytics", "audit"}

\* A message is acknowledged only when its event has had its effect: an ack
\* never skips an event, not even one sent late by a slow worker.
AckedIsLogged == Reliable => \A m \in Messages : mail[m] = "acked" => log[m[1]] > 0

\* Every event that is committed, valid and wanted reaches the subscriber or has
\* used up all its deliveries.
EventuallyLogged ==
    \A e \in Events \ (Poison \cup Unpublishable) :
        e \in committed /\ Wanted(e) /\ Reliable
            ~> (log[e] > 0 \/ \E m \in Messages : m[1] = e /\ mail[m] = "dead")
=============================================================================
