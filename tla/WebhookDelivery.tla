-------------------------- MODULE WebhookDelivery ---------------------------
(***************************************************************************)
(* Webhooks: endpoints that are registered and deleted, the fan-out of one *)
(* platform event to the subscribed endpoints (dispatchWebhookEvent, run   *)
(* again whenever NATS redelivers the event), and the BullMQ worker that   *)
(* posts a delivery and keeps the webhook_deliveries log.                  *)
(*                                                                         *)
(* Every run inserts rows of its own, and entries of the queue do not      *)
(* interact: one row <<run, endpoint>>, Watched, is followed through the   *)
(* worker.  BullMQ is external: as in Jobs, an entry is waiting, active    *)
(* under a worker's lock, or gone.                                         *)
(***************************************************************************)
EXTENDS Naturals, FiniteSets

CONSTANTS
    Targets,        \* what the URL of an endpoint can resolve to (see below)
    Asked,          \* sets of event types that POST /webhooks is asked for
    Events,         \* the event that is dispatched: [type, org], org: it has an orgId
    Endpoints,      \* webhook_endpoints ids (an id is used once)
    MaxRuns,        \* bound on the runs of the subscriber's handler (max_deliver)
    Workers,        \* concurrently running processors
    MaxAttempts,    \* WEBHOOK_MAX_ATTEMPTS
    MaxStalls,      \* BullMQ's maxStalledCount
    Watched,        \* the row that is followed
    None            \* no endpoint, no worker

ASSUME WebhookAssumption ==
    /\ MaxRuns \in Nat \ {0} /\ MaxAttempts \in Nat \ {0} /\ MaxStalls \in Nat
    /\ Watched \in (1..MaxRuns) \X Endpoints
    /\ None \notin Endpoints /\ None \notin Workers
    /\ \A t \in Targets : t.https \in BOOLEAN
    /\ \A e \in Events : e.org \in BOOLEAN

-----------------------------------------------------------------------------
(* The target guard.  A target is [https, addresses]: the scheme of the URL *)
(* and what the name resolves to at one moment ({}: it does not; a literal   *)
(* is its own only address).  Of an IPv4 address the first two octets are    *)
(* kept, as no range needs more: [v |-> 4, octets |-> <<a, b>>].  Of an IPv6 *)
(* address, the shape and the group that decides: [v |-> 6, form, group] with*)
(* form "mapped" (::ffff:group:...), "::1", "::" or "other" (group first).   *)

Ipv4ToInt(octets) == octets[1] * 256 + octets[2]

InCidr(address, base, bits) ==
    address \div 2^(16 - bits) = Ipv4ToInt(base) \div 2^(16 - bits)

IsSafeIPv4(octets) ==
    LET blocked == { <<<<10, 0>>, 8>>, <<<<172, 16>>, 12>>, <<<<192, 168>>, 16>>, <<<<127, 0>>, 8>>,
                     <<<<169, 254>>, 16>>, <<<<0, 0>>, 8>>, <<<<100, 64>>, 10>>, <<<<224, 0>>, 4>> }
    IN  ~\E b \in blocked : InCidr(Ipv4ToInt(octets), b[1], b[2])

UnwrapIPv4Mapped(group) == <<(group \div 256) % 256, group % 256>>

\* The group, written in hexadecimal without leading zeros, starts with prefix
\* (a number of the given count of digits).
StartsWith(group, prefix, digits) ==
    \E k \in 0..(4 - digits) : group \div 16^k = prefix

IsSafeIPv6(address) ==
    CASE address.form = "mapped" -> IsSafeIPv4(UnwrapIPv4Mapped(address.group))
      [] address.form \in {"::1", "::"} -> FALSE
      [] OTHER -> /\ \A p \in {4072, 4073, 4074, 4075} : ~StartsWith(address.group, p, 3)  \* fe8..feb
                  /\ \A p \in {252, 253} : ~StartsWith(address.group, p, 2)               \* fc, fd

CheckAddress(address) ==
    IF address.v = 4 THEN IsSafeIPv4(address.octets) ELSE IsSafeIPv6(address)

\* isSafeWebhookTarget: https, it resolves, and EVERY address is allowed.
IsSafeWebhookTarget(target) ==
    /\ target.https
    /\ target.addresses # {}
    /\ \A a \in target.addresses : CheckAddress(a)

-----------------------------------------------------------------------------

VARIABLES
    endpoint,   \* of each endpoint: "none", "active", "deleted"
    types,      \* its eventTypes column
    event,      \* the event
    run,        \* number of runs of the handler begun
    pc,         \* where the current one is
    todo,       \* its endpoints still to do
    cur,        \* its loop variable
    row,        \* its row per endpoint: "none", "inserted", "enqueued", "deleted"
    watched,    \* the state of the watched row, likewise
    status,     \* the status column of the watched row
    entry,      \* its queue entry
    work,       \* where each worker is
    late,       \* writes of the "failed" listener that are on their way
    audience,   \* history: who was subscribed when the current run began
    posts,      \* history: POSTs of the watched row that were sent
    accepted,   \* history: the endpoint has answered one of them with 2xx
    fault       \* history: a crash, a stall or a failed write has hit it

loopVars == <<run, pc, todo, cur>>
fanVars == <<endpoint, types, event, loopVars, row, watched, audience>>
workVars == <<entry, work, late, posts, accepted>>
vars == <<fanVars, status, workVars, fault>>

Idle == [pc |-> "idle", outcome |-> "none"]

Init ==
    /\ endpoint = [e \in Endpoints |-> "none"]
    /\ types = [e \in Endpoints |-> {}]
    /\ event \in Events
    /\ run = 0 /\ pc = "over" /\ todo = {} /\ cur = None
    /\ row = [e \in Endpoints |-> "none"] /\ watched = "none"
    /\ status = "PENDING"
    /\ entry = [state |-> "none", made |-> 0, stalls |-> 0, owner |-> None]
    /\ work = [w \in Workers |-> Idle]
    /\ late = 0
    /\ audience = {}
    /\ posts = 0 /\ accepted = FALSE /\ fault = FALSE

\* WEBHOOK_EVENT_TYPES: what an endpoint can ask for, and what is dispatched.
WebhookEventTypes ==
    { "job.completed", "job.failed", "budget.warning", "budget.exceeded",
      "api_key.created", "api_key.revoked", "request.rate_limited", "provider.degraded" }

\* dispatchWebhookEvent's findMany: active and subscribed to the event's type.
Subscribed == {e \in Endpoints : endpoint[e] = "active" /\ event.type \in types[e]}

-----------------------------------------------------------------------------
(* The API's routes *)

\* The body of POST /webhooks names at least one type, and only known ones.
RegisterWebhookSchema(asked) == asked # {} /\ asked \subseteq WebhookEventTypes

\* The row is created, unless the URL is unsafe.
RegisterWebhookEndpoint(e, target, asked) ==
    /\ IsSafeWebhookTarget(target)
    /\ endpoint' = [endpoint EXCEPT ![e] = "active"]
    /\ types' = [types EXCEPT ![e] = asked]

\* POST /webhooks; an invalid body or an unsafe URL gets a 400 and changes nothing.
PostWebhooks(e) ==
    /\ endpoint[e] = "none"
    /\ \E target \in Targets, asked \in Asked :
          /\ RegisterWebhookSchema(asked)
          /\ RegisterWebhookEndpoint(e, target, asked)
    /\ UNCHANGED <<event, loopVars, row, watched, audience, status, workVars, fault>>

\* DELETE /webhooks/:id; the rows of its deliveries go with it, the entries in
\* the queue stay.
DeleteWebhookEndpoint(e) ==
    /\ endpoint[e] = "active"
    /\ types' = [types EXCEPT ![e] = {}]
    /\ endpoint' = [endpoint EXCEPT ![e] = "deleted"]
    /\ row' = [row EXCEPT ![e] = IF @ = "none" THEN @ ELSE "deleted"]
    /\ watched' = IF Watched[2] = e /\ watched # "none" THEN "deleted" ELSE watched
    /\ UNCHANGED <<event, loopVars, audience, status, workVars, fault>>

-----------------------------------------------------------------------------
(* The dispatch subscriber *)

\* The row of endpoint e in the current run becomes s.
SetRow(e, s) ==
    /\ row' = [row EXCEPT ![e] = s]
    /\ watched' = IF Watched = <<run, e>> THEN s ELSE watched

\* The current run is over.
EndRun ==
    /\ pc' = "over" /\ todo' = {} /\ cur' = None
    /\ row' = [e \in Endpoints |-> "none"]
    /\ audience' = {}

\* NATS delivers the event: for the first time, or again because the run before
\* failed or its ack was lost.  An event of a webhook's type gets its webhook_events row, and
\* findMany returns the active, subscribed endpoints.
HandlerStart ==
    /\ pc = "over" /\ run < MaxRuns
    /\ run' = run + 1
    /\ IF event.type \in WebhookEventTypes /\ event.org
       THEN pc' = "loop" /\ todo' = Subscribed /\ audience' = Subscribed
       ELSE UNCHANGED <<pc, todo, audience>>
    /\ UNCHANGED <<endpoint, types, event, cur, row, watched, status, workVars, fault>>

\* The delivery row of the next endpoint is inserted.
InsertDelivery(e) ==
    /\ pc = "loop" /\ e \in todo /\ endpoint[e] # "deleted"
    /\ pc' = "add"
    /\ todo' = todo \ {e} /\ cur' = e
    /\ SetRow(e, "inserted")
    /\ UNCHANGED <<endpoint, types, event, run, audience, status, workVars, fault>>

\* queue.add.
AddToQueue ==
    /\ pc = "add"
    /\ pc' = "loop" /\ cur' = None
    /\ SetRow(cur, IF row[cur] = "deleted" THEN "deleted" ELSE "enqueued")
    /\ entry' = IF Watched = <<run, cur>> THEN [entry EXCEPT !.state = "waiting"] ELSE entry
    /\ UNCHANGED <<endpoint, types, event, run, todo, audience, status,
                   work, late, posts, accepted, fault>>

\* Mutant: an error of one endpoint does not stop the loop.
HandlerFailsCaught ==
    /\ pc = "add"
    /\ pc' = "loop" /\ cur' = None
    /\ UNCHANGED <<endpoint, types, event, run, todo, row, watched, audience, status, workVars, fault>>

\* A write or queue.add fails (the insert for an endpoint deleted since findMany
\* always does), or the process dies: the event is not acknowledged.
HandlerFails ==
    /\ pc \in {"loop", "add"}
    /\ EndRun
    /\ UNCHANGED <<endpoint, types, event, run, watched, status, workVars, fault>>

\* The loop is over and the event is acknowledged.
HandlerDone ==
    /\ pc = "loop" /\ todo = {}
    /\ EndRun
    /\ UNCHANGED <<endpoint, types, event, run, watched, status, workVars, fault>>

-----------------------------------------------------------------------------
(* The delivery worker *)

\* updateMany of the row, which may be deleted.
Log(s) == status' = IF watched = "deleted" THEN status ELSE s

\* BullMQ hands the entry to a free worker, under a lock.
Take(w) ==
    /\ work[w] = Idle /\ entry.state = "waiting"
    /\ entry' = [entry EXCEPT !.state = "active", !.owner = w]
    /\ work' = [work EXCEPT ![w] = [pc |-> "checking", outcome |-> "none"]]
    /\ UNCHANGED <<fanVars, status, late, posts, accepted, fault>>

\* What the registered URL resolves to now is not safe: rejected, nothing is sent.
BlockTarget(w) ==
    /\ work[w].pc = "checking"
    /\ \E t \in Targets : t.https /\ ~IsSafeWebhookTarget(t)
    /\ work' = [work EXCEPT ![w].pc = "record", ![w].outcome = "rejected"]
    /\ UNCHANGED <<fanVars, status, entry, late, posts, accepted, fault>>

\* It is safe: the POST is next.
PassTarget(w) ==
    /\ work[w].pc = "checking"
    /\ \E t \in Targets : IsSafeWebhookTarget(t)
    /\ work' = [work EXCEPT ![w].pc = "posting"]
    /\ UNCHANGED <<fanVars, status, entry, late, posts, accepted, fault>>

\* sendAndClassify: 2xx is delivered, 3xx and 4xx are final, 5xx and no answer
\* (refused, reset, timeout: the endpoint may have got it) are retried.
Classify(answer) ==
    CASE answer = "2xx" -> "delivered"
      [] answer \in {"3xx", "4xx"} -> "rejected"
      [] OTHER -> "retry"

\* The POST is sent and answered.  The fetch looks the name up by itself, and
\* nothing checks what it finds.
SendAndClassify(w) ==
    /\ work[w].pc = "posting"
    /\ \E answer \in {"2xx", "3xx", "4xx", "5xx", "none"} :
          /\ work' = [work EXCEPT ![w].pc = "record", ![w].outcome = Classify(answer)]
          /\ accepted' = (accepted \/ answer = "2xx")
    /\ posts' = posts + 1
    /\ UNCHANGED <<fanVars, status, entry, late, fault>>

\* recordDeliveryAttempt of the processor: PENDING for what is retried.
RecordDeliveryAttempt(w) ==
    /\ work[w].pc = "record"
    /\ Log(CASE work[w].outcome = "delivered" -> "DELIVERED"
             [] work[w].outcome = "rejected" -> "FAILED"
             [] OTHER -> "PENDING")
    /\ work' = [work EXCEPT ![w].pc = IF work[w].outcome = "retry" THEN "throw" ELSE "return"]
    /\ UNCHANGED <<fanVars, entry, late, posts, accepted, fault>>

\* Postgres fails the write, which throws out of the processor as well.
RecordFails(w) ==
    /\ work[w].pc = "record"
    /\ work' = [work EXCEPT ![w].pc = "throw"]
    /\ fault' = TRUE
    /\ UNCHANGED <<fanVars, status, entry, late, posts, accepted>>

\* The processor returns: the entry is removed, if the lock is still the worker's.
Return(w) ==
    /\ work[w].pc = "return"
    /\ entry' = IF entry.owner = w THEN [entry EXCEPT !.state = "gone", !.owner = None] ELSE entry
    /\ work' = [work EXCEPT ![w] = Idle]
    /\ UNCHANGED <<fanVars, status, late, posts, accepted, fault>>

\* Mutant: attempts are not counted.
FailEntryUncounted(final) ==
    entry' = [entry EXCEPT !.owner = None, !.state = "waiting"]

\* BullMQ counts the failed attempt; the entry waits for its backoff, or is removed.
FailEntry(final) ==
    entry' = [entry EXCEPT !.owner = None, !.made = @ + 1,
                           !.state = IF final THEN "gone" ELSE "waiting"]

\* Mutant: no "failed" listener.
NotifyFailedNever(final) == UNCHANGED late

\* The "failed" listener acts on the last attempt only; nobody awaits its write.
NotifyFailed(final) == late' = IF final THEN late + 1 ELSE late

\* The processor throws.
Throw(w) ==
    LET final == entry.made + 1 >= MaxAttempts
    IN  /\ work[w].pc = "throw"
        /\ work' = [work EXCEPT ![w] = Idle]
        /\ IF entry.owner = w THEN FailEntry(final) /\ NotifyFailed(final)
           ELSE UNCHANGED <<entry, late>>
        /\ UNCHANGED <<fanVars, status, posts, accepted, fault>>

\* The listener's write: EXHAUSTED.
RecordExhausted ==
    /\ late > 0 /\ late' = late - 1
    /\ Log("EXHAUSTED")
    /\ UNCHANGED <<fanVars, entry, work, posts, accepted, fault>>

\* That write fails or its process dies; only onError hears of it.
RecordExhaustedLost ==
    /\ late > 0 /\ late' = late - 1
    /\ fault' = TRUE
    /\ UNCHANGED <<fanVars, status, entry, work, posts, accepted>>

\* The worker process dies.
Crash(w) ==
    /\ work[w] # Idle
    /\ work' = [work EXCEPT ![w] = Idle]
    /\ fault' = TRUE
    /\ UNCHANGED <<fanVars, status, entry, late, posts, accepted>>

\* The lock of the active entry expires: the entry is handed out again, or
\* failed for good, in which case the listener may not be given the job.
Stall ==
    /\ entry.state = "active"
    /\ \/ /\ entry.stalls < MaxStalls
          /\ entry' = [entry EXCEPT !.state = "waiting", !.owner = None, !.stalls = @ + 1]
          /\ UNCHANGED late
       \/ /\ entry.stalls >= MaxStalls
          /\ entry' = [entry EXCEPT !.state = "gone", !.owner = None]
          /\ late' \in {late, IF entry.made + 1 >= MaxAttempts THEN late + 1 ELSE late}
    /\ fault' = TRUE
    /\ UNCHANGED <<fanVars, status, work, posts, accepted>>

-----------------------------------------------------------------------------

Handler ==
    \/ HandlerStart \/ (\E e \in Endpoints : InsertDelivery(e))
    \/ AddToQueue \/ HandlerFails \/ HandlerDone

Process(w) ==
    \/ BlockTarget(w) \/ PassTarget(w) \/ SendAndClassify(w)
    \/ RecordDeliveryAttempt(w) \/ RecordFails(w) \/ Return(w) \/ Throw(w)

TakeSome == \E w \in Workers : Take(w)

Listener == RecordExhausted \/ RecordExhaustedLost

Next ==
    \/ \E e \in Endpoints : PostWebhooks(e) \/ DeleteWebhookEndpoint(e)
    \/ Handler
    \/ TakeSome
    \/ \E w \in Workers : Process(w) \/ Crash(w)
    \/ Listener
    \/ Stall

Spec == Init /\ [][Next]_vars

\* Workers take entries and carry them on, the listener's promise settles, and a
\* lock whose worker is gone expires.
FairSpec ==
    /\ Spec
    /\ WF_vars(TakeSome) /\ WF_vars(Listener)
    /\ \A w \in Workers : WF_vars(Process(w))
    /\ WF_vars(Stall /\ \A w \in Workers : work[w] = Idle)

-----------------------------------------------------------------------------
(* Properties *)

Live == entry.state \in {"waiting", "active"}

\* A run of the handler is acknowledged only when it has queued a delivery for
\* every endpoint that was subscribed when it began and still is: an error half
\* way through the fan-out never drops the rest of the endpoints.
FannedOut ==
    [][HandlerDone =>
        \A e \in audience : endpoint[e] = "active" => row[e] = "enqueued"]_vars

\* Crashes and stalls repeat a POST, but not without bound.
PostsBounded == posts <= MaxAttempts + MaxStalls

\* For a delivery no crash, stall or failed write has hit, the log tells what
\* happened: a POST was accepted, or none and the answer was final, or MaxAttempts failed;
\* and it says PENDING only while something is still to come.
HonestLog ==
    ~fault /\ watched = "enqueued" =>
        CASE status = "DELIVERED" -> accepted /\ posts <= MaxAttempts
          [] status = "FAILED" -> ~accepted
          [] status = "EXHAUSTED" -> ~accepted /\ posts = MaxAttempts /\ ~Live
          [] status = "PENDING" -> Live \/ late > 0

\* Every delivery that is queued, and that no crash, stall or failed write hits,
\* gets a final status, or its endpoint is deleted.
DeliverySettles ==
    watched = "enqueued" ~> (status # "PENDING" \/ fault \/ watched = "deleted")
=============================================================================
