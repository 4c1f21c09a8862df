------------------------------- MODULE Outbox -------------------------------
(***************************************************************************)
(* The publishing side of the transactional outbox: rows of outbox_events  *)
(* committed by the services, the poller of every gateway replica, and the *)
(* JetStream stream with its duplicate window.                             *)
(*                                                                         *)
(* An event is a number, its place in the order of createdAt; transactions *)
(* may commit in any order.                                                *)
(***************************************************************************)
EXTENDS Naturals, FiniteSets, FiniteSetsExt

CONSTANTS
    Events,         \* the outbox rows of a behaviour
    Pollers,        \* gateway processes, each with one poller
    BatchSize,      \* batchSize of pollOutbox
    Unpublishable,  \* events that NATS refuses each time
    MaxCopies       \* bound on the copies of an event in the stream

ASSUME OutboxAssumption ==
    /\ Events \subseteq Nat /\ IsFiniteSet(Events)
    /\ Unpublishable \subseteq Events
    /\ BatchSize \in Nat \ {0}
    /\ MaxCopies \in Nat \ {0}

VARIABLES
    committed,      \* rows of outbox_events
    published,      \* rows whose publishedAt is set
    batch,          \* the rows of the running poll still to be attempted
    step,           \* what the poller does next
    copies,         \* number of messages of each event in the stream
    window          \* message ids in the stream's duplicate window

outboxVars == <<committed, published, batch, step, copies, window>>

OutboxInit ==
    /\ committed = {} /\ published = {}
    /\ batch = [p \in Pollers |-> {}]
    /\ step = [p \in Pollers |-> "idle"]
    /\ copies = [e \in Events |-> 0]
    /\ window = {}

Pending == committed \ published

\* findMany: where publishedAt is null, orderBy createdAt, take batchSize.
Oldest(rows) == {e \in rows : Cardinality({d \in rows : d < e}) < BatchSize}

\* The row the loop of pollOutbox is at.
Current(p) == Min(batch[p])

\* The loop goes on to the next row of the batch, or the poll ends.
NextRow(p) ==
    /\ batch' = [batch EXCEPT ![p] = @ \ {Current(p)}]
    /\ step' = [step EXCEPT ![p] = IF batch[p] = {Current(p)} THEN "idle" ELSE "publish"]

\* A transaction with a writeOutboxEvent commits.
Commit(e) ==
    /\ e \notin committed
    /\ committed' = committed \cup {e}
    /\ UNCHANGED <<published, batch, step, copies, window>>

\* The timer fires and pollOutbox reads a batch.
Poll(p) ==
    /\ step[p] = "idle" /\ Pending # {}
    /\ batch' = [batch EXCEPT ![p] = Oldest(Pending)]
    /\ step' = [step EXCEPT ![p] = "publish"]
    /\ UNCHANGED <<committed, published, copies, window>>

\* JetStream stores a message unless its id is in the duplicate window.
Store(e) ==
    /\ copies' = IF e \in window THEN copies ELSE [copies EXCEPT ![e] = @ + 1]
    /\ window' = window \cup {e}

\* publisher.publish resolves.
PublishOk(p) ==
    /\ step[p] = "publish" /\ Current(p) \notin Unpublishable
    /\ Store(Current(p))
    /\ step' = [step EXCEPT ![p] = "mark"]
    /\ UNCHANGED <<committed, published, batch>>

\* It rejects: the message was refused, or its acknowledgement was lost.
PublishFail(p) ==
    /\ step[p] = "publish"
    /\ \/ UNCHANGED <<copies, window>>
       \/ Current(p) \notin Unpublishable /\ Store(Current(p))
    /\ NextRow(p)
    /\ UNCHANGED <<committed, published>>

\* publishedAt is set.
Mark(p) ==
    /\ step[p] = "mark"
    /\ published' = published \cup {Current(p)}
    /\ NextRow(p)
    /\ UNCHANGED <<committed, copies, window>>

\* The update rejects, whether or not it took effect.
MarkFail(p) ==
    /\ step[p] = "mark"
    /\ published' \in {published, published \cup {Current(p)}}
    /\ NextRow(p)
    /\ UNCHANGED <<committed, copies, window>>

\* The gateway process dies; another one starts with an idle poller.
PollerCrash(p) ==
    /\ step[p] # "idle"
    /\ batch' = [batch EXCEPT ![p] = {}]
    /\ step' = [step EXCEPT ![p] = "idle"]
    /\ UNCHANGED <<committed, published, copies, window>>

\* The duplicate window (two minutes, the server's default) passes over a
\* message.  MaxCopies bounds how often.
WindowExpire(e) ==
    /\ e \in window /\ copies[e] < MaxCopies
    /\ window' = window \ {e}
    /\ UNCHANGED <<committed, published, batch, step, copies>>

PollerStep(p) == Poll(p) \/ PublishOk(p) \/ PublishFail(p) \/ Mark(p) \/ MarkFail(p)

OutboxNext ==
    \/ \E e \in Events : Commit(e) \/ WindowExpire(e)
    \/ \E p \in Pollers : PollerStep(p) \/ PollerCrash(p)

OutboxSpec == OutboxInit /\ [][OutboxNext]_outboxVars

-----------------------------------------------------------------------------
(* Properties *)

\* The variables have their types; a poller is idle exactly without a batch.
OutboxTypeOK ==
    /\ committed \subseteq Events /\ published \subseteq Events
    /\ batch \in [Pollers -> SUBSET Events]
    /\ step \in [Pollers -> {"idle", "publish", "mark"}]
    /\ copies \in [Events -> Nat]
    /\ window \subseteq Events
    /\ \A p \in Pollers : step[p] = "idle" <=> batch[p] = {}

\* Published rows are never read again, so they must be in the stream: no
\* crash, lost reply or second poller loses an event between the two.
PublishedIsStored == \A e \in published : copies[e] > 0
=============================================================================
