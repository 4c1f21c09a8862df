-------------------------------- MODULE Jobs --------------------------------
(***************************************************************************)
(* The life of one row of the jobs table: createJob, the BullMQ worker     *)
(* with its processor and its "failed" listener, the billing of a          *)
(* bulk_chat job's prompts, replayJob, and a client on /ws/jobs/:id.       *)
(*                                                                         *)
(* A row may have several BullMQ entries in its life (one per replay).     *)
(* BullMQ is external: an entry is waiting, active under the lock of one   *)
(* runner, or gone (completed, or out of attempts, and removed).           *)
(***************************************************************************)
EXTENDS Naturals, FiniteSets

CONSTANTS
    Runners,        \* concurrently running processors
    Replayers,      \* concurrent calls of replayJob
    Prompts,        \* number of prompts or texts of the job; 100% of its progress
    MaxAttempts,    \* MAX_JOB_ATTEMPTS
    MaxStalls,      \* BullMQ's maxStalledCount
    MaxEntries,     \* bound on the enqueues of a behaviour
    None            \* no runner, no entry

ASSUME JobsAssumption ==
    /\ Prompts \in Nat \ {0} /\ MaxAttempts \in Nat \ {0}
    /\ MaxStalls \in Nat /\ MaxEntries \in Nat \ {0}
    /\ None \notin Runners /\ None \notin 1..MaxEntries

VARIABLES
    status,         \* the row's status, "NONE" before its insert
    progress,       \* the row's progress, in prompts
    type,           \* the row's type, "none" before its insert
    creating,       \* where createJob is
    replaying,      \* where each replayJob is
    entries,        \* the BullMQ entries
    run,            \* where each runner is
    late,           \* markJobFailed calls on their way: how many final, how many not
    usage,          \* prompts with a usage_records row
    recorded,       \* number of usage.recorded events per prompt
    notices,        \* types of the other outbox events written
    watcher         \* the WebSocket client

queueVars == <<type, creating, replaying>>
billVars == <<usage, recorded>>
vars == <<status, progress, queueVars, entries, run, late, billVars, notices, watcher>>

Entry == 1..MaxEntries

Idle == [pc |-> "idle", entry |-> None, next |-> 1]

Fresh == [state |-> "none", made |-> 0, stalls |-> 0, owner |-> None]

Init ==
    /\ status = "NONE" /\ progress = 0
    /\ type = "none" /\ creating = "no" /\ replaying = [c \in Replayers |-> "idle"]
    /\ entries = [b \in Entry |-> Fresh]
    /\ run = [r \in Runners |-> Idle]
    /\ late = [final \in BOOLEAN |-> 0]
    /\ usage = {} /\ recorded = [i \in 1..Prompts |-> 0]
    /\ notices = {}
    /\ watcher = "away"

Finished == status \in {"COMPLETED", "DEAD_LETTER"}

Live == {b \in Entry : entries[b].state \in {"waiting", "active"}}

-----------------------------------------------------------------------------
(* createJob and replayJob *)

\* queue.add.
Enqueue(b) ==
    /\ entries[b].state = "none" /\ \A d \in 1..(b - 1) : entries[d].state # "none"
    /\ entries' = [entries EXCEPT ![b].state = "waiting"]

\* buildJobRegistry.
KnownTypes == {"batch_embeddings", "bulk_chat"}

\* MAX_BATCH_ITEMS, and parsePayload of a payload with n texts or prompts.
MaxBatchItems == 100
ParsePayload(n) == n \in 1..MaxBatchItems

\* What POST /v1/jobs lets through: a known type, a payload its handler takes, and
\* an organization that is not out of budget or whose budget is not enforced.
Accepted(t, n, enforced, remaining) ==
    /\ t \in KnownTypes
    /\ ParsePayload(n)
    /\ enforced => remaining > 0

\* The row of an accepted job is inserted ...
Insert ==
    /\ creating = "no"
    /\ creating' = "inserted"
    /\ \E t \in KnownTypes \cup {"other"}, enforced \in BOOLEAN, remaining \in 0..1 :
          Accepted(t, Prompts, enforced, remaining) /\ type' = t
    /\ status' = "QUEUED"
    /\ UNCHANGED <<progress, replaying, entries, run, late, billVars, notices, watcher>>

\* ... and enqueued, or queue.add rejects, or the process dies before it.
CreateEnqueue ==
    /\ creating = "inserted"
    /\ creating' = "done"
    /\ (\E b \in Entry : Enqueue(b)) \/ UNCHANGED entries
    /\ UNCHANGED <<status, progress, type, replaying, run, late, billVars, notices, watcher>>

\* replayJob reads the row and finds it dead-lettered.
ReplayCheck(c) ==
    /\ replaying[c] = "idle" /\ status = "DEAD_LETTER"
    /\ \E b \in Entry : entries[b].state = "none"
    /\ replaying' = [replaying EXCEPT ![c] = "checked"]
    /\ UNCHANGED <<status, progress, type, creating, entries, run, late, billVars, notices, watcher>>

\* The row is set back, whatever has become of it since.
ReplayReset(c) ==
    /\ replaying[c] = "checked"
    /\ replaying' = [replaying EXCEPT ![c] = "reset"]
    /\ status' = "QUEUED" /\ progress' = 0
    /\ UNCHANGED <<type, creating, entries, run, late, billVars, notices, watcher>>

\* The row is enqueued again, or that fails.
ReplayEnqueue(c) ==
    /\ replaying[c] = "reset"
    /\ replaying' = [replaying EXCEPT ![c] = "idle"]
    /\ (\E b \in Entry : Enqueue(b)) \/ UNCHANGED entries
    /\ UNCHANGED <<status, progress, type, creating, run, late, billVars, notices, watcher>>

-----------------------------------------------------------------------------
(* The worker *)

Goto(r, label) == run' = [run EXCEPT ![r].pc = label]

\* BullMQ hands an entry to a free runner, under a lock.
Take(r, b) ==
    /\ run[r] = Idle /\ entries[b].state = "waiting"
    /\ entries' = [entries EXCEPT ![b].state = "active", ![b].owner = r]
    /\ run' = [run EXCEPT ![r] = [pc |-> "taken", entry |-> b, next |-> 1]]
    /\ UNCHANGED <<status, progress, queueVars, late, billVars, notices, watcher>>

\* markJobRunning.
MarkJobRunning(r) ==
    /\ run[r].pc = "taken"
    /\ status' = "RUNNING" /\ progress' = 0
    /\ Goto(r, "billing")
    /\ UNCHANGED <<queueVars, entries, late, billVars, notices, watcher>>

\* Mutant: the usage record has an id of its own on every attempt.
BillJobUsageFreshId(r) ==
    /\ run[r].pc = "billing" /\ type = "bulk_chat"
    /\ usage' = usage \cup {run[r].next}
    /\ recorded' = [recorded EXCEPT ![run[r].next] = @ + 1]
    /\ Goto(r, "reporting")
    /\ UNCHANGED <<status, progress, queueVars, entries, late, notices, watcher>>

\* Mutant: a retry takes the prompts of earlier attempts for billed.
BillJobUsageFirstOnly(r) ==
    /\ run[r].pc = "billing" /\ type = "bulk_chat"
    /\ usage' = IF entries[run[r].entry].made = 0 THEN usage \cup {run[r].next} ELSE usage
    /\ recorded' = [i \in 1..Prompts |-> IF i \in usage' THEN 1 ELSE 0]
    /\ Goto(r, "reporting")
    /\ UNCHANGED <<status, progress, queueVars, entries, late, notices, watcher>>

\* bulk_chat: the provider answers the next prompt and billJobUsage records it
\* under the id job:{row}:{prompt}: row and event only if the id is new.  The job's
\* row has an API key and the adapter reports usage; without either nothing is billed.
BillJobUsage(r) ==
    /\ run[r].pc = "billing" /\ type = "bulk_chat"
    /\ usage' = usage \cup {run[r].next}
    /\ recorded' = IF run[r].next \in usage THEN recorded
                   ELSE [recorded EXCEPT ![run[r].next] = @ + 1]
    /\ Goto(r, "reporting")
    /\ UNCHANGED <<status, progress, queueVars, entries, late, notices, watcher>>

\* batch_embeddings: the next text is embedded, and nothing billed.
Embed(r) ==
    /\ run[r].pc = "billing" /\ type = "batch_embeddings"
    /\ Goto(r, "reporting")
    /\ UNCHANGED <<status, progress, queueVars, entries, late, billVars, notices, watcher>>

\* updateJobProgress, and on to the next item.
UpdateJobProgress(r) ==
    /\ run[r].pc = "reporting"
    /\ progress' = run[r].next
    /\ run' = [run EXCEPT ![r].next = @ + 1,
                          ![r].pc = IF run[r].next = Prompts THEN "finishing" ELSE "billing"]
    /\ UNCHANGED <<status, queueVars, entries, late, billVars, notices, watcher>>

\* markJobCompleted commits the status and job.completed.
MarkJobCompleted(r) ==
    /\ run[r].pc = "finishing"
    /\ status' = "COMPLETED" /\ progress' = Prompts
    /\ notices' = notices \cup {"job.completed"}
    /\ Goto(r, "completed")
    /\ UNCHANGED <<queueVars, entries, late, billVars, watcher>>

\* Who listens is told; the socket closes on a terminal status.
Told == IF watcher = "listening" THEN "closed" ELSE watcher

Owns(r) == entries[run[r].entry].owner = r

\* Its message is published and the processor returns: BullMQ removes the
\* entry if the runner still has the lock.
Return(r) ==
    /\ run[r].pc = "completed"
    /\ watcher' = Told
    /\ entries' = IF Owns(r)
                  THEN [entries EXCEPT ![run[r].entry].state = "gone", ![run[r].entry].owner = None]
                  ELSE entries
    /\ run' = [run EXCEPT ![r] = Idle]
    /\ UNCHANGED <<status, progress, queueVars, late, billVars, notices>>

\* Mutant: attempts are not counted.
FailAttemptUncounted(b, retry) ==
    /\ entries' = [entries EXCEPT ![b].owner = None, ![b].state = "waiting"]
    /\ UNCHANGED late

\* An attempt of entry b has failed: retried after its backoff, or removed;
\* either way the "failed" listener calls markJobFailed and nobody waits for it.
FailAttempt(b, retry) ==
    LET made == entries[b].made + 1
        final == made >= MaxAttempts
    IN  /\ entries' = [entries EXCEPT ![b].made = made, ![b].owner = None,
                          ![b].state = IF retry /\ ~final THEN "waiting" ELSE "gone"]
        /\ late' = [late EXCEPT ![final] = @ + 1]

\* The processor throws: a provider, Postgres or Redis error at any await,
\* the publish after the completing commit included.
Throw(r) ==
    /\ run[r].pc # "idle"
    /\ IF Owns(r) THEN FailAttempt(run[r].entry, TRUE) ELSE UNCHANGED <<entries, late>>
    /\ run' = [run EXCEPT ![r] = Idle]
    /\ UNCHANGED <<status, progress, queueVars, billVars, notices, watcher>>

\* markJobFailed of the listener.  Its publish may fail.
MarkJobFailed(final) ==
    /\ late[final] > 0
    /\ late' = [late EXCEPT ![final] = @ - 1]
    /\ status' = IF final THEN "DEAD_LETTER" ELSE "FAILED"
    /\ notices' = IF final THEN notices \cup {"job.failed"} ELSE notices
    /\ watcher' \in (IF final THEN {watcher, Told} ELSE {watcher})
    /\ UNCHANGED <<progress, queueVars, entries, run, billVars>>

\* The write fails, or the process dies first: only onError hears of it.
MarkJobFailedLost(final) ==
    /\ late[final] > 0
    /\ late' = [late EXCEPT ![final] = @ - 1]
    /\ UNCHANGED <<status, progress, queueVars, entries, run, billVars, notices, watcher>>

\* The worker process dies in a job.
Crash(r) ==
    /\ run[r].pc # "idle"
    /\ run' = [run EXCEPT ![r] = Idle]
    /\ UNCHANGED <<status, progress, queueVars, entries, late, billVars, notices, watcher>>

\* The lock of an active entry is not renewed (its runner is dead or blocked):
\* the entry is given to another runner, or failed without a retry when it has
\* stalled too often.
Stall(b) ==
    /\ entries[b].state = "active"
    /\ \/ /\ entries[b].stalls < MaxStalls
          /\ entries' = [entries EXCEPT ![b].state = "waiting", ![b].owner = None,
                                        ![b].stalls = @ + 1]
          /\ UNCHANGED late
       \/ /\ entries[b].stalls >= MaxStalls
          /\ FailAttempt(b, FALSE)
    /\ UNCHANGED <<status, progress, queueVars, run, billVars, notices, watcher>>

-----------------------------------------------------------------------------
(* /ws/jobs/:id *)

\* The client connects and gets the row's state; a finished job's socket is
\* closed at once.
Connect ==
    /\ watcher = "away" /\ status # "NONE"
    /\ watcher' = IF Finished THEN "closed" ELSE "read"
    /\ UNCHANGED <<status, progress, queueVars, entries, run, late, billVars, notices>>

\* SUBSCRIBE to the progress channel.
Listen ==
    /\ watcher = "read"
    /\ watcher' = "listening"
    /\ UNCHANGED <<status, progress, queueVars, entries, run, late, billVars, notices>>

-----------------------------------------------------------------------------

Process(r) ==
    \/ MarkJobRunning(r) \/ BillJobUsage(r) \/ Embed(r) \/ UpdateJobProgress(r)
    \/ MarkJobCompleted(r) \/ Return(r)

Requests ==
    \/ Insert \/ CreateEnqueue \/ Connect \/ Listen
    \/ \E c \in Replayers : ReplayCheck(c) \/ ReplayReset(c) \/ ReplayEnqueue(c)

TakeSome == \E r \in Runners, b \in Entry : Take(r, b)

Next ==
    \/ Requests \/ TakeSome
    \/ \E r \in Runners : Process(r) \/ Throw(r) \/ Crash(r)
    \/ \E final \in BOOLEAN : MarkJobFailed(final) \/ MarkJobFailedLost(final)
    \/ \E b \in Entry : Stall(b)

Spec == Init /\ [][Next]_vars

\* Runners take entries and carry them on; a lock that nobody renews expires.
FairSpec ==
    /\ Spec
    /\ WF_vars(TakeSome)
    /\ \A r \in Runners : WF_vars(Process(r) \/ Throw(r))
    /\ \A b \in Entry : WF_vars(Stall(b) /\ \A r \in Runners : run[r].entry # b)

-----------------------------------------------------------------------------
(* Properties *)

\* "does not double-bill a replayed job": however often a job is retried,
\* stalled or replayed, and by how many runners at a time, each prompt has at
\* most one usage record and event.
PromptBilledOnce == \A i \in 1..Prompts : recorded[i] = IF i \in usage THEN 1 ELSE 0

\* A completed bulk_chat is billed to its last prompt, although an attempt can die
\* between any two of its steps; a batch of embeddings is not billed.
CompletedIsBilled ==
    "job.completed" \in notices => usage = (IF type = "bulk_chat" THEN 1..Prompts ELSE {})

\* An entry of the queue does not stay there: it completes or runs out of
\* attempts or stalls, whoever dies.
EntryEnds == \A b \in Entry : b \in Live ~> b \notin Live
=============================================================================
