----------------------------- MODULE JobsProofs -----------------------------
(***************************************************************************)
(* Each prompt of a job is billed once, and all of them when the job has   *)
(* completed, for any number of prompts, runners, replays, attempts and    *)
(* stalls.  The invariant says what a runner has billed when it is at its  *)
(* n-th prompt, and that nothing runs before the row has its type.         *)
(***************************************************************************)
EXTENDS Jobs, TLAPS

Labels == {"idle", "taken", "billing", "reporting", "finishing", "completed"}

Typed ==
    /\ creating \in {"no", "inserted", "done"}
    /\ type \in KnownTypes \cup {"none"}
    /\ run \in [Runners -> [pc : Labels, entry : Entry \cup {None}, next : 1..(Prompts + 1)]]
    /\ usage \subseteq 1..Prompts
    /\ recorded \in [1..Prompts -> Nat]

\* Before createJob has inserted the row, nothing can be queued, run, retried,
\* replayed or billed; after it, the row has its type for good.
BeforeInsert ==
    /\ creating = "no" =>
          /\ status = "NONE" /\ notices = {} /\ usage = {}
          /\ \A b \in Entry : entries[b].state = "none"
          /\ \A r \in Runners : run[r] = Idle
          /\ \A c \in Replayers : replaying[c] = "idle"
          /\ \A final \in BOOLEAN : late[final] = 0
    /\ creating # "no" => type \in KnownTypes

\* How many prompts the attempt of runner r has put through billJobUsage.
Billed(r) == IF run[r].pc = "reporting" THEN run[r].next ELSE run[r].next - 1

\* A runner is at a prompt of the job, or past its last.
AtPrompt ==
    \A r \in Runners :
        /\ run[r].pc \in {"idle", "taken"} => run[r].next = 1
        /\ run[r].pc \in {"billing", "reporting"} => run[r].next <= Prompts
        /\ run[r].pc \in {"finishing", "completed"} => run[r].next = Prompts + 1

\* What an attempt has put through billJobUsage is in usage_records, whoever put it
\* there first; so is a completed job to its last prompt.
BilledInv ==
    /\ type = "bulk_chat" =>
          /\ \A r \in Runners : 1..Billed(r) \subseteq usage
          /\ "job.completed" \in notices => 1..Prompts \subseteq usage
    /\ type # "bulk_chat" => usage = {}

JobsInv == Typed /\ BeforeInsert /\ AtPrompt /\ BilledInv /\ PromptBilledOnce

-----------------------------------------------------------------------------

\* There is no row at the start.
LEMMA JobsStart == Init => JobsInv
<1> SUFFICES ASSUME Init PROVE JobsInv
  OBVIOUS
<1>1. Typed
  BY JobsAssumption DEF JobsAssumption, Init, Typed, Idle, Labels
<1>2. BeforeInsert
  BY DEF Init, BeforeInsert, Fresh
<1>3. AtPrompt
  BY DEF Init, AtPrompt, Idle
<1>4. BilledInv /\ PromptBilledOnce
  BY DEF Init, BilledInv, PromptBilledOnce
<1> QED
  BY <1>1, <1>2, <1>3, <1>4 DEF JobsInv

\* Once the row is there, a step that bills nothing and completes nothing keeps the
\* invariant if no runner claims more than before.
LEMMA QuietKeeps ==
    ASSUME JobsInv, creating # "no", creating' \in {"inserted", "done"},
           UNCHANGED <<type, billVars>>,
           "job.completed" \in notices' => "job.completed" \in notices,
           run' \in [Runners -> [pc : Labels, entry : Entry \cup {None}, next : 1..(Prompts + 1)]],
           AtPrompt',
           \A r \in Runners : Billed(r)' <= Billed(r)
    PROVE  JobsInv'
<1>1. Typed' /\ BeforeInsert'
  BY DEF JobsInv, Typed, BeforeInsert, billVars
<1>2. ASSUME NEW r \in Runners PROVE 1..(Billed(r)') \subseteq 1..Billed(r)
  <2>1. Billed(r) \in Nat /\ Billed(r)' \in Nat
    BY DEF Billed, JobsInv, Typed
  <2>2. Billed(r)' <= Billed(r)
    OBVIOUS
  <2> QED
    BY <2>1, <2>2
<1>3. type' = type /\ usage' = usage /\ recorded' = recorded
  BY DEF billVars
<1>4. BilledInv'
  <2>1. BilledInv
    BY DEF JobsInv
  <2>2. CASE type = "bulk_chat"
    <3>1. ASSUME NEW r \in Runners PROVE 1..(Billed(r)') \subseteq usage'
      BY <1>2, <1>3, <2>1, <2>2 DEF BilledInv
    <3> QED
      BY <1>3, <2>1, <2>2, <3>1 DEF BilledInv
  <2>3. CASE type # "bulk_chat"
    BY <1>3, <2>1, <2>3 DEF BilledInv
  <2> QED
    BY <2>2, <2>3
<1>5. PromptBilledOnce'
  BY <1>3 DEF JobsInv, PromptBilledOnce
<1> QED
  BY <1>1, <1>4, <1>5 DEF JobsInv

\* In particular one that leaves the runners alone.
LEMMA ElsewhereKeeps ==
    ASSUME JobsInv, creating # "no", creating' \in {"inserted", "done"},
           UNCHANGED <<type, billVars, run>>,
           "job.completed" \in notices' => "job.completed" \in notices
    PROVE  JobsInv'
<1>1. run' = run
  OBVIOUS
<1>2. AtPrompt'
  BY <1>1 DEF JobsInv, AtPrompt
<1>3. \A r \in Runners : Billed(r)' = Billed(r) /\ Billed(r) \in Nat
  BY <1>1 DEF Billed, JobsInv, Typed
<1>4. \A r \in Runners : Billed(r)' <= Billed(r)
  BY <1>3
<1>5. run' \in [Runners -> [pc : Labels, entry : Entry \cup {None}, next : 1..(Prompts + 1)]]
  BY <1>1 DEF JobsInv, Typed
<1> QED
  BY <1>2, <1>4, <1>5, QuietKeeps

\* What a runner's jump to another label changes.
LEMMA GotoRunner ==
    ASSUME JobsInv, NEW r \in Runners, NEW l \in Labels, Goto(r, l)
    PROVE  /\ run' \in [Runners -> [pc : Labels, entry : Entry \cup {None}, next : 1..(Prompts + 1)]]
           /\ run'[r].pc = l /\ run'[r].next = run[r].next
           /\ \A q \in Runners \ {r} : run'[q] = run[q]
  BY DEF Goto, JobsInv, Typed

\* A runner that is not idle runs a job whose row is there.
LEMMA RunnerHasRow ==
    ASSUME JobsInv, NEW r \in Runners, run[r].pc # "idle"
    PROVE  creating \in {"inserted", "done"}
  BY DEF JobsInv, Typed, BeforeInsert, Idle

\* Ending an attempt, however it ends.
LEMMA EndAttemptKeeps ==
    ASSUME JobsInv, NEW r \in Runners, run[r].pc # "idle", run' = [run EXCEPT ![r] = Idle],
           UNCHANGED <<queueVars, billVars, notices>>
    PROVE  JobsInv'
<1>1. creating \in {"inserted", "done"} /\ creating' = creating
  BY RunnerHasRow DEF queueVars
<1>2. run' \in [Runners -> [pc : Labels, entry : Entry \cup {None}, next : 1..(Prompts + 1)]]
  BY JobsAssumption DEF JobsAssumption, JobsInv, Typed, Idle, Labels
<1>3. run'[r] = Idle /\ \A q \in Runners \ {r} : run'[q] = run[q]
  BY DEF JobsInv, Typed
<1>4. AtPrompt'
  BY <1>3 DEF JobsInv, AtPrompt, Idle
<1>5. ASSUME NEW q \in Runners PROVE Billed(q)' <= Billed(q)
  <2>1. CASE q = r
    BY <1>3, <2>1 DEF Billed, Idle, JobsInv, Typed
  <2>2. CASE q # r
    BY <1>3, <2>2 DEF Billed, JobsInv, Typed
  <2> QED
    BY <2>1, <2>2
<1> QED
  BY <1>1, <1>2, <1>4, <1>5, QuietKeeps DEF queueVars

-----------------------------------------------------------------------------

\* The row gets its type when nothing has been billed and nobody runs.
LEMMA InsertKeeps == ASSUME JobsInv, Insert PROVE JobsInv'
<1>1. type' \in KnownTypes /\ creating' = "inserted"
  BY DEF Insert, Accepted
<1>2. run' = run /\ usage' = usage /\ recorded' = recorded /\ notices' = notices
  BY DEF Insert, billVars
<1>3. usage = {} /\ notices = {} /\ \A r \in Runners : run[r] = Idle
  BY DEF Insert, JobsInv, BeforeInsert
<1>4. Typed' /\ BeforeInsert'
  BY <1>1, <1>2 DEF JobsInv, Typed, BeforeInsert
<1>5. AtPrompt'
  BY <1>2 DEF JobsInv, AtPrompt
<1>6. \A r \in Runners : 1..(Billed(r)') = {}
  BY <1>2, <1>3 DEF Billed, Idle
<1>7. BilledInv'
  BY <1>2, <1>3, <1>6 DEF BilledInv
<1>8. PromptBilledOnce'
  BY <1>2 DEF JobsInv, PromptBilledOnce
<1> QED
  BY <1>4, <1>5, <1>7, <1>8 DEF JobsInv

\* The rest of the requests bill nothing, and need the row.
LEMMA RequestKeeps == ASSUME JobsInv, Requests PROVE JobsInv'
<1>1. CASE Insert
  BY <1>1, InsertKeeps
<1>2. CASE CreateEnqueue
  BY <1>2, ElsewhereKeeps DEF CreateEnqueue, billVars
<1>3. ASSUME NEW c \in Replayers, ReplayCheck(c) \/ ReplayReset(c) \/ ReplayEnqueue(c)
      PROVE  JobsInv'
  <2>1. creating \in {"inserted", "done"}
    BY <1>3 DEF ReplayCheck, ReplayReset, ReplayEnqueue, JobsInv, Typed, BeforeInsert
  <2>2. creating' = creating /\ UNCHANGED <<type, billVars, run, notices>>
    BY <1>3 DEF ReplayCheck, ReplayReset, ReplayEnqueue
  <2> QED
    BY <2>1, <2>2, ElsewhereKeeps
<1>4. CASE Connect \/ Listen
  BY <1>4 DEF Connect, Listen, JobsInv, Typed, BeforeInsert, AtPrompt, BilledInv, Billed,
     PromptBilledOnce, queueVars, billVars
<1> QED
  BY <1>1, <1>2, <1>3, <1>4 DEF Requests

\* An attempt begins at the first prompt.
LEMMA TakeKeeps == ASSUME JobsInv, NEW r \in Runners, NEW b \in Entry, Take(r, b) PROVE JobsInv'
<1>1. creating \in {"inserted", "done"} /\ creating' = creating
  BY DEF Take, queueVars, JobsInv, Typed, BeforeInsert
<1>2. run' = [run EXCEPT ![r] = [pc |-> "taken", entry |-> b, next |-> 1]] /\ run[r] = Idle
  BY DEF Take
<1>3. run' \in [Runners -> [pc : Labels, entry : Entry \cup {None}, next : 1..(Prompts + 1)]]
  BY <1>2, JobsAssumption DEF JobsAssumption, JobsInv, Typed, Labels
<1>4. /\ run'[r] = [pc |-> "taken", entry |-> b, next |-> 1]
      /\ \A q \in Runners \ {r} : run'[q] = run[q]
  BY <1>2 DEF JobsInv, Typed
<1>5. AtPrompt'
  BY <1>4 DEF JobsInv, AtPrompt
<1>6. ASSUME NEW q \in Runners PROVE Billed(q)' <= Billed(q)
  <2>1. CASE q = r
    BY <1>2, <1>4, <2>1 DEF Billed, Idle
  <2>2. CASE q # r
    BY <1>4, <2>2 DEF Billed, JobsInv, Typed
  <2> QED
    BY <2>1, <2>2
<1> QED
  BY <1>1, <1>3, <1>5, <1>6, QuietKeeps DEF Take, queueVars

\* markJobRunning and the embedding of a text bill nothing.
LEMMA UnbilledKeeps ==
    ASSUME JobsInv, NEW r \in Runners, MarkJobRunning(r) \/ Embed(r)
    PROVE  JobsInv'
<1>1. run[r].pc \in {"taken", "billing"} /\ UNCHANGED <<queueVars, billVars, notices>>
  BY DEF MarkJobRunning, Embed
<1>2. creating \in {"inserted", "done"} /\ creating' = creating
  BY <1>1, RunnerHasRow DEF queueVars
<1>3. CASE MarkJobRunning(r)
  <2>1. Goto(r, "billing") /\ run[r].pc = "taken"
    BY <1>3 DEF MarkJobRunning
  <2>2. /\ run' \in [Runners -> [pc : Labels, entry : Entry \cup {None}, next : 1..(Prompts + 1)]]
        /\ run'[r].pc = "billing" /\ run'[r].next = run[r].next
        /\ \A q \in Runners \ {r} : run'[q] = run[q]
    BY <2>1, GotoRunner DEF Labels
  <2>3. AtPrompt'
    BY <2>1, <2>2, JobsAssumption DEF JobsAssumption, JobsInv, AtPrompt
  <2>4. \A q \in Runners : Billed(q)' <= Billed(q)
    BY <2>1, <2>2 DEF Billed, JobsInv, Typed
  <2> QED
    BY <1>1, <1>2, <2>2, <2>3, <2>4, QuietKeeps DEF queueVars
<1>4. CASE Embed(r)
  <2>1. Goto(r, "reporting") /\ run[r].pc = "billing" /\ type = "batch_embeddings"
    BY <1>4 DEF Embed
  <2>2. /\ run' \in [Runners -> [pc : Labels, entry : Entry \cup {None}, next : 1..(Prompts + 1)]]
        /\ run'[r].pc = "reporting" /\ run'[r].next = run[r].next
        /\ \A q \in Runners \ {r} : run'[q] = run[q]
    BY <2>1, GotoRunner DEF Labels
  <2>3. AtPrompt'
    BY <2>1, <2>2 DEF JobsInv, AtPrompt
  <2>4. Typed' /\ BeforeInsert' /\ BilledInv' /\ PromptBilledOnce'
    BY <1>1, <1>2, <2>1, <2>2 DEF JobsInv, Typed, BeforeInsert, BilledInv, PromptBilledOnce,
       queueVars, billVars
  <2> QED
    BY <2>3, <2>4 DEF JobsInv
<1> QED
  BY <1>3, <1>4

\* billJobUsage: the prompt is recorded now or was by another attempt.
LEMMA BillKeeps == ASSUME JobsInv, NEW r \in Runners, BillJobUsage(r) PROVE JobsInv'
<1>1. /\ run[r].pc = "billing" /\ type = "bulk_chat" /\ Goto(r, "reporting")
      /\ usage' = usage \cup {run[r].next}
      /\ UNCHANGED <<queueVars, notices>>
  BY DEF BillJobUsage
<1>2. creating \in {"inserted", "done"} /\ creating' = creating /\ type' = type
  BY <1>1, RunnerHasRow DEF queueVars
<1>3. /\ run' \in [Runners -> [pc : Labels, entry : Entry \cup {None}, next : 1..(Prompts + 1)]]
      /\ run'[r].pc = "reporting" /\ run'[r].next = run[r].next
      /\ \A q \in Runners \ {r} : run'[q] = run[q]
  BY <1>1, GotoRunner DEF Labels
<1>4. run[r].next \in 1..Prompts
  BY <1>1, JobsAssumption DEF JobsAssumption, JobsInv, AtPrompt, Typed
<1>5. AtPrompt'
  BY <1>1, <1>3 DEF JobsInv, AtPrompt
<1>6. recorded' \in [1..Prompts -> Nat] /\ PromptBilledOnce'
  BY <1>1, <1>4 DEF BillJobUsage, JobsInv, Typed, PromptBilledOnce
<1>7. Typed' /\ BeforeInsert'
  BY <1>1, <1>2, <1>3, <1>4, <1>6 DEF JobsInv, Typed, BeforeInsert
<1>8. ASSUME NEW q \in Runners PROVE 1..(Billed(q)') \subseteq usage'
  <2>1. 1..Billed(q) \subseteq usage
    BY <1>1 DEF JobsInv, BilledInv
  <2>2. CASE q = r
    <3>1. Billed(r)' = run[r].next /\ Billed(r) = run[r].next - 1
      BY <1>1, <1>3 DEF Billed
    <3>2. 1..run[r].next = 1..(run[r].next - 1) \cup {run[r].next}
      BY <1>4, JobsAssumption DEF JobsAssumption
    <3> QED
      BY <1>1, <2>1, <2>2, <3>1, <3>2
  <2>3. CASE q # r
    <3>1. Billed(q)' = Billed(q)
      BY <1>3, <2>3 DEF Billed
    <3> QED
      BY <1>1, <2>1, <3>1
  <2> QED
    BY <2>2, <2>3
<1>9. BilledInv'
  BY <1>1, <1>2, <1>8 DEF JobsInv, BilledInv
<1> QED
  BY <1>5, <1>6, <1>7, <1>9 DEF JobsInv

\* updateJobProgress: the next prompt, with all before it billed.
LEMMA ProgressKeeps == ASSUME JobsInv, NEW r \in Runners, UpdateJobProgress(r) PROVE JobsInv'
<1>1. /\ run[r].pc = "reporting"
      /\ run' = [run EXCEPT ![r].next = @ + 1,
                            ![r].pc = IF run[r].next = Prompts THEN "finishing" ELSE "billing"]
      /\ UNCHANGED <<queueVars, billVars, notices>>
  BY DEF UpdateJobProgress
<1>2. creating \in {"inserted", "done"} /\ creating' = creating
  BY <1>1, RunnerHasRow DEF queueVars
<1>3. run[r].next \in 1..Prompts /\ Prompts \in Nat
  BY <1>1, JobsAssumption DEF JobsAssumption, JobsInv, AtPrompt, Typed
<1>4. /\ run'[r].pc = (IF run[r].next = Prompts THEN "finishing" ELSE "billing")
      /\ run'[r].next = run[r].next + 1
      /\ \A q \in Runners \ {r} : run'[q] = run[q]
  BY <1>1 DEF JobsInv, Typed
<1>5. run' \in [Runners -> [pc : Labels, entry : Entry \cup {None}, next : 1..(Prompts + 1)]]
  BY <1>1, <1>3 DEF JobsInv, Typed, Labels
<1>6. AtPrompt'
  BY <1>3, <1>4 DEF JobsInv, AtPrompt
<1>7. \A q \in Runners : Billed(q)' <= Billed(q)
  BY <1>1, <1>3, <1>4 DEF Billed, JobsInv, Typed
<1> QED
  BY <1>1, <1>2, <1>5, <1>6, <1>7, QuietKeeps DEF queueVars

\* markJobCompleted: the attempt is past its last prompt.
LEMMA CompleteKeeps == ASSUME JobsInv, NEW r \in Runners, MarkJobCompleted(r) PROVE JobsInv'
<1>1. run[r].pc = "finishing" /\ Goto(r, "completed") /\ UNCHANGED <<queueVars, billVars>>
  BY DEF MarkJobCompleted
<1>2. creating \in {"inserted", "done"} /\ creating' = creating
  BY <1>1, RunnerHasRow DEF queueVars
<1>3. /\ run' \in [Runners -> [pc : Labels, entry : Entry \cup {None}, next : 1..(Prompts + 1)]]
      /\ run'[r].pc = "completed" /\ run'[r].next = run[r].next
      /\ \A q \in Runners \ {r} : run'[q] = run[q]
  BY <1>1, GotoRunner DEF Labels
<1>4. Typed' /\ BeforeInsert' /\ PromptBilledOnce'
  BY <1>1, <1>2, <1>3 DEF JobsInv, Typed, BeforeInsert, PromptBilledOnce, queueVars, billVars
<1>5. AtPrompt'
  BY <1>1, <1>3 DEF JobsInv, AtPrompt
<1>6. \A q \in Runners : Billed(q)' = Billed(q)
  BY <1>1, <1>3 DEF Billed
<1>7. Billed(r) = Prompts
  BY <1>1, JobsAssumption DEF JobsAssumption, JobsInv, AtPrompt, Billed
<1>8. type = "bulk_chat" => 1..Prompts \subseteq usage
  BY <1>7 DEF JobsInv, BilledInv
<1>9. BilledInv'
  BY <1>1, <1>6, <1>8 DEF JobsInv, BilledInv, queueVars, billVars
<1> QED
  BY <1>4, <1>5, <1>9 DEF JobsInv

\* Every step of the clients, the queue and the runners keeps the invariant.
LEMMA JobsStep == ASSUME JobsInv, [Next]_vars PROVE JobsInv'
<1>1. CASE UNCHANGED vars
  BY <1>1 DEF vars, queueVars, billVars, JobsInv, Typed, BeforeInsert, AtPrompt, BilledInv,
     Billed, PromptBilledOnce
<1>2. CASE Requests
  BY <1>2, RequestKeeps
<1>3. CASE TakeSome
  BY <1>3, TakeKeeps DEF TakeSome
<1>4. ASSUME NEW r \in Runners, Process(r) PROVE JobsInv'
  <2>1. CASE Return(r)
    BY <2>1, EndAttemptKeeps DEF Return
  <2> QED
    BY <1>4, <2>1, UnbilledKeeps, BillKeeps, ProgressKeeps, CompleteKeeps DEF Process
<1>5. ASSUME NEW r \in Runners, Throw(r) \/ Crash(r) PROVE JobsInv'
  BY <1>5, EndAttemptKeeps DEF Throw, Crash
<1>6. ASSUME NEW final \in BOOLEAN, MarkJobFailed(final) \/ MarkJobFailedLost(final)
      PROVE  JobsInv'
  <2>1. creating \in {"inserted", "done"}
    BY <1>6 DEF MarkJobFailed, MarkJobFailedLost, JobsInv, Typed, BeforeInsert
  <2>2. creating' = creating /\ UNCHANGED <<type, billVars, run>>
    BY <1>6 DEF MarkJobFailed, MarkJobFailedLost, queueVars
  <2>3. "job.completed" \in notices' => "job.completed" \in notices
    BY <1>6 DEF MarkJobFailed, MarkJobFailedLost
  <2> QED
    BY <2>1, <2>2, <2>3, ElsewhereKeeps
<1>7. ASSUME NEW b \in Entry, Stall(b) PROVE JobsInv'
  <2>1. creating \in {"inserted", "done"}
    BY <1>7 DEF Stall, JobsInv, Typed, BeforeInsert
  <2>2. creating' = creating /\ UNCHANGED <<type, billVars, run, notices>>
    BY <1>7 DEF Stall, queueVars
  <2> QED
    BY <2>1, <2>2, ElsewhereKeeps
<1> QED
  BY <1>1, <1>2, <1>3, <1>4, <1>5, <1>6, <1>7 DEF Next

\* In every reachable state a runner's attempt has billed what it went through.
THEOREM JobsInvariant == Spec => []JobsInv
<1>1. JobsInv /\ [Next]_vars => JobsInv'
  BY JobsStep
<1> QED
  BY JobsStart, <1>1, PTL DEF Spec

\* Each prompt has one usage.recorded event if it has a usage record and none if it
\* has none, however often its job is retried, stalled, replayed or run twice at once.
THEOREM JobsPromptBilledOnce == Spec => []PromptBilledOnce
<1>1. JobsInv => PromptBilledOnce
  BY DEF JobsInv
<1> QED
  BY JobsInvariant, <1>1, PTL

\* A bulk_chat job whose completion has been announced is billed to its last prompt,
\* and a batch of embeddings not at all.
THEOREM JobsCompletedIsBilled == Spec => []CompletedIsBilled
<1>1. ASSUME JobsInv PROVE CompletedIsBilled
  <2>1. CASE type = "bulk_chat"
    BY <2>1, <1>1 DEF JobsInv, Typed, BilledInv, CompletedIsBilled
  <2>2. CASE type # "bulk_chat"
    BY <2>2, <1>1 DEF JobsInv, BilledInv, CompletedIsBilled
  <2> QED
    BY <2>1, <2>2
<1> QED
  BY JobsInvariant, <1>1, PTL
=============================================================================
