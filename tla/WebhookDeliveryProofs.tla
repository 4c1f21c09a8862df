------------------------ MODULE WebhookDeliveryProofs -----------------------
(***************************************************************************)
(* No endpoint is dropped from a fan-out that was acknowledged, a delivery *)
(* is posted a bounded number of times, and its log is honest, for any     *)
(* endpoints, workers, runs, attempts and stalls.  A worker that lost its  *)
(* lock may still post: the bound counts the posts that were sent and the  *)
(* ones that are licensed, each by an attempt or a stall.                  *)
(***************************************************************************)
EXTENDS WebhookDelivery, FiniteSetTheorems, TLAPS

Rows == {"none", "inserted", "enqueued", "deleted"}

Typed ==
    /\ endpoint \in [Endpoints -> {"none", "active", "deleted"}]
    /\ run \in Nat /\ pc \in {"over", "loop", "add"}
    /\ todo \subseteq Endpoints /\ audience \subseteq Endpoints
    /\ pc = "add" => cur \in Endpoints
    /\ row \in [Endpoints -> Rows] /\ watched \in Rows
    /\ status \in {"PENDING", "DELIVERED", "FAILED", "EXHAUSTED"}
    /\ entry \in [state : {"none", "waiting", "active", "gone"}, made : Nat, stalls : Nat,
                  owner : Workers \cup {None}]
    /\ work \in [Workers -> [pc : {"idle", "checking", "posting", "record", "throw", "return"},
                             outcome : {"none", "delivered", "rejected", "retry"}]]
    /\ late \in Nat /\ posts \in Nat /\ accepted \in BOOLEAN /\ fault \in BOOLEAN

\* Whoever was subscribed when the run began, and still is, is yet to be done, is
\* being done, or has its delivery in the queue.
FanInv ==
    /\ \A e \in Endpoints : row[e] = "deleted" => endpoint[e] = "deleted"
    /\ \A e \in audience :
          /\ endpoint[e] # "none"
          /\ endpoint[e] = "active" => e \in todo \/ (pc = "add" /\ e = cur) \/ row[e] = "enqueued"

\* The loop is past the watched row, which no later run inserts again.
Past ==
    \/ run > Watched[1]
    \/ run = Watched[1] /\ Watched[2] \notin todo /\ ~(pc = "add" /\ cur = Watched[2])

\* A queue entry is added once, and a worker that has its lock has it active.
EntryInv ==
    /\ pc = "add" => cur \notin todo
    /\ entry.state # "none" => Past
    /\ watched = "enqueued" => entry.state # "none"
    /\ entry.owner # None => entry.state = "active"

Posting == {w \in Workers : work[w].pc \in {"checking", "posting"}}

\* The retries that were granted: the last failed attempt grants none.
Retries == IF entry.made < MaxAttempts THEN entry.made ELSE MaxAttempts - 1

\* The POSTs that the queue has licensed: one for the entry and one for each retry
\* and each stall.
Licensed == (IF entry.state = "none" THEN 0 ELSE 1) + Retries + entry.stalls

\* Sent, about to be sent, or still to be handed out.
PostsInv ==
    /\ IsFiniteSet(Posting)
    /\ posts + Cardinality(Posting) + (IF entry.state = "waiting" THEN 1 ELSE 0) <= Licensed
    /\ entry.stalls <= MaxStalls

\* The status column, of a row that is still there.
Logged(s) == watched = "enqueued" => status = s

\* Nothing was accepted and nothing final is logged, after n POSTs.
Open(n) == ~accepted /\ posts = n /\ Logged("PENDING")

\* What worker w knows of its attempt, and what of it is logged.
AttemptInv(w) ==
    /\ work[w].pc \in {"checking", "posting"} => Open(entry.made)
    /\ work[w].pc = "record" =>
          \/ work[w].outcome = "delivered" /\ accepted /\ posts = entry.made + 1 /\ Logged("PENDING")
          \/ work[w].outcome = "rejected" /\ ~accepted /\ Logged("PENDING")
          \/ work[w].outcome = "retry" /\ Open(entry.made + 1)
    /\ work[w].pc = "return" =>
          \/ accepted /\ posts = entry.made + 1 /\ Logged("DELIVERED")
          \/ ~accepted /\ Logged("FAILED")
    /\ work[w].pc = "throw" => Open(entry.made + 1)

\* A delivery that is out of the queue has its outcome in the log, or the listener
\* is about to write it.
OutcomeInv ==
    \/ accepted /\ posts <= MaxAttempts /\ late = 0 /\ Logged("DELIVERED")
    \/ ~accepted /\ late = 0 /\ Logged("FAILED")
    \/ late = 1 /\ Open(MaxAttempts)
    \/ ~accepted /\ posts = MaxAttempts /\ late = 0 /\ Logged("EXHAUSTED")

\* Unless a fault has hit the delivery, only the owner of the lock works on it, and
\* the log is what the attempts so far make it.
LogInv ==
    ~fault =>
        /\ entry.state = "none" => entry.made = 0 /\ ~accepted /\ posts = 0 /\ status = "PENDING"
        /\ entry.state # "gone" => late = 0 /\ entry.made < MaxAttempts
        /\ entry.state = "waiting" => Open(entry.made)
        /\ entry.state = "gone" => OutcomeInv
        /\ entry.state = "active" => \E w \in Workers : work[w].pc # "idle"
        /\ \A w \in Workers :
              /\ work[w].pc # "idle" => entry.state = "active" /\ entry.owner = w
              /\ AttemptInv(w)

WebhookInv == Typed /\ FanInv /\ EntryInv /\ PostsInv /\ LogInv

-----------------------------------------------------------------------------

USE DEF loopVars, fanVars, workVars

\* Nothing is registered or queued at the start.
LEMMA WebhookStart == Init => WebhookInv
<1> SUFFICES ASSUME Init PROVE WebhookInv
  OBVIOUS
<1>1. Typed
  BY DEF Init, Typed, Rows, Idle
<1>2. FanInv /\ EntryInv
  BY DEF Init, FanInv, EntryInv
<1>3. Posting = {} /\ posts = 0 /\ entry.state = "none" /\ entry.made = 0 /\ entry.stalls = 0
  BY DEF Init, Posting, Idle
<1>4. PostsInv
  BY <1>3, FS_EmptySet, WebhookAssumption DEF WebhookAssumption, PostsInv, Licensed, Retries
<1>5. LogInv
  BY WebhookAssumption DEF WebhookAssumption, Init, LogInv, AttemptInv, Idle
<1> QED
  BY <1>1, <1>2, <1>4, <1>5 DEF WebhookInv

-----------------------------------------------------------------------------
(* The routes and the fan-out *)

\* A step of the routes or of the fan-out that adds no entry and does not bring
\* back a deleted row leaves the worker's part alone.
LEMMA FanKeepsWork ==
    ASSUME WebhookInv, UNCHANGED <<status, workVars, fault>>,
           entry.state # "none" /\ watched' = "enqueued" => watched = "enqueued"
    PROVE  PostsInv' /\ LogInv'
<1>1. PostsInv'
  BY DEF WebhookInv, PostsInv, Posting, Licensed, Retries
<1>2. ASSUME entry.state # "none", NEW w \in Workers, AttemptInv(w) PROVE AttemptInv(w)'
  BY <1>2 DEF AttemptInv, Open, Logged
<1>3. ASSUME entry.state # "none", OutcomeInv PROVE OutcomeInv'
  BY <1>3 DEF OutcomeInv, Open, Logged
<1>4. LogInv'
  <2> SUFFICES ASSUME ~fault' PROVE LogInv'
    BY DEF LogInv
  <2>1. CASE entry.state = "none"
    <3>1. \A w \in Workers : work[w].pc = "idle"
      BY <2>1 DEF WebhookInv, LogInv
    <3> QED
      BY <2>1, <3>1 DEF WebhookInv, LogInv, AttemptInv
  <2>2. CASE entry.state # "none"
    <3>1. \A w \in Workers : AttemptInv(w)'
      BY <1>2, <2>2 DEF WebhookInv, LogInv
    <3>2. entry.state = "gone" => OutcomeInv'
      BY <1>3, <2>2 DEF WebhookInv, LogInv
    <3>3. entry.state = "waiting" => Open(entry.made)'
      BY <2>2 DEF WebhookInv, LogInv, Open, Logged
    <3> QED
      BY <2>2, <3>1, <3>2, <3>3 DEF WebhookInv, LogInv
  <2> QED
    BY <2>1, <2>2
<1> QED
  BY <1>1, <1>4

\* A registration adds an endpoint that no run under way has read.
LEMMA PostWebhooksKeeps ==
    ASSUME WebhookInv, NEW e \in Endpoints, PostWebhooks(e)
    PROVE  WebhookInv'
<1>1. endpoint' = [endpoint EXCEPT ![e] = "active"] /\ endpoint[e] = "none"
  BY DEF PostWebhooks, RegisterWebhookEndpoint
<1>2. UNCHANGED <<event, run, pc, todo, cur, row, watched, audience, status, workVars, fault>>
  BY DEF PostWebhooks
<1>3. Typed'
  BY <1>1, <1>2 DEF WebhookInv, Typed
<1>4. FanInv'
  BY <1>1, <1>2 DEF WebhookInv, Typed, FanInv
<1>5. EntryInv'
  BY <1>2 DEF WebhookInv, EntryInv, Past
<1> QED
  BY <1>2, <1>3, <1>4, <1>5, FanKeepsWork DEF WebhookInv

\* A deletion takes the endpoint's rows with it.
LEMMA DeleteKeeps ==
    ASSUME WebhookInv, NEW e \in Endpoints, DeleteWebhookEndpoint(e)
    PROVE  WebhookInv'
<1>1. /\ endpoint' = [endpoint EXCEPT ![e] = "deleted"]
      /\ row' = [row EXCEPT ![e] = IF @ = "none" THEN @ ELSE "deleted"]
      /\ watched' \in {watched, "deleted"}
      /\ UNCHANGED <<run, pc, todo, cur, audience, status, workVars, fault>>
  BY DEF DeleteWebhookEndpoint
<1>2. Typed'
  BY <1>1 DEF WebhookInv, Typed, Rows
<1>3. FanInv'
  BY <1>1 DEF WebhookInv, Typed, FanInv
<1>4. EntryInv'
  BY <1>1 DEF WebhookInv, EntryInv, Past
<1>5. PostsInv' /\ LogInv'
  BY <1>1, FanKeepsWork
<1> QED
  BY <1>2, <1>3, <1>4, <1>5 DEF WebhookInv

\* A run starts with everyone it will be held to.
LEMMA StartKeeps == ASSUME WebhookInv, HandlerStart PROVE WebhookInv'
<1>1. /\ pc = "over" /\ run' = run + 1
      /\ UNCHANGED <<endpoint, cur, row, watched, status, workVars, fault>>
  BY DEF HandlerStart
<1>2. \/ pc' = "loop" /\ todo' = Subscribed /\ audience' = Subscribed
      \/ UNCHANGED <<pc, todo, audience>>
  BY DEF HandlerStart
<1>3. Typed'
  BY <1>1, <1>2 DEF WebhookInv, Typed, Subscribed
<1>4. FanInv'
  BY <1>1, <1>2 DEF WebhookInv, FanInv, Subscribed
<1>5. EntryInv'
  <2>1. entry.state # "none" => run' > Watched[1]
    BY <1>1, WebhookAssumption DEF WebhookAssumption, WebhookInv, Typed, EntryInv, Past
  <2> QED
    BY <1>1, <1>2, <2>1 DEF WebhookInv, EntryInv, Past
<1> QED
  BY <1>1, <1>3, <1>4, <1>5, FanKeepsWork DEF WebhookInv

\* The watched row is a run and an endpoint.
LEMMA WatchedPair ==
    /\ Watched[1] \in Nat /\ Watched[2] \in Endpoints
    /\ \A r, e : Watched = <<r, e>> <=> r = Watched[1] /\ e = Watched[2]
  BY WebhookAssumption DEF WebhookAssumption

\* The row of the next endpoint; the watched one is never inserted after its entry.
LEMMA InsertKeeps ==
    ASSUME WebhookInv, NEW e \in Endpoints, InsertDelivery(e)
    PROVE  WebhookInv'
<1>1. /\ pc = "loop" /\ e \in todo /\ endpoint[e] # "deleted"
      /\ pc' = "add" /\ todo' = todo \ {e} /\ cur' = e
      /\ row' = [row EXCEPT ![e] = "inserted"]
      /\ watched' = IF Watched = <<run, e>> THEN "inserted" ELSE watched
      /\ UNCHANGED <<endpoint, run, audience, status, workVars, fault>>
  BY DEF InsertDelivery, SetRow
<1>2. Typed'
  BY <1>1 DEF WebhookInv, Typed, Rows
<1>3. FanInv'
  BY <1>1 DEF WebhookInv, Typed, FanInv
<1>4. entry.state # "none" => Past'
  BY <1>1 DEF WebhookInv, EntryInv, Past
<1>5. EntryInv'
  BY <1>1, <1>4 DEF WebhookInv, EntryInv
<1>6. PostsInv' /\ LogInv'
  BY <1>1, FanKeepsWork
<1> QED
  BY <1>2, <1>3, <1>5, <1>6 DEF WebhookInv

\* queue.add: the watched row's entry is added for the first time.
LEMMA AddKeeps == ASSUME WebhookInv, AddToQueue PROVE WebhookInv'
<1>1. /\ pc = "add" /\ cur \in Endpoints
      /\ pc' = "loop" /\ cur' = None
      /\ UNCHANGED <<endpoint, run, todo, audience, status, work, late, posts, accepted, fault>>
  BY DEF AddToQueue, WebhookInv, Typed
<1>2. row' = [row EXCEPT ![cur] = IF row[cur] = "deleted" THEN "deleted" ELSE "enqueued"]
  BY DEF AddToQueue, SetRow
<1>3. FanInv'
  BY <1>1, <1>2 DEF WebhookInv, Typed, FanInv
<1>4. CASE Watched # <<run, cur>>
  <2>1. watched' = watched /\ entry' = entry
    BY <1>4 DEF AddToQueue, SetRow
  <2>2. Typed'
    BY <1>1, <1>2, <2>1 DEF WebhookInv, Typed, Rows
  <2>3. EntryInv'
    BY <1>1, <2>1 DEF WebhookInv, EntryInv, Past
  <2>4. PostsInv' /\ LogInv'
    BY <1>1, <2>1, FanKeepsWork
  <2> QED
    BY <1>3, <2>2, <2>3, <2>4 DEF WebhookInv
<1>5. CASE Watched = <<run, cur>>
  <2>1. watched' \in {"deleted", "enqueued"} /\ entry' = [entry EXCEPT !.state = "waiting"]
    BY <1>5 DEF AddToQueue, SetRow
  <2>2. run = Watched[1] /\ cur = Watched[2] /\ run \in Nat
    BY <1>5, WatchedPair DEF WebhookInv, Typed
  <2>3. entry.state = "none"
    BY <1>1, <2>2 DEF WebhookInv, EntryInv, Past
  <2>4. /\ entry'.state = "waiting" /\ entry'.made = entry.made /\ entry'.stalls = entry.stalls
        /\ entry'.owner = entry.owner
    BY <2>1 DEF WebhookInv, Typed
  <2>5. Typed'
    BY <1>1, <1>2, <2>1 DEF WebhookInv, Typed, Rows
  <2>6. Past'
    BY <1>1, <2>2 DEF Past, WebhookInv, EntryInv
  <2>7. EntryInv'
    BY <1>1, <2>3, <2>4, <2>6 DEF WebhookInv, EntryInv
  <2>8. PostsInv'
    <3>1. Posting' = Posting /\ posts' = posts /\ IsFiniteSet(Posting)
      BY <1>1 DEF Posting, WebhookInv, PostsInv
    <3>2. Cardinality(Posting) \in Nat
      BY <3>1, FS_CardinalityType
    <3>3. Retries \in Nat /\ Retries' = Retries /\ entry.stalls \in Nat /\ posts \in Nat
      BY <2>4, WebhookAssumption DEF WebhookAssumption, Retries, WebhookInv, Typed
    <3> QED
      BY <2>3, <2>4, <3>1, <3>2, <3>3 DEF WebhookInv, PostsInv, Licensed
  <2>9. LogInv'
    <3> SUFFICES ASSUME ~fault' PROVE LogInv'
      BY DEF LogInv
    <3>1. \A w \in Workers : work[w].pc = "idle"
      BY <1>1, <2>3 DEF WebhookInv, LogInv
    <3>2. Open(entry.made)'
      BY <1>1, <2>3, <2>4 DEF WebhookInv, LogInv, Open, Logged
    <3>3. \A w \in Workers : AttemptInv(w)'
      BY <1>1, <3>1 DEF AttemptInv
    <3> QED
      BY <1>1, <2>3, <2>4, <3>1, <3>2, <3>3 DEF WebhookInv, LogInv
  <2> QED
    BY <1>3, <2>5, <2>7, <2>8, <2>9 DEF WebhookInv
<1> QED
  BY <1>4, <1>5

\* A run that ends has nobody to be held to.
LEMMA EndRunKeeps == ASSUME WebhookInv, HandlerFails \/ HandlerDone PROVE WebhookInv'
<1>1. /\ pc' = "over" /\ todo' = {} /\ audience' = {} /\ row' = [e \in Endpoints |-> "none"]
      /\ UNCHANGED <<endpoint, run, watched, status, workVars, fault>>
  BY DEF HandlerFails, HandlerDone, EndRun
<1>2. Typed'
  BY <1>1 DEF WebhookInv, Typed, Rows
<1>3. FanInv'
  BY <1>1 DEF FanInv
<1>4. EntryInv'
  BY <1>1 DEF WebhookInv, EntryInv, Past
<1> QED
  BY <1>1, <1>2, <1>3, <1>4, FanKeepsWork DEF WebhookInv

\* Every step of the routes and of the fan-out.
LEMMA FanStep ==
    ASSUME WebhookInv,
           Handler \/ \E e \in Endpoints : PostWebhooks(e) \/ DeleteWebhookEndpoint(e)
    PROVE  WebhookInv'
  BY PostWebhooksKeeps, DeleteKeeps, StartKeeps, InsertKeeps, AddKeeps, EndRunKeeps DEF Handler

-----------------------------------------------------------------------------
(* The worker *)

\* A step of the worker leaves the fan-out alone.
LEMMA WorkKeepsFan ==
    ASSUME WebhookInv, UNCHANGED fanVars, entry'.state = "none" <=> entry.state = "none",
           entry'.owner # None => entry'.state = "active"
    PROVE  FanInv' /\ EntryInv'
  BY DEF WebhookInv, FanInv, EntryInv, Past

\* The counts are numbers.
LEMMA PostsTypes ==
    ASSUME WebhookInv
    PROVE  /\ IsFiniteSet(Posting) /\ Cardinality(Posting) \in Nat
           /\ Retries \in Nat /\ entry.stalls \in Nat /\ posts \in Nat
           /\ MaxStalls \in Nat /\ MaxAttempts \in Nat \ {0}
  BY FS_CardinalityType, WebhookAssumption
     DEF WebhookAssumption, WebhookInv, Typed, PostsInv, Retries

\* A step that sends nothing, takes nothing and leaves the entry alone.
LEMMA IdlePostsKeep ==
    ASSUME WebhookInv, Posting' \subseteq Posting, UNCHANGED <<entry, posts>>
    PROVE  PostsInv'
<1>1. IsFiniteSet(Posting') /\ Cardinality(Posting') <= Cardinality(Posting)
  BY PostsTypes, FS_Subset
<1>2. Cardinality(Posting') \in Nat
  BY <1>1, FS_CardinalityType
<1> QED
  BY <1>1, <1>2, PostsTypes DEF WebhookInv, PostsInv, Licensed, Retries

\* The entry is handed out: what was to be handed out is about to be sent.
LEMMA TakeKeeps == ASSUME WebhookInv, NEW w \in Workers, Take(w) PROVE WebhookInv'
<1>1. /\ entry.state = "waiting" /\ work[w].pc = "idle"
      /\ entry' = [entry EXCEPT !.state = "active", !.owner = w]
      /\ work' = [work EXCEPT ![w] = [pc |-> "checking", outcome |-> "none"]]
      /\ UNCHANGED <<fanVars, status, late, posts, accepted, fault>>
  BY DEF Take, Idle
<1>2. /\ entry'.state = "active" /\ entry'.owner = w
      /\ entry'.made = entry.made /\ entry'.stalls = entry.stalls
  BY <1>1 DEF WebhookInv, Typed
<1>3. work'[w].pc = "checking" /\ \A u \in Workers \ {w} : work'[u] = work[u]
  BY <1>1 DEF WebhookInv, Typed
<1>4. Typed'
  BY <1>1 DEF WebhookInv, Typed
<1>5. FanInv' /\ EntryInv'
  BY <1>1, <1>2, WorkKeepsFan
<1>6. PostsInv'
  <2>1. Posting' = Posting \cup {w} /\ w \notin Posting
    BY <1>1, <1>3 DEF Posting
  <2>2. IsFiniteSet(Posting') /\ Cardinality(Posting') = Cardinality(Posting) + 1
    BY <2>1, PostsTypes, FS_AddElement
  <2>3. Retries' = Retries
    BY <1>2 DEF Retries
  <2> QED
    BY <1>1, <1>2, <2>2, <2>3, PostsTypes DEF WebhookInv, PostsInv, Licensed
<1>7. LogInv'
  <2> SUFFICES ASSUME ~fault' PROVE LogInv'
    BY DEF LogInv
  <2>1. ~fault
    BY <1>1
  <2>2. \A u \in Workers : work[u].pc = "idle"
    BY <1>1, <2>1 DEF WebhookInv, LogInv
  <2>3. Open(entry.made)'
    BY <1>1, <1>2, <2>1 DEF WebhookInv, LogInv, Open, Logged
  <2>4. \A u \in Workers : AttemptInv(u)'
    BY <1>3, <2>2, <2>3 DEF AttemptInv
  <2>5. late' = 0 /\ entry'.made < MaxAttempts
    BY <1>1, <1>2, <2>1 DEF WebhookInv, LogInv
  <2> QED
    BY <1>2, <1>3, <2>2, <2>4, <2>5 DEF LogInv
<1> QED
  BY <1>4, <1>5, <1>6, <1>7 DEF WebhookInv

\* Under the lock and without a fault, a step of its worker that leaves the entry
\* alone has to account for its own attempt only.
LEMMA OwnAttempt ==
    ASSUME WebhookInv, NEW w \in Workers, work[w].pc # "idle", UNCHANGED <<entry, late, fault>>,
           work'[w].pc # "idle", \A u \in Workers \ {w} : work'[u] = work[u],
           ~fault => AttemptInv(w)'
    PROVE  LogInv'
<1> SUFFICES ASSUME ~fault' PROVE LogInv'
  BY DEF LogInv
<1>1. ~fault /\ entry.state = "active" /\ entry.owner = w
  BY DEF WebhookInv, LogInv
<1>2. \A u \in Workers \ {w} : work'[u].pc = "idle"
  BY <1>1 DEF WebhookInv, LogInv
<1>3. \A u \in Workers : AttemptInv(u)'
  BY <1>1, <1>2 DEF AttemptInv
<1>4. late' = 0 /\ entry'.made < MaxAttempts
  BY <1>1 DEF WebhookInv, LogInv
<1> QED
  BY <1>1, <1>2, <1>3, <1>4 DEF LogInv

\* The guard blocks the target: an attempt without a POST, and its outcome is final.
LEMMA BlockKeeps == ASSUME WebhookInv, NEW w \in Workers, BlockTarget(w) PROVE WebhookInv'
<1>1. /\ work[w].pc = "checking"
      /\ work' = [work EXCEPT ![w].pc = "record", ![w].outcome = "rejected"]
      /\ UNCHANGED <<fanVars, status, entry, late, posts, accepted, fault>>
  BY DEF BlockTarget
<1>2. /\ work'[w].pc = "record" /\ work'[w].outcome = "rejected"
      /\ \A u \in Workers \ {w} : work'[u] = work[u]
  BY <1>1 DEF WebhookInv, Typed
<1>3. Typed'
  BY <1>1 DEF WebhookInv, Typed
<1>4. FanInv' /\ EntryInv'
  BY <1>1, WorkKeepsFan DEF WebhookInv, EntryInv
<1>5. Posting' \subseteq Posting
  BY <1>2 DEF Posting
<1>6. PostsInv'
  BY <1>1, <1>5, IdlePostsKeep
<1>7. ~fault => AttemptInv(w)'
  BY <1>1, <1>2 DEF WebhookInv, LogInv, AttemptInv, Open, Logged
<1>8. LogInv'
  BY <1>1, <1>2, <1>7, OwnAttempt
<1> QED
  BY <1>3, <1>4, <1>6, <1>8 DEF WebhookInv

\* The guard lets the target pass: the POST is still about to be sent.
LEMMA PassKeeps == ASSUME WebhookInv, NEW w \in Workers, PassTarget(w) PROVE WebhookInv'
<1>1. /\ work[w].pc = "checking"
      /\ work' = [work EXCEPT ![w].pc = "posting"]
      /\ UNCHANGED <<fanVars, status, entry, late, posts, accepted, fault>>
  BY DEF PassTarget
<1>2. work'[w].pc = "posting" /\ \A u \in Workers \ {w} : work'[u] = work[u]
  BY <1>1 DEF WebhookInv, Typed
<1>3. Typed'
  BY <1>1 DEF WebhookInv, Typed
<1>4. FanInv' /\ EntryInv'
  BY <1>1, WorkKeepsFan DEF WebhookInv, EntryInv
<1>5. Posting' \subseteq Posting
  BY <1>1, <1>2 DEF Posting
<1>6. PostsInv'
  BY <1>1, <1>5, IdlePostsKeep
<1>7. ~fault => AttemptInv(w)'
  BY <1>1, <1>2 DEF WebhookInv, LogInv, AttemptInv, Open, Logged
<1>8. LogInv'
  BY <1>1, <1>2, <1>7, OwnAttempt
<1> QED
  BY <1>3, <1>4, <1>6, <1>8 DEF WebhookInv

\* The POST is sent: one that was about to be.
LEMMA SendKeeps == ASSUME WebhookInv, NEW w \in Workers, SendAndClassify(w) PROVE WebhookInv'
<1>1. PICK answer \in {"2xx", "3xx", "4xx", "5xx", "none"} :
        /\ work' = [work EXCEPT ![w].pc = "record", ![w].outcome = Classify(answer)]
        /\ accepted' = (accepted \/ answer = "2xx")
  BY DEF SendAndClassify
<1>2. /\ work[w].pc = "posting" /\ posts' = posts + 1
      /\ UNCHANGED <<fanVars, status, entry, late, fault>>
  BY DEF SendAndClassify
<1>3. /\ Classify(answer) \in {"delivered", "rejected", "retry"}
      /\ Classify(answer) = "delivered" <=> answer = "2xx"
  BY DEF Classify
<1>4. /\ work'[w].pc = "record" /\ work'[w].outcome = Classify(answer)
      /\ \A u \in Workers \ {w} : work'[u] = work[u]
  BY <1>1 DEF WebhookInv, Typed
<1>5. Typed'
  <2>1. work' \in [Workers -> [pc : {"idle", "checking", "posting", "record", "throw", "return"},
                               outcome : {"none", "delivered", "rejected", "retry"}]]
    BY <1>1, <1>3 DEF WebhookInv, Typed
  <2>2. accepted' \in BOOLEAN
    BY <1>1, Zenon
  <2> QED
    BY <1>2, <2>1, <2>2 DEF WebhookInv, Typed
<1>6. FanInv' /\ EntryInv'
  BY <1>2, WorkKeepsFan DEF WebhookInv, EntryInv
<1>7. PostsInv'
  <2>1. Posting' = Posting \ {w} /\ w \in Posting
    BY <1>2, <1>4 DEF Posting
  <2>2. IsFiniteSet(Posting') /\ Cardinality(Posting') = Cardinality(Posting) - 1
    BY <2>1, PostsTypes, FS_RemoveElement
  <2>3. Licensed' = Licensed
    BY <1>2 DEF Licensed, Retries
  <2>4. posts' + Cardinality(Posting') = posts + Cardinality(Posting)
    BY <1>2, <2>2, PostsTypes
  <2> QED
    BY <1>2, <2>2, <2>3, <2>4 DEF WebhookInv, PostsInv
<1>8. ASSUME ~fault PROVE AttemptInv(w)'
  <2>1. ~accepted /\ posts = entry.made /\ Logged("PENDING") /\ Logged("PENDING")'
    BY <1>2, <1>8 DEF WebhookInv, LogInv, AttemptInv, Open, Logged
  <2>2. accepted' <=> answer = "2xx"
    BY <1>1, <2>1, Zenon
  <2>3. posts' = entry'.made + 1
    BY <1>2, <2>1
  <2>4. CASE answer = "2xx"
    BY <1>3, <1>4, <2>1, <2>2, <2>3, <2>4 DEF AttemptInv
  <2>5. CASE answer # "2xx"
    <3>1. ~accepted' /\ Classify(answer) \in {"rejected", "retry"}
      BY <1>3, <2>2, <2>5
    <3> QED
      BY <1>4, <2>1, <2>3, <3>1 DEF AttemptInv, Open
  <2> QED
    BY <2>4, <2>5
<1>9. LogInv'
  BY <1>2, <1>4, <1>8, OwnAttempt
<1> QED
  BY <1>5, <1>6, <1>7, <1>9 DEF WebhookInv

\* recordDeliveryAttempt writes the outcome of the attempt.
LEMMA RecordKeeps ==
    ASSUME WebhookInv, NEW w \in Workers, RecordDeliveryAttempt(w)
    PROVE  WebhookInv'
<1> DEFINE o == work[w].outcome
<1>1. /\ work[w].pc = "record"
      /\ work' = [work EXCEPT ![w].pc = IF o = "retry" THEN "throw" ELSE "return"]
      /\ UNCHANGED <<fanVars, entry, late, posts, accepted, fault>>
  BY DEF RecordDeliveryAttempt
<1>2. status' = IF watched = "deleted" THEN status
                ELSE CASE o = "delivered" -> "DELIVERED"
                       [] o = "rejected" -> "FAILED"
                       [] OTHER -> "PENDING"
  BY DEF RecordDeliveryAttempt, Log
<1>3. /\ work'[w].pc = IF o = "retry" THEN "throw" ELSE "return"
      /\ \A u \in Workers \ {w} : work'[u] = work[u]
  BY <1>1 DEF WebhookInv, Typed
<1>4. Typed'
  <2>1. status' \in {"PENDING", "DELIVERED", "FAILED", "EXHAUSTED"}
    BY <1>2 DEF WebhookInv, Typed
  <2>2. work' \in [Workers -> [pc : {"idle", "checking", "posting", "record", "throw", "return"},
                               outcome : {"none", "delivered", "rejected", "retry"}]]
    BY <1>1 DEF WebhookInv, Typed
  <2> QED
    BY <1>1, <2>1, <2>2 DEF WebhookInv, Typed
<1>5. FanInv' /\ EntryInv'
  BY <1>1, WorkKeepsFan DEF WebhookInv, EntryInv
<1>6. Posting' \subseteq Posting
  BY <1>3 DEF Posting
<1>7. PostsInv'
  BY <1>1, <1>6, IdlePostsKeep
<1>8. ASSUME ~fault PROVE AttemptInv(w)'
  <2>1. AttemptInv(w)
    BY <1>8 DEF WebhookInv, LogInv
  <2>2. CASE o = "delivered"
    <3>1. work'[w].pc = "return" /\ Logged("DELIVERED")'
      BY <1>1, <1>2, <1>3, <2>2 DEF Logged
    <3> QED
      BY <1>1, <2>1, <2>2, <3>1 DEF AttemptInv
  <2>3. CASE o = "rejected"
    <3>1. work'[w].pc = "return" /\ Logged("FAILED")'
      BY <1>1, <1>2, <1>3, <2>3 DEF Logged
    <3> QED
      BY <1>1, <2>1, <2>3, <3>1 DEF AttemptInv
  <2>4. CASE o = "retry"
    <3>1. work'[w].pc = "throw" /\ Logged("PENDING")'
      BY <1>1, <1>2, <1>3, <2>4 DEF Logged
    <3> QED
      BY <1>1, <2>1, <2>4, <3>1 DEF AttemptInv, Open
  <2> QED
    BY <1>1, <2>1, <2>2, <2>3, <2>4 DEF AttemptInv
<1>9. work'[w].pc # "idle"
  BY <1>3
<1>10. LogInv'
  BY <1>1, <1>3, <1>8, <1>9, OwnAttempt
<1> QED
  BY <1>4, <1>5, <1>7, <1>10 DEF WebhookInv

\* A fault hits the delivery: the log is no longer answered for.
LEMMA FaultKeeps ==
    ASSUME WebhookInv, NEW w \in Workers, RecordFails(w) \/ Crash(w)
    PROVE  WebhookInv'
<1>1. fault' = TRUE /\ UNCHANGED <<fanVars, status, entry, late, posts, accepted>>
  BY DEF RecordFails, Crash
<1>2. \/ work[w].pc = "record" /\ work' = [work EXCEPT ![w].pc = "throw"]
      \/ work' = [work EXCEPT ![w] = Idle]
  BY DEF RecordFails, Crash
<1>3. Typed'
  BY <1>1, <1>2 DEF WebhookInv, Typed, Idle
<1>4. FanInv' /\ EntryInv'
  BY <1>1, WorkKeepsFan DEF WebhookInv, EntryInv
<1>5. Posting' \subseteq Posting
  BY <1>2 DEF Posting, WebhookInv, Typed, Idle
<1>6. PostsInv'
  BY <1>1, <1>5, IdlePostsKeep
<1>7. LogInv'
  BY <1>1 DEF LogInv
<1> QED
  BY <1>3, <1>4, <1>6, <1>7 DEF WebhookInv

\* The worker is done and gives the entry up.
LEMMA IdleWorker ==
    ASSUME WebhookInv, NEW w \in Workers, work[w].pc \in {"return", "throw"},
           work' = [work EXCEPT ![w] = Idle]
    PROVE  /\ work' \in [Workers -> [pc : {"idle", "checking", "posting", "record", "throw", "return"},
                                     outcome : {"none", "delivered", "rejected", "retry"}]]
           /\ work'[w].pc = "idle" /\ \A u \in Workers \ {w} : work'[u] = work[u]
           /\ Posting' = Posting
<1>1. work'[w] = Idle /\ \A u \in Workers \ {w} : work'[u] = work[u]
  BY DEF WebhookInv, Typed
<1>2. Posting' = Posting
  BY <1>1 DEF Posting, Idle
<1> QED
  BY <1>1, <1>2 DEF WebhookInv, Typed, Idle

\* The processor returns: the outcome is in the log.
LEMMA ReturnKeeps == ASSUME WebhookInv, NEW w \in Workers, Return(w) PROVE WebhookInv'
<1>1. /\ work[w].pc = "return" /\ work' = [work EXCEPT ![w] = Idle]
      /\ UNCHANGED <<fanVars, status, late, posts, accepted, fault>>
  BY DEF Return
<1>2. CASE entry.owner = w
  <2>1. entry' = [entry EXCEPT !.state = "gone", !.owner = None] /\ entry.state = "active"
    BY <1>2, WebhookAssumption DEF WebhookAssumption, Return, WebhookInv, EntryInv
  <2>2. /\ entry'.state = "gone" /\ entry'.owner = None
        /\ entry'.made = entry.made /\ entry'.stalls = entry.stalls
    BY <2>1 DEF WebhookInv, Typed
  <2>3. Typed'
    BY <1>1, <2>1, IdleWorker DEF WebhookInv, Typed
  <2>4. FanInv' /\ EntryInv'
    BY <1>1, <2>1, <2>2, WorkKeepsFan
  <2>5. PostsInv'
    <3>1. Posting' = Posting /\ Licensed' = Licensed
      BY <1>1, <2>1, <2>2, IdleWorker DEF Licensed, Retries
    <3> QED
      BY <1>1, <2>1, <2>2, <3>1, PostsTypes DEF WebhookInv, PostsInv
  <2>6. LogInv'
    <3> SUFFICES ASSUME ~fault' PROVE LogInv'
      BY DEF LogInv
    <3>1. ~fault
      BY <1>1
    <3>2. \A u \in Workers : work'[u].pc = "idle"
      BY <1>1, <1>2, <3>1, IdleWorker DEF WebhookInv, LogInv
    <3>3. late = 0 /\ entry.made < MaxAttempts /\ AttemptInv(w)
      BY <2>1, <3>1 DEF WebhookInv, LogInv
    <3>4. posts = entry.made + 1 => posts <= MaxAttempts
      BY <3>3, WebhookAssumption DEF WebhookAssumption, WebhookInv, Typed
    <3>5. OutcomeInv'
      BY <1>1, <3>3, <3>4 DEF AttemptInv, OutcomeInv, Logged
    <3> QED
      BY <2>2, <3>2, <3>5 DEF LogInv, AttemptInv
  <2> QED
    BY <2>3, <2>4, <2>5, <2>6 DEF WebhookInv
<1>3. CASE entry.owner # w
  <2>1. entry' = entry /\ (~fault => FALSE)
    BY <1>1, <1>3 DEF Return, WebhookInv, LogInv
  <2>2. Typed'
    BY <1>1, <2>1, IdleWorker DEF WebhookInv, Typed
  <2>3. FanInv' /\ EntryInv'
    BY <1>1, <2>1, WorkKeepsFan DEF WebhookInv, EntryInv
  <2>4. PostsInv'
    BY <1>1, <2>1, IdleWorker, IdlePostsKeep
  <2>5. LogInv'
    BY <1>1, <2>1 DEF LogInv
  <2> QED
    BY <2>2, <2>3, <2>4, <2>5 DEF WebhookInv
<1> QED
  BY <1>2, <1>3

\* The processor throws: a retry is granted, or the listener is told.
LEMMA ThrowKeeps == ASSUME WebhookInv, NEW w \in Workers, Throw(w) PROVE WebhookInv'
<1> DEFINE final == entry.made + 1 >= MaxAttempts
<1>1. /\ work[w].pc = "throw" /\ work' = [work EXCEPT ![w] = Idle]
      /\ UNCHANGED <<fanVars, status, posts, accepted, fault>>
  BY DEF Throw
<1>2. CASE entry.owner = w
  <2>1. /\ entry' = [entry EXCEPT !.owner = None, !.made = @ + 1,
                                  !.state = IF final THEN "gone" ELSE "waiting"]
        /\ late' = IF final THEN late + 1 ELSE late
    BY <1>2 DEF Throw, FailEntry, NotifyFailed
  <2>2. entry.state = "active"
    BY <1>2, WebhookAssumption DEF WebhookAssumption, WebhookInv, EntryInv
  <2>3. /\ entry'.state = (IF final THEN "gone" ELSE "waiting") /\ entry'.owner = None
        /\ entry'.made = entry.made + 1 /\ entry'.stalls = entry.stalls
    BY <2>1 DEF WebhookInv, Typed
  <2>4. Typed'
    <3>1. entry.made + 1 \in Nat /\ late + 1 \in Nat
      BY DEF WebhookInv, Typed
    <3>2. CASE final
      BY <1>1, <2>1, <3>1, <3>2, IdleWorker DEF WebhookInv, Typed
    <3>3. CASE ~final
      BY <1>1, <2>1, <3>1, <3>3, IdleWorker DEF WebhookInv, Typed
    <3> QED
      BY <3>2, <3>3
  <2>5. FanInv' /\ EntryInv'
    BY <1>1, <2>2, <2>3, WorkKeepsFan
  <2>6. PostsInv'
    <3>1. Posting' = Posting
      BY <1>1, IdleWorker
    <3>2. Retries' = (IF final THEN MaxAttempts - 1 ELSE Retries + 1) /\ Retries <= MaxAttempts - 1
      BY <2>3, WebhookAssumption DEF WebhookAssumption, Retries, WebhookInv, Typed
    <3> QED
      BY <1>1, <2>2, <2>3, <3>1, <3>2, PostsTypes DEF WebhookInv, PostsInv, Licensed
  <2>7. LogInv'
    <3> SUFFICES ASSUME ~fault' PROVE LogInv'
      BY DEF LogInv
    <3>1. ~fault
      BY <1>1
    <3>2. \A u \in Workers : work'[u].pc = "idle"
      BY <1>1, <1>2, <3>1, IdleWorker DEF WebhookInv, LogInv
    <3>3. late = 0 /\ entry.made < MaxAttempts /\ Open(entry.made + 1)
      BY <1>1, <2>2, <3>1 DEF WebhookInv, LogInv, AttemptInv
    <3>4. \A u \in Workers : AttemptInv(u)'
      BY <3>2 DEF AttemptInv
    <3>5. entry.made \in Nat /\ MaxAttempts \in Nat
      BY WebhookAssumption DEF WebhookAssumption, WebhookInv, Typed
    <3>6. CASE final
      <4>1. entry.made + 1 = MaxAttempts
        BY <3>3, <3>5, <3>6
      <4>2. late' = 1 /\ Open(MaxAttempts)'
        BY <1>1, <2>1, <3>3, <3>6, <4>1 DEF Open, Logged
      <4> QED
        BY <2>3, <3>2, <3>4, <3>6, <4>2 DEF LogInv, OutcomeInv
    <3>7. CASE ~final
      <4>1. late' = 0 /\ entry'.made < MaxAttempts
        BY <2>1, <2>3, <3>3, <3>5, <3>7
      <4>2. Open(entry.made)'
        BY <1>1, <2>3, <3>3 DEF Open, Logged
      <4> QED
        BY <2>3, <3>2, <3>4, <3>7, <4>1, <4>2 DEF LogInv
    <3> QED
      BY <3>6, <3>7
  <2> QED
    BY <2>4, <2>5, <2>6, <2>7 DEF WebhookInv
<1>3. CASE entry.owner # w
  <2>1. entry' = entry /\ late' = late /\ (~fault => FALSE)
    BY <1>1, <1>3 DEF Throw, WebhookInv, LogInv
  <2>2. Typed'
    BY <1>1, <2>1, IdleWorker DEF WebhookInv, Typed
  <2>3. FanInv' /\ EntryInv'
    BY <1>1, <2>1, WorkKeepsFan DEF WebhookInv, EntryInv
  <2>4. PostsInv'
    BY <1>1, <2>1, IdleWorker, IdlePostsKeep
  <2>5. LogInv'
    BY <1>1, <2>1 DEF LogInv
  <2> QED
    BY <2>2, <2>3, <2>4, <2>5 DEF WebhookInv
<1> QED
  BY <1>2, <1>3

\* The listener writes EXHAUSTED after the last attempt, or its write is lost.
LEMMA ListenerKeeps == ASSUME WebhookInv, Listener PROVE WebhookInv'
<1>1. /\ late > 0 /\ late' = late - 1
      /\ UNCHANGED <<fanVars, entry, work, posts, accepted>>
  BY DEF Listener, RecordExhausted, RecordExhaustedLost
<1>2. \/ status' = (IF watched = "deleted" THEN status ELSE "EXHAUSTED") /\ fault' = fault
      \/ status' = status /\ fault' = TRUE
  BY DEF Listener, RecordExhausted, RecordExhaustedLost, Log
<1>3. Typed'
  <2>1. late' \in Nat
    BY <1>1 DEF WebhookInv, Typed
  <2>2. status' \in {"PENDING", "DELIVERED", "FAILED", "EXHAUSTED"}
    BY <1>2 DEF WebhookInv, Typed
  <2>3. fault' \in BOOLEAN
    BY <1>2, Zenon DEF WebhookInv, Typed
  <2> QED
    BY <1>1, <2>1, <2>2, <2>3 DEF WebhookInv, Typed
<1>4. FanInv' /\ EntryInv'
  BY <1>1, WorkKeepsFan DEF WebhookInv, EntryInv
<1>5. PostsInv'
  BY <1>1 DEF WebhookInv, PostsInv, Posting, Licensed, Retries
<1>6. LogInv'
  <2> SUFFICES ASSUME ~fault' PROVE LogInv'
    BY DEF LogInv
  <2>1. ~fault /\ status' = IF watched = "deleted" THEN status ELSE "EXHAUSTED"
    BY <1>2
  <2>2. entry.state = "gone"
    BY <1>1, <2>1 DEF WebhookInv, LogInv
  <2>3. \A u \in Workers : work[u].pc = "idle"
    BY <2>1, <2>2 DEF WebhookInv, LogInv
  <2>4. late = 1 /\ Open(MaxAttempts)
    BY <1>1, <2>1, <2>2 DEF WebhookInv, LogInv, OutcomeInv
  <2>5. OutcomeInv'
    <3>1. Logged("EXHAUSTED")'
      BY <1>1, <2>1 DEF Logged
    <3>2. ~accepted' /\ posts' = MaxAttempts
      BY <1>1, <2>4 DEF Open
    <3>3. late' = 0
      BY <1>1, <2>4
    <3> QED
      BY <3>1, <3>2, <3>3 DEF OutcomeInv
  <2> QED
    BY <1>1, <2>2, <2>3, <2>5 DEF LogInv, AttemptInv
<1> QED
  BY <1>3, <1>4, <1>5, <1>6 DEF WebhookInv

\* A stall licenses one more POST, or ends the delivery.
LEMMA StallKeeps == ASSUME WebhookInv, Stall PROVE WebhookInv'
<1>1. /\ entry.state = "active" /\ fault' = TRUE
      /\ UNCHANGED <<fanVars, status, work, posts, accepted>>
  BY DEF Stall
<1>2. Posting' = Posting
  BY <1>1 DEF Posting
<1>3. LogInv'
  BY <1>1 DEF LogInv
<1>4. CASE /\ entry.stalls < MaxStalls /\ UNCHANGED late
           /\ entry' = [entry EXCEPT !.state = "waiting", !.owner = None, !.stalls = @ + 1]
  <2>1. /\ entry'.state = "waiting" /\ entry'.owner = None
        /\ entry'.made = entry.made /\ entry'.stalls = entry.stalls + 1
    BY <1>4 DEF WebhookInv, Typed
  <2>2. Typed'
    <3>1. entry.stalls + 1 \in Nat
      BY DEF WebhookInv, Typed
    <3> QED
      BY <1>1, <1>4, <3>1 DEF WebhookInv, Typed
  <2>3. FanInv' /\ EntryInv'
    BY <1>1, <2>1, WorkKeepsFan
  <2>4. Retries' = Retries
    BY <2>1 DEF Retries
  <2>5. PostsInv'
    BY <1>1, <1>2, <1>4, <2>1, <2>4, PostsTypes DEF WebhookInv, PostsInv, Licensed
  <2> QED
    BY <1>3, <2>2, <2>3, <2>5 DEF WebhookInv
<1>5. CASE /\ entry' = [entry EXCEPT !.state = "gone", !.owner = None]
           /\ late' \in {late, late + 1}
  <2>1. /\ entry'.state = "gone" /\ entry'.owner = None
        /\ entry'.made = entry.made /\ entry'.stalls = entry.stalls
    BY <1>5 DEF WebhookInv, Typed
  <2>2. Typed'
    <3>1. late' \in Nat
      BY <1>5 DEF WebhookInv, Typed
    <3> QED
      BY <1>1, <1>5, <3>1 DEF WebhookInv, Typed
  <2>3. FanInv' /\ EntryInv'
    BY <1>1, <2>1, WorkKeepsFan
  <2>4. Retries' = Retries
    BY <2>1 DEF Retries
  <2>5. PostsInv'
    BY <1>1, <1>2, <2>1, <2>4, PostsTypes DEF WebhookInv, PostsInv, Licensed
  <2> QED
    BY <1>3, <2>2, <2>3, <2>5 DEF WebhookInv
<1> QED
  BY <1>4, <1>5 DEF Stall

\* Every step keeps the invariant.
LEMMA WebhookStep == ASSUME WebhookInv, [Next]_vars PROVE WebhookInv'
<1>1. CASE UNCHANGED vars
  <2>1. Typed' /\ FanInv' /\ EntryInv'
    BY <1>1 DEF vars, WebhookInv, Typed, FanInv, EntryInv, Past
  <2>2. PostsInv' /\ LogInv'
    BY <1>1, FanKeepsWork DEF vars
  <2> QED
    BY <2>1, <2>2 DEF WebhookInv
<1>2. CASE Handler \/ \E e \in Endpoints : PostWebhooks(e) \/ DeleteWebhookEndpoint(e)
  BY <1>2, FanStep
<1>3. CASE TakeSome
  BY <1>3, TakeKeeps DEF TakeSome
<1>4. ASSUME NEW w \in Workers, Process(w) \/ Crash(w) PROVE WebhookInv'
  BY <1>4, BlockKeeps, PassKeeps, SendKeeps, RecordKeeps, FaultKeeps, ReturnKeeps, ThrowKeeps DEF Process
<1>5. CASE Listener
  BY <1>5, ListenerKeeps
<1>6. CASE Stall
  BY <1>6, StallKeeps
<1> QED
  BY <1>1, <1>2, <1>3, <1>4, <1>5, <1>6 DEF Next

\* In every reachable state the posts are licensed and the log is accounted for.
THEOREM WebhookInvariant == Spec => []WebhookInv
<1>1. WebhookInv /\ [Next]_vars => WebhookInv'
  BY WebhookStep
<1> QED
  BY WebhookStart, <1>1, PTL DEF Spec

\* The delivery worker posts one delivery at most WEBHOOK_MAX_ATTEMPTS times, plus
\* once for each stall, however its workers crash, stall and overlap.
THEOREM WebhookPostsBounded == Spec => []PostsBounded
<1>1. ASSUME WebhookInv PROVE PostsBounded
  <2>1. Retries <= MaxAttempts - 1
    BY <1>1, WebhookAssumption DEF WebhookAssumption, Retries, WebhookInv, Typed
  <2> QED
    BY <1>1, <2>1, PostsTypes DEF WebhookInv, PostsInv, Licensed, PostsBounded
<1> QED
  BY WebhookInvariant, <1>1, PTL

\* The webhook_deliveries log of a delivery no fault has hit tells what happened,
\* and says PENDING only while something is still to come.
THEOREM WebhookHonestLog == Spec => []HonestLog
<1>1. ASSUME WebhookInv PROVE HonestLog
  <2> SUFFICES ASSUME ~fault, watched = "enqueued"
               PROVE  CASE status = "DELIVERED" -> accepted /\ posts <= MaxAttempts
                        [] status = "FAILED" -> ~accepted
                        [] status = "EXHAUSTED" -> ~accepted /\ posts = MaxAttempts /\ ~Live
                        [] status = "PENDING" -> Live \/ late > 0
    BY DEF HonestLog
  <2>1. entry.state \in {"waiting", "active", "gone"}
    BY <1>1 DEF WebhookInv, Typed, EntryInv
  <2>2. CASE entry.state = "waiting"
    BY <1>1, <2>2 DEF WebhookInv, LogInv, Open, Logged, Live
  <2>3. CASE entry.state = "gone"
    <3>1. OutcomeInv
      BY <1>1, <2>3 DEF WebhookInv, LogInv
    <3>2. late = 1 => late > 0
      OBVIOUS
    <3>3. /\ status = "DELIVERED" => accepted /\ posts <= MaxAttempts
          /\ status = "FAILED" => ~accepted
          /\ status = "EXHAUSTED" => ~accepted /\ posts = MaxAttempts /\ ~Live
          /\ status = "PENDING" => late = 1
          /\ status \in {"DELIVERED", "FAILED", "EXHAUSTED", "PENDING"}
      BY <2>3, <3>1 DEF OutcomeInv, Open, Logged, Live
    <3> QED
      BY <3>2, <3>3
  <2>4. CASE entry.state = "active"
    <3>1. PICK w \in Workers : work[w].pc # "idle" /\ AttemptInv(w)
      BY <1>1, <2>4 DEF WebhookInv, LogInv
    <3>2. work[w].pc \in {"checking", "posting", "record", "throw", "return"} /\ entry.made < MaxAttempts
      BY <1>1, <2>4, <3>1 DEF WebhookInv, Typed, LogInv
    <3>3. posts = entry.made + 1 => posts <= MaxAttempts
      BY <1>1, <3>2, WebhookAssumption DEF WebhookAssumption, WebhookInv, Typed
    <3> QED
      BY <2>4, <3>1, <3>2, <3>3 DEF AttemptInv, Open, Logged, Live
  <2> QED
    BY <2>1, <2>2, <2>3, <2>4
<1> QED
  BY WebhookInvariant, <1>1, PTL

\* dispatchWebhookEvent's event is acknowledged only when every endpoint that was
\* subscribed when the run began, and still is, has its delivery in the queue.
THEOREM WebhookFannedOut == Spec => FannedOut
<1>1. WebhookInv /\ [Next]_vars
         => [HandlerDone => \A e \in audience : endpoint[e] = "active" => row[e] = "enqueued"]_vars
  BY DEF WebhookInv, FanInv, HandlerDone
<1> QED
  BY WebhookInvariant, <1>1, PTL DEF Spec, FannedOut
=============================================================================
