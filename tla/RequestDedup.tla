---------------------------- MODULE RequestDedup ----------------------------
(***************************************************************************)
(* withRequestDedup: identical concurrent requests are coalesced.  The     *)
(* first to SET NX the key runs fn (the leader); the others wait for its   *)
(* result on a pub/sub channel, on a connection of their own (followers).  *)
(* Every Redis command is a step.  The recheck GET of a follower has two:  *)
(* its execution, and the handling of its reply, because the message       *)
(* listener is registered only after the reply while messages arrive on    *)
(* the other connection.  One key: keys do not interact.                   *)
(***************************************************************************)
EXTENDS Naturals, Sequences

CONSTANTS
    Requests,       \* the concurrent identical requests
    Absent,         \* the key does not exist
    Processing,     \* PROCESSING
    Failed,         \* the message {__dedupFailed: true}
    Broken          \* the error of a Redis command before any fn was run

ASSUME DedupAssumption ==
    /\ Absent # Processing /\ Absent # Failed /\ Absent # Broken
    /\ Processing # Failed /\ Processing # Broken /\ Failed # Broken
    /\ {Absent, Processing, Failed, Broken} \cap Requests = {}

VARIABLES
    key,            \* dedup:{key}; a request stands for the payload of its fn
    pc,             \* where each request is
    inbox,          \* messages published to a subscriber, not yet delivered
    subscribed,     \* requests subscribed to dedup_result:{key}
    seen,           \* the reply of the recheck GET
    ran,            \* history: "no", or how the request's own fn ended
    result,         \* whose payload the request returned; Failed or Broken if it threw
    calm            \* nothing fails in this behaviour

dedupVars == <<key, pc, inbox, subscribed, seen, ran, result>>
vars == <<dedupVars, calm>>

KeyValues == Requests \cup {Absent, Processing}

Init ==
    /\ key = Absent
    /\ pc = [r \in Requests |-> "start"]
    /\ inbox = [r \in Requests |-> <<>>]
    /\ subscribed = {}
    /\ seen = [r \in Requests |-> Absent]
    /\ ran = [r \in Requests |-> "no"]
    /\ result = [r \in Requests |-> Absent]
    /\ calm \in BOOLEAN

Goto(r, label) == pc' = [pc EXCEPT ![r] = label]

\* The request ends; the finally of waitForLeader has closed its connection.
Return(r, v) ==
    /\ Goto(r, "done")
    /\ result' = [result EXCEPT ![r] = v]
    /\ subscribed' = subscribed \ {r}
    /\ inbox' = [inbox EXCEPT ![r] = <<>>]

\* PUBLISH: every subscriber of this moment will get the message.
Send(m) == inbox' = [s \in Requests |-> IF s \in subscribed THEN Append(inbox[s], m) ELSE inbox[s]]

-----------------------------------------------------------------------------
(* The leader *)

\* Mutant: the SET has no NX.
ClaimAlways(r) ==
    /\ pc[r] = "start"
    /\ key' = Processing
    /\ Goto(r, "leading")
    /\ UNCHANGED <<inbox, subscribed, seen, ran, result>>

\* SET key PROCESSING EX ttl NX.
Claim(r) ==
    /\ pc[r] = "start"
    /\ \/ key = Absent /\ key' = Processing /\ Goto(r, "leading")
       \/ key # Absent /\ UNCHANGED key /\ Goto(r, "following")
    /\ UNCHANGED <<inbox, subscribed, seen, ran, result>>

\* fn() of the leader resolves.
LeaderOk(r) ==
    /\ pc[r] = "leading"
    /\ ran' = [ran EXCEPT ![r] = "ok"]
    /\ Goto(r, "storing")
    /\ UNCHANGED <<key, inbox, subscribed, seen, result>>

\* Mutant: the rejection is stored like a result.
LeaderFailStores(r) ==
    /\ pc[r] = "leading"
    /\ ran' = [ran EXCEPT ![r] = "failed"]
    /\ Goto(r, "storing")
    /\ UNCHANGED <<key, inbox, subscribed, seen, result>>

\* fn() of the leader rejects.
LeaderFail(r) ==
    /\ pc[r] = "leading"
    /\ ran' = [ran EXCEPT ![r] = "failed"]
    /\ Goto(r, "releasing")
    /\ UNCHANGED <<key, inbox, subscribed, seen, result>>

\* SET key payload EX ttl.
Store(r) ==
    /\ pc[r] = "storing"
    /\ key' = r
    /\ Goto(r, "publishing")
    /\ UNCHANGED <<inbox, subscribed, seen, ran, result>>

\* PUBLISH payload, and return.
Publish(r) ==
    /\ pc[r] = "publishing"
    /\ Send(r)
    /\ Goto(r, "done")
    /\ result' = [result EXCEPT ![r] = r]
    /\ UNCHANGED <<key, subscribed, seen, ran>>

\* The SET or the PUBLISH of a result rejects, whether or not it took effect:
\* the catch treats it like a failure of fn.
StoreError(r) ==
    /\ pc[r] = "storing"
    /\ key' \in {key, r}
    /\ Goto(r, "releasing")
    /\ UNCHANGED <<inbox, subscribed, seen, ran, result>>

PublishError(r) ==
    /\ pc[r] = "publishing"
    /\ Send(r) \/ UNCHANGED inbox
    /\ Goto(r, "releasing")
    /\ UNCHANGED <<key, subscribed, seen, ran, result>>

\* The catch: DEL key, whoever's value it holds by now ...
Release(r) ==
    /\ pc[r] = "releasing"
    /\ key' = Absent
    /\ Goto(r, "announcing")
    /\ UNCHANGED <<inbox, subscribed, seen, ran, result>>

\* ... then PUBLISH the failure and rethrow.
Announce(r) ==
    /\ pc[r] = "announcing"
    /\ Send(Failed)
    /\ Goto(r, "done")
    /\ result' = [result EXCEPT ![r] = Failed]
    /\ UNCHANGED <<key, subscribed, seen, ran>>

\* DEL or PUBLISH of the catch rejects: the request throws, nobody is told.
ReleaseError(r) ==
    /\ pc[r] \in {"releasing", "announcing"}
    /\ key' \in (IF pc[r] = "releasing" THEN {key, Absent} ELSE {key})
    /\ Goto(r, "done")
    /\ result' = [result EXCEPT ![r] = Failed]
    /\ UNCHANGED <<inbox, subscribed, seen, ran>>

\* The SET NX rejects, whether or not it took effect (then nobody leads until
\* the key expires), or the GET of a follower does: both are outside any try.
CommandError(r) ==
    /\ pc[r] \in {"start", "following"}
    /\ key' \in (IF pc[r] = "start" /\ key = Absent THEN {Absent, Processing} ELSE {key})
    /\ Return(r, Broken)
    /\ UNCHANGED <<seen, ran>>

-----------------------------------------------------------------------------
(* A follower *)

\* GET key: a stored payload is returned at once.
Get(r) ==
    /\ pc[r] = "following"
    /\ \/ key \in Requests /\ Return(r, key)
       \/ key \notin Requests /\ Goto(r, "subscribing") /\ UNCHANGED <<inbox, subscribed, result>>
    /\ UNCHANGED <<key, seen, ran>>

\* SUBSCRIBE, on the duplicated connection.
Subscribe(r) ==
    /\ pc[r] = "subscribing"
    /\ subscribed' = subscribed \cup {r}
    /\ Goto(r, "rechecking")
    /\ UNCHANGED <<key, inbox, seen, ran, result>>

\* Redis executes the recheck GET ...
Recheck(r) ==
    /\ pc[r] = "rechecking"
    /\ seen' = [seen EXCEPT ![r] = key]
    /\ Goto(r, "rechecked")
    /\ UNCHANGED <<key, inbox, subscribed, ran, result>>

\* ... and its reply arrives: a payload is returned, anything else (PROCESSING
\* or no key) starts the timer and registers the listener.
RecheckReply(r) ==
    /\ pc[r] = "rechecked"
    /\ \/ seen[r] \in Requests /\ Return(r, seen[r])
       \/ seen[r] \notin Requests /\ Goto(r, "waiting") /\ UNCHANGED <<inbox, subscribed, result>>
    /\ seen' = [seen EXCEPT ![r] = Absent]
    /\ UNCHANGED <<key, ran>>

\* A message arrives on the subscriber connection before there is a listener.
Drop(r) ==
    /\ pc[r] \in {"rechecking", "rechecked"}
    /\ inbox[r] # <<>>
    /\ inbox' = [inbox EXCEPT ![r] = Tail(@)]
    /\ UNCHANGED <<key, pc, subscribed, seen, ran, result>>

\* The listener gets a payload, or the leader's failure.
Deliver(r) ==
    /\ pc[r] = "waiting"
    /\ inbox[r] # <<>>
    /\ IF Head(inbox[r]) = Failed
       THEN Goto(r, "fallback") /\ subscribed' = subscribed \ {r} /\ UNCHANGED result
                                /\ inbox' = [inbox EXCEPT ![r] = <<>>]
       ELSE Return(r, Head(inbox[r]))
    /\ UNCHANGED <<key, seen, ran>>

\* followerWaitMs is over, or a Redis call of waitForLeader rejects: the
\* catch falls back to fn (and its finally closes the connection).
GiveUp(r, from) ==
    /\ pc[r] \in from
    /\ Goto(r, "fallback")
    /\ subscribed' = subscribed \ {r}
    /\ inbox' = [inbox EXCEPT ![r] = <<>>]
    /\ UNCHANGED <<key, seen, ran, result>>

\* Mutant: the timer does not reject the promise.
TimeoutIgnored(r) == pc[r] = "waiting" /\ UNCHANGED dedupVars

Timeout(r) == GiveUp(r, {"waiting"})

SubscribeError(r) == GiveUp(r, {"subscribing", "rechecking"})

\* The follower's own fn ends.
Fallback(r) ==
    /\ pc[r] = "fallback"
    /\ \/ ran' = [ran EXCEPT ![r] = "ok"] /\ Return(r, r)
       \/ ran' = [ran EXCEPT ![r] = "failed"] /\ Return(r, Failed)
    /\ UNCHANGED <<key, seen>>

-----------------------------------------------------------------------------
(* Failures of the environment *)

\* The gateway process dies.
Crash(r) ==
    /\ pc[r] \notin {"start", "done", "crashed"}
    /\ Goto(r, "crashed")
    /\ subscribed' = subscribed \ {r}
    /\ inbox' = [inbox EXCEPT ![r] = <<>>]
    /\ UNCHANGED <<key, seen, ran, result>>

\* leaderTtlSeconds are over.
Expire ==
    /\ key # Absent
    /\ key' = Absent
    /\ UNCHANGED <<pc, inbox, subscribed, seen, ran, result>>

Lead(r) == LeaderOk(r) \/ Store(r) \/ Publish(r) \/ Release(r) \/ Announce(r)

Follow(r) == Get(r) \/ Subscribe(r) \/ Recheck(r) \/ RecheckReply(r) \/ Deliver(r) \/ Fallback(r)

RedisError(r) == CommandError(r) \/ StoreError(r) \/ PublishError(r) \/ ReleaseError(r) \/ SubscribeError(r)

\* Some leader is at work.
LeaderActive ==
    \E r \in Requests :
        pc[r] \in {"leading", "storing", "publishing", "releasing", "announcing"}

\* followerWaitMs is longer than a leader's work: a timer fires only for a
\* follower that no leader and no message will reach any more.
LateTimeout(r) == Timeout(r) /\ ~LeaderActive /\ inbox[r] = <<>>

\* fn resolves within both timeouts, Redis answers, nobody crashes, and no
\* message overtakes the reply of a recheck.
CalmStep(r) == Claim(r) \/ Lead(r) \/ Follow(r) \/ LateTimeout(r)

\* What may happen besides.
Disturb(r) == LeaderFail(r) \/ Drop(r) \/ Timeout(r) \/ RedisError(r) \/ Crash(r)

Next ==
    /\ \/ \E r \in Requests : CalmStep(r)
       \/ ~calm /\ (Expire \/ \E r \in Requests : Disturb(r))
    /\ UNCHANGED calm

Spec == Init /\ [][Next]_vars

\* A request that has begun is carried on: fn ends, Redis answers, the timer
\* of a waiting follower fires.
FairSpec ==
    /\ Spec
    /\ \A r \in Requests :
          /\ WF_vars((Lead(r) \/ (~calm /\ LeaderFail(r))) /\ UNCHANGED calm)
          /\ WF_vars(Follow(r) /\ UNCHANGED calm)
          /\ WF_vars((LateTimeout(r) \/ (~calm /\ Timeout(r))) /\ UNCHANGED calm)

-----------------------------------------------------------------------------
(* Properties *)

\* The variables have their types.
TypeOK ==
    /\ key \in KeyValues
    /\ pc \in [Requests -> {"start", "leading", "storing", "publishing", "releasing",
                            "announcing", "following", "subscribing", "rechecking",
                            "rechecked", "waiting", "fallback", "done", "crashed"}]
    /\ inbox \in [Requests -> Seq(Requests \cup {Failed})]
    /\ subscribed \subseteq Requests
    /\ seen \in [Requests -> KeyValues]
    /\ ran \in [Requests -> {"no", "ok", "failed"}]
    /\ result \in [Requests -> Requests \cup {Absent, Failed, Broken}]

\* Whatever is lost, late or expired, a returned payload is the result of an
\* fn that resolved: for its own request or for the leader's.
ReturnedIsReal == \A r \in Requests : result[r] \in Requests => ran[result[r]] = "ok"

\* Coalescing "is not something a caller may depend on for correctness": a
\* request throws only after its own fn ran, or because Redis refuses its own
\* commands; a leader's failure, crash or expiry is never thrown at a follower.
ErrorIsOwn == \A r \in Requests : result[r] = Failed => ran[r] # "no"

\* "coalesces concurrent identical requests into a single execution of fn"
\* (requestDedup.test.ts), when no fn rejects, no timeout is too short and no
\* message is lost: no order of the steps of leader and followers runs it twice.
OneExecution ==
    calm => \A r, s \in Requests : ran[r] # "no" /\ ran[s] # "no" => r = s

\* Every request ends, with a payload or its own error, or dies.
RequestEnds ==
    \A r \in Requests : pc[r] # "start" ~> pc[r] \in {"done", "crashed"}
=============================================================================
