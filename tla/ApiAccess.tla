----------------------------- MODULE ApiAccess ------------------------------
(***************************************************************************)
(* The preHandlers of the gateway's routes: requireApiKey, whose           *)
(* resolveApiKey caches an active key in Redis, and requireRateLimit, a    *)
(* token bucket per key with a deduplicated request.rate_limited event;    *)
(* and the API's createApiKey and revokeApiKey.  One key, several requests *)
(* at a time, on gateways whose clocks may differ.                         *)
(*                                                                         *)
(* A tick is the time in which the bucket earns 1 / Unit of a token, so    *)
(* that it can hold a fraction of one.                                     *)
(***************************************************************************)
EXTENDS Integers

CONSTANTS
    Requests,       \* concurrent requests
    Skew,           \* how far the clock of a request's gateway is ahead
    MaxSkew,        \* the largest of these
    CacheTTL,       \* CACHE_TTL_SECONDS of the key cache
    Capacity,       \* rateLimitRpm, in tokens
    Unit,           \* ticks per token earned
    BucketTTL,      \* ttlSeconds of the bucket: the time to fill it, and a minute
    Window,         \* RATE_LIMITED_DEDUPE_SECONDS
    MaxWait,        \* longest time between two commands of one request
    MaxTime,        \* bound on the clock
    MaxRequests     \* bound on the requests that arrive

ASSUME AccessAssumption ==
    /\ Skew \in [Requests -> 0..MaxSkew] /\ MaxSkew \in Nat
    /\ CacheTTL \in Nat \ {0} /\ Capacity \in Nat \ {0} /\ Unit \in Nat \ {0}
    /\ BucketTTL \in Nat /\ BucketTTL >= Capacity * Unit
    /\ Window \in Nat \ {0} /\ MaxWait \in Nat /\ MaxTime \in Nat \ {0}
    /\ MaxRequests \in Nat

VARIABLES
    now,        \* time of Redis and Postgres
    key,        \* the api_keys row: "none", "active", "revoked"
    cached,     \* auth:{hash}: the time it expires; 0 if there is none
    revoking,   \* where revokeApiKey is: "no", "committed", "deleted", "lost"
    revokedAt,  \* history: when the revocation committed
    stage,      \* where each request is
    since,      \* when it got there
    arrived,    \* how many requests have arrived
    bucket,     \* the hash of the bucket: tokens (in units), last_refill, its expiry
    slot,       \* events:ratelimited:{org}: the time it expires; 0 if there is none
    admitted,   \* history: requests the bucket let through, since each tick
    regained,   \* history: how far last_refill was set back, since each tick
    notices     \* request.rate_limited events written to the outbox

apiKeyVars == <<key, cached, revoking, revokedAt>>
limitVars == <<bucket, slot, admitted, regained, notices>>
callVars == <<stage, since, arrived>>
accessVars == <<now, apiKeyVars, callVars, limitVars>>

NoBucket == [tokens |-> 0, last |-> 0, expireAt |-> 0]

AccessInit ==
    /\ now = 1
    /\ key = "none" /\ cached = 0 /\ revoking = "no" /\ revokedAt = 0
    /\ stage = [s \in Requests |-> "idle"] /\ since = [s \in Requests |-> 0]
    /\ arrived = 0
    /\ bucket = NoBucket /\ slot = 0
    /\ admitted = [t \in 1..MaxTime |-> 0] /\ regained = [t \in 1..MaxTime |-> 0]
    /\ notices = 0

Goto(s, label) ==
    /\ stage' = [stage EXCEPT ![s] = label]
    /\ since' = [since EXCEPT ![s] = IF label = "idle" THEN 0 ELSE now]

-----------------------------------------------------------------------------
(* The API's routes *)

\* createApiKey: the row and api_key.created in one transaction.
CreateApiKey ==
    /\ key = "none"
    /\ key' = "active"
    /\ UNCHANGED <<now, cached, revoking, revokedAt, callVars, limitVars>>

\* revokeApiKey commits isActive = false with api_key.revoked (once more when
\* its owner repeats it) ...
RevokeCommit ==
    /\ key # "none" /\ revoking # "committed"
    /\ key' = "revoked"
    /\ revoking' = "committed"
    /\ revokedAt' = IF key = "active" THEN now ELSE revokedAt
    /\ UNCHANGED <<now, cached, callVars, limitVars>>

\* ... and deletes the cache entry.
RevokeDelete ==
    /\ revoking = "committed"
    /\ revoking' = "deleted"
    /\ cached' = 0
    /\ UNCHANGED <<now, key, revokedAt, callVars, limitVars>>

\* Redis refuses the DEL, or the process dies before it: the key is revoked and
\* its owner gets an error.
RevokeDeleteLost ==
    /\ revoking = "committed"
    /\ revoking' = "lost"
    /\ UNCHANGED <<now, key, cached, revokedAt, callVars, limitVars>>

-----------------------------------------------------------------------------
(* requireApiKey *)

\* GET of the cache entry in resolveApiKey: a hit is believed.
Cached == cached > 0

\* A request with a bearer token arrives at requireApiKey.
GetCached(s) ==
    /\ stage[s] = "idle" /\ arrived < MaxRequests
    /\ arrived' = arrived + 1
    /\ Goto(s, IF Cached THEN "limit" ELSE "lookup")
    /\ UNCHANGED <<now, apiKeyVars, limitVars>>

\* Mutant: is_active is not looked at.
LookupApiKeyInactive(s) ==
    /\ stage[s] = "lookup"
    /\ Goto(s, IF key # "none" THEN "set" ELSE "idle")
    /\ UNCHANGED <<now, arrived, apiKeyVars, limitVars>>

\* lookup_api_key_by_hash: an unknown or inactive key is a 401.
LookupApiKey(s) ==
    /\ stage[s] = "lookup"
    /\ Goto(s, IF key = "active" THEN "set" ELSE "idle")
    /\ UNCHANGED <<now, arrived, apiKeyVars, limitVars>>

\* Mutant: the cache entry has no TTL.
CacheApiKeyForever(s) ==
    /\ stage[s] = "set"
    /\ cached' = MaxTime + CacheTTL
    /\ Goto(s, "limit")
    /\ UNCHANGED <<now, arrived, key, revoking, revokedAt, limitVars>>

\* SET ... EX.  (lastUsedAt is written by nobody's leave and read by no one here.)
CacheApiKey(s) ==
    /\ stage[s] = "set"
    /\ cached' = now + CacheTTL
    /\ Goto(s, "limit")
    /\ UNCHANGED <<now, arrived, key, revoking, revokedAt, limitVars>>

-----------------------------------------------------------------------------
(* requireRateLimit *)

Least(a, b) == IF a <= b THEN a ELSE b

\* Mutant: the refill is not capped.
RefilledUncapped(b, t) ==
    IF b = NoBucket THEN Capacity * Unit
    ELSE b.tokens + (IF t > b.last THEN t - b.last ELSE 0)

\* The tokens of bucket b for a caller whose clock says t: a fresh one is full,
\* and a clock behind last_refill earns nothing.
Refilled(b, t) ==
    IF b = NoBucket THEN Capacity * Unit
    ELSE Least(Capacity * Unit, b.tokens + (IF t > b.last THEN t - b.last ELSE 0))

\* The histories of every window that is open now see n more.
AddSince(f, n) == [t \in 1..MaxTime |-> IF t <= now THEN f[t] + n ELSE f[t]]

\* The script of tokenBucket, run with the caller's clock.
TokenBucket(s) ==
    LET t == now + Skew[s]
        tokens == Refilled(bucket, t)
        allowed == tokens >= Unit
    IN  /\ stage[s] = "limit"
        /\ bucket' = [tokens |-> IF allowed THEN tokens - Unit ELSE tokens,
                      last |-> t, expireAt |-> now + BucketTTL]
        /\ admitted' = AddSince(admitted, IF allowed THEN 1 ELSE 0)
        /\ regained' = AddSince(regained, IF t < bucket.last THEN bucket.last - t ELSE 0)
        /\ Goto(s, IF allowed THEN "idle" ELSE "claim")
        /\ UNCHANGED <<now, arrived, apiKeyVars, slot, notices>>

\* Mutant: SET without NX.
ClaimDedupeSlotAlways(s) ==
    /\ stage[s] = "claim"
    /\ slot' = now + Window
    /\ Goto(s, "emit")
    /\ UNCHANGED <<now, arrived, apiKeyVars, bucket, admitted, regained, notices>>

\* claimDedupeSlot: SET NX EX; who loses it sends no event.
ClaimDedupeSlot(s) ==
    /\ stage[s] = "claim"
    /\ IF slot > 0 THEN Goto(s, "idle") /\ UNCHANGED slot
                   ELSE Goto(s, "emit") /\ slot' = now + Window
    /\ UNCHANGED <<now, arrived, apiKeyVars, bucket, admitted, regained, notices>>

\* The event is written to the outbox; then the 429.
EmitRateLimited(s) ==
    /\ stage[s] = "emit"
    /\ notices' = notices + 1
    /\ Goto(s, "idle")
    /\ UNCHANGED <<now, arrived, apiKeyVars, bucket, slot, admitted, regained>>

\* A command of Redis or Postgres fails, or the process dies: a 500, or the 429
\* without its event.
RequestFails(s) ==
    /\ stage[s] # "idle"
    /\ Goto(s, "idle")
    /\ UNCHANGED <<now, arrived, apiKeyVars, limitVars>>

-----------------------------------------------------------------------------

\* The value of a Redis key that may expire at the next tick.
Expire(expireAt) == IF expireAt = now + 1 THEN 0 ELSE expireAt

\* Time passes.  No request waits longer than MaxWait for its next command.
Tick ==
    /\ now < MaxTime
    /\ \A s \in Requests : stage[s] # "idle" => now < since[s] + MaxWait
    /\ now' = now + 1
    /\ cached' = Expire(cached) /\ slot' = Expire(slot)
    /\ bucket' = IF bucket.expireAt = now + 1 THEN NoBucket ELSE bucket
    /\ UNCHANGED <<key, revoking, revokedAt, callVars, admitted, regained, notices>>

Request(s) ==
    \/ GetCached(s) \/ LookupApiKey(s) \/ CacheApiKey(s) \/ TokenBucket(s)
    \/ ClaimDedupeSlot(s) \/ EmitRateLimited(s) \/ RequestFails(s)

AccessNext ==
    \/ CreateApiKey \/ RevokeCommit \/ RevokeDelete \/ RevokeDeleteLost
    \/ \E s \in Requests : Request(s)
    \/ Tick

AccessSpec == AccessInit /\ [][AccessNext]_accessVars

-----------------------------------------------------------------------------
(* Properties *)

\* A revoked key is in nobody's hands any more: not in the cache, and not in a
\* request that looked it up before the revocation and has yet to cache it.
Settled ==
    /\ key = "revoked" /\ cached = 0
    /\ \A s \in Requests : stage[s] # "set"

\* A request is authenticated.
Authenticates(s) == stage[s] \in {"idle", "set"} /\ stage'[s] = "limit"

\* Once a revocation has emptied the cache and no lookup that overlapped it is
\* left, the key stays refused: nothing brings it back into the cache.
RevocationSticks ==
    [][Settled => Settled' /\ \A s \in Requests : ~Authenticates(s)]_accessVars

\* How far the code is from the comment of revokeApiKey, "A revoked key must stop
\* working immediately, not after the Redis cache TTL expires" (service.ts:128): a
\* lookup that read the row before the commit and runs its SET after the DEL, or a DEL
\* that is lost, leaves the key accepted, but for no longer than the cache's TTL and
\* the time of one lookup.
RevocationBounded ==
    [][\A s \in Requests : key = "revoked" /\ Authenticates(s)
            => now <= revokedAt + CacheTTL + MaxWait]_accessVars

\* In any window, the bucket lets through its capacity and what it earned in the
\* window, plus what gateways with slower clocks gave back by setting last_refill
\* back; its expiry gives nothing away.
AdmissionBounded ==
    \A t \in 1..now :
        Unit * admitted[t] <= Unit * Capacity + (now - t) + MaxSkew + regained[t]

\* At most one event per window, although requests claim the slot concurrently.
OneNoticePerWindow == notices <= now \div Window + 1
=============================================================================
