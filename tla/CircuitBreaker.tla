--------------------------- MODULE CircuitBreaker ---------------------------
(***************************************************************************)
(* The three-state circuit breaker of packages/circuit-breaker.  Its state *)
(* is one Redis hash per provider, read and written by two Lua scripts:    *)
(* ATTEMPT_SCRIPT before a provider call and REPORT_SCRIPT after it.  A    *)
(* script is atomic; a call of withCircuitBreaker is not: it reads the     *)
(* clock, runs the first script, calls the provider and runs the second    *)
(* script with the time it read at the beginning.                          *)
(***************************************************************************)
EXTENDS Integers, FiniteSets

CONSTANTS
    Callers,           \* concurrent calls of withCircuitBreaker
    FailureThreshold,  \* config.failureThreshold
    FailureWindow,     \* config.failureWindowMs
    OpenDuration,      \* config.openDurationMs
    TTL,               \* TTL_SECONDS
    MaxCall,           \* longest time from start to end of one call
    MaxTime            \* bound on the clock

ASSUME BreakerAssumption ==
    /\ FailureThreshold \in Nat \ {0}
    /\ FailureWindow \in Nat \ {0}
    /\ OpenDuration \in Nat \ {0}
    /\ TTL \in Nat \ {0}
    /\ MaxCall \in Nat
    /\ MaxTime \in Nat

VARIABLES
    now,        \* the clock (Date.now() and the Redis server's)
    circuit,    \* the hash circuit:{name}
    pc,         \* where each call of withCircuitBreaker is
    start,      \* the `now` parameter of each call
    forcing,    \* forceOpenCircuit is between its HSET and its EXPIRE
    trippedAt,  \* history: when the circuit last became open
    late        \* history: the calls that were in progress at that moment

vars == <<now, circuit, pc, start, forcing, trippedAt, late>>

NoTime == -1    \* an absent field, or a key without a TTL

Times == Nat \cup {NoTime}

CircuitState == {"closed", "open", "half_open"}

Circuit == [state: CircuitState, failures: Nat, windowStart: Times,
            openedAt: Nat, probeTaken: BOOLEAN, expireAt: Times]

\* What the scripts read when the key does not exist: every field has the
\* default of its `or`.
Absent == [state |-> "closed", failures |-> 0, windowStart |-> NoTime,
           openedAt |-> 0, probeTaken |-> FALSE, expireAt |-> NoTime]

-----------------------------------------------------------------------------
(* The scripts, as functions of the hash h and the caller's time t. *)

\* redis.call("EXPIRE", key, TTL_SECONDS)
Expiring(h) == [h EXCEPT !.expireAt = now + TTL]

\* Mutant: the step to half_open does not refresh the key's TTL.
AttemptScriptNoExpire(h, t) ==
    CASE h.state = "open" /\ t - h.openedAt >= OpenDuration ->
             [h EXCEPT !.state = "half_open", !.probeTaken = TRUE]
      [] OTHER -> h

\* Mutant: an open circuit takes a probe without waiting.
AttemptScriptNoWait(h, t) ==
    IF h.state = "open"
    THEN Expiring([h EXCEPT !.state = "half_open", !.probeTaken = TRUE])
    ELSE h

\* The hash after ATTEMPT_SCRIPT.
AttemptScript(h, t) ==
    CASE h.state = "closed" /\ h.windowStart = NoTime ->
             [h EXCEPT !.windowStart = t]
      [] h.state = "closed" /\ h.windowStart # NoTime
                            /\ t - h.windowStart > FailureWindow ->
             [h EXCEPT !.failures = 0, !.windowStart = t]
      [] h.state = "open" /\ t - h.openedAt >= OpenDuration ->
             Expiring([h EXCEPT !.state = "half_open", !.probeTaken = TRUE])
      [] h.state = "half_open" ->
             [h EXCEPT !.probeTaken = TRUE]
      [] OTHER -> h

\* Mutant: probe_taken is written but never looked at.
AllowedManyProbes(h, t) ==
    h.state = "open" => t - h.openedAt >= OpenDuration

\* The first element of ATTEMPT_SCRIPT's reply.
Allowed(h, t) ==
    \/ h.state = "closed"
    \/ h.state = "open" /\ t - h.openedAt >= OpenDuration
    \/ h.state = "half_open" /\ ~h.probeTaken

\* Mutant: a recovery leaves the old failures in place.
SuccessScriptKeepsCount(h, t) ==
    IF h.state = "half_open"
    THEN Expiring([h EXCEPT !.state = "closed", !.windowStart = t, !.probeTaken = FALSE])
    ELSE h

\* The hash after REPORT_SCRIPT with success = 1.
SuccessScript(h, t) ==
    IF h.state = "half_open"
    THEN Expiring([h EXCEPT !.state = "closed", !.failures = 0,
                            !.windowStart = t, !.probeTaken = FALSE])
    ELSE h

\* The hash after REPORT_SCRIPT with success = 0.  Only half_open is told
\* apart: a failure reported while open counts like one reported while closed.
FailureScript(h, t) ==
    IF h.state = "half_open"
    THEN Expiring([h EXCEPT !.state = "open", !.openedAt = t, !.probeTaken = FALSE])
    ELSE IF h.failures + 1 >= FailureThreshold
         THEN Expiring([h EXCEPT !.state = "open", !.openedAt = t,
                                 !.failures = h.failures + 1])
         ELSE Expiring([h EXCEPT !.failures = h.failures + 1])

-----------------------------------------------------------------------------
(* withCircuitBreaker *)

Init ==
    /\ now = 0
    /\ circuit = Absent
    /\ pc = [c \in Callers |-> "idle"]
    /\ start = [c \in Callers |-> 0]
    /\ forcing = FALSE
    /\ trippedAt = 0
    /\ late = {}

\* Calls that ATTEMPT_SCRIPT let through and that have not yet ended.
InFlight == {c \in Callers : pc[c] \in {"calling", "probing", "catch"}}

\* Every write of the hash: the histories remember the time of a
\* closed/half_open -> open step, and the calls that it overtakes.
Write(h) ==
    LET opens == circuit.state # "open" /\ h.state = "open" IN
    /\ circuit' = h
    /\ trippedAt' = IF opens THEN now ELSE trippedAt
    /\ late' = IF opens THEN InFlight ELSE late

Goto(c, label) == pc' = [pc EXCEPT ![c] = label]

\* The call returns or throws, and its parameters are gone.
Return(c) == Goto(c, "idle") /\ start' = [start EXCEPT ![c] = 0]

\* A call reads the clock: `now: number = Date.now()`.
Begin(c) ==
    /\ pc[c] = "idle"
    /\ Goto(c, "called")
    /\ start' = [start EXCEPT ![c] = now]
    /\ late' = late \ {c}
    /\ UNCHANGED <<now, circuit, forcing, trippedAt>>

\* ATTEMPT_SCRIPT runs and its reply arrives: the call goes through, or
\* CircuitOpenError is thrown.
Attempt(c) ==
    /\ pc[c] = "called"
    /\ Write(AttemptScript(circuit, start[c]))
    /\ IF Allowed(circuit, start[c])
       THEN /\ Goto(c, IF circuit.state = "closed" THEN "calling" ELSE "probing")
            /\ UNCHANGED start
       ELSE Return(c)
    /\ UNCHANGED <<now, forcing>>

\* The first eval rejects: its reply was lost, whether or not the script ran.
AttemptLost(c) ==
    /\ pc[c] = "called"
    /\ \E h \in {circuit, AttemptScript(circuit, start[c])} : Write(h)
    /\ Return(c)
    /\ UNCHANGED <<now, forcing>>

\* fn() resolved and its success is reported.
ReportSuccess(c) ==
    /\ pc[c] \in {"calling", "probing"}
    /\ Write(SuccessScript(circuit, start[c]))
    /\ Return(c)
    /\ UNCHANGED <<now, forcing>>

\* fn() resolved but the eval that reports it rejects: the rejection lands
\* in the same catch as a failure of fn().
ReportSuccessLost(c) ==
    /\ pc[c] \in {"calling", "probing"}
    /\ \E h \in {circuit, SuccessScript(circuit, start[c])} : Write(h)
    /\ Goto(c, "catch")
    /\ UNCHANGED <<now, start, forcing>>

\* fn() rejected, or reporting its success did: the catch reports a failure.
ReportFailure(c) ==
    /\ pc[c] \in {"calling", "probing", "catch"}
    /\ Write(FailureScript(circuit, start[c]))
    /\ Return(c)
    /\ UNCHANGED <<now, forcing>>

\* The catch's own eval rejects: its report was lost, or ran without a reply.
ReportFailureLost(c) ==
    /\ pc[c] \in {"calling", "probing", "catch"}
    /\ \E h \in {circuit, FailureScript(circuit, start[c])} : Write(h)
    /\ Return(c)
    /\ UNCHANGED <<now, forcing>>

\* The gateway process that runs the call dies: nothing is reported.
Crash(c) ==
    /\ pc[c] # "idle"
    /\ Return(c)
    /\ UNCHANGED <<now, circuit, forcing, trippedAt, late>>

-----------------------------------------------------------------------------
(* The operator's utilities and the passage of time. *)

\* resetCircuit: DEL.
ResetCircuit ==
    /\ Write(Absent)
    /\ UNCHANGED <<now, pc, start, forcing>>

\* forceOpenCircuit, first command: HSET.
ForceOpenCircuit ==
    /\ ~forcing
    /\ Write([circuit EXCEPT !.state = "open", !.openedAt = now, !.probeTaken = FALSE])
    /\ forcing' = TRUE
    /\ UNCHANGED <<now, pc, start>>

\* forceOpenCircuit, second command: EXPIRE, which does nothing to a key that
\* has been deleted since.
ForceOpenExpire ==
    /\ forcing
    /\ forcing' = FALSE
    /\ Write(IF circuit = Absent THEN circuit ELSE Expiring(circuit))
    /\ UNCHANGED <<now, pc, start>>

\* The operator's process dies, or loses Redis, between the two commands.
ForceOpenAbort ==
    /\ forcing
    /\ forcing' = FALSE
    /\ UNCHANGED <<now, circuit, pc, start, trippedAt, late>>

\* Time passes; Redis drops the key when its TTL runs out.  A call in
\* progress ends at most MaxCall after it started.
Tick ==
    /\ now < MaxTime
    /\ \A c \in Callers : pc[c] # "idle" => now < start[c] + MaxCall
    /\ now' = now + 1
    /\ circuit' = IF circuit.expireAt = now + 1 THEN Absent ELSE circuit
    /\ UNCHANGED <<pc, start, forcing, trippedAt, late>>

\* What a call does when Redis answers and its process lives.
Step(c) ==
    \/ Begin(c)
    \/ Attempt(c)
    \/ ReportSuccess(c)
    \/ ReportFailure(c)

\* What goes wrong on the way.
Fault(c) ==
    \/ AttemptLost(c)
    \/ ReportSuccessLost(c)
    \/ ReportFailureLost(c)
    \/ Crash(c)

Next ==
    \/ \E c \in Callers : Step(c) \/ Fault(c)
    \/ ResetCircuit
    \/ ForceOpenCircuit
    \/ ForceOpenExpire
    \/ ForceOpenAbort
    \/ Tick

Spec == Init /\ [][Next]_vars

\* Time does not stop, and a call in progress ends: the node process keeps
\* running its continuations, or dies.
EndCall(c) == Attempt(c) \/ AttemptLost(c) \/ ReportSuccess(c) \/ ReportFailure(c)
                         \/ ReportFailureLost(c) \/ Crash(c)

Fairness == WF_vars(Tick) /\ \A c \in Callers : WF_vars(EndCall(c))

FairSpec == Spec /\ Fairness

-----------------------------------------------------------------------------
(* Properties *)

\* The variables have their types.
TypeOK ==
    /\ now \in Nat
    /\ circuit \in Circuit
    /\ pc \in [Callers -> {"idle", "called", "calling", "probing", "catch"}]
    /\ start \in [Callers -> Nat]
    /\ forcing \in BOOLEAN
    /\ trippedAt \in Nat
    /\ late \subseteq Callers

\* A closed circuit is below its failure threshold: after a recovery, a reset
\* or an expiry, no leftover count can open it on the first new failure.
ClosedBelowThreshold ==
    circuit.state = "closed" => circuit.failures < FailureThreshold

\* A half-open circuit's probe slot is taken and its key has a TTL, so that a
\* probe whose report never comes (crash, lost reply) blocks the provider for
\* at most TTL and not for ever, even when the circuit was forced open by a
\* process that died before it could run EXPIRE.
HalfOpenIsLeased ==
    circuit.state = "half_open" => circuit.probeTaken /\ circuit.expireAt # NoTime

\* An open circuit lets one call through, however long calls take: while the
\* circuit is half open, every call in progress but one was already running
\* when the circuit opened.  A second caller is refused, also when the probe's
\* report is lost, the key expires, or an operator intervenes.
SingleProbe ==
    circuit.state = "half_open" => \A c, d \in InFlight \ late : c = d

\* The breaker implements the three-state machine of BreakerContract, stated
\* without clock or scripts.  It says what the code keeps of "exactly one probe
\* request [...] CLOSED on a successful probe or back to OPEN on a failed one"
\* (circuitBreaker.ts:124): one is admitted, but REPORT_SCRIPT does not know which
\* call reports, so that one from before the opening may settle the circuit in the
\* probe's place.
Contract == INSTANCE BreakerContract
            WITH state <- circuit.state, inFlight <- InFlight, late <- InFlight \cap late

KeepsContract == Contract!Spec

\* A provider call is let through an open circuit.
ProbeAdmitted == circuit.state = "open" /\ circuit'.state = "half_open"

\* The open period, measured from the moment the circuit opened: openedAt is
\* the time the failing call began, so the provider is left alone for
\* OpenDuration less the time that call took.
QuietPeriod == [][ProbeAdmitted => now + MaxCall >= trippedAt + OpenDuration]_vars

\* A half-open circuit does not stay so: its probe reports, or its key
\* expires.  (expireAt > MaxTime: the bounded clock ends first.)
HalfOpenEnds ==
    circuit.state = "half_open" ~> (circuit.state # "half_open" \/ circuit.expireAt > MaxTime)
=============================================================================
