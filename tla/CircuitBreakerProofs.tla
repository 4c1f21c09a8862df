------------------------ MODULE CircuitBreakerProofs ------------------------
(***************************************************************************)
(* TLAPS proofs about CircuitBreaker, for any number of callers and any    *)
(* thresholds and durations.                                               *)
(***************************************************************************)
EXTENDS CircuitBreaker, TLAPS

\* Where a call can be: read off pc once, for all proofs.
Labels == {"idle", "called", "calling", "probing", "catch"}

\* A running call began in the past, at most MaxCall ago.
CallTimes ==
    \A c \in Callers : pc[c] # "idle" => start[c] <= now /\ now <= start[c] + MaxCall

\* openedAt is at most MaxCall older than the moment the circuit opened.
OpenStamp ==
    /\ trippedAt <= now
    /\ circuit.state = "open" => trippedAt <= circuit.openedAt + MaxCall

\* The inductive invariant that needs no assumption on the length of calls.
BreakerInv ==
    TypeOK /\ CallTimes /\ OpenStamp /\ ClosedBelowThreshold /\ HalfOpenIsLeased

\* While the circuit is open, every call in progress was overtaken by the
\* opening.
OpenOnlyLate == circuit.state = "open" => InFlight \subseteq late

\* A call that has not run ATTEMPT_SCRIPT yet is not late.
CalledIsNew == \A c \in Callers : pc[c] = "called" => c \notin late

\* The strengthening of SingleProbe that is inductive.
ProbeInv == OpenOnlyLate /\ CalledIsNew /\ SingleProbe

-----------------------------------------------------------------------------
(* The scripts *)

\* EXPIRE changes nothing but the key's TTL.
LEMMA ExpiringFacts ==
    ASSUME now \in Nat, NEW h \in Circuit
    PROVE  /\ Expiring(h) \in Circuit
           /\ Expiring(h).state = h.state
           /\ Expiring(h).failures = h.failures
           /\ Expiring(h).openedAt = h.openedAt
           /\ Expiring(h).probeTaken = h.probeTaken
           /\ Expiring(h).expireAt = now + TTL
BY BreakerAssumption DEF BreakerAssumption, Expiring, Circuit, CircuitState, Times, NoTime

\* The scripts keep the hash well typed.
LEMMA ScriptTypes ==
    ASSUME now \in Nat, NEW h \in Circuit, NEW t \in Nat
    PROVE  /\ AttemptScript(h, t) \in Circuit
           /\ SuccessScript(h, t) \in Circuit
           /\ FailureScript(h, t) \in Circuit
<1> USE DEF Circuit, CircuitState, Times
<1>1. AttemptScript(h, t) \in Circuit
  <2>1. [h EXCEPT !.state = "half_open", !.probeTaken = TRUE] \in Circuit
    OBVIOUS
  <2> QED
    BY <2>1, ExpiringFacts DEF AttemptScript
<1>2. SuccessScript(h, t) \in Circuit
  <2>1. [h EXCEPT !.state = "closed", !.failures = 0,
                  !.windowStart = t, !.probeTaken = FALSE] \in Circuit
    OBVIOUS
  <2> QED
    BY <2>1, ExpiringFacts DEF SuccessScript
<1>3. FailureScript(h, t) \in Circuit
  <2>1. [h EXCEPT !.state = "open", !.openedAt = t, !.probeTaken = FALSE] \in Circuit
    OBVIOUS
  <2>2. [h EXCEPT !.state = "open", !.openedAt = t, !.failures = h.failures + 1] \in Circuit
    <3> DEFINE n == h.failures + 1
    <3>1. n \in Nat
      OBVIOUS
    <3> HIDE DEF n
    <3>2. [h EXCEPT !.state = "open", !.openedAt = t, !.failures = n] \in Circuit
      BY <3>1
    <3> QED
      BY <3>2 DEF n
  <2>3. [h EXCEPT !.failures = h.failures + 1] \in Circuit
    OBVIOUS
  <2> QED
    BY <2>1, <2>2, <2>3, ExpiringFacts DEF FailureScript
<1> QED
  BY <1>1, <1>2, <1>3

\* What ATTEMPT_SCRIPT may change: the count only towards 0, the state only
\* from open to half_open after the open period, with the slot and the TTL.
LEMMA AttemptFacts ==
    ASSUME now \in Nat, NEW h \in Circuit, NEW t \in Nat
    PROVE  /\ AttemptScript(h, t).failures \in {h.failures, 0}
           /\ AttemptScript(h, t).openedAt = h.openedAt
           /\ h.state # "open" => AttemptScript(h, t).state = h.state
           /\ h.state = "open" /\ AttemptScript(h, t).state # "open" =>
                 /\ AttemptScript(h, t).state = "half_open"
                 /\ AttemptScript(h, t).probeTaken
                 /\ AttemptScript(h, t).expireAt = now + TTL
                 /\ h.openedAt + OpenDuration <= t
                 /\ Allowed(h, t)
           /\ h.state = "half_open" =>
                 /\ AttemptScript(h, t).probeTaken
                 /\ AttemptScript(h, t).expireAt = h.expireAt
           /\ h.state = "open" /\ Allowed(h, t) => AttemptScript(h, t).state = "half_open"
BY BreakerAssumption
DEF BreakerAssumption, AttemptScript, Allowed, Expiring, Circuit, CircuitState, Times, NoTime

\* A success report either changes nothing or closes a half-open circuit with
\* a clean count.
LEMMA SuccessFacts ==
    ASSUME now \in Nat, NEW h \in Circuit, NEW t \in Nat
    PROVE  /\ h.state # "half_open" => SuccessScript(h, t) = h
           /\ h.state = "half_open" =>
                 /\ SuccessScript(h, t).state = "closed"
                 /\ SuccessScript(h, t).failures = 0
BY BreakerAssumption DEF BreakerAssumption, SuccessScript, Expiring, Circuit, CircuitState

\* A failure report opens the circuit with the caller's time, or leaves the
\* state and openedAt alone and stays below the threshold when closed.
LEMMA FailureFacts ==
    ASSUME now \in Nat, NEW h \in Circuit, NEW t \in Nat
    PROVE  \/ /\ FailureScript(h, t).state = "open"
              /\ FailureScript(h, t).openedAt = t
           \/ /\ FailureScript(h, t).state = h.state
              /\ h.state # "half_open"
              /\ FailureScript(h, t).openedAt = h.openedAt
              /\ FailureScript(h, t).failures < FailureThreshold
BY BreakerAssumption DEF BreakerAssumption, FailureScript, Expiring, Circuit, CircuitState

-----------------------------------------------------------------------------
(* The invariant that holds whatever the length of calls *)

\* What a script run for caller c has to leave in the hash.
GoodHash(h, c) ==
    /\ h \in Circuit
    /\ h.state = "open" => \/ h.openedAt = start[c] /\ pc[c] # "idle"
                           \/ circuit.state = "open" /\ h.openedAt = circuit.openedAt
    /\ h.state = "closed" => h.failures < FailureThreshold
    /\ h.state = "half_open" => h.probeTaken /\ h.expireAt # NoTime

\* The caller moves on within its call, or returns.
Moves(c) == (UNCHANGED start /\ pc[c] # "idle") \/ Return(c)

\* A step that runs a script for caller c and moves only c keeps BreakerInv,
\* when the new hash does.
LEMMA ScriptStep ==
    ASSUME BreakerInv, NEW c \in Callers, NEW h, GoodHash(h, c), Write(h),
           UNCHANGED <<now, forcing>>, NEW l \in Labels, Goto(c, l), Moves(c)
    PROVE  BreakerInv'
<1> USE BreakerAssumption DEF BreakerAssumption, BreakerInv, GoodHash, Moves
<1>1. TypeOK'
  BY DEF TypeOK, Write, Goto, Return, Labels, InFlight
<1>2. CallTimes'
  BY DEF TypeOK, CallTimes, Goto, Return, Labels
<1>3. OpenStamp'
  BY DEF TypeOK, CallTimes, OpenStamp, Write, Circuit
<1>4. ClosedBelowThreshold' /\ HalfOpenIsLeased'
  BY DEF ClosedBelowThreshold, HalfOpenIsLeased, Write
<1> QED
  BY <1>1, <1>2, <1>3, <1>4

\* The initial state satisfies BreakerInv.
LEMMA BreakerInvInit == Init => BreakerInv
<1> SUFFICES ASSUME Init PROVE BreakerInv
  OBVIOUS
<1> USE BreakerAssumption DEF BreakerAssumption, Init
<1>1. circuit \in Circuit /\ circuit.state = "closed" /\ circuit.failures = 0
  BY DEF Absent, Circuit, CircuitState, Times, NoTime
<1>2. TypeOK /\ CallTimes
  BY <1>1 DEF TypeOK, CallTimes
<1>3. OpenStamp /\ ClosedBelowThreshold /\ HalfOpenIsLeased
  BY <1>1 DEF OpenStamp, ClosedBelowThreshold, HalfOpenIsLeased
<1> QED
  BY <1>2, <1>3 DEF BreakerInv

\* Every action keeps BreakerInv.
LEMMA BreakerInvStep == BreakerInv /\ [Next]_vars => BreakerInv'
<1> SUFFICES ASSUME BreakerInv, [Next]_vars PROVE BreakerInv'
  OBVIOUS
<1> USE BreakerAssumption DEF BreakerAssumption
<1>t. /\ now \in Nat /\ circuit \in Circuit /\ start \in [Callers -> Nat]
      /\ ClosedBelowThreshold /\ HalfOpenIsLeased
      /\ \A c \in Callers : start[c] \in Nat
  BY DEF BreakerInv, TypeOK
<1>a. circuit.failures \in Nat /\ circuit.state \in CircuitState
  BY <1>t DEF Circuit
<1>n. now + TTL \in Nat /\ now + TTL # NoTime
  BY <1>t DEF NoTime
<1>1. ASSUME NEW c \in Callers, Begin(c) PROVE BreakerInv'
  <2>1. TypeOK' /\ CallTimes'
    BY <1>1 DEF Begin, BreakerInv, TypeOK, CallTimes, Goto
  <2> QED
    BY <1>1, <2>1 DEF Begin, BreakerInv, OpenStamp, ClosedBelowThreshold, HalfOpenIsLeased
<1>2. ASSUME NEW c \in Callers, Attempt(c) \/ AttemptLost(c) PROVE BreakerInv'
  <2>1. PICK h \in {circuit, AttemptScript(circuit, start[c])} : Write(h)
    BY <1>2 DEF Attempt, AttemptLost
  <2>2. h \in Circuit
    BY <1>t, <2>1, ScriptTypes
  <2>3. GoodHash(h, c)
    BY <1>t, <1>a, <1>n, <2>1, <2>2, AttemptFacts
    DEF GoodHash, ClosedBelowThreshold, HalfOpenIsLeased, CircuitState
  <2>4. PICK l \in Labels : Goto(c, l)
    BY <1>2 DEF Attempt, AttemptLost, Goto, Return, Labels
  <2>5. Moves(c)
    BY <1>2 DEF Moves, Attempt, AttemptLost
  <2> QED
    BY <1>2, <2>1, <2>3, <2>4, <2>5, ScriptStep DEF Attempt, AttemptLost
<1>3. ASSUME NEW c \in Callers, ReportSuccess(c) \/ ReportSuccessLost(c) PROVE BreakerInv'
  <2>1. PICK h \in {circuit, SuccessScript(circuit, start[c])} : Write(h)
    BY <1>3 DEF ReportSuccess, ReportSuccessLost
  <2>2. h \in Circuit
    BY <1>t, <2>1, ScriptTypes
  <2>3. GoodHash(h, c)
    BY <1>t, <1>a, <2>1, <2>2, SuccessFacts DEF GoodHash, ClosedBelowThreshold, HalfOpenIsLeased
  <2>4. PICK l \in Labels : Goto(c, l)
    BY <1>3 DEF ReportSuccess, ReportSuccessLost, Return, Labels
  <2>5. Moves(c)
    BY <1>3 DEF Moves, ReportSuccess, ReportSuccessLost
  <2> QED
    BY <1>3, <2>1, <2>3, <2>4, <2>5, ScriptStep DEF ReportSuccess, ReportSuccessLost
<1>4. ASSUME NEW c \in Callers, ReportFailure(c) \/ ReportFailureLost(c) PROVE BreakerInv'
  <2>1. PICK h \in {circuit, FailureScript(circuit, start[c])} : Write(h)
    BY <1>4 DEF ReportFailure, ReportFailureLost
  <2>2. h \in Circuit
    BY <1>t, <2>1, ScriptTypes
  <2>3. GoodHash(h, c)
    <3>1. pc[c] # "idle"
      BY <1>4 DEF ReportFailure, ReportFailureLost
    <3> QED
      BY <3>1, <1>t, <1>a, <2>1, <2>2, FailureFacts
         DEF GoodHash, ClosedBelowThreshold, HalfOpenIsLeased
  <2>4. PICK l \in Labels : Goto(c, l)
    BY <1>4 DEF ReportFailure, ReportFailureLost, Return, Labels
  <2>5. Moves(c)
    BY <1>4 DEF Moves, ReportFailure, ReportFailureLost
  <2>6. UNCHANGED <<now, forcing>>
    BY <1>4 DEF ReportFailure, ReportFailureLost
  <2> QED
    BY <2>1, <2>3, <2>4, <2>5, <2>6, ScriptStep
<1>5. ASSUME NEW c \in Callers, Crash(c) PROVE BreakerInv'
  <2>1. TypeOK' /\ CallTimes'
    BY <1>5 DEF Crash, BreakerInv, TypeOK, CallTimes, Goto, Return
  <2> QED
    BY <1>5, <2>1 DEF Crash, BreakerInv, OpenStamp, ClosedBelowThreshold, HalfOpenIsLeased
<1>6. CASE ResetCircuit
  BY <1>6 DEF ResetCircuit, Write, Absent, BreakerInv, TypeOK, CallTimes, OpenStamp,
              ClosedBelowThreshold, HalfOpenIsLeased, Circuit, CircuitState, Times, NoTime
<1>7. CASE ForceOpenCircuit
  <2> DEFINE h == [circuit EXCEPT !.state = "open", !.openedAt = now, !.probeTaken = FALSE]
  <2>1. h \in Circuit /\ h.state = "open" /\ h.openedAt = now
    BY <1>t DEF Circuit, CircuitState
  <2>2. Write(h)
    BY <1>7 DEF ForceOpenCircuit
  <2> HIDE DEF h
  <2> QED
    BY <1>7, <2>1, <2>2 DEF ForceOpenCircuit, Write, BreakerInv, TypeOK, CallTimes, OpenStamp,
              ClosedBelowThreshold, HalfOpenIsLeased, InFlight
<1>8. CASE ForceOpenExpire
  <2>1. PICK h \in {circuit, Expiring(circuit)} : Write(h)
    BY <1>8 DEF ForceOpenExpire
  <2>2. /\ h \in Circuit /\ h.state = circuit.state /\ h.failures = circuit.failures
        /\ h.openedAt = circuit.openedAt /\ h.probeTaken = circuit.probeTaken
        /\ h.expireAt \in {circuit.expireAt, now + TTL}
    BY <1>t, <2>1, ExpiringFacts
  <2> QED
    BY <1>8, <1>n, <2>1, <2>2 DEF ForceOpenExpire, Write, BreakerInv, TypeOK, CallTimes, OpenStamp,
              ClosedBelowThreshold, HalfOpenIsLeased
<1>9. CASE ForceOpenAbort
  BY <1>9 DEF ForceOpenAbort, BreakerInv, TypeOK, CallTimes, OpenStamp,
              ClosedBelowThreshold, HalfOpenIsLeased
<1>10. CASE Tick
  <2>1. circuit' \in {circuit, Absent} /\ Absent \in Circuit /\ Absent.state = "closed"
        /\ Absent.failures = 0
    BY <1>10 DEF Tick, Absent, Circuit, CircuitState, Times, NoTime
  <2>2. TypeOK' /\ OpenStamp'
    BY <1>10, <2>1 DEF Tick, BreakerInv, TypeOK, OpenStamp
  <2>3. CallTimes'
    BY <1>10 DEF Tick, BreakerInv, TypeOK, CallTimes
  <2>4. ClosedBelowThreshold' /\ HalfOpenIsLeased'
    BY <1>t, <2>1 DEF ClosedBelowThreshold, HalfOpenIsLeased
  <2> QED
    BY <2>2, <2>3, <2>4 DEF BreakerInv
<1>11. CASE UNCHANGED vars
  BY <1>11 DEF vars, BreakerInv, TypeOK, CallTimes, OpenStamp,
              ClosedBelowThreshold, HalfOpenIsLeased
<1> QED
  BY <1>1, <1>2, <1>3, <1>4, <1>5, <1>6, <1>7, <1>8, <1>9, <1>10, <1>11 DEF Next, Step, Fault

\* For all constants: the hash is well typed, a closed circuit is below its
\* threshold and a half-open one is leased, whatever calls, faults, operator
\* and clock do.
THEOREM BreakerSafety ==
    Spec => [](TypeOK /\ ClosedBelowThreshold /\ HalfOpenIsLeased)
<1>1. BreakerInv => TypeOK /\ ClosedBelowThreshold /\ HalfOpenIsLeased
  BY DEF BreakerInv
<1> QED
  BY <1>1, BreakerInvInit, BreakerInvStep, PTL DEF Spec

-----------------------------------------------------------------------------
(* How long an open circuit leaves the provider alone *)

\* Only ATTEMPT_SCRIPT leaves the open state for half_open, and only for a
\* caller whose time is past the open period.
LEMMA OnlyAttemptProbes ==
    ASSUME BreakerInv, Next, ProbeAdmitted
    PROVE  \E c \in Callers : /\ Attempt(c) \/ AttemptLost(c)
                              /\ circuit.openedAt + OpenDuration <= start[c]
<1>t. now \in Nat /\ circuit \in Circuit /\ \A c \in Callers : start[c] \in Nat
  BY DEF BreakerInv, TypeOK
<1>1. circuit.state = "open" /\ circuit'.state = "half_open"
  BY DEF ProbeAdmitted
<1>2. ASSUME NEW c \in Callers, Step(c) \/ Fault(c), ~(Attempt(c) \/ AttemptLost(c)) PROVE FALSE
  <2>1. circuit' \in {circuit, SuccessScript(circuit, start[c]), FailureScript(circuit, start[c])}
    BY <1>2 DEF Step, Fault, Begin, ReportSuccess, ReportSuccessLost, ReportFailure,
                ReportFailureLost, Crash, Write
  <2> QED
    BY <1>t, <1>1, <2>1, SuccessFacts, FailureFacts
<1>3. ASSUME ResetCircuit \/ ForceOpenCircuit \/ ForceOpenAbort \/ Tick PROVE FALSE
  <2>1. \/ circuit' \in {circuit, Absent}
        \/ circuit' = [circuit EXCEPT !.state = "open", !.openedAt = now, !.probeTaken = FALSE]
    BY <1>3 DEF ResetCircuit, ForceOpenCircuit, ForceOpenAbort, Tick, Write
  <2>2. Absent.state = "closed"
    BY DEF Absent
  <2>3. [circuit EXCEPT !.state = "open", !.openedAt = now, !.probeTaken = FALSE].state = "open"
    BY <1>t DEF Circuit
  <2> QED
    BY <1>1, <2>1, <2>2, <2>3
<1>4. ASSUME ForceOpenExpire PROVE FALSE
  <2>1. circuit' \in {circuit, Expiring(circuit)}
    BY <1>4 DEF ForceOpenExpire, Write
  <2> QED
    BY <1>t, <1>1, <2>1, ExpiringFacts
<1>5. PICK c \in Callers : Attempt(c) \/ AttemptLost(c)
  BY <1>2, <1>3, <1>4 DEF Next
<1>6. circuit' \in {circuit, AttemptScript(circuit, start[c])}
  BY <1>5 DEF Attempt, AttemptLost, Write
<1> QED
  BY <1>t, <1>1, <1>5, <1>6, AttemptFacts

\* For all constants: when a probe is let through, the circuit has been open
\* for at least OpenDuration less the longest call.
THEOREM QuietPeriodHolds == Spec => QuietPeriod
<1>1. BreakerInv /\ [Next]_vars => [ProbeAdmitted => now + MaxCall >= trippedAt + OpenDuration]_vars
  <2> SUFFICES ASSUME BreakerInv, Next, ProbeAdmitted
               PROVE  now + MaxCall >= trippedAt + OpenDuration
    OBVIOUS
  <2>1. PICK c \in Callers : /\ pc[c] = "called"
                             /\ circuit.openedAt + OpenDuration <= start[c]
    BY OnlyAttemptProbes DEF Attempt, AttemptLost
  <2>2. start[c] <= now /\ trippedAt <= circuit.openedAt + MaxCall
    BY <2>1 DEF BreakerInv, CallTimes, OpenStamp, ProbeAdmitted
  <2>3. /\ now \in Nat /\ start[c] \in Nat /\ trippedAt \in Nat /\ circuit.openedAt \in Nat
    BY DEF BreakerInv, TypeOK, Circuit
  <2> QED
    BY <2>1, <2>2, <2>3, BreakerAssumption DEF BreakerAssumption
<1> QED
  BY <1>1, BreakerInvInit, BreakerInvStep, PTL DEF Spec, QuietPeriod

-----------------------------------------------------------------------------
(* One probe per opening, however long calls take *)

\* How a step of caller c changes the set of calls in progress.
LEMMA InFlightAfter ==
    ASSUME BreakerInv, NEW c \in Callers, NEW l \in Labels, Goto(c, l)
    PROVE  InFlight' = IF l \in {"calling", "probing", "catch"}
                       THEN InFlight \cup {c} ELSE InFlight \ {c}
BY DEF BreakerInv, TypeOK, Goto, InFlight, Labels

\* A write of the hash that does not open the circuit leaves late alone; one
\* that does makes every call in progress late.
LEMMA WriteFacts ==
    ASSUME NEW h, Write(h)
    PROVE  /\ circuit' = h
           /\ h.state # "open" \/ circuit.state = "open" => late' = late
           /\ h.state = "open" /\ circuit.state # "open" => late' = InFlight
BY DEF Write

\* What ATTEMPT_SCRIPT does for caller c, by the state it finds.
LEMMA AttemptCases ==
    ASSUME BreakerInv, NEW c \in Callers, Attempt(c) \/ AttemptLost(c)
    PROVE  /\ c \notin InFlight /\ late' = late
           /\ InFlight' \in {InFlight, InFlight \cup {c}}
           /\ \/ circuit.state = "closed" /\ circuit'.state = "closed"
              \/ circuit.state = "open" /\ circuit'.state = "half_open"
              \/ circuit.state = "open" /\ circuit'.state = "open" /\ InFlight' = InFlight
              \/ circuit.state = "half_open" /\ circuit'.state = "half_open" /\ InFlight' = InFlight
<1> USE DEF Labels
<1>t. /\ now \in Nat /\ circuit \in Circuit /\ start[c] \in Nat
      /\ circuit.state \in {"closed", "open", "half_open"}
  BY DEF BreakerInv, TypeOK, Circuit, CircuitState
<1>1. /\ circuit' \in {circuit, AttemptScript(circuit, start[c])}
      /\ pc[c] = "called" /\ c \notin InFlight /\ Write(circuit')
  BY DEF Attempt, AttemptLost, Write, InFlight
<1>2. InFlight' \in {InFlight, InFlight \cup {c}}
  BY <1>1, InFlightAfter DEF Attempt, AttemptLost, Return
<1>3. Return(c) => InFlight' = InFlight
  BY <1>1, InFlightAfter DEF Return
<1>4. circuit.state # "open" => circuit'.state = circuit.state
  BY <1>t, <1>1, AttemptFacts
<1>5. circuit.state = "open" => circuit'.state \in {"open", "half_open"}
  BY <1>t, <1>1, AttemptFacts
<1>6. circuit.state = "open" /\ circuit'.state = "open" => Return(c)
  BY <1>t, AttemptFacts DEF Attempt, AttemptLost, Write
<1>7. circuit.state = "half_open" => Return(c)
  BY DEF Attempt, AttemptLost, Allowed, BreakerInv, HalfOpenIsLeased
<1>8. late' = late
  BY <1>1, <1>4, <1>5, WriteFacts
<1> QED
  BY <1>t, <1>1, <1>2, <1>3, <1>4, <1>5, <1>6, <1>7, <1>8

\* What a report of caller c does.
LEMMA ReportCases ==
    ASSUME BreakerInv, NEW c \in Callers,
           \/ ReportSuccess(c) \/ ReportSuccessLost(c)
           \/ ReportFailure(c) \/ ReportFailureLost(c)
    PROVE  /\ c \in InFlight
           /\ \/ /\ circuit'.state = circuit.state /\ late' = late
                 /\ InFlight' \in {InFlight, InFlight \ {c}}
              \/ /\ circuit.state = "half_open" /\ circuit'.state = "closed" /\ late' = late
                 /\ InFlight' \in {InFlight, InFlight \ {c}}
              \/ /\ circuit.state # "open" /\ circuit'.state = "open" /\ late' = InFlight
                 /\ InFlight' = InFlight \ {c}
<1> USE DEF Labels
<1>t. /\ now \in Nat /\ circuit \in Circuit /\ start[c] \in Nat
      /\ circuit.state \in {"closed", "open", "half_open"}
  BY DEF BreakerInv, TypeOK, Circuit, CircuitState
<1>1. c \in InFlight
  BY DEF ReportSuccess, ReportSuccessLost, ReportFailure, ReportFailureLost, InFlight
<1>2. Return(c) => InFlight' = InFlight \ {c}
  BY InFlightAfter DEF Return
<1>3. CASE ReportSuccess(c) \/ ReportSuccessLost(c)
  <2>1. circuit' \in {circuit, SuccessScript(circuit, start[c])} /\ Write(circuit')
    BY <1>3 DEF ReportSuccess, ReportSuccessLost, Write
  <2>2. InFlight' \in {InFlight, InFlight \ {c}}
    <3>1. Goto(c, "catch") => InFlight' = InFlight
      BY <1>1, InFlightAfter
    <3> QED
      BY <1>2, <1>3, <3>1 DEF ReportSuccess, ReportSuccessLost
  <2>3. circuit' = circuit \/ (circuit.state = "half_open" /\ circuit'.state = "closed")
    BY <1>t, <2>1, SuccessFacts
  <2>4. late' = late
    BY <2>1, <2>3, WriteFacts
  <2> QED
    BY <1>1, <2>2, <2>3, <2>4
<1>4. CASE ReportFailure(c) \/ ReportFailureLost(c)
  <2>1. circuit' \in {circuit, FailureScript(circuit, start[c])} /\ Write(circuit') /\ Return(c)
    BY <1>4 DEF ReportFailure, ReportFailureLost, Write
  <2>2. circuit'.state \in {circuit.state, "open"}
    BY <1>t, <2>1, FailureFacts
  <2> QED
    BY <1>1, <1>2, <2>1, <2>2, WriteFacts
<1> QED
  BY <1>3, <1>4

\* What every other step does: it moves no call that was let through, but
\* may end one.
LEMMA OtherCases ==
    ASSUME BreakerInv,
           \/ \E c \in Callers : Begin(c) \/ Crash(c)
           \/ ResetCircuit \/ ForceOpenCircuit \/ ForceOpenExpire \/ ForceOpenAbort \/ Tick
           \/ UNCHANGED vars
    PROVE  \/ /\ circuit'.state \in {circuit.state, "closed"}
              /\ InFlight' = InFlight /\ InFlight \cap late' = InFlight \cap late
           \/ /\ circuit'.state = circuit.state /\ late' = late
              /\ \E c \in InFlight : InFlight' = InFlight \ {c}
           \/ /\ circuit'.state = "open" /\ InFlight' = InFlight
              /\ late' = IF circuit.state = "open" THEN late ELSE InFlight
<1> USE DEF Labels
<1>t. now \in Nat /\ circuit \in Circuit
  BY DEF BreakerInv, TypeOK
<1>1. ASSUME NEW c \in Callers, Begin(c)
      PROVE  /\ circuit'.state = circuit.state /\ InFlight' = InFlight
             /\ InFlight \cap late' = InFlight \cap late
  <2>1. c \notin InFlight /\ Goto(c, "called") /\ circuit' = circuit /\ late' = late \ {c}
    BY <1>1 DEF Begin, InFlight
  <2>2. InFlight' = InFlight
    BY <2>1, InFlightAfter
  <2> QED
    BY <2>1, <2>2
<1>2. ASSUME NEW c \in Callers, Crash(c)
      PROVE  circuit' = circuit /\ late' = late /\ InFlight' = InFlight \ {c}
  BY <1>2, InFlightAfter DEF Crash, Return
<1>3. CASE ResetCircuit
  BY <1>3, WriteFacts DEF ResetCircuit, Absent, InFlight
<1>4. CASE ForceOpenCircuit
  <2> DEFINE h == [circuit EXCEPT !.state = "open", !.openedAt = now, !.probeTaken = FALSE]
  <2>1. h.state = "open" /\ Write(h) /\ InFlight' = InFlight
    BY <1>t, <1>4 DEF ForceOpenCircuit, Circuit, InFlight
  <2> HIDE DEF h
  <2> QED
    BY <2>1, WriteFacts
<1>5. CASE ForceOpenExpire
  <2>1. PICK h \in {circuit, Expiring(circuit)} : Write(h)
    BY <1>5 DEF ForceOpenExpire
  <2>2. h.state = circuit.state /\ InFlight' = InFlight
    BY <1>t, <1>5, <2>1, ExpiringFacts DEF ForceOpenExpire, InFlight
  <2> QED
    BY <2>1, <2>2, WriteFacts
<1>6. CASE ForceOpenAbort \/ Tick \/ UNCHANGED vars
  BY <1>6 DEF ForceOpenAbort, Tick, vars, Absent, InFlight
<1>7. ASSUME NEW c \in Callers, Crash(c)
      PROVE  InFlight' = InFlight \/ \E d \in InFlight : InFlight' = InFlight \ {d}
  BY <1>2, <1>7
<1> QED
  BY <1>1, <1>2, <1>3, <1>4, <1>5, <1>6, <1>7

\* Every action keeps CalledIsNew: only a call in progress becomes late.
LEMMA CalledIsNewStep ==
    ASSUME BreakerInv, CalledIsNew, [Next]_vars
    PROVE  CalledIsNew'
<1>1. ASSUME NEW c \in Callers, Begin(c) PROVE CalledIsNew'
  BY <1>1 DEF Begin, CalledIsNew, Goto, BreakerInv, TypeOK
<1>2. CASE ~\E c \in Callers : Begin(c)
  <2>1. late' \subseteq late \cup InFlight
    BY <1>2 DEF Next, Step, Fault, Attempt, AttemptLost, ReportSuccess, ReportSuccessLost,
                ReportFailure, ReportFailureLost, Crash, ResetCircuit, ForceOpenCircuit,
                ForceOpenExpire, ForceOpenAbort, Tick, vars, Write
  <2>2. \A d \in Callers : pc'[d] = "called" => pc[d] = "called"
    BY <1>2 DEF Next, Step, Fault, Attempt, AttemptLost, ReportSuccess, ReportSuccessLost,
                ReportFailure, ReportFailureLost, Crash, ResetCircuit, ForceOpenCircuit,
                ForceOpenExpire, ForceOpenAbort, Tick, vars, Goto, Return, BreakerInv, TypeOK
  <2> QED
    BY <2>1, <2>2 DEF CalledIsNew, InFlight
<1> QED
  BY <1>1, <1>2

\* Every action keeps ProbeInv.
LEMMA ProbeInvStep ==
    ASSUME BreakerInv, ProbeInv, [Next]_vars
    PROVE  ProbeInv'
<1> USE DEF OpenOnlyLate, SingleProbe
<1>0. CalledIsNew' /\ OpenOnlyLate /\ SingleProbe
  BY CalledIsNewStep DEF ProbeInv
<1>1. ASSUME NEW c \in Callers, Attempt(c) \/ AttemptLost(c) PROVE OpenOnlyLate' /\ SingleProbe'
  <2>1. CASE circuit.state = "open" /\ circuit'.state = "half_open"
    <3>1. InFlight' \ late' \subseteq {c}
      BY <1>0, <1>1, <2>1, AttemptCases
    <3> QED
      BY <2>1, <3>1
  <2> QED
    BY <1>0, <1>1, <2>1, AttemptCases
<1>2. ASSUME NEW c \in Callers,
             \/ ReportSuccess(c) \/ ReportSuccessLost(c)
             \/ ReportFailure(c) \/ ReportFailureLost(c)
      PROVE  OpenOnlyLate' /\ SingleProbe'
  BY <1>0, <1>2, ReportCases
<1>3. ASSUME \/ \E c \in Callers : Begin(c) \/ Crash(c)
             \/ ResetCircuit \/ ForceOpenCircuit \/ ForceOpenExpire \/ ForceOpenAbort \/ Tick
             \/ UNCHANGED vars
      PROVE  OpenOnlyLate' /\ SingleProbe'
  BY <1>0, <1>3, OtherCases
<1> QED
  BY <1>0, <1>1, <1>2, <1>3 DEF Next, Step, Fault, ProbeInv

\* No call is in progress initially.
LEMMA ProbeInvInit == Init => ProbeInv
BY DEF Init, Absent, ProbeInv, OpenOnlyLate, CalledIsNew, SingleProbe, InFlight

\* For all constants, and so for calls of any length: an open circuit lets one
\* call through, and the other calls that run while it is half open were
\* running when it opened.
THEOREM SingleProbeHolds == Spec => []SingleProbe
<1>1. BreakerInv /\ ProbeInv /\ [Next]_vars => BreakerInv' /\ ProbeInv'
  BY BreakerInvStep, ProbeInvStep
<1>2. ProbeInv => SingleProbe
  BY DEF ProbeInv
<1> QED
  BY <1>1, <1>2, BreakerInvInit, ProbeInvInit, PTL DEF Spec

-----------------------------------------------------------------------------
(* The breaker implements its contract *)

\* Every step of the breaker is a step of the contract, or leaves state and
\* calls in progress as they are.
LEMMA ContractStep ==
    ASSUME BreakerInv, ProbeInv, [Next]_vars
    PROVE  [Contract!Next]_(Contract!vars)
<1> DEFINE L == InFlight \cap late
<1>1. ASSUME NEW c \in Callers, Attempt(c) \/ AttemptLost(c) PROVE [Contract!Next]_(Contract!vars)
  <2>1. /\ c \notin InFlight /\ c \notin late /\ late' = late
        /\ InFlight' \in {InFlight, InFlight \cup {c}}
    <3>1. pc[c] = "called"
      BY <1>1 DEF Attempt, AttemptLost
    <3> QED
      BY <1>1, <3>1, AttemptCases DEF ProbeInv, CalledIsNew
  <2>2. L' = L
    BY <2>1
  <2>3. CASE circuit.state = "closed" /\ circuit'.state = "closed"
    BY <2>1, <2>2, <2>3 DEF Contract!Next, Contract!Admit, Contract!vars
  <2>4. CASE circuit.state = "open" /\ circuit'.state = "half_open"
    <3>1. InFlight = L
      BY <2>4 DEF ProbeInv, OpenOnlyLate
    <3> QED
      BY <2>1, <2>2, <2>4, <3>1 DEF Contract!Next, Contract!Probe, Contract!LoseProbe
  <2>5. CASE circuit'.state = circuit.state /\ InFlight' = InFlight
    BY <2>2, <2>5 DEF Contract!vars
  <2> QED
    BY <1>1, <2>3, <2>4, <2>5, AttemptCases
<1>2. ASSUME NEW c \in Callers,
             \/ ReportSuccess(c) \/ ReportSuccessLost(c)
             \/ ReportFailure(c) \/ ReportFailureLost(c)
      PROVE  [Contract!Next]_(Contract!vars)
  <2>1. c \in InFlight
    BY <1>2, ReportCases
  <2>2. ASSUME late' = late, InFlight' = InFlight PROVE L' = L
    BY <2>2
  <2>3. ASSUME late' = late, InFlight' = InFlight \ {c} PROVE L' = L \ {c}
    BY <2>3
  <2>4. CASE /\ circuit'.state = circuit.state /\ late' = late
             /\ InFlight' \in {InFlight, InFlight \ {c}}
    BY <2>1, <2>2, <2>3, <2>4 DEF Contract!Next, Contract!Finish, Contract!End, Contract!vars
  <2>5. CASE /\ circuit.state = "half_open" /\ circuit'.state = "closed" /\ late' = late
             /\ InFlight' \in {InFlight, InFlight \ {c}}
    BY <2>1, <2>2, <2>3, <2>5 DEF Contract!Next, Contract!Recover, Contract!End
  <2>6. CASE /\ circuit.state # "open" /\ circuit'.state = "open" /\ late' = InFlight
             /\ InFlight' = InFlight \ {c}
    <3>1. L' = InFlight \ {c}
      BY <2>6
    <3>2. circuit.state \in {"closed", "half_open"}
      BY <2>6 DEF BreakerInv, TypeOK, Circuit, CircuitState
    <3> QED
      BY <2>1, <2>6, <3>1, <3>2 DEF Contract!Next, Contract!Trip
  <2> QED
    BY <1>2, <2>4, <2>5, <2>6, ReportCases
<1>3. ASSUME \/ \E c \in Callers : Begin(c) \/ Crash(c)
             \/ ResetCircuit \/ ForceOpenCircuit \/ ForceOpenExpire \/ ForceOpenAbort \/ Tick
             \/ UNCHANGED vars
      PROVE  [Contract!Next]_(Contract!vars)
  <2>1. CASE /\ circuit'.state \in {circuit.state, "closed"}
             /\ InFlight' = InFlight /\ InFlight \cap late' = InFlight \cap late
    <3>1. L' = L
      BY <2>1
    <3> QED
      BY <2>1, <3>1 DEF Contract!Next, Contract!Clear, Contract!vars
  <2>2. CASE /\ circuit'.state = circuit.state /\ late' = late
             /\ \E c \in InFlight : InFlight' = InFlight \ {c}
    <3>1. PICK c \in InFlight : InFlight' = InFlight \ {c}
      BY <2>2
    <3>2. L' = L \ {c} /\ c \in Callers
      BY <2>2, <3>1 DEF InFlight
    <3> QED
      BY <2>2, <3>1, <3>2 DEF Contract!Next, Contract!Finish, Contract!End
  <2>3. CASE /\ circuit'.state = "open" /\ InFlight' = InFlight
             /\ late' = IF circuit.state = "open" THEN late ELSE InFlight
    <3>1. L' = IF circuit.state = "open" THEN L ELSE InFlight
      BY <2>3
    <3> QED
      BY <2>3, <3>1 DEF Contract!Next, Contract!ForceOpen
  <2> QED
    BY <1>3, <2>1, <2>2, <2>3, OtherCases
<1> QED
  BY <1>1, <1>2, <1>3 DEF Next, Step, Fault

\* For all constants, and so for calls of any length: the scripts, interleaved
\* in any way, implement the three-state machine of BreakerContract.
THEOREM BreakerKeepsContract == Spec => KeepsContract
<1>1. Init => Contract!Init
  BY DEF Init, Absent, InFlight, Contract!Init
<1>2. BreakerInv /\ ProbeInv /\ [Next]_vars => BreakerInv' /\ ProbeInv'
  BY BreakerInvStep, ProbeInvStep
<1>3. BreakerInv /\ ProbeInv /\ [Next]_vars => [Contract!Next]_(Contract!vars)
  BY ContractStep
<1> QED
  BY <1>1, <1>2, <1>3, BreakerInvInit, ProbeInvInit, PTL DEF Spec, KeepsContract, Contract!Spec
=============================================================================
