-------------------------- MODULE BreakerContract ---------------------------
(***************************************************************************)
(* The three states of withCircuitBreaker's comment, without clock, hash   *)
(* or scripts: CLOSED lets every call through, OPEN none, and HALF_OPEN is *)
(* entered by letting one probe through.  Calls that were let through      *)
(* before the circuit opened may still be running: they are late, and the  *)
(* report of a late call is taken like the probe's.                        *)
(***************************************************************************)
CONSTANT Callers

VARIABLES
    state,      \* "closed", "open" or "half_open"
    inFlight,   \* the calls let through and not yet ended
    late        \* those of them let through before the circuit last opened

vars == <<state, inFlight, late>>

Init == state = "closed" /\ inFlight = {} /\ late = {}

\* A call ends.
End(c) == inFlight' = inFlight \ {c} /\ late' = late \ {c}

\* A call goes through the closed circuit.
Admit(c) == /\ state = "closed" /\ c \notin inFlight
            /\ inFlight' = inFlight \cup {c} /\ UNCHANGED <<state, late>>

\* A call goes through the open circuit as its probe: all others are late.
Probe(c) == /\ state = "open" /\ inFlight = late /\ c \notin inFlight
            /\ state' = "half_open" /\ inFlight' = inFlight \cup {c} /\ UNCHANGED late

\* The probe slot is taken by a call that never learns of it.
LoseProbe == /\ state = "open" /\ inFlight = late
             /\ state' = "half_open" /\ UNCHANGED <<inFlight, late>>

\* A call ends without moving the circuit.
Finish(c) == c \in inFlight /\ End(c) /\ UNCHANGED state

\* A failed call opens the circuit and makes the others late.
Trip(c) == /\ c \in inFlight /\ state \in {"closed", "half_open"}
           /\ state' = "open"
           /\ inFlight' = inFlight \ {c} /\ late' = inFlight \ {c}

\* A call succeeds while the circuit is half open, and closes it: the probe or
\* a late call, which may still be running when the circuit closes.
Recover(c) == /\ c \in inFlight /\ state = "half_open"
              /\ state' = "closed"
              /\ End(c) \/ UNCHANGED <<inFlight, late>>

\* An operator's reset or an expiry.
Clear == state' = "closed" /\ UNCHANGED <<inFlight, late>>

\* An operator opens the circuit: all calls in progress are late.
ForceOpen == /\ state' = "open" /\ UNCHANGED inFlight
             /\ late' = IF state = "open" THEN late ELSE inFlight

Next == \/ LoseProbe \/ Clear \/ ForceOpen
        \/ \E c \in Callers : Admit(c) \/ Probe(c) \/ Finish(c) \/ Trip(c) \/ Recover(c)

Spec == Init /\ [][Next]_vars
=============================================================================
