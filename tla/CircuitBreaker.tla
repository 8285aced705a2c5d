---------------------------- MODULE CircuitBreaker ----------------------------
(***************************************************************************)
(* LmlCircuitBreaker (shared/lml-client/src/circuit-breaker.ts): the state  *)
(* of one breaker as a record, and what each method makes of it.  The wall  *)
(* clock is an age in ticks that stops at OpenTicks, where the only test of *)
(* it is decided.                                                           *)
(***************************************************************************)
EXTENDS Integers

CONSTANTS
    FailureThreshold,   \* consecutive failures that trip a closed breaker
    OpenTicks           \* openMs: how long it fast-fails before a probe

ASSUME BreakerAssumption ==
    /\ FailureThreshold \in Nat \ {0}
    /\ OpenTicks \in Nat \ {0}

Breakers ==
    [state : {"closed", "open", "half_open"},
     failures : 0 .. FailureThreshold - 1,
     openAge : 0 .. OpenTicks,
     probeInFlight : BOOLEAN]

NewBreaker ==
    [state |-> "closed", failures |-> 0, openAge |-> OpenTicks, probeInFlight |-> FALSE]

\* tryAdmit: TRUE lets the call in ...
Admits(b) ==
    \/ b.state = "closed"
    \/ b.state = "open" /\ b.openAge = OpenTicks
    \/ b.state = "half_open" /\ ~b.probeInFlight

\* ... and, unless the breaker is closed, makes it the probe.
AfterAdmit(b) ==
    IF b.state = "closed" THEN b
    ELSE [b EXCEPT !.state = "half_open", !.probeInFlight = TRUE]

\* Mutant: a success resets the streak and forgets to close.
AfterSuccessNoClose(b) == [b EXCEPT !.failures = 0]

\* recordSuccess, called by whichever call comes back.
AfterSuccess(b) ==
    IF b.state = "half_open"
    THEN [b EXCEPT !.state = "closed", !.failures = 0, !.probeInFlight = FALSE]
    ELSE [b EXCEPT !.failures = 0]

Opened(b) ==
    [b EXCEPT !.state = "open", !.openAge = 0, !.failures = 0, !.probeInFlight = FALSE]

\* recordFailure; in an open breaker it counts on, and may re-open.
AfterFailure(b) ==
    IF b.state = "half_open" \/ b.failures + 1 >= FailureThreshold
    THEN Opened(b)
    ELSE [b EXCEPT !.failures = @ + 1]

AfterTick(b) == [b EXCEPT !.openAge = IF @ < OpenTicks THEN @ + 1 ELSE @]

===============================================================================
