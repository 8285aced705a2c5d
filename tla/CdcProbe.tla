------------------------------ MODULE CdcProbe ------------------------------
(***************************************************************************)
(* The liveness probe of the CDC listener (cdc-listener.ts).  A LISTEN     *)
(* connection can die without a sign.  Every Interval the process NOTIFYs  *)
(* itself over the pool and waits for the echo on the LISTEN connection; a *)
(* probe without an echo after Timeout is reported, at the tick that sees  *)
(* it, as a lost connection, which the healthcheck of the worker turns     *)
(* into a 503.  Timers are exact, and time passes in steps of one unit.    *)
(***************************************************************************)
EXTENDS Naturals, FiniteSets

CONSTANTS Tokens,      \* bound: probes that something still holds
          NoToken,     \* no probe is outstanding
          Interval,    \* probeIntervalMs, in units
          Timeout,     \* echoTimeoutMs, in units
          MaxFailures  \* bound: NOTIFYs that fail

ASSUME ProbeAssumption ==
  /\ NoToken \notin Tokens
  /\ Interval \in Nat \ {0}
  /\ Timeout \in Nat \ {0}
  /\ MaxFailures \in Nat

VARIABLES
  up,           \* the LISTEN connection delivers
  downFor,      \* history: units since it stopped to, up to a cap
  phase,        \* units since the last tick
  outstanding,  \* outstandingProbeToken
  age,          \* units since outstandingProbeAt
  notifying,    \* probes whose NOTIFY is awaited
  echoes,       \* probes on the LISTEN connection
  reported,     \* lastDispatchedState
  failures      \* NOTIFYs that failed

probeVars == <<up, downFor, phase, outstanding, age, notifying, echoes, reported, failures>>

\* The ticks see a timeout only when they come: a probe is given up at the
\* first tick at or after Timeout, and a connection that dies just after an
\* echo waits for the next probe first.
Latency == Interval + Interval * ((Timeout + Interval - 1) \div Interval)
Cap == Latency + 1

\* startCdcListener has subscribed, and enableLivenessProbe has set the timer.
ProbeInit ==
  /\ up = TRUE
  /\ downFor = 0
  /\ phase = 0
  /\ outstanding = NoToken
  /\ age = 0
  /\ notifying = {}
  /\ echoes = {}
  /\ reported = TRUE
  /\ failures = 0

-----------------------------------------------------------------------------
(* The network and the clock                                               *)

Drops ==
  /\ up
  /\ up' = FALSE
  /\ echoes' = {}
  /\ UNCHANGED <<downFor, phase, outstanding, age, notifying, reported, failures>>

\* postgres-js notices and LISTENs again: onlisten reports TRUE.
Relistens ==
  /\ ~up
  /\ up' = TRUE
  /\ downFor' = 0
  /\ reported' = TRUE
  /\ UNCHANGED <<phase, outstanding, age, notifying, echoes, failures>>

Passes ==
  /\ phase < Interval
  /\ phase' = phase + 1
  /\ age' = IF outstanding = NoToken \/ age = Timeout + Interval THEN age ELSE age + 1
  /\ downFor' = IF up \/ downFor = Cap THEN downFor ELSE downFor + 1
  /\ UNCHANGED <<up, outstanding, notifying, echoes, reported, failures>>

-----------------------------------------------------------------------------
(* The probe                                                               *)

ClearToken == outstanding' = NoToken /\ age' = 0

Arm(t) ==
  /\ t \notin notifying \cup echoes
  /\ outstanding' = t
  /\ age' = 0
  /\ notifying' = notifying \cup {t}
  /\ UNCHANGED reported

\* Mutant: the tick that gives up says nothing.
GiveUpSilently == ClearToken /\ UNCHANGED <<reported, notifying>>

\* Mutant: the token stays set, and no probe is sent again (BS#1116).
GiveUpForGood == reported' = FALSE /\ UNCHANGED <<outstanding, age, notifying>>

GiveUp ==
  /\ ClearToken
  /\ reported' = FALSE
  /\ UNCHANGED notifying

\* runProbeTick up to its await.
Tick ==
  /\ phase = Interval
  /\ phase' = 0
  /\ \/ outstanding = NoToken /\ \E t \in Tokens : Arm(t)
     \/ outstanding # NoToken /\ age >= Timeout /\ GiveUp
     \/ /\ outstanding # NoToken /\ age < Timeout
        /\ UNCHANGED <<outstanding, age, reported, notifying>>
  /\ UNCHANGED <<up, downFor, echoes, failures>>

NotifySent(t) ==
  /\ t \in notifying
  /\ notifying' = notifying \ {t}
  /\ echoes' = IF up THEN echoes \cup {t} ELSE echoes
  /\ UNCHANGED <<up, downFor, phase, outstanding, age, reported, failures>>

\* The handler of the failure clears whatever token is outstanding by then.
NotifyFails(t) ==
  /\ t \in notifying
  /\ failures < MaxFailures
  /\ failures' = failures + 1
  /\ notifying' = notifying \ {t}
  /\ ClearToken
  /\ reported' = FALSE
  /\ UNCHANGED <<up, downFor, phase, echoes>>

\* An echo that is not the outstanding probe's is ignored.
Echo(t) ==
  /\ t \in echoes
  /\ echoes' = echoes \ {t}
  /\ IF t = outstanding THEN ClearToken /\ reported' = TRUE
     ELSE UNCHANGED <<outstanding, age, reported>>
  /\ UNCHANGED <<up, downFor, phase, notifying, failures>>

ProbeNext ==
  \/ Drops \/ Relistens \/ Passes \/ Tick
  \/ \E t \in Tokens : NotifySent(t) \/ NotifyFails(t) \/ Echo(t)

ProbeSpec == ProbeInit /\ [][ProbeNext]_probeVars

SendCurrent == outstanding # NoToken /\ NotifySent(outstanding)
EchoCurrent == outstanding # NoToken /\ Echo(outstanding)

\* The timer fires, a NOTIFY ends, and on a healthy connection an echo is not
\* later than Timeout for ever.
ProbeFairness ==
  /\ WF_probeVars(Passes) /\ WF_probeVars(Tick)
  /\ \A t \in Tokens : WF_probeVars(NotifySent(t)) /\ WF_probeVars(Echo(t))
  /\ SF_probeVars(SendCurrent) /\ SF_probeVars(EchoCurrent)

ProbeFairSpec == ProbeSpec /\ ProbeFairness

-----------------------------------------------------------------------------
(* Properties                                                              *)

\* The type invariant.
ProbeTypeOK ==
  /\ up \in BOOLEAN
  /\ downFor \in 0 .. Cap
  /\ phase \in 0 .. Interval
  /\ outstanding \in Tokens \cup {NoToken}
  /\ age \in 0 .. Timeout + Interval
  /\ notifying \subseteq Tokens
  /\ echoes \subseteq Tokens
  /\ reported \in BOOLEAN
  /\ failures \in 0 .. MaxFailures

\* A silent death is reported within Latency, whatever probe was out, late or
\* given up when it came.
DeathIsSeen == downFor > Latency => ~reported

\* A connection that stays up is reported so again and again: no probe, lost,
\* failed or given up, ends the probing (BS#1116).
LifeIsSeen == <>[]up => []<>reported
=============================================================================
