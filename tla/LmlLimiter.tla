------------------------------ MODULE LmlLimiter ------------------------------
(***************************************************************************)
(* The process-wide limiter in front of library-metadata-lookup (LML):      *)
(* LmlLimiter.run of shared/lml-client/src/index.ts, which composes a FIFO  *)
(* permit semaphore with a bounded wait, a token bucket and a circuit       *)
(* breaker, and the fetch that runs inside it (lmlFetch).                   *)
(*                                                                          *)
(* Time is in ticks.  A timer that is due fires before the next tick, but   *)
(* what else happens in that tick may come before it or after it, as in the *)
(* event loop.  A tick refills the bucket by one unit; a call costs         *)
(* TokenTicks units, so the fractional token count of the code is exact.    *)
(***************************************************************************)
EXTENDS CircuitBreaker, Sequences, FiniteSets, SequencesExt

CONSTANTS
    Calls,           \* the callers, each with at most one call at a time
    MaxConcurrent,   \* LML_CLIENT_MAX_CONCURRENT
    Burst,           \* capacity of the bucket, in tokens
    TokenTicks,      \* ticks in which one token is earned
    QueueWait,       \* LML_LIMITER_MAX_QUEUE_WAIT_MS
    Timeouts         \* the fetch timeouts of the caller classes

ASSUME LimiterAssumption ==
    /\ IsFiniteSet(Calls)
    /\ MaxConcurrent \in Nat \ {0}
    /\ Burst \in Nat \ {0}
    /\ TokenTicks \in Nat \ {0}
    /\ QueueWait \in Nat \ {0}
    /\ Timeouts \subseteq Nat \ {0}

VARIABLES
    pc,         \* where each call is in run()
    left,       \* ticks until the timer of the call fires
    queue,      \* Semaphore.waiters
    permits,    \* Semaphore.permits
    units,      \* TokenBucket.tokens, in units
    breaker,    \* the LmlCircuitBreaker
    asProbe     \* the calls the breaker let in as its probe

vars == <<pc, left, queue, permits, units, breaker, asProbe>>

Steps   == {"idle", "queued", "granted", "sleeping", "fetching", "reading"}
Holding == {"granted", "sleeping", "fetching", "reading"}   \* a permit is held
Holders == {c \in Calls : pc[c] \in Holding}

TypeOK ==
    /\ pc \in [Calls -> Steps]
    /\ left \in [Calls -> Nat]
    /\ queue \in Seq(Calls)
    /\ permits \in 0 .. MaxConcurrent
    /\ units \in 0 .. Burst * TokenTicks
    /\ breaker \in Breakers
    /\ asProbe \subseteq Calls

Init ==
    /\ pc = [c \in Calls |-> "idle"]
    /\ left = [c \in Calls |-> 0]
    /\ queue = <<>>
    /\ permits = MaxConcurrent
    /\ units = Burst * TokenTicks
    /\ breaker = NewBreaker
    /\ asProbe = {}

--------------------------------------------------------------------------------
(***************************************************************************)
(* Admission: the breaker gate and the semaphore.                           *)
(***************************************************************************)

\* tryAdmit, then acquire.  A call the breaker rejects is shed on the spot
\* and changes nothing.
Call(c) ==
    /\ pc[c] = "idle"
    /\ Admits(breaker)
    /\ breaker' = AfterAdmit(breaker)
    /\ asProbe' = IF breaker.state = "closed" THEN asProbe ELSE asProbe \cup {c}
    /\ IF permits > 0
       THEN /\ permits' = permits - 1
            /\ pc' = [pc EXCEPT ![c] = "granted"]
            /\ UNCHANGED <<left, queue>>
       ELSE /\ queue' = Append(queue, c)
            /\ pc' = [pc EXCEPT ![c] = "queued"]
            /\ left' = [left EXCEPT ![c] = QueueWait]
            /\ UNCHANGED permits
    /\ UNCHANGED units

\* Mutant: a saturation shed is not recorded with the breaker.
QueueTimeoutUnrecorded(c) ==
    /\ pc[c] = "queued" /\ left[c] = 0
    /\ \E i \in 1 .. Len(queue) : queue[i] = c /\ queue' = RemoveAt(queue, i)
    /\ pc' = [pc EXCEPT ![c] = "idle"]
    /\ asProbe' = asProbe \ {c}
    /\ UNCHANGED <<left, permits, units, breaker>>

\* The waiter's deadline: it takes itself out of the queue and is shed as
\* saturated, which counts as a failure.
QueueTimeout(c) ==
    /\ pc[c] = "queued" /\ left[c] = 0
    /\ \E i \in 1 .. Len(queue) : queue[i] = c /\ queue' = RemoveAt(queue, i)
    /\ pc' = [pc EXCEPT ![c] = "idle"]
    /\ breaker' = AfterFailure(breaker)
    /\ asProbe' = asProbe \ {c}
    /\ UNCHANGED <<left, permits, units>>

--------------------------------------------------------------------------------
(***************************************************************************)
(* The token bucket.                                                        *)
(***************************************************************************)

\* Mutant: a caller that has slept takes its token without looking again.
TakeTokenUnchecked(c) ==
    /\ pc[c] = "granted" \/ (pc[c] = "sleeping" /\ left[c] = 0)
    /\ IF units >= TokenTicks \/ pc[c] = "sleeping"
       THEN /\ units' = IF units >= TokenTicks THEN units - TokenTicks ELSE 0
            /\ pc' = [pc EXCEPT ![c] = "fetching"]
            /\ \E t \in Timeouts : left' = [left EXCEPT ![c] = t]
       ELSE /\ pc' = [pc EXCEPT ![c] = "sleeping"]
            /\ left' = [left EXCEPT ![c] = TokenTicks - units]
            /\ UNCHANGED units
    /\ UNCHANGED <<queue, permits, breaker, asProbe>>

\* consume(1): take a token, or sleep for as long as the deficit takes to
\* earn and then look again.  Nothing is reserved for a sleeper.
TakeToken(c) ==
    /\ pc[c] = "granted" \/ (pc[c] = "sleeping" /\ left[c] = 0)
    /\ IF units >= TokenTicks
       THEN /\ units' = units - TokenTicks
            /\ pc' = [pc EXCEPT ![c] = "fetching"]
            /\ \E t \in Timeouts : left' = [left EXCEPT ![c] = t]
       ELSE /\ pc' = [pc EXCEPT ![c] = "sleeping"]
            /\ left' = [left EXCEPT ![c] = TokenTicks - units]
            /\ UNCHANGED units
    /\ UNCHANGED <<queue, permits, breaker, asProbe>>

--------------------------------------------------------------------------------
(***************************************************************************)
(* The request, and the way out.                                            *)
(***************************************************************************)

\* Mutant: the permit goes to the latest waiter.
ReleaseToLast(c) ==
    IF queue = <<>>
    THEN /\ permits' = permits + 1
         /\ pc' = [pc EXCEPT ![c] = "idle"]
         /\ UNCHANGED queue
    ELSE /\ pc' = [pc EXCEPT ![c] = "idle", ![Last(queue)] = "granted"]
         /\ queue' = Front(queue)
         /\ UNCHANGED permits

\* release: the permit goes straight to the longest waiter, if there is one.
Release(c) ==
    IF queue = <<>>
    THEN /\ permits' = IF permits < MaxConcurrent THEN permits + 1 ELSE permits
         /\ pc' = [pc EXCEPT ![c] = "idle"]
         /\ UNCHANGED queue
    ELSE /\ pc' = [pc EXCEPT ![c] = "idle", ![Head(queue)] = "granted"]
         /\ queue' = Tail(queue)
         /\ UNCHANGED permits

\* The response headers are in: lmlFetch clears its abort timer and returns.
\* The body is read by the caller, inside the permit and without a deadline.
HeadersArrive(c) ==
    /\ pc[c] = "fetching"
    /\ pc' = [pc EXCEPT ![c] = "reading"]
    /\ left' = [left EXCEPT ![c] = 0]
    /\ UNCHANGED <<queue, permits, units, breaker, asProbe>>

\* An answer, or any error that is not a timeout: both are healthy.
Ends(c) ==
    /\ pc[c] \in {"fetching", "reading"}
    /\ breaker' = AfterSuccess(breaker)
    /\ asProbe' = asProbe \ {c}
    /\ left' = [left EXCEPT ![c] = 0]
    /\ Release(c)
    /\ UNCHANGED units

\* Mutant: a call that times out keeps its permit.
FetchTimeoutLeaks(c) ==
    /\ pc[c] = "fetching" /\ left[c] = 0
    /\ breaker' = AfterFailure(breaker)
    /\ asProbe' = asProbe \ {c}
    /\ pc' = [pc EXCEPT ![c] = "idle"]
    /\ UNCHANGED <<left, queue, permits, units>>

\* The abort timer fires before the headers.
FetchTimeout(c) ==
    /\ pc[c] = "fetching" /\ left[c] = 0
    /\ breaker' = AfterFailure(breaker)
    /\ asProbe' = asProbe \ {c}
    /\ Release(c)
    /\ UNCHANGED <<left, units>>

--------------------------------------------------------------------------------
Due(c) == pc[c] = "granted" \/ (pc[c] \in {"queued", "sleeping", "fetching"} /\ left[c] = 0)

Tick ==
    /\ \A c \in Calls : ~Due(c)
    /\ left' = [c \in Calls |-> IF pc[c] \in {"queued", "sleeping", "fetching"}
                                THEN left[c] - 1 ELSE 0]
    /\ units' = IF units < Burst * TokenTicks THEN units + 1 ELSE units
    /\ breaker' = AfterTick(breaker)
    /\ UNCHANGED <<pc, queue, permits, asProbe>>

Next ==
    \/ \E c \in Calls : \/ Call(c) \/ QueueTimeout(c) \/ TakeToken(c)
                        \/ HeadersArrive(c) \/ Ends(c) \/ FetchTimeout(c)
    \/ Tick

Spec == Init /\ [][Next]_vars

--------------------------------------------------------------------------------
(***************************************************************************)
(* Properties.                                                              *)
(***************************************************************************)

\* Permits are neither lost nor made: through hand-overs, queue deadlines that
\* race them, errors and timeouts, the free permits and the calls that hold
\* one always add up to the configured concurrency.
PermitsAccounted == permits + Cardinality(Holders) = MaxConcurrent

\* Nobody queues while a permit is free.
NobodyWaitsInVain == permits > 0 => queue = <<>>

\* Who is queued is who is in the queue, once: a waiter that gave up is not
\* handed a permit afterwards, and one that waits can be reached.
QueueIsWaiters ==
    /\ \A c \in Calls : pc[c] = "queued" <=> \E i \in 1 .. Len(queue) : queue[i] = c
    /\ \A i, j \in 1 .. Len(queue) : queue[i] = queue[j] => i = j

\* The three together: every permit is held by a call that runs or is free for
\* the next, and every caller that waits can be handed one.
PermitsInUse == PermitsAccounted /\ NobodyWaitsInVain /\ QueueIsWaiters

\* A call gets its permit in the order of arrival.
NoOvertaking ==
    [][\A c \in Calls :
          pc[c] \notin Holding /\ pc'[c] \in Holding
              => queue = <<>> \/ queue[1] = c]_vars

\* A half-open breaker lets nobody else in and waits for a probe that is
\* really under way, so it cannot stay half-open for want of anybody to decide
\* it: the wedge that createLmlLimiter warns about.
ProbeIsUnderWay ==
    breaker.state = "half_open" =>
        breaker.probeInFlight /\ \E c \in asProbe : pc[c] # "idle"

--------------------------------------------------------------------------------
(***************************************************************************)
(* Liveness.  The clock runs, requests keep coming and LML gets round to    *)
(* answering what it was asked.                                             *)
(***************************************************************************)
Fairness ==
    /\ WF_vars(Tick)
    /\ SF_vars(\E c \in Calls : Call(c))
    /\ \A c \in Calls : /\ WF_vars(TakeToken(c))
                        /\ WF_vars(QueueTimeout(c))
                        /\ WF_vars(Ends(c))

LiveSpec == Spec /\ Fairness

Failure == \E c \in Calls : QueueTimeout(c) \/ FetchTimeout(c)

\* Once LML is well again, that is once nothing times out any more, the
\* breaker closes for good, whatever state the bad hours left it in.
BreakerRecovers == <>[][~Failure]_vars => <>[](breaker.state = "closed")

================================================================================
