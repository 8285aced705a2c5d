---------------------------- MODULE LmlLimiterRate ----------------------------
(***************************************************************************)
(* LmlLimiter with an observer that starts a stopwatch at any moment and    *)
(* counts the requests that go out to LML until its window is over.  The    *)
(* observer changes nothing of the limiter.                                 *)
(***************************************************************************)
EXTENDS LmlLimiter

CONSTANT Window     \* the longest window observed, in ticks

ASSUME WindowAssumption == Window \in Nat

VARIABLES
    watching,   \* the window is open
    elapsed,    \* ticks since it was opened
    sent        \* requests sent since then

windowVars == <<watching, elapsed, sent>>
rateVars   == <<vars, windowVars>>

RateInit ==
    /\ Init
    /\ watching = FALSE
    /\ elapsed = 0
    /\ sent = 0

\* The stopwatch is started, or started again.
OpenWindow ==
    /\ watching' = TRUE
    /\ elapsed' = 0
    /\ sent' = 0
    /\ UNCHANGED vars

\* A call that gets its token sends its request.
Sends(c) == TakeToken(c) /\ pc'[c] = "fetching"

Send ==
    /\ \E c \in Calls : Sends(c)
    /\ sent' = IF watching THEN sent + 1 ELSE sent
    /\ UNCHANGED <<watching, elapsed>>

TimePasses ==
    /\ Tick
    /\ elapsed' = IF watching THEN elapsed + 1 ELSE elapsed
    /\ watching' = (watching /\ elapsed' < Window)
    /\ UNCHANGED sent

Otherwise ==
    /\ \E c \in Calls : \/ Call(c) \/ QueueTimeout(c) \/ HeadersArrive(c)
                        \/ Ends(c) \/ FetchTimeout(c)
                        \/ TakeToken(c) /\ pc'[c] # "fetching"
    /\ UNCHANGED windowVars

RateNext == OpenWindow \/ Send \/ TimePasses \/ Otherwise

RateSpec == RateInit /\ [][RateNext]_rateVars

RateLiveSpec == RateSpec /\ Fairness

\* Whenever the stopwatch is started and however the callers sleep, wake and
\* overtake one another on the bucket, no more requests go out in a window
\* than the burst and what the window earns: the rate LML is promised.
RateRespected == sent * TokenTicks <= Burst * TokenTicks + elapsed

===============================================================================
