----------------------------- MODULE CircuitBreaker -----------------------------
(***************************************************************************)
(* The proxy's circuit breaker for one upstream                            *)
(* (src/src/circuit-breaker/state-machine.ts, probe-executor.ts,           *)
(* failure-sliding-window.ts, backoff-calculator.ts) and the calls of      *)
(* execute() that overlap at its awaits.                                   *)
(*                                                                         *)
(* Time is left open: a failure leaves the window, and the wait of an open *)
(* breaker ends, at any moment.                                            *)
(***************************************************************************)
EXTENDS Integers, FiniteSets

CONSTANTS
    Calls,          \* calls of execute() that may be under way together
    Threshold       \* failureThreshold

ASSUME BreakerAssumption == IsFiniteSet(Calls) /\ Threshold \in Nat \ {0}

VARIABLES
    state,          \* CircuitState
    failures,       \* failures in the window, counted up to Threshold
    rested,         \* cooldownUntil and the backoff since openSince are over
    probing,        \* activeProbes holds the upstream
    call,           \* where each call of execute() is
    healthy,        \* the upstream answers everything
    streak          \* history: failures since the last success or reset, up to Threshold

breakerVars == <<state, failures, rested, probing, call, healthy, streak>>
window == <<failures, streak>>

BreakerInit ==
    /\ state = "CLOSED"
    /\ failures = 0 /\ streak = 0
    /\ rested = FALSE
    /\ probing = FALSE
    /\ call = [c \in Calls |-> "idle"]
    /\ healthy = TRUE

-----------------------------------------------------------------------------
(* The state machine *)

\* checkTransitions()
Checked == IF state = "OPEN" /\ rested THEN "HALF_OPEN" ELSE state

OneMore(n) == IF n < Threshold THEN n + 1 ELSE n

\* recordFailure()
RecordFailure(isTimeout) ==
    LET opens == \/ state = "CLOSED" /\ OneMore(failures) >= Threshold
                 \/ state = "HALF_OPEN" /\ isTimeout
    IN  /\ failures' = OneMore(failures)
        /\ streak' = OneMore(streak)
        /\ state' = IF opens THEN "OPEN" ELSE state
        /\ rested' = (rested /\ ~opens)

\* Mutant: a success in the closed state leaves the window alone.
RecordSuccess_KeepsWindow ==
    /\ streak' = 0
    /\ IF state = "HALF_OPEN"
       THEN state' = "CLOSED" /\ rested' = FALSE /\ failures' = 0
       ELSE UNCHANGED <<state, rested, failures>>

\* recordSuccess(), of whatever request: it does not ask when that was admitted.
RecordSuccess ==
    /\ failures' = 0 /\ streak' = 0
    /\ IF state = "HALF_OPEN"
       THEN state' = "CLOSED" /\ rested' = FALSE
       ELSE UNCHANGED <<state, rested>>

\* reset(): calls under way go on.
Reset ==
    /\ state' = "CLOSED" /\ rested' = FALSE
    /\ failures' = 0 /\ streak' = 0
    /\ UNCHANGED <<probing, call, healthy>>

\* getState() looks at the clock, too.
GetState ==
    /\ state' = Checked
    /\ UNCHANGED <<window, rested, probing, call, healthy>>

-----------------------------------------------------------------------------
(* execute() *)

Goto(c, step) == call' = [call EXCEPT ![c] = step]

\* Up to the first await.  An open breaker throws; a half-open one probes, and a
\* probe that finds another under way says no.
Execute(c) ==
    /\ call[c] = "idle"
    /\ state' = Checked
    /\ \/ Checked = "CLOSED" /\ Goto(c, "request") /\ UNCHANGED probing
       \/ Checked = "HALF_OPEN" /\ ~probing /\ Goto(c, "probe") /\ probing' = TRUE
       \/ Checked = "HALF_OPEN" /\ probing /\ Goto(c, "refused") /\ UNCHANGED probing
       \/ Checked = "OPEN" /\ UNCHANGED <<call, probing>>
    /\ UNCHANGED <<window, rested, healthy>>

\* Mutant: the probe is marked as over only if it passed.
ProbeEnds_NoFinally(c) ==
    /\ call[c] = "probe"
    /\ \/ Goto(c, "request") /\ probing' = FALSE
       \/ ~healthy /\ Goto(c, "refused") /\ UNCHANGED probing
    /\ UNCHANGED <<state, window, rested, healthy>>

\* probe() settles: of the health and the synthetic request one has to pass.
ProbeEnds(c) ==
    /\ call[c] = "probe"
    /\ probing' = FALSE
    /\ Goto(c, "request") \/ (~healthy /\ Goto(c, "refused"))
    /\ UNCHANGED <<state, window, rested, healthy>>

\* A probe that failed or was not made counts as a timeout.
Refused(c) ==
    /\ call[c] = "refused"
    /\ RecordFailure(TRUE)
    /\ Goto(c, "idle")
    /\ UNCHANGED <<probing, healthy>>

\* request() settles, whatever the breaker's state has become.
RequestEnds(c) ==
    /\ call[c] = "request"
    /\ RecordSuccess \/ (~healthy /\ \E isTimeout \in BOOLEAN : RecordFailure(isTimeout))
    /\ Goto(c, "idle")
    /\ UNCHANGED <<probing, healthy>>

-----------------------------------------------------------------------------
(* Time and the upstream *)

FailureAges ==
    /\ failures > 0 /\ failures' = failures - 1
    /\ UNCHANGED <<state, rested, probing, call, healthy, streak>>

Rest ==
    /\ state = "OPEN" /\ rested' = TRUE
    /\ UNCHANGED <<state, window, probing, call, healthy>>

UpstreamTurns ==
    /\ healthy' = ~healthy
    /\ UNCHANGED <<state, window, rested, probing, call, streak>>

BreakerNext ==
    \/ \E c \in Calls : Execute(c) \/ ProbeEnds(c) \/ Refused(c) \/ RequestEnds(c)
    \/ Reset \/ GetState
    \/ FailureAges \/ Rest \/ UpstreamTurns

\* Callers keep coming, fetches have a timeout, requests settle and clocks run.
BreakerFairness ==
    /\ WF_breakerVars(\E c \in Calls : Execute(c))
    /\ \A c \in Calls : WF_breakerVars(ProbeEnds(c) \/ Refused(c) \/ RequestEnds(c))
    /\ WF_breakerVars(Rest)

BreakerSpec == BreakerInit /\ [][BreakerNext]_breakerVars /\ BreakerFairness

-----------------------------------------------------------------------------
(* Properties *)

\* The breaker's fields keep their types, and both counts stay within the threshold.
BreakerTypeOK ==
    /\ state \in {"CLOSED", "OPEN", "HALF_OPEN"}
    /\ failures \in 0..Threshold /\ streak \in 0..Threshold
    /\ rested \in BOOLEAN /\ probing \in BOOLEAN /\ healthy \in BOOLEAN
    /\ call \in [Calls -> {"idle", "probe", "refused", "request"}]

\* However calls overlap, the upstream is never probed by two of them.
OneProbe == \A c, d \in Calls : call[c] = "probe" /\ call[d] = "probe" => c = d

\* A closed breaker opens only after failureThreshold failures with no success among
\* them, whichever requests they belong to.
OpensOnFailures ==
    [][state = "CLOSED" /\ state' = "OPEN" => streak' = Threshold]_breakerVars

\* Calls of execute() that have not returned.
UnderWay == {c \in Calls : call[c] # "idle"}

\* If the upstream stays healthy and calls come one at a time the breaker closes.
RecoversAlone ==
    <>[](healthy /\ Cardinality(UnderWay) <= 1) => []<>(state = "CLOSED")

\* Refuted: ... and so it does when calls overlap.  Each second call half-open is
\* refused, which opens the breaker again before the first one's success.
RecoversUnderLoad == <>[]healthy => []<>(state = "CLOSED")
=============================================================================
