------------------------------ MODULE JobOutcome ------------------------------
(***************************************************************************)
(* What the distributed job scheduler promises about each job, without     *)
(* leases, clocks, transactions and messages: a job is open, owned by the  *)
(* latest claim of it, or finished for good; only the owning claim         *)
(* finishes it or reports a failure, and the failures reported decide when *)
(* it is given up.                                                         *)
(***************************************************************************)
EXTENDS Integers

CONSTANTS Jobs, MaxAttempts

VARIABLES
    state,     \* "absent", "open", "owned", "completed" or "failed"
    owner,     \* the claim that owns the job, 0 for none
    failures,  \* failures reported
    lastClaim, \* claims are numbered in the order they happen
    settled    \* pairs <<job, claim>>: the claims that completed or failed a job

outcomeVars == <<state, owner, failures, lastClaim, settled>>

OutcomeInit ==
    /\ state = [j \in Jobs |-> "absent"]
    /\ owner = [j \in Jobs |-> 0]
    /\ failures = [j \in Jobs |-> 0]
    /\ lastClaim = 0
    /\ settled = {}

Open(j) ==
    /\ state[j] = "absent"
    /\ state' = [state EXCEPT ![j] = "open"]
    /\ UNCHANGED <<owner, failures, lastClaim, settled>>

\* A claim takes jobs that are open, or takes them over from earlier claims.
Claim(js) ==
    /\ \A j \in js : state[j] \in {"open", "owned"}
    /\ lastClaim' = lastClaim + 1
    /\ state' = [j \in Jobs |-> IF j \in js THEN "owned" ELSE state[j]]
    /\ owner' = [j \in Jobs |-> IF j \in js THEN lastClaim' ELSE owner[j]]
    /\ UNCHANGED <<failures, settled>>

Complete(j) ==
    /\ state[j] = "owned"
    /\ state' = [state EXCEPT ![j] = "completed"]
    /\ settled' = settled \union {<<j, owner[j]>>}
    /\ UNCHANGED <<owner, failures, lastClaim>>

ReportFailure(j) ==
    /\ state[j] = "owned"
    /\ failures' = [failures EXCEPT ![j] = @ + 1]
    /\ state' = [state EXCEPT ![j] = IF failures'[j] >= MaxAttempts THEN "failed" ELSE "open"]
    /\ owner' = [owner EXCEPT ![j] = 0]
    /\ settled' = settled \union {<<j, owner[j]>>}
    /\ UNCHANGED lastClaim

OutcomeNext ==
    \/ \E j \in Jobs : Open(j) \/ Complete(j) \/ ReportFailure(j)
    \/ \E js \in SUBSET Jobs : Claim(js)

OutcomeSpec == OutcomeInit /\ [][OutcomeNext]_outcomeVars
=============================================================================
