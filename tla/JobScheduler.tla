----------------------------- MODULE JobScheduler -----------------------------
(***************************************************************************)
(* Workers that share a job table through leases                           *)
(* (backend/src/scheduler/distributedJobScheduler.js).                     *)
(*                                                                         *)
(* A worker claims jobs in a transaction and from then on works from the   *)
(* job objects it got back; heartbeat(), complete() and fail() each send   *)
(* one conditional UPDATE.  Between the claim and that UPDATE the worker   *)
(* may stall, die or be overtaken: statements arrive late, after their     *)
(* worker's death, or never, and their replies may be lost.  The workers'  *)
(* clocks differ.                                                          *)
(***************************************************************************)
EXTENDS Integers, FiniteSets

CONSTANTS
    Jobs,          \* job ids, natural numbers: their order breaks ties
    Workers,       \* worker ids
    Keys,          \* idempotency keys
    NoKey,         \* a job enqueued without a key
    NoWorker,      \* workerId null
    Priorities,    \* priorities a job may have
    Limit,         \* jobs per claim
    LeaseTicks,    \* leaseMs, in clock ticks
    RetryTicks,    \* retryDelayMs
    MaxAttempts,   \* maxAttempts of a job
    RunAts,        \* times a job may be enqueued for
    MaxSkew,       \* how far the workers' clocks differ
    MaxLag,        \* how old a clock reading may be when its query runs
    MaxClock,      \* bound: clock ticks
    MaxClaims,     \* bound: claims
    MaxSent        \* bound: statements on their way at once

ASSUME JobsAssumption == Jobs \subseteq Nat /\ NoWorker \notin Workers /\ NoKey \notin Keys
ASSUME TicksAssumption ==
    /\ LeaseTicks \in Nat \ {0} /\ RetryTicks \in Nat
    /\ Limit \in Nat \ {0} /\ MaxAttempts \in Nat \ {0}
    /\ MaxSkew \in Nat /\ MaxLag \in Nat /\ Priorities \subseteq Nat /\ RunAts \subseteq Nat
ASSUME SchedulerBounds == MaxClock \in Nat /\ MaxClaims \in Nat /\ MaxSent \in Nat

VARIABLES
    rows,       \* the scheduled_jobs table
    selecting,  \* the claim transaction each worker has open
    held,       \* the job objects each worker has in memory
    sent,       \* UPDATE statements on their way to the database
    clock,
    skew,       \* how far each worker's clock is ahead
    claims,     \* claims committed: a claim's number is its lease token
    settled     \* <<job, token>> of every complete() or fail() that took effect

schedulerVars == <<rows, selecting, held, sent, clock, skew, claims, settled>>

AbsentRow == [status |-> "absent", worker |-> NoWorker, token |-> 0, expires |-> 0,
              attempts |-> 0, runAt |-> 0, priority |-> 0, key |-> NoKey]
NotSelecting == [jobs |-> {}, now |-> 0]

SchedulerInit ==
    /\ rows = [j \in Jobs |-> AbsentRow]
    /\ selecting = [w \in Workers |-> NotSelecting]
    /\ held = [w \in Workers |-> {}]
    /\ sent = {}
    /\ clock = 0
    /\ skew \in [Workers -> 0..MaxSkew]
    /\ claims = 0
    /\ settled = {}

Local(w) == clock + skew[w]
Present == {j \in Jobs : rows[j].status # "absent"}

-----------------------------------------------------------------------------
(* enqueue() *)

\* A key that is taken finds its job instead of creating one.
Enqueue(j, key, priority, runAt) ==
    /\ rows[j].status = "absent"
    /\ key # NoKey => \A i \in Present : rows[i].key # key
    /\ rows' = [rows EXCEPT ![j] = [AbsentRow EXCEPT !.status = "queued", !.key = key,
                                        !.priority = priority, !.runAt = runAt]]
    /\ UNCHANGED <<selecting, held, sent, clock, skew, claims, settled>>

-----------------------------------------------------------------------------
(* claimNext() *)

\* Mutants: an expired lease is not looked at; a lease may be taken over early.
Claimable_QueuedOnly(j, now) == rows[j].status = "queued" /\ rows[j].runAt <= now
Claimable_AtExpiry(j, now) ==
    /\ rows[j].runAt <= now
    /\ \/ rows[j].status = "queued"
       \/ rows[j].status = "leased" /\ rows[j].expires <= now + 1

Claimable(j, now) ==
    /\ rows[j].runAt <= now
    /\ \/ rows[j].status = "queued"
       \/ rows[j].status = "leased" /\ rows[j].expires < now

\* order: priority descending, runAt ascending, id ascending.
Before(i, j) ==
    \/ rows[i].priority > rows[j].priority
    \/ rows[i].priority = rows[j].priority
       /\ (rows[i].runAt < rows[j].runAt \/ (rows[i].runAt = rows[j].runAt /\ i < j))

Locked(j) == \E w \in Workers : j \in selecting[w].jobs

\* The first `Limit` of the candidates in that order.
First(js) == {j \in js : Cardinality({i \in js : Before(i, j)}) < Limit}

\* The transaction's SELECT ... FOR UPDATE SKIP LOCKED, with a clock reading from
\* before the transaction; `wanted` is the type filter.
SelectJobs(w, wanted, now) ==
    /\ selecting[w] = NotSelecting
    /\ now \in (Local(w) - MaxLag)..Local(w)
    /\ claims < MaxClaims
    /\ LET found == First({j \in wanted : Claimable(j, now) /\ ~Locked(j)})
       IN  /\ found # {}
           /\ selecting' = [selecting EXCEPT ![w] = [jobs |-> found, now |-> now]]
    /\ UNCHANGED <<rows, held, sent, clock, skew, claims, settled>>

Leased(row, w, token, expires) ==
    [row EXCEPT !.status = "leased", !.worker = w, !.token = token, !.expires = expires]

\* The updates and the COMMIT; the worker gets the updated job objects.  Every
\* job gets a token of its own; as a statement names job and token, the number
\* of the claim stands for all of them.
CommitClaim(w) ==
    /\ selecting[w].jobs # {}
    /\ claims < MaxClaims
    /\ claims' = claims + 1
    /\ LET expires == selecting[w].now + LeaseTicks
           taken == selecting[w].jobs
       IN  /\ rows' = [j \in Jobs |->
                          IF j \in taken THEN Leased(rows[j], w, claims', expires) ELSE rows[j]]
           /\ held' = [held EXCEPT ![w] = @ \union
                  {[job |-> j, token |-> claims', attempts |-> rows[j].attempts,
                    runAt |-> rows[j].runAt, expires |-> expires] : j \in taken}]
    /\ selecting' = [selecting EXCEPT ![w] = NotSelecting]
    /\ UNCHANGED <<sent, clock, skew, settled>>

\* An update is rejected or the connection is lost: the transaction rolls back.
RollbackClaim(w) ==
    /\ selecting[w].jobs # {}
    /\ selecting' = [selecting EXCEPT ![w] = NotSelecting]
    /\ UNCHANGED <<rows, held, sent, clock, skew, claims, settled>>

-----------------------------------------------------------------------------
(* heartbeat(), complete(), fail() *)

Operations == {"heartbeat", "complete", "fail"}

\* The call up to its UPDATE.  A caller awaits one operation on a job before it
\* starts the next.
Send(w, obj, op) ==
    /\ Cardinality(sent) < MaxSent
    /\ \A s \in sent : ~(s.worker = w /\ s.obj = obj)
    /\ sent' = sent \union {[op |-> op, worker |-> w, obj |-> obj, at |-> Local(w)]}
    /\ UNCHANGED <<rows, selecting, held, clock, skew, claims, settled>>

\* Mutant: the WHERE clause without the token.
Fenced_NoToken(s) ==
    LET row == rows[s.obj.job]
    IN  row.worker = s.worker /\ row.status = "leased"

\* The WHERE clause.
Fenced(s) ==
    LET row == rows[s.obj.job]
    IN  row.worker = s.worker /\ row.token = s.obj.token /\ row.status = "leased"

\* The row after a failure: queued again, or given up.
Failed(row, obj, at) ==
    LET attempts == obj.attempts + 1
        exhausted == attempts >= MaxAttempts
    IN  [row EXCEPT !.status = IF exhausted THEN "failed" ELSE "queued",
                    !.attempts = attempts,
                    !.worker = NoWorker, !.token = 0, !.expires = 0,
                    !.runAt = IF exhausted THEN obj.runAt ELSE at + RetryTicks]

\* The row after the UPDATE.
Updated(s, row) ==
    CASE s.op = "heartbeat" -> [row EXCEPT !.expires = s.at + LeaseTicks]
      [] s.op = "complete"  -> [row EXCEPT !.status = "completed"]
      [] s.op = "fail"      -> Failed(row, s.obj, s.at)

Without(w, obj) == [held EXCEPT ![w] = @ \ {obj}]
\* What the worker holds once it knows that the statement took effect.
AfterReply(s) ==
    IF s.op = "heartbeat" /\ s.obj \in held[s.worker]
    THEN [held EXCEPT ![s.worker] =
             (@ \ {s.obj}) \union {[s.obj EXCEPT !.expires = s.at + LeaseTicks]}]
    ELSE Without(s.worker, s.obj)

\* The statement runs and takes effect; its reply may be lost.
Apply(s) ==
    /\ ~Locked(s.obj.job)
    /\ Fenced(s)
    /\ rows' = [rows EXCEPT ![s.obj.job] = Updated(s, @)]
    /\ settled' = IF s.op = "heartbeat" THEN settled
                  ELSE settled \union {<<s.obj.job, s.obj.token>>}
    /\ held' \in {held, AfterReply(s)}
    /\ sent' = sent \ {s}
    /\ UNCHANGED <<selecting, clock, skew, claims>>

\* No row matches, "lease ownership lost"; or the statement never arrives.  The
\* caller may give the job up, or go on with the object it has.
Miss(s) ==
    /\ held' \in {held, Without(s.worker, s.obj)}
    /\ sent' = sent \ {s}
    /\ UNCHANGED <<rows, selecting, clock, skew, claims, settled>>

WorkerCrash(w) ==
    /\ held[w] # {} \/ selecting[w].jobs # {}
    /\ held' = [held EXCEPT ![w] = {}]
    /\ selecting' = [selecting EXCEPT ![w] = NotSelecting]
    /\ UNCHANGED <<rows, sent, clock, skew, claims, settled>>

ClockTick ==
    /\ clock < MaxClock
    /\ clock' = clock + 1
    /\ UNCHANGED <<rows, selecting, held, sent, skew, claims, settled>>

WorkerStep(w) ==
    \/ \E wanted \in {js \in SUBSET Jobs : js # {}}, now \in 0..(MaxClock + MaxSkew) :
           SelectJobs(w, wanted, now)
    \/ CommitClaim(w) \/ RollbackClaim(w)
    \/ \E obj \in held[w], op \in Operations : Send(w, obj, op)
    \/ WorkerCrash(w)

SchedulerNext ==
    \/ \E j \in Jobs, key \in Keys \union {NoKey}, priority \in Priorities,
          runAt \in RunAts : Enqueue(j, key, priority, runAt)
    \/ \E w \in Workers : WorkerStep(w)
    \/ \E s \in sent : Apply(s) \/ Miss(s)
    \/ ClockTick

SchedulerSpec == SchedulerInit /\ [][SchedulerNext]_schedulerVars

\* Every worker polls for every type of job, and a claim transaction that is
\* tried again and again commits in the end.
SchedulerFairSpec ==
    /\ SchedulerSpec
    /\ \A w \in Workers :
          /\ WF_schedulerVars(SelectJobs(w, Jobs, Local(w)))
          /\ SF_schedulerVars(CommitClaim(w))

-----------------------------------------------------------------------------
Rows == [status : {"absent", "queued", "leased", "completed", "failed"},
         worker : Workers \union {NoWorker}, token : 0..MaxClaims, expires : Nat,
         attempts : 0..MaxAttempts, runAt : Nat, priority : Nat, key : Keys \union {NoKey}]
JobObjects == [job : Jobs, token : 1..MaxClaims, attempts : Nat, runAt : Nat, expires : Nat]
Statements == [op : Operations, worker : Workers, obj : JobObjects, at : Nat]

\* A row's lease columns go with its status: a leased row names its owner, a
\* queued one none (claimNext, fail).
JobTypeOK ==
    /\ rows \in [Jobs -> Rows]
    /\ selecting \in [Workers -> [jobs : SUBSET Jobs, now : Nat]]
    /\ held \in [Workers -> SUBSET JobObjects]
    /\ sent \subseteq Statements
    /\ clock \in 0..MaxClock /\ skew \in [Workers -> 0..MaxSkew] /\ claims \in 0..MaxClaims
    /\ settled \subseteq Jobs \X (1..MaxClaims)
    /\ \A j \in Jobs :
          /\ rows[j].status = "leased" => rows[j].worker \in Workers /\ rows[j].token > 0
          /\ rows[j].status \in {"absent", "queued"} =>
                 rows[j].worker = NoWorker /\ rows[j].token = 0

\* The refinement: whatever stalls, dies, arrives late or gets lost, only the
\* latest claim of a job completes or fails it, a finished job stays finished,
\* and the failures reported are counted one by one up to the limit (heartbeat,
\* complete, fail, claimNext).
State == [j \in Jobs |->
            CASE rows[j].status = "queued" -> "open"
              [] rows[j].status = "leased" -> "owned"
              [] OTHER -> rows[j].status]
Outcome == INSTANCE JobOutcome WITH
    state <- State,
    owner <- [j \in Jobs |-> rows[j].token],
    failures <- [j \in Jobs |-> rows[j].attempts],
    lastClaim <- claims
JobPromise == Outcome!OutcomeSpec

\* A worker that takes the largest difference of clocks off its lease's end, as
\* it knows it, may rely on the lease: nobody relies on another one for the
\* same job, although claims compute the end before their transaction runs,
\* heartbeats arrive late and replies get lost (claimNext, heartbeat).
Relies(w, obj) == Local(w) + MaxSkew <= obj.expires /\ <<obj.job, obj.token>> \notin settled
LeaseIsExclusive ==
    \A v, w \in Workers : \A a \in held[v], b \in held[w] :
        a.job = b.job /\ a.token # b.token => ~(Relies(v, a) /\ Relies(w, b))

\* "Stale leases are self-healing; a healthy worker can reclaim them"
\* (runbooks/distributed-job-scheduler.md): a lease that has expired by every
\* worker's clock is taken over, extended or settled in the end, as long as
\* claims remain (claimNext).
Stale(j) ==
    /\ rows[j].status = "leased"
    /\ \A w \in Workers : rows[j].runAt <= Local(w) /\ rows[j].expires < Local(w)
StaleLeasesHeal == \A j \in Jobs : Stale(j) ~> (claims = MaxClaims \/ ~Stale(j))
=============================================================================
