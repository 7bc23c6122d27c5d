-------------------------- MODULE JobSchedulerProofs --------------------------
(***************************************************************************)
(* What TLAPS proves about the job scheduler, for every number of jobs,    *)
(* workers and claims, every lease length and every difference of clocks:  *)
(* the types, the exclusiveness of a lease that its worker may rely on,    *)
(* and that the scheduler implements JobOutcome.                           *)
(*                                                                         *)
(* The inductive invariant has a part for the rows, one for the claim      *)
(* transactions, one for the job objects in the workers' memory and one    *)
(* for the statements on their way.                                        *)
(***************************************************************************)
EXTENDS JobScheduler, TLAPS

Current(obj) == rows[obj.job].token = obj.token
Same(a, b) == a.job = b.job /\ a.token = b.token
Settled(obj) == <<obj.job, obj.token>> \in settled

RowInv ==
    \A j \in Jobs :
        /\ rows[j].token <= claims
        /\ rows[j].status # "failed" => rows[j].attempts < MaxAttempts
        /\ rows[j].status = "absent" => rows[j].attempts = 0
        /\ rows[j].status = "completed" => <<j, rows[j].token>> \in settled

\* What a claim transaction has locked cannot change under it.
ClaimInv ==
    \A w \in Workers :
        /\ selecting[w].now <= Local(w)
        /\ \A j \in selecting[w].jobs :
              \/ rows[j].status = "queued"
              \/ rows[j].status = "leased" /\ rows[j].expires < selecting[w].now
        /\ \A v \in Workers : v # w => selecting[v].jobs \cap selecting[w].jobs = {}

\* What a copy of a job object knows about its row: a copy of an older claim
\* has been overtaken, and is recognised by its token.
Known(obj) ==
    /\ obj.token <= claims
    /\ Current(obj) => obj.attempts = rows[obj.job].attempts

\* A worker never believes in a longer lease than the row grants, and a claim
\* is overtaken only after its lease has ended by some worker's clock.
Believes(w, obj) ==
    /\ obj.expires <= Local(w) + LeaseTicks
    /\ Current(obj) => rows[obj.job].worker = w /\ obj.expires <= rows[obj.job].expires
    /\ ~Current(obj) => Settled(obj) \/ obj.expires < clock + MaxSkew

ObjectInv ==
    \A w \in Workers : \A obj \in held[w] :
        Known(obj) /\ Believes(w, obj) /\ \A other \in held[w] : Same(obj, other) => obj = other

\* A heartbeat on its way never takes back what its worker believes: nothing
\* else is on its way for that claim, and the worker holds the same object.
StatementInv ==
    \A s \in sent :
        /\ Known(s.obj)
        /\ s.obj.expires <= s.at + LeaseTicks
        /\ s.at <= Local(s.worker)
        /\ \A obj \in held[s.worker] : Same(obj, s.obj) => obj = s.obj
        /\ \A t \in sent : t.worker = s.worker /\ Same(t.obj, s.obj) => t = s

LeaseInv == JobTypeOK /\ RowInv /\ ClaimInv /\ ObjectInv /\ StatementInv

-----------------------------------------------------------------------------
USE JobsAssumption, TicksAssumption, SchedulerBounds

LEMMA SchedulerInitInv == SchedulerInit => LeaseInv
  <1> SUFFICES ASSUME SchedulerInit PROVE LeaseInv
    OBVIOUS
  <1>1. JobTypeOK
    BY DEF SchedulerInit, JobTypeOK, AbsentRow, NotSelecting, Rows
  <1>2. RowInv /\ ObjectInv /\ StatementInv
    BY DEF SchedulerInit, RowInv, ObjectInv, StatementInv, AbsentRow
  <1>3. ClaimInv
    BY <1>1 DEF SchedulerInit, ClaimInv, NotSelecting, JobTypeOK, Local
  <1> QED
    BY <1>1, <1>2, <1>3 DEF LeaseInv

\* A new row has no claims, so no job object and no transaction knows it.
LEMMA EnqueueKeepsInv ==
    ASSUME LeaseInv, NEW j \in Jobs, NEW key \in Keys \union {NoKey},
           NEW priority \in Priorities, NEW runAt \in RunAts, Enqueue(j, key, priority, runAt)
    PROVE  LeaseInv'
  <1> USE DEF LeaseInv
  <1> DEFINE new == [AbsentRow EXCEPT !.status = "queued", !.key = key,
                       !.priority = priority, !.runAt = runAt]
  <1>0. /\ new \in Rows
        /\ new.status = "queued" /\ new.worker = NoWorker /\ new.token = 0 /\ new.attempts = 0
    <2>1. AbsentRow \in Rows
      BY DEF AbsentRow, Rows
    <2>2. new \in Rows
      BY <2>1 DEF Rows
    <2>3. new.status = "queued" /\ new.worker = AbsentRow.worker /\ new.token = AbsentRow.token
          /\ new.attempts = AbsentRow.attempts
      BY <2>1 DEF Rows
    <2> QED
      BY <2>2, <2>3 DEF AbsentRow
  <1> HIDE DEF new
  <1>1. /\ rows' = [rows EXCEPT ![j] = new]
        /\ rows[j].status = "absent" /\ rows[j].token = 0
        /\ UNCHANGED <<selecting, held, sent, clock, skew, claims, settled>>
    BY DEF Enqueue, JobTypeOK, new
  <1>2. JobTypeOK'
    BY <1>0, <1>1 DEF JobTypeOK, Rows
  <1>3. RowInv'
    BY <1>0, <1>1 DEF RowInv, JobTypeOK
  <1>4. ClaimInv'
    BY <1>0, <1>1 DEF ClaimInv, JobTypeOK, Local
  <1>5. ObjectInv'
    <2> SUFFICES ASSUME NEW w \in Workers, NEW obj \in held[w]
                 PROVE  Known(obj)' /\ Believes(w, obj)'
      BY <1>0, <1>1 DEF ObjectInv, Same
    <2>1. obj \in JobObjects /\ Known(obj) /\ Believes(w, obj)
      BY DEF ObjectInv, JobTypeOK
    <2>2. CASE obj.job = j
      BY <1>0, <1>1, <2>1, <2>2 DEF Known, Believes, Current, Settled, JobObjects, JobTypeOK, Local
    <2>3. CASE obj.job # j
      BY <1>0, <1>1, <2>1, <2>3 DEF Known, Believes, Current, Settled, JobObjects, JobTypeOK, Local
    <2> QED
      BY <2>2, <2>3
  <1>6. StatementInv'
    <2> SUFFICES ASSUME NEW s \in sent PROVE Known(s.obj)'
      BY <1>0, <1>1 DEF StatementInv, Same, Local
    <2>1. s.obj \in JobObjects /\ Known(s.obj)
      BY DEF StatementInv, JobTypeOK, Statements
    <2> QED
      BY <1>0, <1>1, <2>1 DEF Known, Current, JobObjects, JobTypeOK
  <1> QED
    BY <1>2, <1>3, <1>4, <1>5, <1>6

LEMMA SelectKeepsInv ==
    ASSUME LeaseInv, NEW w \in Workers, NEW wanted \in SUBSET Jobs,
           NEW now \in 0..(MaxClock + MaxSkew), SelectJobs(w, wanted, now)
    PROVE  LeaseInv'
  <1> USE DEF LeaseInv
  <1> DEFINE found == First({j \in wanted : Claimable(j, now) /\ ~Locked(j)})
  <1>1. /\ selecting' = [selecting EXCEPT ![w] = [jobs |-> found, now |-> now]]
        /\ UNCHANGED <<rows, held, sent, clock, skew, claims, settled>>
        /\ now <= Local(w)
    BY DEF SelectJobs, Local, JobTypeOK
  <1>2. /\ found \subseteq Jobs
        /\ \A j \in found : Claimable(j, now) /\ ~Locked(j)
    BY DEF First
  <1> HIDE DEF found
  <1>3. JobTypeOK'
    BY <1>1, <1>2 DEF JobTypeOK
  <1>4. ClaimInv'
    <2>1. \A v \in Workers : selecting[v] \in [jobs : SUBSET Jobs, now : Nat]
      BY DEF JobTypeOK
    <2>2. \A j \in found : \A v \in Workers : j \notin selecting[v].jobs
      BY <1>2 DEF Locked
    <2>3. selecting'[w] = [jobs |-> found, now |-> now]
          /\ \A v \in Workers : v # w => selecting'[v] = selecting[v]
      BY <1>1 DEF JobTypeOK
    <2>4. \A v \in Workers : Local(v)' = Local(v)
      BY <1>1 DEF Local
    <2>5. \A v \in Workers : selecting'[v].now <= Local(v)'
      BY <1>1, <2>3, <2>4 DEF ClaimInv
    <2>6. ASSUME NEW v \in Workers, NEW j \in selecting'[v].jobs
          PROVE  \/ rows'[j].status = "queued"
                 \/ rows'[j].status = "leased" /\ rows'[j].expires < selecting'[v].now
      <3>1. CASE v = w
        <4>1. j \in found /\ selecting'[v].now = now
          BY <3>1, <2>3
        <4> QED
          BY <4>1, <1>1, <1>2 DEF Claimable
      <3>2. CASE v # w
        BY <3>2, <1>1, <2>3 DEF ClaimInv
      <3> QED
        BY <3>1, <3>2
    <2>7. \A u, v \in Workers : v # u => selecting'[v].jobs \cap selecting'[u].jobs = {}
      BY <2>2, <2>3 DEF ClaimInv
    <2> QED
      BY <2>5, <2>6, <2>7 DEF ClaimInv
  <1>5. RowInv' /\ ObjectInv' /\ StatementInv'
    BY <1>1 DEF RowInv, ObjectInv, StatementInv, Known, Believes, Current, Same, Settled, Local
  <1> QED
    BY <1>3, <1>4, <1>5

LEMMA LeasedRow ==
    ASSUME NEW row \in Rows, NEW w \in Workers, NEW token \in 0..MaxClaims, NEW expires \in Nat
    PROVE  /\ Leased(row, w, token, expires) \in Rows
           /\ Leased(row, w, token, expires).status = "leased"
           /\ Leased(row, w, token, expires).worker = w
           /\ Leased(row, w, token, expires).token = token
           /\ Leased(row, w, token, expires).expires = expires
           /\ Leased(row, w, token, expires).attempts = row.attempts
  BY DEF Leased, Rows

\* A job is taken over when it is queued or when its lease has ended before the
\* transaction's clock reading; the lock keeps it so until the COMMIT.
LEMMA CommitKeepsInv ==
    ASSUME LeaseInv, NEW w \in Workers, CommitClaim(w)
    PROVE  LeaseInv'
  <1> USE DEF LeaseInv
  <1> DEFINE expires == selecting[w].now + LeaseTicks
             taken == selecting[w].jobs
             new(j) == [job |-> j, token |-> claims + 1, attempts |-> rows[j].attempts,
                        runAt |-> rows[j].runAt, expires |-> expires]
  <1>1. /\ claims' = claims + 1 /\ claims' \in 1..MaxClaims /\ claims \in Nat
        /\ taken \subseteq Jobs /\ expires \in Nat
        /\ expires <= Local(w) + LeaseTicks
        /\ selecting' = [selecting EXCEPT ![w] = NotSelecting]
        /\ UNCHANGED <<sent, clock, skew, settled>>
    BY DEF CommitClaim, JobTypeOK, ClaimInv, Local
  <1>2. rows' = [j \in Jobs |->
                    IF j \in taken THEN Leased(rows[j], w, claims + 1, expires) ELSE rows[j]]
    BY Zenon DEF CommitClaim
  <1>0. held' = [held EXCEPT ![w] = @ \union {new(j) : j \in taken}]
    BY Zenon DEF CommitClaim
  <1> HIDE DEF expires, taken
  <1>3. \A j \in Jobs : rows[j] \in Rows
    BY DEF JobTypeOK
  <1>4. ASSUME NEW j \in taken
        PROVE  /\ rows'[j] \in Rows
               /\ rows'[j].status = "leased" /\ rows'[j].worker = w
               /\ rows'[j].token = claims + 1 /\ rows'[j].expires = expires
               /\ rows'[j].attempts = rows[j].attempts
    <2>1. rows'[j] = Leased(rows[j], w, claims + 1, expires)
      BY <1>1, <1>2
    <2>2. j \in Jobs /\ claims + 1 \in 0..MaxClaims
      BY <1>1
    <2> QED
      <3>1. rows[j] \in Rows /\ expires \in Nat
        BY <1>1, <1>3, <2>2
      <3> QED
        BY <2>1, <2>2, <3>1, LeasedRow
  <1>5. \A j \in Jobs \ taken : rows'[j] = rows[j]
    BY <1>2
  <1>6. ASSUME NEW j \in taken
        PROVE  \/ rows[j].status = "queued"
               \/ rows[j].status = "leased" /\ rows[j].expires < selecting[w].now
    BY DEF ClaimInv, taken
  <1>7. held'[w] = held[w] \union {new(j) : j \in taken}
        /\ \A v \in Workers : v # w => held'[v] = held[v]
    BY <1>0 DEF JobTypeOK
  <1>8. \A j \in taken : new(j) \in JobObjects
    BY <1>1, <1>3 DEF JobObjects, Rows
  <1>9. JobTypeOK'
    <2>1. rows' \in [Jobs -> Rows]
      BY <1>2, <1>3, <1>4, <1>5
    <2>2. held' \in [Workers -> SUBSET JobObjects]
      BY <1>0, <1>8 DEF JobTypeOK
    <2>3. selecting' \in [Workers -> [jobs : SUBSET Jobs, now : Nat]]
      BY <1>1 DEF JobTypeOK, NotSelecting
    <2>4. \A j \in Jobs :
             /\ rows'[j].status = "leased" => rows'[j].worker \in Workers /\ rows'[j].token > 0
             /\ rows'[j].status \in {"absent", "queued"} =>
                    rows'[j].worker = NoWorker /\ rows'[j].token = 0
      <3> SUFFICES ASSUME NEW j \in Jobs
                   PROVE  /\ rows'[j].status = "leased" =>
                                 rows'[j].worker \in Workers /\ rows'[j].token > 0
                          /\ rows'[j].status \in {"absent", "queued"} =>
                                 rows'[j].worker = NoWorker /\ rows'[j].token = 0
        OBVIOUS
      <3>1. CASE j \in taken
        <4>1. claims + 1 > 0
          BY <1>1
        <4> QED
          BY <1>4, <3>1, <4>1
      <3>2. CASE j \notin taken
        BY <1>5, <3>2 DEF JobTypeOK
      <3> QED
        BY <3>1, <3>2
    <2>5. sent' \subseteq Statements /\ clock' \in 0..MaxClock /\ skew' \in [Workers -> 0..MaxSkew]
          /\ claims' \in 0..MaxClaims /\ settled' \subseteq Jobs \X (1..MaxClaims)
      BY <1>1 DEF JobTypeOK
    <2> QED
      BY <2>1, <2>2, <2>3, <2>4, <2>5 DEF JobTypeOK
  <1>10. RowInv'
    <2>1. \A j \in taken : rows[j].status # "failed"
      BY <1>6
    <2> SUFFICES ASSUME NEW j \in Jobs
                 PROVE  /\ rows'[j].token <= claims + 1
                        /\ rows'[j].status # "failed" => rows'[j].attempts < MaxAttempts
                        /\ rows'[j].status = "absent" => rows'[j].attempts = 0
                        /\ rows'[j].status = "completed" => <<j, rows'[j].token>> \in settled
      BY <1>1 DEF RowInv
    <2>2. rows[j].token \in Nat /\ claims \in Nat /\ rows[j].token <= claims
      <3>1. rows[j] \in Rows
        BY <1>3
      <3>2. rows[j].token \in Nat
        BY <3>1 DEF Rows
      <3>3. rows[j].token <= claims
        BY DEF RowInv
      <3> QED
        BY <1>1, <3>2, <3>3
    <2>3. CASE j \in taken
      <3>1. rows[j].attempts < MaxAttempts
        BY <2>1, <2>3 DEF RowInv
      <3> QED
        BY <1>4, <2>2, <2>3, <3>1
    <2>4. CASE j \notin taken
      BY <1>5, <2>2, <2>4 DEF RowInv
    <2> QED
      BY <2>3, <2>4
  <1>11. ClaimInv'
    <2>1. \A v \in Workers : selecting'[v] = IF v = w THEN NotSelecting ELSE selecting[v]
      BY <1>1 DEF JobTypeOK
    <2>2. \A v \in Workers : Local(v)' = Local(v) /\ Local(v) >= 0
      BY <1>1 DEF Local, JobTypeOK
    <2>3. \A v \in Workers : v # w => selecting[v].jobs \subseteq Jobs \ taken
      BY DEF ClaimInv, JobTypeOK, taken
    <2>4. selecting'[w].now = 0 /\ selecting'[w].jobs = {}
      BY <2>1 DEF NotSelecting
    <2>5. ASSUME NEW v \in Workers
          PROVE  /\ selecting'[v].now <= Local(v)'
                 /\ \A u \in Workers : u # v => selecting'[u].jobs \cap selecting'[v].jobs = {}
      BY <2>1, <2>2, <2>4 DEF ClaimInv
    <2>6. ASSUME NEW v \in Workers, NEW j \in selecting'[v].jobs
          PROVE  \/ rows'[j].status = "queued"
                 \/ rows'[j].status = "leased" /\ rows'[j].expires < selecting'[v].now
      <3>1. v # w /\ selecting'[v] = selecting[v]
        BY <2>1, <2>4, <2>6
      <3>2. rows'[j] = rows[j]
        BY <1>5, <2>3, <2>6, <3>1
      <3> QED
        BY <2>6, <3>1, <3>2 DEF ClaimInv
    <2> QED
      BY <2>5, <2>6 DEF ClaimInv
  <1>12. ASSUME NEW obj \in JobObjects, Known(obj)
         PROVE  Known(obj)'
    <2>1. obj.job \in Jobs /\ obj.token \in Nat /\ obj.token <= claims
      BY <1>12 DEF JobObjects, Known
    <2>2. CASE obj.job \in taken
      <3>1. rows'[obj.job].token = claims + 1
        BY <1>4, <2>2
      <3> QED
        BY <1>1, <2>1, <3>1 DEF Known, Current
    <2>3. CASE obj.job \notin taken
      <3>1. rows'[obj.job] = rows[obj.job]
        BY <1>5, <2>1, <2>3
      <3>2. Current(obj)' => obj.attempts = rows'[obj.job].attempts
        BY <1>12, <3>1 DEF Known, Current
      <3>3. obj.token <= claims'
        BY <1>1, <2>1
      <3> QED
        BY <3>2, <3>3 DEF Known
    <2> QED
      BY <2>2, <2>3
  <1>13. ASSUME NEW v \in Workers, NEW obj \in JobObjects, Known(obj), Believes(v, obj)
         PROVE  Believes(v, obj)'
    <2>1. clock' = clock /\ Local(v)' = Local(v) /\ Settled(obj)' = Settled(obj)
      BY <1>1 DEF Local, Settled
    <2>2. CASE obj.job \notin taken
      BY <1>5, <1>13, <2>1, <2>2 DEF Believes, Current, JobObjects
    <2>3. CASE obj.job \in taken
      <3>1. ~Current(obj)'
        <4>1. rows'[obj.job].token = claims + 1 /\ obj.token <= claims /\ obj.token \in Nat
          BY <1>4, <1>13, <2>3 DEF Known, JobObjects
        <4> QED
          BY <1>1, <4>1 DEF Current
      <3>2. Current(obj) => obj.expires < clock + MaxSkew
        <4>1. selecting[w].now <= clock + MaxSkew /\ selecting[w].now \in Nat
          BY DEF ClaimInv, Local, JobTypeOK
        <4>2. Current(obj) => rows[obj.job].status = "leased"
          <5>1. rows[obj.job].status = "queued" => rows[obj.job].token = 0
            BY DEF JobTypeOK, JobObjects
          <5>2. obj.token # 0
            BY DEF JobObjects
          <5> QED
            BY <1>6, <2>3, <5>1, <5>2 DEF Current
        <4>3. Current(obj) => rows[obj.job].expires < selecting[w].now
          BY <1>6, <2>3, <4>2
        <4>4. rows[obj.job].expires \in Nat /\ obj.expires \in Nat /\ clock \in Nat
          <5>1. obj.job \in Jobs /\ obj.expires \in Nat
            BY DEF JobObjects
          <5>2. clock \in Nat
            BY DEF JobTypeOK
          <5> QED
            BY <1>3, <5>1, <5>2 DEF Rows
        <4> QED
          BY <1>13, <4>1, <4>3, <4>4 DEF Believes
      <3> QED
        BY <1>13, <2>1, <3>1, <3>2 DEF Believes
    <2> QED
      BY <2>2, <2>3
  <1>14. ASSUME NEW j \in taken, NEW obj, obj = new(j)
         PROVE  Known(obj)' /\ Believes(w, obj)'
    <2>1. Local(w)' = Local(w)
      BY <1>1 DEF Local
    <2>2. j \in Jobs /\ obj.job = j /\ obj.token = claims + 1 /\ obj.expires = expires
          /\ obj.attempts = rows[j].attempts
      BY <1>1, <1>14
    <2>3. rows'[j].token = obj.token /\ rows'[j].attempts = obj.attempts
          /\ rows'[j].worker = w /\ rows'[j].expires = obj.expires
      BY <1>4, <2>2
    <2>4. Known(obj)'
      BY <1>1, <2>2, <2>3 DEF Known
    <2>5. obj.expires <= Local(w)' + LeaseTicks
      BY <1>1, <2>1, <2>2
    <2> QED
      BY <1>1, <2>2, <2>3, <2>4, <2>5 DEF Believes, Current
  <1>15. ObjectInv'
    <2> SUFFICES ASSUME NEW v \in Workers, NEW obj \in held'[v]
                 PROVE  /\ Known(obj)' /\ Believes(v, obj)'
                        /\ \A other \in held'[v] : Same(obj, other) => obj = other
      BY DEF ObjectInv, Same
    <2>1. \A a \in held[v] : a \in JobObjects /\ a.token <= claims
      BY DEF JobTypeOK, ObjectInv, Known
    <2>2. CASE obj \in held[v]
      <3>1. Known(obj)' /\ Believes(v, obj)'
        BY <2>1, <2>2, <1>12, <1>13 DEF ObjectInv
      <3>2. \A j \in taken : ~Same(obj, new(j))
        BY <2>1, <2>2, <1>1 DEF Same, JobObjects
      <3>3. \A other \in held[v] : Same(obj, other) => obj = other
        BY <2>2 DEF ObjectInv
      <3> QED
        BY <3>1, <3>2, <3>3, <1>7
    <2>3. CASE obj \notin held[v]
      <3>1. v = w
        BY <2>3, <1>7
      <3>2. PICK j \in taken : obj = new(j)
        BY <2>3, <1>7, <3>1
      <3>3. \A other \in held[v] : ~Same(obj, other)
        BY <2>1, <3>2, <1>1 DEF Same, JobObjects
      <3>4. \A i \in taken : Same(obj, new(i)) => obj = new(i)
        BY <3>2 DEF Same
      <3>5. Known(obj)' /\ Believes(v, obj)'
        BY <3>1, <3>2, <1>14
      <3> QED
        BY <3>1, <3>2, <3>3, <3>4, <3>5, <1>7
    <2> QED
      BY <2>2, <2>3
  <1>16. StatementInv'
    <2> SUFFICES ASSUME NEW s \in sent
                 PROVE  Known(s.obj)' /\ \A obj \in held'[s.worker] : Same(obj, s.obj) => obj = s.obj
      BY <1>1 DEF StatementInv, Same, Local
    <2>1. s.obj \in JobObjects /\ s.worker \in Workers /\ Known(s.obj)
      BY DEF JobTypeOK, Statements, StatementInv
    <2>2. \A j \in taken : ~Same(new(j), s.obj)
      BY <2>1, <1>1 DEF Same, JobObjects, Known
    <2>3. \A obj \in held[s.worker] : Same(obj, s.obj) => obj = s.obj
      BY DEF StatementInv
    <2> QED
      BY <2>1, <2>2, <2>3, <1>7, <1>12
  <1> QED
    BY <1>9, <1>10, <1>11, <1>15, <1>16

\* Objects and statements may disappear at any time: nothing depends on them.
LEMMA ForgettingKeepsInv ==
    ASSUME LeaseInv,
           held' \in [Workers -> SUBSET JobObjects], \A w \in Workers : held'[w] \subseteq held[w],
           sent' \subseteq sent, UNCHANGED <<rows, clock, skew, claims, settled>>
    PROVE  RowInv' /\ ObjectInv' /\ StatementInv'
  <1> USE DEF LeaseInv
  <1>1. RowInv'
    BY DEF RowInv
  <1>2. \A obj : (Known(obj)' <=> Known(obj))
    BY DEF Known, Current
  <1>3. \A w \in Workers : \A obj : (Believes(w, obj)' <=> Believes(w, obj))
    BY DEF Believes, Current, Settled, Local
  <1>4. ObjectInv'
    BY <1>2, <1>3 DEF ObjectInv, Same
  <1>5. StatementInv'
    <2>1. \A s \in sent : s.worker \in Workers
      BY DEF JobTypeOK, Statements
    <2> QED
      BY <1>2, <2>1 DEF StatementInv, Same, Local
  <1> QED
    BY <1>1, <1>4, <1>5

\* So may claim transactions.
LEMMA RollbackKeepsClaimInv ==
    ASSUME LeaseInv, NEW w \in Workers, selecting' = [selecting EXCEPT ![w] = NotSelecting],
           UNCHANGED <<rows, clock, skew>>
    PROVE  ClaimInv' /\ selecting' \in [Workers -> [jobs : SUBSET Jobs, now : Nat]]
  <1>1. selecting' \in [Workers -> [jobs : SUBSET Jobs, now : Nat]]
    BY DEF LeaseInv, JobTypeOK, NotSelecting
  <1>2. \A v \in Workers : selecting'[v] = IF v = w THEN NotSelecting ELSE selecting[v]
    BY DEF LeaseInv, JobTypeOK
  <1>3. \A v \in Workers : Local(v)' = Local(v) /\ Local(v) >= 0
    BY DEF LeaseInv, JobTypeOK, Local
  <1> QED
    BY <1>1, <1>2, <1>3 DEF LeaseInv, ClaimInv, NotSelecting

LEMMA RollbackKeepsInv ==
    ASSUME LeaseInv, NEW w \in Workers, RollbackClaim(w)
    PROVE  LeaseInv'
  <1>1. selecting' = [selecting EXCEPT ![w] = NotSelecting]
        /\ UNCHANGED <<rows, held, sent, clock, skew, claims, settled>>
    BY DEF RollbackClaim
  <1>2. ClaimInv' /\ selecting' \in [Workers -> [jobs : SUBSET Jobs, now : Nat]]
    BY <1>1, RollbackKeepsClaimInv
  <1>3. JobTypeOK'
    BY <1>1, <1>2 DEF LeaseInv, JobTypeOK
  <1>4. RowInv' /\ ObjectInv' /\ StatementInv'
    BY <1>1, ForgettingKeepsInv DEF LeaseInv, JobTypeOK
  <1> QED
    BY <1>2, <1>3, <1>4 DEF LeaseInv

LEMMA CrashKeepsInv ==
    ASSUME LeaseInv, NEW w \in Workers, WorkerCrash(w)
    PROVE  LeaseInv'
  <1>1. selecting' = [selecting EXCEPT ![w] = NotSelecting]
        /\ held' = [held EXCEPT ![w] = {}]
        /\ UNCHANGED <<rows, sent, clock, skew, claims, settled>>
    BY DEF WorkerCrash
  <1>2. ClaimInv' /\ selecting' \in [Workers -> [jobs : SUBSET Jobs, now : Nat]]
    BY <1>1, RollbackKeepsClaimInv
  <1>3. held' \in [Workers -> SUBSET JobObjects] /\ \A v \in Workers : held'[v] \subseteq held[v]
    BY <1>1 DEF LeaseInv, JobTypeOK
  <1>4. JobTypeOK'
    BY <1>1, <1>2, <1>3 DEF LeaseInv, JobTypeOK
  <1>5. RowInv' /\ ObjectInv' /\ StatementInv'
    BY <1>1, <1>3, ForgettingKeepsInv
  <1> QED
    BY <1>2, <1>4, <1>5 DEF LeaseInv

LEMMA MissKeepsInv ==
    ASSUME LeaseInv, NEW s \in sent, Miss(s)
    PROVE  LeaseInv'
  <1>1. s.worker \in Workers
    BY DEF LeaseInv, JobTypeOK, Statements
  <1>2. sent' \subseteq sent /\ UNCHANGED <<rows, selecting, clock, skew, claims, settled>>
    BY DEF Miss
  <1>3. held' \in [Workers -> SUBSET JobObjects] /\ \A v \in Workers : held'[v] \subseteq held[v]
    BY <1>1 DEF Miss, Without, LeaseInv, JobTypeOK
  <1>4. JobTypeOK' /\ ClaimInv'
    BY <1>2, <1>3 DEF LeaseInv, JobTypeOK, ClaimInv, Local
  <1> QED
    BY <1>2, <1>3, <1>4, ForgettingKeepsInv DEF LeaseInv

LEMMA TickKeepsInv ==
    ASSUME LeaseInv, ClockTick
    PROVE  LeaseInv'
  <1> USE DEF LeaseInv
  <1>1. clock \in Nat /\ clock' = clock + 1 /\ clock' \in 0..MaxClock
        /\ UNCHANGED <<rows, selecting, held, sent, skew, claims, settled>>
    BY DEF ClockTick, JobTypeOK
  <1>2. JobTypeOK'
    BY <1>1 DEF JobTypeOK
  <1>3. \A w \in Workers : Local(w) \in Nat /\ Local(w)' = Local(w) + 1
    BY <1>1 DEF Local, JobTypeOK
  <1>4. ClaimInv'
    <2>1. \A w \in Workers : selecting[w].now \in Nat
      BY DEF JobTypeOK
    <2> QED
      BY <1>1, <1>3, <2>1 DEF ClaimInv
  <1>5. RowInv'
    BY <1>1 DEF RowInv
  <1>6. ObjectInv'
    <2> SUFFICES ASSUME NEW w \in Workers, NEW obj \in held[w]
                 PROVE  Known(obj)' /\ Believes(w, obj)'
      BY <1>1 DEF ObjectInv, Same
    <2>1. Known(obj) /\ Believes(w, obj) /\ obj.expires \in Nat
      BY DEF ObjectInv, JobTypeOK, JobObjects
    <2> QED
      BY <1>1, <1>3, <2>1 DEF Known, Believes, Current, Settled
  <1>7. StatementInv'
    <2> SUFFICES ASSUME NEW s \in sent PROVE Known(s.obj)' /\ s.at <= Local(s.worker)'
      BY <1>1 DEF StatementInv, Same
    <2>1. Known(s.obj) /\ s.at <= Local(s.worker) /\ s.at \in Nat /\ s.worker \in Workers
      BY DEF StatementInv, JobTypeOK, Statements
    <2> QED
      BY <1>1, <1>3, <2>1 DEF Known, Current
  <1> QED
    BY <1>2, <1>4, <1>5, <1>6, <1>7

\* A worker sends about an object it holds, once at a time.
LEMMA SendKeepsInv ==
    ASSUME LeaseInv, NEW w \in Workers, NEW obj \in held[w], NEW op \in Operations,
           Send(w, obj, op)
    PROVE  LeaseInv'
  <1> USE DEF LeaseInv
  <1> DEFINE new == [op |-> op, worker |-> w, obj |-> obj, at |-> Local(w)]
  <1>1. sent' = sent \union {new}
        /\ UNCHANGED <<rows, selecting, held, clock, skew, claims, settled>>
        /\ \A s \in sent : ~(s.worker = w /\ s.obj = obj)
    BY DEF Send
  <1>2. Local(w) \in Nat /\ obj \in JobObjects
    BY DEF Local, JobTypeOK
  <1>3. /\ new \in Statements
        /\ new.worker = w /\ new.obj = obj /\ new.at = Local(w)
    BY <1>2 DEF Statements
  <1> HIDE DEF new
  <1>4. JobTypeOK' /\ RowInv' /\ ClaimInv'
    BY <1>1, <1>3 DEF JobTypeOK, RowInv, ClaimInv, Local
  <1>5. \A o : (Known(o)' <=> Known(o))
    BY <1>1 DEF Known, Current
  <1>6. ObjectInv'
    BY <1>1, <1>5 DEF ObjectInv, Believes, Current, Settled, Same, Local
  <1>7. StatementInv'
    <2>1. Known(obj) /\ obj.expires <= Local(w) + LeaseTicks
      BY DEF ObjectInv, Believes
    <2>2. \A o \in held[w] : Same(o, obj) => o = obj
      BY DEF ObjectInv, Same
    <2>3. \A t \in sent : ~(t.worker = w /\ (Same(t.obj, obj) \/ Same(obj, t.obj)))
      BY <1>1 DEF StatementInv, Same
    <2>4. \A v \in Workers : Local(v)' = Local(v)
      BY <1>1 DEF Local
    <2>5. \A t \in sent : t.worker \in Workers
      BY DEF JobTypeOK, Statements
    <2> SUFFICES ASSUME NEW s \in sent'
                 PROVE  /\ Known(s.obj)'
                        /\ s.obj.expires <= s.at + LeaseTicks
                        /\ s.at <= Local(s.worker)'
                        /\ \A o \in held'[s.worker] : Same(o, s.obj) => o = s.obj
                        /\ \A t \in sent' : t.worker = s.worker /\ Same(t.obj, s.obj) => t = s
      BY DEF StatementInv, Same
    <2>6. CASE s = new
      BY <1>1, <1>2, <1>3, <1>5, <2>1, <2>2, <2>3, <2>4, <2>6
    <2>7. CASE s \in sent
      <3>1. \A t \in sent : t.worker = s.worker /\ Same(t.obj, s.obj) => t = s
        BY <2>7 DEF StatementInv
      <3>2. ~(new.worker = s.worker /\ Same(new.obj, s.obj))
        BY <1>3, <2>3, <2>7
      <3> QED
        BY <1>1, <1>5, <2>4, <2>5, <2>7, <3>1, <3>2 DEF StatementInv
    <2> QED
      BY <1>1, <2>6, <2>7
  <1> QED
    BY <1>4, <1>6, <1>7

RowsOf(Tokens, Counts) ==
    [status : {"absent", "queued", "leased", "completed", "failed"},
     worker : Workers \union {NoWorker}, token : Tokens, expires : Nat,
     attempts : Counts, runAt : Nat, priority : Nat, key : Keys \union {NoKey}]

LEMMA FailedRow ==
    ASSUME NEW row \in Rows, NEW obj \in JobObjects, NEW at \in Nat,
           obj.attempts = row.attempts, row.attempts < MaxAttempts
    PROVE  /\ Failed(row, obj, at) \in Rows
           /\ Failed(row, obj, at).status =
                  IF obj.attempts + 1 >= MaxAttempts THEN "failed" ELSE "queued"
           /\ Failed(row, obj, at).worker = NoWorker
           /\ Failed(row, obj, at).token = 0
           /\ Failed(row, obj, at).attempts = obj.attempts + 1
  <1> DEFINE Tokens == 0..MaxClaims
             Counts == 0..MaxAttempts
             attempts == obj.attempts + 1
             status == IF attempts >= MaxAttempts THEN "failed" ELSE "queued"
             runAt == IF attempts >= MaxAttempts THEN obj.runAt ELSE at + RetryTicks
  <1>1. attempts \in Counts /\ 0 \in Tokens /\ runAt \in Nat /\ status \in {"failed", "queued"}
    BY DEF Rows, JobObjects
  <1>2. Rows = RowsOf(Tokens, Counts)
    BY DEF Rows, RowsOf
  <1>3. Failed(row, obj, at) = [row EXCEPT !.status = status, !.attempts = attempts,
              !.worker = NoWorker, !.token = 0, !.expires = 0, !.runAt = runAt]
    BY Zenon DEF Failed
  <1> HIDE DEF Tokens, Counts, attempts, status, runAt
  <1>4. /\ Failed(row, obj, at) \in RowsOf(Tokens, Counts)
        /\ Failed(row, obj, at).status = status /\ Failed(row, obj, at).attempts = attempts
        /\ Failed(row, obj, at).worker = NoWorker /\ Failed(row, obj, at).token = 0
    <2>1. row \in RowsOf(Tokens, Counts)
      BY <1>2
    <2> DEFINE new == [row EXCEPT !.status = status, !.attempts = attempts,
                           !.worker = NoWorker, !.token = 0, !.expires = 0, !.runAt = runAt]
    <2>2. new \in RowsOf(Tokens, Counts)
      BY <1>1, <2>1 DEF RowsOf
    <2>3. new.status = status /\ new.attempts = attempts /\ new.worker = NoWorker /\ new.token = 0
      BY <1>1, <2>1 DEF RowsOf
    <2> QED
      BY <1>3, <2>2, <2>3
  <1> QED
    BY <1>2, <1>4 DEF attempts, status

\* What each operation does to a row it is fenced into.
LEMMA UpdatedRow ==
    ASSUME LeaseInv, NEW s \in sent, Fenced(s), s.obj.attempts = rows[s.obj.job].attempts
    PROVE  LET row == rows[s.obj.job]
               new == Updated(s, row)
           IN  /\ new \in Rows
               /\ s.op = "heartbeat" =>
                      /\ new.status = "leased" /\ new.worker = row.worker /\ new.token = row.token
                      /\ new.attempts = row.attempts /\ new.expires = s.at + LeaseTicks
               /\ s.op = "complete" =>
                      /\ new.status = "completed" /\ new.worker = row.worker /\ new.token = row.token
                      /\ new.attempts = row.attempts /\ new.expires = row.expires
               /\ s.op = "fail" =>
                      /\ new.status = IF row.attempts + 1 >= MaxAttempts THEN "failed" ELSE "queued"
                      /\ new.worker = NoWorker /\ new.token = 0
                      /\ new.attempts = row.attempts + 1
  <1> DEFINE row == rows[s.obj.job]
  <1>1. /\ row \in Rows /\ s.obj \in JobObjects /\ s.at \in Nat /\ s.op \in Operations
        /\ s.obj.job \in Jobs
    BY DEF LeaseInv, JobTypeOK, Statements, JobObjects
  <1>2. row.status = "leased"
    BY DEF Fenced
  <1>3. row.attempts < MaxAttempts
    BY <1>1, <1>2 DEF LeaseInv, RowInv
  <1>4. CASE s.op = "heartbeat"
    <2>1. Updated(s, row) = [row EXCEPT !.expires = s.at + LeaseTicks]
      BY <1>4 DEF Updated
    <2> QED
      BY <1>1, <1>2, <1>4, <2>1 DEF Rows
  <1>5. CASE s.op = "complete"
    <2>1. Updated(s, row) = [row EXCEPT !.status = "completed"]
      BY <1>5 DEF Updated
    <2> QED
      BY <1>1, <1>5, <2>1 DEF Rows
  <1>6. CASE s.op = "fail"
    <2>1. Updated(s, row) = Failed(row, s.obj, s.at)
      BY <1>6 DEF Updated
    <2> QED
      BY <1>1, <1>3, <1>6, <2>1, FailedRow
  <1> QED
    BY <1>1, <1>4, <1>5, <1>6 DEF Operations

\* An UPDATE that is fenced in knows the row's attempts, belongs to the row's
\* worker and is the only one on its way for that claim.
LEMMA ApplyKeepsInv ==
    ASSUME LeaseInv, NEW s \in sent, Apply(s)
    PROVE  LeaseInv'
  <1> USE DEF LeaseInv
  <1> DEFINE j == s.obj.job
             new == Updated(s, rows[j])
             extended == [s.obj EXCEPT !.expires = s.at + LeaseTicks]
  <1>1. /\ s.obj \in JobObjects /\ j \in Jobs /\ s.at \in Nat /\ s.op \in Operations
        /\ s.worker \in Workers /\ s.obj.token \in 1..MaxClaims
    BY DEF JobTypeOK, Statements, JobObjects
  <1>2. /\ ~Locked(j)
        /\ rows[j].worker = s.worker /\ rows[j].token = s.obj.token /\ rows[j].status = "leased"
        /\ rows' = [rows EXCEPT ![j] = new]
        /\ settled' = IF s.op = "heartbeat" THEN settled
                      ELSE settled \union {<<j, s.obj.token>>}
        /\ held' \in {held, AfterReply(s)}
        /\ sent' = sent \ {s}
        /\ UNCHANGED <<selecting, clock, skew, claims>>
    BY DEF Apply, Fenced
  <1>3. Known(s.obj) /\ s.obj.expires <= s.at + LeaseTicks /\ s.at <= Local(s.worker)
        /\ s.obj.attempts = rows[j].attempts
    BY <1>2 DEF StatementInv, Known, Current
  <1>4. /\ new \in Rows
        /\ s.op = "heartbeat" =>
              /\ new.status = "leased" /\ new.worker = s.worker /\ new.token = s.obj.token
              /\ new.attempts = s.obj.attempts /\ new.expires = s.at + LeaseTicks
        /\ s.op = "complete" =>
              /\ new.status = "completed" /\ new.worker = s.worker /\ new.token = s.obj.token
              /\ new.attempts = s.obj.attempts /\ new.expires = rows[j].expires
        /\ s.op = "fail" =>
              /\ new.status \in {"failed", "queued"} /\ new.worker = NoWorker /\ new.token = 0
              /\ new.status = "queued" => new.attempts < MaxAttempts
    <2>1. Fenced(s)
      BY DEF Apply
    <2>2. rows[j].attempts \in Nat
      <3>1. rows[j] \in Rows
        BY <1>1 DEF JobTypeOK
      <3> QED
        BY <3>1 DEF Rows
    <2>3. /\ new \in Rows
          /\ s.op = "heartbeat" =>
                /\ new.status = "leased" /\ new.worker = rows[j].worker /\ new.token = rows[j].token
                /\ new.attempts = rows[j].attempts /\ new.expires = s.at + LeaseTicks
          /\ s.op = "complete" =>
                /\ new.status = "completed" /\ new.worker = rows[j].worker /\ new.token = rows[j].token
                /\ new.attempts = rows[j].attempts /\ new.expires = rows[j].expires
          /\ s.op = "fail" =>
                /\ new.status = IF rows[j].attempts + 1 >= MaxAttempts THEN "failed" ELSE "queued"
                /\ new.worker = NoWorker /\ new.token = 0
                /\ new.attempts = rows[j].attempts + 1
      BY <1>3, <2>1, UpdatedRow, Zenon
    <2> HIDE DEF new
    <2> QED
      BY <1>2, <1>3, <2>2, <2>3
  <1> HIDE DEF new
  <1>5. /\ extended \in JobObjects
        /\ extended.job = j /\ extended.token = s.obj.token
        /\ extended.attempts = s.obj.attempts /\ extended.expires = s.at + LeaseTicks
    BY <1>1 DEF JobObjects
  <1> HIDE DEF extended, j
  <1>6. rows'[j] = new /\ \A i \in Jobs : i # j => rows'[i] = rows[i]
    BY <1>1, <1>2 DEF JobTypeOK
  <1>7. /\ held' \in [Workers -> SUBSET JobObjects]
        /\ \A v \in Workers : \A obj \in held'[v] :
              \/ obj \in held[v]
              \/ /\ v = s.worker /\ s.op = "heartbeat" /\ obj = extended
                 /\ s.obj \in held[v]
        /\ \/ held' = held
           \/ s.obj \notin held'[s.worker] \/ s.obj = extended
    <2>1. held \in [Workers -> SUBSET JobObjects]
      BY DEF JobTypeOK
    <2>2. CASE held' = held
      BY <2>1, <2>2
    <2>3. CASE held' = Without(s.worker, s.obj)
      BY <1>1, <2>1, <2>3 DEF Without
    <2>4. CASE /\ s.op = "heartbeat" /\ s.obj \in held[s.worker]
               /\ held' = [held EXCEPT ![s.worker] = (@ \ {s.obj}) \union {extended}]
      BY <1>1, <1>5, <2>1, <2>4
    <2> QED
      BY <1>2, <2>2, <2>3, <2>4, Zenon DEF AfterReply, extended
  <1>8. \A v \in Workers : Local(v)' = Local(v)
    BY <1>2 DEF Local
  <1>9. JobTypeOK'
    <2>1. rows' \in [Jobs -> Rows]
      BY <1>2, <1>4 DEF JobTypeOK
    <2>2. settled' \subseteq Jobs \X (1..MaxClaims)
      BY <1>1, <1>2 DEF JobTypeOK
    <2>3. \A i \in Jobs :
             /\ rows'[i].status = "leased" => rows'[i].worker \in Workers /\ rows'[i].token > 0
             /\ rows'[i].status \in {"absent", "queued"} =>
                    rows'[i].worker = NoWorker /\ rows'[i].token = 0
      BY <1>1, <1>4, <1>6 DEF JobTypeOK, Operations
    <2>4. selecting' = selecting /\ clock' = clock /\ skew' = skew /\ claims' = claims
          /\ sent' \subseteq Statements
      BY <1>2 DEF JobTypeOK
    <2> QED
      BY <1>7, <2>1, <2>2, <2>3, <2>4 DEF JobTypeOK
  <1>10. RowInv'
    <2> SUFFICES ASSUME NEW i \in Jobs
                 PROVE  /\ rows'[i].token <= claims
                        /\ rows'[i].status # "failed" => rows'[i].attempts < MaxAttempts
                        /\ rows'[i].status = "absent" => rows'[i].attempts = 0
                        /\ rows'[i].status = "completed" => <<i, rows'[i].token>> \in settled'
      BY <1>2 DEF RowInv
    <2>1. claims \in Nat /\ s.obj.token <= claims /\ rows[j].attempts < MaxAttempts
      <3>1. rows[j].attempts < MaxAttempts
        BY <1>1, <1>2 DEF RowInv
      <3>2. claims \in Nat /\ s.obj.token <= claims
        BY <1>3 DEF JobTypeOK, Known
      <3> QED
        BY <3>1, <3>2
    <2>2. CASE i = j
      BY <1>1, <1>2, <1>3, <1>4, <1>6, <2>1, <2>2 DEF Operations
    <2>3. CASE i # j
      BY <1>2, <1>6, <2>3 DEF RowInv
    <2> QED
      BY <2>2, <2>3
  <1>11. ClaimInv'
    <2>1. \A v \in Workers : \A i \in selecting[v].jobs : i \in Jobs /\ i # j
      BY <1>2 DEF Locked, JobTypeOK
    <2> QED
      BY <1>2, <1>6, <1>8, <2>1 DEF ClaimInv
  <1>12. ASSUME NEW obj \in JobObjects, Known(obj)
         PROVE  Known(obj)'
    <2>1. obj.job \in Jobs /\ obj.token # 0 /\ claims' = claims
      BY <1>2 DEF JobObjects
    <2>2. CASE obj.job = j
      BY <1>1, <1>2, <1>3, <1>4, <1>6, <1>12, <2>1, <2>2 DEF Known, Current, Operations
    <2>3. CASE obj.job # j
      BY <1>6, <1>12, <2>1, <2>3 DEF Known, Current
    <2> QED
      BY <2>2, <2>3
  <1>13. ASSUME NEW v \in Workers, NEW obj \in held[v]
         PROVE  Believes(v, obj)'
    <2>1. obj \in JobObjects /\ Believes(v, obj)
      BY DEF ObjectInv, JobTypeOK
    <2>2. obj.job \in Jobs /\ obj.token # 0 /\ clock' = clock
      BY <1>2, <2>1 DEF JobObjects
    <2>3. Settled(obj) => Settled(obj)'
      BY <1>2 DEF Settled
    <2>4. CASE obj.job # j
      BY <1>6, <1>8, <2>1, <2>2, <2>3, <2>4 DEF Believes, Current
    <2>5. CASE obj.job = j /\ ~Current(obj)
      <3>1. ~Current(obj)'
        BY <1>1, <1>2, <1>4, <1>6, <2>2, <2>5 DEF Current, Operations
      <3> QED
        BY <1>8, <2>1, <2>2, <2>3, <2>5, <3>1 DEF Believes
    <2>6. CASE obj.job = j /\ Current(obj)
      <3>1. v = s.worker /\ Same(obj, s.obj)
        BY <1>2, <2>1, <2>6 DEF Believes, Current, Same, j
      <3>2. obj = s.obj
        BY <3>1 DEF StatementInv
      <3>3. CASE s.op = "fail"
        <4>1. ~Current(obj)' /\ Settled(obj)'
          BY <1>2, <1>4, <1>6, <2>2, <2>6, <3>2, <3>3 DEF Current, Settled
        <4> QED
          BY <1>8, <2>1, <4>1 DEF Believes
      <3>4. CASE s.op # "fail"
        <4>1. rows'[j].token = obj.token /\ rows'[j].worker = v
          BY <1>1, <1>4, <1>6, <3>1, <3>2, <3>4 DEF Operations
        <4>2. obj.expires <= rows'[j].expires
          BY <1>1, <1>3, <1>4, <1>6, <2>1, <2>6, <3>2, <3>4 DEF Operations, Believes
        <4> QED
          BY <1>8, <2>1, <2>6, <4>1, <4>2 DEF Believes, Current
      <3> QED
        BY <3>3, <3>4
    <2> QED
      BY <2>4, <2>5, <2>6
  <1>14. s.op = "heartbeat" => Known(extended)' /\ Believes(s.worker, extended)'
    <2>1. ASSUME NEW obj, obj = extended, s.op = "heartbeat"
          PROVE  Known(obj)' /\ Believes(s.worker, obj)'
      <3>1. obj.job = j /\ obj.token = s.obj.token /\ obj.attempts = s.obj.attempts
            /\ obj.expires = s.at + LeaseTicks /\ s.obj.token <= claims /\ claims' = claims
        BY <1>2, <1>3, <1>5, <2>1 DEF Known
      <3>2. rows'[j].token = obj.token /\ rows'[j].attempts = obj.attempts
            /\ rows'[j].worker = s.worker /\ rows'[j].expires = obj.expires
        BY <1>4, <1>6, <2>1, <3>1
      <3>3. obj.expires <= Local(s.worker)' + LeaseTicks
        <4>1. Local(s.worker) \in Nat
          BY <1>1 DEF Local, JobTypeOK
        <4> QED
          BY <1>1, <1>3, <1>8, <3>1, <4>1
      <3>4. obj.expires \in Nat
        BY <1>1, <3>1
      <3> QED
        BY <3>1, <3>2, <3>3, <3>4 DEF Known, Believes, Current
    <2>2. extended' = extended
      BY DEF extended
    <2> QED
      BY <2>1, <2>2
  <1>15. ObjectInv'
    <2> SUFFICES ASSUME NEW v \in Workers, NEW obj \in held'[v]
                 PROVE  /\ Known(obj)' /\ Believes(v, obj)'
                        /\ \A other \in held'[v] : Same(obj, other) => obj = other
      BY DEF ObjectInv, Same
    <2>1. \A a \in held[v] : a \in JobObjects /\ Known(a)
      BY DEF JobTypeOK, ObjectInv
    <2>2. Known(obj)' /\ Believes(v, obj)'
      BY <1>7, <1>12, <1>13, <1>14, <2>1
    <2>3. \A a, b \in held[v] : Same(a, b) => a = b
      BY DEF ObjectInv
    <2>4. \A a \in held'[v] : extended \in held'[v] /\ Same(a, extended) => a = extended
      <3> SUFFICES ASSUME NEW a \in held'[v], extended \in held'[v], Same(a, extended)
                   PROVE  a = extended
        OBVIOUS
      <3> QED
        BY <1>5, <1>7, <2>3 DEF Same, j
    <2> QED
      BY <1>7, <2>2, <2>3, <2>4 DEF Same
  <1>16. StatementInv'
    <2> SUFFICES ASSUME NEW t \in sent, t # s
                 PROVE  /\ Known(t.obj)'
                        /\ \A obj \in held'[t.worker] : Same(obj, t.obj) => obj = t.obj
      <3>1. \A t \in sent : t.worker \in Workers
        BY DEF JobTypeOK, Statements
      <3> QED
        BY <1>2, <1>8, <3>1 DEF StatementInv, Same
    <2>1. t.obj \in JobObjects /\ t.worker \in Workers /\ Known(t.obj)
      BY DEF JobTypeOK, Statements, StatementInv
    <2>2. t.worker = s.worker => ~Same(extended, t.obj)
      BY <1>5 DEF StatementInv, Same, j
    <2>3. \A obj \in held[t.worker] : Same(obj, t.obj) => obj = t.obj
      BY DEF StatementInv
    <2> QED
      BY <1>7, <1>12, <2>1, <2>2, <2>3
  <1> QED
    BY <1>9, <1>10, <1>11, <1>15, <1>16

LEMMA SchedulerStepInv == LeaseInv /\ [SchedulerNext]_schedulerVars => LeaseInv'
  <1> SUFFICES ASSUME LeaseInv, [SchedulerNext]_schedulerVars PROVE LeaseInv'
    OBVIOUS
  <1>1. CASE \E j \in Jobs, key \in Keys \union {NoKey}, priority \in Priorities, runAt \in RunAts :
                 Enqueue(j, key, priority, runAt)
    BY <1>1, EnqueueKeepsInv
  <1>2. CASE \E w \in Workers : WorkerStep(w)
    <2> PICK w \in Workers : WorkerStep(w)
      BY <1>2
    <2>1. CASE \E wanted \in {js \in SUBSET Jobs : js # {}}, now \in 0..(MaxClock + MaxSkew) :
                   SelectJobs(w, wanted, now)
      BY <2>1, SelectKeepsInv
    <2>2. CASE \E obj \in held[w], op \in Operations : Send(w, obj, op)
      BY <2>2, SendKeepsInv
    <2> QED
      BY <2>1, <2>2, CommitKeepsInv, RollbackKeepsInv, CrashKeepsInv DEF WorkerStep
  <1>3. CASE \E s \in sent : Apply(s) \/ Miss(s)
    BY <1>3, ApplyKeepsInv, MissKeepsInv
  <1>4. CASE ClockTick
    BY <1>4, TickKeepsInv
  <1>5. CASE UNCHANGED schedulerVars
    BY <1>5 DEF schedulerVars, LeaseInv, JobTypeOK, RowInv, ClaimInv, ObjectInv, StatementInv,
                Known, Believes, Current, Settled, Same, Local
  <1> QED
    BY <1>1, <1>2, <1>3, <1>4, <1>5 DEF SchedulerNext

LEMMA SchedulerInvariant == SchedulerSpec => []LeaseInv
  BY SchedulerInitInv, SchedulerStepInv, PTL DEF SchedulerSpec

\* Every column of every row, every job object and every statement keeps its
\* type, and a row's lease columns go with its status (claimNext, fail).
THEOREM RowsKeepTheirTypes == SchedulerSpec => []JobTypeOK
  BY SchedulerInvariant, PTL DEF LeaseInv

\* Of two workers that hold different claims of a job at most one may rely on
\* its lease, whatever arrives late and however the clocks differ within the
\* bound: one of the claims has been overtaken, and a claim is overtaken when it
\* is settled or its lease, which no copy believes to be longer than the row
\* says, has ended by some clock (claimNext, heartbeat, complete, fail).
THEOREM LeasesAreExclusive == SchedulerSpec => []LeaseIsExclusive
  <1>1. LeaseInv => LeaseIsExclusive
    <2> SUFFICES ASSUME LeaseInv, NEW v \in Workers, NEW w \in Workers,
                        NEW a \in held[v], NEW b \in held[w],
                        a.job = b.job, a.token # b.token, Relies(v, a), Relies(w, b)
                 PROVE  FALSE
      BY DEF LeaseIsExclusive
    <2>1. /\ Believes(v, a) /\ Believes(w, b)
          /\ a.expires \in Nat /\ b.expires \in Nat
          /\ Local(v) \in Nat /\ Local(w) \in Nat /\ clock \in Nat
          /\ clock <= Local(v) /\ clock <= Local(w)
      BY DEF LeaseInv, ObjectInv, JobTypeOK, JobObjects, Local
    <2>2. ~Current(a) \/ ~Current(b)
      BY DEF Current
    <2>3. ~Settled(a) /\ ~Settled(b)
      BY DEF Relies, Settled
    <2>4. Local(v) + MaxSkew <= a.expires /\ Local(w) + MaxSkew <= b.expires
      BY DEF Relies
    <2> QED
      BY <2>1, <2>2, <2>3, <2>4 DEF Believes
  <1> QED
    BY <1>1, SchedulerInvariant, PTL

-----------------------------------------------------------------------------
(* The refinement *)

Owner == [j \in Jobs |-> rows[j].token]
Failures == [j \in Jobs |-> rows[j].attempts]

\* A row that changes nothing but its lease or its schedule changes no outcome.
LEMMA SameRowsSameOutcome ==
    ASSUME \A j \in Jobs : /\ rows'[j].status = rows[j].status /\ rows'[j].token = rows[j].token
                           /\ rows'[j].attempts = rows[j].attempts,
           claims' = claims, settled' = settled
    PROVE  UNCHANGED Outcome!outcomeVars
  <1>1. State' = State
    BY DEF State
  <1>2. Owner' = Owner /\ Failures' = Failures
    BY DEF Owner, Failures
  <1> QED
    BY <1>1, <1>2 DEF Outcome!outcomeVars, Owner, Failures

LEMMA EnqueueOpens ==
    ASSUME LeaseInv, NEW j \in Jobs, NEW key, NEW priority, NEW runAt,
           Enqueue(j, key, priority, runAt)
    PROVE  Outcome!Open(j)
  <1> DEFINE new == [AbsentRow EXCEPT !.status = "queued", !.key = key,
                       !.priority = priority, !.runAt = runAt]
  <1>1. new.status = "queued" /\ new.token = 0 /\ new.attempts = 0
    BY DEF AbsentRow
  <1> HIDE DEF new
  <1>2. /\ rows' = [rows EXCEPT ![j] = new]
        /\ rows[j].status = "absent" /\ rows[j].token = 0 /\ rows[j].attempts = 0
        /\ claims' = claims /\ settled' = settled
    BY DEF Enqueue, LeaseInv, JobTypeOK, RowInv, new
  <1>3. rows'[j] = new /\ \A i \in Jobs : i # j => rows'[i] = rows[i]
    BY <1>2 DEF LeaseInv, JobTypeOK
  <1>4. State[j] = "absent"
    BY <1>2 DEF State
  <1>5. State' = [State EXCEPT ![j] = "open"]
    BY <1>1, <1>3 DEF State
  <1>6. Owner' = Owner /\ Failures' = Failures
    BY <1>1, <1>2, <1>3 DEF Owner, Failures
  <1> QED
    BY <1>2, <1>4, <1>5, <1>6 DEF Outcome!Open, Owner, Failures

LEMMA CommitClaims ==
    ASSUME LeaseInv, NEW w \in Workers, CommitClaim(w), NEW taken, taken = selecting[w].jobs
    PROVE  Outcome!Claim(taken)
  <1> DEFINE expires == selecting[w].now + LeaseTicks
  <1>1. /\ taken \subseteq Jobs /\ claims' = claims + 1 /\ settled' = settled
        /\ claims + 1 \in 0..MaxClaims /\ expires \in Nat
    BY DEF CommitClaim, LeaseInv, JobTypeOK
  <1>2. rows' = [j \in Jobs |->
                    IF j \in taken THEN Leased(rows[j], w, claims + 1, expires) ELSE rows[j]]
    BY Zenon DEF CommitClaim
  <1>3. ASSUME NEW j \in taken
        PROVE  State[j] \in {"open", "owned"}
    <2>1. rows[j].status \in {"queued", "leased"}
      BY DEF LeaseInv, ClaimInv
    <2> QED
      BY <1>1, <2>1 DEF State
  <1> HIDE DEF expires
  <1>4. ASSUME NEW j \in taken
        PROVE  /\ rows'[j].status = "leased" /\ rows'[j].token = claims + 1
               /\ rows'[j].attempts = rows[j].attempts
    <2>1. rows'[j] = Leased(rows[j], w, claims + 1, expires) /\ rows[j] \in Rows
      BY <1>1, <1>2 DEF LeaseInv, JobTypeOK
    <2> QED
      BY <1>1, <2>1, LeasedRow
  <1>5. \A j \in Jobs \ taken : rows'[j] = rows[j]
    BY <1>2
  <1>6. State' = [j \in Jobs |-> IF j \in taken THEN "owned" ELSE State[j]]
    BY <1>4, <1>5 DEF State
  <1>7. Owner' = [j \in Jobs |-> IF j \in taken THEN claims' ELSE Owner[j]]
    BY <1>1, <1>4, <1>5 DEF Owner
  <1>8. Failures' = Failures
    BY <1>4, <1>5 DEF Failures
  <1> QED
    BY <1>1, <1>3, <1>6, <1>7, <1>8, Zenon DEF Outcome!Claim, Owner, Failures

LEMMA ApplySettles ==
    ASSUME LeaseInv, NEW s \in sent, Apply(s)
    PROVE  \/ Outcome!Complete(s.obj.job) \/ Outcome!ReportFailure(s.obj.job)
           \/ UNCHANGED Outcome!outcomeVars
  <1> DEFINE j == s.obj.job
             new == Updated(s, rows[j])
  <1>1. s.obj \in JobObjects /\ j \in Jobs /\ s.op \in Operations /\ rows[j] \in Rows
    BY DEF LeaseInv, JobTypeOK, Statements, JobObjects
  <1>2. /\ Fenced(s) /\ rows[j].token = s.obj.token /\ rows[j].status = "leased"
        /\ rows' = [rows EXCEPT ![j] = new]
        /\ settled' = IF s.op = "heartbeat" THEN settled
                      ELSE settled \union {<<j, s.obj.token>>}
        /\ claims' = claims
    BY DEF Apply, Fenced
  <1>3. s.obj.attempts = rows[j].attempts
    BY <1>2 DEF LeaseInv, StatementInv, Known, Current
  <1>4. /\ s.op = "heartbeat" =>
              /\ new.status = "leased" /\ new.token = rows[j].token
              /\ new.attempts = rows[j].attempts
        /\ s.op = "complete" =>
              /\ new.status = "completed" /\ new.token = rows[j].token
              /\ new.attempts = rows[j].attempts
        /\ s.op = "fail" =>
              /\ new.status = IF rows[j].attempts + 1 >= MaxAttempts THEN "failed" ELSE "queued"
              /\ new.token = 0 /\ new.attempts = rows[j].attempts + 1
    BY <1>2, <1>3, UpdatedRow
  <1> HIDE DEF new, j
  <1>5. rows'[j] = new /\ \A i \in Jobs : i # j => rows'[i] = rows[i]
    BY <1>1, <1>2 DEF LeaseInv, JobTypeOK
  <1>6. State[j] = "owned" /\ Owner[j] = s.obj.token /\ Failures[j] = rows[j].attempts
    BY <1>1, <1>2 DEF State, Owner, Failures
  <1>7. CASE s.op = "heartbeat"
    BY <1>2, <1>4, <1>5, <1>7, SameRowsSameOutcome
  <1>8. CASE s.op = "complete"
    <2>1. State' = [State EXCEPT ![j] = "completed"]
      BY <1>4, <1>5, <1>8 DEF State
    <2>2. Owner' = Owner /\ Failures' = Failures
      BY <1>4, <1>5, <1>8 DEF Owner, Failures
    <2>3. settled' = settled \union {<<j, Owner[j]>>}
      BY <1>2, <1>6, <1>8
    <2> QED
      BY <1>2, <1>6, <2>1, <2>2, <2>3 DEF Outcome!Complete, Owner, Failures, j
  <1>9. CASE s.op = "fail"
    <2>1. Failures' = [Failures EXCEPT ![j] = @ + 1]
      BY <1>4, <1>5, <1>9 DEF Failures
    <2>2. Failures'[j] = rows[j].attempts + 1
      BY <1>1, <1>6, <2>1 DEF Failures
    <2>3. State' = [State EXCEPT ![j] = IF Failures'[j] >= MaxAttempts THEN "failed" ELSE "open"]
      BY <1>1, <1>4, <1>5, <1>9, <2>2 DEF State
    <2>4. Owner' = [Owner EXCEPT ![j] = 0]
      BY <1>4, <1>5, <1>9 DEF Owner
    <2>5. settled' = settled \union {<<j, Owner[j]>>}
      BY <1>2, <1>6, <1>9
    <2> QED
      BY <1>2, <1>6, <2>1, <2>3, <2>4, <2>5 DEF Outcome!ReportFailure, Owner, Failures, j
  <1> QED
    BY <1>1, <1>7, <1>8, <1>9 DEF Operations, j

\* Whatever stalls, dies, arrives late or gets lost, a step of the scheduler is
\* a step of JobOutcome or none: only the latest claim of a job completes or
\* fails it, a finished job stays finished, and failures are counted one by one
\* up to the limit (claimNext, heartbeat, complete, fail).
THEOREM SchedulerImplementsJobOutcome == SchedulerSpec => JobPromise
  <1>1. SchedulerInit => Outcome!OutcomeInit
    BY DEF SchedulerInit, Outcome!OutcomeInit, State, AbsentRow
  <1>2. LeaseInv /\ [SchedulerNext]_schedulerVars => [Outcome!OutcomeNext]_(Outcome!outcomeVars)
    <2> SUFFICES ASSUME LeaseInv, [SchedulerNext]_schedulerVars
                 PROVE  [Outcome!OutcomeNext]_(Outcome!outcomeVars)
      OBVIOUS
    <2>1. CASE \E j \in Jobs, key \in Keys \union {NoKey}, priority \in Priorities, runAt \in RunAts :
                   Enqueue(j, key, priority, runAt)
      BY <2>1, EnqueueOpens DEF Outcome!OutcomeNext
    <2>2. ASSUME NEW w \in Workers, WorkerStep(w)
          PROVE  [Outcome!OutcomeNext]_(Outcome!outcomeVars)
      <3>1. CASE CommitClaim(w)
        <4>1. PICK taken \in SUBSET Jobs : taken = selecting[w].jobs
          BY DEF LeaseInv, JobTypeOK
        <4> QED
          BY <3>1, <4>1, CommitClaims DEF Outcome!OutcomeNext
      <3>2. CASE ~CommitClaim(w)
        <4>1. UNCHANGED <<rows, claims, settled>>
          BY <2>2, <3>2 DEF WorkerStep, SelectJobs, RollbackClaim, Send, WorkerCrash
        <4> QED
          BY <4>1, SameRowsSameOutcome
      <3> QED
        BY <3>1, <3>2
    <2>3. ASSUME NEW s \in sent, Apply(s)
          PROVE  [Outcome!OutcomeNext]_(Outcome!outcomeVars)
      <3>1. s.obj.job \in Jobs
        BY DEF LeaseInv, JobTypeOK, Statements, JobObjects
      <3> QED
        BY <2>3, <3>1, ApplySettles DEF Outcome!OutcomeNext
    <2>4. CASE UNCHANGED <<rows, claims, settled>>
      BY <2>4, SameRowsSameOutcome
    <2>5. ASSUME NEW s \in sent, Miss(s)
          PROVE  UNCHANGED <<rows, claims, settled>>
      BY <2>5 DEF Miss
    <2>6. ClockTick \/ UNCHANGED schedulerVars => UNCHANGED <<rows, claims, settled>>
      BY DEF ClockTick, schedulerVars
    <2> QED
      BY <2>1, <2>2, <2>3, <2>4, <2>5, <2>6 DEF SchedulerNext
  <1> QED
    BY <1>1, <1>2, SchedulerInvariant, PTL DEF SchedulerSpec, JobPromise, Outcome!OutcomeSpec
=============================================================================
