------------------------------- MODULE EventBus -------------------------------
(***************************************************************************)
(* The partitioned event bus and its rebalance                             *)
(* (backend/src/event-bus/sharded-bus.ts, rebalance-coordinator.ts,        *)
(* message-sequencer.ts and partition-owner.rs).                           *)
(*                                                                         *)
(* Events wait in a buffer per partition.  A rebalance pauses the          *)
(* partitions it moves, fences their owners, writes each buffer to the     *)
(* partition's migration log and hands the partition over.  It awaits      *)
(* every call to the owners and to the file system; each may fail and end  *)
(* the rebalance where it stands.  Nothing keeps two rebalances of one     *)
(* partition apart: the history variable `contended' marks where it        *)
(* happened.                                                               *)
(***************************************************************************)
EXTENDS Integers, Sequences

CONSTANTS
    Partitions,
    Flows,
    PartitionFor,   \* the partition of each flow
    Rebalances,     \* the calls of rebalance()
    Plan,           \* Plan[r]: migratingPartitions, a sequence
    None,
    MaxEvents       \* bound: events of a flow

Moved(r) == {Plan[r][i] : i \in DOMAIN Plan[r]}

ASSUME BusAssumption ==
    /\ MaxEvents \in Nat /\ None \notin Rebalances
    /\ PartitionFor \in [Flows -> Partitions]
    /\ Plan \in [Rebalances -> Seq(Partitions)]
    /\ \A r \in Rebalances : Plan[r] # <<>>
                          /\ \A i, j \in DOMAIN Plan[r] : Plan[r][i] = Plan[r][j] => i = j

VARIABLES
    assigned,   \* events of a flow so far: nextSeqno - 1
    buffer,     \* events of a partition that are not in its log
    log,        \* migration log of a partition
    paused,     \* pausedPartitions
    fence,      \* fence_tokens: the rebalance whose token a partition holds
    late,       \* <<partition, rebalance>>: fences given up on that may still be set
    owner,      \* the rebalance that last handed the partition over
    owners,     \* the rebalance whose nextOwners are the bus's partitionOwners
    phase,      \* the call a rebalance awaits
    at,         \* index of the partition that call is for
    records,    \* what flushMigrationLog() is appending
    contended   \* history: partitions that two running rebalances moved

busVars == <<assigned, buffer, log, paused, fence, late, owner, owners, phase, at, records,
             contended>>

Running == {"fence", "drain", "append", "confirm", "assume"}
Here(r) == Plan[r][at[r]]
Last(r) == at[r] = Len(Plan[r])

BusInit ==
    /\ assigned = [f \in Flows |-> 0]
    /\ buffer = [p \in Partitions |-> <<>>]
    /\ log = [p \in Partitions |-> <<>>]
    /\ paused = {} /\ late = {}
    /\ fence = [p \in Partitions |-> None]
    /\ owner = [p \in Partitions |-> None] /\ owners = None
    /\ phase = [r \in Rebalances |-> "idle"]
    /\ at = [r \in Rebalances |-> 1]
    /\ records = [r \in Rebalances |-> <<>>]
    /\ contended = {}

-----------------------------------------------------------------------------
(* ShardedEventBus *)

\* Mutant: a paused partition takes events.
Publish_WhilePaused(f) ==
    LET p == PartitionFor[f] IN
    /\ assigned[f] < MaxEvents
    /\ assigned' = [assigned EXCEPT ![f] = @ + 1]
    /\ buffer' = [buffer EXCEPT ![p] = Append(@, <<f, assigned'[f]>>)]
    /\ UNCHANGED <<log, paused, fence, late, owner, owners, phase, at, records, contended>>

\* publish() numbers the event and buffers it; a paused partition refuses.
Publish(f) ==
    LET p == PartitionFor[f] IN
    /\ assigned[f] < MaxEvents /\ p \notin paused
    /\ assigned' = [assigned EXCEPT ![f] = @ + 1]
    /\ buffer' = [buffer EXCEPT ![p] = Append(@, <<f, assigned'[f]>>)]
    /\ UNCHANGED <<log, paused, fence, late, owner, owners, phase, at, records, contended>>

-----------------------------------------------------------------------------
(* RebalanceCoordinator: each action runs from one await to the next. *)

Begin(r) ==
    /\ phase[r] = "idle"
    /\ paused' = paused \union Moved(r)
    /\ phase' = [phase EXCEPT ![r] = "fence"]
    /\ contended' = contended \union
          UNION {Moved(q) \cap Moved(r) : q \in {q \in Rebalances : phase[q] \in Running}}
    /\ UNCHANGED <<assigned, buffer, log, fence, late, owner, owners, at, records>>

\* activate_fence() was answered; after the last one the second loop begins.
FenceActivated(r) ==
    /\ phase[r] = "fence"
    /\ fence' = [fence EXCEPT ![Here(r)] = r]
    /\ phase' = [phase EXCEPT ![r] = IF Last(r) THEN "drain" ELSE "fence"]
    /\ at' = [at EXCEPT ![r] = IF Last(r) THEN 1 ELSE @ + 1]
    /\ UNCHANGED <<assigned, buffer, log, paused, late, owner, owners, records, contended>>

\* Mutant: the buffer is emptied before the append.
Drained_EmptiesBuffer(r) ==
    /\ phase[r] = "drain"
    /\ records' = [records EXCEPT ![r] = buffer[Here(r)]]
    /\ buffer' = [buffer EXCEPT ![Here(r)] = <<>>]
    /\ phase' = [phase EXCEPT ![r] = "append"]
    /\ UNCHANGED <<assigned, log, paused, fence, late, owner, owners, at, contended>>

\* The owner has drained; flushMigrationLog() copies the buffer and appends it.
Drained(r) ==
    /\ phase[r] = "drain"
    /\ records' = [records EXCEPT ![r] = buffer[Here(r)]]
    /\ phase' = [phase EXCEPT ![r] = "append"]
    /\ UNCHANGED <<assigned, buffer, log, paused, fence, late, owner, owners, at, contended>>

Appended(r) ==
    /\ phase[r] = "append"
    /\ log' = [log EXCEPT ![Here(r)] = @ \o records[r]]
    /\ buffer' = [buffer EXCEPT ![Here(r)] = <<>>]
    /\ records' = [records EXCEPT ![r] = <<>>]
    /\ phase' = [phase EXCEPT ![r] = "confirm"]
    /\ UNCHANGED <<assigned, paused, fence, late, owner, owners, at, contended>>

FenceAnswered(r) ==
    /\ phase[r] = "confirm"
    /\ phase' = [phase EXCEPT ![r] = IF fence[Here(r)] = r THEN "assume" ELSE "failed"]
    /\ UNCHANGED <<assigned, buffer, log, paused, fence, late, owner, owners, at, records, contended>>

\* Mutants: a partition resumes when it is handed over; the last one only does.
Assumed_ResumesEach(r) ==
    /\ phase[r] = "assume"
    /\ owner' = [owner EXCEPT ![Here(r)] = r]
    /\ phase' = [phase EXCEPT ![r] = IF Last(r) THEN "done" ELSE "drain"]
    /\ at' = [at EXCEPT ![r] = IF Last(r) THEN @ ELSE @ + 1]
    /\ paused' = paused \ {Here(r)}
    /\ owners' = IF Last(r) THEN r ELSE owners
    /\ UNCHANGED <<assigned, buffer, log, fence, late, records, contended>>
Assumed_ResumesLast(r) ==
    /\ phase[r] = "assume"
    /\ owner' = [owner EXCEPT ![Here(r)] = r]
    /\ phase' = [phase EXCEPT ![r] = IF Last(r) THEN "done" ELSE "drain"]
    /\ at' = [at EXCEPT ![r] = IF Last(r) THEN @ ELSE @ + 1]
    /\ paused' = IF Last(r) THEN paused \ {Here(r)} ELSE paused
    /\ owners' = IF Last(r) THEN r ELSE owners
    /\ UNCHANGED <<assigned, buffer, log, fence, late, records, contended>>

\* After the last hand-over the bus learns the owners and production resumes.
Assumed(r) ==
    /\ phase[r] = "assume"
    /\ owner' = [owner EXCEPT ![Here(r)] = r]
    /\ phase' = [phase EXCEPT ![r] = IF Last(r) THEN "done" ELSE "drain"]
    /\ at' = [at EXCEPT ![r] = IF Last(r) THEN @ ELSE @ + 1]
    /\ paused' = IF Last(r) THEN paused \ Moved(r) ELSE paused
    /\ owners' = IF Last(r) THEN r ELSE owners
    /\ UNCHANGED <<assigned, buffer, log, fence, late, records, contended>>

\* Mutant: a failed append is not noticed.
AppendFails_Unnoticed(r) ==
    /\ phase[r] = "append"
    /\ log' \in {log, [log EXCEPT ![Here(r)] = @ \o records[r]]}
    /\ phase' = [phase EXCEPT ![r] = "confirm"]
    /\ records' = [records EXCEPT ![r] = <<>>]
    /\ UNCHANGED <<assigned, buffer, paused, fence, late, owner, owners, at, contended>>

\* The append is rejected, with or without the records in the file.
AppendFails(r) ==
    /\ phase[r] = "append"
    /\ log' \in {log, [log EXCEPT ![Here(r)] = @ \o records[r]]}
    /\ phase' = [phase EXCEPT ![r] = "failed"]
    /\ records' = [records EXCEPT ![r] = <<>>]
    /\ UNCHANGED <<assigned, buffer, paused, fence, late, owner, owners, at, contended>>

\* A call to an owner is rejected; a fence may be set later, a hand-over may
\* have happened.
CallFails(r) ==
    /\ phase' = [phase EXCEPT ![r] = "failed"]
    /\ \/ /\ phase[r] = "fence"
          /\ late' \in {late, late \union {<<Here(r), r>>}}
          /\ UNCHANGED owner
       \/ /\ phase[r] \in {"drain", "confirm"}
          /\ UNCHANGED <<late, owner>>
       \/ /\ phase[r] = "assume"
          /\ owner' \in {owner, [owner EXCEPT ![Here(r)] = r]}
          /\ UNCHANGED late
    /\ UNCHANGED <<assigned, buffer, log, paused, fence, owners, at, records, contended>>

\* An activation that the coordinator gave up on takes effect.
FenceLands(p, r) ==
    /\ <<p, r>> \in late
    /\ late' = late \ {<<p, r>>}
    /\ fence' = [fence EXCEPT ![p] = r]
    /\ UNCHANGED <<assigned, buffer, log, paused, owner, owners, phase, at, records, contended>>

Settles(r) ==
    \/ FenceActivated(r) \/ Drained(r) \/ Appended(r) \/ FenceAnswered(r) \/ Assumed(r)
    \/ AppendFails(r) \/ CallFails(r)

BusNext ==
    \/ \E f \in Flows : Publish(f)
    \/ \E r \in Rebalances : Begin(r) \/ Settles(r)
    \/ \E p \in Partitions, r \in Rebalances : FenceLands(p, r)

BusSpec == BusInit /\ [][BusNext]_busVars

\* Every awaited call settles, one way or the other.
BusFairSpec == BusSpec /\ \A r \in Rebalances : WF_busVars(Settles(r))

-----------------------------------------------------------------------------
Events == Flows \X (1..MaxEvents)
Calm == Partitions \ contended

\* Buffers, logs, owners and rebalances keep their types.
BusTypeOK ==
    /\ assigned \in [Flows -> 0..MaxEvents]
    /\ buffer \in [Partitions -> Seq(Events)] /\ log \in [Partitions -> Seq(Events)]
    /\ paused \subseteq Partitions /\ contended \subseteq Partitions
    /\ late \subseteq Partitions \X Rebalances
    /\ fence \in [Partitions -> Rebalances \union {None}]
    /\ owner \in [Partitions -> Rebalances \union {None}]
    /\ owners \in Rebalances \union {None}
    /\ phase \in [Rebalances -> Running \union {"idle", "done", "failed"}]
    /\ at \in [Rebalances -> Nat] /\ \A r \in Rebalances : at[r] \in DOMAIN Plan[r]
    /\ records \in [Rebalances -> Seq(Events)]

In(e, s) == \E i \in DOMAIN s : s[i] = e

\* No event that publish() took is ever lost: it is in its partition's buffer or
\* migration log, whatever fails on the way, unless two rebalances contended for
\* the partition (flushMigrationLog).
EventsAreKept ==
    \A f \in Flows : PartitionFor[f] \in Calm =>
        \A k \in 1..assigned[f] :
            In(<<f, k>>, buffer[PartitionFor[f]]) \/ In(<<f, k>>, log[PartitionFor[f]])

\* Whoever replays a log meets the events of a flow in order and without a gap,
\* repeats aside, although flushes fail, are repeated and alternate with
\* production (flushMigrationLog, replayMigrationLog).
LogKeepsOrder ==
    \A p \in Calm : \A i \in DOMAIN log[p] :
        log[p][i][2] > 1 => \E j \in 1..(i - 1) : log[p][j] = <<log[p][i][1], log[p][i][2] - 1>>

\* "Phase 1: stop new writes to moving partitions" (rebalance-coordinator.ts:26):
\* a partition takes no event while a rebalance that moves it is running.
MovingIsQuiet ==
    [][\A p \in Calm : Len(buffer'[p]) > Len(buffer[p]) =>
          \A r \in Rebalances : phase[r] \in Running => p \notin Moved(r)]_busVars

\* "let the new owner replay before consuming live traffic"
\* (rebalance-coordinator.ts:32): when a partition is handed over, its log holds
\* every event that was published to it.
NewOwnerSeesAll ==
    [][\A p \in Calm : owner'[p] # owner[p] =>
          \A f \in Flows : PartitionFor[f] = p =>
              \A k \in 1..assigned[f] : In(<<f, k>>, log[p])]_busVars

\* Every pause ends, unless a rebalance of the partition failed; this holds for
\* contended partitions too (rebalance).
PauseEndsOrFails ==
    \A p \in Partitions :
        p \in paused ~> \/ p \notin paused
                        \/ \E r \in Rebalances : p \in Moved(r) /\ phase[r] = "failed"
=============================================================================
