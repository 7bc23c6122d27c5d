-------------------------- MODULE PartitionDetector --------------------------
(***************************************************************************)
(* The failure detector that switches the ledger in and out of partition   *)
(* mode (src/consensus/partition-detector.ts) and the watermark it         *)
(* freezes, with the callbacks the integration test wires to it:           *)
(* onPartition freezes the watermark and switches the WalWriter,           *)
(* triggerReplay replays the archive and forces the mark, onHeal undoes    *)
(* the first (__tests__/wal-partition-resilience.test.js).                 *)
(*                                                                         *)
(* checkPeers() is called by setInterval and awaits the replay, so a later *)
(* check may run while an earlier one is still healing.  Time since a      *)
(* heartbeat is kept up to the first tick at which it is a timeout.        *)
(***************************************************************************)
EXTENDS AckWatermark, FiniteSets

CONSTANTS
    Peers,       \* options.peers: the replica set without this node
    Timeout,     \* options.timeoutMs, in ticks
    MaxHealing   \* bound: heals awaiting their replay at once

ASSUME PeersAssumption == IsFiniteSet(Peers)
ASSUME TimeoutAssumption == Timeout \in Nat
ASSUME MaxHealingAssumption == MaxHealing \in Nat \ {0}

VARIABLES
    connected,    \* peers whose heartbeats reach this node
    silence,      \* ticks since the last heartbeat of each peer
    reachable,    \* PeerState.reachable
    partitioned,  \* PartitionDetector.partitioned
    writerMode,   \* WalWriter.partitionMode
    healing       \* checkPeers() calls awaiting triggerReplay()

peerVars == <<silence, reachable>>
markVars == <<watermark, pendingLsn, pendingCount>>
modeVars == <<frozen, writerMode>>
ownVars == <<connected, peerVars, partitioned, writerMode, healing>>
detectorVars == <<markVars, frozen, ownVars>>

DetectorInit ==
    /\ connected = Peers
    /\ silence = [p \in Peers |-> 0]
    /\ reachable = [p \in Peers |-> TRUE]
    /\ partitioned = FALSE
    /\ writerMode = FALSE
    /\ healing = 0
    /\ WatermarkInit

-----------------------------------------------------------------------------
\* Mutant: the quorum counts as lost only when nobody is left.
QuorumLostWith_Nobody(unreachable, total) == unreachable = total

\* The quorum rule: more than half of the peers are unreachable.
QuorumLostWith(unreachable, total) == unreachable > total \div 2

TimedOut(p) == silence[p] > Timeout

\* Mutant: the peer stays written off.
ReceiveHeartbeat_TimeOnly(p) ==
    /\ p \in connected
    /\ silence' = [silence EXCEPT ![p] = 0]
    /\ UNCHANGED <<connected, reachable, partitioned, modeVars, healing, markVars>>

ReceiveHeartbeat(p) ==
    /\ p \in connected
    /\ silence' = [silence EXCEPT ![p] = 0]
    /\ reachable' = [reachable EXCEPT ![p] = TRUE]
    /\ UNCHANGED <<connected, partitioned, modeVars, healing, markVars>>

\* checkPeers() up to its first await: a lost quorum is acted upon at once, a
\* restored one clears `partitioned` and leaves the modes to the end of replay.
CheckPeers ==
    /\ reachable' = [p \in Peers |-> reachable[p] /\ ~TimedOut(p)]
    /\ LET lost == QuorumLostWith(Cardinality({p \in Peers : ~reachable'[p]}),
                                  Cardinality(Peers))
       IN  \/ /\ lost /\ ~partitioned
              /\ partitioned' = TRUE
              /\ SetFrozen(TRUE)
              /\ writerMode' = TRUE
              /\ UNCHANGED healing
           \/ /\ ~lost /\ partitioned
              /\ healing < MaxHealing
              /\ partitioned' = FALSE
              /\ healing' = healing + 1
              /\ UNCHANGED <<modeVars, markVars>>
           \/ /\ lost = partitioned
              /\ UNCHANGED <<partitioned, modeVars, healing, markVars>>
    /\ UNCHANGED <<connected, silence>>

\* Mutant: no heal is signalled when the replay failed.
FinishHeal_OnlyOnSuccess ==
    /\ healing > 0
    /\ healing' = healing - 1
    /\ \/ SetFrozen(FALSE) /\ writerMode' = FALSE
       \/ UNCHANGED <<modeVars, markVars>>
    /\ UNCHANGED <<connected, peerVars, partitioned>>
\* The replay of one heal resolves or rejects; onHeal runs either way.
FinishHeal ==
    /\ healing > 0
    /\ healing' = healing - 1
    /\ SetFrozen(FALSE)
    /\ writerMode' = FALSE
    /\ UNCHANGED <<connected, peerVars, partitioned>>

Tick ==
    /\ silence' = [p \in Peers |-> IF TimedOut(p) THEN silence[p] ELSE silence[p] + 1]
    /\ UNCHANGED <<connected, reachable, partitioned, modeVars, healing, markVars>>

\* The network cuts a peer off or lets it through again.
LinkChanges(p) ==
    /\ connected' = IF p \in connected THEN connected \ {p} ELSE connected \union {p}
    /\ UNCHANGED <<peerVars, partitioned, modeVars, healing, markVars>>

\* Appends are acknowledged and the timer fires whatever the detector does.
AcknowledgeAppend(lsn) ==
    /\ pendingCount < MaxPending
    /\ Acknowledge(lsn)
    /\ UNCHANGED ownVars
MarkTimer == TimerTick /\ UNCHANGED ownVars

\* A replay under way has come to the end of an archive.
ReplayAdvances(lsn) ==
    /\ healing > 0
    /\ ForceAdvance(lsn)
    /\ UNCHANGED ownVars

DetectorNext ==
    \/ \E p \in Peers : ReceiveHeartbeat(p) \/ LinkChanges(p)
    \/ CheckPeers
    \/ FinishHeal
    \/ Tick
    \/ \E lsn \in Lsns : AcknowledgeAppend(lsn) \/ ReplayAdvances(lsn)
    \/ MarkTimer

\* The watchdog and the mark's timer fire again and again, time passes and a
\* replay ends.  Nothing is assumed of heartbeats.
DetectorFairness ==
    /\ WF_detectorVars(CheckPeers)
    /\ WF_detectorVars(Tick)
    /\ WF_detectorVars(FinishHeal)
    /\ WF_detectorVars(MarkTimer)

DetectorSpec == DetectorInit /\ [][DetectorNext]_detectorVars
DetectorFairSpec == DetectorSpec /\ DetectorFairness

-----------------------------------------------------------------------------
\* Peers, modes and heals keep their types.
DetectorTypeOK ==
    /\ connected \subseteq Peers
    /\ silence \in [Peers -> 0..(Timeout + 1)]
    /\ reachable \in [Peers -> BOOLEAN]
    /\ partitioned \in BOOLEAN /\ writerMode \in BOOLEAN
    /\ healing \in 0..MaxHealing
    /\ WatermarkTypeOK

\* A partition is declared only when more than half of the peers are past the
\* timeout at that very moment: a peer written off earlier whose heartbeat came
\* back does not count against the quorum (receiveHeartbeat, checkPeers).
PartitionOnlyOnSilence ==
    [][partitioned' /\ ~partitioned =>
          2 * Cardinality({p \in Peers : TimedOut(p)}) > Cardinality(Peers)]_detectorVars

Majorities == {m \in SUBSET Peers : 2 * Cardinality(m) > Cardinality(Peers)}

\* A majority of peers that stays cut off is noticed for good: no overlapping heal
\* clears `partitioned` while the quorum is gone.
LossIsDetected ==
    \A cut \in Majorities : <>[](cut \intersect connected = {}) => <>[]partitioned

\* When the detector holds no partition and goes on holding none, the heal in
\* progress ends and normal operation is back, whatever became of its replay.
HealResumesOperation ==
    <>[]~partitioned => <>[](~frozen /\ ~writerMode)

\* "Preventing false acknowledgements ... while the replica set is unreachable"
\* (AckWatermark.setPartitionMode): as long as the detector holds the partition, the
\* mark is frozen and the writer throttled.  The code breaks it: a partition
\* found during a replay is undone by the onHeal of the heal before it.
PartitionKeepsModes == partitioned => frozen /\ writerMode
=============================================================================
