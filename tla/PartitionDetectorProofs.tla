----------------------- MODULE PartitionDetectorProofs -----------------------
(***************************************************************************)
(* What the watermark and the detector that drives it keep for every set   *)
(* of LSNs and peers, every threshold and timeout, and any order of        *)
(* heartbeats, checks, heals, appends and replays.  The watermark is       *)
(* proved on its own; the detector uses it through its methods only, so    *)
(* its theorems carry over (DetectorUsesWatermark).                        *)
(***************************************************************************)
EXTENDS PartitionDetector, FiniteSetTheorems, TLAPS

-----------------------------------------------------------------------------
(* AckWatermark *)

\* The inductive invariant: WaitingMeansAhead alone is not enough, it needs
\* the types for its comparisons.
WatermarkInv == WatermarkTypeOK /\ WaitingMeansAhead

\* Each method, on any state that satisfies the invariant, leaves one that does
\* (AckWatermark.acknowledge, forceAdvance, setPartitionMode, startTimer).
LEMMA AcknowledgeKeepsInv ==
    ASSUME WatermarkInv, NEW lsn \in Nat \ {0}, Acknowledge(lsn)
    PROVE  WatermarkInv' /\ watermark' >= watermark
<1> USE AdvanceRecordsAssumption
    DEF WatermarkInv, WatermarkTypeOK, WaitingMeansAhead, Acknowledge, AdvanceTo, Higher
<1>1. CASE lsn <= watermark
  BY <1>1
<1>2. CASE lsn > watermark
  BY <1>2
<1> QED BY <1>1, <1>2

\* A forced advance leaves nothing pending or changes nothing.
LEMMA ForceAdvanceKeepsInv ==
    ASSUME WatermarkInv, NEW lsn \in Nat, ForceAdvance(lsn)
    PROVE  WatermarkInv' /\ watermark' >= watermark
BY DEF WatermarkInv, WatermarkTypeOK, WaitingMeansAhead, ForceAdvance

\* The timer moves the mark to the pending LSN and empties the count.
LEMMA TimerTickKeepsInv ==
    ASSUME WatermarkInv, TimerTick
    PROVE  WatermarkInv' /\ watermark' >= watermark
BY DEF WatermarkInv, WatermarkTypeOK, WaitingMeansAhead, TimerTick, AdvanceTo

\* Freezing and thawing touch nothing else.
LEMMA SetFrozenKeepsInv ==
    ASSUME WatermarkInv, NEW active \in BOOLEAN, SetFrozen(active)
    PROVE  WatermarkInv' /\ watermark' = watermark
BY DEF WatermarkInv, WatermarkTypeOK, WaitingMeansAhead, SetFrozen

\* Every step of the component keeps the invariant and never moves the mark back.
LEMMA WatermarkStep ==
    ASSUME WatermarkInv, [WatermarkNext]_watermarkVars
    PROVE  WatermarkInv' /\ watermark' >= watermark
<1>1. CASE \E lsn \in Lsns : pendingCount < MaxPending /\ Acknowledge(lsn)
  BY <1>1, AcknowledgeKeepsInv, LsnsAssumption
<1>2. CASE \E lsn \in Lsns : ForceAdvance(lsn)
  BY <1>2, ForceAdvanceKeepsInv, LsnsAssumption
<1>3. CASE \E active \in BOOLEAN : SetFrozen(active)
  BY <1>3, SetFrozenKeepsInv DEF WatermarkInv, WatermarkTypeOK
<1>4. CASE TimerTick
  BY <1>4, TimerTickKeepsInv
<1>5. CASE UNCHANGED watermarkVars
  BY <1>5 DEF watermarkVars, WatermarkInv, WatermarkTypeOK, WaitingMeansAhead
<1> QED BY <1>1, <1>2, <1>3, <1>4, <1>5 DEF WatermarkNext

\* A new watermark has nothing waiting.
LEMMA WatermarkInitInv == WatermarkInit => WatermarkInv
<1> SUFFICES ASSUME WatermarkInit PROVE WatermarkInv
  OBVIOUS
<1>1. frozen \in BOOLEAN
  BY DEF WatermarkInit
<1> QED
  BY <1>1 DEF WatermarkInit, WatermarkInv, WatermarkTypeOK, WaitingMeansAhead

\* The inductive invariant holds throughout.
LEMMA WatermarkInvariance == WatermarkSpec => []WatermarkInv
<1>1. WatermarkInv /\ [WatermarkNext]_watermarkVars => WatermarkInv'
  BY WatermarkStep
<1> QED BY <1>1, WatermarkInitInv, PTL DEF WatermarkSpec

\* Type correctness of the watermark's fields (AckWatermark).
THEOREM WatermarkTypes == WatermarkSpec => []WatermarkTypeOK
BY WatermarkInvariance, PTL DEF WatermarkInv

\* The timer and the record count never disagree about whether records wait:
\* no acknowledged record is left with nothing that would move the mark
\* (acknowledge, advanceWatermark).
THEOREM WaitingIsConsistent == WatermarkSpec => []WaitingMeansAhead
BY WatermarkInvariance, PTL DEF WatermarkInv

\* No order of appends and replays takes the mark back (advanceWatermark,
\* forceAdvance).
THEOREM MarkIsMonotone == WatermarkSpec => MarkNeverMovesBack
<1>1. WatermarkInv /\ [WatermarkNext]_watermarkVars
        => [watermark' >= watermark]_watermarkVars
  BY WatermarkStep
<1> QED BY <1>1, WatermarkInvariance, PTL DEF WatermarkSpec, MarkNeverMovesBack

-----------------------------------------------------------------------------
(* PartitionDetector *)

\* A peer is written off for nothing but silence, and a heartbeat undoes it.
WrittenOffIsSilent == \A p \in Peers : ~reachable[p] => TimedOut(p)

DetectorInv == DetectorTypeOK /\ WrittenOffIsSilent

\* Every step of the detector is a call of one of the watermark's methods, or does
\* not touch the watermark.
WatermarkStepOrStutter == [WatermarkNext]_watermarkVars

LEMMA SetFrozenIsStep ==
    ASSUME NEW active \in BOOLEAN, SetFrozen(active)
    PROVE  WatermarkStepOrStutter
BY DEF WatermarkStepOrStutter, WatermarkNext

LEMMA DetectorWatermarkStep ==
    ASSUME [DetectorNext]_detectorVars
    PROVE  WatermarkStepOrStutter
<1>1. CASE \E p \in Peers : ReceiveHeartbeat(p) \/ LinkChanges(p)
  BY <1>1 DEF ReceiveHeartbeat, LinkChanges, modeVars, markVars, WatermarkStepOrStutter, watermarkVars
<1>2. CASE CheckPeers
  <2>1. SetFrozen(TRUE) \/ UNCHANGED <<frozen, markVars>>
    BY <1>2 DEF CheckPeers, modeVars
  <2> QED BY <2>1, SetFrozenIsStep DEF markVars, WatermarkStepOrStutter, watermarkVars
<1>3. CASE FinishHeal
  BY <1>3, SetFrozenIsStep DEF FinishHeal
<1>4. CASE Tick \/ UNCHANGED detectorVars
  BY <1>4 DEF Tick, detectorVars, modeVars, markVars, WatermarkStepOrStutter, watermarkVars
<1>5. CASE MarkTimer \/ \E lsn \in Lsns : AcknowledgeAppend(lsn) \/ ReplayAdvances(lsn)
  BY <1>5 DEF MarkTimer, AcknowledgeAppend, ReplayAdvances, WatermarkStepOrStutter, WatermarkNext
<1> QED BY <1>1, <1>2, <1>3, <1>4, <1>5 DEF DetectorNext

\* What checkPeers() counts as unreachable is exactly the peers that are silent now.
LEMMA UnreachableIsSilent ==
    ASSUME DetectorInv, CheckPeers
    PROVE  {p \in Peers : ~reachable'[p]} = {p \in Peers : TimedOut(p)}
<1>1. \A p \in Peers : reachable[p] \in BOOLEAN
  BY DEF DetectorInv, DetectorTypeOK
<1>2. \A p \in Peers : reachable'[p] = (reachable[p] /\ ~TimedOut(p))
  BY DEF CheckPeers
<1> QED BY <1>1, <1>2 DEF DetectorInv, WrittenOffIsSilent

\* The quorum rule's integer division means a majority.
LEMMA LostMeansMajority ==
    ASSUME NEW n \in Nat, NEW unreachable \in Nat, QuorumLostWith(unreachable, n)
    PROVE  2 * unreachable > n
BY DEF QuorumLostWith

LEMMA DetectorStep ==
    ASSUME DetectorInv, WatermarkInv, [DetectorNext]_detectorVars
    PROVE  /\ DetectorInv'
           /\ partitioned' /\ ~partitioned =>
                 2 * Cardinality({p \in Peers : TimedOut(p)}) > Cardinality(Peers)
<1>1. WatermarkTypeOK'
  BY DetectorWatermarkStep, WatermarkStep DEF WatermarkStepOrStutter, WatermarkInv
<1>2. /\ connected \subseteq Peers
      /\ silence \in [Peers -> 0..(Timeout + 1)]
      /\ reachable \in [Peers -> BOOLEAN]
      /\ partitioned \in BOOLEAN /\ writerMode \in BOOLEAN
      /\ healing \in 0..MaxHealing
      /\ WrittenOffIsSilent
      /\ Timeout \in Nat /\ MaxHealing \in Nat \ {0}
  BY TimeoutAssumption, MaxHealingAssumption DEF DetectorInv, DetectorTypeOK
<1>3. CASE \E p \in Peers : ReceiveHeartbeat(p) \/ LinkChanges(p)
  <2>1. PICK p \in Peers : ReceiveHeartbeat(p) \/ LinkChanges(p)
    BY <1>3
  <2>2. UNCHANGED <<partitioned, writerMode, healing>>
    BY <2>1 DEF ReceiveHeartbeat, LinkChanges, modeVars
  <2>3. connected' \subseteq Peers
    BY <1>2, <2>1 DEF ReceiveHeartbeat, LinkChanges
  <2>4. CASE UNCHANGED peerVars
    BY <1>1, <1>2, <2>2, <2>3, <2>4
    DEF peerVars, DetectorInv, DetectorTypeOK, WrittenOffIsSilent, TimedOut
  <2>5. CASE ReceiveHeartbeat(p)
    <3>1. /\ silence' = [silence EXCEPT ![p] = 0]
          /\ reachable' = [reachable EXCEPT ![p] = TRUE]
      BY <2>5 DEF ReceiveHeartbeat
    <3>2. silence' \in [Peers -> 0..(Timeout + 1)]
      BY <1>2, <3>1
    <3>3. reachable' \in [Peers -> BOOLEAN]
      BY <1>2, <3>1
    <3>4. WrittenOffIsSilent'
      BY <1>2, <3>1 DEF WrittenOffIsSilent, TimedOut
    <3> QED BY <1>1, <1>2, <2>2, <2>3, <3>2, <3>3, <3>4 DEF DetectorInv, DetectorTypeOK
  <2> QED BY <2>1, <2>4, <2>5 DEF LinkChanges
<1>4. CASE CheckPeers
  <2>1. UNCHANGED <<connected, silence>>
    BY <1>4 DEF CheckPeers
  <2>2. reachable' = [p \in Peers |-> reachable[p] /\ ~TimedOut(p)]
    BY <1>4 DEF CheckPeers
  <2>3. reachable' \in [Peers -> BOOLEAN]
    BY <1>2, <2>2
  <2>4. WrittenOffIsSilent'
    <3>1. \A p \in Peers : ~reachable'[p] => ~reachable[p] \/ TimedOut(p)
      BY <1>2, <2>2
    <3> QED BY <1>2, <2>1, <3>1 DEF WrittenOffIsSilent, TimedOut
  <2>5. partitioned' \in BOOLEAN /\ writerMode' \in BOOLEAN
    BY <1>2, <1>4 DEF CheckPeers, modeVars
  <2>6. healing' \in 0..MaxHealing
    <3>1. healing' = healing \/ (healing < MaxHealing /\ healing' = healing + 1)
      BY <1>4 DEF CheckPeers
    <3> QED BY <1>2, <3>1
  <2>7. ASSUME partitioned', ~partitioned
        PROVE  2 * Cardinality({p \in Peers : TimedOut(p)}) > Cardinality(Peers)
    <3>1. QuorumLostWith(Cardinality({p \in Peers : ~reachable'[p]}), Cardinality(Peers))
      BY <1>4, <2>7 DEF CheckPeers
    <3>2. {p \in Peers : ~reachable'[p]} = {p \in Peers : TimedOut(p)}
      BY <1>4, UnreachableIsSilent
    <3>3. /\ Cardinality(Peers) \in Nat
          /\ Cardinality({p \in Peers : TimedOut(p)}) \in Nat
      BY PeersAssumption, FS_Subset, FS_CardinalityType
    <3> QED BY <3>1, <3>2, <3>3, LostMeansMajority
  <2> QED BY <1>1, <1>2, <2>1, <2>3, <2>4, <2>5, <2>6, <2>7 DEF DetectorInv, DetectorTypeOK
<1>5. CASE FinishHeal
  <2>1. UNCHANGED <<connected, silence, reachable, partitioned>> /\ writerMode' = FALSE
    BY <1>5 DEF FinishHeal, peerVars
  <2>2. healing' \in 0..MaxHealing
    BY <1>2, <1>5 DEF FinishHeal
  <2> QED
    BY <1>1, <1>2, <2>1, <2>2 DEF DetectorInv, DetectorTypeOK, WrittenOffIsSilent, TimedOut
<1>6. CASE Tick
  <2>1. UNCHANGED <<connected, reachable, partitioned, writerMode, healing>>
    BY <1>6 DEF Tick, modeVars
  <2>2. silence' = [p \in Peers |-> IF TimedOut(p) THEN silence[p] ELSE silence[p] + 1]
    BY <1>6 DEF Tick
  <2>3. silence' \in [Peers -> 0..(Timeout + 1)] /\ \A p \in Peers : silence'[p] >= silence[p]
    BY <1>2, <2>2 DEF TimedOut
  <2>4. WrittenOffIsSilent'
    <3> SUFFICES ASSUME NEW p \in Peers, ~reachable[p] PROVE silence'[p] > Timeout
      BY <2>1 DEF WrittenOffIsSilent, TimedOut
    <3>1. silence[p] > Timeout
      BY <1>2 DEF WrittenOffIsSilent, TimedOut
    <3>2. silence[p] \in Int /\ silence'[p] \in Int
      BY <1>2, <2>3
    <3> QED BY <1>2, <2>3, <3>1, <3>2
  <2> QED BY <1>1, <1>2, <2>1, <2>3, <2>4 DEF DetectorInv, DetectorTypeOK
<1>7. CASE \/ MarkTimer \/ UNCHANGED detectorVars
           \/ \E lsn \in Lsns : AcknowledgeAppend(lsn) \/ ReplayAdvances(lsn)
  <2>1. UNCHANGED <<connected, silence, reachable, partitioned, writerMode, healing>>
    BY <1>7 DEF MarkTimer, AcknowledgeAppend, ReplayAdvances, ownVars, peerVars, detectorVars
  <2> QED
    BY <1>1, <1>2, <2>1 DEF DetectorInv, DetectorTypeOK, WrittenOffIsSilent, TimedOut
<1> QED BY <1>3, <1>4, <1>5, <1>6, <1>7 DEF DetectorNext

\* The inductive invariant, with the watermark's own beside it.
LEMMA DetectorInvariance == DetectorSpec => [](DetectorInv /\ WatermarkInv)
<1>1. DetectorInit => DetectorInv /\ WatermarkInv
  <2> SUFFICES ASSUME DetectorInit PROVE DetectorInv /\ WatermarkInv
    OBVIOUS
  <2>1. WatermarkInv
    BY WatermarkInitInv DEF DetectorInit
  <2>2. partitioned \in BOOLEAN /\ writerMode \in BOOLEAN /\ reachable \in [Peers -> BOOLEAN]
    BY DEF DetectorInit
  <2>3. DetectorTypeOK
    BY <2>1, <2>2, TimeoutAssumption, MaxHealingAssumption
    DEF DetectorInit, DetectorTypeOK, WatermarkInv
  <2>4. WrittenOffIsSilent
    BY DEF DetectorInit, WrittenOffIsSilent
  <2> QED BY <2>1, <2>3, <2>4 DEF DetectorInv
<1>2. DetectorInv /\ WatermarkInv /\ [DetectorNext]_detectorVars => (DetectorInv /\ WatermarkInv)'
  BY DetectorStep, DetectorWatermarkStep, WatermarkStep DEF WatermarkStepOrStutter
<1> QED BY <1>1, <1>2, PTL DEF DetectorSpec

\* Last-heard times, links, checks and the watermark keep their types
\* (PartitionDetector).
THEOREM DetectorTypes == DetectorSpec => []DetectorTypeOK
BY DetectorInvariance, PTL DEF DetectorInv

\* The detector and the replays it triggers use the watermark through its methods
\* only: the detailed system implements the watermark's safety specification
\* (the callbacks onPartition, onHeal and triggerReplay).
THEOREM DetectorUsesWatermark ==
    DetectorSpec => WatermarkInit /\ [][WatermarkNext]_watermarkVars
<1>1. DetectorInit => WatermarkInit
  BY DEF DetectorInit
<1>2. [DetectorNext]_detectorVars => [WatermarkNext]_watermarkVars
  BY DetectorWatermarkStep DEF WatermarkStepOrStutter
<1> QED BY <1>1, <1>2, PTL DEF DetectorSpec

\* A partition is never declared while half of the peers or more are heard of
\* (receiveHeartbeat, checkPeers).
THEOREM PartitionNeedsSilence == DetectorSpec => PartitionOnlyOnSilence
<1>1. DetectorInv /\ WatermarkInv /\ [DetectorNext]_detectorVars =>
         [partitioned' /\ ~partitioned =>
            2 * Cardinality({p \in Peers : TimedOut(p)}) > Cardinality(Peers)]_detectorVars
  BY DetectorStep
<1> QED BY <1>1, DetectorInvariance, PTL DEF DetectorSpec, PartitionOnlyOnSilence
=============================================================================
