---------------------------- MODULE AckWatermark ----------------------------
(***************************************************************************)
(* The acknowledged-LSN watermark of the write-ahead ledger                *)
(* (src/ledger/ack-watermark.ts).  Records are acknowledged one by one;    *)
(* the mark itself moves only every AdvanceRecords acknowledgements, on a  *)
(* timer, or when a replay forces it, and partition mode freezes the first *)
(* two of these.  JavaScript runs each method to completion, so every      *)
(* method is one action.                                                   *)
(***************************************************************************)
EXTENDS Integers

CONSTANTS
    Lsns,            \* the log sequence numbers a caller may pass
    AdvanceRecords,  \* options.advanceRecords: acknowledgements between advances
    MaxPending       \* bound: acknowledgements counted between two advances

ASSUME LsnsAssumption == Lsns \subseteq Nat \ {0}
ASSUME AdvanceRecordsAssumption == AdvanceRecords \in Nat \ {0}
ASSUME MaxPendingAssumption == MaxPending \in Nat

VARIABLES
    watermark,     \* the mark other components read
    pendingLsn,    \* highest LSN acknowledged and not yet covered by the mark
    pendingCount,  \* acknowledgements since the mark last moved
    frozen         \* AckWatermark.partitionMode

watermarkVars == <<watermark, pendingLsn, pendingCount, frozen>>

WatermarkInit ==
    /\ watermark = 0
    /\ pendingLsn = 0
    /\ pendingCount = 0
    /\ frozen = FALSE

-----------------------------------------------------------------------------
Higher(a, b) == IF a > b THEN a ELSE b

\* advanceWatermark(): called with the pending LSN and count of the moment,
\* moves the mark to `lsn` and resets the count, or does nothing at all.
AdvanceTo(lsn, count) ==
    IF lsn > watermark
    THEN watermark' = lsn /\ pendingCount' = 0
    ELSE watermark' = watermark /\ pendingCount' = count

Acknowledge(lsn) ==
    /\ UNCHANGED frozen
    /\ \/ /\ lsn <= watermark
          /\ UNCHANGED <<watermark, pendingLsn, pendingCount>>
       \/ /\ lsn > watermark
          /\ pendingLsn' = Higher(pendingLsn, lsn)
          /\ IF ~frozen /\ pendingCount + 1 >= AdvanceRecords
             THEN AdvanceTo(Higher(pendingLsn, lsn), pendingCount + 1)
             ELSE watermark' = watermark /\ pendingCount' = pendingCount + 1

\* Replay of archived segments: not subject to the freeze.
ForceAdvance(lsn) ==
    /\ UNCHANGED frozen
    /\ IF lsn > watermark
       THEN watermark' = lsn /\ pendingLsn' = lsn /\ pendingCount' = 0
       ELSE UNCHANGED <<watermark, pendingLsn, pendingCount>>

SetFrozen(active) ==
    /\ frozen' = active
    /\ UNCHANGED <<watermark, pendingLsn, pendingCount>>

\* Mutants: the timer waits for a full batch, or ignores the freeze.
TimerTick_FullBatch ==
    /\ ~frozen
    /\ pendingCount >= AdvanceRecords
    /\ AdvanceTo(pendingLsn, pendingCount)
    /\ UNCHANGED <<pendingLsn, frozen>>
TimerTick_IgnoresFreeze ==
    /\ pendingCount > 0
    /\ AdvanceTo(pendingLsn, pendingCount)
    /\ UNCHANGED <<pendingLsn, frozen>>

\* The setInterval callback; with nothing to advance it changes nothing.
TimerTick ==
    /\ ~frozen
    /\ pendingCount > 0
    /\ AdvanceTo(pendingLsn, pendingCount)
    /\ UNCHANGED <<pendingLsn, frozen>>

WatermarkNext ==
    \/ \E lsn \in Lsns : pendingCount < MaxPending /\ Acknowledge(lsn)
    \/ \E lsn \in Lsns : ForceAdvance(lsn)
    \/ \E active \in BOOLEAN : SetFrozen(active)
    \/ TimerTick

\* setInterval fires again and again until destroy(): the timer is fair.
WatermarkSpec ==
    WatermarkInit /\ [][WatermarkNext]_watermarkVars /\ WF_watermarkVars(TimerTick)

-----------------------------------------------------------------------------
\* The mark and its batch keep their types.
WatermarkTypeOK ==
    /\ watermark \in Nat
    /\ pendingLsn \in Nat
    /\ pendingCount \in Nat
    /\ frozen \in BOOLEAN

\* Something is waiting exactly when the highest acknowledged LSN lies above
\* the mark.  The timer and the record count look only at pendingCount and
\* advanceWatermark() looks only at pendingLsn: if the two disagreed, records
\* would wait with nothing left to move the mark, or the timer would fire for
\* nothing (advanceWatermark, startTimer).
WaitingMeansAhead ==
    /\ pendingLsn >= watermark
    /\ (pendingCount > 0) <=> (pendingLsn > watermark)

\* The mark never moves back, whatever the order in which appends acknowledge
\* and replays force it (advanceWatermark, forceAdvance).
MarkNeverMovesBack == [][watermark' >= watermark]_watermarkVars

\* An acknowledged record that stays pending is covered by the mark in the end
\* (startTimer), unless partition mode freezes the mark or a
\* forced advance forgets the record first.
PendingIsEventuallyCovered ==
    \A lsn \in Lsns :
        (pendingLsn = lsn /\ pendingCount > 0) ~>
            (watermark >= lsn \/ frozen \/ pendingLsn < lsn)
=============================================================================
