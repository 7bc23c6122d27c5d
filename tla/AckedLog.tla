------------------------------ MODULE AckedLog ------------------------------
(***************************************************************************)
(* What the write-ahead ledger promises its callers, without segments,     *)
(* files, flushes or throttling: a set of records whose append returned    *)
(* true, which only grows, and a mark that names one of them and moves     *)
(* forward only, until the process starts again.                           *)
(***************************************************************************)
EXTENDS Integers

CONSTANT Lsns

VARIABLES acked, mark
ackedVars == <<acked, mark>>

AckedInit == acked = {} /\ mark = 0

\* The mark stays, or moves forward to an acknowledged record.
MarkMoves == mark' = mark \/ (mark' \in acked' /\ mark' > mark)

Ack(lsn) == lsn \notin acked /\ acked' = acked \union {lsn} /\ MarkMoves
Advance == acked' = acked /\ mark' # mark /\ MarkMoves
Restart == acked' = acked /\ mark' = 0

AckedNext == (\E lsn \in Lsns : Ack(lsn)) \/ Advance \/ Restart
AckedSpec == AckedInit /\ [][AckedNext]_ackedVars
=============================================================================
