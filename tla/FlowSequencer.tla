----------------------------- MODULE FlowSequencer -----------------------------
(***************************************************************************)
(* The accounting events of one flow                                       *)
(* (backend/src/event-bus/message-sequencer.ts,                            *)
(* backend/src/metering/accounting-event-processor.ts): numbered when they *)
(* are published, delivered late, out of order, more than once or never,   *)
(* put back in order by accept() and processed one after the other by      *)
(* handle(), whose calls overlap at their awaits.                          *)
(***************************************************************************)
EXTENDS Integers, FiniteSets, FiniteSetsExt

CONSTANTS
    MaxSeqno,       \* bound
    Limit,          \* reorderLimit
    Handlers        \* bound: calls of handle() that may overlap

ASSUME SequencerAssumption == MaxSeqno \in Nat /\ Limit \in Nat

VARIABLES
    assignedSeqno,  \* nextSeqno - 1
    expected,       \* expectedSeqno
    reorderBuffer,  \* numbers of the events in the flow's reorder buffer
    todo,           \* ready events of each handle(); the lowest is in processReadyEvent()
    delivered,      \* history: events that were handed to handle()
    starts,         \* history: how often each event's processing began, up to 2
    lost,           \* history: ready events that a rejected handle() left undone
    overlapped,     \* history: a handle() had ready events before an earlier one's were done
    overflowed      \* history: the reorder buffer went over its limit

sequencerVars == <<assignedSeqno, expected, reorderBuffer, todo, delivered, starts, lost,
                   overlapped, overflowed>>

Seqnos == 1..MaxSeqno

SequencerInit ==
    /\ assignedSeqno = 0 /\ expected = 1
    /\ reorderBuffer = {}
    /\ todo = [h \in Handlers |-> {}]
    /\ delivered = {} /\ lost = {}
    /\ starts = [e \in Seqnos |-> 0]
    /\ overlapped = FALSE /\ overflowed = FALSE

-----------------------------------------------------------------------------

\* assign()
Assign ==
    /\ assignedSeqno < MaxSeqno
    /\ assignedSeqno' = assignedSeqno + 1
    /\ UNCHANGED <<expected, reorderBuffer, todo, delivered, starts, lost, overlapped, overflowed>>

\* Mutant: what waited behind the expected event is not looked at.
Ready_OnlyExpected(e) == {e}
\* The expected event and the buffered ones that follow it without a gap.
Ready(e) == {f \in e..MaxSeqno : (e + 1)..f \subseteq reorderBuffer}

Started(e) == [starts EXCEPT ![e] = Min({@ + 1, 2})]

\* Mutant: an event from before the expected one starts again.
IsExpected_OrOlder(e) == e <= expected
IsExpected(e) == e = expected

\* handle() of the expected event, up to its first await.
HandleExpected(h, e) ==
    /\ todo[h] = {} /\ e <= assignedSeqno /\ IsExpected(e)
    /\ todo' = [todo EXCEPT ![h] = Ready(e)]
    /\ reorderBuffer' = reorderBuffer \ (Ready(e) \ {e})
    /\ expected' = Max(Ready(e)) + 1
    /\ starts' = Started(e)
    /\ delivered' = delivered \union {e}
    /\ overlapped' = (overlapped \/ \E k \in Handlers : todo[k] # {})
    /\ UNCHANGED <<assignedSeqno, lost, overflowed>>

\* accept() of an event that is ahead.  Over the limit it gives up the lowest buffered
\* event and expects the one after it, even if that is in the buffer.
HandleAhead(e) ==
    LET held == reorderBuffer \union {e}
    IN  /\ e <= assignedSeqno /\ e > expected
        /\ delivered' = delivered \union {e}
        /\ \/ /\ Cardinality(held) <= Limit
              /\ reorderBuffer' = held
              /\ UNCHANGED <<expected, overflowed>>
           \/ /\ Cardinality(held) > Limit
              /\ reorderBuffer' = held \ {Min(held)}
              /\ expected' = Min(held) + 1
              /\ overflowed' = TRUE
        /\ UNCHANGED <<assignedSeqno, todo, starts, lost, overlapped>>

\* accept() drops an event that is older, and nobody looks at `dropped'.
HandleOlder(e) ==
    /\ e < expected
    /\ delivered' = delivered \union {e}
    /\ UNCHANGED <<assignedSeqno, expected, reorderBuffer, todo, starts, lost, overlapped, overflowed>>

\* Mutant: the next event starts although this one is not done.
Next_SkipsOne(rest) == Max(rest)
NextReady(rest) == Min(rest)

\* processReadyEvent() resolves: on to the next ready event.
Processed(h) ==
    LET rest == todo[h] \ {Min(todo[h])}
    IN  /\ todo[h] # {}
        /\ todo' = [todo EXCEPT ![h] = rest]
        /\ starts' = IF rest = {} THEN starts ELSE Started(NextReady(rest))
        /\ UNCHANGED <<assignedSeqno, expected, reorderBuffer, delivered, lost, overlapped, overflowed>>

\* ... or rejects, and so does handle(): the sequencer never hands out the rest again.
Rejected(h) ==
    /\ todo[h] # {}
    /\ todo' = [todo EXCEPT ![h] = {}]
    /\ lost' = lost \union (todo[h] \ {Min(todo[h])})
    /\ UNCHANGED <<assignedSeqno, expected, reorderBuffer, delivered, starts, overlapped, overflowed>>

SequencerNext ==
    \/ Assign
    \/ \E e \in Seqnos : HandleAhead(e) \/ HandleOlder(e)
    \/ \E h \in Handlers, e \in Seqnos : HandleExpected(h, e)
    \/ \E h \in Handlers : Processed(h) \/ Rejected(h)

SequencerSpec ==
    /\ SequencerInit /\ [][SequencerNext]_sequencerVars
    /\ \A h \in Handlers : WF_sequencerVars(Processed(h) \/ Rejected(h))

-----------------------------------------------------------------------------
(* Properties *)

\* The sequencer's numbers and sets stay within the events there are.
SequencerTypeOK ==
    /\ assignedSeqno \in 0..MaxSeqno /\ expected \in 1..(MaxSeqno + 1)
    /\ reorderBuffer \subseteq Seqnos /\ delivered \subseteq Seqnos /\ lost \subseteq Seqnos
    /\ todo \in [Handlers -> SUBSET Seqnos]
    /\ starts \in [Seqnos -> 0..2]
    /\ overlapped \in BOOLEAN /\ overflowed \in BOOLEAN

\* No event is charged twice, however it is delivered and calls overlap; only an
\* overflow, which can move the expected number back, breaks it.
HandedOnce == ~overflowed => \A e \in Seqnos : starts[e] <= 1

\* When calls do not overlap, an event starts only after every earlier one has started
\* or was given up by a rejected call.
StartsInOrder ==
    ~overlapped /\ ~overflowed =>
        \A e \in Seqnos : starts[e] > 0 => \A f \in 1..(e - 1) : starts[f] > 0 \/ f \in lost

\* A flow with no gap waits for nothing: once its events up to some number are
\* delivered they all start, unless a call is rejected or the buffer overflows.
DeliveredIsStarted ==
    \A e \in Seqnos :
        (1..e \subseteq delivered) ~>
            (\/ \A f \in 1..e : starts[f] > 0
             \/ lost # {} \/ overflowed)

\* Refuted: the event that is expected is never one that waits in the buffer.
ExpectedIsMissing == expected \notin reorderBuffer
=============================================================================
