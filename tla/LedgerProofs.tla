---------------------------- MODULE LedgerProofs ----------------------------
(***************************************************************************)
(* Proofs about WriteAheadLog and LedgerArchive, for any number of         *)
(* concurrent appends, any sizes and any crashes.  Of the log: the segment *)
(* window keeps its shape, the mark names only acknowledged records, the   *)
(* log implements the abstract AckedLog, the minute's budget and the file  *)
(* sizes are overshot by a frame per caller, and trims lose the oldest     *)
(* records first.  With spills and replays: types, what the mark covers    *)
(* and when it may move, and that one caller's records are replayed in the *)
(* order they were appended in.                                            *)
(***************************************************************************)
EXTENDS LedgerArchive, SequenceTheorems, FiniteSetTheorems, WellFoundedInduction, TLAPS

Segment == [index : Nat, size : Nat, createdAt : Nat]
Call == [pc : Pcs, lsn : 0..MaxLsn, size : Nat, seg : Nat]

\* A list of segments numbered without a gap up to `last`.
Numbered(segs, last) ==
    \A k \in 1..Len(segs) : segs[k].index = last - Len(segs) + k

SegmentInv ==
    /\ segments \in Seq(Segment)
    /\ activeIndex \in Nat
    /\ clock \in Nat
    /\ SegmentWindow

\* Appends in progress carry different LSNs, none of them acknowledged yet.
CallInv ==
    /\ call \in [Writers -> Call]
    /\ nextLsn \in 1..(MaxLsn + 1)
    /\ returned \subseteq 1..(nextLsn - 1)
    /\ \A w \in Writers : call[w].pc # "idle" => call[w].lsn \in 1..(nextLsn - 1) \ returned
    /\ \A v, w \in Writers :
          v # w /\ call[v].pc # "idle" /\ call[w].pc # "idle" => call[v].lsn # call[w].lsn

MarkInv ==
    /\ watermark \in Nat /\ pendingLsn \in Nat /\ pendingCount \in Nat
    /\ MarkNamesReturnedRecord

WalInv == SegmentInv /\ CallInv /\ MarkInv

\* Writer w is elsewhere in append(), with the record it had.
MovedOn(w) == \E c \in Call : c.lsn = call[w].lsn /\ call' = [call EXCEPT ![w] = c]

-----------------------------------------------------------------------------
(* The segment list *)

\* createNewSegment() extends a numbered list by one (SegmentManager).
LEMMA NewSegmentNumbered ==
    ASSUME NEW segs \in Seq(Segment), NEW index \in Nat, clock \in Nat, Numbered(segs, index)
    PROVE  /\ WithNewSegment(segs, index + 1) \in Seq(Segment)
           /\ Len(WithNewSegment(segs, index + 1)) = Len(segs) + 1
           /\ Numbered(WithNewSegment(segs, index + 1), index + 1)
           /\ WithNewSegment(segs, index + 1)[Len(segs) + 1].size = 0
           /\ WithNewSegment(segs, index + 1)[Len(segs) + 1].index = index + 1
<1> DEFINE new == [index |-> index + 1, size |-> 0, createdAt |-> clock]
           longer == Append(segs, new)
<1>1. new \in Segment
  BY DEF Segment
<1>2. /\ longer \in Seq(Segment)
      /\ Len(longer) = Len(segs) + 1
      /\ \A k \in 1..Len(segs) : longer[k] = segs[k]
      /\ longer[Len(segs) + 1] = new
  BY <1>1
<1>3. Numbered(longer, index + 1)
  <2> SUFFICES ASSUME NEW k \in 1..Len(longer)
               PROVE  longer[k].index = (index + 1) - Len(longer) + k
    BY DEF Numbered
  <2>1. Len(segs) \in Nat
    OBVIOUS
  <2>2. CASE k = Len(segs) + 1
    BY <1>2, <2>1, <2>2
  <2>3. CASE k \in 1..Len(segs)
    BY <1>2, <2>1, <2>3 DEF Numbered
  <2> HIDE DEF longer
  <2> QED BY <1>2, <2>1, <2>2, <2>3
<1> QED BY <1>2, <1>3 DEF WithNewSegment

\* What getActiveSegment() returns is the last of a well-formed window.
LEMMA OpenedWindow ==
    ASSUME SegmentInv
    PROVE  LET index == IF segments = <<>> THEN activeIndex + 1 ELSE activeIndex
           IN  /\ Opened \in Seq(Segment)
               /\ Len(Opened) \in 1..MaxSegments
               /\ Numbered(Opened, index)
               /\ Opened[Len(Opened)].size < SegmentBytes
               /\ ActiveSegment = index
<1>1. CASE segments = <<>>
  <2>1. segments \in Seq(Segment) /\ Len(segments) = 0 /\ Numbered(segments, activeIndex)
    BY <1>1 DEF Numbered
  <2>2. Opened = WithNewSegment(segments, activeIndex + 1)
    BY <1>1 DEF Opened, OpenedIndex
  <2>3. activeIndex \in Nat /\ clock \in Nat
    BY DEF SegmentInv
  <2>4. /\ Opened \in Seq(Segment)
        /\ Len(Opened) = 1
        /\ Numbered(Opened, activeIndex + 1)
        /\ Opened[Len(Opened)].size = 0
        /\ Opened[Len(Opened)].index = activeIndex + 1
    <3> DEFINE longer == WithNewSegment(segments, activeIndex + 1)
    <3>1. /\ longer \in Seq(Segment)
          /\ Len(longer) = Len(segments) + 1
          /\ Numbered(longer, activeIndex + 1)
          /\ longer[Len(segments) + 1].size = 0
          /\ longer[Len(segments) + 1].index = activeIndex + 1
      BY <2>1, <2>3, NewSegmentNumbered
    <3> HIDE DEF longer
    <3>2. Len(longer) = 1 /\ Len(segments) + 1 = 1
      BY <2>1, <3>1
    <3> QED BY <2>2, <3>1, <3>2 DEF longer
  <2> QED
    BY <1>1, <2>4, SizesAssumption DEF ActiveSegment
<1>2. CASE segments # <<>>
  <2>1. Opened = segments /\ Len(segments) \in Nat \ {0}
    BY <1>2 DEF Opened, SegmentInv, OpenedIndex
  <2> QED
    BY <1>2, <2>1 DEF SegmentInv, SegmentWindow, Numbered, ActiveSegment
<1> QED BY <1>1, <1>2

\* Asking for the active segment keeps the window as it is or opens its first
\* segment (SegmentManager.getActiveSegment).
LEMMA OpenSegmentKeepsWindow ==
    ASSUME SegmentInv, OpenSegment, clock' \in Nat
    PROVE  SegmentInv'
<1>1. /\ segments' \in Seq(Segment)
      /\ Len(segments') \in 1..MaxSegments
      /\ Numbered(segments', activeIndex')
      /\ segments'[Len(segments')].size < SegmentBytes
  BY OpenedWindow DEF OpenSegment, OpenedIndex
<1>2. activeIndex' \in Nat
  BY DEF SegmentInv, OpenSegment, OpenedIndex
<1> QED BY <1>1, <1>2, SizesAssumption DEF SegmentInv, SegmentWindow, Numbered

\* A caller put at a known place, and perhaps a known segment, has moved on.
LEMMA PlaceMovesOn ==
    ASSUME CallInv, NEW w \in Writers, NEW pc \in Pcs, NEW seg \in Nat,
           \/ call' = [call EXCEPT ![w].pc = pc]
           \/ call' = [call EXCEPT ![w].pc = pc, ![w].seg = seg]
    PROVE  MovedOn(w)
<1> DEFINE here == [call[w] EXCEPT !.pc = pc]
           there == [call[w] EXCEPT !.pc = pc, !.seg = seg]
<1>1. call[w] \in Call
  BY DEF CallInv
<1>2. here \in Call /\ here.lsn = call[w].lsn
  BY <1>1 DEF Call
<1>3. there \in Call /\ there.lsn = call[w].lsn
  BY <1>1 DEF Call
<1>4. \/ call' = [call EXCEPT ![w] = here]
      \/ call' = [call EXCEPT ![w] = there]
  BY DEF CallInv
<1> QED BY <1>2, <1>3, <1>4 DEF MovedOn

\* One turn of the trim loop brings a list at most one segment too long back
\* into the window (SegmentManager.trimWindow).
LEMMA TrimKeepsWindow ==
    ASSUME CallInv, NEW w \in Writers, NEW segs \in Seq(Segment), NEW last \in Nat,
           Numbered(segs, last), Len(segs) \in 1..(MaxSegments + 1),
           segs[Len(segs)].size < SegmentBytes,
           TrimInto(w, segs), activeIndex' = last, clock' \in Nat
    PROVE  SegmentInv' /\ MovedOn(w)
<1>1. MaxSegments \in Nat \ {0}
  BY SizesAssumption
<1>2. CASE Len(segs) > MaxSegments
  <2> DEFINE rest == Tail(segs)
  <2>1. segments' = rest /\ Len(segs) = MaxSegments + 1
    BY <1>1, <1>2 DEF TrimInto
  <2>2. /\ rest \in Seq(Segment)
        /\ Len(rest) = MaxSegments
        /\ \A k \in 1..MaxSegments : rest[k] = segs[k + 1]
    BY <1>1, <2>1
  <2>3. \A k \in 1..Len(rest) : rest[k].index = last - Len(rest) + k
    <3>1. \A k \in 1..(MaxSegments + 1) : segs[k].index = last - (MaxSegments + 1) + k
      BY <1>1, <2>1 DEF Numbered
    <3> HIDE DEF rest
    <3>2. ASSUME NEW k \in 1..MaxSegments PROVE rest[k].index = last - MaxSegments + k
      <4>1. k + 1 \in 1..(MaxSegments + 1) /\ last - (MaxSegments + 1) + (k + 1) = last - MaxSegments + k
        BY <1>1
      <4> QED
        BY <2>2, <3>1, <4>1
    <3> QED
      BY <2>2, <3>2
  <2>4. rest[Len(rest)].size < SegmentBytes
    BY <1>1, <2>1, <2>2
  <2>5. MovedOn(w)
    <3>1. Head(segs) \in Segment
      BY <1>1, <2>1
    <3>2. Head(segs).index \in Nat
      BY <3>1 DEF Segment
    <3>3. "trim" \in Pcs
      BY DEF Pcs
    <3>4. call' = [call EXCEPT ![w].pc = "trim", ![w].seg = Head(segs).index]
      BY <1>2 DEF TrimInto
    <3> QED BY <3>2, <3>3, <3>4, PlaceMovesOn
  <2> HIDE DEF rest
  <2> QED
    BY <1>1, <2>1, <2>2, <2>3, <2>4, <2>5 DEF SegmentInv, SegmentWindow
<1>3. CASE ~(Len(segs) > MaxSegments)
  <2>1. SegmentInv'
    BY <1>1, <1>3 DEF TrimInto, SegmentInv, SegmentWindow, Numbered
  <2>2. MovedOn(w)
    <3>1. "account" \in Pcs /\ 0 \in Nat /\ call' = [call EXCEPT ![w].pc = "account"]
      BY <1>3 DEF Pcs, TrimInto
    <3> QED BY <3>1, PlaceMovesOn
  <2> QED BY <2>1, <2>2
<1> QED BY <1>2, <1>3

\* recordWrite(): whether or not the active segment is full afterwards, the
\* window keeps its shape.
LEMMA RecordWriteKeepsWindow ==
    ASSUME SegmentInv, CallInv, NEW w \in Writers, RecordWrite(w)
    PROVE  SegmentInv' /\ MovedOn(w)
<1> DEFINE index == IF segments = <<>> THEN activeIndex + 1 ELSE activeIndex
           grown == Grown(call[w].size)
<1>1. /\ Opened \in Seq(Segment)
      /\ Len(Opened) \in 1..MaxSegments
      /\ Numbered(Opened, index)
      /\ Opened[Len(Opened)].size < SegmentBytes
      /\ Opened[Len(Opened)].index = index
  BY OpenedWindow DEF ActiveSegment
<1>2. /\ call[w].size \in Nat
      /\ index \in Nat
      /\ clock \in Nat /\ clock' = clock
  BY DEF CallInv, Call, SegmentInv, RecordWrite, envVars, OpenedIndex
<1>3. /\ grown \in Seq(Segment)
      /\ Len(grown) = Len(Opened)
      /\ Numbered(grown, index)
      /\ grown[Len(grown)].index = index
  <2>1. Len(Opened) \in 1..Len(Opened)
    BY <1>1
  <2>2. Opened[Len(Opened)] \in Segment
    <3> HIDE DEF grown
    <3> QED BY <1>1, <2>1
  <2>3. [Opened[Len(Opened)] EXCEPT !.size = @ + call[w].size] \in Segment
    <3> DEFINE last == Opened[Len(Opened)]
    <3>1. last \in Segment /\ call[w].size \in Nat
      BY <1>2, <2>2
    <3> HIDE DEF last
    <3>2. [last EXCEPT !.size = @ + call[w].size] \in Segment
      BY <3>1 DEF Segment
    <3> QED BY <3>2 DEF last
  <2>4. grown = [Opened EXCEPT ![Len(Opened)] =
                    [Opened[Len(Opened)] EXCEPT !.size = @ + call[w].size]]
    BY DEF Grown
  <2>5. grown \in Seq(Segment) /\ Len(grown) = Len(Opened)
    BY <1>1, <2>1, <2>3, <2>4
  <2>6. \A k \in 1..Len(Opened) : grown[k].index = Opened[k].index
    BY <1>1, <2>1, <2>4
  <2> HIDE DEF grown
  <2> QED BY <1>1, <2>1, <2>5, <2>6 DEF Numbered
<1> HIDE DEF index
<1>4. CASE IsFull(grown)
  <2> DEFINE longer == WithNewSegment(grown, index + 1)
  <2>1. TrimInto(w, longer) /\ activeIndex' = index + 1
    BY <1>4 DEF RecordWrite, OpenedIndex, index
  <2>2. /\ longer \in Seq(Segment)
        /\ Len(longer) = Len(grown) + 1
        /\ Numbered(longer, index + 1)
        /\ longer[Len(longer)].size = 0
    <3> HIDE DEF grown
    <3> QED BY <1>2, <1>3, NewSegmentNumbered
  <2>3. Len(longer) \in 1..(MaxSegments + 1) /\ longer[Len(longer)].size < SegmentBytes
    BY <1>1, <1>3, <2>2, SizesAssumption
  <2> HIDE DEF longer
  <2> QED BY <1>2, <2>1, <2>2, <2>3, TrimKeepsWindow
<1>5. CASE ~IsFull(grown)
  <2>1. /\ segments' = grown /\ activeIndex' = index
        /\ call' = [call EXCEPT ![w].pc = "account"]
    BY <1>5 DEF RecordWrite, OpenedIndex, index
  <2>2. grown[Len(grown)].size < SegmentBytes
    <3>1. grown[Len(grown)].size \in Nat
      <4> HIDE DEF grown
      <4>1. grown[Len(grown)] \in Segment
        BY <1>1, <1>3
      <4> QED BY <4>1 DEF Segment
    <3> QED BY <1>5, <3>1, SizesAssumption DEF IsFull
  <2> HIDE DEF grown
  <2>3. Len(grown) <= MaxSegments
    BY <1>1, <1>3, SizesAssumption
  <2>4. \A k \in 1..Len(grown) : grown[k].index = index - Len(grown) + k
    BY <1>3 DEF Numbered
  <2>5. SegmentInv'
    BY <1>2, <1>3, <2>1, <2>2, <2>3, <2>4 DEF SegmentInv, SegmentWindow
  <2>6. MovedOn(w)
    <3>1. "account" \in Pcs /\ 0 \in Nat
      BY DEF Pcs
    <3> QED BY <2>1, <3>1, PlaceMovesOn
  <2> QED BY <2>5, <2>6
<1> QED BY <1>4, <1>5

-----------------------------------------------------------------------------
(* The appends in progress *)

\* A caller that moves on within append() keeps its LSN.
LEMMA MovingOnKeepsCalls ==
    ASSUME CallInv, NEW w \in Writers, MovedOn(w), call[w].pc # "idle",
           UNCHANGED <<nextLsn, returned>>
    PROVE  CallInv'
<1>1. PICK c \in Call : c.lsn = call[w].lsn /\ call' = [call EXCEPT ![w] = c]
  BY DEF MovedOn
<1>2. call' \in [Writers -> Call]
  BY <1>1 DEF CallInv
<1>3. \A v \in Writers : call'[v].pc # "idle" =>
         call[v].pc # "idle" /\ call'[v].lsn = call[v].lsn
  BY <1>1 DEF CallInv
<1> QED BY <1>2, <1>3 DEF CallInv

\* A caller that is rejected gives its LSN up.
LEMMA RejectionKeepsCalls ==
    ASSUME CallInv, NEW w \in Writers, call' = [call EXCEPT ![w] = Idle],
           UNCHANGED <<nextLsn, returned>>
    PROVE  CallInv'
<1>1. call' \in [Writers -> Call]
  BY BoundsAssumption DEF CallInv, Call, Idle, Pcs
<1>2. \A v \in Writers : call'[v].pc # "idle" =>
         call[v].pc # "idle" /\ call'[v].lsn = call[v].lsn
  BY DEF CallInv, Idle
<1> QED BY <1>1, <1>2 DEF CallInv

\* A caller that returns leaves its LSN acknowledged, and no other call holds it.
LEMMA ReturnKeepsCalls ==
    ASSUME CallInv, NEW w \in Writers, call[w].pc # "idle",
           call' = [call EXCEPT ![w] = Idle],
           returned' = returned \union {call[w].lsn}, UNCHANGED nextLsn
    PROVE  CallInv'
<1>1. call' \in [Writers -> Call]
  BY BoundsAssumption DEF CallInv, Call, Idle, Pcs
<1>2. \A v \in Writers : call'[v].pc # "idle" =>
         v # w /\ call[v].pc # "idle" /\ call'[v].lsn = call[v].lsn
  BY DEF CallInv, Idle
<1>3. call[w].lsn \in 1..(nextLsn - 1)
  BY DEF CallInv
<1>4. \A v \in Writers : call'[v].pc # "idle" => call'[v].lsn # call[w].lsn
  BY <1>2 DEF CallInv
<1> QED BY <1>1, <1>2, <1>3, <1>4 DEF CallInv

\* A new call takes an LSN that nobody has used.
LEMMA BeginKeepsCalls ==
    ASSUME CallInv, NEW w \in Writers, NEW c \in Call,
           c.lsn = nextLsn, nextLsn <= MaxLsn, call' = [call EXCEPT ![w] = c],
           nextLsn' = nextLsn + 1, UNCHANGED returned
    PROVE  CallInv'
<1>1. call' \in [Writers -> Call]
  BY DEF CallInv
<1>2. nextLsn \in 1..MaxLsn /\ nextLsn' \in 1..(MaxLsn + 1)
  BY BoundsAssumption DEF CallInv
<1>3. returned \subseteq 1..(nextLsn - 1)
  BY DEF CallInv
<1>4. \A v \in Writers : v # w /\ call'[v].pc # "idle" =>
         call[v].pc # "idle" /\ call'[v].lsn = call[v].lsn
  BY DEF CallInv
<1>5. call'[w].lsn = nextLsn
  BY DEF CallInv
<1>6. \A v \in Writers : call'[v].pc # "idle" => call'[v].lsn \in 1..(nextLsn' - 1) \ returned
  <2> SUFFICES ASSUME NEW v \in Writers, call'[v].pc # "idle"
               PROVE  call'[v].lsn \in 1..(nextLsn' - 1) \ returned
    OBVIOUS
  <2>1. CASE v = w
    BY <1>2, <1>3, <1>5, <2>1
  <2>2. CASE v # w
    BY <1>2, <1>4, <2>2 DEF CallInv
  <2> QED BY <2>1, <2>2
<1>7. \A u, v \in Writers :
         u # v /\ call'[u].pc # "idle" /\ call'[v].pc # "idle" => call'[u].lsn # call'[v].lsn
  <2> SUFFICES ASSUME NEW u \in Writers, NEW v \in Writers,
                      u # v, call'[u].pc # "idle", call'[v].pc # "idle"
               PROVE  call'[u].lsn # call'[v].lsn
    OBVIOUS
  <2>1. \A x \in Writers : x # w /\ call'[x].pc # "idle" => call'[x].lsn \in 1..(nextLsn - 1)
    BY <1>4 DEF CallInv
  <2>2. CASE u = w
    BY <1>2, <1>5, <2>1, <2>2
  <2>3. CASE v = w
    BY <1>2, <1>5, <2>1, <2>3
  <2>4. CASE u # w /\ v # w
    BY <1>4, <2>4 DEF CallInv
  <2> QED BY <2>2, <2>3, <2>4
<1> QED BY <1>1, <1>2, <1>3, <1>6, <1>7 DEF CallInv

-----------------------------------------------------------------------------
(* The mark *)

\* What a step may do to the mark in the abstract log.
MarkMoved == watermark' = watermark \/ (watermark' \in returned' /\ watermark' > watermark)

\* Acknowledging the record that returns keeps both mark fields on returned
\* records (AckWatermark.acknowledge).
LEMMA AcknowledgeKeepsMark ==
    ASSUME MarkInv, NEW lsn \in Nat \ {0}, Mark!Acknowledge(lsn),
           returned' = returned \union {lsn}
    PROVE  MarkInv' /\ MarkMoved
<1> USE SizesAssumption
    DEF MarkInv, MarkMoved, MarkNamesReturnedRecord, Mark!Acknowledge, Mark!AdvanceTo, Mark!Higher
<1>1. CASE lsn <= watermark
  BY <1>1
<1>2. CASE lsn > watermark
  <2>1. pendingLsn' \in {pendingLsn, lsn} /\ watermark' \in {watermark, pendingLsn, lsn}
    BY <1>2
  <2>2. pendingCount' \in Nat
    BY <1>2
  <2>3. watermark' = watermark \/ watermark' > watermark
    BY <1>2
  <2>4. watermark' > watermark => watermark' # 0
    BY <2>1
  <2> QED BY <2>1, <2>2, <2>3, <2>4
<1> QED BY <1>1, <1>2

\* The timer takes the mark to the pending LSN or leaves it.
LEMMA TimerKeepsMark ==
    ASSUME MarkInv, Mark!TimerTick, UNCHANGED returned
    PROVE  MarkInv' /\ MarkMoved
BY DEF MarkInv, MarkMoved, MarkNamesReturnedRecord, Mark!TimerTick, Mark!AdvanceTo

\* Freezing touches neither field.
LEMMA FreezeKeepsMark ==
    ASSUME MarkInv, NEW active, Mark!SetFrozen(active), UNCHANGED returned
    PROVE  MarkInv' /\ UNCHANGED <<watermark, returned>>
BY DEF MarkInv, MarkNamesReturnedRecord, Mark!SetFrozen

-----------------------------------------------------------------------------
(* One lemma for each action that is more than a change of place in append() *)

\* What a step of the code is in the abstract log.
AbstractStep == [Abstract!AckedNext]_(Abstract!ackedVars)

\* A step that leaves the acknowledged records and the mark alone is a stutter.
LEMMA QuietStep ==
    ASSUME UNCHANGED <<watermark, returned>>
    PROVE  AbstractStep
BY DEF AbstractStep, Abstract!ackedVars

\* The mark's own variables alone decide MarkInv, with the returned records.
LEMMA UntouchedMark ==
    ASSUME MarkInv, UNCHANGED markVars, UNCHANGED returned
    PROVE  MarkInv' /\ AbstractStep
BY QuietStep DEF MarkInv, MarkNamesReturnedRecord, markVars

\* Returning true: the record was not acknowledged before, so this is Ack.
LEMMA ReturnStep ==
    ASSUME CallInv, MarkInv, NEW w \in Writers, call[w].pc # "idle", Return(w),
           UNCHANGED nextLsn
    PROVE  CallInv' /\ MarkInv' /\ AbstractStep
<1>1. call[w].lsn \in 1..MaxLsn /\ call[w].lsn \notin returned
  BY BoundsAssumption DEF CallInv
<1>2. CallInv'
  BY ReturnKeepsCalls DEF Return
<1>3. MarkInv' /\ MarkMoved
  <2>1. call[w].lsn \in Nat \ {0}
    BY <1>1, BoundsAssumption
  <2> QED BY <2>1, AcknowledgeKeepsMark DEF Return
<1>4. AbstractStep
  BY <1>1, <1>3 DEF AbstractStep, MarkMoved, Return, Abstract!AckedNext, Abstract!Ack,
     Abstract!MarkMoves
<1> QED BY <1>2, <1>3, <1>4

\* The window's own variables alone decide SegmentInv.
LEMMA UntouchedWindow ==
    ASSUME SegmentInv, UNCHANGED segmentVars, clock' \in Nat
    PROVE  SegmentInv'
BY DEF SegmentInv, SegmentWindow, segmentVars

\* getActiveSegment() returns an index a call may carry.
LEMMA ActiveSegmentIsNat ==
    ASSUME SegmentInv
    PROVE  ActiveSegment \in Nat
<1>1. activeIndex \in Nat /\ activeIndex + 1 \in Nat
  BY DEF SegmentInv
<1> QED BY <1>1, OpenedWindow

\* append() up to its first await.
LEMMA BeginAppendStep ==
    ASSUME SegmentInv, CallInv, NEW w \in Writers, BeginAppend(w)
    PROVE  SegmentInv' /\ CallInv'
<1>1. SegmentInv'
  BY OpenSegmentKeepsWindow DEF SegmentInv, BeginAppend, envVars
<1>2. PICK payload \in Payloads :
         call' = [call EXCEPT ![w] = [pc |-> "write", lsn |-> nextLsn,
                                      size |-> payload + HeaderBytes, seg |-> ActiveSegment]]
  BY DEF BeginAppend
<1> DEFINE c == [pc |-> "write", lsn |-> nextLsn, size |-> payload + HeaderBytes,
                 seg |-> ActiveSegment]
<1>3. payload + HeaderBytes \in Nat
  BY SizesAssumption
<1>4. nextLsn \in 0..MaxLsn
  BY BoundsAssumption DEF CallInv, BeginAppend
<1>5. c \in Call
  BY <1>3, <1>4, ActiveSegmentIsNat DEF Call, Pcs
<1>6. CallInv'
  BY <1>2, <1>5, BeginKeepsCalls DEF BeginAppend
<1> QED BY <1>1, <1>6

\* recordWrite() and the first turn of trimWindow(): the caller moves on, and the
\* window keeps its shape.
LEMMA RecordWriteStep ==
    ASSUME SegmentInv, CallInv, NEW w \in Writers, RecordWrite(w)
    PROVE  SegmentInv' /\ CallInv'
<1>1. SegmentInv' /\ MovedOn(w)
  BY RecordWriteKeepsWindow
<1>2. CallInv'
  BY <1>1, MovingOnKeepsCalls DEF RecordWrite
<1> QED BY <1>1, <1>2

\* The later turns of trimWindow(): with the window in shape there is nothing
\* left to trim, so the loop ends here.
LEMMA TrimFileStep ==
    ASSUME SegmentInv, CallInv, NEW w \in Writers, TrimFile(w)
    PROVE  SegmentInv' /\ CallInv'
<1>1. SegmentInv' /\ MovedOn(w)
  <2> DEFINE index == IF segments = <<>> THEN activeIndex + 1 ELSE activeIndex
  <2>1. /\ Opened \in Seq(Segment)
        /\ Len(Opened) \in 1..MaxSegments
        /\ Numbered(Opened, index)
        /\ Opened[Len(Opened)].size < SegmentBytes
    BY OpenedWindow
  <2>2. Len(Opened) \in 1..(MaxSegments + 1)
    BY <2>1, SizesAssumption
  <2>3. index \in Nat /\ clock' \in Nat
    BY DEF SegmentInv, TrimFile, envVars
  <2>4. TrimInto(w, Opened) /\ activeIndex' = index
    BY DEF TrimFile, OpenedIndex
  <2> HIDE DEF index
  <2> QED BY <2>1, <2>2, <2>3, <2>4, TrimKeepsWindow
<1>2. CallInv'
  BY <1>1, MovingOnKeepsCalls DEF TrimFile
<1> QED BY <1>1, <1>2

\* Account: return at once, or go on to flush() with the active segment.
LEMMA AccountStep ==
    ASSUME SegmentInv, CallInv, NEW w \in Writers, Account(w)
    PROVE  SegmentInv' /\ CallInv'
<1>1. CASE unflushed' >= FlushThreshold
  <2>1. OpenSegment /\ UNCHANGED returned
    BY <1>1 DEF Account
  <2>2. SegmentInv'
    BY <2>1, OpenSegmentKeepsWindow DEF SegmentInv, Account, envVars
  <2>3. call' = [call EXCEPT ![w].pc = "fsync", ![w].seg = ActiveSegment]
    BY <1>1 DEF Account
  <2>4. "fsync" \in Pcs
    BY DEF Pcs
  <2>5. MovedOn(w)
    BY <2>3, <2>4, ActiveSegmentIsNat, PlaceMovesOn
  <2>6. CallInv'
    BY <2>1, <2>5, MovingOnKeepsCalls DEF Account
  <2> QED BY <2>2, <2>6
<1>2. CASE ~(unflushed' >= FlushThreshold)
  <2>1. Return(w) /\ UNCHANGED segmentVars
    BY <1>2 DEF Account
  <2>2. SegmentInv'
    BY <2>1, UntouchedWindow DEF SegmentInv, Account, envVars
  <2>3. CallInv'
    BY <2>1, ReturnKeepsCalls DEF Return, Account
  <2> QED BY <2>2, <2>3
<1> QED BY <1>1, <1>2

\* The file operations, and their failures, do not touch the window.
LEMMA FileStep ==
    ASSUME SegmentInv, CallInv, NEW w \in Writers,
           WriteFrame(w) \/ Fsync(w) \/ RejectAppend(w)
    PROVE  SegmentInv' /\ CallInv'
<1>1. SegmentInv'
  BY UntouchedWindow DEF SegmentInv, WriteFrame, Fsync, RejectAppend, envVars
<1>2. CASE WriteFrame(w)
  <2>1. "record" \in Pcs /\ 0 \in Nat /\ call' = [call EXCEPT ![w].pc = "record"]
    BY <1>2 DEF WriteFrame, Pcs
  <2>2. MovedOn(w)
    BY <2>1, PlaceMovesOn
  <2>3. CallInv'
    BY <1>2, <2>2, MovingOnKeepsCalls DEF WriteFrame
  <2> QED BY <1>1, <2>3
<1>3. CASE Fsync(w)
  <2>1. "flushed" \in Pcs /\ 0 \in Nat /\ call' = [call EXCEPT ![w].pc = "flushed"]
    BY <1>3 DEF Fsync, Pcs
  <2>2. MovedOn(w)
    BY <2>1, PlaceMovesOn
  <2>3. CallInv'
    BY <1>3, <2>2, MovingOnKeepsCalls DEF Fsync
  <2> QED BY <1>1, <2>3
<1>4. CASE RejectAppend(w)
  <2>1. CallInv'
    BY <1>4, RejectionKeepsCalls DEF RejectAppend
  <2> QED BY <1>1, <2>1
<1> QED BY <1>2, <1>3, <1>4

\* Every step of append(), with or without the throttle.
LEMMA AppendWindow ==
    ASSUME SegmentInv, CallInv, NEW w \in Writers, AppendStep(w)
    PROVE  SegmentInv' /\ CallInv'
<1>1. CASE RefuseAppend(w)
  <2>1. SegmentInv'
    BY <1>1, UntouchedWindow DEF SegmentInv, RefuseAppend, envVars
  <2>2. CallInv'
    BY <1>1 DEF CallInv, RefuseAppend
  <2> QED BY <2>1, <2>2
<1>2. CASE Flushed(w)
  <2>1. SegmentInv'
    BY <1>2, UntouchedWindow DEF SegmentInv, Flushed, envVars
  <2>2. CallInv'
    BY <1>2, ReturnKeepsCalls DEF Flushed, Return
  <2> QED BY <2>1, <2>2
<1> QED
  BY <1>1, <1>2, BeginAppendStep, RecordWriteStep, TrimFileStep, AccountStep, FileStep
  DEF AppendStep

\* The steps in which no append takes part.
LEMMA OtherWindow ==
    ASSUME SegmentInv, CallInv,
           \/ \E s \in Switchers : SwitchStep(s)
           \/ LeavePartition \/ MarkTimer \/ Tick \/ UNCHANGED walVars
    PROVE  SegmentInv' /\ CallInv'
<1>1. UNCHANGED <<call, nextLsn, returned>>
  BY DEF SwitchStep, EnterPartition, SwitchFsync, SwitchFlushed, RejectSwitch, LeavePartition,
     MarkTimer, Tick, walVars
<1>2. CallInv'
  BY <1>1 DEF CallInv
<1>3. clock' \in Nat
  <2>1. clock \in Nat
    BY DEF SegmentInv
  <2>2. clock' = clock \/ clock' = clock + 1
    BY DEF SwitchStep, EnterPartition, SwitchFsync, SwitchFlushed, RejectSwitch, LeavePartition,
       MarkTimer, Tick, walVars, envVars
  <2> QED BY <2>1, <2>2
<1>4. OpenSegment \/ UNCHANGED segmentVars
  BY DEF SwitchStep, EnterPartition, SwitchFsync, SwitchFlushed, RejectSwitch, LeavePartition,
     MarkTimer, Tick, walVars
<1>5. SegmentInv'
  BY <1>3, <1>4, OpenSegmentKeepsWindow, UntouchedWindow
<1> QED BY <1>2, <1>5

-----------------------------------------------------------------------------
(* The theorems *)

\* What an append does to the mark, if anything, is to acknowledge its record.
LEMMA AppendMark ==
    ASSUME CallInv, MarkInv, NEW w \in Writers, AppendStep(w)
    PROVE  MarkInv' /\ AbstractStep
<1>1. CASE UNCHANGED markVars /\ UNCHANGED returned
  BY <1>1, UntouchedMark
<1>2. CASE Return(w) /\ call[w].pc # "idle" /\ UNCHANGED nextLsn
  BY <1>2, ReturnStep
<1> QED
  BY <1>1, <1>2 DEF AppendStep, RefuseAppend, BeginAppend, WriteFrame, RecordWrite, TrimFile,
     Account, Fsync, Flushed, RejectAppend

\* Switches freeze and unfreeze the mark, and the timer moves it to the pending LSN.
LEMMA OtherMark ==
    ASSUME MarkInv,
           \/ \E s \in Switchers : SwitchStep(s)
           \/ LeavePartition \/ MarkTimer \/ Tick \/ UNCHANGED walVars
    PROVE  MarkInv' /\ AbstractStep
<1>1. UNCHANGED returned
  BY DEF SwitchStep, EnterPartition, SwitchFsync, SwitchFlushed, RejectSwitch, LeavePartition,
     MarkTimer, Tick, walVars
<1>2. CASE UNCHANGED markVars
  BY <1>1, <1>2, UntouchedMark
<1>3. CASE Mark!SetFrozen(TRUE) \/ Mark!SetFrozen(FALSE)
  BY <1>1, <1>3, FreezeKeepsMark, QuietStep
<1>4. CASE MarkTimer
  <2>1. Mark!TimerTick /\ MarkInv' /\ MarkMoved
    BY <1>1, <1>4, TimerKeepsMark DEF MarkTimer
  <2> QED
    BY <1>1, <2>1 DEF AbstractStep, MarkMoved, Abstract!AckedNext, Abstract!Advance,
       Abstract!MarkMoves, Abstract!ackedVars
<1> QED
  BY <1>2, <1>3, <1>4 DEF SwitchStep, EnterPartition, SwitchFsync, SwitchFlushed, RejectSwitch,
     LeavePartition, Tick, walVars

\* A crash resets everything the invariant speaks of, except what was acknowledged.
LEMMA CrashStep ==
    ASSUME WalInv, Crash
    PROVE  WalInv' /\ AbstractStep
<1>1. SegmentInv'
  <2>1. segments' = <<>> /\ activeIndex' = 0 /\ clock' = clock
    BY DEF Crash
  <2>2. clock \in Nat
    BY DEF WalInv, SegmentInv
  <2> QED BY <2>1, <2>2, SizesAssumption DEF SegmentInv, SegmentWindow
<1>2. CallInv'
  <2>1. call' = [w \in Writers |-> Idle] /\ UNCHANGED <<nextLsn, returned>>
    BY DEF Crash
  <2>2. Idle \in Call
    BY BoundsAssumption DEF Idle, Call, Pcs
  <2>3. \A w \in Writers : call'[w].pc = "idle"
    BY <2>1 DEF Idle
  <2> QED BY <2>1, <2>2, <2>3 DEF WalInv, CallInv
<1>3. MarkInv'
  BY DEF Crash, MarkInv, MarkNamesReturnedRecord
<1>4. AbstractStep
  BY DEF Crash, AbstractStep, Abstract!AckedNext, Abstract!Restart
<1> QED BY <1>1, <1>2, <1>3, <1>4 DEF WalInv

\* Every step keeps the invariant and is a step of the abstract log or a stutter.
LEMMA WalInvStep == ASSUME WalInv, [WalNext]_walVars PROVE WalInv' /\ AbstractStep
<1>1. CASE \E w \in Writers : AppendStep(w)
  BY <1>1, AppendWindow, AppendMark DEF WalInv
<1>2. CASE Crash
  BY <1>2, CrashStep
<1>3. CASE \/ \E s \in Switchers : SwitchStep(s)
           \/ LeavePartition \/ MarkTimer \/ Tick \/ UNCHANGED walVars
  BY <1>3, OtherWindow, OtherMark DEF WalInv
<1> QED BY <1>1, <1>2, <1>3 DEF WalNext

\* The constructors establish the invariant.
LEMMA WalInitInv == WalInit => WalInv
<1> SUFFICES ASSUME WalInit PROVE WalInv
  OBVIOUS
<1>1. SegmentInv
  BY SizesAssumption DEF WalInit, SegmentInv, SegmentWindow
<1>2. CallInv
  <2>1. Idle \in Call /\ Idle.pc = "idle"
    BY BoundsAssumption DEF Idle, Call, Pcs
  <2>2. nextLsn \in 1..(MaxLsn + 1) /\ returned \subseteq 1..(nextLsn - 1)
    BY BoundsAssumption DEF WalInit
  <2> QED BY <2>1, <2>2 DEF WalInit, CallInv
<1>3. MarkInv
  BY DEF WalInit, Mark!WatermarkInit, MarkInv, MarkNamesReturnedRecord
<1> QED BY <1>1, <1>2, <1>3 DEF WalInv

\* The inductive invariant holds throughout.
LEMMA WalInvariance == WalSpec => []WalInv
<1>1. WalInv /\ [WalNext]_walVars => WalInv'
  BY WalInvStep
<1> QED BY <1>1, WalInitInv, PTL DEF WalSpec

\* The window of segments never exceeds the quota, has no gap and ends in a
\* segment with room, whatever appends, rotations, trims and crashes overlap
\* (recordWrite, rotate, trimWindow).
THEOREM WindowKeepsItsShape == WalSpec => []SegmentWindow
BY WalInvariance, PTL DEF WalInv, SegmentInv

\* Neither the watermark nor what it is about to move to ever names a record
\* whose append() is in progress, was refused or failed (append, acknowledge).
THEOREM MarkNamesReturned == WalSpec => []MarkNamesReturnedRecord
BY WalInvariance, PTL DEF WalInv, MarkInv

\* The log implements the abstract AckedLog: every step of the code is an
\* acknowledgement, an advance of the mark, a restart, or invisible.
THEOREM LogImplementsAckedLog == WalSpec => LogPromise
<1>1. WalInit => Abstract!AckedInit
  BY DEF WalInit, Mark!WatermarkInit, Abstract!AckedInit
<1>2. WalInv /\ [WalNext]_walVars => [Abstract!AckedNext]_(Abstract!ackedVars)
  BY WalInvStep DEF AbstractStep
<1> QED BY <1>1, <1>2, WalInvariance, PTL DEF WalSpec, LogPromise, Abstract!AckedSpec

-----------------------------------------------------------------------------
(* The throttle: how far the count of a minute overshoots the budget *)

\* The appends whose frames are not counted yet.
InFlight == {w \in Writers : call[w].pc \in {"write", "record", "trim", "account"}}

\* When they are all counted the bound still holds: one of them with its own size,
\* every other with the longest frame.
HasRoom ==
    InFlight # {} =>
        \E w \in InFlight :
            windowBytes + call[w].size + (Cardinality(InFlight) - 1) * MaxFrame <= SpendingBound

\* No switch is under way, and none left the count of an earlier partition.
CountReset == ~resetMissed /\ \A s \in Switchers : switch[s].pc = "idle"

ThrottleInv ==
    /\ windowBytes \in Nat
    /\ DOMAIN switch = Switchers
    /\ \A w \in InFlight : call[w].size <= MaxFrame
    /\ CountReset => windowBytes <= SpendingBound /\ (partitionMode => HasRoom)

\* The bound has room for one frame checked against the budget and for the longest
\* frame of every other append, and for the longest frames of all (append).
LEMMA BoundHasRoom ==
    /\ MaxPayload \in Nat /\ MaxFrame \in Nat /\ SpendingBound \in Int
    /\ \A p \in Payloads : p <= MaxPayload
    /\ Cardinality(Writers) \in Nat
    /\ \A k \in 1..Cardinality(Writers) :
          /\ ThrottleBytes + HeaderBytes + (k - 1) * MaxFrame <= SpendingBound
          /\ MaxFrame + (k - 1) * MaxFrame <= SpendingBound
    /\ 0 <= SpendingBound
<1> DEFINE n == Cardinality(Writers)
<1>1. MaxPayload \in Payloads /\ \A p \in Payloads : p <= MaxPayload
  BY PayloadsAssumption DEF MaxPayload
<1>2. /\ MaxPayload \in Nat /\ MaxFrame \in Nat /\ MaxFrame = HeaderBytes + MaxPayload
      /\ HeaderBytes \in Nat /\ ThrottleBytes \in Nat
  BY <1>1, SizesAssumption DEF MaxFrame
<1>3. n \in Nat
  BY WritersAssumption, FS_CardinalityType
<1> DEFINE longest == Mark!Higher(ThrottleBytes, MaxPayload)
<1>4. longest \in Nat /\ ThrottleBytes <= longest /\ MaxPayload <= longest
  BY <1>2 DEF Mark!Higher
<1>5. SpendingBound = longest + HeaderBytes + (n - 1) * MaxFrame
  BY DEF SpendingBound
<1> HIDE DEF n, longest
<1>6. (n - 1) * MaxFrame \in Int
  BY <1>2, <1>3
<1>7. ASSUME NEW k \in 1..n
      PROVE  (k - 1) * MaxFrame \in Int /\ (k - 1) * MaxFrame <= (n - 1) * MaxFrame
  <2>1. PICK d \in Nat : n - 1 = (k - 1) + d
    <3>1. n - k \in Nat /\ n - 1 = (k - 1) + (n - k)
      BY <1>3
    <3> QED BY <3>1
  <2>2. (n - 1) * MaxFrame = (k - 1) * MaxFrame + d * MaxFrame
    BY <1>2, <1>3, <2>1
  <2>3. d * MaxFrame \in Nat /\ (k - 1) * MaxFrame \in Int
    BY <1>2, <1>3
  <2> QED BY <1>6, <2>2, <2>3
<1>8. ASSUME NEW k \in 1..n
      PROVE  /\ ThrottleBytes + HeaderBytes + (k - 1) * MaxFrame <= SpendingBound
             /\ MaxFrame + (k - 1) * MaxFrame <= SpendingBound
  BY <1>2, <1>4, <1>5, <1>6, <1>7
<1>9. 0 <= SpendingBound
  <2>1. CASE n = 0
    <3>1. (n - 1) * MaxFrame = 0 - MaxFrame
      BY <1>2, <2>1
    <3> QED BY <1>2, <1>4, <1>5, <3>1
  <2>2. CASE n # 0
    <3>1. (n - 1) * MaxFrame \in Nat
      BY <1>2, <1>3, <2>2
    <3> QED BY <1>2, <1>4, <1>5, <3>1
  <2> QED BY <2>1, <2>2
<1> QED BY <1>1, <1>2, <1>3, <1>4, <1>5, <1>6, <1>8, <1>9 DEF n

\* The appends in flight are counted by a number within the writers'.
LEMMA FlightIsFinite ==
    /\ IsFiniteSet(InFlight)
    /\ Cardinality(InFlight) \in 0..Cardinality(Writers)
    /\ InFlight # {} => Cardinality(InFlight) \in 1..Cardinality(Writers)
<1>1. InFlight \subseteq Writers
  BY DEF InFlight
<1>2. IsFiniteSet(InFlight) /\ Cardinality(InFlight) <= Cardinality(Writers)
  BY <1>1, WritersAssumption, FS_Subset
<1>3. Cardinality(InFlight) \in Nat /\ Cardinality(Writers) \in Nat
  BY <1>2, WritersAssumption, FS_CardinalityType
<1>4. InFlight # {} => Cardinality(InFlight) # 0
  BY <1>2, FS_EmptySet
<1> QED BY <1>2, <1>3, <1>4

\* The same of the next state.
LEMMA FlightIsFiniteNext ==
    /\ IsFiniteSet(InFlight')
    /\ Cardinality(InFlight') \in 0..Cardinality(Writers)
    /\ InFlight' # {} => Cardinality(InFlight') \in 1..Cardinality(Writers)
<1>1. InFlight' \subseteq Writers
  BY DEF InFlight
<1>2. IsFiniteSet(InFlight') /\ Cardinality(InFlight') <= Cardinality(Writers)
  BY <1>1, WritersAssumption, FS_Subset
<1>3. Cardinality(InFlight') \in Nat /\ Cardinality(Writers) \in Nat
  BY <1>2, WritersAssumption, FS_CardinalityType
<1>4. InFlight' # {} => Cardinality(InFlight') # 0
  BY <1>2, FS_EmptySet
<1> QED BY <1>2, <1>3, <1>4

\* An append that ends, counted or not, leaves room for the others (append).
LEMMA LeavingKeepsRoom ==
    ASSUME call \in [Writers -> Call], windowBytes \in Nat, HasRoom, windowBytes <= SpendingBound,
           \A v \in InFlight : call[v].size <= MaxFrame,
           NEW w \in InFlight, InFlight' = InFlight \ {w},
           \A v \in InFlight' : call'[v].size = call[v].size,
           windowBytes' \in {windowBytes, windowBytes + call[w].size}
    PROVE  windowBytes' <= SpendingBound /\ HasRoom'
<1> DEFINE n == Cardinality(InFlight)
<1>1. PICK u \in InFlight : windowBytes + call[u].size + (n - 1) * MaxFrame <= SpendingBound
  BY DEF HasRoom
<1>2. /\ MaxFrame \in Nat /\ SpendingBound \in Int
      /\ n \in Nat \ {0} /\ Cardinality(Writers) \in Nat
  BY BoundHasRoom, FlightIsFinite
<1>3. Cardinality(InFlight') = n - 1
  BY FlightIsFinite, FS_RemoveElement
<1>4. \A v \in InFlight : call[v].size \in Nat
  BY DEF InFlight, Call
<1> HIDE DEF n
<1>5. (n - 1) * MaxFrame \in Nat
  BY <1>2
<1>6. windowBytes' <= SpendingBound
  <2>1. CASE u = w
    BY <1>1, <1>2, <1>4, <1>5, <2>1
  <2>2. CASE u # w
    <3>1. n # 1
      <4>1. InFlight' # {}
        BY <2>2
      <4>2. Cardinality(InFlight') # 0
        BY <4>1, FlightIsFiniteNext
      <4> QED BY <1>2, <1>3, <4>2
    <3>2. (n - 1) * MaxFrame = (n - 2) * MaxFrame + MaxFrame /\ (n - 2) * MaxFrame \in Nat
      BY <1>2, <3>1
    <3>3. call[u].size \in Nat /\ call[w].size \in Nat /\ call[w].size <= MaxFrame
      BY <1>4
    <3> HIDE DEF HasRoom
    <3> QED BY <1>1, <1>2, <3>2, <3>3
  <2> QED BY <2>1, <2>2
<1>7. ASSUME InFlight' # {}
      PROVE  \E v \in InFlight' :
                windowBytes' + call'[v].size + (Cardinality(InFlight') - 1) * MaxFrame <= SpendingBound
  <2>1. PICK v \in InFlight' : u # w => v = u
    BY <1>7
  <2>2. v \in InFlight /\ call'[v].size = call[v].size
    BY <2>1
  <2>3. n - 1 # 0
    BY <1>2, <1>3, <1>7, FlightIsFiniteNext
  <2>4. (n - 1) * MaxFrame = ((n - 1) - 1) * MaxFrame + MaxFrame
        /\ ((n - 1) - 1) * MaxFrame \in Nat
    BY <1>2, <2>3
  <2>5. windowBytes' + call[v].size <= windowBytes + call[u].size + MaxFrame
    <3>1. call[u].size \in Nat /\ call[v].size \in Nat /\ call[w].size \in Nat
      BY <1>1, <1>4, <2>2
    <3>2. call[v].size <= MaxFrame /\ call[w].size <= MaxFrame
      BY <2>2
    <3>3. u = w \/ v = u
      BY <2>1
    <3> QED BY <1>2, <3>1, <3>2, <3>3
  <2>6. windowBytes' + call[v].size + ((n - 1) - 1) * MaxFrame <= SpendingBound
    BY <1>1, <1>2, <1>4, <2>2, <2>4, <2>5
  <2> QED BY <1>3, <2>1, <2>2, <2>6
<1> QED BY <1>6, <1>7 DEF HasRoom


\* An append that begins within the budget takes the last place the bound has
\* (append).
LEMMA BeginningKeepsRoom ==
    ASSUME call \in [Writers -> Call], NEW w \in Writers, w \notin InFlight,
           InFlight' = InFlight \union {w}, NEW payload \in Payloads,
           call'[w].size = payload + HeaderBytes, windowBytes' \in Nat,
           windowBytes' + payload <= ThrottleBytes
    PROVE  HasRoom'
<1> DEFINE n == Cardinality(InFlight)
<1>1. n \in Nat /\ Cardinality(InFlight') = n + 1 /\ n + 1 \in 1..Cardinality(Writers)
  <2>1. n \in Nat /\ Cardinality(Writers) \in Nat
    BY FlightIsFinite, BoundHasRoom
  <2>2. Cardinality(InFlight') = n + 1
    BY FlightIsFinite, FS_AddElement
  <2> QED BY <2>1, <2>2, FlightIsFiniteNext
<1> HIDE DEF n
<1>2. ThrottleBytes + HeaderBytes + ((n + 1) - 1) * MaxFrame <= SpendingBound
  BY <1>1, BoundHasRoom
<1>3. /\ ThrottleBytes \in Nat /\ HeaderBytes \in Nat /\ payload \in Nat
      /\ ((n + 1) - 1) * MaxFrame \in Nat /\ SpendingBound \in Int
  BY <1>1, BoundHasRoom, SizesAssumption
<1>4. windowBytes' + (payload + HeaderBytes) + ((n + 1) - 1) * MaxFrame <= SpendingBound
  BY <1>2, <1>3
<1>5. w \in InFlight'
  OBVIOUS
<1> QED BY <1>1, <1>4, <1>5 DEF HasRoom

\* With nothing counted there is room for every append in flight (setPartitionMode).
LEMMA ResetMakesRoom ==
    ASSUME call \in [Writers -> Call], \A w \in InFlight : call[w].size <= MaxFrame,
           InFlight' = InFlight, call' = call, windowBytes' = 0
    PROVE  windowBytes' <= SpendingBound /\ HasRoom'
<1>1. windowBytes' <= SpendingBound
  BY BoundHasRoom
<1>2. ASSUME InFlight # {}
      PROVE  \E w \in InFlight :
                0 + call[w].size + (Cardinality(InFlight) - 1) * MaxFrame <= SpendingBound
  <2> DEFINE n == Cardinality(InFlight)
  <2>1. PICK w \in InFlight : TRUE
    BY <1>2
  <2>2. n \in 1..Cardinality(Writers) /\ MaxFrame \in Nat /\ SpendingBound \in Int
        /\ Cardinality(Writers) \in Nat
    BY <1>2, FlightIsFinite, BoundHasRoom
  <2> HIDE DEF n
  <2>3. MaxFrame + (n - 1) * MaxFrame <= SpendingBound /\ (n - 1) * MaxFrame \in Nat
    BY <2>2, BoundHasRoom
  <2>4. call[w].size \in Nat /\ call[w].size <= MaxFrame
    BY DEF InFlight, Call
  <2>5. 0 + call[w].size + (n - 1) * MaxFrame <= SpendingBound
    BY <2>2, <2>3, <2>4
  <2> QED BY <2>5 DEF n
<1> QED BY <1>1, <1>2 DEF HasRoom

\* Steps that leave the appends in flight, add nothing to the count and neither
\* enter partition mode nor end a switch.
LEMMA QuietThrottle ==
    ASSUME ThrottleInv, call \in [Writers -> Call], InFlight' = InFlight,
           \A w \in InFlight : call'[w].size = call[w].size,
           windowBytes' \in Nat, windowBytes' <= windowBytes,
           partitionMode' => partitionMode, DOMAIN switch' = Switchers,
           CountReset' => CountReset
    PROVE  ThrottleInv'
<1>1. \A w \in InFlight' : call'[w].size <= MaxFrame
  BY DEF ThrottleInv
<1>2. ASSUME CountReset'
      PROVE  windowBytes' <= SpendingBound /\ (partitionMode' => HasRoom')
  <2>1. windowBytes <= SpendingBound /\ (partitionMode => HasRoom)
    BY <1>2 DEF ThrottleInv
  <2>2. windowBytes \in Nat /\ SpendingBound \in Int
    BY BoundHasRoom DEF ThrottleInv
  <2>3. ASSUME HasRoom, InFlight # {}
        PROVE  \E w \in InFlight :
                  windowBytes' + call'[w].size + (Cardinality(InFlight) - 1) * MaxFrame
                      <= SpendingBound
    <3>1. PICK w \in InFlight :
             windowBytes + call[w].size + (Cardinality(InFlight) - 1) * MaxFrame <= SpendingBound
      BY <2>3 DEF HasRoom
    <3> DEFINE rest == (Cardinality(InFlight) - 1) * MaxFrame
    <3>2. rest \in Nat
      BY <2>3, FlightIsFinite, BoundHasRoom
    <3>3. call'[w].size = call[w].size /\ call[w].size \in Nat
      BY DEF InFlight, Call
    <3> HIDE DEF rest
    <3>4. windowBytes + call[w].size + rest <= SpendingBound
      BY <3>1 DEF rest
    <3>5. windowBytes' + call'[w].size + rest <= SpendingBound
      BY <2>2, <3>2, <3>3, <3>4
    <3> QED BY <3>5 DEF rest
  <2>4. HasRoom => HasRoom'
    BY <2>3 DEF HasRoom
  <2> QED BY <2>1, <2>2, <2>4
<1> QED BY <1>1, <1>2 DEF ThrottleInv

\* How a step of writer w changes the appends in flight.
LEMMA FlightMoves ==
    ASSUME call \in [Writers -> Call], NEW w \in Writers, NEW c,
           call' = [call EXCEPT ![w] = c]
    PROVE  /\ InFlight' = IF c.pc \in {"write", "record", "trim", "account"}
                          THEN InFlight \union {w} ELSE InFlight \ {w}
           /\ call'[w] = c /\ \A v \in Writers : v # w => call'[v] = call[v]
BY DEF InFlight

\* append(): from the check of the budget to the count.
LEMMA BeginAppendThrottle ==
    ASSUME ThrottleInv, CallInv, NEW w \in Writers, BeginAppend(w)
    PROVE  ThrottleInv'
<1>1. PICK payload \in Payloads :
         /\ partitionMode => ~OverBudget(payload)
         /\ call' = [call EXCEPT ![w] = [pc |-> "write", lsn |-> nextLsn,
                                         size |-> payload + HeaderBytes, seg |-> ActiveSegment]]
  BY DEF BeginAppend
<1>2. /\ call \in [Writers -> Call] /\ w \notin InFlight
      /\ UNCHANGED <<partitionMode, switch>>
  BY DEF CallInv, BeginAppend, InFlight
<1>3. /\ InFlight' = InFlight \union {w} /\ call'[w].size = payload + HeaderBytes
      /\ \A v \in InFlight : call'[v].size = call[v].size
  BY <1>1, <1>2, FlightMoves DEF InFlight
<1>4. \A v \in InFlight' : call'[v].size <= MaxFrame
  <2>1. payload + HeaderBytes <= MaxFrame
    BY BoundHasRoom, SizesAssumption DEF MaxFrame
  <2> QED BY <1>3, <2>1 DEF ThrottleInv
<1>5. windowBytes' \in Nat /\ windowBytes' <= windowBytes
  BY DEF BeginAppend, SlideWindow, WindowSpent, throttleVars, ThrottleInv
<1>6. partitionMode => HasRoom'
  <2> SUFFICES ASSUME partitionMode PROVE HasRoom'
    OBVIOUS
  <2>1. windowBytes' = WindowSpent
    BY DEF BeginAppend, SlideWindow
  <2>2. ~(windowBytes' + payload > ThrottleBytes)
    BY <1>1, <2>1 DEF OverBudget
  <2>3. payload \in Nat /\ ThrottleBytes \in Nat /\ windowBytes' \in Nat
    BY <1>5, SizesAssumption
  <2>4. windowBytes' + payload <= ThrottleBytes
    <3>1. \A a, b, c \in Nat : ~(a + b > c) => a + b <= c
      OBVIOUS
    <3> QED BY <2>2, <2>3, <3>1, Zenon
  <2> QED BY <1>2, <1>3, <1>5, <2>4, BeginningKeepsRoom
<1>7. CountReset' => windowBytes' <= SpendingBound
  <2>1. CASE WindowOver /\ partitionMode
    <3>1. windowBytes' = 0
      BY <2>1 DEF BeginAppend, SlideWindow, WindowSpent
    <3> QED BY <3>1, BoundHasRoom
  <2>2. CASE ~(WindowOver /\ partitionMode)
    <3>1. windowBytes' = windowBytes /\ (resetMissed' <=> resetMissed)
      BY <2>2 DEF BeginAppend, SlideWindow, WindowSpent, throttleVars
    <3> QED BY <1>2, <3>1 DEF ThrottleInv, CountReset
  <2> QED BY <2>1, <2>2
<1> QED BY <1>2, <1>4, <1>5, <1>6, <1>7 DEF ThrottleInv

\* append(): the frame is counted, or was not in partition mode.
LEMMA AccountThrottle ==
    ASSUME ThrottleInv, CallInv, NEW w \in Writers, Account(w)
    PROVE  ThrottleInv'
<1>1. /\ call \in [Writers -> Call] /\ w \in InFlight
      /\ UNCHANGED <<partitionMode, switch, resetMissed>>
      /\ windowBytes' = IF partitionMode THEN windowBytes + call[w].size ELSE windowBytes
  BY DEF CallInv, Account, InFlight
<1>2. /\ \A v \in Writers : v # w => call'[v] = call[v]
      /\ call'[w].pc \in {"fsync", "idle"}
  <2>1. CASE unflushed' >= FlushThreshold
    <3>1. call' = [call EXCEPT ![w].pc = "fsync", ![w].seg = ActiveSegment]
      BY <2>1 DEF Account
    <3> QED BY <1>1, <3>1 DEF Call
  <2>2. CASE ~(unflushed' >= FlushThreshold)
    <3>1. call' = [call EXCEPT ![w] = Idle]
      BY <2>2 DEF Account, Return
    <3>2. Idle.pc = "idle"
      BY DEF Idle
    <3> QED BY <1>1, <3>1, <3>2
  <2> QED BY <2>1, <2>2
<1>3. /\ InFlight' = InFlight \ {w}
      /\ \A v \in InFlight' : call'[v].size = call[v].size
  BY <1>2 DEF InFlight
<1>4. \A v \in InFlight' : call'[v].size <= MaxFrame
  BY <1>3 DEF ThrottleInv
<1>5. call[w].size \in Nat /\ windowBytes' \in Nat
  BY <1>1 DEF ThrottleInv, InFlight, Call
<1>6. ASSUME CountReset
      PROVE  windowBytes' <= SpendingBound /\ (partitionMode => HasRoom')
  <2>1. CASE partitionMode
    <3>1. HasRoom /\ windowBytes <= SpendingBound
      BY <1>6, <2>1 DEF ThrottleInv
    <3> QED BY <1>1, <1>3, <3>1, LeavingKeepsRoom DEF ThrottleInv
  <2>2. CASE ~partitionMode
    BY <1>1, <1>6, <2>2 DEF ThrottleInv
  <2> QED BY <2>1, <2>2
<1>7. CountReset' = CountReset
  BY <1>1 DEF CountReset
<1> QED BY <1>1, <1>4, <1>5, <1>6, <1>7 DEF ThrottleInv

\* An append that fails before it is counted gives its place up.
LEMMA RejectThrottle ==
    ASSUME ThrottleInv, CallInv, NEW w \in Writers, RejectAppend(w)
    PROVE  ThrottleInv'
<1>1. /\ call \in [Writers -> Call]
      /\ UNCHANGED <<partitionMode, switch, windowBytes>> /\ CountReset' = CountReset
      /\ call' = [call EXCEPT ![w] = Idle] /\ windowBytes \in Nat
  BY DEF CallInv, RejectAppend, throttleVars, ThrottleInv, CountReset
<1>2. /\ InFlight' = InFlight \ {w}
      /\ \A v \in InFlight' : call'[v].size = call[v].size
  BY <1>1, FlightMoves DEF InFlight, Idle
<1>3. CASE w \in InFlight
  <2>1. ASSUME HasRoom, windowBytes <= SpendingBound
        PROVE  windowBytes' <= SpendingBound /\ HasRoom'
    BY <1>1, <1>2, <1>3, <2>1, LeavingKeepsRoom DEF ThrottleInv
  <2>2. \A v \in InFlight' : call'[v].size <= MaxFrame
    BY <1>2 DEF ThrottleInv
  <2> QED BY <1>1, <2>1, <2>2 DEF ThrottleInv
<1>4. CASE w \notin InFlight
  BY <1>1, <1>2, <1>4, QuietThrottle DEF ThrottleInv
<1> QED BY <1>3, <1>4

\* rotate() and trimWindow() go on to delete the segment shifted out, or to the count.
LEMMA TrimMoves ==
    ASSUME NEW w \in Writers, RecordWrite(w) \/ TrimFile(w)
    PROVE  \/ call' = [call EXCEPT ![w].pc = "account"]
           \/ \E seg : call' = [call EXCEPT ![w].pc = "trim", ![w].seg = seg]
<1>1. ASSUME NEW segs, TrimInto(w, segs)
      PROVE  \/ call' = [call EXCEPT ![w].pc = "trim", ![w].seg = Head(segs).index]
             \/ call' = [call EXCEPT ![w].pc = "account"]
  BY <1>1, Zenon DEF TrimInto
<1>2. (\E segs : TrimInto(w, segs)) \/ call' = [call EXCEPT ![w].pc = "account"]
  BY Zenon DEF RecordWrite, TrimFile
<1> QED BY <1>1, <1>2, Zenon

\* The other steps of append() keep its size and its place.
LEMMA AppendThrottle ==
    ASSUME ThrottleInv, CallInv, NEW w \in Writers,
           \/ RefuseAppend(w) \/ WriteFrame(w) \/ RecordWrite(w)
           \/ TrimFile(w) \/ Fsync(w) \/ Flushed(w)
    PROVE  ThrottleInv'
<1>1. call \in [Writers -> Call] /\ UNCHANGED <<partitionMode, switch>>
  BY DEF CallInv, RefuseAppend, WriteFrame, RecordWrite, TrimFile, Fsync, Flushed, OpenedIndex
<1>2. windowBytes' \in Nat /\ windowBytes' <= windowBytes
  BY DEF RefuseAppend, SlideWindow, WindowSpent, WriteFrame, RecordWrite, TrimFile, Fsync,
         Flushed, throttleVars, ThrottleInv, OpenedIndex
<1>3. CASE RefuseAppend(w)
  <2>1. call' = call /\ InFlight' = InFlight
    BY <1>3 DEF RefuseAppend, InFlight
  <2>2. CASE WindowOver
    <3>1. windowBytes' = 0
      BY <1>3, <2>2 DEF RefuseAppend, SlideWindow, WindowSpent
    <3>2. windowBytes' <= SpendingBound /\ HasRoom'
      BY <1>1, <2>1, <3>1, ResetMakesRoom DEF ThrottleInv
    <3> QED BY <1>1, <1>2, <2>1, <3>2 DEF ThrottleInv
  <2>3. CASE ~WindowOver
    <3>1. resetMissed' <=> resetMissed
      BY <1>3, <2>3 DEF RefuseAppend, SlideWindow
    <3>2. CountReset' <=> CountReset
      BY <1>1, <3>1 DEF CountReset
    <3> QED BY <1>1, <1>2, <2>1, <3>2, QuietThrottle DEF ThrottleInv
  <2> QED BY <2>2, <2>3
<1>4. ASSUME NEW c, call' = [call EXCEPT ![w] = c], UNCHANGED resetMissed,
             IF w \in InFlight
             THEN c.pc \in {"write", "record", "trim", "account"} /\ c.size = call[w].size
             ELSE c.pc \notin {"write", "record", "trim", "account"}
      PROVE  ThrottleInv'
  <2>1. InFlight' = InFlight /\ \A v \in InFlight : call'[v].size = call[v].size
    BY <1>1, <1>4, FlightMoves DEF InFlight
  <2>2. CountReset' = CountReset
    BY <1>1, <1>4 DEF CountReset
  <2> QED BY <1>1, <1>2, <2>1, <2>2, QuietThrottle DEF ThrottleInv
<1>5. CASE WriteFrame(w) \/ Fsync(w)
  <2>1. PICK pc \in {"record", "flushed"} :
           /\ call' = [call EXCEPT ![w].pc = pc]
           /\ pc = "record" <=> call[w].pc = "write"
           /\ call[w].pc \in {"write", "fsync"}
           /\ UNCHANGED resetMissed
    BY <1>5 DEF WriteFrame, Fsync, throttleVars
  <2> DEFINE c == [call[w] EXCEPT !.pc = pc]
  <2>2. call' = [call EXCEPT ![w] = c] /\ c.pc = pc /\ c.size = call[w].size
    BY <1>1, <2>1 DEF Call
  <2>3. w \in InFlight <=> pc = "record"
    BY <2>1 DEF InFlight
  <2> HIDE DEF c
  <2> QED BY <1>4, <2>1, <2>2, <2>3
<1>6. CASE RecordWrite(w) \/ TrimFile(w)
  <2>1. PICK seg : \/ call' = [call EXCEPT ![w].pc = "account"]
                   \/ call' = [call EXCEPT ![w].pc = "trim", ![w].seg = seg]
    BY <1>6, TrimMoves, Zenon
  <2>2. w \in InFlight /\ UNCHANGED resetMissed
    BY <1>6 DEF InFlight, RecordWrite, TrimFile, OpenedIndex, throttleVars
  <2> DEFINE here == [call[w] EXCEPT !.pc = "account"]
             there == [call[w] EXCEPT !.pc = "trim", !.seg = seg]
  <2>3. /\ here.pc = "account" /\ here.size = call[w].size
        /\ there.pc = "trim" /\ there.size = call[w].size
    BY <1>1 DEF Call
  <2>4. call' = [call EXCEPT ![w] = here] \/ call' = [call EXCEPT ![w] = there]
    BY <1>1, <2>1
  <2> HIDE DEF here, there
  <2> QED BY <1>4, <2>2, <2>3, <2>4
<1>7. CASE Flushed(w)
  <2>1. /\ call' = [call EXCEPT ![w] = Idle] /\ Idle.pc = "idle" /\ w \notin InFlight
        /\ UNCHANGED resetMissed
    BY <1>7 DEF Flushed, Return, Idle, InFlight, throttleVars
  <2> QED BY <1>4, <2>1
<1> QED BY <1>3, <1>5, <1>6, <1>7

\* setPartitionMode(): entering leaves a switch under way until its flush has reset
\* the count, with room for every append in flight, or has missed to.
LEMMA SwitchThrottle ==
    ASSUME ThrottleInv, CallInv, NEW s \in Switchers, SwitchStep(s)
    PROVE  ThrottleInv'
<1>1. /\ call \in [Writers -> Call] /\ UNCHANGED call /\ InFlight' = InFlight
      /\ DOMAIN switch = Switchers
  BY DEF CallInv, SwitchStep, EnterPartition, SwitchFsync, SwitchFlushed, RejectSwitch, InFlight,
     ThrottleInv
<1>2. CASE SwitchFlushed(s)
  <2>1. windowBytes' = 0 /\ DOMAIN switch' = Switchers
    BY <1>1, <1>2 DEF SwitchFlushed
  <2>2. windowBytes' <= SpendingBound /\ HasRoom'
    BY <1>1, <2>1, ResetMakesRoom DEF ThrottleInv
  <2> QED BY <1>1, <2>1, <2>2 DEF ThrottleInv
<1>3. CASE EnterPartition(s) \/ SwitchFsync(s)
  <2>1. switch'[s].pc # "idle" /\ DOMAIN switch' = Switchers /\ windowBytes' = windowBytes
    <3>1. CASE EnterPartition(s)
      BY <1>1, <3>1 DEF EnterPartition, throttleVars
    <3>2. CASE SwitchFsync(s)
      BY <1>1, <3>2 DEF SwitchFsync, throttleVars
    <3> QED BY <1>3, <3>1, <3>2
  <2> QED BY <1>1, <2>1 DEF ThrottleInv, CountReset
<1>4. CASE RejectSwitch(s)
  <2>1. ~CountReset' /\ DOMAIN switch' = Switchers /\ windowBytes' = windowBytes
    BY <1>1, <1>4 DEF RejectSwitch, CountReset
  <2> QED BY <1>1, <2>1 DEF ThrottleInv
<1> QED BY <1>2, <1>3, <1>4 DEF SwitchStep

\* Every step of the log keeps the throttle's invariant.
LEMMA ThrottleStep ==
    ASSUME ThrottleInv, CallInv, [WalNext]_walVars
    PROVE  ThrottleInv'
<1>1. CASE \E w \in Writers : AppendStep(w)
  BY <1>1, BeginAppendThrottle, AccountThrottle, RejectThrottle, AppendThrottle DEF AppendStep
<1>2. CASE \E s \in Switchers : SwitchStep(s)
  BY <1>2, SwitchThrottle
<1>3. CASE LeavePartition \/ MarkTimer \/ Tick \/ UNCHANGED walVars
  <2>0. /\ UNCHANGED <<call, windowBytes, switch, resetMissed>>
        /\ partitionMode' = FALSE \/ partitionMode' = partitionMode
    BY <1>3 DEF LeavePartition, MarkTimer, Tick, walVars, throttleVars
  <2>1. /\ UNCHANGED <<call, windowBytes, switch>> /\ InFlight' = InFlight
        /\ partitionMode' => partitionMode
        /\ CountReset' = CountReset
    BY <2>0 DEF InFlight, CountReset
  <2>2. windowBytes \in Nat /\ windowBytes <= windowBytes /\ DOMAIN switch = Switchers
    BY DEF ThrottleInv
  <2>3. call \in [Writers -> Call]
    BY DEF CallInv
  <2> QED BY <2>1, <2>2, <2>3, QuietThrottle
<1>4. CASE Crash
  <2>1. /\ windowBytes' = 0 /\ partitionMode' = FALSE /\ DOMAIN switch' = Switchers
        /\ call' = [w \in Writers |-> Idle]
    BY <1>4 DEF Crash
  <2>2. InFlight' = {}
    BY <2>1 DEF InFlight, Idle
  <2> QED BY <2>1, <2>2, BoundHasRoom DEF ThrottleInv
<1> QED BY <1>1, <1>2, <1>3, <1>4 DEF WalNext

\* The budget of a minute is overshot by the appends in flight and no more,
\* whatever appends, switches and restarts overlap, unless a flush that rejected on
\* entering partition mode has left the count (append, setPartitionMode).
THEOREM ThrottleIsBounded == WalSpec => []ThrottleOvershoot
<1>1. WalInit => ThrottleInv
  <2> SUFFICES ASSUME WalInit PROVE ThrottleInv
    OBVIOUS
  <2>1. InFlight = {}
    BY DEF WalInit, InFlight, Idle
  <2> QED BY <2>1, BoundHasRoom DEF WalInit, ThrottleInv, HasRoom
<1>2. ThrottleInv /\ WalInv /\ [WalNext]_walVars => ThrottleInv'
  BY ThrottleStep DEF WalInv
<1>3. ThrottleInv => ThrottleOvershoot
  BY DEF ThrottleInv, CountReset, ThrottleOvershoot
<1> QED BY <1>1, <1>2, <1>3, WalInvariance, PTL DEF WalSpec

-----------------------------------------------------------------------------
(* The window and the files, step by step *)

Record == [lsn : Nat, end : Nat]

\* Files are numbered from one, and the offsets at which their frames end ascend.
FilesInv ==
    /\ \A i \in DOMAIN files :
          /\ i \in Nat \ {0} /\ files[i] \in [recs : Seq(Record), synced : Nat]
          /\ files[i].synced \in 0..Len(files[i].recs)
          /\ \A j, k \in 1..Len(files[i].recs) :
                j <= k => files[i].recs[j].end <= files[i].recs[k].end

\* A frame that is being written or was just written went to a segment that has
\* been opened.
TargetsInv ==
    /\ segments = <<>> <=> activeIndex = 0
    /\ \A w \in Writers :
          call[w].pc \in {"write", "record"} =>
              call[w].seg \in 1..activeIndex /\ call[w].size <= MaxFrame

\* Bytes recorded against the active segment.
ActiveSize == IF segments = <<>> THEN 0 ELSE segments[Len(segments)].size

Bytes(i) == EndOf(FileAt(i).recs)

\* The active segment is looked up, and opened if there is none (getActiveSegment).
LEMMA OpenSegmentFacts ==
    ASSUME SegmentInv, OpenSegment, segments = <<>> <=> activeIndex = 0
    PROVE  /\ segments' # <<>> /\ ActiveSegment = activeIndex' /\ activeIndex' \in Nat \ {0}
           /\ activeIndex' = IF segments = <<>> THEN 1 ELSE activeIndex
           /\ ActiveSize' = ActiveSize
<1>1. /\ Opened \in Seq(Segment) /\ Len(Opened) \in 1..MaxSegments
      /\ ActiveSegment = activeIndex' /\ segments' = Opened
      /\ activeIndex' = IF segments = <<>> THEN activeIndex + 1 ELSE activeIndex
  BY OpenedWindow DEF OpenSegment, OpenedIndex
<1>2. segments' # <<>>
  BY <1>1
<1>3. CASE segments = <<>>
  <2> DEFINE new == [index |-> activeIndex + 1, size |-> 0, createdAt |-> clock]
  <2>1. segments' = Append(segments, new) /\ new.size = 0
    BY <1>1, <1>3 DEF Opened, WithNewSegment, OpenedIndex
  <2>2. Len(segments') = 1 /\ segments'[1] = new
    BY <1>3, <2>1
  <2> HIDE DEF new
  <2>3. ActiveSize' = 0 /\ ActiveSize = 0
    BY <1>2, <1>3, <2>1, <2>2 DEF ActiveSize
  <2> QED BY <1>1, <1>2, <1>3, <2>3
<1>4. CASE segments # <<>>
  <2>1. segments' = segments /\ activeIndex' = activeIndex
    BY <1>1, <1>4 DEF Opened, OpenedIndex
  <2>2. activeIndex \in Nat \ {0}
    BY <1>4 DEF SegmentInv
  <2> QED BY <1>1, <1>2, <1>4, <2>1, <2>2 DEF ActiveSize
<1> QED BY <1>3, <1>4

\* What recordWrite() counts goes to the active segment, or fills it and opens
\* the next.
LEMMA RecordWriteFacts ==
    ASSUME SegmentInv, CallInv, NEW w \in Writers, RecordWrite(w), segments # <<>>
    PROVE  /\ segments' # <<>>
           /\ \/ activeIndex' = activeIndex /\ ActiveSize' = ActiveSize + call[w].size
              \/ activeIndex' = activeIndex + 1 /\ ActiveSize' = 0
<1> DEFINE grown == Grown(call[w].size)
           n == Len(segments)
<1>1. Opened = segments /\ segments \in Seq(Segment) /\ n \in 1..MaxSegments
      /\ segments[n].index = activeIndex /\ segments[n] \in Segment /\ activeIndex \in Nat
  <2>1. Opened = segments /\ segments \in Seq(Segment) /\ Len(segments) \in 1..MaxSegments
        /\ activeIndex \in Nat
    BY SizesAssumption DEF Opened, SegmentInv, SegmentWindow, OpenedIndex
  <2>2. segments[n].index = activeIndex - n + n
    BY <2>1 DEF SegmentInv, SegmentWindow
  <2> QED BY <2>1, <2>2
<1>2. call[w].size \in Nat /\ MaxSegments \in Nat \ {0}
  BY SizesAssumption DEF CallInv, Call
<1>3. /\ Len(grown) = n /\ grown \in Seq(Segment)
      /\ grown[n].size = ActiveSize + call[w].size /\ grown[n].index = activeIndex
  <2> DEFINE last == [segments[n] EXCEPT !.size = @ + call[w].size]
  <2>1. grown = [segments EXCEPT ![n] = last]
    BY <1>1 DEF Grown
  <2>2. last \in Segment /\ last.size = segments[n].size + call[w].size /\ last.index = activeIndex
    <3>1. ASSUME NEW s \in Segment, NEW more \in Nat
          PROVE  LET s2 == [s EXCEPT !.size = @ + more]
                 IN  s2 \in Segment /\ s2.size = s.size + more /\ s2.index = s.index
      BY DEF Segment
    <3> QED BY <1>1, <1>2, <3>1
  <2> HIDE DEF last, grown
  <2>3. grown \in Seq(Segment) /\ Len(grown) = n /\ grown[n] = last
    BY <1>1, <2>1, <2>2
  <2> QED BY <2>2, <2>3 DEF ActiveSize
<1> HIDE DEF grown
<1>4. CASE IsFull(grown)
  <2> DEFINE longer == WithNewSegment(grown, activeIndex + 1)
             new == [index |-> activeIndex + 1, size |-> 0, createdAt |-> clock]
  <2>1. activeIndex' = activeIndex + 1 /\ TrimInto(w, longer)
    BY <1>3, <1>4 DEF RecordWrite, grown, OpenedIndex
  <2>2. longer = Append(grown, new) /\ new \in Segment /\ new.size = 0
    BY <1>1 DEF WithNewSegment, Segment, SegmentInv
  <2> HIDE DEF new
  <2>3. longer \in Seq(Segment) /\ Len(longer) = n + 1 /\ longer[n + 1] = new
    <3>1. grown \in Seq(Segment) /\ Len(grown) = n
      BY <1>3
    <3> HIDE DEF longer
    <3> QED BY <2>2, <3>1
  <2> HIDE DEF longer
  <2>4. Tail(longer) \in Seq(Segment) /\ Len(Tail(longer)) = n /\ Tail(longer)[n] = new
    BY <1>1, <1>2, <2>3
  <2>5. segments' = longer \/ segments' = Tail(longer)
    BY <2>1 DEF TrimInto
  <2>6. segments' # <<>> /\ segments'[Len(segments')] = new
    <3>1. n \in Nat \ {0}
      BY <1>1, <1>2
    <3>2. CASE segments' = longer
      BY <2>3, <3>1, <3>2
    <3>3. CASE segments' = Tail(longer)
      <4> DEFINE rest == Tail(longer)
      <4>1. Len(rest) = n /\ rest[n] = new /\ rest \in Seq(Segment) /\ segments' = rest
        BY <2>4, <3>3
      <4> HIDE DEF rest
      <4> QED BY <3>1, <4>1
    <3> QED BY <2>5, <3>2, <3>3
  <2> QED BY <2>1, <2>2, <2>6 DEF ActiveSize
<1>5. CASE ~IsFull(grown)
  <2>1. activeIndex' = activeIndex /\ segments' = grown
    BY <1>3, <1>5 DEF RecordWrite, grown, OpenedIndex
  <2> QED BY <1>1, <1>2, <1>3, <2>1 DEF ActiveSize
<1> QED BY <1>4, <1>5

\* A further turn of the trim loop finds the window in shape (trimWindow).
LEMMA TrimFileFacts ==
    ASSUME SegmentInv, NEW w \in Writers, TrimFile(w)
    PROVE  OpenSegment /\ call' = [call EXCEPT ![w].pc = "account"]
<1>1. Len(Opened) \in 1..MaxSegments /\ MaxSegments \in Nat
  BY OpenedWindow, SizesAssumption
<1>2. ~(Len(Opened) > MaxSegments)
  BY <1>1
<1> QED BY <1>2 DEF TrimFile, TrimInto, OpenSegment, OpenedIndex

\* Files grow in bytes as their offsets ascend.
LEMMA BytesFacts ==
    ASSUME FilesInv, NEW i
    PROVE  /\ Bytes(i) \in Nat /\ FileAt(i).recs \in Seq(Record)
           /\ FileAt(i).synced \in 0..Len(FileAt(i).recs)
           /\ \A k \in 1..Len(FileAt(i).recs) : FileAt(i).recs[k].end <= Bytes(i)
<1> DEFINE recs == FileAt(i).recs
<1>1. /\ recs \in Seq(Record) /\ FileAt(i).synced \in 0..Len(recs)
      /\ \A j, k \in 1..Len(recs) : j <= k => recs[j].end <= recs[k].end
  BY DEF FilesInv, FileAt, EmptyFile
<1>2. Bytes(i) = EndOf(recs)
  BY DEF Bytes
<1> HIDE DEF recs
<1>3. CASE recs = <<>>
  BY <1>1, <1>2, <1>3 DEF EndOf, recs
<1>4. CASE recs # <<>>
  <2>1. Len(recs) \in 1..Len(recs) /\ Bytes(i) = recs[Len(recs)].end
    BY <1>1, <1>2, <1>4 DEF EndOf
  <2>2. recs[Len(recs)] \in Record
    BY <1>1, <2>1
  <2> QED BY <1>1, <2>1, <2>2 DEF Record, recs
<1> QED BY <1>3, <1>4

\* Appending a frame to a file.
LEMMA AppendToFileFacts ==
    ASSUME FilesInv, NEW i \in Nat \ {0}, NEW lsn \in Nat, NEW size \in Nat,
           AppendToFile(i, lsn, size)
    PROVE  /\ FilesInv' /\ Bytes(i)' = Bytes(i) + size
           /\ \A j : j # i => FileAt(j)' = FileAt(j)
           /\ FileAt(i)'.recs = Append(FileAt(i).recs, [lsn |-> lsn, end |-> Bytes(i) + size])
           /\ DOMAIN files' = DOMAIN files \union {i}
<1> DEFINE recs == FileAt(i).recs
           rec == [lsn |-> lsn, end |-> Bytes(i) + size]
           longer == Append(recs, rec)
           file == [FileAt(i) EXCEPT !.recs = longer]
<1>1. /\ recs \in Seq(Record) /\ FileAt(i).synced \in 0..Len(recs)
      /\ \A j, k \in 1..Len(recs) : j <= k => recs[j].end <= recs[k].end
      /\ Bytes(i) \in Nat /\ \A k \in 1..Len(recs) : recs[k].end <= Bytes(i)
  BY BytesFacts DEF FilesInv, FileAt, EmptyFile
<1>2. rec \in Record /\ rec.end = Bytes(i) + size
  BY <1>1 DEF Record
<1>3. files' = [j \in DOMAIN files \union {i} |-> IF j = i THEN file ELSE files[j]]
  BY DEF AppendToFile, FilesWith, Bytes
<1>4. /\ file.recs = longer /\ file.synced = FileAt(i).synced
      /\ longer \in Seq(Record) => file \in [recs : Seq(Record), synced : Nat]
  BY DEF FilesInv, FileAt, EmptyFile
<1> HIDE DEF file, rec, recs
<1>5. /\ longer \in Seq(Record) /\ Len(longer) = Len(recs) + 1
      /\ longer[Len(recs) + 1] = rec /\ \A k \in 1..Len(recs) : longer[k] = recs[k]
  BY <1>1, <1>2
<1>6. longer # <<>> /\ FileAt(i)' = file /\ DOMAIN files' = DOMAIN files \union {i}
  BY <1>3, <1>5 DEF FileAt
<1> HIDE DEF longer
<1>7. \A j : j # i => FileAt(j)' = FileAt(j)
  BY <1>3 DEF FileAt
<1>8. EndOf(longer) = Bytes(i) + size
  BY <1>1, <1>2, <1>5, <1>6 DEF EndOf
<1>9. \A j, k \in 1..Len(longer) : j <= k => longer[j].end <= longer[k].end
  <2> SUFFICES ASSUME NEW j \in 1..Len(longer), NEW k \in 1..Len(longer), j <= k
               PROVE  longer[j].end <= longer[k].end
    OBVIOUS
  <2>0. /\ Len(recs) \in Nat
        /\ \A l \in 1..Len(recs) : recs[l].end \in Nat
    <3>1. \A l \in 1..Len(recs) : recs[l] \in Record
      BY <1>1
    <3> QED BY <1>1, <3>1 DEF Record
  <2>1. CASE k \in 1..Len(recs)
    <3>1. j \in 1..Len(recs)
      BY <1>5, <2>0, <2>1
    <3>2. longer[j] = recs[j] /\ longer[k] = recs[k]
      BY <1>5, <2>1, <3>1
    <3> QED BY <1>1, <2>1, <3>1, <3>2
  <2>2. CASE k = Len(recs) + 1 /\ j \in 1..Len(recs)
    <3>1. recs[j].end \in Nat
      BY <2>0, <2>2
    <3> QED BY <1>1, <1>2, <1>5, <2>2, <3>1
  <2>3. CASE k = Len(recs) + 1 /\ j = k
    BY <1>1, <1>2, <1>5, <2>3
  <2> QED BY <1>1, <1>5, <2>1, <2>2, <2>3
<1>10. FilesInv'
  <2> SUFFICES ASSUME NEW j \in DOMAIN files'
               PROVE  /\ j \in Nat \ {0} /\ files'[j] \in [recs : Seq(Record), synced : Nat]
                      /\ files'[j].synced \in 0..Len(files'[j].recs)
                      /\ \A k, l \in 1..Len(files'[j].recs) :
                            k <= l => files'[j].recs[k].end <= files'[j].recs[l].end
    BY DEF FilesInv
  <2>1. CASE j = i
    <3>1. files'[j] = file
      BY <1>3, <2>1
    <3>2. file.synced \in 0..Len(longer)
      BY <1>1, <1>4, <1>5
    <3> QED BY <1>4, <1>5, <1>9, <2>1, <3>1, <3>2
  <2>2. CASE j # i
    <3>1. j \in DOMAIN files /\ files'[j] = files[j]
      BY <1>3, <2>2
    <3> QED BY <3>1 DEF FilesInv
  <2> QED BY <2>1, <2>2
<1>11. FileAt(i)'.recs = Append(recs, rec)
  BY <1>4, <1>6 DEF longer
<1> QED BY <1>4, <1>6, <1>7, <1>8, <1>10, <1>11 DEF Bytes, recs, rec

\* An fsync leaves the frames alone, a deletion those of all other files.
LEMMA SyncFileFacts ==
    ASSUME FilesInv, NEW i, SyncFile(i)
    PROVE  /\ FilesInv' /\ DOMAIN files' = DOMAIN files
           /\ \A j : FileAt(j)'.recs = FileAt(j).recs
<1>1. CASE i \in DOMAIN files
  <2>1. files' = [files EXCEPT ![i].synced = Len(files[i].recs)]
    BY <1>1 DEF SyncFile
  <2>2. DOMAIN files' = DOMAIN files /\ \A j \in DOMAIN files : j # i => files'[j] = files[j]
    BY <2>1
  <2>3. files'[i].recs = files[i].recs /\ files'[i].synced = Len(files[i].recs)
    <3> DEFINE file == [files[i] EXCEPT !.synced = Len(files[i].recs)]
    <3>1. files' = [files EXCEPT ![i] = file]
      BY <2>1
    <3>2. files'[i] = file
      BY <1>1, <3>1
    <3>3. files[i] \in [recs : Seq(Record), synced : Nat]
      BY <1>1 DEF FilesInv
    <3> QED BY <3>2, <3>3
  <2>4. \A j \in DOMAIN files : files'[j].recs = files[j].recs
    BY <2>2, <2>3
  <2>5. Len(files[i].recs) \in 0..Len(files[i].recs)
    BY <1>1 DEF FilesInv
  <2>6. files'[i] \in [recs : Seq(Record), synced : Nat]
    <3>1. files[i] \in [recs : Seq(Record), synced : Nat] /\ Len(files[i].recs) \in Nat
      BY <1>1, <2>5 DEF FilesInv
    <3> QED BY <1>1, <2>1, <3>1
  <2>7. FilesInv'
    <3> SUFFICES ASSUME NEW j \in DOMAIN files
                 PROVE  /\ j \in Nat \ {0} /\ files'[j] \in [recs : Seq(Record), synced : Nat]
                        /\ files'[j].synced \in 0..Len(files'[j].recs)
                        /\ \A k, l \in 1..Len(files'[j].recs) :
                              k <= l => files'[j].recs[k].end <= files'[j].recs[l].end
      BY <2>2 DEF FilesInv
    <3>1. CASE j = i
      BY <1>1, <2>3, <2>5, <2>6, <3>1 DEF FilesInv
    <3>2. CASE j # i
      BY <2>2, <3>2 DEF FilesInv
    <3> QED BY <3>1, <3>2
  <2> QED BY <2>2, <2>4, <2>7 DEF FileAt
<1>2. CASE i \notin DOMAIN files
  BY <1>2 DEF SyncFile, FilesInv, FileAt
<1> QED BY <1>1, <1>2

\* A deleted file is empty, the others are as they were.
LEMMA DeleteFacts ==
    ASSUME FilesInv, NEW i, files' = FilesWithout(i)
    PROVE  /\ FilesInv' /\ DOMAIN files' = DOMAIN files \ {i}
           /\ \A j : FileAt(j)' = IF j = i THEN EmptyFile ELSE FileAt(j)
BY DEF FilesWithout, FilesInv, FileAt

\* A restart cuts files short.
LEMMA RestartFiles ==
    ASSUME FilesInv, Crash
    PROVE  /\ FilesInv' /\ DOMAIN files' = DOMAIN files
           /\ \A i \in DOMAIN files : Bytes(i)' <= Bytes(i)
<1>1. PICK kept \in [DOMAIN files -> 0..MaxLsn] :
         /\ \A i \in DOMAIN files : kept[i] \in files[i].synced..Len(files[i].recs)
         /\ files' = [i \in DOMAIN files |->
               [recs |-> SubSeq(files[i].recs, 1, kept[i]), synced |-> kept[i]]]
  BY DEF Crash
<1>2. ASSUME NEW i \in DOMAIN files
      PROVE  /\ files'[i] \in [recs : Seq(Record), synced : Nat]
             /\ files'[i].synced \in 0..Len(files'[i].recs)
             /\ \A j, k \in 1..Len(files'[i].recs) :
                   j <= k => files'[i].recs[j].end <= files'[i].recs[k].end
             /\ Bytes(i)' <= Bytes(i)
  <2> DEFINE recs == files[i].recs
             short == SubSeq(recs, 1, kept[i])
  <2>1. /\ recs \in Seq(Record) /\ kept[i] \in 0..Len(recs)
        /\ \A j, k \in 1..Len(recs) : j <= k => recs[j].end <= recs[k].end
        /\ recs = FileAt(i).recs
    BY <1>1 DEF FilesInv, FileAt
  <2>2. /\ files'[i].recs = short /\ files'[i].synced = kept[i] /\ Bytes(i)' = EndOf(short)
        /\ files'[i] = [recs |-> short, synced |-> kept[i]]
    BY <1>1 DEF Bytes, FileAt
  <2>3. Bytes(i) \in Nat /\ \A k \in 1..Len(recs) : recs[k].end <= Bytes(i)
    BY <2>1, BytesFacts
  <2> HIDE DEF recs
  <2>4. /\ short \in Seq(Record) /\ Len(short) = kept[i]
        /\ \A k \in 1..kept[i] : short[k] = recs[k]
    BY <2>1
  <2> HIDE DEF short
  <2>5. EndOf(short) <= Bytes(i)
    <3>1. CASE short = <<>>
      BY <2>3, <3>1 DEF EndOf
    <3>2. CASE short # <<>>
      <4>1. kept[i] \in 1..kept[i] /\ kept[i] \in 1..Len(recs)
        BY <2>1, <2>4, <3>2
      <4> QED BY <2>3, <2>4, <3>2, <4>1 DEF EndOf
    <3> QED BY <3>1, <3>2
  <2>6. \A j, k \in 1..Len(short) : j <= k => short[j].end <= short[k].end
    BY <2>1, <2>4
  <2> QED BY <2>1, <2>2, <2>4, <2>5, <2>6
<1>3. DOMAIN files' = DOMAIN files
  BY <1>1
<1> QED BY <1>2, <1>3 DEF FilesInv

-----------------------------------------------------------------------------
(* Segment files: how far they outgrow SEGMENT_SIZE_BYTES *)

\* What the lives before this one may have left in a file.
Left == crashes * (SegmentBytes + Cardinality(Writers) * MaxFrame)

\* The frames still to reach file i, and those that did but are not recorded yet,
\* the latter byte by byte.
Writing(i) == {w \in Writers : call[w].pc = "write" /\ call[w].seg = i}
Written(i) == {w \in Writers : call[w].pc = "record" /\ call[w].seg = i}
Unrecorded(i) ==
    {u \in Writers \X (1..MaxFrame) : u[1] \in Written(i) /\ u[2] <= call[u[1]].size}

\* The active file holds no more than was recorded since it was opened and is still
\* unrecorded; a file that was rotated out has room for the frames under way to it.
FileSizes ==
    \A i \in Nat \ {0} :
        /\ i > activeIndex => Bytes(i) <= Left
        /\ i = activeIndex => Bytes(i) <= Left + ActiveSize + Cardinality(Unrecorded(i))
        /\ i < activeIndex =>
              Bytes(i) + Cardinality(Writing(i)) * MaxFrame
                  <= Left + (SegmentBytes - 1) + Cardinality(Writers) * MaxFrame

SizeInv == FilesInv /\ TargetsInv /\ crashes \in Nat /\ FileSizes

\* Two kinds of writers are no more than there are writers.
LEMMA WriterCounts ==
    ASSUME NEW A \in SUBSET Writers, NEW B \in SUBSET Writers, A \intersect B = {}
    PROVE  /\ IsFiniteSet(A) /\ Cardinality(A) \in Nat /\ Cardinality(B) \in Nat
           /\ Cardinality(Writers) \in Nat
           /\ Cardinality(A) + Cardinality(B) <= Cardinality(Writers)
<1>1. /\ IsFiniteSet(A) /\ IsFiniteSet(B) /\ IsFiniteSet(A \union B)
      /\ Cardinality(A \union B) <= Cardinality(Writers)
  <2>1. A \union B \in SUBSET Writers
    OBVIOUS
  <2> QED BY <2>1, WritersAssumption, FS_Subset
<1>2. Cardinality(A \union B) = Cardinality(A) + Cardinality(B) - Cardinality(A \intersect B)
  BY <1>1, FS_Union
<1>3. Cardinality(A \intersect B) = 0
  BY FS_EmptySet
<1>4. Cardinality(A) \in Nat /\ Cardinality(B) \in Nat /\ Cardinality(Writers) \in Nat
  BY <1>1, WritersAssumption, FS_CardinalityType
<1> QED BY <1>1, <1>2, <1>3, <1>4

\* Bytes of frames, at most the longest frame for every writer.
LEMMA UnitCounts ==
    ASSUME NEW B \in SUBSET Writers, NEW U \in SUBSET (B \X (1..MaxFrame))
    PROVE  /\ IsFiniteSet(U) /\ Cardinality(U) \in Nat
           /\ Cardinality(U) <= Cardinality(B) * MaxFrame
<1>1. MaxFrame \in Nat
  BY BoundHasRoom
<1>2. IsFiniteSet(1..MaxFrame) /\ Cardinality(1..MaxFrame) = MaxFrame
  BY <1>1, FS_Interval
<1>3. IsFiniteSet(B)
  BY WritersAssumption, FS_Subset
<1>4. /\ IsFiniteSet(B \X (1..MaxFrame))
      /\ Cardinality(B \X (1..MaxFrame)) = Cardinality(B) * MaxFrame
  BY <1>2, <1>3, FS_Product
<1>5. IsFiniteSet(U) /\ Cardinality(U) <= Cardinality(B) * MaxFrame
  BY <1>4, FS_Subset
<1> QED BY <1>5, FS_CardinalityType

\* A frame adds its bytes.
LEMMA UnitsAdd ==
    ASSUME NEW U, IsFiniteSet(U), NEW w, NEW n \in Nat, U \intersect ({w} \X (1..n)) = {}
    PROVE  Cardinality(U \union ({w} \X (1..n))) = Cardinality(U) + n
<1> DEFINE frame == {w} \X (1..n)
<1>1. IsFiniteSet(1..n) /\ Cardinality(1..n) = n
  BY FS_Interval
<1>2. IsFiniteSet({w}) /\ Cardinality({w}) = 1
  BY FS_Singleton
<1>3. IsFiniteSet(frame) /\ Cardinality(frame) = 1 * n
  BY <1>1, <1>2, FS_Product
<1> HIDE DEF frame
<1>4. Cardinality(U \union frame) = Cardinality(U) + Cardinality(frame) - Cardinality(U \intersect frame)
  BY <1>3, FS_Union
<1>5. Cardinality(U \intersect frame) = 0 /\ Cardinality(U) \in Nat
  BY FS_EmptySet, FS_CardinalityType DEF frame
<1> QED BY <1>3, <1>4, <1>5 DEF frame

\* The frames under way and the bytes unrecorded are within what the writers can add.
LEMMA FrameCountsOf ==
    ASSUME NEW A \in SUBSET Writers, NEW B \in SUBSET Writers, A \intersect B = {},
           NEW U \in SUBSET (B \X (1..MaxFrame))
    PROVE  /\ Cardinality(A) \in Nat /\ Cardinality(U) \in Nat
           /\ IsFiniteSet(A) /\ IsFiniteSet(U)
           /\ Cardinality(U) + Cardinality(A) * MaxFrame <= Cardinality(Writers) * MaxFrame
<1>2. /\ IsFiniteSet(A) /\ Cardinality(A) \in Nat
      /\ Cardinality(B) \in Nat /\ Cardinality(Writers) \in Nat
      /\ Cardinality(A) + Cardinality(B) <= Cardinality(Writers)
  BY WriterCounts
<1>3. /\ IsFiniteSet(U) /\ Cardinality(U) \in Nat
      /\ Cardinality(U) <= Cardinality(B) * MaxFrame
  BY UnitCounts
<1>4. \A a, b, n, m \in Nat : a + b <= n => b * m + a * m <= n * m
  <2> SUFFICES ASSUME NEW a \in Nat, NEW b \in Nat, NEW n \in Nat, NEW m \in Nat, a + b <= n
               PROVE  b * m + a * m <= n * m
    OBVIOUS
  <2>1. PICK d \in Nat : n = a + b + d
    <3>1. n - (a + b) \in Nat /\ n = a + b + (n - (a + b))
      OBVIOUS
    <3> QED BY <3>1
  <2>2. n * m = a * m + b * m + d * m /\ d * m \in Nat /\ a * m \in Nat /\ b * m \in Nat
    BY <2>1
  <2> QED BY <2>2
<1>5. MaxFrame \in Nat
  BY BoundHasRoom
<1>6. Cardinality(B) * MaxFrame + Cardinality(A) * MaxFrame <= Cardinality(Writers) * MaxFrame
  BY <1>2, <1>4, <1>5
<1>7. /\ Cardinality(B) * MaxFrame \in Nat /\ Cardinality(A) * MaxFrame \in Nat
      /\ Cardinality(Writers) * MaxFrame \in Nat
  BY <1>2, <1>5
<1> QED BY <1>2, <1>3, <1>6, <1>7

\* The frames under way to a file, or just written to it, are one per caller at most.
LEMMA FrameCounts ==
    ASSUME NEW i
    PROVE  /\ Cardinality(Writing(i)) \in Nat /\ Cardinality(Unrecorded(i)) \in Nat
           /\ IsFiniteSet(Writing(i)) /\ IsFiniteSet(Unrecorded(i))
           /\ Cardinality(Unrecorded(i)) + Cardinality(Writing(i)) * MaxFrame
                  <= Cardinality(Writers) * MaxFrame
<1>1. /\ Writing(i) \in SUBSET Writers /\ Written(i) \in SUBSET Writers
      /\ Writing(i) \intersect Written(i) = {}
      /\ Unrecorded(i) \in SUBSET (Written(i) \X (1..MaxFrame))
  BY DEF Writing, Written, Unrecorded
<1> QED BY <1>1, FrameCountsOf

\* The same after the step.
LEMMA FrameCountsNext ==
    ASSUME NEW i
    PROVE  /\ Cardinality(Writing(i)') \in Nat /\ Cardinality(Unrecorded(i)') \in Nat
           /\ IsFiniteSet(Writing(i)') /\ IsFiniteSet(Unrecorded(i)')
           /\ Cardinality(Unrecorded(i)') + Cardinality(Writing(i)') * MaxFrame
                  <= Cardinality(Writers) * MaxFrame
<1>1. /\ Writing(i)' \in SUBSET Writers /\ Written(i)' \in SUBSET Writers
      /\ Writing(i)' \intersect Written(i)' = {}
      /\ Unrecorded(i)' \in SUBSET (Written(i)' \X (1..MaxFrame))
  BY DEF Writing, Written, Unrecorded
<1> QED BY <1>1, FrameCountsOf

\* Numbers of the invariant.
LEMMA SizeNumbers ==
    ASSUME crashes \in Nat
    PROVE  Left \in Nat /\ MaxFrame \in Nat /\ SegmentBytes \in Nat \ {0}
           /\ Cardinality(Writers) * MaxFrame \in Nat
<1>1. MaxFrame \in Nat /\ Cardinality(Writers) \in Nat /\ SegmentBytes \in Nat \ {0}
  BY BoundHasRoom, SizesAssumption
<1>2. Cardinality(Writers) * MaxFrame \in Nat
  BY <1>1
<1>3. SegmentBytes + Cardinality(Writers) * MaxFrame \in Nat
  BY <1>1, <1>2
<1> DEFINE k == SegmentBytes + Cardinality(Writers) * MaxFrame
<1>4. Left = crashes * k /\ k \in Nat
  BY <1>3 DEF Left
<1> HIDE DEF k
<1>5. crashes * k \in Nat
  BY <1>4
<1> QED BY <1>1, <1>2, <1>4, <1>5

\* How a step of writer w changes the frames of file i.
LEMMA FramesMove ==
    ASSUME call \in [Writers -> Call], NEW w \in Writers, NEW i,
           \A v \in Writers : v # w => call'[v] = call[v]
    PROVE  /\ ~(call'[w].pc = "write" /\ call'[w].seg = i) => Writing(i)' = Writing(i) \ {w}
           /\ ~(call[w].pc = "record" /\ call[w].seg = i)
                  /\ ~(call'[w].pc = "record" /\ call'[w].seg = i)
                  => Unrecorded(i)' = Unrecorded(i)
<1>1. ~(call'[w].pc = "write" /\ call'[w].seg = i) => Writing(i)' = Writing(i) \ {w}
  BY DEF Writing
<1>2. ASSUME ~(call[w].pc = "record" /\ call[w].seg = i),
             ~(call'[w].pc = "record" /\ call'[w].seg = i)
      PROVE  Unrecorded(i)' = Unrecorded(i)
  <2>1. w \notin Written(i) /\ Written(i)' = Written(i)
    BY <1>2 DEF Written
  <2>2. \A v \in Written(i) : call'[v] = call[v]
    BY <2>1 DEF Written
  <2> QED BY <2>1, <2>2 DEF Unrecorded
<1> QED BY <1>1, <1>2

\* A step that adds no bytes, records none and begins no frame for a file that was
\* rotated out.
LEMMA QuietSizes ==
    ASSUME FileSizes, crashes \in Nat, crashes' = crashes, activeIndex \in Nat,
           ActiveSize \in Nat, ActiveSize' = ActiveSize,
           activeIndex' = activeIndex \/ (activeIndex = 0 /\ activeIndex' = 1),
           \A i \in Nat \ {0} :
               /\ Bytes(i) \in Nat /\ Bytes(i)' \in Nat /\ Bytes(i)' <= Bytes(i)
               /\ i < activeIndex' => Writing(i)' \subseteq Writing(i)
               /\ Unrecorded(i)' = Unrecorded(i)
    PROVE  FileSizes'
<1> SUFFICES ASSUME NEW i \in Nat \ {0}
             PROVE  /\ i > activeIndex' => Bytes(i)' <= Left'
                    /\ i = activeIndex' =>
                          Bytes(i)' <= Left' + ActiveSize' + Cardinality(Unrecorded(i)')
                    /\ i < activeIndex' =>
                          Bytes(i)' + Cardinality(Writing(i)') * MaxFrame
                              <= Left' + (SegmentBytes - 1) + Cardinality(Writers) * MaxFrame
  BY DEF FileSizes
<1>1. /\ Left' = Left /\ Left \in Nat /\ MaxFrame \in Nat /\ SegmentBytes \in Nat \ {0}
      /\ Cardinality(Writers) * MaxFrame \in Nat
  BY SizeNumbers DEF Left
<1>2. /\ Cardinality(Unrecorded(i)) \in Nat /\ Cardinality(Unrecorded(i)') = Cardinality(Unrecorded(i))
      /\ Cardinality(Writing(i)) \in Nat /\ Cardinality(Writing(i)') \in Nat
      /\ IsFiniteSet(Writing(i))
  BY FrameCounts, FrameCountsNext
<1>3. /\ Bytes(i) \in Nat /\ Bytes(i)' \in Nat /\ Bytes(i)' <= Bytes(i)
      /\ i < activeIndex' => Writing(i)' \subseteq Writing(i)
  OBVIOUS
<1>4. /\ i > activeIndex => Bytes(i) <= Left
      /\ i = activeIndex => Bytes(i) <= Left + ActiveSize + Cardinality(Unrecorded(i))
      /\ i < activeIndex =>
            Bytes(i) + Cardinality(Writing(i)) * MaxFrame
                <= Left + (SegmentBytes - 1) + Cardinality(Writers) * MaxFrame
  BY DEF FileSizes
<1>5. i > activeIndex' => Bytes(i)' <= Left'
  BY <1>1, <1>3, <1>4
<1>6. i = activeIndex' => Bytes(i)' <= Left' + ActiveSize' + Cardinality(Unrecorded(i)')
  BY <1>1, <1>2, <1>3, <1>4
<1>7. ASSUME i < activeIndex'
      PROVE  Bytes(i)' + Cardinality(Writing(i)') * MaxFrame
                 <= Left' + (SegmentBytes - 1) + Cardinality(Writers) * MaxFrame
  <2>1. Cardinality(Writing(i)') <= Cardinality(Writing(i))
    BY <1>2, <1>3, <1>7, FS_Subset
  <2>2. Cardinality(Writing(i)') * MaxFrame <= Cardinality(Writing(i)) * MaxFrame
        /\ Cardinality(Writing(i)') * MaxFrame \in Nat /\ Cardinality(Writing(i)) * MaxFrame \in Nat
    <3>1. \A a, b, m \in Nat : a <= b => a * m <= b * m /\ a * m \in Nat /\ b * m \in Nat
      <4> SUFFICES ASSUME NEW a \in Nat, NEW b \in Nat, NEW m \in Nat, a <= b
                   PROVE  a * m <= b * m /\ a * m \in Nat /\ b * m \in Nat
        OBVIOUS
      <4>1. PICK d \in Nat : b = a + d
        <5>1. b - a \in Nat /\ b = a + (b - a)
          OBVIOUS
        <5> QED BY <5>1
      <4>2. b * m = a * m + d * m /\ d * m \in Nat /\ a * m \in Nat
        BY <4>1
      <4> QED BY <4>2
    <3> QED BY <1>1, <1>2, <2>1, <3>1
  <2>3. i < activeIndex
    BY <1>7
  <2> DEFINE x == Cardinality(Writing(i)') * MaxFrame
             y == Cardinality(Writing(i)) * MaxFrame
             z == Cardinality(Writers) * MaxFrame
  <2>4. x <= y /\ x \in Nat /\ y \in Nat /\ z \in Nat
        /\ Bytes(i) + y <= Left + (SegmentBytes - 1) + z
    BY <1>1, <1>4, <2>2, <2>3
  <2> HIDE DEF x, y, z
  <2>5. Bytes(i)' + x <= Left' + (SegmentBytes - 1) + z
    BY <1>1, <1>3, <2>4
  <2> QED BY <2>5 DEF x, z
<1> QED BY <1>5, <1>6, <1>7

\* The bytes recorded against the active segment leave room in it.
LEMMA ActiveHasRoom ==
    ASSUME SegmentInv
    PROVE  ActiveSize \in Nat /\ ActiveSize <= SegmentBytes - 1
<1>1. SegmentBytes \in Nat \ {0}
  BY SizesAssumption
<1>2. CASE segments = <<>>
  BY <1>1, <1>2 DEF ActiveSize
<1>3. CASE segments # <<>>
  <2>1. Len(segments) \in 1..Len(segments) /\ segments \in Seq(Segment)
        /\ segments[Len(segments)].size < SegmentBytes
    BY <1>3 DEF SegmentInv, SegmentWindow
  <2>2. segments[Len(segments)].size \in Nat
    <3>1. segments[Len(segments)] \in Segment
      BY <2>1
    <3> QED BY <3>1 DEF Segment
  <2> QED BY <1>1, <1>3, <2>1, <2>2 DEF ActiveSize
<1> QED BY <1>2, <1>3

\* A frame reaches its file: it is one frame less under way, and unrecorded.
LEMMA WriteFrameSizes ==
    ASSUME SizeInv, SegmentInv, CallInv, NEW w \in Writers, WriteFrame(w)
    PROVE  SizeInv'
<1>0. PICK s, n : s = call[w].seg /\ n = call[w].size
  OBVIOUS
<1>1. /\ call \in [Writers -> Call] /\ call[w].pc = "write" /\ s \in 1..activeIndex
      /\ s \in Nat \ {0} /\ n \in Nat /\ n <= MaxFrame /\ call[w].lsn \in Nat
      /\ activeIndex \in Nat /\ MaxFrame \in Nat /\ crashes \in Nat /\ FilesInv
      /\ UNCHANGED <<segments, activeIndex, crashes>>
  <2>1. call[w] \in Call /\ call[w].pc = "write"
    BY DEF CallInv, WriteFrame
  <2>2. call[w].seg \in 1..activeIndex /\ call[w].size <= MaxFrame /\ activeIndex \in Nat
    BY <2>1 DEF SizeInv, TargetsInv, SegmentInv
  <2>3. n \in Nat /\ call[w].lsn \in Nat
    BY <1>0, <2>1, BoundsAssumption DEF Call
  <2>4. MaxFrame \in Nat /\ s \in Nat \ {0}
    BY <1>0, <2>2, BoundHasRoom
  <2> QED
    BY <1>0, <2>1, <2>2, <2>3, <2>4 DEF CallInv, SizeInv, WriteFrame, segmentVars, envVars
<1>2. /\ AppendToFile(s, call[w].lsn, n)
      /\ \A v \in Writers : v # w => call'[v] = call[v]
      /\ call'[w].pc = "record" /\ call'[w].seg = s /\ call'[w].size = n
  BY <1>0, <1>1 DEF WriteFrame, Call
<1>3. /\ FilesInv' /\ Bytes(s)' = Bytes(s) + n
      /\ \A i : i # s => Bytes(i)' = Bytes(i)
  BY <1>1, <1>2, AppendToFileFacts DEF Bytes
<1>4. \A i : Bytes(i) \in Nat
  BY <1>1, BytesFacts
<1>5. TargetsInv'
  <2> SUFFICES ASSUME NEW v \in Writers, call'[v].pc \in {"write", "record"}
               PROVE  call'[v].seg \in 1..activeIndex' /\ call'[v].size <= MaxFrame
    BY <1>1 DEF SizeInv, TargetsInv
  <2>1. CASE v = w
    BY <1>1, <1>2, <2>1
  <2>2. CASE v # w
    BY <1>1, <1>2, <2>2 DEF SizeInv, TargetsInv
  <2> QED BY <2>1, <2>2
<1>6. Cardinality(Writing(s)') = Cardinality(Writing(s)) - 1 /\ Cardinality(Writing(s)) \in Nat \ {0}
  <2>1. w \in Writing(s) /\ Writing(s)' = Writing(s) \ {w}
    BY <1>0, <1>1, <1>2, FramesMove DEF Writing
  <2>2. IsFiniteSet(Writing(s)) /\ Cardinality(Writing(s)) \in Nat
    BY FrameCounts
  <2>3. Cardinality(Writing(s)') = Cardinality(Writing(s)) - 1
    BY <2>1, <2>2, FS_RemoveElement
  <2>4. Cardinality(Writing(s)') \in Nat
    BY FrameCountsNext
  <2> QED BY <2>2, <2>3, <2>4
<1>7. Cardinality(Unrecorded(s)') = Cardinality(Unrecorded(s)) + n
  <2>1. /\ Written(s)' = Written(s) \union {w} /\ w \notin Written(s)
        /\ \A v \in Written(s) : call'[v] = call[v]
    BY <1>0, <1>1, <1>2 DEF Written
  <2>2. Unrecorded(s)' = Unrecorded(s) \union ({w} \X (1..n))
    BY <1>1, <1>2, <2>1 DEF Unrecorded
  <2>3. Unrecorded(s) \intersect ({w} \X (1..n)) = {}
    BY <2>1 DEF Unrecorded
  <2>4. IsFiniteSet(Unrecorded(s))
    BY FrameCounts
  <2>5. n \in Nat
    BY <1>1
  <2>6. Cardinality(Unrecorded(s) \union ({w} \X (1..n))) = Cardinality(Unrecorded(s)) + n
    BY <2>3, <2>4, <2>5, UnitsAdd, Zenon
  <2> QED BY <2>2, <2>6, Zenon
<1>8. ASSUME NEW i \in Nat \ {0}, i # s
      PROVE  Writing(i)' = Writing(i) /\ Unrecorded(i)' = Unrecorded(i)
  <2>1. ~(call[w].seg = i) /\ ~(call'[w].seg = i)
    BY <1>0, <1>2, <1>8
  <2>2. w \notin Writing(i)
    BY <2>1 DEF Writing
  <2>3. Writing(i)' = Writing(i) \ {w} /\ Unrecorded(i)' = Unrecorded(i)
    BY <1>1, <1>2, <2>1, FramesMove
  <2> QED BY <2>2, <2>3
<1>9. ActiveSize' = ActiveSize /\ Left' = Left
  BY <1>1 DEF ActiveSize, Left
<1>10. FileSizes'
  <2> SUFFICES ASSUME NEW i \in Nat \ {0}
               PROVE  /\ i > activeIndex' => Bytes(i)' <= Left'
                      /\ i = activeIndex' =>
                            Bytes(i)' <= Left' + ActiveSize' + Cardinality(Unrecorded(i)')
                      /\ i < activeIndex' =>
                            Bytes(i)' + Cardinality(Writing(i)') * MaxFrame
                                <= Left' + (SegmentBytes - 1) + Cardinality(Writers) * MaxFrame
    BY DEF FileSizes
  <2>1. /\ i > activeIndex => Bytes(i) <= Left
        /\ i = activeIndex => Bytes(i) <= Left + ActiveSize + Cardinality(Unrecorded(i))
        /\ i < activeIndex =>
              Bytes(i) + Cardinality(Writing(i)) * MaxFrame
                  <= Left + (SegmentBytes - 1) + Cardinality(Writers) * MaxFrame
    BY DEF SizeInv, FileSizes
  <2>2. CASE i # s
    BY <1>1, <1>3, <1>8, <1>9, <2>1, <2>2
  <2>3. CASE i = s
    <3>1. Left \in Nat /\ ActiveSize \in Nat /\ Cardinality(Unrecorded(i)) \in Nat
          /\ SegmentBytes \in Nat /\ Cardinality(Writers) * MaxFrame \in Nat
      BY <1>1, SizeNumbers, ActiveHasRoom, FrameCounts
    <3>2. Bytes(i) \in Nat /\ Bytes(i)' = Bytes(i) + n /\ ~(i > activeIndex)
      BY <1>1, <1>3, <1>4, <2>3
    <3>3. i = activeIndex =>
             Bytes(i)' <= Left' + ActiveSize' + Cardinality(Unrecorded(i)')
      BY <1>1, <1>7, <1>9, <2>1, <2>3, <3>1, <3>2
    <3>4. ASSUME i < activeIndex
          PROVE  Bytes(i)' + Cardinality(Writing(i)') * MaxFrame
                     <= Left' + (SegmentBytes - 1) + Cardinality(Writers) * MaxFrame
      <4> DEFINE c == Cardinality(Writing(i))
                 z == Cardinality(Writers) * MaxFrame
      <4>1. c \in Nat \ {0} /\ Cardinality(Writing(i)') = c - 1
        BY <1>6, <2>3
      <4>2. Bytes(i) + c * MaxFrame <= Left + (SegmentBytes - 1) + z /\ z \in Nat
        BY <2>1, <3>1, <3>4
      <4> HIDE DEF c, z
      <4>3. c * MaxFrame = (c - 1) * MaxFrame + MaxFrame /\ (c - 1) * MaxFrame \in Nat
        BY <1>1, <4>1
      <4>4. Bytes(i)' + (c - 1) * MaxFrame <= Left + (SegmentBytes - 1) + z
        BY <1>1, <3>1, <3>2, <4>2, <4>3
      <4> QED BY <1>9, <4>1, <4>4 DEF z
    <3> QED BY <1>1, <3>2, <3>3, <3>4
  <2> QED BY <2>2, <2>3
<1> QED BY <1>1, <1>3, <1>5, <1>10 DEF SizeInv

\* recordWrite(): the frame is recorded against the active segment, whichever file
\* it went to, and may rotate the segment out.
LEMMA RecordWriteSizes ==
    ASSUME SizeInv, SegmentInv, CallInv, NEW w \in Writers, RecordWrite(w)
    PROVE  SizeInv'
<1> DEFINE a == activeIndex
<1>0. PICK s, n : s = call[w].seg /\ n = call[w].size
  OBVIOUS
<1>1. /\ call \in [Writers -> Call] /\ call[w].pc = "record" /\ s \in 1..a
      /\ n \in Nat /\ n <= MaxFrame /\ a \in Nat \ {0} /\ MaxFrame \in Nat /\ crashes \in Nat
      /\ segments # <<>> /\ UNCHANGED <<files, crashes>>
  <2>1. call[w] \in Call /\ call[w].pc = "record"
    BY DEF CallInv, RecordWrite, OpenedIndex
  <2>2. call[w].seg \in 1..activeIndex /\ call[w].size <= MaxFrame /\ activeIndex \in Nat
    BY <2>1 DEF SizeInv, TargetsInv, SegmentInv
  <2>3. n \in Nat /\ MaxFrame \in Nat /\ a # 0
    BY <1>0, <2>1, <2>2, BoundHasRoom DEF Call
  <2> QED BY <1>0, <2>1, <2>2, <2>3 DEF CallInv, SizeInv, TargetsInv, RecordWrite, envVars, OpenedIndex
<1>2. /\ segments' # <<>>
      /\ \/ activeIndex' = a /\ ActiveSize' = ActiveSize + n
         \/ activeIndex' = a + 1 /\ ActiveSize' = 0
  BY <1>0, <1>1, RecordWriteFacts
<1>3. /\ \A v \in Writers : v # w => call'[v] = call[v]
      /\ call'[w].pc \in {"trim", "account"}
  <2>1. PICK seg : \/ call' = [call EXCEPT ![w].pc = "account"]
                   \/ call' = [call EXCEPT ![w].pc = "trim", ![w].seg = seg]
    BY TrimMoves, Zenon
  <2> QED BY <1>1, <2>1 DEF Call
<1>4. FilesInv /\ FilesInv' /\ \A i : Bytes(i)' = Bytes(i) /\ Bytes(i) \in Nat
  BY <1>1, BytesFacts DEF SizeInv, FilesInv, Bytes, FileAt
<1>5. TargetsInv'
  <2>1. activeIndex' \in Nat \ {0} /\ a <= activeIndex'
    BY <1>1, <1>2
  <2>2. ASSUME NEW v \in Writers, call'[v].pc \in {"write", "record"}
        PROVE  call'[v].seg \in 1..activeIndex' /\ call'[v].size <= MaxFrame
    <3>1. call'[v] = call[v]
      BY <1>3, <2>2
    <3>2. call[v].seg \in 1..a /\ call[v].size <= MaxFrame
      BY <2>2, <3>1 DEF SizeInv, TargetsInv
    <3> QED BY <1>1, <2>1, <3>1, <3>2
  <2> QED BY <1>2, <2>1, <2>2 DEF TargetsInv
<1>6. \A i : Writing(i)' = Writing(i)
  <2>1. \A i : Writing(i)' = Writing(i) \ {w} /\ w \notin Writing(i)
    BY <1>1, <1>3, FramesMove DEF Writing
  <2> QED BY <2>1
<1>7. \A i : i # s => Unrecorded(i)' = Unrecorded(i)
  BY <1>0, <1>1, <1>3, FramesMove
<1>8. Cardinality(Unrecorded(s)) = Cardinality(Unrecorded(s)') + n
  <2>1. /\ Written(s) = Written(s)' \union {w} /\ w \notin Written(s)'
        /\ \A v \in Written(s)' : call'[v] = call[v]
    BY <1>0, <1>1, <1>3 DEF Written
  <2>2. Unrecorded(s) = Unrecorded(s)' \union ({w} \X (1..n))
    BY <1>0, <1>1, <2>1 DEF Unrecorded
  <2>3. Unrecorded(s)' \intersect ({w} \X (1..n)) = {}
    BY <2>1 DEF Unrecorded
  <2>4. IsFiniteSet(Unrecorded(s)')
    BY FrameCountsNext
  <2>5. n \in Nat
    BY <1>1
  <2>6. Cardinality(Unrecorded(s)' \union ({w} \X (1..n))) = Cardinality(Unrecorded(s)') + n
    BY <2>3, <2>4, <2>5, UnitsAdd, Zenon
  <2> QED BY <2>2, <2>6, Zenon
<1>9. /\ Left' = Left /\ Left \in Nat /\ SegmentBytes \in Nat \ {0}
      /\ Cardinality(Writers) * MaxFrame \in Nat
      /\ ActiveSize \in Nat /\ ActiveSize <= SegmentBytes - 1
  BY <1>1, SizeNumbers, ActiveHasRoom DEF Left
<1>10. FileSizes'
  <2> SUFFICES ASSUME NEW i \in Nat \ {0}
               PROVE  /\ i > activeIndex' => Bytes(i)' <= Left'
                      /\ i = activeIndex' =>
                            Bytes(i)' <= Left' + ActiveSize' + Cardinality(Unrecorded(i)')
                      /\ i < activeIndex' =>
                            Bytes(i)' + Cardinality(Writing(i)') * MaxFrame
                                <= Left' + (SegmentBytes - 1) + Cardinality(Writers) * MaxFrame
    BY DEF FileSizes
  <2> DEFINE x == Cardinality(Writing(i)) * MaxFrame
             u == Cardinality(Unrecorded(i))
             v == Cardinality(Unrecorded(i)')
             z == Cardinality(Writers) * MaxFrame
  <2>1. /\ i > a => Bytes(i) <= Left
        /\ i = a => Bytes(i) <= Left + ActiveSize + u
        /\ i < a => Bytes(i) + x <= Left + (SegmentBytes - 1) + z
    BY DEF SizeInv, FileSizes
  <2>2. u \in Nat /\ v \in Nat /\ x \in Nat /\ z \in Nat /\ u + x <= z /\ Cardinality(Writing(i)') * MaxFrame = x
    <3>1. u \in Nat /\ v \in Nat /\ Cardinality(Writing(i)) \in Nat /\ u + x <= z
      BY FrameCounts, FrameCountsNext
    <3> QED BY <1>1, <1>6, <1>9, <3>1
  <2>3. u <= v + n
    <3>1. CASE i = s
      BY <1>1, <1>8, <2>2, <3>1
    <3>2. CASE i # s
      BY <1>1, <1>7, <2>2, <3>2
    <3> QED BY <3>1, <3>2
  <2>4. Bytes(i)' = Bytes(i) /\ Bytes(i) \in Nat
    BY <1>4
  <2> HIDE DEF x, u, v, z
  <2>5. /\ i > activeIndex' => Bytes(i)' <= Left'
        /\ i = activeIndex' => Bytes(i)' <= Left' + ActiveSize' + v
        /\ i < activeIndex' => Bytes(i)' + x <= Left' + (SegmentBytes - 1) + z
    <3>1. CASE activeIndex' = a /\ ActiveSize' = ActiveSize + n
      BY <1>1, <1>9, <2>1, <2>2, <2>3, <2>4, <3>1
    <3>2. CASE activeIndex' = a + 1 /\ ActiveSize' = 0
      <4>1. i = a \/ i < a \/ i = a + 1 \/ i > a + 1
        BY <1>1
      <4> QED BY <1>1, <1>9, <2>1, <2>2, <2>4, <3>2, <4>1
    <3> QED BY <1>2, <3>1, <3>2
  <2> QED BY <2>2, <2>5 DEF v, z
<1> QED BY <1>1, <1>4, <1>5, <1>10 DEF SizeInv

\* The bytes of the next state's files.
LEMMA BytesFactsNext ==
    ASSUME FilesInv', NEW i
    PROVE  Bytes(i)' \in Nat
<1> DEFINE recs == FileAt(i).recs'
<1>1. recs \in Seq(Record)
  BY DEF FilesInv, FileAt, EmptyFile
<1>2. Bytes(i)' = EndOf(recs)
  BY DEF Bytes, EndOf
<1> HIDE DEF recs
<1>3. EndOf(recs) \in Nat
  <2>1. CASE recs = <<>>
    BY <2>1 DEF EndOf
  <2>2. CASE recs # <<>>
    <3>1. recs[Len(recs)] \in Record
      BY <1>1, <2>2
    <3> QED BY <2>2, <3>1 DEF EndOf, Record
  <2> QED BY <2>1, <2>2
<1> QED BY <1>2, <1>3

\* The other steps add no bytes: a call begins a frame for the active segment, or
\* its frame is not under way to a file before and after.
LEMMA QuietSizeStep ==
    ASSUME SizeInv, SegmentInv, call \in [Writers -> Call],
           segmentVars' = segmentVars \/ OpenSegment,
           \A v \in Writers :
               \/ call'[v] = call[v]
               \/ /\ call[v].pc # "record" /\ call'[v].pc # "record"
                  /\ call'[v].pc = "write" =>
                        OpenSegment /\ call'[v].seg = ActiveSegment /\ call'[v].size <= MaxFrame,
           crashes' = crashes, FilesInv', \A i \in Nat \ {0} : Bytes(i)' <= Bytes(i)
    PROVE  SizeInv'
<1>1. /\ activeIndex \in Nat /\ crashes \in Nat /\ FilesInv /\ FileSizes /\ TargetsInv
      /\ segments = <<>> <=> activeIndex = 0
  BY DEF SegmentInv, SizeInv, TargetsInv
<1>2. /\ activeIndex' \in Nat /\ activeIndex <= activeIndex' /\ ActiveSize' = ActiveSize
      /\ activeIndex' = activeIndex \/ (activeIndex = 0 /\ activeIndex' = 1)
      /\ segments' = <<>> <=> activeIndex' = 0
      /\ OpenSegment => ActiveSegment = activeIndex' /\ activeIndex' # 0
  <2>1. CASE OpenSegment
    BY <1>1, <2>1, OpenSegmentFacts
  <2>2. CASE segmentVars' = segmentVars /\ ~OpenSegment
    BY <1>1, <2>2 DEF segmentVars, ActiveSize
  <2> QED BY <2>1, <2>2
<1>3. TargetsInv'
  <2>1. ASSUME NEW v \in Writers, call'[v].pc \in {"write", "record"}
        PROVE  call'[v].seg \in 1..activeIndex' /\ call'[v].size <= MaxFrame
    <3>1. CASE call'[v] = call[v]
      <4>1. call[v].seg \in 1..activeIndex /\ call[v].size <= MaxFrame
        BY <1>1, <2>1, <3>1 DEF TargetsInv
      <4> QED BY <1>1, <1>2, <3>1, <4>1
    <3>2. CASE call'[v] # call[v]
      <4>1. OpenSegment /\ call'[v].seg = ActiveSegment /\ call'[v].size <= MaxFrame
        BY <2>1, <3>2
      <4>2. activeIndex' \in 1..activeIndex'
        BY <1>2, <4>1
      <4> QED BY <1>2, <4>1, <4>2
    <3> QED BY <3>1, <3>2
  <2> QED BY <1>2, <2>1 DEF TargetsInv
<1>4. ASSUME NEW i \in Nat \ {0}
      PROVE  /\ i < activeIndex' => Writing(i)' \subseteq Writing(i)
             /\ Unrecorded(i)' = Unrecorded(i)
  <2>1. ASSUME i < activeIndex', NEW v \in Writing(i)'
        PROVE  v \in Writing(i)
    <3>1. v \in Writers /\ call'[v].pc = "write" /\ call'[v].seg = i
      BY <2>1 DEF Writing
    <3>2. call'[v] = call[v]
      BY <1>2, <2>1, <3>1
    <3> QED BY <3>1, <3>2 DEF Writing
  <2>2. Written(i)' = Written(i) /\ \A v \in Written(i) : call'[v] = call[v]
    BY DEF Written
  <2>3. Unrecorded(i)' = Unrecorded(i)
    BY <2>2 DEF Unrecorded
  <2> QED BY <2>1, <2>3
<1>5. \A i \in Nat \ {0} : Bytes(i) \in Nat /\ Bytes(i)' \in Nat
  <2>1. \A i : Bytes(i) \in Nat
    BY <1>1, BytesFacts
  <2>2. \A i : Bytes(i)' \in Nat
    BY BytesFactsNext
  <2> QED BY <2>1, <2>2
<1>6. ActiveSize \in Nat
  BY ActiveHasRoom
<1>7. FileSizes'
  BY <1>1, <1>2, <1>4, <1>5, <1>6, QuietSizes
<1> QED BY <1>1, <1>3, <1>7 DEF SizeInv

\* Every step of append() keeps the sizes (append, recordWrite, trimWindow).
LEMMA AppendSizes ==
    ASSUME SizeInv, SegmentInv, CallInv, NEW w \in Writers, AppendStep(w)
    PROVE  SizeInv'
<1>1. /\ call \in [Writers -> Call] /\ FilesInv /\ crashes \in Nat
      /\ \A i : Bytes(i) \in Nat
  BY BytesFacts DEF CallInv, SizeInv
<1>2. CASE WriteFrame(w)
  BY <1>2, WriteFrameSizes
<1>3. CASE RecordWrite(w)
  BY <1>3, RecordWriteSizes
<1>4. ASSUME files' = files PROVE FilesInv' /\ \A i : Bytes(i)' <= Bytes(i)
  <2>1. \A i : Bytes(i)' = Bytes(i)
    BY <1>4 DEF Bytes, FileAt
  <2> QED BY <1>1, <1>4, <2>1 DEF FilesInv
<1>5. CASE RefuseAppend(w)
  <2>1. segmentVars' = segmentVars /\ call' = call /\ crashes' = crashes /\ files' = files
    BY <1>5 DEF RefuseAppend, envVars
  <2> QED BY <1>1, <1>4, <2>1, QuietSizeStep
<1>6. CASE BeginAppend(w)
  <2>1. PICK payload \in Payloads :
           call' = [call EXCEPT ![w] =
              [pc |-> "write", lsn |-> nextLsn, size |-> payload + HeaderBytes,
               seg |-> ActiveSegment]]
    BY <1>6 DEF BeginAppend
  <2>2. payload + HeaderBytes <= MaxFrame
    BY BoundHasRoom, SizesAssumption DEF MaxFrame
  <2>3. /\ OpenSegment /\ crashes' = crashes /\ files' = files
        /\ call[w].pc = "idle"
    BY <1>6 DEF BeginAppend, envVars
  <2>4. \A v \in Writers : v # w => call'[v] = call[v]
    BY <1>1, <2>1
  <2>5. call'[w].pc = "write" /\ call'[w].seg = ActiveSegment /\ call'[w].size <= MaxFrame
    BY <1>1, <2>1, <2>2
  <2> QED BY <1>1, <1>4, <2>3, <2>4, <2>5, QuietSizeStep
<1>7. CASE TrimFile(w)
  <2>1. OpenSegment /\ call' = [call EXCEPT ![w].pc = "account"]
    BY <1>7, TrimFileFacts
  <2>2. \A v \in Writers : v # w => call'[v] = call[v]
    BY <1>1, <2>1
  <2>3. call'[w].pc = "account" /\ call[w].pc = "trim" /\ crashes' = crashes
    BY <1>1, <1>7, <2>1 DEF TrimFile, Call, envVars, OpenedIndex
  <2>4. FilesInv' /\ \A i : Bytes(i)' <= Bytes(i)
    <3>1. CASE files' = FilesWithout(call[w].seg)
      <4>1. FilesInv' /\ \A i : FileAt(i)' = IF i = call[w].seg THEN EmptyFile ELSE FileAt(i)
        BY <1>1, <3>1, DeleteFacts
      <4>2. \A i : Bytes(i)' = IF i = call[w].seg THEN 0 ELSE Bytes(i)
        BY <4>1 DEF Bytes, EmptyFile, EndOf
      <4> QED BY <1>1, <4>1, <4>2
    <3>2. CASE files' = files
      BY <1>4, <3>2
    <3> QED BY <1>7, <3>1, <3>2 DEF TrimFile, OpenedIndex
  <2> QED BY <1>1, <2>1, <2>2, <2>3, <2>4, QuietSizeStep
<1>8. CASE Account(w)
  <2>1. /\ segmentVars' = segmentVars \/ OpenSegment
        /\ crashes' = crashes /\ files' = files /\ call[w].pc = "account"
    BY <1>8 DEF Account, envVars
  <2>2. /\ \A v \in Writers : v # w => call'[v] = call[v]
        /\ call'[w].pc \in {"fsync", "idle"}
    <3>1. \/ call' = [call EXCEPT ![w] = Idle]
          \/ call' = [call EXCEPT ![w].pc = "fsync", ![w].seg = ActiveSegment]
      BY <1>8 DEF Account, Return
    <3> QED BY <1>1, <3>1 DEF Call, Idle
  <2> QED BY <1>1, <1>4, <2>1, <2>2, QuietSizeStep
<1>9. CASE Fsync(w)
  <2>1. /\ segmentVars' = segmentVars /\ crashes' = crashes /\ call[w].pc = "fsync"
        /\ \A v \in Writers : v # w => call'[v] = call[v]
        /\ call'[w].pc = "flushed"
    BY <1>1, <1>9 DEF Fsync, envVars, Call
  <2>2. FilesInv' /\ \A i : Bytes(i)' <= Bytes(i)
    <3>1. FilesInv' /\ \A i : FileAt(i)'.recs = FileAt(i).recs
      BY <1>1, <1>9, SyncFileFacts DEF Fsync
    <3>2. \A i : Bytes(i)' = Bytes(i)
      BY <3>1 DEF Bytes
    <3> QED BY <1>1, <3>1, <3>2
  <2> QED BY <1>1, <2>1, <2>2, QuietSizeStep
<1>10. CASE Flushed(w) \/ RejectAppend(w)
  <2>1. /\ segmentVars' = segmentVars /\ crashes' = crashes /\ files' = files
        /\ call[w].pc \in {"write", "fsync", "flushed"}
        /\ call' = [call EXCEPT ![w] = Idle]
    BY <1>10 DEF Flushed, RejectAppend, Return, envVars
  <2>2. /\ \A v \in Writers : v # w => call'[v] = call[v]
        /\ call'[w].pc = "idle"
    BY <1>1, <2>1 DEF Idle
  <2> QED BY <1>1, <1>4, <2>1, <2>2, QuietSizeStep
<1> QED
  BY <1>2, <1>3, <1>5, <1>6, <1>7, <1>8, <1>9, <1>10 DEF AppendStep

\* Switching modes, timers and restarts keep the sizes: a restart numbers the segments
\* from one again, over the files the lives before it left.
LEMMA OtherSizes ==
    ASSUME SizeInv, SegmentInv, CallInv,
           \/ \E s \in Switchers : SwitchStep(s)
           \/ LeavePartition \/ MarkTimer \/ Tick \/ Crash \/ UNCHANGED walVars
    PROVE  SizeInv'
<1>1. /\ call \in [Writers -> Call] /\ FilesInv /\ crashes \in Nat
      /\ \A i : Bytes(i) \in Nat
  BY BytesFacts DEF CallInv, SizeInv
<1>2. CASE ~Crash
  <2>1. call' = call /\ crashes' = crashes /\ (segmentVars' = segmentVars \/ OpenSegment)
    BY <1>2 DEF SwitchStep, EnterPartition, SwitchFsync, SwitchFlushed, RejectSwitch,
       LeavePartition, MarkTimer, Tick, walVars, envVars
  <2>2. files' = files \/ \E i : SyncFile(i)
    BY <1>2 DEF SwitchStep, EnterPartition, SwitchFsync, SwitchFlushed, RejectSwitch,
       LeavePartition, MarkTimer, Tick, walVars
  <2>3. FilesInv' /\ \A i : Bytes(i)' = Bytes(i)
    <3>1. CASE files' = files
      BY <1>1, <3>1 DEF FilesInv, Bytes, FileAt
    <3>2. CASE \E i : SyncFile(i)
      BY <1>1, <3>2, SyncFileFacts DEF Bytes
    <3> QED BY <2>2, <3>1, <3>2
  <2> QED BY <1>1, <2>1, <2>3, QuietSizeStep
<1>3. CASE Crash
  <2>1. /\ segments' = <<>> /\ activeIndex' = 0 /\ crashes' = crashes + 1
        /\ call' = [v \in Writers |-> Idle]
    BY <1>3 DEF Crash
  <2>2. /\ FilesInv' /\ DOMAIN files' = DOMAIN files
        /\ \A i \in DOMAIN files : Bytes(i)' <= Bytes(i)
    BY <1>1, <1>3, RestartFiles
  <2>3. TargetsInv'
    BY <2>1 DEF TargetsInv, Idle
  <2>4. \A i : Bytes(i)' <= Bytes(i)
    <3>1. \A i : i \notin DOMAIN files => Bytes(i)' = Bytes(i)
      BY <2>2 DEF Bytes, FileAt
    <3> QED BY <1>1, <2>2, <3>1
  <2>5. \A i \in Nat \ {0} : Bytes(i)' <= Left'
    <3> DEFINE z == Cardinality(Writers) * MaxFrame
    <3>1. /\ Left \in Nat /\ z \in Nat /\ SegmentBytes \in Nat \ {0}
          /\ ActiveSize \in Nat /\ ActiveSize <= SegmentBytes - 1 /\ MaxFrame \in Nat
      BY <1>1, SizeNumbers, ActiveHasRoom
    <3>2. Left = crashes * (SegmentBytes + z) /\ Left' = (crashes + 1) * (SegmentBytes + z)
      BY <2>1 DEF Left
    <3> HIDE DEF z
    <3>3. Left' = Left + SegmentBytes + z
      BY <1>1, <3>1, <3>2
    <3> SUFFICES ASSUME NEW i \in Nat \ {0} PROVE Bytes(i)' <= Left'
      OBVIOUS
    <3> DEFINE x == Cardinality(Writing(i)) * MaxFrame
               u == Cardinality(Unrecorded(i))
    <3>4. u \in Nat /\ x \in Nat /\ u + x <= z
      <4>1. Cardinality(Writing(i)) \in Nat /\ u \in Nat /\ u + x <= z
        BY FrameCounts DEF z
      <4> QED BY <3>1, <4>1
    <3>5. /\ i > activeIndex => Bytes(i) <= Left
          /\ i = activeIndex => Bytes(i) <= Left + ActiveSize + u
          /\ i < activeIndex => Bytes(i) + x <= Left + (SegmentBytes - 1) + z
      BY DEF SizeInv, FileSizes, z
    <3> HIDE DEF x, u
    <3>6. Bytes(i) \in Nat /\ Bytes(i)' \in Nat /\ Bytes(i)' <= Bytes(i) /\ activeIndex \in Nat
      <4>1. Bytes(i)' \in Nat
        BY <2>2, BytesFactsNext
      <4> QED BY <1>1, <2>4, <4>1 DEF SegmentInv
    <3>7. Bytes(i) <= Left + SegmentBytes + z
      BY <3>1, <3>4, <3>5, <3>6
    <3> QED BY <3>1, <3>3, <3>6, <3>7
  <2>6. FileSizes'
    <3> SUFFICES ASSUME NEW i \in Nat \ {0}
                 PROVE  /\ i > activeIndex' => Bytes(i)' <= Left'
                        /\ ~(i = activeIndex') /\ ~(i < activeIndex')
      BY DEF FileSizes
    <3> QED BY <2>1, <2>5
  <2> QED BY <1>1, <2>1, <2>2, <2>3, <2>6 DEF SizeInv
<1> QED BY <1>2, <1>3

\* The bound on every file follows: the frames of a file, under way or unrecorded, are
\* no more than one for each writer.
LEMMA SizesGiveBound ==
    ASSUME SizeInv, SegmentInv
    PROVE  FileSizeBounded
<1> DEFINE z == Cardinality(Writers) * MaxFrame
<1>1. /\ FilesInv /\ crashes \in Nat /\ activeIndex \in Nat
      /\ Left \in Nat /\ z \in Nat /\ SegmentBytes \in Nat \ {0}
      /\ ActiveSize \in Nat /\ ActiveSize <= SegmentBytes - 1 /\ MaxFrame \in Nat
  BY SizeNumbers, ActiveHasRoom DEF SizeInv, SegmentInv
<1>2. Left = crashes * (SegmentBytes + z)
  BY DEF Left
<1> HIDE DEF z
<1>3. (crashes + 1) * (SegmentBytes + z) = Left + SegmentBytes + z
  BY <1>1, <1>2
<1>4. ASSUME NEW i \in DOMAIN files
      PROVE  BytesIn(i) < (crashes + 1) * (SegmentBytes + z)
  <2> DEFINE x == Cardinality(Writing(i)) * MaxFrame
             u == Cardinality(Unrecorded(i))
  <2>1. u \in Nat /\ x \in Nat /\ u + x <= z
    <3>1. Cardinality(Writing(i)) \in Nat /\ u \in Nat /\ u + x <= z
      BY FrameCounts DEF z
    <3> QED BY <1>1, <3>1
  <2>2. i \in Nat \ {0} /\ BytesIn(i) = Bytes(i) /\ Bytes(i) \in Nat
    BY <1>1, BytesFacts DEF FilesInv, BytesIn, Bytes, FileAt
  <2>3. /\ i > activeIndex => Bytes(i) <= Left
        /\ i = activeIndex => Bytes(i) <= Left + ActiveSize + u
        /\ i < activeIndex => Bytes(i) + x <= Left + (SegmentBytes - 1) + z
    BY <2>2 DEF SizeInv, FileSizes, z
  <2> HIDE DEF x, u
  <2> QED BY <1>1, <1>3, <2>1, <2>2, <2>3
<1> QED BY <1>4 DEF FileSizeBounded, z

\* At the start there are no files.
LEMMA SizeInitInv == WalInit => SizeInv
<1> SUFFICES ASSUME WalInit PROVE SizeInv
  OBVIOUS
<1>1. /\ segments = <<>> /\ activeIndex = 0 /\ files = <<>> /\ crashes = 0
      /\ call = [w \in Writers |-> Idle]
  BY DEF WalInit
<1>2. DOMAIN files = {}
  BY <1>1
<1>3. FilesInv
  BY <1>2 DEF FilesInv
<1>4. TargetsInv
  BY <1>1 DEF TargetsInv, Idle
<1>5. \A i \in Nat \ {0} : Bytes(i) = 0
  BY <1>2 DEF Bytes, FileAt, EmptyFile, EndOf
<1>6. Left \in Nat
  BY <1>1, SizeNumbers
<1>7. FileSizes
  <2> SUFFICES ASSUME NEW i \in Nat \ {0}
               PROVE  /\ i > activeIndex => Bytes(i) <= Left
                      /\ ~(i = activeIndex) /\ ~(i < activeIndex)
    BY DEF FileSizes
  <2> QED BY <1>1, <1>5, <1>6
<1> QED BY <1>1, <1>3, <1>4, <1>7 DEF SizeInv

\* The sizes stay bounded together with the window.
LEMMA SizeInvariance == WalSpec => []SizeInv
<1>1. WalInv /\ SizeInv /\ [WalNext]_walVars => SizeInv'
  <2> SUFFICES ASSUME WalInv, SizeInv, [WalNext]_walVars PROVE SizeInv'
    OBVIOUS
  <2>1. SegmentInv /\ CallInv
    BY DEF WalInv
  <2> QED BY <2>1, AppendSizes, OtherSizes DEF WalNext
<1> QED BY <1>1, SizeInitInv, WalInvariance, PTL DEF WalSpec

\* Although recordWrite() counts a frame against the segment active at that moment, a
\* segment file outgrows SEGMENT_SIZE_BYTES by no more than one frame per concurrent
\* append, and by as much again for each restart (append, recordWrite, rotate).
THEOREM FilesStayBounded == WalSpec => []FileSizeBounded
<1>1. WalInv /\ SizeInv => FileSizeBounded
  BY SizesGiveBound DEF WalInv
<1> QED BY <1>1, WalInvariance, SizeInvariance, PTL

-----------------------------------------------------------------------------
(* Types, which spills and replays keep too *)

\* A segment that has been opened, and where a call stands.
OpenedSegment == [index : Nat \ {0}, size : Nat, createdAt : Nat]
Placed(c) == c \in Call /\ (c.pc # "idle" => c.lsn # 0)

SegmentTypes == segments \in Seq(OpenedSegment) /\ activeIndex \in Nat /\ clock \in Nat
CallTypes == call \in [Writers -> Call] /\ \A w \in Writers : Placed(call[w])
FileTypes ==
    \A i \in DOMAIN files :
        files[i] \in [recs : Seq(Records), synced : Nat]
            /\ files[i].synced <= Len(files[i].recs)
CounterTypes ==
    /\ Mark!WatermarkTypeOK
    /\ partitionMode \in BOOLEAN
    /\ windowBytes \in Nat /\ windowStart \in Nat /\ unflushed \in Nat
    /\ resetMissed \in BOOLEAN
    /\ switch \in [Switchers -> [pc : {"idle", "fsync", "flushed"}, seg : Nat]]
    /\ nextLsn \in 1..(MaxLsn + 1)
    /\ returned \subseteq 1..MaxLsn
    /\ clock \in 0..MaxClock /\ crashes \in 0..MaxCrashes

TypeInv == SegmentTypes /\ CallTypes /\ FileTypes /\ CounterTypes

\* The parts of the types make up WalTypeOK.
LEMMA TypeInvGivesTypes == TypeInv => WalTypeOK
BY DEF TypeInv, SegmentTypes, CallTypes, FileTypes, CounterTypes, WalTypeOK, OpenedSegment, Call

\* A call that is put elsewhere in append() keeps its LSN.
LEMMA PlacingKeepsTypes ==
    ASSUME CallTypes, NEW w \in Writers, call[w].pc # "idle", NEW pc \in Pcs, NEW seg \in Nat,
           \/ call' = [call EXCEPT ![w].pc = pc]
           \/ call' = [call EXCEPT ![w].pc = pc, ![w].seg = seg]
    PROVE  CallTypes'
<1> DEFINE here == [call[w] EXCEPT !.pc = pc]
           there == [call[w] EXCEPT !.pc = pc, !.seg = seg]
<1>1. call[w] \in Call /\ call[w].lsn # 0
  BY DEF CallTypes, Placed
<1>2. Placed(here) /\ Placed(there)
  BY <1>1 DEF Call, Placed
<1>3. \/ call' = [call EXCEPT ![w] = here]
      \/ call' = [call EXCEPT ![w] = there]
  BY DEF CallTypes
<1> HIDE DEF here, there
<1>4. \A v \in Writers : v # w => call'[v] = call[v]
  BY <1>3 DEF CallTypes
<1>5. call'[w] \in {here, there} /\ DOMAIN call' = Writers
  BY <1>3 DEF CallTypes
<1> QED BY <1>2, <1>3, <1>4, <1>5 DEF CallTypes, Placed

\* A call begins, or is over.
LEMMA StoringKeepsTypes ==
    ASSUME CallTypes, NEW w \in Writers, NEW c, Placed(c), call' = [call EXCEPT ![w] = c]
    PROVE  CallTypes'
BY DEF CallTypes, Placed

\* A call that is over.
LEMMA IdleIsPlaced == Placed(Idle)
BY BoundsAssumption DEF Placed, Idle, Call, Pcs

\* The segment list with the active segment opened.
LEMMA OpenedTypes ==
    ASSUME SegmentTypes
    PROVE  /\ Opened \in Seq(OpenedSegment) /\ Len(Opened) \in Nat \ {0}
           /\ Opened[Len(Opened)] \in OpenedSegment /\ ActiveSegment \in Nat \ {0}
<1>1. Opened \in Seq(OpenedSegment) /\ Len(Opened) \in Nat \ {0}
  <2>1. CASE segments = <<>>
    <3> DEFINE new == [index |-> activeIndex + 1, size |-> 0, createdAt |-> clock]
    <3>1. new \in OpenedSegment /\ Opened = Append(segments, new) /\ segments \in Seq(OpenedSegment)
      BY <2>1 DEF SegmentTypes, OpenedSegment, Opened, WithNewSegment, OpenedIndex
    <3> HIDE DEF new
    <3> QED BY <3>1
  <2>2. CASE segments # <<>>
    BY <2>2 DEF Opened, SegmentTypes, OpenedIndex
  <2> QED BY <2>1, <2>2
<1>2. Opened[Len(Opened)] \in OpenedSegment
  BY <1>1
<1> QED BY <1>1, <1>2 DEF ActiveSegment, OpenedSegment

\* Looking the active segment up.
LEMMA OpenSegmentTypes ==
    ASSUME SegmentTypes, OpenSegment, clock' = clock
    PROVE  SegmentTypes'
BY OpenedTypes DEF SegmentTypes, OpenSegment, OpenedIndex

\* One turn of the trim loop.
LEMMA TrimTypes ==
    ASSUME CallTypes, NEW w \in Writers, call[w].pc # "idle", NEW segs \in Seq(OpenedSegment),
           TrimInto(w, segs)
    PROVE  segments' \in Seq(OpenedSegment) /\ CallTypes'
<1>1. CASE Len(segs) > MaxSegments
  <2>1. segs # <<>> /\ Tail(segs) \in Seq(OpenedSegment) /\ Head(segs) \in OpenedSegment
    BY <1>1, SizesAssumption
  <2>2. "trim" \in Pcs /\ Head(segs).index \in Nat
    BY <2>1 DEF Pcs, OpenedSegment
  <2>3. /\ segments' = Tail(segs)
        /\ call' = [call EXCEPT ![w].pc = "trim", ![w].seg = Head(segs).index]
    BY <1>1 DEF TrimInto
  <2> QED BY <2>1, <2>2, <2>3, PlacingKeepsTypes
<1>2. CASE ~(Len(segs) > MaxSegments)
  <2>1. segments' = segs /\ call' = [call EXCEPT ![w].pc = "account"]
    BY <1>2 DEF TrimInto
  <2>2. "account" \in Pcs /\ 0 \in Nat
    BY DEF Pcs
  <2> QED BY <2>1, <2>2, PlacingKeepsTypes
<1> QED BY <1>1, <1>2

\* recordWrite() counts bytes and may open a segment.
LEMMA RecordWriteTypes ==
    ASSUME SegmentTypes, CallTypes, NEW w \in Writers, RecordWrite(w)
    PROVE  SegmentTypes' /\ CallTypes'
<1> DEFINE grown == Grown(call[w].size)
           n == Len(Opened)
           last == [Opened[n] EXCEPT !.size = @ + call[w].size]
<1>1. /\ Opened \in Seq(OpenedSegment) /\ n \in Nat \ {0} /\ Opened[n] \in OpenedSegment
      /\ call[w].size \in Nat /\ call[w].pc = "record" /\ clock' = clock
  BY OpenedTypes DEF CallTypes, Call, RecordWrite, envVars, OpenedIndex
<1>2. last \in OpenedSegment
  <2>1. \A s \in OpenedSegment, more \in Nat : [s EXCEPT !.size = @ + more] \in OpenedSegment
    BY DEF OpenedSegment
  <2> QED BY <1>1, <2>1
<1>3. grown = [Opened EXCEPT ![n] = last]
  BY DEF Grown
<1> HIDE DEF last, grown
<1>4. grown \in Seq(OpenedSegment) /\ Len(grown) = n /\ grown[n] = last
  <2> HIDE DEF n
  <2>1. n \in 1..Len(Opened)
    BY <1>1 DEF n
  <2> QED BY <1>1, <1>2, <1>3, <2>1 DEF n
<1>5. OpenedIndex \in Nat
  BY DEF OpenedIndex, SegmentTypes
<1>6. CASE IsFull(grown)
  <2> DEFINE index == OpenedIndex
             new == [index |-> index + 1, size |-> 0, createdAt |-> clock]
             longer == WithNewSegment(grown, index + 1)
  <2>1. TrimInto(w, longer) /\ activeIndex' = index + 1
    BY <1>6 DEF RecordWrite, grown
  <2>2. longer = Append(grown, new) /\ new \in OpenedSegment
    BY <1>5 DEF WithNewSegment, OpenedSegment, SegmentTypes
  <2> HIDE DEF new, longer, index
  <2>3. longer \in Seq(OpenedSegment)
    BY <1>4, <2>2
  <2>4. activeIndex' \in Nat
    BY <1>5, <2>1 DEF index
  <2> QED BY <1>1, <2>1, <2>3, <2>4, TrimTypes DEF SegmentTypes
<1>7. CASE ~IsFull(grown)
  <2>1. /\ segments' = grown /\ activeIndex' = OpenedIndex
        /\ call' = [call EXCEPT ![w].pc = "account"]
    BY <1>7 DEF RecordWrite, grown
  <2>2. "account" \in Pcs /\ 0 \in Nat
    BY DEF Pcs
  <2>3. CallTypes'
    BY <1>1, <2>1, <2>2, PlacingKeepsTypes
  <2> QED BY <1>1, <1>4, <1>5, <2>1, <2>3 DEF SegmentTypes
<1> QED BY <1>6, <1>7

\* The operations on files.
LEMMA AppendToFileTypes ==
    ASSUME FileTypes, NEW i, NEW lsn \in 1..MaxLsn, NEW size \in Nat, AppendToFile(i, lsn, size)
    PROVE  FileTypes'
<1> DEFINE recs == FileAt(i).recs
           rec == [lsn |-> lsn, end |-> EndOf(recs) + size]
           file == [FileAt(i) EXCEPT !.recs = Append(recs, rec)]
<1>1. /\ FileAt(i) \in [recs : Seq(Records), synced : Nat]
      /\ FileAt(i).synced <= Len(recs)
  BY DEF FileTypes, FileAt, EmptyFile
<1>2. rec \in Records
  <2>1. EndOf(recs) \in Nat
    <3>1. CASE recs = <<>>
      BY <3>1 DEF EndOf
    <3>2. CASE recs # <<>>
      <4>1. recs \in Seq(Records)
        BY <1>1
      <4> HIDE DEF recs
      <4>2. recs[Len(recs)] \in Records
        BY <3>2, <4>1
      <4> QED BY <3>2, <4>2 DEF EndOf, Records
    <3> QED BY <3>1, <3>2
  <2> HIDE DEF recs
  <2> QED BY <2>1 DEF Records
<1>3. files' = [j \in DOMAIN files \union {i} |-> IF j = i THEN file ELSE files[j]]
  BY DEF AppendToFile, FilesWith
<1>4. file \in [recs : Seq(Records), synced : Nat] /\ file.synced <= Len(file.recs)
  <2>1. recs \in Seq(Records) /\ FileAt(i).synced \in Nat
    BY <1>1
  <2> HIDE DEF rec, recs
  <2>2. Append(recs, rec) \in Seq(Records) /\ Len(Append(recs, rec)) = Len(recs) + 1 /\ Len(recs) \in Nat
    BY <1>2, <2>1
  <2>3. file.recs = Append(recs, rec) /\ file.synced = FileAt(i).synced
    BY <1>1
  <2>4. file \in [recs : Seq(Records), synced : Nat]
    BY <1>1, <2>2
  <2>5. FileAt(i).synced <= Len(recs)
    BY <1>1 DEF recs
  <2> QED BY <2>1, <2>2, <2>3, <2>4, <2>5
<1> HIDE DEF file
<1> QED BY <1>3, <1>4 DEF FileTypes

\* An fsync covers the records of its file, no more.
LEMMA SyncFileTypes ==
    ASSUME FileTypes, NEW i, SyncFile(i)
    PROVE  FileTypes'
<1>1. CASE i \in DOMAIN files
  <2> DEFINE file == [files[i] EXCEPT !.synced = Len(files[i].recs)]
  <2>1. files' = [files EXCEPT ![i] = file]
    BY <1>1 DEF SyncFile
  <2>2. files[i] \in [recs : Seq(Records), synced : Nat]
    BY <1>1 DEF FileTypes
  <2>3. /\ file \in [recs : Seq(Records), synced : Nat]
        /\ file.synced <= Len(file.recs)
    <3>1. files[i].recs \in Seq(Records) /\ Len(files[i].recs) \in Nat
      BY <2>2
    <3>2. file.recs = files[i].recs /\ file.synced = Len(files[i].recs)
      BY <2>2
    <3>3. file \in [recs : Seq(Records), synced : Nat]
      BY <2>2, <3>1
    <3> QED BY <3>1, <3>2, <3>3
  <2> HIDE DEF file
  <2> QED BY <1>1, <2>1, <2>3 DEF FileTypes
<1>2. CASE i \notin DOMAIN files
  BY <1>2 DEF SyncFile, FileTypes
<1> QED BY <1>1, <1>2

\* A deletion leaves the other files alone.
LEMMA DeleteTypes ==
    ASSUME FileTypes, NEW i, files' = FilesWithout(i)
    PROVE  FileTypes'
BY DEF FileTypes, FilesWithout

\* A restart cuts files short.
LEMMA RestartTypes ==
    ASSUME FileTypes, Crash
    PROVE  FileTypes'
<1>1. PICK kept \in [DOMAIN files -> 0..MaxLsn] :
         /\ \A i \in DOMAIN files : kept[i] \in files[i].synced..Len(files[i].recs)
         /\ files' = [i \in DOMAIN files |->
               [recs |-> SubSeq(files[i].recs, 1, kept[i]), synced |-> kept[i]]]
  BY DEF Crash
<1>2. ASSUME NEW i \in DOMAIN files
      PROVE  files'[i] \in [recs : Seq(Records), synced : Nat]
                 /\ files'[i].synced <= Len(files'[i].recs)
  <2> DEFINE recs == files[i].recs
             short == SubSeq(recs, 1, kept[i])
  <2>1. recs \in Seq(Records) /\ kept[i] \in 0..Len(recs)
    BY <1>1 DEF FileTypes
  <2>2. files'[i] = [recs |-> short, synced |-> kept[i]]
    BY <1>1
  <2> HIDE DEF recs
  <2>3. short \in Seq(Records) /\ Len(short) = kept[i]
    BY <2>1
  <2> HIDE DEF short
  <2> QED BY <2>1, <2>2, <2>3
<1> QED BY <1>1, <1>2 DEF FileTypes

\* The mark keeps its types.
LEMMA MarkTypes ==
    ASSUME Mark!WatermarkTypeOK, NEW lsn \in Nat,
           \/ UNCHANGED markVars
           \/ Mark!Acknowledge(lsn) \/ Mark!ForceAdvance(lsn)
           \/ Mark!SetFrozen(TRUE) \/ Mark!SetFrozen(FALSE) \/ Mark!TimerTick
    PROVE  Mark!WatermarkTypeOK'
<1>1. watermark \in Nat /\ pendingLsn \in Nat /\ pendingCount \in Nat /\ frozen \in BOOLEAN
  BY DEF Mark!WatermarkTypeOK
<1>2. frozen' \in BOOLEAN
  BY <1>1 DEF markVars, Mark!Acknowledge, Mark!ForceAdvance, Mark!SetFrozen, Mark!TimerTick
<1>3. watermark' \in Nat /\ pendingLsn' \in Nat /\ pendingCount' \in Nat
  <2>1. \A a, b \in Nat : Mark!Higher(a, b) \in Nat
    BY DEF Mark!Higher
  <2>2. \A l, n \in Nat : Mark!AdvanceTo(l, n) => watermark' \in Nat /\ pendingCount' \in Nat
    BY <1>1 DEF Mark!AdvanceTo
  <2>3. CASE Mark!Acknowledge(lsn)
    <3>1. CASE UNCHANGED <<watermark, pendingLsn, pendingCount>>
      BY <1>1, <3>1
    <3>2. CASE ~UNCHANGED <<watermark, pendingLsn, pendingCount>>
      <4>1. /\ pendingLsn' = Mark!Higher(pendingLsn, lsn)
            /\ \/ Mark!AdvanceTo(Mark!Higher(pendingLsn, lsn), pendingCount + 1)
               \/ watermark' = watermark /\ pendingCount' = pendingCount + 1
        BY <2>3, <3>2 DEF Mark!Acknowledge
      <4>2. Mark!Higher(pendingLsn, lsn) \in Nat /\ pendingCount + 1 \in Nat
        BY <1>1, <2>1
      <4> QED BY <1>1, <2>2, <4>1, <4>2
    <3> QED BY <3>1, <3>2
  <2>4. CASE Mark!ForceAdvance(lsn)
    BY <1>1, <2>4 DEF Mark!ForceAdvance
  <2>5. CASE Mark!SetFrozen(TRUE) \/ Mark!SetFrozen(FALSE)
    BY <1>1, <2>5 DEF Mark!SetFrozen
  <2>6. CASE Mark!TimerTick
    BY <1>1, <2>2, <2>6 DEF Mark!TimerTick
  <2>7. CASE UNCHANGED markVars
    BY <1>1, <2>7 DEF markVars
  <2> QED BY <2>3, <2>4, <2>5, <2>6, <2>7
<1> QED BY <1>2, <1>3 DEF Mark!WatermarkTypeOK

\* append() returns: the record is acknowledged and the call is over.
LEMMA ReturnTypes ==
    ASSUME TypeInv, NEW w \in Writers, Return(w)
    PROVE  \/ CallTypes' /\ Mark!WatermarkTypeOK' /\ returned' \subseteq 1..MaxLsn
           \/ call[w].pc = "idle"
<1> SUFFICES ASSUME call[w].pc # "idle"
             PROVE  CallTypes' /\ Mark!WatermarkTypeOK' /\ returned' \subseteq 1..MaxLsn
  OBVIOUS
<1>1. call[w].lsn \in 1..MaxLsn /\ call[w].lsn \in Nat
  BY BoundsAssumption DEF TypeInv, CallTypes, Placed, Call
<1>2. CallTypes'
  BY IdleIsPlaced, StoringKeepsTypes DEF TypeInv, Return
<1>3. Mark!WatermarkTypeOK'
  BY <1>1, MarkTypes DEF TypeInv, CounterTypes, Return
<1> QED BY <1>1, <1>2, <1>3 DEF TypeInv, CounterTypes, Return

\* Every step of append() keeps the types.
LEMMA AppendTypes ==
    ASSUME TypeInv, NEW w \in Writers, AppendStep(w)
    PROVE  TypeInv'
<1>0. CallTypes
  BY DEF TypeInv
<1>1. /\ SegmentTypes /\ CallTypes /\ FileTypes /\ CounterTypes
      /\ call \in [Writers -> Call] /\ Placed(call[w])
      /\ clock' = clock /\ crashes' = crashes /\ switch' = switch /\ partitionMode' = partitionMode
      /\ nextLsn \in 1..(MaxLsn + 1)
  BY DEF TypeInv, CallTypes, CounterTypes, AppendStep, RefuseAppend, BeginAppend, WriteFrame,
         RecordWrite, TrimFile, Account, Fsync, Flushed, RejectAppend, envVars, OpenedIndex
<1>2. ASSUME segmentVars' = segmentVars \/ OpenSegment PROVE SegmentTypes'
  <2>1. CASE OpenSegment
    BY <1>1, <2>1, OpenSegmentTypes
  <2>2. CASE segmentVars' = segmentVars
    BY <1>1, <2>2 DEF SegmentTypes, segmentVars
  <2> QED BY <1>2, <2>1, <2>2
<1>3. ASSUME files' = files PROVE FileTypes'
  BY <1>1, <1>3 DEF FileTypes
<1>4. ASSUME UNCHANGED <<markVars, throttleVars, unflushed, nextLsn, returned>>
      PROVE  CounterTypes'
  <2>1. Mark!WatermarkTypeOK'
    BY <1>1, <1>4, 0 \in Nat, MarkTypes DEF CounterTypes
  <2> QED BY <1>1, <1>4, <2>1 DEF CounterTypes, throttleVars
<1>5. CASE RefuseAppend(w)
  <2>1. /\ CallTypes' /\ SegmentTypes' /\ FileTypes'
    BY <1>1, <1>2, <1>3, <1>5 DEF RefuseAppend, CallTypes
  <2>2. Mark!WatermarkTypeOK'
    BY <1>1, <1>5, 0 \in Nat, MarkTypes DEF CounterTypes, RefuseAppend
  <2>3. CounterTypes'
    <3>1. resetMissed' \in BOOLEAN
      BY <1>5 DEF RefuseAppend, SlideWindow
    <3> QED BY <1>1, <1>5, <2>2, <3>1 DEF CounterTypes, RefuseAppend, SlideWindow, WindowSpent
  <2> QED BY <2>1, <2>3 DEF TypeInv
<1>6. CASE BeginAppend(w)
  <2>1. PICK payload \in Payloads :
           call' = [call EXCEPT ![w] =
              [pc |-> "write", lsn |-> nextLsn, size |-> payload + HeaderBytes,
               seg |-> ActiveSegment]]
    BY <1>6 DEF BeginAppend
  <2>2. payload + HeaderBytes \in Nat /\ nextLsn \in 1..MaxLsn /\ ActiveSegment \in Nat
    BY <1>1, <1>6, SizesAssumption, BoundsAssumption, OpenedTypes DEF BeginAppend
  <2>3. Placed([pc |-> "write", lsn |-> nextLsn, size |-> payload + HeaderBytes,
                seg |-> ActiveSegment])
    BY <2>2 DEF Placed, Call, Pcs
  <2>4. CallTypes'
    BY <1>1, <2>1, <2>3, StoringKeepsTypes
  <2>5. SegmentTypes' /\ FileTypes'
    BY <1>2, <1>3, <1>6 DEF BeginAppend
  <2>6. Mark!WatermarkTypeOK'
    BY <1>1, <1>6, 0 \in Nat, MarkTypes DEF CounterTypes, BeginAppend
  <2>7. CounterTypes'
    <3>1. resetMissed' \in BOOLEAN
      BY <1>1, <1>6 DEF CounterTypes, BeginAppend, SlideWindow, throttleVars
    <3> QED
      BY <1>1, <1>6, <2>2, <2>6, <3>1, BoundsAssumption
      DEF CounterTypes, BeginAppend, SlideWindow, WindowSpent, throttleVars
  <2> QED BY <2>4, <2>5, <2>7 DEF TypeInv
<1>7. CASE WriteFrame(w)
  <2>1. call[w].lsn \in 1..MaxLsn /\ call[w].size \in Nat /\ call[w].pc # "idle"
    BY <1>1, <1>7, BoundsAssumption DEF WriteFrame, Placed, Call
  <2>2. FileTypes'
    BY <1>1, <1>7, <2>1, AppendToFileTypes DEF WriteFrame
  <2>3. "record" \in Pcs /\ 0 \in Nat
    BY DEF Pcs
  <2>4. CallTypes'
    <3>1. call' = [call EXCEPT ![w].pc = "record"]
      BY <1>7 DEF WriteFrame
    <3> QED BY <1>0, <2>1, <2>3, <3>1, PlacingKeepsTypes
  <2>5. SegmentTypes' /\ CounterTypes'
    BY <1>2, <1>4, <1>7 DEF WriteFrame, segmentVars
  <2> QED BY <2>2, <2>4, <2>5 DEF TypeInv
<1>8. CASE RecordWrite(w)
  <2>1. SegmentTypes' /\ CallTypes'
    BY <1>1, <1>8, RecordWriteTypes
  <2>2. FileTypes' /\ CounterTypes'
    BY <1>3, <1>4, <1>8 DEF RecordWrite, OpenedIndex
  <2> QED BY <2>1, <2>2 DEF TypeInv
<1>9. CASE TrimFile(w)
  <2>1. segments' \in Seq(OpenedSegment) /\ CallTypes'
    BY <1>1, <1>9, OpenedTypes, TrimTypes DEF TrimFile, OpenedIndex
  <2>2. SegmentTypes'
    BY <1>1, <1>9, <2>1 DEF TrimFile, SegmentTypes, OpenedIndex
  <2>3. FileTypes'
    BY <1>1, <1>3, <1>9, DeleteTypes DEF TrimFile, OpenedIndex
  <2>4. CounterTypes'
    BY <1>4, <1>9 DEF TrimFile, OpenedIndex
  <2> QED BY <2>1, <2>2, <2>3, <2>4 DEF TypeInv
<1>10. CASE Account(w)
  <2>1. call[w].size \in Nat /\ call[w].pc # "idle" /\ files' = files /\ nextLsn' = nextLsn
    BY <1>1, <1>10 DEF Account, Placed, Call
  <2>2. SegmentTypes' /\ FileTypes'
    BY <1>2, <1>3, <1>10 DEF Account, segmentVars
  <2>3. /\ windowBytes' \in Nat /\ windowStart' \in Nat /\ unflushed' \in Nat
        /\ resetMissed' \in BOOLEAN
    BY <1>1, <1>10, <2>1 DEF Account, CounterTypes
  <2>4. CallTypes' /\ Mark!WatermarkTypeOK' /\ returned' \subseteq 1..MaxLsn
    <3>1. CASE Return(w)
      BY <2>1, <3>1, ReturnTypes
    <3>2. CASE ~Return(w)
      <4>1. /\ call' = [call EXCEPT ![w].pc = "fsync", ![w].seg = ActiveSegment]
            /\ UNCHANGED <<markVars, returned>>
        BY <1>10, <3>2 DEF Account
      <4>2. "fsync" \in Pcs /\ ActiveSegment \in Nat
        BY <1>1, OpenedTypes DEF Pcs
      <4>3. CallTypes'
        <5>1. call' = [call EXCEPT ![w].pc = "fsync", ![w].seg = ActiveSegment]
          BY <4>1
        <5> QED BY <1>0, <2>1, <4>2, <5>1, PlacingKeepsTypes
      <4>4. Mark!WatermarkTypeOK'
        BY <1>1, <4>1, 0 \in Nat, MarkTypes DEF CounterTypes
      <4> QED BY <1>1, <4>1, <4>3, <4>4 DEF CounterTypes
    <3> QED BY <3>1, <3>2
  <2> QED BY <1>1, <2>1, <2>2, <2>3, <2>4 DEF TypeInv, CounterTypes
<1>11. CASE Fsync(w)
  <2>1. FileTypes'
    BY <1>1, <1>11, SyncFileTypes DEF Fsync
  <2>2. call[w].pc # "idle" /\ "flushed" \in Pcs /\ 0 \in Nat
    BY <1>11 DEF Fsync, Pcs
  <2>3. CallTypes'
    <3>1. call' = [call EXCEPT ![w].pc = "flushed"]
      BY <1>11 DEF Fsync
    <3> QED BY <1>0, <2>2, <3>1, PlacingKeepsTypes
  <2>4. SegmentTypes' /\ CounterTypes'
    BY <1>2, <1>4, <1>11 DEF Fsync, segmentVars
  <2> QED BY <2>1, <2>3, <2>4 DEF TypeInv
<1>12. CASE Flushed(w)
  <2>1. CallTypes' /\ Mark!WatermarkTypeOK' /\ returned' \subseteq 1..MaxLsn
    BY <1>12, ReturnTypes DEF Flushed
  <2>2. SegmentTypes' /\ FileTypes'
    BY <1>2, <1>3, <1>12 DEF Flushed, segmentVars
  <2> QED BY <1>1, <1>12, <2>1, <2>2 DEF TypeInv, CounterTypes, Flushed, throttleVars
<1>13. CASE RejectAppend(w)
  <2>1. CallTypes'
    BY <1>1, <1>13, IdleIsPlaced, StoringKeepsTypes DEF RejectAppend
  <2>2. SegmentTypes' /\ FileTypes' /\ CounterTypes'
    BY <1>2, <1>3, <1>4, <1>13 DEF RejectAppend, segmentVars
  <2> QED BY <2>1, <2>2 DEF TypeInv
<1> QED
  BY <1>5, <1>6, <1>7, <1>8, <1>9, <1>10, <1>11, <1>12, <1>13 DEF AppendStep

\* Switching modes, the timer, the clock and a restart keep the types.
LEMMA SwitchTypes ==
    ASSUME TypeInv,
           \/ \E s \in Switchers : SwitchStep(s)
           \/ LeavePartition \/ MarkTimer \/ Tick \/ Crash \/ UNCHANGED walVars
    PROVE  TypeInv'
<1>1. /\ SegmentTypes /\ CallTypes /\ FileTypes /\ CounterTypes
  BY DEF TypeInv
<1>2. CASE Crash
  <2>1. FileTypes'
    BY <1>1, <1>2, RestartTypes
  <2>2. SegmentTypes'
    BY <1>1, <1>2 DEF Crash, SegmentTypes
  <2>3. CallTypes'
    BY <1>2, IdleIsPlaced DEF Crash, CallTypes, Placed
  <2>4. CounterTypes'
    <3>1. Mark!WatermarkTypeOK'
      BY <1>2 DEF Crash, Mark!WatermarkTypeOK
    <3>2. switch' \in [Switchers -> [pc : {"idle", "fsync", "flushed"}, seg : Nat]]
      BY <1>2 DEF Crash, NoSwitch
    <3>3. /\ partitionMode' \in BOOLEAN /\ windowBytes' \in Nat /\ windowStart' \in Nat
          /\ unflushed' \in Nat /\ resetMissed' \in BOOLEAN
      BY <1>1, <1>2 DEF Crash, SegmentTypes
    <3>4. crashes' \in 0..MaxCrashes
      BY <1>1, <1>2, BoundsAssumption DEF Crash, CounterTypes
    <3> QED BY <1>1, <1>2, <3>1, <3>2, <3>3, <3>4 DEF Crash, CounterTypes
  <2> QED BY <2>1, <2>2, <2>3, <2>4 DEF TypeInv
<1>3. CASE ~Crash
  <2>1. /\ call' = call
        /\ clock' \in 0..MaxClock
        /\ \/ segmentVars' = segmentVars
           \/ OpenSegment /\ clock' = clock
        /\ crashes' = crashes /\ nextLsn' = nextLsn /\ returned' = returned
    <3>1. CASE Tick
      BY <1>1, <3>1, BoundsAssumption DEF Tick, segmentVars, CounterTypes
    <3>2. CASE ~Tick
      BY <1>1, <1>3, <3>2
      DEF SwitchStep, EnterPartition, SwitchFsync, SwitchFlushed, RejectSwitch, LeavePartition,
          MarkTimer, walVars, envVars, CounterTypes
    <3> QED BY <3>1, <3>2
  <2>2. CallTypes'
    BY <1>1, <2>1 DEF CallTypes
  <2>3. SegmentTypes'
    <3>1. clock' \in Nat
      BY <2>1, BoundsAssumption
    <3> QED BY <1>1, <2>1, <3>1, OpenSegmentTypes DEF SegmentTypes, segmentVars
  <2>4. FileTypes'
    <3>1. files' = files \/ \E i : SyncFile(i)
      BY <1>3 DEF SwitchStep, EnterPartition, SwitchFsync, SwitchFlushed, RejectSwitch,
         LeavePartition, MarkTimer, Tick, walVars
    <3>2. CASE files' = files
      BY <1>1, <3>2 DEF FileTypes
    <3>3. CASE \E i : SyncFile(i)
      BY <1>1, <3>3, SyncFileTypes
    <3> QED BY <3>1, <3>2, <3>3
  <2>5. Mark!WatermarkTypeOK'
    <3>1. \/ UNCHANGED markVars \/ Mark!SetFrozen(TRUE) \/ Mark!SetFrozen(FALSE)
          \/ Mark!TimerTick
      BY <1>3 DEF SwitchStep, EnterPartition, SwitchFsync, SwitchFlushed, RejectSwitch,
         LeavePartition, MarkTimer, Tick, walVars
    <3> QED BY <1>1, <3>1, 0 \in Nat, MarkTypes DEF CounterTypes
  <2>6. switch' \in [Switchers -> [pc : {"idle", "fsync", "flushed"}, seg : Nat]]
    <3>1. ASSUME NEW s \in Switchers, SwitchStep(s)
          PROVE  switch' \in [Switchers -> [pc : {"idle", "fsync", "flushed"}, seg : Nat]]
      <4>1. switch \in [Switchers -> [pc : {"idle", "fsync", "flushed"}, seg : Nat]]
        BY <1>1 DEF CounterTypes
      <4>2. ActiveSegment \in Nat
        BY <1>1, OpenedTypes
      <4>3. PICK place : /\ place \in [pc : {"idle", "fsync", "flushed"}, seg : Nat]
                         /\ switch' = [switch EXCEPT ![s] = place]
        <5>1. CASE EnterPartition(s)
          <6>1. [pc |-> "fsync", seg |-> ActiveSegment]
                   \in [pc : {"idle", "fsync", "flushed"}, seg : Nat]
            BY <4>2
          <6> QED BY <5>1, <6>1 DEF EnterPartition
        <5>2. CASE SwitchFsync(s)
          <6> DEFINE place == [switch[s] EXCEPT !.pc = "flushed"]
          <6>1. place \in [pc : {"idle", "fsync", "flushed"}, seg : Nat]
            BY <4>1
          <6>2. switch' = [switch EXCEPT ![s] = place]
            BY <4>1, <5>2 DEF SwitchFsync
          <6> HIDE DEF place
          <6> QED BY <6>1, <6>2
        <5>3. CASE SwitchFlushed(s)
          <6>1. NoSwitch \in [pc : {"idle", "fsync", "flushed"}, seg : Nat]
            BY DEF NoSwitch
          <6> QED BY <5>3, <6>1 DEF SwitchFlushed
        <5>4. CASE RejectSwitch(s)
          <6>1. NoSwitch \in [pc : {"idle", "fsync", "flushed"}, seg : Nat]
            BY DEF NoSwitch
          <6> QED BY <5>4, <6>1 DEF RejectSwitch
        <5> QED BY <3>1, <5>1, <5>2, <5>3, <5>4 DEF SwitchStep
      <4> QED BY <4>1, <4>3
    <3>2. CASE switch' = switch
      BY <1>1, <3>2 DEF CounterTypes
    <3> QED BY <1>3, <3>1, <3>2 DEF LeavePartition, MarkTimer, Tick, walVars
  <2>7. /\ partitionMode' \in BOOLEAN
        /\ windowBytes' \in Nat /\ windowStart' \in Nat /\ unflushed' \in Nat
        /\ resetMissed' \in BOOLEAN
    <3>1. /\ partitionMode \in BOOLEAN /\ clock \in Nat
          /\ windowBytes \in Nat /\ windowStart \in Nat /\ unflushed \in Nat
          /\ resetMissed \in BOOLEAN
      BY <1>1 DEF CounterTypes, SegmentTypes
    <3>2. partitionMode' \in BOOLEAN
      BY <1>3, <3>1 DEF SwitchStep, EnterPartition, SwitchFsync, SwitchFlushed, RejectSwitch,
         LeavePartition, MarkTimer, Tick, walVars
    <3>3. /\ windowBytes' \in Nat /\ windowStart' \in Nat /\ unflushed' \in Nat
          /\ resetMissed' \in BOOLEAN
      <4>1. ASSUME NEW s \in Switchers, SwitchStep(s)
            PROVE  /\ windowBytes' \in Nat /\ windowStart' \in Nat /\ unflushed' \in Nat
                   /\ resetMissed' \in BOOLEAN
        <5>1. CASE EnterPartition(s) \/ SwitchFsync(s)
          BY <3>1, <5>1 DEF EnterPartition, SwitchFsync, throttleVars
        <5>2. CASE SwitchFlushed(s)
          BY <3>1, <5>2 DEF SwitchFlushed
        <5>3. CASE RejectSwitch(s)
          BY <3>1, <5>3 DEF RejectSwitch
        <5> QED BY <4>1, <5>1, <5>2, <5>3 DEF SwitchStep
      <4>2. CASE LeavePartition \/ MarkTimer \/ Tick \/ UNCHANGED walVars
        BY <3>1, <4>2 DEF LeavePartition, MarkTimer, Tick, walVars, throttleVars
      <4> QED BY <1>3, <4>1, <4>2
    <3> QED BY <3>2, <3>3
  <2> QED
    BY <1>1, <2>1, <2>2, <2>3, <2>4, <2>5, <2>6, <2>7 DEF TypeInv, CounterTypes
<1> QED BY <1>2, <1>3

\* Every step of the log keeps the types.
LEMMA WalStepTypes == ASSUME TypeInv, [WalNext]_walVars PROVE TypeInv'
BY AppendTypes, SwitchTypes DEF WalNext

\* The constructors give the variables their types.
LEMMA WalInitTypes == WalInit => TypeInv
<1> SUFFICES ASSUME WalInit PROVE TypeInv
  OBVIOUS
<1>1. SegmentTypes /\ CallTypes
  BY IdleIsPlaced DEF WalInit, SegmentTypes, CallTypes, Placed
<1>2. FileTypes
  <2>1. DOMAIN files = {}
    BY DEF WalInit
  <2> QED BY <2>1 DEF FileTypes
<1>3. CounterTypes
  <2>1. Mark!WatermarkTypeOK
    BY DEF WalInit, Mark!WatermarkTypeOK, Mark!WatermarkInit
  <2>2. switch \in [Switchers -> [pc : {"idle", "fsync", "flushed"}, seg : Nat]]
    BY DEF WalInit, NoSwitch
  <2>3. /\ windowBytes \in Nat /\ windowStart \in Nat /\ unflushed \in Nat
        /\ nextLsn \in 1..(MaxLsn + 1) /\ returned \subseteq 1..MaxLsn
        /\ clock \in 0..MaxClock /\ crashes \in 0..MaxCrashes
    BY BoundsAssumption DEF WalInit
  <2>4. partitionMode \in BOOLEAN /\ resetMissed \in BOOLEAN
    BY DEF WalInit
  <2> QED BY <2>1, <2>2, <2>3, <2>4 DEF CounterTypes
<1> QED BY <1>1, <1>2, <1>3 DEF TypeInv

\* The log's state keeps its types through overlapping appends, file errors, mode
\* switches and restarts (WalWriter, SegmentManager, AckWatermark).
THEOREM LogTypes == WalSpec => []WalTypeOK
BY WalInitTypes, WalStepTypes, TypeInvGivesTypes, PTL DEF WalSpec

-----------------------------------------------------------------------------
(* Spill and replay *)

ArchiveTypes ==
    DOMAIN archives \subseteq Nat \ {0} /\ archives \in [DOMAIN archives -> Seq(1..MaxLsn)]

\* A spill or a replay under way has a segment or an archive before it; archives are
\* never deleted.
SpillTypes ==
    /\ spill \in [pc : {"idle", "read", "archive", "remove", "delete"},
                  todo : SUBSET (Nat \ {0}), raw : Seq(1..MaxLsn)]
    /\ spill.pc # "idle" => spill.todo # {}
ReplayTypes ==
    /\ replay \in [pc : {"idle", "read", "feed", "healed"}, todo : SUBSET (Nat \ {0}),
                   raw : Seq(1..MaxLsn), fileHigh : Nat, high : Nat]
    /\ replay.pc \in {"read", "feed"} => replay.todo # {} /\ replay.todo \subseteq DOMAIN archives
    /\ replayed \in Seq(1..MaxLsn)
    /\ replays \in 0..MaxReplays

\* The highest LSNs of the archives and of the archive being replayed are LSNs handed
\* over, and between them they cover all that was; the mark was forced to the first.
ReplayMarks ==
    /\ {replay.high, replay.fileHigh} \subseteq ToSet(replayed) \union {0}
    /\ replay.high <= watermark
    /\ replay.pc = "read" => replay.raw = <<>>
    /\ (replay.pc \in {"read", "healed"} /\ replay.raw = <<>>) =>
          \A l \in ToSet(replayed) : l <= replay.high
    /\ replay.pc = "feed" =>
          \A l \in ToSet(replayed) : l <= replay.high \/ l <= replay.fileHigh

LedgerInv == TypeInv /\ ArchiveTypes /\ SpillTypes /\ ReplayTypes /\ ReplayMarks

\* The parts of the types make up LedgerTypeOK.
LEMMA LedgerInvGivesTypes == LedgerInv /\ archiveError \in BOOLEAN => LedgerTypeOK
BY TypeInvGivesTypes DEF LedgerInv, ArchiveTypes, SpillTypes, ReplayTypes, LedgerTypeOK

\* A nonempty set of naturals has its Min (FiniteSetsExt).
LEMMA MinOfNats ==
    ASSUME NEW S \in SUBSET Nat, S # {}
    PROVE  Min(S) \in S /\ \A y \in S : Min(S) <= y
<1>1. PICK x \in S : \A y \in S : ~ (<<y, x>> \in OpToRel(<, Nat))
  BY NatLessThanWellFounded, WFMin, Zenon
<1>2. \A y \in S : ~ (y < x)
  BY <1>1, Zenon DEF OpToRel
<1>3. \A y \in S : x <= y
  BY <1>2
<1> QED BY <1>3 DEF Min

\* Acknowledgements, the timer and the switches never take the mark back, and leave a
\* frozen one where it is (AckWatermark).
LEMMA FrozenMarkStays ==
    ASSUME Mark!WatermarkTypeOK, NEW lsn \in Nat,
           \/ UNCHANGED markVars
           \/ Mark!Acknowledge(lsn)
           \/ Mark!SetFrozen(TRUE) \/ Mark!SetFrozen(FALSE) \/ Mark!TimerTick
    PROVE  watermark' >= watermark /\ (frozen => watermark' = watermark)
<1>1. watermark \in Nat /\ pendingLsn \in Nat /\ pendingCount \in Nat /\ frozen \in BOOLEAN
  BY DEF Mark!WatermarkTypeOK
<1>2. \A a, b \in Nat : Mark!Higher(a, b) \in Nat
  BY DEF Mark!Higher
<1>3. \A l, n \in Nat : Mark!AdvanceTo(l, n) => watermark' >= watermark
  BY <1>1 DEF Mark!AdvanceTo
<1>4. CASE Mark!Acknowledge(lsn)
  <2>1. \/ watermark' = watermark
        \/ ~frozen /\ Mark!AdvanceTo(Mark!Higher(pendingLsn, lsn), pendingCount + 1)
    BY <1>4 DEF Mark!Acknowledge
  <2>2. Mark!Higher(pendingLsn, lsn) \in Nat /\ pendingCount + 1 \in Nat
    BY <1>1, <1>2
  <2> QED BY <1>1, <1>3, <2>1, <2>2
<1>5. CASE Mark!SetFrozen(TRUE) \/ Mark!SetFrozen(FALSE)
  BY <1>1, <1>5 DEF Mark!SetFrozen
<1>6. CASE Mark!TimerTick
  BY <1>1, <1>3, <1>6 DEF Mark!TimerTick
<1>7. CASE UNCHANGED markVars
  BY <1>1, <1>7 DEF markVars
<1> QED BY <1>4, <1>5, <1>6, <1>7

\* So do all steps of the log but a restart.
LEMMA LogLeavesFrozenMark ==
    ASSUME TypeInv,
           \/ \E w \in Writers : AppendStep(w)
           \/ \E s \in Switchers : SwitchStep(s)
           \/ LeavePartition \/ MarkTimer \/ Tick \/ UNCHANGED walVars
    PROVE  watermark' >= watermark /\ (frozen => watermark' = watermark)
<1>1. Mark!WatermarkTypeOK
  BY DEF TypeInv, CounterTypes
<1>2. ASSUME NEW w \in Writers, AppendStep(w)
      PROVE  \E lsn \in Nat : UNCHANGED markVars \/ Mark!Acknowledge(lsn)
  <2>1. call[w].lsn \in Nat
    BY BoundsAssumption DEF TypeInv, CallTypes, Call
  <2>2. UNCHANGED markVars \/ Mark!Acknowledge(call[w].lsn)
    BY <1>2 DEF AppendStep, RefuseAppend, BeginAppend, WriteFrame, RecordWrite, TrimFile,
                Account, Fsync, Flushed, RejectAppend, Return, OpenedIndex
  <2> QED BY <2>1, <2>2
<1>3. ASSUME \/ \E s \in Switchers : SwitchStep(s)
             \/ LeavePartition \/ MarkTimer \/ Tick \/ UNCHANGED walVars
      PROVE  \/ UNCHANGED markVars
             \/ Mark!SetFrozen(TRUE) \/ Mark!SetFrozen(FALSE) \/ Mark!TimerTick
  BY <1>3 DEF SwitchStep, EnterPartition, SwitchFsync, SwitchFlushed, RejectSwitch,
     LeavePartition, MarkTimer, Tick, walVars
<1>4. CASE \E w \in Writers : AppendStep(w)
  BY <1>1, <1>2, <1>4, FrozenMarkStays
<1>5. CASE ~\E w \in Writers : AppendStep(w)
  BY <1>1, <1>3, <1>5, 0 \in Nat, FrozenMarkStays
<1> QED BY <1>4, <1>5

\* The LSNs of a file's frames.
LEMMA FileLsns ==
    ASSUME FileTypes, NEW i
    PROVE  LsnSeq(FileAt(i).recs) \in Seq(1..MaxLsn)
<1> DEFINE recs == FileAt(i).recs
<1>1. recs \in Seq(Records)
  BY DEF FileTypes, FileAt, EmptyFile
<1> HIDE DEF recs
<1>2. Len(recs) \in Nat /\ \A k \in 1..Len(recs) : recs[k].lsn \in 1..MaxLsn
  <2>1. \A k \in 1..Len(recs) : recs[k] \in Records
    BY <1>1
  <2> QED BY <1>1, <2>1 DEF Records
<1>3. LsnSeq(recs) \in Seq(1..MaxLsn)
  BY <1>2 DEF LsnSeq
<1> QED BY <1>3 DEF recs

\* The spill goes on with the next segment, or ends.
LEMMA NextSpillTypes ==
    ASSUME SpillTypes, spill.pc # "idle", spill' = NextSpill
    PROVE  SpillTypes'
<1>1. spill.todo \in SUBSET (Nat \ {0}) /\ spill.todo # {} /\ Spilling \in spill.todo
  <2>1. spill.todo \in SUBSET (Nat \ {0}) /\ spill.todo # {}
    BY DEF SpillTypes
  <2> QED BY <2>1, MinOfNats DEF Spilling
<1>2. CASE spill.todo = {Spilling}
  BY <1>2 DEF NextSpill, NoSpill, SpillTypes
<1>3. CASE spill.todo # {Spilling}
  <2>1. spill.todo \ {Spilling} # {}
    BY <1>1, <1>3
  <2>2. spill' = [pc |-> "read", todo |-> spill.todo \ {Spilling}, raw |-> <<>>]
    BY <1>3 DEF NextSpill
  <2> QED BY <1>1, <2>1, <2>2 DEF SpillTypes
<1> QED BY <1>2, <1>3

\* removeSegment() takes one segment out of the list.
LEMMA RemoveSegmentTypes ==
    ASSUME SegmentTypes, RemoveSegment
    PROVE  SegmentTypes'
<1> DEFINE found == {k \in 1..Len(segments) : segments[k].index = Spilling}
<1>1. segments \in Seq(OpenedSegment) /\ activeIndex' = activeIndex /\ clock' = clock
  BY DEF SegmentTypes, RemoveSegment, envVars
<1>2. CASE found = {}
  BY <1>1, <1>2 DEF RemoveSegment, SegmentTypes
<1>3. CASE found # {}
  <2>1. segments' = RemoveAt(segments, Min(found))
    BY <1>3 DEF RemoveSegment
  <2>2. found \in SUBSET Nat
    OBVIOUS
  <2>3. Min(found) \in found
    BY <1>3, <2>2, MinOfNats
  <2>4. PICK k \in 1..Len(segments) : k = Min(found)
    BY <2>3
  <2>5. segments' = SubSeq(segments, 1, k - 1) \o SubSeq(segments, k + 1, Len(segments))
    BY <2>1, <2>4 DEF RemoveAt
  <2>6. segments' \in Seq(OpenedSegment)
    <3>1. \A m, n \in Nat : m >= 1 /\ n <= Len(segments) =>
             SubSeq(segments, m, n) \in Seq(OpenedSegment)
      BY <1>1
    <3>2. k - 1 \in Nat /\ k + 1 \in Nat /\ Len(segments) \in Nat /\ k - 1 <= Len(segments)
      BY <1>1, <2>4
    <3> DEFINE before == SubSeq(segments, 1, k - 1)
               after == SubSeq(segments, k + 1, Len(segments))
    <3>3. before \in Seq(OpenedSegment) /\ after \in Seq(OpenedSegment)
      BY <3>1, <3>2
    <3> HIDE DEF before, after
    <3>4. before \o after \in Seq(OpenedSegment)
      BY <3>3
    <3> QED BY <2>5, <3>4 DEF before, after
  <2> QED BY <1>1, <2>6 DEF SegmentTypes
<1> QED BY <1>2, <1>3

\* A step that leaves the archive and the replay alone and does not take the mark back.
LEMMA ReplayUndisturbed ==
    ASSUME ReplayTypes, ReplayMarks, watermark \in Nat, watermark' \in Nat,
           watermark' >= watermark, UNCHANGED <<replay, replayed, replays>>,
           DOMAIN archives \subseteq DOMAIN archives'
    PROVE  ReplayTypes' /\ ReplayMarks'
<1>1. ReplayTypes'
  BY DEF ReplayTypes
<1>2. replay.high \in Nat
  BY DEF ReplayTypes
<1>3. replay.high <= watermark'
  BY <1>2 DEF ReplayMarks
<1> QED BY <1>1, <1>3 DEF ReplayMarks

\* Appends, mode switches and the timer between two steps of a spill or a replay.
LEMMA LogStepKeepsLedger ==
    ASSUME LedgerInv, WalStep \/ UNCHANGED ledgerVars
    PROVE  LedgerInv'
<1>1. TypeInv /\ ArchiveTypes /\ SpillTypes /\ ReplayTypes /\ ReplayMarks
  BY DEF LedgerInv
<1>2. UNCHANGED archiveVars
  BY DEF WalStep, ledgerVars
<1>3. TypeInv'
  BY <1>1, WalStepTypes DEF WalStep, WalNext, ledgerVars
<1>4. watermark' >= watermark
  BY <1>1, LogLeavesFrozenMark DEF WalStep, ledgerVars
<1>5. watermark \in Nat /\ watermark' \in Nat
  BY <1>1, <1>3 DEF TypeInv, CounterTypes, Mark!WatermarkTypeOK
<1>6. ReplayTypes' /\ ReplayMarks'
  BY <1>1, <1>2, <1>4, <1>5, ReplayUndisturbed DEF archiveVars
<1>7. ArchiveTypes' /\ SpillTypes'
  BY <1>1, <1>2 DEF archiveVars, ArchiveTypes, SpillTypes
<1> QED BY <1>3, <1>6, <1>7 DEF LedgerInv

\* A spill takes segments out of the log, their files with them, and adds archives
\* (spillToArchive).
LEMMA SpillKeepsLedger ==
    ASSUME LedgerInv, BeginSpill \/ SpillStep \/ SpillError
    PROVE  LedgerInv'
<1>1. /\ TypeInv /\ ArchiveTypes /\ SpillTypes /\ ReplayTypes /\ ReplayMarks
      /\ SegmentTypes /\ CallTypes /\ FileTypes /\ CounterTypes
  BY DEF LedgerInv, TypeInv
<1>2. UNCHANGED <<replay, replayed, replays>> /\ UNCHANGED markVars
  BY DEF BeginSpill, SpillStep, ReadSegment, WriteArchive, RemoveSegment, DeleteSpilled,
         SpillError, walVars
<1>3. TypeInv'
  <2>1. CASE UNCHANGED walVars
    BY <1>1, <2>1, WalStepTypes
  <2>2. CASE RemoveSegment
    <3>1. SegmentTypes'
      BY <1>1, <2>2, RemoveSegmentTypes
    <3>2. CallTypes' /\ FileTypes'
      BY <1>1, <2>2 DEF RemoveSegment, CallTypes, FileTypes
    <3>3. CounterTypes'
      BY <1>1, <2>2 DEF RemoveSegment, CounterTypes, throttleVars, envVars, markVars,
                        Mark!WatermarkTypeOK
    <3> QED BY <3>1, <3>2, <3>3 DEF TypeInv
  <2>3. CASE DeleteSpilled
    <3>1. FileTypes'
      BY <1>1, <2>3, DeleteTypes DEF DeleteSpilled
    <3>2. SegmentTypes' /\ CallTypes'
      BY <1>1, <2>3 DEF DeleteSpilled, SegmentTypes, CallTypes, segmentVars, envVars
    <3>3. CounterTypes'
      BY <1>1, <2>3 DEF DeleteSpilled, CounterTypes, throttleVars, envVars, markVars,
                        Mark!WatermarkTypeOK
    <3> QED BY <3>1, <3>2, <3>3 DEF TypeInv
  <2> QED
    BY <2>1, <2>2, <2>3 DEF BeginSpill, SpillStep, ReadSegment, WriteArchive, SpillError
<1>4. watermark \in Nat /\ watermark' \in Nat /\ watermark' >= watermark
  BY <1>1, <1>2 DEF markVars, CounterTypes, Mark!WatermarkTypeOK
<1>5. ArchiveTypes' /\ DOMAIN archives \subseteq DOMAIN archives'
  <2>1. CASE WriteArchive
    <3>1. Spilling \in Nat \ {0}
      <4>1. spill.todo \in SUBSET (Nat \ {0}) /\ spill.todo # {}
        BY <1>1, <2>1 DEF SpillTypes, WriteArchive
      <4> QED BY <4>1, MinOfNats DEF Spilling
    <3>2. spill.raw \in Seq(1..MaxLsn)
      BY <1>1 DEF SpillTypes
    <3>3. archives' = [i \in DOMAIN archives \union {Spilling} |->
                          IF i = Spilling THEN spill.raw ELSE archives[i]]
      BY <2>1 DEF WriteArchive
    <3> QED BY <1>1, <3>1, <3>2, <3>3 DEF ArchiveTypes
  <2>2. CASE archives' = archives
    BY <1>1, <2>2 DEF ArchiveTypes
  <2> QED
    BY <2>1, <2>2 DEF BeginSpill, SpillStep, ReadSegment, RemoveSegment, DeleteSpilled, SpillError
<1>6. SpillTypes'
  <2>1. CASE BeginSpill
    <3>1. StaleSegments \in SUBSET (Nat \ {0})
      <4>1. \A k \in 1..Len(segments) : segments[k] \in OpenedSegment
        BY <1>1 DEF SegmentTypes
      <4>2. \A k \in 1..Len(segments) : segments[k].index \in Nat \ {0}
        BY <4>1 DEF OpenedSegment
      <4> QED BY <4>2 DEF StaleSegments
    <3>2. StaleSegments # {}
          /\ spill' = [pc |-> "read", todo |-> StaleSegments, raw |-> <<>>]
      BY <2>1 DEF BeginSpill
    <3> QED BY <3>1, <3>2 DEF SpillTypes
  <2>2. CASE ReadSegment
    <3>1. PICK raw \in Seq(1..MaxLsn) :
             spill' = [spill EXCEPT !.pc = "archive", !.raw = raw]
      <4>1. PICK lsns : lsns = LsnSeq(FileAt(Spilling).recs)
        OBVIOUS
      <4>2. lsns \in Seq(1..MaxLsn) /\ <<>> \in Seq(1..MaxLsn)
        BY <1>1, <4>1, FileLsns
      <4>3. \/ spill' = [spill EXCEPT !.pc = "archive", !.raw = lsns]
            \/ spill' = [spill EXCEPT !.pc = "archive", !.raw = <<>>]
        BY <2>2, <4>1 DEF ReadSegment
      <4> QED BY <4>2, <4>3, Zenon
    <3>2. spill.todo # {}
      BY <1>1, <2>2 DEF SpillTypes, ReadSegment
    <3> QED BY <1>1, <3>1, <3>2 DEF SpillTypes
  <2>3. CASE WriteArchive
    <3>1. spill' = [spill EXCEPT !.pc = "remove", !.raw = <<>>] /\ spill.pc = "archive"
      BY <2>3 DEF WriteArchive
    <3>2. <<>> \in Seq(1..MaxLsn)
      OBVIOUS
    <3> QED BY <1>1, <3>1, <3>2 DEF SpillTypes
  <2>4. ASSUME spill' = NextSpill, spill.pc # "idle" PROVE SpillTypes'
    BY <1>1, <2>4, NextSpillTypes
  <2>5. CASE RemoveSegment
    <3>1. spill' = NextSpill \/ spill' = [spill EXCEPT !.pc = "delete"]
      BY <2>5 DEF RemoveSegment
    <3>2. CASE spill' = [spill EXCEPT !.pc = "delete"]
      BY <1>1, <2>5, <3>2 DEF SpillTypes, RemoveSegment
    <3> QED BY <2>4, <2>5, <3>1, <3>2 DEF RemoveSegment
  <2>6. CASE DeleteSpilled \/ SpillError
    BY <2>4, <2>6 DEF DeleteSpilled, SpillError
  <2> QED BY <2>1, <2>2, <2>3, <2>5, <2>6 DEF SpillStep
<1>7. ReplayTypes' /\ ReplayMarks'
  BY <1>1, <1>2, <1>4, <1>5, ReplayUndisturbed
<1> QED BY <1>3, <1>5, <1>6, <1>7 DEF LedgerInv

\* A sequence with one more element at its end.
LEMMA SequenceGrows ==
    ASSUME NEW S, NEW s \in Seq(S), NEW e \in S
    PROVE  /\ Append(s, e) \in Seq(S) /\ Len(Append(s, e)) = Len(s) + 1
           /\ \A k \in 1..Len(s) : Append(s, e)[k] = s[k]
           /\ Append(s, e)[Len(s) + 1] = e
OBVIOUS

\* The elements of a sequence, its Head and its Tail are in its set.
LEMMA SequenceSteps ==
    ASSUME NEW S, NEW s \in Seq(S)
    PROVE  /\ s # <<>> => Head(s) \in S /\ Tail(s) \in Seq(S)
           /\ Len(s) \in Nat /\ DOMAIN s = 1..Len(s)
           /\ \A k \in DOMAIN s : s[k] \in S
OBVIOUS

\* What a sequence of LSNs holds, and how handing one over extends it.
LEMMA LsnSequences ==
    ASSUME NEW s \in Seq(1..MaxLsn)
    PROVE  /\ ToSet(s) \subseteq Nat
           /\ \A l \in 1..MaxLsn :
                 Append(s, l) \in Seq(1..MaxLsn) /\ ToSet(Append(s, l)) = ToSet(s) \union {l}
           /\ s # <<>> => Head(s) \in 1..MaxLsn /\ Tail(s) \in Seq(1..MaxLsn)
<1>1. ToSet(s) \subseteq Nat
  <2>1. \A k \in DOMAIN s : s[k] \in 1..MaxLsn
    BY SequenceSteps
  <2> QED BY <2>1, BoundsAssumption DEF ToSet
<1>2. ASSUME NEW l \in 1..MaxLsn
      PROVE  Append(s, l) \in Seq(1..MaxLsn) /\ ToSet(Append(s, l)) = ToSet(s) \union {l}
  <2> DEFINE t == Append(s, l)
  <2>1. /\ t \in Seq(1..MaxLsn) /\ Len(t) = Len(s) + 1 /\ Len(s) \in Nat
        /\ t[Len(s) + 1] = l /\ \A k \in 1..Len(s) : t[k] = s[k]
        /\ DOMAIN s = 1..Len(s)
    <3>1. /\ t \in Seq(1..MaxLsn) /\ Len(t) = Len(s) + 1
          /\ \A k \in 1..Len(s) : t[k] = s[k]
          /\ t[Len(s) + 1] = l
      BY SequenceGrows, Zenon
    <3>2. Len(s) \in Nat /\ DOMAIN s = 1..Len(s)
      BY SequenceSteps, Zenon
    <3> QED BY <3>1, <3>2, Zenon
  <2> HIDE DEF t
  <2>2. DOMAIN t = 1..Len(t)
    BY <2>1, SequenceSteps, Zenon
  <2>3. ToSet(t) = ToSet(s) \union {l}
    BY <2>1, <2>2 DEF ToSet
  <2> QED BY <2>1, <2>3 DEF t
<1>3. s # <<>> => Head(s) \in 1..MaxLsn /\ Tail(s) \in Seq(1..MaxLsn)
  BY SequenceSteps, Zenon
<1> QED BY <1>1, <1>2, <1>3

\* An archive is exhausted: the mark covers what it held.
LEMMA EndArchiveMarks ==
    ASSUME LedgerInv, EndArchive
    PROVE  /\ ReplayTypes' /\ ReplayMarks' /\ Mark!WatermarkTypeOK'
           /\ watermark' # watermark => watermark' \in ToSet(replayed)
<1> DEFINE high == Mark!Higher(replay.high, replay.fileHigh)
<1>1. /\ ReplayTypes /\ ReplayMarks /\ Mark!WatermarkTypeOK /\ watermark \in Nat
      /\ replay.high \in Nat /\ replay.fileHigh \in Nat
      /\ replay.todo \in SUBSET Nat /\ replay.todo # {} /\ replay.todo \subseteq DOMAIN archives
  BY DEF LedgerInv, TypeInv, CounterTypes, Mark!WatermarkTypeOK, ReplayTypes, EndArchive
<1>2. /\ high \in Nat /\ high \in {replay.high, replay.fileHigh}
      /\ replay.high <= high /\ replay.fileHigh <= high
  BY <1>1 DEF Mark!Higher
<1>3. /\ Mark!ForceAdvance(high)
      /\ replay' = [replay EXCEPT
                       !.high = high, !.todo = @ \ {Replaying},
                       !.pc = IF replay.todo = {Replaying} THEN "healed" ELSE "read"]
      /\ UNCHANGED <<archives, replayed, replays>>
      /\ replay.pc = "feed" /\ replay.raw = <<>>
  BY DEF EndArchive
<1> HIDE DEF high
<1>4. Mark!WatermarkTypeOK'
  BY <1>1, <1>2, <1>3, MarkTypes
<1>5. /\ watermark' \in Nat /\ high <= watermark'
      /\ watermark' # watermark => watermark' = high /\ high # 0
  BY <1>1, <1>2, <1>3 DEF Mark!ForceAdvance
<1>6. Replaying \in replay.todo
  BY <1>1, MinOfNats DEF Replaying
<1>7. ReplayTypes'
  <2>1. /\ replay' \in [pc : {"idle", "read", "feed", "healed"}, todo : SUBSET (Nat \ {0}),
                        raw : Seq(1..MaxLsn), fileHigh : Nat, high : Nat]
        /\ replay'.pc \in {"read", "healed"} /\ replay'.todo = replay.todo \ {Replaying}
        /\ replay'.pc = "read" => replay.todo # {Replaying}
    <3>1. PICK pc \in {"read", "healed"}, todo \in SUBSET (Nat \ {0}) :
             /\ replay' = [replay EXCEPT !.high = high, !.todo = todo, !.pc = pc]
             /\ todo = replay.todo \ {Replaying}
             /\ pc = "read" => replay.todo # {Replaying}
      <4>1. replay.todo \ {Replaying} \in SUBSET (Nat \ {0})
        BY <1>1 DEF ReplayTypes
      <4>2. CASE replay.todo = {Replaying}
        BY <1>3, <4>1, <4>2, Zenon
      <4>3. CASE replay.todo # {Replaying}
        BY <1>3, <4>1, <4>3, Zenon
      <4> QED BY <4>2, <4>3, Zenon
    <3> QED BY <1>1, <1>2, <3>1 DEF ReplayTypes
  <2>2. /\ replay.todo \ {Replaying} \subseteq DOMAIN archives
        /\ replay'.pc = "read" => replay.todo \ {Replaying} # {}
    BY <1>1, <1>6, <2>1
  <2>3. replayed' \in Seq(1..MaxLsn) /\ replays' \in 0..MaxReplays /\ archives' = archives
    BY <1>1, <1>3 DEF ReplayTypes
  <2> QED BY <2>1, <2>2, <2>3 DEF ReplayTypes
<1>8. /\ replay'.high = high /\ replay'.fileHigh = replay.fileHigh /\ replay'.raw = <<>>
      /\ replay'.pc \in {"read", "healed"}
  BY <1>1, <1>3 DEF ReplayTypes
<1>9. \A l \in ToSet(replayed) : l \in Nat
  BY <1>1, LsnSequences DEF ReplayTypes
<1>10. \A l \in ToSet(replayed) : l <= high
  BY <1>1, <1>2, <1>3, <1>9 DEF ReplayMarks
<1>11. high \in ToSet(replayed) \union {0}
  BY <1>1, <1>2 DEF ReplayMarks
<1>12. ReplayMarks'
  BY <1>1, <1>3, <1>5, <1>8, <1>10, <1>11 DEF ReplayMarks
<1> QED BY <1>4, <1>5, <1>7, <1>11, <1>12

\* A record is handed over.
LEMMA FeedRecordMarks ==
    ASSUME ReplayTypes, ReplayMarks, FeedRecord, watermark' = watermark
    PROVE  ReplayTypes' /\ ReplayMarks'
<1>1. /\ replay.raw \in Seq(1..MaxLsn) /\ replay.raw # <<>> /\ replay.pc = "feed"
      /\ replay.high \in Nat /\ replay.fileHigh \in Nat /\ replayed \in Seq(1..MaxLsn)
      /\ UNCHANGED <<archives, replays>>
  BY DEF ReplayTypes, FeedRecord
<1>2. PICK l \in 1..MaxLsn : l = Head(replay.raw)
  BY <1>1, LsnSequences
<1>3. PICK high : high = Mark!Higher(replay.fileHigh, l)
  OBVIOUS
<1>4. l \in Nat /\ high \in Nat /\ high \in {replay.fileHigh, l} /\ l <= high /\ replay.fileHigh <= high
  BY <1>1, <1>3, BoundsAssumption DEF Mark!Higher
<1>5. /\ replayed' = Append(replayed, l)
      /\ replay' = [replay EXCEPT !.raw = Tail(replay.raw), !.fileHigh = high]
  BY <1>2, <1>3 DEF FeedRecord
<1>6. ToSet(replayed') = ToSet(replayed) \union {l} /\ replayed' \in Seq(1..MaxLsn)
  BY <1>1, <1>5, LsnSequences
<1>7. Tail(replay.raw) \in Seq(1..MaxLsn)
  BY <1>1, LsnSequences
<1>8. /\ replay' \in [pc : {"idle", "read", "feed", "healed"}, todo : SUBSET (Nat \ {0}),
                      raw : Seq(1..MaxLsn), fileHigh : Nat, high : Nat]
      /\ replay'.pc = "feed" /\ replay'.todo = replay.todo
      /\ replay'.high = replay.high /\ replay'.fileHigh = high
  BY <1>1, <1>4, <1>5, <1>7 DEF ReplayTypes
<1>9. ReplayTypes'
  BY <1>1, <1>6, <1>8 DEF ReplayTypes
<1>10. \A m \in ToSet(replayed) : m \in Nat
  BY <1>1, LsnSequences
<1>11. \A m \in ToSet(replayed) \union {l} : m <= replay.high \/ m <= high
  BY <1>1, <1>4, <1>10 DEF ReplayMarks
<1>12. {replay.high, high} \subseteq ToSet(replayed) \union {l} \union {0}
  BY <1>4 DEF ReplayMarks
<1>13. ReplayMarks'
  BY <1>6, <1>8, <1>11, <1>12 DEF ReplayMarks
<1> QED BY <1>9, <1>13

\* A replay lists the archives, hands their records over one by one and forces the mark
\* after each archive, frozen or not (replayFromArchive, replayArchiveFile).
LEMMA ReplayKeepsLedger ==
    ASSUME LedgerInv, BeginReplay \/ ReplayStep \/ ReplayError
    PROVE  /\ LedgerInv'
           /\ watermark' # watermark => watermark' \in ToSet(replayed)
<1>1. /\ TypeInv /\ ArchiveTypes /\ SpillTypes /\ ReplayTypes /\ ReplayMarks
      /\ SegmentTypes /\ CallTypes /\ FileTypes /\ CounterTypes
      /\ watermark \in Nat /\ replay.high \in Nat
  BY DEF LedgerInv, TypeInv, CounterTypes, Mark!WatermarkTypeOK, ReplayTypes
<1>2. UNCHANGED <<archives, spill>> /\ ArchiveTypes' /\ SpillTypes'
  BY <1>1 DEF BeginReplay, ReplayStep, ReadArchive, FeedRecord, EndArchive, Heal, ReplayError,
              ArchiveTypes, SpillTypes
<1>3. CASE EndArchive
  <2>1. /\ ReplayTypes' /\ ReplayMarks' /\ Mark!WatermarkTypeOK'
        /\ watermark' # watermark => watermark' \in ToSet(replayed)
    BY <1>3, EndArchiveMarks
  <2>2. SegmentTypes' /\ CallTypes' /\ FileTypes'
    BY <1>1, <1>3 DEF EndArchive, SegmentTypes, CallTypes, FileTypes, segmentVars, envVars
  <2>3. CounterTypes'
    BY <1>1, <1>3, <2>1 DEF EndArchive, CounterTypes, throttleVars, envVars
  <2> QED BY <1>2, <2>1, <2>2, <2>3 DEF LedgerInv, TypeInv
<1>4. CASE Heal
  <2>1. LeavePartition /\ replay' = NoReplay /\ UNCHANGED <<replayed, replays>>
    BY <1>4 DEF Heal
  <2>2. TypeInv' /\ watermark' = watermark
    BY <1>1, <2>1, WalStepTypes DEF WalNext, LeavePartition, Mark!SetFrozen
  <2>3. ReplayTypes' /\ ReplayMarks'
    BY <1>1, <2>1, <2>2 DEF ReplayTypes, ReplayMarks, NoReplay
  <2> QED BY <1>2, <2>2, <2>3 DEF LedgerInv
<1>5. CASE BeginReplay \/ ReadArchive \/ FeedRecord \/ ReplayError
  <2>1. UNCHANGED walVars
    BY <1>5 DEF BeginReplay, ReadArchive, FeedRecord, ReplayError
  <2>2. TypeInv' /\ watermark' = watermark
    BY <1>1, <2>1, WalStepTypes DEF walVars, markVars
  <2>3. CASE BeginReplay
    <3>1. /\ replayed' = <<>> /\ replays' = replays + 1 /\ replays < MaxReplays
          /\ replay' = [NoReplay EXCEPT
                           !.pc = IF archives = <<>> THEN "healed" ELSE "read",
                           !.todo = DOMAIN archives]
      BY <2>3 DEF BeginReplay
    <3>2. archives # <<>> => DOMAIN archives # {}
      BY <1>1 DEF ArchiveTypes
    <3>3. DOMAIN archives \in SUBSET (Nat \ {0})
      BY <1>1 DEF ArchiveTypes
    <3>4. /\ replay' \in [pc : {"idle", "read", "feed", "healed"}, todo : SUBSET (Nat \ {0}),
                          raw : Seq(1..MaxLsn), fileHigh : Nat, high : Nat]
          /\ replay'.pc \in {"read", "healed"} /\ replay'.todo = DOMAIN archives
          /\ replay'.pc = "read" => archives # <<>>
          /\ replay'.raw = <<>> /\ replay'.high = 0 /\ replay'.fileHigh = 0
      <4>1. PICK pc \in {"read", "healed"}, todo \in SUBSET (Nat \ {0}) :
               /\ replay' = [NoReplay EXCEPT !.pc = pc, !.todo = todo]
               /\ todo = DOMAIN archives /\ (pc = "read" => archives # <<>>)
        BY <3>1, <3>3, Zenon
      <4>2. <<>> \in Seq(1..MaxLsn)
        OBVIOUS
      <4>3. NoReplay \in [pc : {"idle", "read", "feed", "healed"}, todo : SUBSET (Nat \ {0}),
                          raw : Seq(1..MaxLsn), fileHigh : Nat, high : Nat]
        BY <4>2 DEF NoReplay
      <4>4. NoReplay.raw = <<>> /\ NoReplay.high = 0 /\ NoReplay.fileHigh = 0
        BY DEF NoReplay
      <4> QED BY <4>1, <4>3, <4>4
    <3>5. ToSet(replayed') = {}
      BY <3>1 DEF ToSet
    <3>6. replays' \in 0..MaxReplays
      BY <1>1, <3>1, ArchiveAssumption DEF ReplayTypes
    <3>7. ReplayTypes' /\ ReplayMarks'
      BY <1>1, <1>2, <2>2, <3>1, <3>2, <3>4, <3>5, <3>6 DEF ReplayTypes, ReplayMarks
    <3> QED BY <1>2, <2>2, <3>7 DEF LedgerInv
  <2>4. CASE ReadArchive
    <3>1. Replaying \in DOMAIN archives
      <4>1. replay.todo \in SUBSET Nat /\ replay.todo # {} /\ replay.todo \subseteq DOMAIN archives
        BY <1>1, <2>4 DEF ReplayTypes, ReadArchive
      <4> QED BY <4>1, MinOfNats DEF Replaying
    <3>2. PICK raw \in Seq(1..MaxLsn) :
             replay' = [replay EXCEPT !.pc = "feed", !.raw = raw, !.fileHigh = 0]
      <4>1. archives[Replaying] \in Seq(1..MaxLsn)
        BY <1>1, <3>1 DEF ArchiveTypes
      <4>2. replay' = [replay EXCEPT !.pc = "feed", !.raw = archives[Replaying], !.fileHigh = 0]
        BY <2>4 DEF ReadArchive
      <4> QED BY <4>1, <4>2, Zenon
    <3>3. /\ replay' \in [pc : {"idle", "read", "feed", "healed"}, todo : SUBSET (Nat \ {0}),
                          raw : Seq(1..MaxLsn), fileHigh : Nat, high : Nat]
          /\ replay'.pc = "feed" /\ replay'.todo = replay.todo
          /\ replay'.high = replay.high /\ replay'.fileHigh = 0
      BY <1>1, <3>2 DEF ReplayTypes
    <3>4. UNCHANGED <<replayed, replays>> /\ replay.pc = "read"
      BY <2>4 DEF ReadArchive
    <3>5. ReplayTypes' /\ ReplayMarks'
      BY <1>1, <1>2, <2>2, <3>3, <3>4 DEF ReplayTypes, ReplayMarks
    <3> QED BY <1>2, <2>2, <3>5 DEF LedgerInv
  <2>5. CASE FeedRecord
    <3>1. ReplayTypes' /\ ReplayMarks'
      BY <1>1, <2>2, <2>5, FeedRecordMarks
    <3> QED BY <1>2, <2>2, <3>1 DEF LedgerInv
  <2>6. CASE ReplayError
    <3>1. /\ replay' = [replay EXCEPT !.pc = "healed"] /\ UNCHANGED <<replayed, replays>>
          /\ replay.pc = "read" \/ replay.raw # <<>>
      BY <2>6 DEF ReplayError
    <3>2. /\ replay' \in [pc : {"idle", "read", "feed", "healed"}, todo : SUBSET (Nat \ {0}),
                          raw : Seq(1..MaxLsn), fileHigh : Nat, high : Nat]
          /\ replay'.pc = "healed" /\ replay'.raw = replay.raw
          /\ replay'.high = replay.high /\ replay'.fileHigh = replay.fileHigh
      BY <1>1, <3>1 DEF ReplayTypes
    <3>3. ReplayTypes' /\ ReplayMarks'
      BY <1>1, <2>2, <3>1, <3>2 DEF ReplayTypes, ReplayMarks
    <3> QED BY <1>2, <2>2, <3>3 DEF LedgerInv
  <2> QED BY <1>5, <2>2, <2>3, <2>4, <2>5, <2>6
<1> QED BY <1>3, <1>4, <1>5 DEF ReplayStep

\* A restart forgets the spill and the replay and keeps the archives.
LEMMA RestartKeepsLedger ==
    ASSUME LedgerInv, LedgerCrash
    PROVE  LedgerInv'
<1>1. TypeInv /\ ArchiveTypes /\ ReplayTypes /\ Crash
  BY DEF LedgerInv, LedgerCrash
<1>2. TypeInv'
  BY <1>1, WalStepTypes DEF WalNext
<1>3. /\ spill' = NoSpill /\ replay' = NoReplay /\ replayed' = <<>> /\ watermark' = 0
      /\ UNCHANGED <<archives, replays>>
  BY <1>1 DEF LedgerCrash, Crash
<1>4. ArchiveTypes' /\ SpillTypes'
  BY <1>1, <1>3 DEF ArchiveTypes, SpillTypes, NoSpill
<1>5. ReplayTypes' /\ ReplayMarks'
  BY <1>1, <1>3 DEF ReplayTypes, ReplayMarks, NoReplay, ToSet
<1> QED BY <1>2, <1>4, <1>5 DEF LedgerInv

\* Every step keeps the invariant; while the mark is frozen and the process lives, only
\* a replay moves it, to a record it has handed over.
LEMMA LedgerInvStep ==
    ASSUME LedgerInv, [LedgerNext]_ledgerVars
    PROVE  /\ LedgerInv'
           /\ frozen /\ watermark' # watermark /\ crashes' = crashes =>
                 watermark' \in ToSet(replayed)
<1>1. CASE WalStep \/ UNCHANGED ledgerVars
  <2>1. frozen => watermark' = watermark
    BY <1>1, LogLeavesFrozenMark DEF LedgerInv, WalStep, ledgerVars
  <2> QED BY <1>1, <2>1, LogStepKeepsLedger
<1>2. CASE BeginSpill \/ SpillStep \/ SpillError
  <2>1. watermark' = watermark
    BY <1>2 DEF BeginSpill, SpillStep, ReadSegment, WriteArchive, RemoveSegment, DeleteSpilled,
                SpillError, walVars, markVars
  <2> QED BY <1>2, <2>1, SpillKeepsLedger
<1>3. CASE BeginReplay \/ ReplayStep \/ ReplayError
  BY <1>3, ReplayKeepsLedger
<1>4. CASE LedgerCrash
  <2>1. crashes' # crashes
    <3>1. crashes \in Nat
      BY BoundsAssumption DEF LedgerInv, TypeInv, CounterTypes
    <3> QED BY <1>4, <3>1 DEF LedgerCrash, Crash
  <2> QED BY <1>4, <2>1, RestartKeepsLedger
<1> QED BY <1>1, <1>2, <1>3, <1>4 DEF LedgerNext

\* At the start nothing is spilled or replayed.
LEMMA LedgerInitInv == LedgerInit => LedgerInv
<1> SUFFICES ASSUME LedgerInit PROVE LedgerInv
  OBVIOUS
<1>1. TypeInv
  BY WalInitTypes DEF LedgerInit
<1>2. /\ archives = <<>> /\ spill = NoSpill /\ replay = NoReplay /\ replayed = <<>>
      /\ replays = 0 /\ watermark = 0
  BY DEF LedgerInit, WalInit, Mark!WatermarkInit
<1>3. ArchiveTypes
  BY <1>2 DEF ArchiveTypes
<1>4. SpillTypes
  BY <1>2 DEF SpillTypes, NoSpill
<1>5. ReplayTypes /\ ReplayMarks
  BY <1>2, ArchiveAssumption DEF ReplayTypes, ReplayMarks, NoReplay, ToSet
<1> QED BY <1>1, <1>3, <1>4, <1>5 DEF LedgerInv

\* Types and marks, whatever interleaves.
LEMMA LedgerInvariance == LedgerSpec => []LedgerInv
<1>1. LedgerInv /\ [LedgerNext]_ledgerVars => LedgerInv'
  BY LedgerInvStep
<1> QED BY <1>1, LedgerInitInv, PTL DEF LedgerSpec

\* An 'archiveError' that was emitted stays emitted.
LEMMA ErrorStays ==
    [LedgerNext]_ledgerVars => archiveError' = archiveError \/ archiveError' = TRUE
BY DEF LedgerNext, WalStep, ledgerVars, archiveVars, BeginSpill, SpillStep, ReadSegment,
   WriteArchive, RemoveSegment, DeleteSpilled, SpillError, BeginReplay, ReplayStep,
   ReadArchive, FeedRecord, EndArchive, Heal, ReplayError, LedgerCrash

\* The log and the archive keep their types with spills and replays going on between
\* the appends (LedgerSyncProtocol, WalWriter, SegmentManager).
THEOREM LedgerTypes == LedgerSpec => []LedgerTypeOK
<1> DEFINE FlagType == archiveError \in BOOLEAN
<1>1. LedgerInit => FlagType
  BY DEF LedgerInit
<1>2. FlagType /\ [LedgerNext]_ledgerVars => FlagType'
  BY ErrorStays
<1>3. LedgerInv /\ FlagType => LedgerTypeOK
  BY LedgerInvGivesTypes
<1> HIDE DEF FlagType
<1> QED BY <1>1, <1>2, <1>3, LedgerInvariance, PTL DEF LedgerSpec

\* Between archives, and when the heal is signalled, the mark covers every record handed
\* over, whatever is appended, spilled or lost meanwhile (replayFromArchive).
THEOREM MarkCoversReplays == LedgerSpec => []MarkCoversReplayed
<1>1. LedgerInv => MarkCoversReplayed
  <2> SUFFICES ASSUME LedgerInv, replay.pc \in {"read", "healed"}, replay.raw = <<>>,
                      NEW l \in ToSet(replayed)
               PROVE  l <= watermark
    BY DEF MarkCoversReplayed
  <2>1. l <= replay.high /\ replay.high <= watermark
    BY DEF LedgerInv, ReplayMarks
  <2>2. l \in Nat /\ replay.high \in Nat /\ watermark \in Nat
    BY LsnSequences
    DEF LedgerInv, ReplayTypes, TypeInv, CounterTypes, Mark!WatermarkTypeOK
  <2> QED BY <2>1, <2>2
<1> QED BY <1>1, LedgerInvariance, PTL

\* While it is frozen the mark moves only to a record that the present replay has handed
\* over: neither the timer nor the record count gets through (setPartitionMode).
THEOREM FrozenMarkFollows == LedgerSpec => FrozenMarkFollowsReplay
<1>1. LedgerInv /\ [LedgerNext]_ledgerVars =>
         [frozen /\ watermark' # watermark /\ crashes' = crashes =>
             watermark' \in ToSet(replayed)]_ledgerVars
  BY LedgerInvStep
<1> QED BY <1>1, LedgerInvariance, PTL DEF LedgerSpec, FrozenMarkFollowsReplay

-----------------------------------------------------------------------------
(* The sliding window loses the oldest records first *)

\* How many segment numbers have left the window.
Gone == activeIndex - Len(segments)

\* The records in file i, and with them those under way to it.
LsnsAt(i) == {FileAt(i).recs[k].lsn : k \in 1..Len(FileAt(i).recs)}
PlacedIn(i) == LsnsAt(i) \union {call[w].lsn : w \in Writing(i)}

\* The records that reached their file, whatever became of the file.
SettlingPcs == {"record", "trim", "account", "fsync", "flushed"}
Settling == {w \in Writers : call[w].pc \in SettlingPcs}
Settled == returned \union {call[w].lsn : w \in Settling}

\* LSNs ascend from file to file; those that cannot be found in the window any more
\* are below all that are in it or under way to it; only files of segments that have
\* left are being deleted.
FilesAscend ==
    \A i, j \in Nat \ {0} : i < j => \A l \in PlacedIn(i), m \in PlacedIn(j) : l < m
PlacesOpened ==
    \A i \in Nat \ {0} : \A l \in PlacedIn(i) : i <= activeIndex /\ l \in 1..(nextLsn - 1)
LostBelow ==
    \A l \in Settled :
        \/ \E i \in Nat \ {0} : i > Gone /\ l \in LsnsAt(i)
        \/ \A j \in Nat \ {0} : j > Gone => \A m \in PlacedIn(j) : l < m
TrimmedGone == \A w \in Writers : call[w].pc = "trim" => call[w].seg <= Gone

OrderInv == crashes = 0 => FilesAscend /\ PlacesOpened /\ LostBelow /\ TrimmedGone

\* Looking the active segment up takes nothing out of the window.
LEMMA OpenSegmentGone ==
    ASSUME SegmentInv, OpenSegment, segments = <<>> <=> activeIndex = 0
    PROVE  Gone' = Gone /\ Gone \in Int /\ activeIndex' >= activeIndex
<1>1. segments \in Seq(Segment) /\ activeIndex \in Nat
  BY DEF SegmentInv
<1>2. CASE segments = <<>>
  <2> DEFINE new == [index |-> activeIndex + 1, size |-> 0, createdAt |-> clock]
  <2>1. segments' = Append(segments, new) /\ activeIndex' = activeIndex + 1
    BY <1>2 DEF OpenSegment, Opened, WithNewSegment, OpenedIndex
  <2> HIDE DEF new
  <2>2. Len(segments') = 1 /\ Len(segments) = 0
    BY <1>2, <2>1
  <2> QED BY <1>1, <2>1, <2>2 DEF Gone
<1>3. CASE segments # <<>>
  <2>1. segments' = segments /\ activeIndex' = activeIndex
    BY <1>3 DEF OpenSegment, Opened, OpenedIndex
  <2> QED BY <1>1, <2>1 DEF Gone
<1> QED BY <1>2, <1>3

\* The numbers in the window.
LEMMA NumbersInWindow ==
    ASSUME SegmentInv
    PROVE  Gone \in Int /\ activeIndex \in Nat /\ Tracked = (Gone + 1)..activeIndex
<1>1. /\ segments \in Seq(Segment) /\ activeIndex \in Nat
      /\ \A k \in 1..Len(segments) : segments[k].index = activeIndex - Len(segments) + k
  BY DEF SegmentInv, SegmentWindow
<1> DEFINE n == Len(segments)
<1>2. n \in Nat /\ Gone = activeIndex - n
  BY <1>1 DEF Gone
<1>3. Tracked = {activeIndex - n + k : k \in 1..n}
  BY <1>1 DEF Tracked
<1> HIDE DEF n
<1>4. {activeIndex - n + k : k \in 1..n} = (activeIndex - n + 1)..activeIndex
  <2>1. ASSUME NEW i \in (activeIndex - n + 1)..activeIndex
        PROVE  \E k \in 1..n : i = activeIndex - n + k
    <3>1. i - (activeIndex - n) \in 1..n /\ i = activeIndex - n + (i - (activeIndex - n))
      BY <1>1, <1>2
    <3> QED BY <3>1
  <2>2. \A k \in 1..n : activeIndex - n + k \in (activeIndex - n + 1)..activeIndex
    BY <1>1, <1>2
  <2> QED BY <2>1, <2>2
<1>5. activeIndex - n + 1 = Gone + 1 /\ Gone \in Int
  BY <1>1, <1>2
<1> QED BY <1>1, <1>3, <1>4, <1>5

\* recordWrite() moves the window on; what it takes out it leaves to be deleted.
LEMMA RecordWriteGone ==
    ASSUME SegmentInv, CallInv, NEW w \in Writers, RecordWrite(w), segments # <<>>
    PROVE  /\ Gone' \in Int /\ Gone' >= Gone /\ activeIndex' >= activeIndex
           /\ call'[w].pc \in {"trim", "account"} /\ call'[w].lsn = call[w].lsn
           /\ call'[w].pc = "trim" => call'[w].seg <= Gone'
           /\ \A v \in Writers : v # w => call'[v] = call[v]
<1> DEFINE grown == Grown(call[w].size)
           n == Len(segments)
<1>1. /\ Opened = segments /\ segments \in Seq(Segment) /\ n \in 1..MaxSegments
      /\ \A k \in 1..n : segments[k].index = activeIndex - n + k
      /\ activeIndex \in Nat /\ MaxSegments \in Nat \ {0} /\ n \in Nat \ {0}
      /\ call \in [Writers -> Call] /\ call[w] \in Call /\ Gone = activeIndex - n
  BY SizesAssumption DEF Opened, SegmentInv, SegmentWindow, CallInv, Gone, OpenedIndex
<1>2. /\ grown \in Seq(Segment) /\ Len(grown) = n
      /\ \A k \in 1..n : grown[k].index = activeIndex - n + k
  <2> DEFINE last == [segments[n] EXCEPT !.size = @ + call[w].size]
  <2>1. segments[n] \in Segment /\ call[w].size \in Nat
    BY <1>1 DEF Call
  <2>2. last \in Segment /\ last.index = segments[n].index
    <3>1. \A s \in Segment, more \in Nat :
             [s EXCEPT !.size = @ + more] \in Segment
                 /\ [s EXCEPT !.size = @ + more].index = s.index
      BY DEF Segment
    <3> QED BY <2>1, <3>1
  <2>3. grown = [segments EXCEPT ![n] = last]
    BY <1>1 DEF Grown
  <2> HIDE DEF last, grown
  <2>4. grown \in Seq(Segment) /\ Len(grown) = n /\ grown[n] = last
        /\ \A k \in 1..n : k # n => grown[k] = segments[k]
    BY <1>1, <2>2, <2>3
  <2> QED BY <1>1, <2>2, <2>4
<1>3. grown[Len(grown)].index = activeIndex
  <2> HIDE DEF grown, n
  <2>1. n \in 1..n /\ activeIndex - n + n = activeIndex
    BY <1>1
  <2> QED BY <1>2, <2>1
<1> HIDE DEF grown
<1>4. CASE IsFull(grown)
  <2> DEFINE new == [index |-> activeIndex + 1, size |-> 0, createdAt |-> clock]
             longer == Append(grown, new)
  <2>1. activeIndex' = activeIndex + 1 /\ TrimInto(w, longer)
    BY <1>3, <1>4 DEF RecordWrite, grown, WithNewSegment, OpenedIndex
  <2>2. new \in Segment
    BY <1>1 DEF Segment, SegmentInv
  <2> HIDE DEF new
  <2> HIDE DEF n
  <2>3. /\ longer \in Seq(Segment) /\ Len(longer) = n + 1 /\ longer[1] = grown[1]
        /\ Head(longer) = longer[1] /\ Tail(longer) \in Seq(Segment) /\ Len(Tail(longer)) = n
    <3>1. longer \in Seq(Segment) /\ Len(longer) = n + 1 /\ \A k \in 1..n : longer[k] = grown[k]
      BY <1>2, <2>2, SequenceGrows
    <3>2. 1 \in 1..n /\ n \in Nat
      BY <1>1
    <3> HIDE DEF longer
    <3>3. longer # <<>>
      BY <3>1, <3>2
    <3> QED BY <3>1, <3>2, <3>3
  <2> HIDE DEF longer
  <2>4. Head(longer).index = activeIndex - n + 1
    BY <1>1, <1>2, <2>3
  <2>5. CASE Len(longer) > MaxSegments
    <3>1. /\ segments' = Tail(longer)
          /\ call' = [call EXCEPT ![w].pc = "trim", ![w].seg = Head(longer).index]
      BY <2>1, <2>5 DEF TrimInto
    <3>2. segments' = Tail(longer)
      BY <3>1
    <3>3. PICK first : first = Head(longer).index
      OBVIOUS
    <3>4. /\ call'[w].pc = "trim" /\ call'[w].seg = first /\ call'[w].lsn = call[w].lsn
          /\ \A v \in Writers : v # w => call'[v] = call[v]
      BY <1>1, <3>1, <3>3 DEF Call
    <3>5. Gone' = activeIndex + 1 - n
      <4>1. Len(segments') = n
        BY <2>3, <3>2, Zenon
      <4>2. activeIndex' = activeIndex + 1 /\ activeIndex \in Nat /\ n \in Nat
        BY <1>1, <2>1
      <4> QED BY <4>1, <4>2 DEF Gone
    <3> QED BY <1>1, <2>1, <2>4, <3>3, <3>4, <3>5
  <2>6. CASE ~(Len(longer) > MaxSegments)
    <3>1. segments' = longer /\ call' = [call EXCEPT ![w].pc = "account"]
      BY <2>1, <2>6 DEF TrimInto
    <3>2. segments' = longer
      BY <3>1
    <3>3. /\ call'[w].pc = "account" /\ call'[w].lsn = call[w].lsn
          /\ \A v \in Writers : v # w => call'[v] = call[v]
      BY <1>1, <3>1 DEF Call
    <3>4. Gone' = activeIndex + 1 - (n + 1)
      BY <1>1, <2>1, <2>3, <3>2 DEF Gone
    <3> QED BY <1>1, <2>1, <3>3, <3>4
  <2> QED BY <2>5, <2>6
<1>5. CASE ~IsFull(grown)
  <2>1. segments' = grown /\ activeIndex' = activeIndex /\ call' = [call EXCEPT ![w].pc = "account"]
    BY <1>3, <1>5 DEF RecordWrite, grown, OpenedIndex
  <2>2. /\ call'[w].pc = "account" /\ call'[w].lsn = call[w].lsn
        /\ \A v \in Writers : v # w => call'[v] = call[v]
    BY <1>1, <2>1 DEF Call
  <2>3. Gone' = activeIndex - n
    BY <1>2, <2>1 DEF Gone
  <2> QED BY <1>1, <2>1, <2>2, <2>3
<1> QED BY <1>4, <1>5

\* A step after which every record is where it was or on its way there, if its segment
\* is still in the window.
LEMMA OrderKept ==
    ASSUME FilesAscend, PlacesOpened, LostBelow, Gone \in Int, Gone' \in Int, Gone' >= Gone,
           activeIndex \in Nat, activeIndex' \in Nat, activeIndex' >= activeIndex,
           nextLsn' = nextLsn,
           \A i \in Nat \ {0} : PlacedIn(i)' \subseteq PlacedIn(i),
           \A i \in Nat \ {0} : i > Gone' => LsnsAt(i) \subseteq LsnsAt(i)',
           \A l \in Settled' : l \in Settled \/ \E i \in Nat \ {0} : l \in LsnsAt(i)'
    PROVE  FilesAscend' /\ PlacesOpened' /\ LostBelow'
<1>1. FilesAscend'
  BY DEF FilesAscend
<1>2. PlacesOpened'
  <2> SUFFICES ASSUME NEW i \in Nat \ {0}, NEW l \in PlacedIn(i)'
               PROVE  i <= activeIndex' /\ l \in 1..(nextLsn - 1)
    BY DEF PlacesOpened
  <2>1. i <= activeIndex /\ l \in 1..(nextLsn - 1)
    BY DEF PlacesOpened
  <2> QED BY <2>1
<1>3. ASSUME NEW l, NEW i \in Nat \ {0}, l \in LsnsAt(i), l \in PlacedIn(i)
      PROVE  \/ i > Gone' /\ l \in LsnsAt(i)'
             \/ \A j \in Nat \ {0} : j > Gone' => \A m \in PlacedIn(j)' : l < m
  <2>1. CASE i > Gone'
    BY <1>3, <2>1
  <2>2. CASE ~(i > Gone')
    <3> SUFFICES ASSUME NEW j \in Nat \ {0}, j > Gone', NEW m \in PlacedIn(j)'
                 PROVE  l < m
      OBVIOUS
    <3>1. i < j
      BY <2>2
    <3> QED BY <1>3, <3>1 DEF FilesAscend
  <2> QED BY <2>1, <2>2
<1>4. ASSUME NEW l \in Settled'
      PROVE  \/ \E i \in Nat \ {0} : i > Gone' /\ l \in LsnsAt(i)'
             \/ \A j \in Nat \ {0} : j > Gone' => \A m \in PlacedIn(j)' : l < m
  <2>1. CASE \E i \in Nat \ {0} : i > Gone /\ l \in LsnsAt(i)
    <3>1. PICK i \in Nat \ {0} : l \in LsnsAt(i)
      BY <2>1
    <3>2. l \in PlacedIn(i)
      BY <3>1 DEF PlacedIn
    <3> QED BY <1>3, <3>1, <3>2
  <2>2. CASE \A j \in Nat \ {0} : j > Gone => \A m \in PlacedIn(j) : l < m
    <3> SUFFICES ASSUME NEW j \in Nat \ {0}, j > Gone', NEW m \in PlacedIn(j)'
                 PROVE  l < m
      OBVIOUS
    <3>1. j > Gone /\ m \in PlacedIn(j)
      OBVIOUS
    <3> QED BY <2>2, <3>1
  <2>3. CASE \E i \in Nat \ {0} : l \in LsnsAt(i)'
    <3>1. PICK i \in Nat \ {0} : l \in LsnsAt(i)'
      BY <2>3
    <3>2. l \in PlacedIn(i)
      BY <3>1 DEF PlacedIn
    <3>3. CASE i > Gone'
      BY <3>1, <3>3
    <3>4. CASE ~(i > Gone')
      <4> SUFFICES ASSUME NEW j \in Nat \ {0}, j > Gone', NEW m \in PlacedIn(j)'
                   PROVE  l < m
        OBVIOUS
      <4>1. i < j
        BY <3>4
      <4> QED BY <3>2, <4>1 DEF FilesAscend
    <3> QED BY <3>3, <3>4
  <2> QED BY <2>1, <2>2, <2>3 DEF LostBelow
<1> QED BY <1>1, <1>2, <1>4 DEF LostBelow

\* The other steps of append(): a call that was past the write stays past it or is over,
\* with its record where it was.
LEMMA QuietOrder ==
    ASSUME FilesAscend, PlacesOpened, LostBelow, TrimmedGone, TargetsInv,
           Gone \in Int, Gone' \in Int, Gone' >= Gone,
           activeIndex \in Nat, activeIndex' \in Nat, activeIndex' >= activeIndex,
           nextLsn' = nextLsn, call \in [Writers -> Call],
           \A v \in Writers :
               \/ call'[v] = call[v]
               \/ /\ call'[v].pc # "write"
                  /\ call'[v].pc \in SettlingPcs =>
                        call[v].pc \in SettlingPcs /\ call'[v].lsn = call[v].lsn
                  /\ call'[v].pc = "trim" => call'[v].seg <= Gone',
           \A l \in returned' : l \in Settled,
           \A i \in Nat \ {0} : LsnsAt(i)' \subseteq LsnsAt(i),
           \A i \in Nat \ {0} : i > Gone' => LsnsAt(i) \subseteq LsnsAt(i)'
    PROVE  FilesAscend' /\ PlacesOpened' /\ LostBelow' /\ TrimmedGone'
<1>1. ASSUME NEW i \in Nat \ {0} PROVE PlacedIn(i)' \subseteq PlacedIn(i)
  <2>1. \A v \in Writing(i)' : v \in Writing(i) /\ call'[v].lsn = call[v].lsn
    BY DEF Writing
  <2>2. LsnsAt(i)' \subseteq LsnsAt(i)
    OBVIOUS
  <2> QED BY <2>1, <2>2 DEF PlacedIn
<1>2. ASSUME NEW l \in Settled' PROVE l \in Settled
  <2>1. CASE l \in returned'
    BY <2>1
  <2>2. CASE l \notin returned'
    <3>1. PICK v \in Settling' : l = call'[v].lsn
      BY <2>2 DEF Settled
    <3>2. v \in Writers /\ call'[v].pc \in SettlingPcs
      BY <3>1 DEF Settling
    <3>3. call[v].pc \in SettlingPcs /\ call'[v].lsn = call[v].lsn
      BY <3>2
    <3>4. v \in Settling /\ l = call[v].lsn
      BY <3>1, <3>2, <3>3 DEF Settling
    <3> QED BY <3>4 DEF Settled
  <2> QED BY <2>1, <2>2
<1>3. FilesAscend' /\ PlacesOpened' /\ LostBelow'
  BY <1>1, <1>2, OrderKept
<1>4. TrimmedGone'
  <2> SUFFICES ASSUME NEW v \in Writers, call'[v].pc = "trim" PROVE call'[v].seg <= Gone'
    BY DEF TrimmedGone
  <2>1. CASE call'[v] = call[v]
    <3>1. call[v].seg <= Gone /\ call[v].seg \in Nat
      BY <2>1 DEF TrimmedGone, Call
    <3> QED BY <2>1, <3>1
  <2>2. CASE call'[v] # call[v]
    BY <2>2
  <2> QED BY <2>1, <2>2
<1> QED BY <1>3, <1>4

\* What an append, an fsync and a deletion do to the records of the files.
LEMMA LsnsOfFiles ==
    ASSUME FilesInv
    PROVE  /\ files' = files => \A i : LsnsAt(i)' = LsnsAt(i)
           /\ \A f : SyncFile(f) => \A i : LsnsAt(i)' = LsnsAt(i)
           /\ \A f : files' = FilesWithout(f) =>
                 \A i : LsnsAt(i)' = IF i = f THEN {} ELSE LsnsAt(i)
           /\ \A f \in Nat \ {0}, lsn, size \in Nat : AppendToFile(f, lsn, size) =>
                 \A i : LsnsAt(i)' = IF i = f THEN LsnsAt(i) \union {lsn} ELSE LsnsAt(i)
<1>1. files' = files => \A i : LsnsAt(i)' = LsnsAt(i)
  BY DEF LsnsAt, FileAt
<1>2. ASSUME NEW f, SyncFile(f) PROVE \A i : LsnsAt(i)' = LsnsAt(i)
  <2>1. \A i : FileAt(i)'.recs = FileAt(i).recs
    BY <1>2, SyncFileFacts
  <2> QED BY <2>1 DEF LsnsAt
<1>3. ASSUME NEW f, files' = FilesWithout(f)
      PROVE  \A i : LsnsAt(i)' = IF i = f THEN {} ELSE LsnsAt(i)
  <2>1. \A i : FileAt(i)' = IF i = f THEN EmptyFile ELSE FileAt(i)
    BY <1>3, DeleteFacts
  <2>2. EmptyFile.recs = <<>> /\ Len(<<>>) = 0
    BY DEF EmptyFile
  <2> QED BY <2>1, <2>2 DEF LsnsAt
<1>4. ASSUME NEW f \in Nat \ {0}, NEW lsn \in Nat, NEW size \in Nat, AppendToFile(f, lsn, size)
      PROVE  \A i : LsnsAt(i)' = IF i = f THEN LsnsAt(i) \union {lsn} ELSE LsnsAt(i)
  <2> DEFINE recs == FileAt(f).recs
             rec == [lsn |-> lsn, end |-> Bytes(f) + size]
             longer == Append(recs, rec)
  <2>1. /\ \A j : j # f => FileAt(j)' = FileAt(j)
        /\ FileAt(f)'.recs = longer
        /\ recs \in Seq(Record) /\ Bytes(f) \in Nat
    BY <1>4, AppendToFileFacts, BytesFacts
  <2>2. rec \in Record /\ rec.lsn = lsn
    BY <2>1 DEF Record
  <2> HIDE DEF recs, rec
  <2>3. /\ Len(longer) = Len(recs) + 1 /\ longer[Len(recs) + 1] = rec
        /\ \A k \in 1..Len(recs) : longer[k] = recs[k]
        /\ Len(recs) \in Nat
    BY <2>1, <2>2
  <2> HIDE DEF longer
  <2>4. {longer[k].lsn : k \in 1..Len(longer)} = {recs[k].lsn : k \in 1..Len(recs)} \union {lsn}
    BY <2>2, <2>3
  <2>5. LsnsAt(f)' = LsnsAt(f) \union {lsn}
    BY <2>1, <2>4 DEF LsnsAt, recs
  <2>6. \A i : i # f => LsnsAt(i)' = LsnsAt(i)
    BY <2>1 DEF LsnsAt
  <2> QED BY <2>5, <2>6
<1> QED BY <1>1, <1>2, <1>3, <1>4

\* append() begins: its record is the youngest and goes to the last segment.
LEMMA BeginOrder ==
    ASSUME FilesAscend, PlacesOpened, LostBelow, TrimmedGone, SegmentInv, CallInv, TargetsInv,
           FilesInv, NEW w \in Writers, BeginAppend(w)
    PROVE  FilesAscend' /\ PlacesOpened' /\ LostBelow' /\ TrimmedGone'
<1>1. /\ Gone' = Gone /\ Gone \in Int /\ activeIndex' >= activeIndex
      /\ ActiveSegment = activeIndex' /\ activeIndex' \in Nat \ {0} /\ activeIndex \in Nat
      /\ nextLsn' = nextLsn + 1 /\ nextLsn \in Nat \ {0}
      /\ returned' = returned /\ call \in [Writers -> Call]
      /\ OpenSegment /\ call[w].pc = "idle"
  BY OpenSegmentGone, OpenSegmentFacts, BoundsAssumption
  DEF BeginAppend, TargetsInv, CallInv, SegmentInv
<1>2. /\ \A v \in Writers : v # w => call'[v] = call[v]
      /\ call'[w].pc = "write" /\ call'[w].lsn = nextLsn /\ call'[w].seg = activeIndex'
  <2>1. PICK payload \in Payloads :
           call' = [call EXCEPT ![w] =
              [pc |-> "write", lsn |-> nextLsn, size |-> payload + HeaderBytes,
               seg |-> ActiveSegment]]
    BY DEF BeginAppend
  <2> QED BY <1>1, <2>1
<1>3. \A i : LsnsAt(i)' = LsnsAt(i)
  BY LsnsOfFiles DEF BeginAppend
<1>4. \A i \in Nat \ {0} : PlacedIn(i)' = IF i = activeIndex' THEN PlacedIn(i) \union {nextLsn}
                                                             ELSE PlacedIn(i)
  <2> SUFFICES ASSUME NEW i \in Nat \ {0}
               PROVE  PlacedIn(i)' = IF i = activeIndex' THEN PlacedIn(i) \union {nextLsn}
                                                         ELSE PlacedIn(i)
    OBVIOUS
  <2>1. Writing(i)' = IF i = activeIndex' THEN Writing(i) \union {w} ELSE Writing(i)
    BY <1>1, <1>2 DEF Writing
  <2>2. w \notin Writing(i) /\ \A v \in Writing(i) : call'[v].lsn = call[v].lsn
    BY <1>1, <1>2 DEF Writing
  <2> QED BY <1>2, <1>3, <2>1, <2>2 DEF PlacedIn
<1>5. \A i \in Nat \ {0} : \A l \in PlacedIn(i) :
         i <= activeIndex /\ i <= activeIndex' /\ l \in Nat \ {0} /\ l < nextLsn
  <2> SUFFICES ASSUME NEW i \in Nat \ {0}, NEW l \in PlacedIn(i)
               PROVE  i <= activeIndex /\ i <= activeIndex' /\ l \in Nat \ {0} /\ l < nextLsn
    OBVIOUS
  <2>1. i <= activeIndex /\ l \in 1..(nextLsn - 1)
    BY DEF PlacesOpened
  <2> QED BY <1>1, <2>1
<1>6. Settled' = Settled /\ \A l \in Settled : l < nextLsn
  <2>1. Settling' = Settling /\ \A v \in Settling : call'[v].lsn = call[v].lsn
    BY <1>1, <1>2 DEF Settling, SettlingPcs
  <2>2. \A v \in Settling : call[v].lsn \in 1..(nextLsn - 1)
    BY DEF Settling, SettlingPcs, CallInv
  <2>3. \A l \in Settled : l \in 1..(nextLsn - 1)
    BY <2>2 DEF Settled, CallInv
  <2> QED BY <1>1, <2>1, <2>3 DEF Settled
<1>7. FilesAscend'
  <2> SUFFICES ASSUME NEW i \in Nat \ {0}, NEW j \in Nat \ {0}, i < j,
                      NEW l \in PlacedIn(i)', NEW m \in PlacedIn(j)'
               PROVE  l < m
    BY DEF FilesAscend
  <2>1. i # activeIndex'
    <3>1. CASE j = activeIndex'
      BY <3>1
    <3>2. CASE j # activeIndex'
      <4>1. m \in PlacedIn(j)
        BY <1>4, <3>2
      <4> QED BY <1>1, <1>5, <4>1
    <3> QED BY <3>1, <3>2
  <2>2. l \in PlacedIn(i)
    BY <1>4, <2>1
  <2>3. m \in PlacedIn(j) \/ m = nextLsn
    BY <1>4
  <2> QED BY <1>5, <2>2, <2>3 DEF FilesAscend
<1>8. PlacesOpened'
  <2> SUFFICES ASSUME NEW i \in Nat \ {0}, NEW l \in PlacedIn(i)'
               PROVE  i <= activeIndex' /\ l \in 1..(nextLsn' - 1)
    BY DEF PlacesOpened
  <2>1. CASE l \in PlacedIn(i)
    BY <1>1, <1>5, <2>1
  <2>2. CASE l \notin PlacedIn(i)
    <3>1. i = activeIndex' /\ l = nextLsn
      BY <1>4, <2>2
    <3> QED BY <1>1, <3>1
  <2> QED BY <2>1, <2>2
<1>9. LostBelow'
  <2> SUFFICES ASSUME NEW l \in Settled
               PROVE  \/ \E i \in Nat \ {0} : i > Gone /\ l \in LsnsAt(i)
                      \/ \A j \in Nat \ {0} : j > Gone => \A m \in PlacedIn(j)' : l < m
    BY <1>1, <1>3, <1>6 DEF LostBelow
  <2>1. CASE \E i \in Nat \ {0} : i > Gone /\ l \in LsnsAt(i)
    BY <2>1
  <2>2. CASE \A j \in Nat \ {0} : j > Gone => \A m \in PlacedIn(j) : l < m
    <3>1. ASSUME NEW j \in Nat \ {0}, j > Gone, NEW m \in PlacedIn(j)' PROVE l < m
      <4>1. m \in PlacedIn(j) \/ m = nextLsn
        BY <1>4
      <4> QED BY <1>6, <2>2, <3>1, <4>1
    <3> QED BY <3>1
  <2> QED BY <2>1, <2>2 DEF LostBelow
<1>10. TrimmedGone'
  <2> SUFFICES ASSUME NEW v \in Writers, call'[v].pc = "trim" PROVE call'[v].seg <= Gone'
    BY DEF TrimmedGone
  <2>1. v # w
    BY <1>2
  <2> QED BY <1>1, <1>2, <2>1 DEF TrimmedGone
<1> QED BY <1>7, <1>8, <1>9, <1>10

\* The frame reaches its file, whether or not the segment is still in the window.
LEMMA WriteFrameOrder ==
    ASSUME FilesAscend, PlacesOpened, LostBelow, TrimmedGone, SegmentInv, CallInv, TargetsInv,
           FilesInv, NEW w \in Writers, WriteFrame(w)
    PROVE  FilesAscend' /\ PlacesOpened' /\ LostBelow' /\ TrimmedGone'
<1>0. PICK s, l, n : s = call[w].seg /\ l = call[w].lsn /\ n = call[w].size
  OBVIOUS
<1>1. /\ call \in [Writers -> Call] /\ call[w] \in Call /\ call[w].pc = "write"
      /\ s \in 1..activeIndex /\ activeIndex \in Nat /\ s \in Nat \ {0}
      /\ l \in Nat /\ n \in Nat
      /\ UNCHANGED <<segments, activeIndex, nextLsn, returned>>
  <2>1. call \in [Writers -> Call] /\ call[w] \in Call /\ call[w].pc = "write"
    BY DEF CallInv, WriteFrame
  <2>2. s \in 1..activeIndex /\ activeIndex \in Nat
    BY <1>0, <2>1 DEF TargetsInv, SegmentInv
  <2>3. l \in Nat /\ n \in Nat
    BY <1>0, <2>1, BoundsAssumption DEF Call
  <2> QED BY <2>1, <2>2, <2>3 DEF WriteFrame, segmentVars
<1>2. /\ AppendToFile(s, l, n)
      /\ \A v \in Writers : v # w => call'[v] = call[v]
      /\ call'[w].pc = "record" /\ call'[w].lsn = l
  BY <1>0, <1>1 DEF WriteFrame, Call
<1>3. \A i : LsnsAt(i)' = IF i = s THEN LsnsAt(i) \union {l} ELSE LsnsAt(i)
  BY <1>1, <1>2, LsnsOfFiles
<1>4. ASSUME NEW i \in Nat \ {0} PROVE PlacedIn(i)' \subseteq PlacedIn(i)
  <2>1. \A v \in Writing(i)' : v \in Writing(i) /\ call'[v].lsn = call[v].lsn
    BY <1>2 DEF Writing
  <2>2. i = s => l \in PlacedIn(i)
    BY <1>0, <1>1 DEF PlacedIn, Writing
  <2>3. \A m \in LsnsAt(i)' : m \in PlacedIn(i)
    BY <1>3, <2>2 DEF PlacedIn
  <2> QED BY <2>1, <2>3 DEF PlacedIn
<1>5. \A m \in Settled' : m \in Settled \/ \E i \in Nat \ {0} : m \in LsnsAt(i)'
  <2> SUFFICES ASSUME NEW m \in Settled', m \notin Settled
               PROVE  m \in LsnsAt(s)'
    BY <1>1
  <2>1. m \notin returned'
    BY <1>1 DEF Settled
  <2>2. PICK v \in Settling' : m = call'[v].lsn
    BY <2>1 DEF Settled
  <2>3. v = w
    <3>1. v # w => v \in Settling /\ m = call[v].lsn
      BY <1>2, <2>2 DEF Settling
    <3> QED BY <3>1 DEF Settled
  <2> QED BY <1>2, <1>3, <2>2, <2>3
<1>6. Gone' = Gone /\ Gone \in Int
  BY <1>1, NumbersInWindow DEF Gone
<1>7. FilesAscend' /\ PlacesOpened' /\ LostBelow'
  BY <1>1, <1>3, <1>4, <1>5, <1>6, OrderKept
<1>8. TrimmedGone'
  BY <1>2, <1>6 DEF TrimmedGone
<1> QED BY <1>7, <1>8

\* Every step of append() keeps the order (append, recordWrite, trimWindow).
LEMMA AppendOrder ==
    ASSUME FilesAscend, PlacesOpened, LostBelow, TrimmedGone, SegmentInv, CallInv, TargetsInv,
           FilesInv, NEW w \in Writers, AppendStep(w)
    PROVE  FilesAscend' /\ PlacesOpened' /\ LostBelow' /\ TrimmedGone'
<1>1. /\ call \in [Writers -> Call] /\ activeIndex \in Nat /\ Gone \in Int
      /\ segments = <<>> <=> activeIndex = 0
      /\ \A i : LsnsAt(i) \subseteq LsnsAt(i)
  BY NumbersInWindow DEF CallInv, TargetsInv
<1>2. ASSUME segmentVars' = segmentVars \/ OpenSegment
      PROVE  /\ Gone' \in Int /\ Gone' >= Gone /\ Gone' = Gone
             /\ activeIndex' \in Nat /\ activeIndex' >= activeIndex
  <2>1. CASE OpenSegment
    BY <1>1, <2>1, OpenSegmentGone, OpenSegmentFacts
  <2>2. CASE segmentVars' = segmentVars
    BY <1>1, <2>2 DEF segmentVars, Gone
  <2> QED BY <1>2, <2>1, <2>2
<1>3. \A l \in returned : l \in Settled
  BY DEF Settled
<1>4. CASE BeginAppend(w)
  BY <1>4, BeginOrder
<1>5. CASE WriteFrame(w)
  BY <1>5, WriteFrameOrder
<1>6. CASE RefuseAppend(w)
  <2>1. segmentVars' = segmentVars /\ UNCHANGED <<call, files, returned, nextLsn>>
    BY <1>6 DEF RefuseAppend
  <2>2. \A i : LsnsAt(i)' = LsnsAt(i)
    BY <2>1, LsnsOfFiles
  <2> QED BY <1>1, <1>2, <1>3, <2>1, <2>2, QuietOrder
<1>7. CASE RecordWrite(w)
  <2>1. /\ UNCHANGED <<files, returned, nextLsn>> /\ call[w].pc = "record"
    BY <1>7 DEF RecordWrite, OpenedIndex
  <2>2. segments # <<>>
    <3>1. call[w].seg \in 1..activeIndex
      BY <2>1 DEF TargetsInv
    <3> QED BY <1>1, <3>1
  <2>3. /\ Gone' \in Int /\ Gone' >= Gone /\ activeIndex' >= activeIndex
        /\ call'[w].pc \in {"trim", "account"} /\ call'[w].lsn = call[w].lsn
        /\ call'[w].pc = "trim" => call'[w].seg <= Gone'
        /\ \A v \in Writers : v # w => call'[v] = call[v]
    BY <1>7, <2>2, RecordWriteGone
  <2>4. \A i : LsnsAt(i)' = LsnsAt(i)
    BY <2>1, LsnsOfFiles
  <2>5. activeIndex' \in Nat
    BY <1>7, RecordWriteKeepsWindow DEF SegmentInv
  <2> QED BY <1>1, <1>3, <2>1, <2>3, <2>4, <2>5, QuietOrder DEF SettlingPcs
<1>8. CASE TrimFile(w)
  <2>1. OpenSegment /\ call' = [call EXCEPT ![w].pc = "account"]
    BY <1>8, TrimFileFacts
  <2>2. /\ \A v \in Writers : v # w => call'[v] = call[v]
        /\ call'[w].pc = "account" /\ call'[w].lsn = call[w].lsn
    BY <1>1, <2>1 DEF Call
  <2>3. UNCHANGED <<returned, nextLsn>> /\ call[w].pc = "trim"
    BY <1>8 DEF TrimFile, OpenedIndex
  <2>4. call[w].seg <= Gone
    BY <2>3 DEF TrimmedGone
  <2>5. /\ \A i \in Nat \ {0} : LsnsAt(i)' \subseteq LsnsAt(i)
        /\ \A i \in Nat \ {0} : i > Gone' => LsnsAt(i) \subseteq LsnsAt(i)'
    <3>1. CASE files' = files
      <4>1. \A i : LsnsAt(i)' = LsnsAt(i)
        BY <3>1, LsnsOfFiles
      <4> QED BY <4>1
    <3>2. CASE files' = FilesWithout(call[w].seg)
      <4>1. \A i : LsnsAt(i)' = IF i = call[w].seg THEN {} ELSE LsnsAt(i)
        BY <3>2, LsnsOfFiles
      <4>2. \A i \in Nat \ {0} : i > Gone' => i # call[w].seg
        BY <1>1, <1>2, <2>1, <2>4 DEF Call
      <4> QED BY <4>1, <4>2
    <3> QED BY <1>8, <3>1, <3>2 DEF TrimFile, OpenedIndex
  <2> QED BY <1>1, <1>2, <1>3, <2>1, <2>2, <2>3, <2>5, QuietOrder DEF SettlingPcs
<1>9. CASE Account(w)
  <2>1. /\ segmentVars' = segmentVars \/ OpenSegment
        /\ UNCHANGED <<files, nextLsn>> /\ call[w].pc = "account"
        /\ \/ returned' = returned /\ call' = [call EXCEPT ![w].pc = "fsync", ![w].seg = ActiveSegment]
           \/ returned' = returned \union {call[w].lsn} /\ call' = [call EXCEPT ![w] = Idle]
    BY <1>9 DEF Account, Return
  <2>2. /\ \A v \in Writers : v # w => call'[v] = call[v]
        /\ call'[w].pc = "idle" \/ (call'[w].pc = "fsync" /\ call'[w].lsn = call[w].lsn)
    BY <1>1, <2>1 DEF Call, Idle
  <2>3. \A i : LsnsAt(i)' = LsnsAt(i)
    BY <2>1, LsnsOfFiles
  <2>4. \A l \in returned' : l \in Settled
    <3>1. w \in Settling
      BY <2>1 DEF Settling, SettlingPcs
    <3> QED BY <2>1, <3>1 DEF Settled
  <2> QED BY <1>1, <1>2, <2>1, <2>2, <2>3, <2>4, QuietOrder DEF SettlingPcs
<1>10. CASE Fsync(w)
  <2>1. /\ segmentVars' = segmentVars /\ UNCHANGED <<nextLsn, returned>>
        /\ call[w].pc = "fsync" /\ \A v \in Writers : v # w => call'[v] = call[v]
        /\ call'[w].pc = "flushed" /\ call'[w].lsn = call[w].lsn
    BY <1>1, <1>10 DEF Fsync, Call
  <2>2. \A i : LsnsAt(i)' = LsnsAt(i)
    BY <1>10, LsnsOfFiles DEF Fsync
  <2> QED BY <1>1, <1>2, <1>3, <2>1, <2>2, QuietOrder DEF SettlingPcs
<1>11. CASE Flushed(w) \/ RejectAppend(w)
  <2>1. /\ segmentVars' = segmentVars /\ UNCHANGED <<files, nextLsn>>
        /\ call' = [call EXCEPT ![w] = Idle]
        /\ returned' = returned \/ (call[w].pc = "flushed" /\ returned' = returned \union {call[w].lsn})
    BY <1>11 DEF Flushed, RejectAppend, Return
  <2>2. /\ \A v \in Writers : v # w => call'[v] = call[v]
        /\ call'[w].pc = "idle"
    BY <1>1, <2>1 DEF Idle
  <2>3. \A i : LsnsAt(i)' = LsnsAt(i)
    BY <2>1, LsnsOfFiles
  <2>4. \A l \in returned' : l \in Settled
    <3>1. call[w].pc = "flushed" => w \in Settling
      BY DEF Settling, SettlingPcs
    <3> QED BY <2>1, <3>1 DEF Settled
  <2> QED BY <1>1, <1>2, <2>1, <2>2, <2>3, <2>4, QuietOrder DEF SettlingPcs
<1> QED
  BY <1>4, <1>5, <1>6, <1>7, <1>8, <1>9, <1>10, <1>11 DEF AppendStep

\* No other step but a restart touches the order, and a restart voids it.
LEMMA OrderStep ==
    ASSUME OrderInv, SegmentInv, CallInv, TargetsInv, FilesInv, crashes \in Nat,
           [WalNext]_walVars
    PROVE  OrderInv'
<1>1. CASE \E w \in Writers : AppendStep(w)
  <2>1. crashes' = crashes
    BY <1>1 DEF AppendStep, RefuseAppend, BeginAppend, WriteFrame, RecordWrite, TrimFile,
                Account, Fsync, Flushed, RejectAppend, envVars, OpenedIndex
  <2> QED BY <1>1, <2>1, AppendOrder DEF OrderInv
<1>2. CASE Crash
  <2>1. crashes' # 0
    BY <1>2 DEF Crash
  <2> QED BY <2>1 DEF OrderInv
<1>3. CASE \/ \E s \in Switchers : SwitchStep(s)
           \/ LeavePartition \/ MarkTimer \/ Tick \/ UNCHANGED walVars
  <2>1. /\ UNCHANGED <<call, nextLsn, returned>> /\ crashes' = crashes
        /\ segmentVars' = segmentVars \/ OpenSegment
    BY <1>3 DEF SwitchStep, EnterPartition, SwitchFsync, SwitchFlushed, RejectSwitch,
       LeavePartition, MarkTimer, Tick, walVars, envVars
  <2>2. files' = files \/ \E i : SyncFile(i)
    BY <1>3 DEF SwitchStep, EnterPartition, SwitchFsync, SwitchFlushed, RejectSwitch,
       LeavePartition, MarkTimer, Tick, walVars
  <2>3. \A i : LsnsAt(i)' = LsnsAt(i)
    BY <2>2, LsnsOfFiles
  <2>4. /\ Gone \in Int /\ Gone' \in Int /\ Gone' >= Gone
        /\ activeIndex \in Nat /\ activeIndex' \in Nat /\ activeIndex' >= activeIndex
    <3>1. Gone \in Int /\ activeIndex \in Nat /\ (segments = <<>> <=> activeIndex = 0)
      BY NumbersInWindow DEF TargetsInv
    <3>2. CASE OpenSegment
      BY <3>1, <3>2, OpenSegmentGone, OpenSegmentFacts
    <3>3. CASE segmentVars' = segmentVars
      BY <3>1, <3>3 DEF segmentVars, Gone
    <3> QED BY <2>1, <3>2, <3>3
  <2>5. \A l \in returned : l \in Settled
    BY DEF Settled
  <2>6. call \in [Writers -> Call]
    BY DEF CallInv
  <2>7. crashes = 0 => FilesAscend' /\ PlacesOpened' /\ LostBelow' /\ TrimmedGone'
    BY <2>1, <2>3, <2>4, <2>5, <2>6, QuietOrder DEF OrderInv
  <2> QED BY <2>1, <2>7 DEF OrderInv
<1> QED BY <1>1, <1>2, <1>3 DEF WalNext

\* At the start no record is placed or lost.
LEMMA OrderInitInv == WalInit => OrderInv
<1> SUFFICES ASSUME WalInit PROVE OrderInv
  OBVIOUS
<1>1. files = <<>> /\ returned = {} /\ call = [w \in Writers |-> Idle]
  BY DEF WalInit
<1>2. \A i : LsnsAt(i) = {}
  <2>1. DOMAIN files = {}
    BY <1>1
  <2>2. \A i : FileAt(i).recs = <<>>
    BY <2>1 DEF FileAt, EmptyFile
  <2> QED BY <2>2 DEF LsnsAt
<1>3. \A i : PlacedIn(i) = {}
  BY <1>1, <1>2 DEF PlacedIn, Writing, Idle
<1>4. Settled = {}
  BY <1>1 DEF Settled, Settling, SettlingPcs, Idle
<1>5. TrimmedGone
  BY <1>1 DEF TrimmedGone, Idle
<1> QED BY <1>3, <1>4, <1>5 DEF OrderInv, FilesAscend, PlacesOpened, LostBelow

\* A record that the window holds no more was placed in an earlier segment than any it
\* holds.
LEMMA OrderGivesTrim ==
    ASSUME OrderInv, SegmentInv, FilesInv
    PROVE  TrimLosesOldestFirst
<1> SUFFICES ASSUME crashes = 0, NEW lost \in returned \ TrackedLsns, NEW kept \in TrackedLsns
             PROVE  lost < kept
  BY DEF TrimLosesOldestFirst
<1>1. FilesAscend /\ PlacesOpened /\ LostBelow
  BY DEF OrderInv
<1>2. Tracked = (Gone + 1)..activeIndex /\ Gone \in Int /\ activeIndex \in Nat
  BY NumbersInWindow
<1>3. PICK i \in Tracked \intersect DOMAIN files : kept \in LsnsIn(i)
  BY DEF TrackedLsns
<1>4. i \in Nat \ {0} /\ i > Gone /\ kept \in PlacedIn(i)
  BY <1>2, <1>3 DEF FilesInv, LsnsIn, PlacedIn, LsnsAt, FileAt
<1>5. ASSUME NEW j \in Nat \ {0}, j > Gone, lost \in LsnsAt(j) PROVE FALSE
  <2>1. j <= activeIndex
    BY <1>1, <1>5 DEF PlacesOpened, PlacedIn
  <2>2. j \in Tracked
    BY <1>2, <1>5, <2>1
  <2>3. j \in DOMAIN files
    BY <1>5 DEF LsnsAt, FileAt, EmptyFile
  <2>4. lost \in LsnsIn(j)
    BY <1>5, <2>3 DEF LsnsAt, LsnsIn, FileAt
  <2> QED BY <2>2, <2>3, <2>4 DEF TrackedLsns
<1>6. lost \in Settled
  BY DEF Settled
<1>7. \A j \in Nat \ {0} : j > Gone => \A m \in PlacedIn(j) : lost < m
  BY <1>1, <1>5, <1>6 DEF LostBelow
<1> QED BY <1>4, <1>7

\* Until a restart the sliding window sacrifices the oldest records first, even when a
\* frame is written after its segment has left the window (trimWindow).
THEOREM TrimLosesOldest == WalSpec => []TrimLosesOldestFirst
<1>1. WalInv /\ SizeInv /\ OrderInv /\ [WalNext]_walVars => OrderInv'
  BY OrderStep DEF WalInv, SizeInv
<1>2. WalInv /\ SizeInv /\ OrderInv => TrimLosesOldestFirst
  BY OrderGivesTrim DEF WalInv, SizeInv
<1> QED BY <1>1, <1>2, OrderInitInv, WalInvariance, SizeInvariance, PTL DEF WalSpec

-----------------------------------------------------------------------------
(* Replay in LSN order, for a single caller, until a restart or an 'archiveError' *)

OneCaller == \A v, w \in Writers : v = w
Quiet == crashes = 0 /\ ~archiveError

\* The segments' numbers, each with the time it was created.
DatedIn(segs) == {<<segs[k].index, segs[k].createdAt>> : k \in 1..Len(segs)}
Dated == DatedIn(segments)
NewDates == {<<activeIndex + 1, clock>>, <<activeIndex + 2, clock>>}

\* Older numbers are older segments, so that the stale ones are the front of the window;
\* a spill that runs takes segments from the front only.
CreatedInOrder ==
    /\ \A p, q \in Dated : p[1] < q[1] => p[2] <= q[2]
    /\ \A p \in Dated : p[1] <= activeIndex /\ p[2] <= clock
SpillTakesFront ==
    spill.pc # "idle" =>
        /\ \A j \in spill.todo : j <= activeIndex
        /\ \A i \in Tracked : i \in spill.todo \/ \A j \in spill.todo : j < i
        /\ spill.pc = "delete" => Spilling \notin Tracked

WindowInv == SegmentInv /\ CallInv /\ CreatedInOrder /\ SpillTakesFront

\* What counting bytes, appending and shifting do to the dates.
LEMMA GrownSegment ==
    \A s \in Segment, more \in Nat :
        /\ [s EXCEPT !.size = @ + more] \in Segment
        /\ [s EXCEPT !.size = @ + more].index = s.index
        /\ [s EXCEPT !.size = @ + more].createdAt = s.createdAt
BY DEF Segment

\* Counting bytes changes no date.
LEMMA GrownDates ==
    ASSUME Opened \in Seq(Segment), Len(Opened) \in Nat \ {0}, NEW bytes \in Nat
    PROVE  /\ Grown(bytes) \in Seq(Segment) /\ Len(Grown(bytes)) = Len(Opened)
           /\ DatedIn(Grown(bytes)) = DatedIn(Opened)
<1> DEFINE list == Opened
           n == Len(Opened)
           grown == Grown(bytes)
           last == [list[n] EXCEPT !.size = @ + bytes]
<1>1. last \in Segment /\ last.index = list[n].index /\ last.createdAt = list[n].createdAt
  <2>1. list[n] \in Segment
    OBVIOUS
  <2> QED BY <2>1, GrownSegment
<1>2. grown = [list EXCEPT ![n] = last] /\ list \in Seq(Segment) /\ n = Len(list) /\ n \in 1..n
  BY DEF Grown
<1> HIDE DEF grown, list, n
<1> HIDE DEF last
<1>3. /\ grown \in Seq(Segment) /\ Len(grown) = Len(list) /\ grown[n] = last
      /\ \A k \in 1..Len(list) : k # n => grown[k] = list[k]
  BY <1>1, <1>2
<1>4. \A k \in 1..Len(list) : grown[k].index = list[k].index
                                  /\ grown[k].createdAt = list[k].createdAt
  BY <1>1, <1>3
<1>5. DatedIn(grown) = DatedIn(list)
  BY <1>3, <1>4 DEF DatedIn
<1>6. grown \in Seq(Segment) /\ Len(grown) = Len(list)
  BY <1>3
<1> QED BY <1>5, <1>6 DEF grown, list

\* A new segment adds its date, a shift takes one away.
LEMMA DatesOfLists ==
    ASSUME NEW segs \in Seq(Segment)
    PROVE  /\ \A new \in Segment :
                 DatedIn(Append(segs, new)) = DatedIn(segs) \union {<<new.index, new.createdAt>>}
           /\ segs # <<>> => DatedIn(Tail(segs)) \subseteq DatedIn(segs)
<1>1. ASSUME NEW new \in Segment
      PROVE  DatedIn(Append(segs, new)) = DatedIn(segs) \union {<<new.index, new.createdAt>>}
  <2> DEFINE longer == Append(segs, new)
  <2>1. /\ Len(longer) = Len(segs) + 1 /\ Len(segs) \in Nat
        /\ \A k \in 1..Len(segs) : longer[k] = segs[k]
        /\ longer[Len(segs) + 1] = new
    BY SequenceGrows
  <2> HIDE DEF longer
  <2>2. DatedIn(longer) = DatedIn(segs) \union {<<new.index, new.createdAt>>}
    <3>1. \A k \in 1..Len(longer) : k \in 1..Len(segs) \/ k = Len(segs) + 1
      BY <2>1
    <3>2. 1..Len(segs) \subseteq 1..Len(longer) /\ Len(segs) + 1 \in 1..Len(longer)
      BY <2>1
    <3> QED BY <2>1, <3>1, <3>2 DEF DatedIn
  <2> QED BY <2>2 DEF longer
<1>2. ASSUME segs # <<>> PROVE DatedIn(Tail(segs)) \subseteq DatedIn(segs)
  <2> DEFINE shorter == Tail(segs)
  <2>1. /\ Len(shorter) = Len(segs) - 1 /\ Len(segs) \in Nat
        /\ \A k \in 1..Len(shorter) : shorter[k] = segs[k + 1]
    BY <1>2
  <2> HIDE DEF shorter
  <2>2. \A k \in 1..Len(shorter) : k + 1 \in 1..Len(segs)
    BY <2>1
  <2> QED BY <2>1, <2>2 DEF DatedIn, shorter
<1> QED BY <1>1, <1>2

\* Looking the active segment up creates one segment at most.
LEMMA OpenedDates ==
    ASSUME SegmentInv
    PROVE  /\ Opened \in Seq(Segment) /\ Len(Opened) \in Nat \ {0}
           /\ DatedIn(Opened) \subseteq Dated \union NewDates
           /\ OpenedIndex \in activeIndex..(activeIndex + 1) /\ activeIndex \in Nat
           /\ ActiveSegment = OpenedIndex
<1>1. /\ Opened \in Seq(Segment) /\ Len(Opened) \in 1..MaxSegments
      /\ ActiveSegment = OpenedIndex /\ MaxSegments \in Nat
  BY OpenedWindow, SizesAssumption DEF OpenedIndex
<1>2. segments \in Seq(Segment) /\ activeIndex \in Nat /\ clock \in Nat
  BY DEF SegmentInv
<1>3. DatedIn(Opened) \subseteq Dated \union NewDates
  <2>1. CASE segments = <<>>
    <3> DEFINE new == [index |-> activeIndex + 1, size |-> 0, createdAt |-> clock]
    <3>1. new \in Segment /\ new.index = activeIndex + 1 /\ new.createdAt = clock
      BY <1>2 DEF Segment
    <3>2. Opened = Append(segments, new)
      BY <2>1 DEF Opened, OpenedIndex, WithNewSegment
    <3> HIDE DEF new
    <3>3. DatedIn(Opened) = DatedIn(segments) \union {<<activeIndex + 1, clock>>}
      BY <1>2, <3>1, <3>2, DatesOfLists
    <3> QED BY <3>3 DEF Dated, NewDates
  <2>2. CASE segments # <<>>
    BY <2>2 DEF Opened, Dated
  <2> QED BY <2>1, <2>2
<1> QED BY <1>1, <1>2, <1>3 DEF OpenedIndex

\* Trimming takes dates away.
LEMMA TrimmedDates ==
    ASSUME NEW w, NEW segs \in Seq(Segment), Len(segs) \in Nat \ {0}, TrimInto(w, segs)
    PROVE  DatedIn(segments') \subseteq DatedIn(segs)
<1>1. segs # <<>>
  OBVIOUS
<1>2. segments' = segs \/ segments' = Tail(segs)
  BY DEF TrimInto
<1> QED BY <1>1, <1>2, DatesOfLists

\* recordWrite() dates what it creates with the present time.
LEMMA RecordWriteDates ==
    ASSUME SegmentInv, CallInv, NEW w \in Writers, RecordWrite(w)
    PROVE  Dated' \subseteq Dated \union NewDates /\ activeIndex' >= activeIndex
<1> DEFINE grown == Grown(call[w].size)
<1>1. call[w].size \in Nat /\ clock \in Nat
  BY DEF CallInv, Call, SegmentInv
<1>2. /\ Opened \in Seq(Segment) /\ Len(Opened) \in Nat \ {0}
      /\ DatedIn(Opened) \subseteq Dated \union NewDates
      /\ OpenedIndex \in activeIndex..(activeIndex + 1) /\ activeIndex \in Nat
  BY OpenedDates
<1>3. /\ grown \in Seq(Segment) /\ Len(grown) \in Nat \ {0}
      /\ DatedIn(grown) \subseteq Dated \union NewDates
  BY <1>1, <1>2, GrownDates
<1> HIDE DEF grown
<1>4. CASE IsFull(grown)
  <2> DEFINE new == [index |-> OpenedIndex + 1, size |-> 0, createdAt |-> clock]
             longer == Append(grown, new)
  <2>1. TrimInto(w, longer) /\ activeIndex' = OpenedIndex + 1
    BY <1>4 DEF RecordWrite, WithNewSegment, grown
  <2>2. new \in Segment /\ <<new.index, new.createdAt>> \in NewDates
    <3>1. OpenedIndex + 1 \in Nat /\ OpenedIndex + 1 \in {activeIndex + 1, activeIndex + 2}
      BY <1>2
    <3> QED BY <1>1, <3>1 DEF Segment, NewDates
  <2> HIDE DEF new
  <2>3. /\ longer \in Seq(Segment) /\ Len(longer) \in Nat \ {0}
        /\ DatedIn(longer) = DatedIn(grown) \union {<<new.index, new.createdAt>>}
    BY <1>3, <2>2, DatesOfLists, SequenceGrows
  <2> HIDE DEF longer
  <2>4. DatedIn(segments') \subseteq DatedIn(longer)
    BY <2>1, <2>3, TrimmedDates
  <2>5. Dated' \subseteq Dated \union NewDates
    BY <1>3, <2>2, <2>3, <2>4 DEF Dated
  <2> QED BY <1>2, <2>1, <2>5
<1>5. CASE ~IsFull(grown)
  <2>1. segments' = grown /\ activeIndex' = OpenedIndex
    BY <1>5 DEF RecordWrite, grown
  <2> QED BY <1>2, <1>3, <2>1 DEF Dated
<1> QED BY <1>4, <1>5

\* The window's numbers after the step (NumbersInWindow).
LEMMA NumbersInWindowNext ==
    SegmentInv' => Gone' \in Int /\ activeIndex' \in Nat /\ Tracked' = (Gone' + 1)..activeIndex'
<1>1. SegmentInv => Gone \in Int /\ activeIndex \in Nat /\ Tracked = (Gone + 1)..activeIndex
  BY NumbersInWindow
<1>2. (SegmentInv => Gone \in Int /\ activeIndex \in Nat /\ Tracked = (Gone + 1)..activeIndex)'
  BY <1>1, PTL
<1> QED BY <1>2

\* No step of the log takes a segment from elsewhere than the front of the window, or
\* dates a new one before the others.
LEMMA AppendDates ==
    ASSUME SegmentInv, CallInv, NEW w \in Writers, AppendStep(w)
    PROVE  /\ Dated' \subseteq Dated \union NewDates
           /\ activeIndex' >= activeIndex /\ clock' = clock
<1>1. activeIndex \in Nat
  BY DEF SegmentInv
<1>2. clock' = clock
  BY DEF AppendStep, RefuseAppend, BeginAppend, WriteFrame, RecordWrite, TrimFile, Account,
     Fsync, Flushed, RejectAppend, envVars
<1>3. CASE UNCHANGED segmentVars
  BY <1>1, <1>2, <1>3 DEF segmentVars, Dated
<1>4. CASE OpenSegment
  <2>1. segments' = Opened /\ activeIndex' = OpenedIndex
    BY <1>4 DEF OpenSegment
  <2>2. DatedIn(Opened) \subseteq Dated \union NewDates /\ OpenedIndex >= activeIndex
    BY OpenedDates
  <2> QED BY <1>2, <2>1, <2>2 DEF Dated
<1>5. CASE RecordWrite(w)
  BY <1>2, <1>5, RecordWriteDates
<1>6. CASE TrimFile(w)
  <2>1. TrimInto(w, Opened) /\ activeIndex' = OpenedIndex
    BY <1>6 DEF TrimFile
  <2>2. /\ Opened \in Seq(Segment) /\ Len(Opened) \in Nat \ {0}
        /\ DatedIn(Opened) \subseteq Dated \union NewDates /\ OpenedIndex >= activeIndex
    BY OpenedDates
  <2>3. DatedIn(segments') \subseteq DatedIn(Opened)
    BY <2>1, <2>2, TrimmedDates
  <2>4. Dated' = DatedIn(segments')
    BY DEF Dated
  <2> QED BY <1>2, <2>1, <2>2, <2>3, <2>4
<1> QED
  BY <1>3, <1>4, <1>5, <1>6 DEF AppendStep, RefuseAppend, BeginAppend, WriteFrame, Account,
     Fsync, Flushed, RejectAppend

\* The same of the steps in which no append takes part.
LEMMA OtherDates ==
    ASSUME SegmentInv,
           \/ \E s \in Switchers : SwitchStep(s)
           \/ LeavePartition \/ MarkTimer \/ Tick \/ UNCHANGED walVars
    PROVE  /\ Dated' \subseteq Dated \union NewDates
           /\ activeIndex' >= activeIndex /\ clock' \in Nat /\ clock' >= clock
<1>1. activeIndex \in Nat /\ clock \in Nat
  BY DEF SegmentInv
<1>2. clock' = clock \/ clock' = clock + 1
  BY DEF SwitchStep, EnterPartition, SwitchFsync, SwitchFlushed, RejectSwitch, LeavePartition,
     MarkTimer, Tick, walVars, envVars
<1>3. UNCHANGED segmentVars \/ OpenSegment
  BY DEF SwitchStep, EnterPartition, SwitchFsync, SwitchFlushed, RejectSwitch, LeavePartition,
     MarkTimer, Tick, walVars
<1>4. CASE UNCHANGED segmentVars
  BY <1>1, <1>2, <1>4 DEF segmentVars, Dated
<1>5. CASE OpenSegment
  <2>1. segments' = Opened /\ activeIndex' = OpenedIndex
    BY <1>5 DEF OpenSegment
  <2>2. DatedIn(Opened) \subseteq Dated \union NewDates /\ OpenedIndex >= activeIndex
    BY OpenedDates
  <2> QED BY <1>1, <1>2, <2>1, <2>2 DEF Dated
<1> QED BY <1>3, <1>4, <1>5

\* Dates and numbers.
LEMMA DateTypes == SegmentInv => Dated \subseteq Nat \X Nat
<1> SUFFICES ASSUME SegmentInv PROVE Dated \subseteq Nat \X Nat
  OBVIOUS
<1>1. \A k \in 1..Len(segments) : segments[k] \in Segment
  BY DEF SegmentInv
<1>2. \A k \in 1..Len(segments) : segments[k].index \in Nat /\ segments[k].createdAt \in Nat
  BY <1>1 DEF Segment
<1> QED BY <1>2 DEF Dated, DatedIn

\* The tracked segments are the dated ones.
LEMMA TrackedDates == Tracked = {p[1] : p \in Dated}
<1>1. ASSUME NEW i \in Tracked PROVE \E p \in Dated : i = p[1]
  <2>1. PICK k \in 1..Len(segments) : i = segments[k].index
    BY DEF Tracked
  <2>2. <<segments[k].index, segments[k].createdAt>> \in Dated
    BY DEF Dated, DatedIn
  <2> QED BY <2>1, <2>2
<1>2. ASSUME NEW p \in Dated PROVE p[1] \in Tracked
  <2>1. PICK k \in 1..Len(segments) : p = <<segments[k].index, segments[k].createdAt>>
    BY DEF Dated, DatedIn
  <2> QED BY <2>1 DEF Tracked
<1> QED BY <1>1, <1>2

\* The same after the step.
LEMMA TrackedDatesNext == Tracked' = {p[1] : p \in Dated'}
<1>1. (Tracked = {p[1] : p \in Dated})'
  BY TrackedDates, PTL
<1> QED BY <1>1

\* A step that only creates segments, the youngest, keeps the window in order, also for
\* a spill under way.
LEMMA WindowMoves ==
    ASSUME SegmentInv, SegmentInv', CreatedInOrder, SpillTakesFront, SpillTypes,
           Dated' \subseteq Dated \union NewDates, activeIndex' >= activeIndex,
           clock' >= clock, spill' = spill
    PROVE  CreatedInOrder' /\ SpillTakesFront'
<1>1. /\ activeIndex \in Nat /\ activeIndex' \in Nat /\ clock \in Nat /\ clock' \in Nat
      /\ Tracked' = (Gone' + 1)..activeIndex' /\ Gone' \in Int
  <2>1. Gone \in Int /\ activeIndex \in Nat /\ Tracked = (Gone + 1)..activeIndex
    BY NumbersInWindow
  <2>2. Gone' \in Int /\ Tracked' = (Gone' + 1)..activeIndex'
    BY NumbersInWindowNext
  <2> QED BY <2>1, <2>2 DEF SegmentInv
<1>2. \A p \in Dated : p[1] \in Nat /\ p[2] \in Nat
  BY DateTypes
<1>3. ASSUME NEW p \in Dated'
      PROVE  \/ p \in Dated
             \/ p[1] > activeIndex /\ p[1] \in Nat /\ p[2] = clock
  BY <1>1 DEF NewDates
<1>4. CreatedInOrder'
  <2>1. ASSUME NEW p \in Dated', NEW q \in Dated', p[1] < q[1] PROVE p[2] <= q[2]
    <3>1. CASE q \in Dated
      <4>1. p \in Dated
        BY <1>1, <1>2, <1>3, <2>1, <3>1 DEF CreatedInOrder
      <4> QED BY <2>1, <3>1, <4>1 DEF CreatedInOrder
    <3>2. CASE q \notin Dated
      <4>1. q[2] = clock
        BY <1>3, <3>2
      <4>2. p[2] <= clock
        BY <1>1, <1>3 DEF CreatedInOrder
      <4> QED BY <4>1, <4>2
    <3> QED BY <3>1, <3>2
  <2>2. ASSUME NEW p \in Dated' PROVE p[1] <= activeIndex' /\ p[2] <= clock'
    <3>1. p[1] \in Tracked'
      BY TrackedDatesNext
    <3>2. p[2] <= clock /\ p[2] \in Nat
      BY <1>1, <1>2, <1>3 DEF CreatedInOrder
    <3> QED BY <1>1, <3>1, <3>2
  <2> QED BY <2>1, <2>2 DEF CreatedInOrder
<1>5. SpillTakesFront'
  <2> SUFFICES ASSUME spill.pc # "idle"
               PROVE  /\ \A j \in spill.todo : j <= activeIndex'
                      /\ \A i \in Tracked' : i \in spill.todo \/ \A j \in spill.todo : j < i
                      /\ spill.pc = "delete" => Spilling \notin Tracked'
    BY DEF SpillTakesFront, Spilling
  <2>1. spill.todo \in SUBSET Nat /\ spill.todo # {} /\ Spilling \in spill.todo
    <3>1. spill.todo \in SUBSET Nat /\ spill.todo # {}
      BY DEF SpillTypes
    <3> QED BY <3>1, MinOfNats DEF Spilling
  <2>2. \A j \in spill.todo : j <= activeIndex /\ j <= activeIndex' /\ j \in Nat
    BY <1>1, <2>1 DEF SpillTakesFront
  <2>3. ASSUME NEW i \in Tracked' PROVE i \in Tracked \/ i > activeIndex
    <3>1. PICK p \in Dated' : i = p[1]
      BY TrackedDatesNext
    <3> QED BY <1>3, <3>1, TrackedDates
  <2>4. \A i \in Tracked' : i \in spill.todo \/ \A j \in spill.todo : j < i
    <3> SUFFICES ASSUME NEW i \in Tracked' PROVE i \in spill.todo \/ \A j \in spill.todo : j < i
      OBVIOUS
    <3>1. CASE i \in Tracked
      BY <3>1 DEF SpillTakesFront
    <3>2. CASE i > activeIndex
      <4>1. i \in Int
        BY <1>1
      <4> QED BY <1>1, <2>2, <3>2, <4>1
    <3> QED BY <2>3, <3>1, <3>2
  <2>5. ASSUME spill.pc = "delete" PROVE Spilling \notin Tracked'
    <3>1. Spilling \notin Tracked /\ ~(Spilling > activeIndex)
      BY <1>1, <2>1, <2>2, <2>5 DEF SpillTakesFront
    <3> QED BY <2>3, <3>1
  <2> QED BY <2>2, <2>4, <2>5
<1> QED BY <1>4, <1>5

\* Every step of the log.
LEMMA LogStepWindow ==
    ASSUME WindowInv, SpillTypes, WalStep \/ UNCHANGED ledgerVars
    PROVE  WindowInv'
<1>1. spill' = spill /\ clock \in Nat
  BY DEF WalStep, archiveVars, ledgerVars, WindowInv, SegmentInv
<1>2. ASSUME NEW w \in Writers, AppendStep(w)
      PROVE  /\ SegmentInv' /\ CallInv'
             /\ Dated' \subseteq Dated \union NewDates
             /\ activeIndex' >= activeIndex /\ clock' >= clock
  BY <1>1, <1>2, AppendWindow, AppendDates DEF WindowInv
<1>3. ASSUME \/ \E s \in Switchers : SwitchStep(s)
             \/ MarkTimer \/ Tick \/ UNCHANGED walVars
      PROVE  /\ SegmentInv' /\ CallInv'
             /\ Dated' \subseteq Dated \union NewDates
             /\ activeIndex' >= activeIndex /\ clock' >= clock
  BY <1>3, OtherWindow, OtherDates DEF WindowInv
<1>4. /\ SegmentInv' /\ CallInv'
      /\ Dated' \subseteq Dated \union NewDates
      /\ activeIndex' >= activeIndex /\ clock' >= clock
  BY <1>2, <1>3 DEF WalStep, ledgerVars
<1> QED BY <1>1, <1>4, WindowMoves DEF WindowInv

\* A step that leaves the window and the calls alone.
LEMMA WindowUntouched ==
    ASSUME WindowInv, UNCHANGED <<segmentVars, call, nextLsn, returned, clock>>
    PROVE  /\ SegmentInv' /\ CallInv' /\ CreatedInOrder'
           /\ spill' = spill => WindowInv'
<1>1. SegmentInv'
  BY UntouchedWindow DEF WindowInv, SegmentInv
<1>2. CallInv'
  BY DEF WindowInv, CallInv
<1>3. CreatedInOrder'
  BY DEF WindowInv, CreatedInOrder, Dated, segmentVars
<1>4. spill' = spill => SpillTakesFront'
  BY DEF WindowInv, SpillTakesFront, Spilling, Tracked, segmentVars
<1> QED BY <1>1, <1>2, <1>3, <1>4 DEF WindowInv

\* The spill goes on once the segment it took is out of the window.
LEMMA NextSpillTakesFront ==
    ASSUME SpillTypes, SpillTakesFront, spill.pc # "idle", Spilling \notin Tracked,
           UNCHANGED segmentVars, spill' = NextSpill
    PROVE  SpillTakesFront'
<1>1. CASE spill.todo = {Spilling}
  <2>1. spill'.pc = "idle"
    BY <1>1 DEF NextSpill, NoSpill
  <2> QED BY <2>1 DEF SpillTakesFront
<1>2. CASE spill.todo # {Spilling}
  <2>1. spill'.pc = "read" /\ spill'.todo = spill.todo \ {Spilling}
    BY <1>2 DEF NextSpill
  <2>2. Tracked' = Tracked /\ activeIndex' = activeIndex
    BY DEF Tracked, segmentVars
  <2> QED BY <2>1, <2>2 DEF SpillTakesFront
<1> QED BY <1>1, <1>2

\* The stale segments are the front of the window (getSegmentsOlderThan).
LEMMA StaleAreFront ==
    ASSUME SegmentInv, CreatedInOrder
    PROVE  /\ \A j \in StaleSegments : j <= activeIndex
           /\ \A i \in Tracked : i \in StaleSegments \/ \A j \in StaleSegments : j < i
<1>1. \A k \in 1..Len(segments) :
         segments[k].index \in Nat /\ segments[k].createdAt \in Nat
  <2>1. \A k \in 1..Len(segments) : segments[k] \in Segment
    BY DEF SegmentInv
  <2> QED BY <2>1 DEF Segment
<1>2. \A k \in 1..Len(segments) : <<segments[k].index, segments[k].createdAt>> \in Dated
  BY DEF Dated, DatedIn
<1>3. clock \in Nat /\ SpillAge \in Nat /\ clock - SpillAge \in Int
  BY ArchiveAssumption DEF SegmentInv
<1>4. ASSUME NEW j \in StaleSegments
      PROVE  \E k \in 1..Len(segments) :
                j = segments[k].index /\ segments[k].createdAt < clock - SpillAge
  BY DEF StaleSegments, IsStale
<1>5. \A j \in StaleSegments : j <= activeIndex
  BY <1>2, <1>4 DEF CreatedInOrder
<1>6. ASSUME NEW i \in Tracked, i \notin StaleSegments, NEW j \in StaleSegments
      PROVE  j < i
  <2>1. PICK k \in 1..Len(segments) : i = segments[k].index
    BY DEF Tracked
  <2>2. ~(segments[k].createdAt < clock - SpillAge)
    BY <1>6, <2>1 DEF StaleSegments, IsStale
  <2>3. PICK m \in 1..Len(segments) :
           j = segments[m].index /\ segments[m].createdAt < clock - SpillAge
    BY <1>4
  <2>4. segments[k].createdAt \in Nat /\ segments[m].createdAt \in Nat /\ i \in Nat /\ j \in Nat
    BY <1>1, <2>1, <2>3
  <2>5. ~(segments[k].createdAt <= segments[m].createdAt)
    <3>1. PICK a \in Nat : a = segments[k].createdAt
      BY <2>4
    <3>2. PICK b \in Nat : b = segments[m].createdAt
      BY <2>4
    <3>3. PICK c \in Int : c = clock - SpillAge
      BY <1>3
    <3>4. ~(a < c) /\ b < c
      BY <2>2, <2>3, <3>1, <3>2, <3>3
    <3>5. ~(a <= b)
      BY <3>4
    <3> QED BY <3>1, <3>2, <3>5
  <2>6. ~(i < j)
    <3> DEFINE p == <<segments[k].index, segments[k].createdAt>>
               q == <<segments[m].index, segments[m].createdAt>>
    <3>1. /\ p \in Dated /\ q \in Dated /\ p[1] = i /\ q[1] = j
          /\ p[2] = segments[k].createdAt /\ q[2] = segments[m].createdAt
      BY <1>2, <2>1, <2>3
    <3> HIDE DEF p, q
    <3> QED BY <2>5, <3>1 DEF CreatedInOrder
  <2>7. i # j
    BY <1>6
  <2> QED BY <2>4, <2>6, <2>7
<1> QED BY <1>5, <1>6

\* What the spill removes is the first segment of the window.
LEMMA RemovesFirst ==
    ASSUME WindowInv, SpillTypes, RemoveSegment, Spilling \in Tracked
    PROVE  segments # <<>> /\ segments' = Tail(segments) /\ segments[1].index = Spilling
<1> DEFINE n == Len(segments)
           found == {k \in 1..n : segments[k].index = Spilling}
<1>1. /\ segments \in Seq(Segment) /\ n \in Nat /\ activeIndex \in Nat
      /\ \A k \in 1..n : segments[k].index = activeIndex - n + k
  BY DEF WindowInv, SegmentInv, SegmentWindow
<1>2. PICK m \in 1..n : segments[m].index = Spilling
  BY DEF Tracked
<1>3. spill.pc = "remove" /\ spill.todo \in SUBSET Nat /\ spill.todo # {}
  BY DEF RemoveSegment, SpillTypes
<1>4. Spilling \in spill.todo /\ \A j \in spill.todo : Spilling <= j
  BY <1>3, MinOfNats DEF Spilling
<1>5. 1 \in 1..n /\ segments[1].index \in Tracked
  BY <1>1, <1>2 DEF Tracked
<1>6. segments[1].index \in spill.todo \/ \A j \in spill.todo : j < segments[1].index
  BY <1>3, <1>5 DEF WindowInv, SpillTakesFront
<1>7. /\ segments[1].index = activeIndex - n + 1 /\ Spilling = activeIndex - n + m
      /\ m \in Nat /\ m >= 1 /\ Spilling \in Nat
  BY <1>1, <1>2, <1>3, <1>4, <1>5
<1>8. m = 1
  <2>1. Spilling <= segments[1].index \/ Spilling < segments[1].index
    BY <1>4, <1>6
  <2> HIDE DEF n
  <2> QED BY <1>1, <1>7, <2>1
<1>9. found = {1}
  <2>1. \A k \in found : k = 1
    <3> SUFFICES ASSUME NEW k \in 1..n, segments[k].index = Spilling PROVE k = 1
      OBVIOUS
    <3>1. activeIndex - n + k = activeIndex - n + 1
      BY <1>1, <1>7, <1>8
    <3> HIDE DEF n
    <3> QED BY <1>1, <3>1
  <2>2. 1 \in found
    BY <1>2, <1>8
  <2> HIDE DEF found
  <2> QED BY <2>1, <2>2
<1>10. Min({1}) = 1
  <2>1. {1} \in SUBSET Nat /\ {1} # {}
    OBVIOUS
  <2> QED BY <2>1, MinOfNats
<1>11. segments' = RemoveAt(segments, 1)
  <2>1. found # {}
    BY <1>9
  <2>2. segments' = RemoveAt(segments, Min(found))
    BY <2>1 DEF RemoveSegment
  <2> QED BY <1>9, <1>10, <2>2
<1>12. segments # <<>>
  BY <1>5
<1>13. RemoveAt(segments, 1) = Tail(segments)
  <2>1. RemoveAt(segments, 1) = SubSeq(segments, 1, 0) \o SubSeq(segments, 2, n)
    BY DEF RemoveAt
  <2>2. SubSeq(segments, 1, 0) = <<>> /\ SubSeq(segments, 2, n) = Tail(segments)
    BY <1>1, <1>12
  <2>3. Tail(segments) \in Seq(Segment)
    BY <1>1, <1>12
  <2> DEFINE rest == Tail(segments)
  <2> HIDE DEF rest
  <2>4. rest \in Seq(Segment) => <<>> \o rest = rest
    OBVIOUS
  <2> QED BY <2>1, <2>2, <2>3, <2>4 DEF rest
<1> QED BY <1>7, <1>8, <1>11, <1>12, <1>13

\* A window whose first segment has gone.
LEMMA FirstRemoved ==
    ASSUME SegmentInv, CreatedInOrder, segments # <<>>, segments' = Tail(segments),
           activeIndex' = activeIndex, clock' = clock
    PROVE  /\ SegmentInv' /\ CreatedInOrder' /\ Tracked' \subseteq Tracked
           /\ segments[1].index \notin Tracked'
<1> DEFINE n == Len(segments)
<1>1. /\ segments \in Seq(Segment) /\ n \in Nat \ {0} /\ activeIndex \in Nat /\ clock \in Nat
      /\ n <= MaxSegments /\ MaxSegments \in Nat
      /\ \A k \in 1..n : segments[k].index = activeIndex - n + k
      /\ segments[n].size < SegmentBytes
  BY SizesAssumption DEF SegmentInv, SegmentWindow
<1>2. /\ segments' \in Seq(Segment) /\ Len(segments') = n - 1
      /\ \A k \in 1..(n - 1) : segments'[k] = segments[k + 1]
  BY <1>1
<1> HIDE DEF n
<1>3. \A k \in 1..(n - 1) : segments'[k].index = activeIndex - (n - 1) + k /\ k + 1 \in 1..n
  BY <1>1, <1>2
<1>4. segments' # <<>> => segments'[Len(segments')].size < SegmentBytes
  <2> SUFFICES ASSUME segments' # <<>> PROVE segments'[n - 1] = segments[n]
    BY <1>1, <1>2
  <2>1. n - 1 \in 1..(n - 1) /\ (n - 1) + 1 = n
    BY <1>1, <1>2
  <2> QED BY <1>2, <2>1
<1>5. SegmentInv'
  BY <1>1, <1>2, <1>3, <1>4 DEF SegmentInv, SegmentWindow
<1>6. Dated' \subseteq Dated
  BY <1>2, <1>3 DEF Dated, DatedIn, n
<1>7. CreatedInOrder'
  BY <1>6 DEF CreatedInOrder
<1>8. Tracked' = {activeIndex - (n - 1) + k : k \in 1..(n - 1)}
  BY <1>2, <1>3 DEF Tracked
<1>9. segments[1].index \notin Tracked'
  <2>1. segments[1].index = activeIndex - n + 1
    BY <1>1
  <2>2. \A k \in 1..(n - 1) : activeIndex - (n - 1) + k # activeIndex - n + 1
    BY <1>1
  <2> QED BY <1>8, <2>1, <2>2
<1>10. Tracked' \subseteq Tracked
  BY <1>6, TrackedDates, TrackedDatesNext
<1> QED BY <1>5, <1>7, <1>9, <1>10

\* The steps of a spill.
LEMMA SpillKeepsWindow ==
    ASSUME WindowInv, SpillTypes, BeginSpill \/ SpillStep
    PROVE  WindowInv'
<1>1. CASE BeginSpill
  <2>1. UNCHANGED walVars /\ spill'.pc = "read" /\ spill'.todo = StaleSegments
    BY <1>1 DEF BeginSpill
  <2>2. SegmentInv' /\ CallInv' /\ CreatedInOrder' /\ UNCHANGED segmentVars
    BY <2>1, WindowUntouched DEF walVars, envVars
  <2>3. Tracked' = Tracked /\ activeIndex' = activeIndex
    BY <2>2 DEF Tracked, segmentVars
  <2>4. SpillTakesFront'
    BY <2>1, <2>3, StaleAreFront DEF WindowInv, SpillTakesFront
  <2> QED BY <2>2, <2>4 DEF WindowInv
<1>2. CASE ReadSegment \/ WriteArchive
  <2>1. UNCHANGED walVars /\ spill.pc # "idle" /\ spill'.pc # "delete" /\ spill'.todo = spill.todo
    BY <1>2 DEF ReadSegment, WriteArchive, SpillTypes
  <2>2. SegmentInv' /\ CallInv' /\ CreatedInOrder' /\ UNCHANGED segmentVars
    BY <2>1, WindowUntouched DEF walVars, envVars
  <2>3. Tracked' = Tracked /\ activeIndex' = activeIndex
    BY <2>2 DEF Tracked, segmentVars
  <2>4. SpillTakesFront'
    BY <2>1, <2>3 DEF WindowInv, SpillTakesFront
  <2> QED BY <2>2, <2>4 DEF WindowInv
<1>3. CASE DeleteSpilled \/ (RemoveSegment /\ Spilling \notin Tracked)
  <2>1. /\ UNCHANGED <<segmentVars, call, nextLsn, returned, clock>>
        /\ spill.pc # "idle" /\ spill' = NextSpill /\ Spilling \notin Tracked
    <3>1. CASE DeleteSpilled
      BY <3>1 DEF DeleteSpilled, envVars, WindowInv, SpillTakesFront
    <3>2. CASE RemoveSegment /\ Spilling \notin Tracked
      <4>1. {k \in 1..Len(segments) : segments[k].index = Spilling} = {}
        BY <3>2 DEF Tracked
      <4> QED BY <3>2, <4>1 DEF RemoveSegment, envVars, segmentVars
    <3> QED BY <1>3, <3>1, <3>2
  <2>2. SegmentInv' /\ CallInv' /\ CreatedInOrder'
    BY <2>1, WindowUntouched
  <2>3. SpillTakesFront'
    BY <2>1, NextSpillTakesFront DEF WindowInv
  <2> QED BY <2>2, <2>3 DEF WindowInv
<1>4. CASE RemoveSegment /\ Spilling \in Tracked
  <2>1. segments # <<>> /\ segments' = Tail(segments) /\ segments[1].index = Spilling
    BY <1>4, RemovesFirst
  <2>2. /\ activeIndex' = activeIndex /\ UNCHANGED <<call, nextLsn, returned, clock>>
        /\ spill.pc = "remove"
    BY <1>4 DEF RemoveSegment, envVars
  <2>3. /\ SegmentInv' /\ CreatedInOrder' /\ Tracked' \subseteq Tracked
        /\ Spilling \notin Tracked'
    BY <2>1, <2>2, FirstRemoved DEF WindowInv
  <2>4. CallInv'
    BY <2>2 DEF WindowInv, CallInv
  <2>5. spill' = [spill EXCEPT !.pc = "delete"]
    <3>1. {k \in 1..Len(segments) : segments[k].index = Spilling} # {}
      BY <1>4 DEF Tracked
    <3> QED BY <1>4, <3>1 DEF RemoveSegment
  <2>6. spill'.todo = spill.todo /\ spill'.pc = "delete"
    BY <2>5 DEF SpillTypes
  <2>7. SpillTakesFront'
    <3>1. Spilling' = Spilling
      BY <2>6 DEF Spilling
    <3> QED BY <2>2, <2>3, <2>6, <3>1 DEF WindowInv, SpillTakesFront
  <2> QED BY <2>3, <2>4, <2>7 DEF WindowInv
<1> QED BY <1>1, <1>2, <1>3, <1>4 DEF SpillStep

-----------------------------------------------------------------------------
(* What a replay hands over is in order *)

Ascends(s) == \A j, k \in 1..Len(s) : j < k => s[j] < s[k]

\* The records of segment i: in its file, in its archive, in the buffer of the spill
\* that is about to archive it, and under way to its file.
Filed(i) == LsnSeq(FileAt(i).recs)
Archived(i) == IF i \in DOMAIN archives THEN archives[i] ELSE <<>>
Copied(i) == IF spill.pc = "archive" /\ Spilling = i THEN spill.raw ELSE <<>>
Kept(i) ==
    ToSet(Filed(i)) \union ToSet(Archived(i)) \union ToSet(Copied(i))
        \union {call[w].lsn : w \in Writing(i)}

\* LSNs ascend from segment to segment, and in each file, buffer and archive.
KeptAscend == \A i, j \in Nat : i < j => \A l \in Kept(i), m \in Kept(j) : l < m
KeptOpened == \A i \in Nat : \A l \in Kept(i) : i <= activeIndex /\ l \in 1..(nextLsn - 1)
CopiesAscend ==
    /\ \A i \in Nat : Ascends(Filed(i)) /\ Ascends(Archived(i))
    /\ Ascends(spill.raw)
    /\ \A i \in Nat : \A w \in Writing(i) : \A l \in ToSet(Filed(i)) : l < call[w].lsn

\* The records read from archives so far, those of the present one included, come
\* before all that is kept for the segments whose archives are still to be read.
Handed == ToSet(replayed) \union ToSet(replay.raw)
Ahead == IF replay.pc = "read" THEN replay.todo
         ELSE IF replay.pc = "feed" THEN replay.todo \ {Replaying} ELSE {}
ReplayOrder ==
    /\ Ascends(replayed)
    /\ Handed \subseteq 1..(nextLsn - 1)
    /\ \A j \in Ahead : \A l \in Handed, m \in Kept(j) : l < m
    /\ replay.pc = "feed" =>
          /\ Ascends(replay.raw)
          /\ \A l \in ToSet(replayed), m \in ToSet(replay.raw) : l < m

KeptInv == KeptAscend /\ KeptOpened /\ CopiesAscend
AscendInv == LedgerInv /\ WindowInv /\ KeptInv /\ ReplayOrder

\* Nothing is kept that was not, but for the record that is appended to the last segment.
KeptMoves ==
    /\ activeIndex' >= activeIndex /\ nextLsn' \in {nextLsn, nextLsn + 1}
    /\ \A i \in Nat : \A l \in Kept(i)' :
          l \in Kept(i) \/ (l = nextLsn /\ i = activeIndex' /\ nextLsn' = nextLsn + 1)

\* More LSNs have been given out.
LEMMA LongerRange == \A m, n \in Nat : m <= n => 1..(m - 1) \subseteq 1..(n - 1)
OBVIOUS

\* A record that is appended comes after all others, in the last segment.
LEMMA KeptStaysInOrder ==
    ASSUME KeptAscend, KeptOpened, KeptMoves, nextLsn \in Nat \ {0},
           activeIndex \in Nat, activeIndex' \in Nat
    PROVE  KeptAscend' /\ KeptOpened'
<1>1. nextLsn' \in Nat /\ nextLsn' >= nextLsn /\ activeIndex' >= activeIndex
  BY DEF KeptMoves
<1>2. KeptOpened'
  <2> SUFFICES ASSUME NEW i \in Nat, NEW l \in Kept(i)'
               PROVE  i <= activeIndex' /\ l \in 1..(nextLsn' - 1)
    BY DEF KeptOpened
  <2>1. CASE l \in Kept(i)
    <3>1. i <= activeIndex /\ l \in 1..(nextLsn - 1)
      BY <2>1 DEF KeptOpened
    <3>2. i <= activeIndex'
      BY <1>1, <3>1
    <3>3. 1..(nextLsn - 1) \subseteq 1..(nextLsn' - 1)
      BY <1>1, LongerRange
    <3> QED BY <3>1, <3>2, <3>3
  <2>2. CASE l = nextLsn /\ i = activeIndex' /\ nextLsn' = nextLsn + 1
    BY <2>2
  <2> QED BY <2>1, <2>2 DEF KeptMoves
<1>3. KeptAscend'
  <2> SUFFICES ASSUME NEW i \in Nat, NEW j \in Nat, i < j, NEW l \in Kept(i)', NEW m \in Kept(j)'
               PROVE  l < m
    BY DEF KeptAscend
  <2>1. l \in Kept(i) \/ (l = nextLsn /\ i = activeIndex' /\ nextLsn' = nextLsn + 1)
    BY DEF KeptMoves
  <2>2. m \in Kept(j) \/ (m = nextLsn /\ j = activeIndex')
    BY DEF KeptMoves
  <2>3. l \in Kept(i)
    <3>1. j <= activeIndex'
      BY <1>2 DEF KeptOpened
    <3> QED BY <2>1, <3>1
  <2>4. l \in 1..(nextLsn - 1)
    BY <2>3 DEF KeptOpened
  <2>5. CASE m \in Kept(j)
    BY <2>3, <2>5 DEF KeptAscend
  <2>6. CASE m = nextLsn
    BY <2>4, <2>6
  <2> QED BY <2>2, <2>5, <2>6
<1> QED BY <1>2, <1>3

\* A replay under way does not see what is appended, spilled or trimmed meanwhile.
LEMMA ReplayWaits ==
    ASSUME ReplayOrder, KeptMoves, ReplayTypes, nextLsn \in Nat \ {0},
           UNCHANGED <<replay, replayed>>
    PROVE  ReplayOrder'
<1>1. Handed' = Handed /\ Ahead' = Ahead
  BY DEF Handed, Ahead, Replaying
<1>2. Ahead \subseteq Nat
  BY DEF Ahead, ReplayTypes
<1>3. Handed' \subseteq 1..(nextLsn' - 1) /\ Handed \subseteq 1..(nextLsn - 1)
  <2>1. Handed \subseteq 1..(nextLsn - 1) /\ nextLsn' \in {nextLsn, nextLsn + 1}
    BY DEF ReplayOrder, KeptMoves
  <2>2. 1..(nextLsn - 1) \subseteq 1..(nextLsn' - 1)
    <3>1. nextLsn \in Nat /\ nextLsn' \in Nat /\ nextLsn <= nextLsn'
      BY <2>1
    <3> QED BY <3>1, LongerRange
  <2> HIDE DEF Handed
  <2> QED BY <1>1, <2>1, <2>2
<1>4. \A j \in Ahead' : \A l \in Handed', m \in Kept(j)' : l < m
  <2> SUFFICES ASSUME NEW j \in Ahead, NEW l \in Handed, NEW m \in Kept(j)' PROVE l < m
    BY <1>1
  <2>1. m \in Kept(j) \/ m = nextLsn
    BY <1>2 DEF KeptMoves
  <2>2. l \in 1..(nextLsn - 1)
    BY <1>3
  <2>3. m \in Kept(j) => l < m
    BY DEF ReplayOrder
  <2> QED BY <2>1, <2>2, <2>3
<1>5. /\ Ascends(replayed)'
      /\ replay'.pc = "feed" =>
          /\ Ascends(replay.raw)'
          /\ \A l \in ToSet(replayed)', m \in ToSet(replay.raw)' : l < m
  BY DEF ReplayOrder, Ascends
<1> QED BY <1>3, <1>4, <1>5 DEF ReplayOrder

\* What an append, an fsync and a deletion do to the LSNs in the files.
LEMMA FiledMoves ==
    ASSUME FileTypes
    PROVE  /\ files' = files => \A i : Filed(i)' = Filed(i)
           /\ \A f : SyncFile(f) => \A i : Filed(i)' = Filed(i)
           /\ \A f : files' = FilesWithout(f) =>
                 \A i : Filed(i)' = IF i = f THEN <<>> ELSE Filed(i)
           /\ \A f, lsn, size : AppendToFile(f, lsn, size) =>
                 \A i : Filed(i)' = IF i = f THEN Append(Filed(f), lsn) ELSE Filed(i)
<1>1. files' = files => \A i : Filed(i)' = Filed(i)
  BY DEF Filed, FileAt
<1>2. ASSUME NEW f, SyncFile(f) PROVE \A i : Filed(i)' = Filed(i)
  <2>1. CASE f \in DOMAIN files
    <3> DEFINE file == [files[f] EXCEPT !.synced = Len(files[f].recs)]
    <3>1. files' = [files EXCEPT ![f] = file]
      BY <1>2, <2>1 DEF SyncFile
    <3>2. files[f] \in [recs : Seq(Records), synced : Nat]
      BY <2>1 DEF FileTypes
    <3>3. file.recs = files[f].recs
      BY <3>2
    <3> HIDE DEF file
    <3>4. \A i : FileAt(i)'.recs = FileAt(i).recs
      BY <2>1, <3>1, <3>3 DEF FileAt
    <3> QED BY <3>4 DEF Filed
  <2>2. CASE f \notin DOMAIN files
    BY <1>1, <1>2, <2>2 DEF SyncFile
  <2> QED BY <2>1, <2>2
<1>3. ASSUME NEW f, files' = FilesWithout(f)
      PROVE  \A i : Filed(i)' = IF i = f THEN <<>> ELSE Filed(i)
  <2>1. \A i : FileAt(i)' = IF i = f THEN EmptyFile ELSE FileAt(i)
    BY <1>3 DEF FilesWithout, FileAt
  <2>2. LsnSeq(EmptyFile.recs) = <<>>
    BY DEF EmptyFile, LsnSeq
  <2> QED BY <2>1, <2>2 DEF Filed
<1>4. ASSUME NEW f, NEW lsn, NEW size, AppendToFile(f, lsn, size)
      PROVE  \A i : Filed(i)' = IF i = f THEN Append(Filed(f), lsn) ELSE Filed(i)
  <2> DEFINE recs == FileAt(f).recs
             rec == [lsn |-> lsn, end |-> EndOf(recs) + size]
             file == [FileAt(f) EXCEPT !.recs = Append(recs, rec)]
  <2>1. FileAt(f) \in [recs : Seq(Records), synced : Nat]
    BY DEF FileTypes, FileAt, EmptyFile
  <2>2. file.recs = Append(recs, rec)
    BY <2>1
  <2>3. files' = [j \in DOMAIN files \union {f} |-> IF j = f THEN file ELSE files[j]]
    BY <1>4 DEF AppendToFile, FilesWith
  <2> HIDE DEF file
  <2>4. FileAt(f)' = file /\ \A j : j # f => FileAt(j)' = FileAt(j)
    BY <2>3 DEF FileAt
  <2>5. rec.lsn = lsn /\ recs \in Seq(Records)
    BY <2>1
  <2> HIDE DEF rec, recs
  <2>6. LsnSeq(Append(recs, rec)) = Append(LsnSeq(recs), lsn)
    <3> DEFINE longer == Append(recs, rec)
    <3>1. Len(longer) = Len(recs) + 1 /\ Len(recs) \in Nat
      BY <2>5
    <3>2. longer[Len(recs) + 1] = rec /\ \A k \in 1..Len(recs) : longer[k] = recs[k]
      BY <2>5
    <3> HIDE DEF longer
    <3>3. LsnSeq(longer) = [k \in 1..(Len(recs) + 1) |-> longer[k].lsn]
      BY <3>1 DEF LsnSeq
    <3>4. \A k \in 1..(Len(recs) + 1) :
             longer[k].lsn = IF k = Len(recs) + 1 THEN lsn ELSE recs[k].lsn
      BY <2>5, <3>1, <3>2
    <3>5. Len(LsnSeq(recs)) = Len(recs)
      BY <3>1 DEF LsnSeq
    <3>6. Append(LsnSeq(recs), lsn) =
             [k \in 1..(Len(recs) + 1) |-> IF k = Len(recs) + 1 THEN lsn ELSE recs[k].lsn]
      BY <3>1, <3>5 DEF LsnSeq
    <3> QED BY <3>3, <3>4, <3>6 DEF longer
  <2> QED BY <2>2, <2>4, <2>6 DEF Filed, recs
<1> QED BY <1>1, <1>2, <1>3, <1>4

\* A sequence of LSNs stays in order when its Head is taken, or a higher one comes.
LEMMA AscendingSequences ==
    ASSUME NEW s \in Seq(1..MaxLsn), Ascends(s)
    PROVE  /\ \A l \in 1..MaxLsn : (\A m \in ToSet(s) : m < l) => Ascends(Append(s, l))
           /\ s # <<>> => /\ Head(s) \in ToSet(s) /\ ToSet(Tail(s)) \subseteq ToSet(s)
                          /\ Ascends(Tail(s)) /\ \A m \in ToSet(Tail(s)) : Head(s) < m
<1>1. Len(s) \in Nat /\ DOMAIN s = 1..Len(s) /\ ToSet(s) = {s[k] : k \in 1..Len(s)}
  BY SequenceSteps DEF ToSet
<1>2. ASSUME NEW l \in 1..MaxLsn, \A m \in ToSet(s) : m < l PROVE Ascends(Append(s, l))
  <2> DEFINE t == Append(s, l)
  <2>1. /\ Len(t) = Len(s) + 1 /\ t[Len(s) + 1] = l
        /\ \A k \in 1..Len(s) : t[k] = s[k]
    BY SequenceGrows
  <2> HIDE DEF t
  <2> SUFFICES ASSUME NEW j \in 1..Len(t), NEW k \in 1..Len(t), j < k PROVE t[j] < t[k]
    BY DEF Ascends, t
  <2>2. j \in 1..Len(s)
    BY <1>1, <2>1
  <2>3. CASE k \in 1..Len(s)
    BY <2>1, <2>2, <2>3 DEF Ascends
  <2>4. CASE k = Len(s) + 1
    BY <1>1, <1>2, <2>1, <2>2, <2>4
  <2> QED BY <1>1, <2>1, <2>3, <2>4
<1>3. ASSUME s # <<>>
      PROVE  /\ Head(s) \in ToSet(s) /\ ToSet(Tail(s)) \subseteq ToSet(s)
             /\ Ascends(Tail(s)) /\ \A m \in ToSet(Tail(s)) : Head(s) < m
  <2> DEFINE t == Tail(s)
  <2>1. /\ t \in Seq(1..MaxLsn) /\ Len(t) = Len(s) - 1 /\ Len(s) >= 1
        /\ \A k \in 1..Len(t) : t[k] = s[k + 1]
        /\ Head(s) = s[1]
    BY <1>3
  <2>2. ToSet(t) = {t[k] : k \in 1..Len(t)}
    BY <2>1, SequenceSteps DEF ToSet
  <2> HIDE DEF t
  <2>3. \A k \in 1..Len(t) : k + 1 \in 1..Len(s) /\ 1 < k + 1
    BY <1>1, <2>1
  <2>4. 1 \in 1..Len(s)
    BY <1>1, <2>1
  <2>5. Head(s) \in ToSet(s) /\ ToSet(t) \subseteq ToSet(s)
    BY <1>1, <2>1, <2>2, <2>3, <2>4
  <2>6. \A m \in ToSet(t) : Head(s) < m
    BY <2>1, <2>2, <2>3, <2>4 DEF Ascends
  <2>7. ASSUME NEW j \in 1..Len(t), NEW k \in 1..Len(t), j < k PROVE t[j] < t[k]
    <3>1. j + 1 < k + 1
      BY <1>1, <2>1, <2>7
    <3> QED BY <2>1, <2>3, <3>1 DEF Ascends
  <2> QED BY <2>5, <2>6, <2>7 DEF Ascends, t
<1> QED BY <1>2, <1>3

\* What is filed and archived is typed.
LEMMA KeptTypes ==
    ASSUME LedgerInv
    PROVE  /\ \A i : Filed(i) \in Seq(1..MaxLsn) /\ Archived(i) \in Seq(1..MaxLsn)
           /\ spill.raw \in Seq(1..MaxLsn) /\ replay.raw \in Seq(1..MaxLsn)
           /\ replayed \in Seq(1..MaxLsn)
<1>1. \A i : Filed(i) \in Seq(1..MaxLsn)
  BY FileLsns DEF Filed, LedgerInv, TypeInv
<1>2. ASSUME NEW i PROVE Archived(i) \in Seq(1..MaxLsn)
  <2>1. CASE i \in DOMAIN archives
    BY <2>1 DEF Archived, LedgerInv, ArchiveTypes
  <2>2. CASE i \notin DOMAIN archives
    <3>1. Archived(i) = <<>>
      BY <2>2 DEF Archived
    <3> QED BY <3>1
  <2> QED BY <2>1, <2>2
<1> QED BY <1>1, <1>2 DEF LedgerInv, SpillTypes, ReplayTypes

\* A step that writes no record: files may be deleted, calls may move on.
LEMMA NothingWritten ==
    ASSUME CopiesAscend, UNCHANGED <<archives, spill, nextLsn>>,
           activeIndex' >= activeIndex,
           \A i \in Nat : Filed(i)' \in {Filed(i), <<>>},
           call \in [Writers -> Call],
           \A v \in Writers : call'[v].pc = "write" => call'[v] = call[v]
    PROVE  KeptMoves /\ CopiesAscend'
<1>1. ToSet(<<>>) = {} /\ Ascends(<<>>)
  BY DEF ToSet, Ascends
<1>2. \A i : Archived(i)' = Archived(i) /\ Copied(i)' = Copied(i)
  BY DEF Archived, Copied, Spilling
<1>3. \A i : \A v \in Writing(i)' : v \in Writing(i) /\ call'[v].lsn = call[v].lsn
  BY DEF Writing
<1>4. \A i \in Nat : ToSet(Filed(i)') \subseteq ToSet(Filed(i))
  BY <1>1
<1>5. \A i \in Nat : Kept(i)' \subseteq Kept(i)
  BY <1>2, <1>3, <1>4 DEF Kept
<1>6. CopiesAscend'
  <2>1. \A i \in Nat : Ascends(Filed(i)') /\ Ascends(Archived(i)')
    BY <1>1, <1>2 DEF CopiesAscend
  <2>2. ASSUME NEW i \in Nat, NEW v \in Writing(i)', NEW l \in ToSet(Filed(i)')
        PROVE  l < call'[v].lsn
    <3>1. v \in Writing(i) /\ call'[v].lsn = call[v].lsn /\ l \in ToSet(Filed(i))
      BY <1>3, <1>4
    <3> QED BY <3>1 DEF CopiesAscend
  <2> QED BY <2>1, <2>2 DEF CopiesAscend, Ascends
<1> QED BY <1>5, <1>6 DEF KeptMoves

\* append() begins: its record, the highest, is under way to the last segment.
LEMMA BeginKept ==
    ASSUME WindowInv, KeptInv, LedgerInv, UNCHANGED <<archives, spill>>,
           NEW w \in Writers, BeginAppend(w)
    PROVE  KeptMoves /\ CopiesAscend'
<1>1. /\ call \in [Writers -> Call] /\ nextLsn \in Nat \ {0} /\ activeIndex \in Nat
      /\ ActiveSegment = activeIndex' /\ activeIndex' >= activeIndex /\ activeIndex' \in Nat
      /\ nextLsn' = nextLsn + 1 /\ files' = files
  <2>1. OpenedIndex \in activeIndex..(activeIndex + 1) /\ activeIndex \in Nat
        /\ ActiveSegment = OpenedIndex
    BY OpenedDates DEF WindowInv
  <2>2. OpenedIndex \in Nat /\ OpenedIndex >= activeIndex
    BY <2>1
  <2> QED BY <2>1, <2>2 DEF BeginAppend, OpenSegment, WindowInv, CallInv
<1>2. PICK c : /\ call' = [call EXCEPT ![w] = c]
               /\ c.pc = "write" /\ c.lsn = nextLsn /\ c.seg = activeIndex'
  <2>1. PICK payload \in Payloads :
           call' = [call EXCEPT ![w] =
               [pc |-> "write", lsn |-> nextLsn, size |-> payload + HeaderBytes,
                seg |-> ActiveSegment]]
    BY DEF BeginAppend
  <2> DEFINE new == [pc |-> "write", lsn |-> nextLsn, size |-> payload + HeaderBytes,
                     seg |-> ActiveSegment]
  <2>2. new.pc = "write" /\ new.lsn = nextLsn /\ new.seg = activeIndex'
    BY <1>1
  <2>3. call' = [call EXCEPT ![w] = new]
    BY <2>1
  <2> HIDE DEF new
  <2> QED BY <2>2, <2>3
<1>3. call'[w] = c /\ \A v \in Writers : v # w => call'[v] = call[v]
  BY <1>1, <1>2
<1>4. \A i : Filed(i)' = Filed(i) /\ Archived(i)' = Archived(i) /\ Copied(i)' = Copied(i)
  BY <1>1 DEF Filed, FileAt, Archived, Copied, Spilling
<1>5. ASSUME NEW i \in Nat, NEW l \in Kept(i)', l \notin Kept(i)
      PROVE  l = nextLsn /\ i = activeIndex'
  <2>1. PICK v \in Writing(i)' : l = call'[v].lsn
    BY <1>4, <1>5 DEF Kept
  <2>2. v = w
    <3>1. v # w => v \in Writing(i) /\ l = call[v].lsn
      BY <1>3, <2>1 DEF Writing
    <3> QED BY <1>5, <3>1 DEF Kept
  <2> QED BY <1>2, <1>3, <2>1, <2>2 DEF Writing
<1>6. KeptMoves
  BY <1>1, <1>5 DEF KeptMoves
<1>7. ASSUME NEW i \in Nat, NEW v \in Writing(i)', NEW l \in ToSet(Filed(i))
      PROVE  l < call'[v].lsn
  <2>1. CASE v = w
    <3>1. l \in 1..(nextLsn - 1)
      BY DEF KeptInv, KeptOpened, Kept
    <3> QED BY <1>1, <1>2, <1>3, <2>1, <3>1
  <2>2. CASE v # w
    <3>1. v \in Writing(i) /\ call'[v] = call[v]
      BY <1>3, <2>2 DEF Writing
    <3> QED BY <3>1 DEF KeptInv, CopiesAscend
  <2> QED BY <2>1, <2>2
<1>8. CopiesAscend'
  <2>1. \A i \in Nat : \A v \in Writing(i)' : \A l \in ToSet(Filed(i)') : l < call'[v].lsn
    BY <1>4, <1>7
  <2>2. /\ \A i \in Nat : Ascends(Filed(i)') /\ Ascends(Archived(i)')
        /\ Ascends(spill'.raw)
    BY <1>4 DEF KeptInv, CopiesAscend
  <2> QED BY <2>1, <2>2 DEF CopiesAscend, Ascends
<1> QED BY <1>6, <1>8

\* The frame reaches the file: with a single caller it is the highest there.
LEMMA WriteFrameKept ==
    ASSUME OneCaller, WindowInv, KeptInv, LedgerInv, UNCHANGED <<archives, spill>>,
           NEW w \in Writers, WriteFrame(w)
    PROVE  KeptMoves /\ CopiesAscend'
<1>0. PICK s, l : s = call[w].seg /\ l = call[w].lsn
  OBVIOUS
<1>1. /\ call \in [Writers -> Call] /\ call[w].pc = "write" /\ s \in Nat
      /\ l \in 1..MaxLsn
      /\ UNCHANGED <<activeIndex, nextLsn>> /\ activeIndex \in Nat
      /\ \A v \in Writers : v = w
  <2>1. call \in [Writers -> Call] /\ call[w] \in Call /\ call[w].pc = "write"
    BY DEF WindowInv, CallInv, WriteFrame
  <2>2. call[w].lsn \in 1..(nextLsn - 1) /\ nextLsn \in 1..(MaxLsn + 1)
    BY <2>1 DEF WindowInv, CallInv
  <2>3. l \in 1..MaxLsn
    BY <1>0, <2>2, BoundsAssumption
  <2>4. s \in Nat
    BY <1>0, <2>1 DEF Call
  <2> QED BY <2>1, <2>3, <2>4 DEF WriteFrame, segmentVars, WindowInv, SegmentInv, OneCaller
<1>2. call'[w].pc = "record"
  <2>1. call' = [call EXCEPT ![w].pc = "record"] /\ call[w] \in Call
    BY <1>1 DEF WriteFrame
  <2> QED BY <1>1, <2>1 DEF Call
<1>3. \A i : Filed(i)' = IF i = s THEN Append(Filed(s), l) ELSE Filed(i)
  BY <1>0, FiledMoves DEF WriteFrame, LedgerInv, TypeInv
<1>4. \A i : Archived(i)' = Archived(i) /\ Copied(i)' = Copied(i)
  BY DEF Archived, Copied, Spilling
<1>5. Filed(s) \in Seq(1..MaxLsn) /\ Ascends(Filed(s)) /\ \A m \in ToSet(Filed(s)) : m < l
  <2>1. w \in Writing(s)
    BY <1>0, <1>1 DEF Writing
  <2> QED BY <1>0, <1>1, <2>1, KeptTypes DEF KeptInv, CopiesAscend
<1>6. ToSet(Append(Filed(s), l)) = ToSet(Filed(s)) \union {l} /\ Ascends(Append(Filed(s), l))
  BY <1>1, <1>5, LsnSequences, AscendingSequences
<1>7. \A i : Writing(i)' = {}
  BY <1>1, <1>2 DEF Writing
<1>8. \A i \in Nat : Kept(i)' \subseteq Kept(i)
  <2> SUFFICES ASSUME NEW i \in Nat, NEW m \in Kept(i)' PROVE m \in Kept(i)
    OBVIOUS
  <2>1. m \in ToSet(Filed(i)') \/ m \in ToSet(Archived(i)) \/ m \in ToSet(Copied(i))
    BY <1>4, <1>7 DEF Kept
  <2>2. m \in ToSet(Filed(i)') => m \in ToSet(Filed(i)) \/ (i = s /\ m = l)
    BY <1>3, <1>6
  <2>3. i = s => l \in Kept(i)
    BY <1>0, <1>1 DEF Kept, Writing
  <2> QED BY <2>1, <2>2, <2>3 DEF Kept
<1>9. CopiesAscend'
  <2>1. \A i \in Nat : Ascends(Filed(i)') /\ Ascends(Archived(i)')
    BY <1>3, <1>4, <1>6 DEF KeptInv, CopiesAscend
  <2> QED BY <1>7, <2>1 DEF KeptInv, CopiesAscend, Ascends
<1> QED BY <1>1, <1>8, <1>9 DEF KeptMoves

\* The other steps of append() write nothing.
LEMMA AppendKept ==
    ASSUME OneCaller, WindowInv, KeptInv, LedgerInv, UNCHANGED <<archives, spill>>,
           NEW w \in Writers, AppendStep(w)
    PROVE  KeptMoves /\ CopiesAscend'
<1>1. /\ FileTypes /\ call \in [Writers -> Call] /\ activeIndex' >= activeIndex
      /\ CopiesAscend
  BY AppendDates DEF LedgerInv, TypeInv, WindowInv, CallInv, KeptInv
<1>2. CASE BeginAppend(w)
  BY <1>2, BeginKept
<1>3. CASE WriteFrame(w)
  BY <1>3, WriteFrameKept
<1>4. CASE ~BeginAppend(w) /\ ~WriteFrame(w)
  <2>1. nextLsn' = nextLsn
    BY <1>4 DEF AppendStep, RefuseAppend, RecordWrite, TrimFile, Account, Fsync, Flushed,
       RejectAppend
  <2>2. \A i \in Nat : Filed(i)' \in {Filed(i), <<>>}
    <3>1. \/ files' = files \/ SyncFile(call[w].seg) \/ files' = FilesWithout(call[w].seg)
      BY <1>4 DEF AppendStep, RefuseAppend, RecordWrite, TrimFile, Account, Fsync, Flushed,
         RejectAppend
    <3> QED BY <1>1, <3>1, FiledMoves
  <2>3. \A v \in Writers : call'[v].pc = "write" => call'[v] = call[v]
    <3>1. \/ call' = call \/ call' = [call EXCEPT ![w] = Idle]
          \/ \E c : c.pc # "write" /\ call' = [call EXCEPT ![w] = c]
      <4>1. CASE RefuseAppend(w)
        BY <4>1 DEF RefuseAppend
      <4>2. CASE Flushed(w) \/ RejectAppend(w)
        BY <4>2 DEF Flushed, Return, RejectAppend
      <4>3. CASE RecordWrite(w) \/ TrimFile(w) \/ Account(w) \/ Fsync(w)
        <5>1. ASSUME NEW pc, pc # "write", call' = [call EXCEPT ![w].pc = pc]
              PROVE  \E c : c.pc # "write" /\ call' = [call EXCEPT ![w] = c]
          <6> DEFINE here == [call[w] EXCEPT !.pc = pc]
          <6>1. here.pc # "write"
            BY <1>1, <5>1 DEF Call
          <6>2. call' = [call EXCEPT ![w] = here]
            BY <1>1, <5>1
          <6> HIDE DEF here
          <6> QED BY <6>1, <6>2
        <5>2. ASSUME NEW pc, pc # "write", NEW seg,
                     call' = [call EXCEPT ![w].pc = pc, ![w].seg = seg]
              PROVE  \E c : c.pc # "write" /\ call' = [call EXCEPT ![w] = c]
          <6> DEFINE there == [call[w] EXCEPT !.pc = pc, !.seg = seg]
          <6>1. there.pc # "write"
            BY <1>1, <5>2 DEF Call
          <6>2. call' = [call EXCEPT ![w] = there]
            BY <1>1, <5>2
          <6> HIDE DEF there
          <6> QED BY <6>1, <6>2
        <5>3. "trim" # "write" /\ "account" # "write" /\ "fsync" # "write" /\ "flushed" # "write"
          OBVIOUS
        <5>4. CASE RecordWrite(w) \/ TrimFile(w)
          BY <5>1, <5>2, <5>3, <5>4, TrimMoves, Zenon
        <5>5. CASE Account(w)
          <6>1. \/ call' = [call EXCEPT ![w].pc = "fsync", ![w].seg = ActiveSegment]
                \/ call' = [call EXCEPT ![w] = Idle]
            BY <5>5, Zenon DEF Account, Return
          <6> QED BY <5>2, <5>3, <6>1, Zenon
        <5>6. CASE Fsync(w)
          <6>1. call' = [call EXCEPT ![w].pc = "flushed"]
            BY <5>6, Zenon DEF Fsync
          <6> QED BY <5>1, <5>3, <6>1, Zenon
        <5> QED BY <4>3, <5>4, <5>5, <5>6
      <4> QED BY <1>4, <4>1, <4>2, <4>3 DEF AppendStep
    <3>2. Idle.pc # "write"
      BY DEF Idle
    <3> QED BY <1>1, <3>1, <3>2
  <2> QED BY <1>1, <2>1, <2>2, <2>3, NothingWritten
<1> QED BY <1>2, <1>3, <1>4

\* Steps of the log between two steps of a spill or a replay.
LEMMA LogKept ==
    ASSUME OneCaller, AscendInv, WalStep \/ UNCHANGED ledgerVars
    PROVE  KeptMoves /\ CopiesAscend'
<1>1. UNCHANGED archiveVars /\ UNCHANGED <<archives, spill>>
  BY DEF WalStep, ledgerVars, archiveVars
<1>2. CASE \E w \in Writers : AppendStep(w)
  BY <1>1, <1>2, AppendKept DEF AscendInv
<1>3. CASE \/ \E s \in Switchers : SwitchStep(s)
           \/ MarkTimer \/ Tick \/ UNCHANGED walVars
  <2>1. UNCHANGED <<call, nextLsn>> /\ call \in [Writers -> Call] /\ activeIndex' >= activeIndex
    BY <1>3, OtherDates
    DEF AscendInv, WindowInv, CallInv, SwitchStep, EnterPartition, SwitchFsync, SwitchFlushed,
        RejectSwitch, MarkTimer, Tick, walVars
  <2>2. files' = files \/ \E f : SyncFile(f)
    BY <1>3 DEF SwitchStep, EnterPartition, SwitchFsync, SwitchFlushed, RejectSwitch, MarkTimer,
       Tick, walVars
  <2>3. \A i \in Nat : Filed(i)' \in {Filed(i), <<>>}
    BY <2>2, FiledMoves DEF AscendInv, LedgerInv, TypeInv
  <2> QED BY <1>1, <2>1, <2>3, NothingWritten DEF AscendInv, KeptInv
<1> QED BY <1>2, <1>3 DEF WalStep, ledgerVars

\* A spill copies a file to its archive and deletes it; nothing new is kept.
LEMMA SpillKept ==
    ASSUME AscendInv, BeginSpill \/ SpillStep
    PROVE  KeptMoves /\ CopiesAscend'
<1>1. /\ UNCHANGED <<call, nextLsn, activeIndex>> /\ activeIndex \in Nat
      /\ FileTypes /\ SpillTypes
  BY DEF BeginSpill, SpillStep, ReadSegment, WriteArchive, RemoveSegment, DeleteSpilled,
     walVars, segmentVars, AscendInv, LedgerInv, TypeInv, WindowInv, SegmentInv
<1>2. ToSet(<<>>) = {} /\ Ascends(<<>>)
  BY DEF ToSet, Ascends
<1>3. \A i : Writing(i)' = Writing(i)
  BY <1>1 DEF Writing
<1>4. ASSUME \A i \in Nat : /\ ToSet(Filed(i)') \subseteq Kept(i)
                            /\ ToSet(Archived(i)') \subseteq Kept(i)
                            /\ ToSet(Copied(i)') \subseteq Kept(i)
      PROVE  KeptMoves
  <2>1. \A i \in Nat : Kept(i)' \subseteq Kept(i)
    BY <1>1, <1>3, <1>4 DEF Kept
  <2> QED BY <1>1, <2>1 DEF KeptMoves
<1>5. ASSUME \A i \in Nat : ToSet(Filed(i)') \subseteq ToSet(Filed(i)) /\ Ascends(Filed(i)'),
             \A i \in Nat : Ascends(Archived(i)'), Ascends(spill'.raw)
      PROVE  CopiesAscend'
  <2>1. ASSUME NEW i \in Nat, NEW v \in Writing(i)', NEW l \in ToSet(Filed(i)')
        PROVE  l < call'[v].lsn
    <3>1. v \in Writing(i) /\ l \in ToSet(Filed(i)) /\ call' = call
      BY <1>1, <1>3, <1>5
    <3> QED BY <3>1 DEF AscendInv, KeptInv, CopiesAscend
  <2> QED BY <1>5, <2>1 DEF CopiesAscend, Ascends
<1>6. Spilling' = Spilling \/ spill'.todo # spill.todo
  BY DEF Spilling
<1>7. spill.pc # "idle" => Spilling \in Nat
  <2>1. spill.pc # "idle" => spill.todo \in SUBSET Nat /\ spill.todo # {}
    BY <1>1 DEF SpillTypes
  <2> QED BY <2>1, MinOfNats DEF Spilling
<1>8. CopiesAscend
  BY DEF AscendInv, KeptInv
<1>9. CASE ReadSegment
  <2>1. /\ files' = files /\ archives' = archives /\ spill.pc = "read"
        /\ spill'.todo = spill.todo /\ spill'.raw \in {Filed(Spilling), <<>>}
    BY <1>1, <1>9 DEF ReadSegment, walVars, Filed, SpillTypes
  <2>2. \A i : Filed(i)' = Filed(i) /\ Archived(i)' = Archived(i)
    BY <2>1, FiledMoves, <1>1 DEF Archived
  <2>3. \A i : Copied(i)' \in {Filed(i), <<>>}
    BY <1>6, <2>1 DEF Copied
  <2>4. KeptMoves
    BY <1>2, <1>4, <2>2, <2>3 DEF Kept
  <2>5. Ascends(spill'.raw)
    BY <1>2, <1>7, <1>8, <2>1 DEF CopiesAscend
  <2>6. CopiesAscend'
    BY <1>5, <1>8, <2>2, <2>5 DEF CopiesAscend
  <2> QED BY <2>4, <2>6
<1>10. CASE WriteArchive
  <2>1. /\ files' = files /\ spill.pc = "archive" /\ spill'.pc = "remove" /\ spill'.raw = <<>>
        /\ archives' = [i \in DOMAIN archives \union {Spilling} |->
                           IF i = Spilling THEN spill.raw ELSE archives[i]]
    BY <1>1, <1>10 DEF WriteArchive, walVars, SpillTypes
  <2>2. \A i : Filed(i)' = Filed(i)
    BY <1>1, <2>1, FiledMoves
  <2>3. \A i : Archived(i)' = IF i = Spilling THEN spill.raw ELSE Archived(i)
    BY <2>1 DEF Archived
  <2>4. \A i : Copied(i)' = <<>> /\ (i = Spilling => Copied(i) = spill.raw)
    BY <2>1 DEF Copied
  <2>5. KeptMoves
    BY <1>2, <1>4, <2>2, <2>3, <2>4 DEF Kept
  <2>6. CopiesAscend'
    BY <1>2, <1>5, <1>8, <2>1, <2>2, <2>3 DEF CopiesAscend
  <2> QED BY <2>5, <2>6
<1>11. CASE BeginSpill \/ RemoveSegment \/ DeleteSpilled
  <2>1. archives' = archives /\ (files' = files \/ \E f : files' = FilesWithout(f))
    BY <1>11 DEF BeginSpill, RemoveSegment, DeleteSpilled, walVars
  <2>2. spill'.pc # "archive" /\ spill'.raw \in {spill.raw, <<>>}
    <3>1. NextSpill.pc # "archive" /\ NextSpill.raw = <<>>
      BY DEF NextSpill, NoSpill
    <3>2. spill' = NextSpill => spill'.pc # "archive" /\ spill'.raw = <<>>
      BY <3>1
    <3>3. CASE BeginSpill
      BY <3>3 DEF BeginSpill
    <3>4. CASE RemoveSegment
      BY <1>1, <3>2, <3>4 DEF RemoveSegment, SpillTypes
    <3>5. CASE DeleteSpilled
      BY <3>2, <3>5 DEF DeleteSpilled
    <3> QED BY <1>11, <3>3, <3>4, <3>5
  <2>3. \A i \in Nat : Filed(i)' \in {Filed(i), <<>>}
    BY <1>1, <2>1, FiledMoves
  <2>4. \A i : Archived(i)' = Archived(i) /\ Copied(i)' = <<>>
    BY <2>1, <2>2 DEF Archived, Copied
  <2>5. KeptMoves
    BY <1>2, <1>4, <2>3, <2>4 DEF Kept
  <2>6. CopiesAscend'
    BY <1>2, <1>5, <1>8, <2>2, <2>3, <2>4 DEF CopiesAscend
  <2> QED BY <2>5, <2>6
<1> QED BY <1>9, <1>10, <1>11 DEF SpillStep

\* A replay keeps nothing and touches neither the files nor the window.
LEMMA ReplayKept ==
    ASSUME AscendInv, BeginReplay \/ ReplayStep \/ ReplayError
    PROVE  WindowInv' /\ KeptInv' /\ \A i \in Nat : Kept(i)' \subseteq Kept(i)
<1>1. UNCHANGED <<segmentVars, call, nextLsn, returned, clock, files, archives, spill>>
  BY DEF BeginReplay, ReplayStep, ReadArchive, FeedRecord, EndArchive, Heal, ReplayError,
     LeavePartition, walVars, envVars
<1>2. WindowInv'
  BY <1>1, WindowUntouched DEF AscendInv
<1>3. \A i : Kept(i)' = Kept(i)
  BY <1>1 DEF Kept, Filed, FileAt, Archived, Copied, Spilling, Writing
<1>4. KeptInv'
  <2>1. KeptMoves /\ CopiesAscend'
    <3>1. /\ call \in [Writers -> Call] /\ activeIndex' >= activeIndex
          /\ \A i \in Nat : Filed(i)' \in {Filed(i), <<>>}
      BY <1>1 DEF AscendInv, WindowInv, CallInv, SegmentInv, segmentVars, Filed, FileAt
    <3> QED BY <1>1, <3>1, NothingWritten DEF AscendInv, KeptInv
  <2>2. nextLsn \in Nat \ {0} /\ activeIndex \in Nat /\ activeIndex' \in Nat
    BY <1>1 DEF AscendInv, WindowInv, CallInv, SegmentInv, segmentVars
  <2> QED BY <2>1, <2>2, KeptStaysInOrder DEF AscendInv, KeptInv
<1> QED BY <1>2, <1>3, <1>4

\* The archives are taken in the order of their segments, each from its front.
LEMMA ReplayInOrder ==
    ASSUME AscendInv, BeginReplay \/ ReplayStep \/ ReplayError
    PROVE  ReplayOrder'
<1>1. /\ ReplayOrder /\ ReplayTypes /\ ReplayMarks /\ nextLsn' = nextLsn
      /\ replay.raw \in Seq(1..MaxLsn) /\ replayed \in Seq(1..MaxLsn)
      /\ \A i : Archived(i) \in Seq(1..MaxLsn)
  BY KeptTypes DEF AscendInv, LedgerInv, BeginReplay, ReplayStep, ReadArchive, FeedRecord,
     EndArchive, Heal, ReplayError, LeavePartition, walVars
<1>2. \A i \in Nat : Kept(i)' \subseteq Kept(i)
  BY ReplayKept
<1>3. ToSet(<<>>) = {} /\ Ascends(<<>>)
  BY DEF ToSet, Ascends
<1>4. ASSUME replay.pc \in {"read", "feed"}
      PROVE  /\ replay.todo \subseteq Nat /\ Replaying \in replay.todo
             /\ Replaying \in DOMAIN archives /\ \A j \in replay.todo : Replaying <= j
  <2>1. replay.todo \in SUBSET Nat /\ replay.todo # {} /\ replay.todo \subseteq DOMAIN archives
    BY <1>1, <1>4 DEF ReplayTypes
  <2> QED BY <2>1, MinOfNats DEF Replaying
<1>5. CASE BeginReplay \/ Heal
  <2>1. /\ replay'.raw = <<>> /\ replay'.pc # "feed"
        /\ replayed' = <<>> \/ (replayed' = replayed /\ replay'.pc = "idle")
    <3>1. CASE BeginReplay
      <4>1. replayed' = <<>>
        BY <3>1 DEF BeginReplay
      <4> DEFINE pc == IF archives = <<>> THEN "healed" ELSE "read"
      <4>2. pc \in {"healed", "read"}
        OBVIOUS
      <4>3. replay' = [NoReplay EXCEPT !.pc = pc, !.todo = DOMAIN archives]
        BY <3>1, Zenon DEF BeginReplay
      <4> HIDE DEF pc
      <4>4. replay'.raw = <<>> /\ replay'.pc = pc
        BY <4>3 DEF NoReplay
      <4> QED BY <4>1, <4>2, <4>4
    <3>2. CASE Heal
      BY <3>2 DEF Heal, NoReplay
    <3> QED BY <1>5, <3>1, <3>2
  <2>2. Handed' \subseteq ToSet(replayed) /\ Ascends(replayed')
    BY <1>1, <1>3, <2>1 DEF Handed, ReplayOrder
  <2>3. \A j \in Ahead' : Handed' = {}
    BY <1>3, <2>1 DEF Handed, Ahead
  <2> QED BY <1>1, <2>1, <2>2, <2>3 DEF ReplayOrder, Handed, Ascends
<1>6. CASE ReadArchive
  <2> DEFINE r == Replaying
  <2>1. /\ replay.pc = "read" /\ replay.raw = <<>> /\ replayed' = replayed
        /\ replay'.pc = "feed" /\ replay'.todo = replay.todo /\ replay'.raw = Archived(r)
        /\ r \in Nat /\ r \in replay.todo /\ \A j \in replay.todo : r <= j /\ j \in Nat
    <3>1. replay.pc = "read" /\ replay.raw = <<>> /\ replayed' = replayed
      BY <1>1, <1>6 DEF ReadArchive, ReplayMarks
    <3>2. replay' = [replay EXCEPT !.pc = "feed", !.raw = archives[r], !.fileHigh = 0]
      BY <1>6 DEF ReadArchive
    <3>3. replay'.pc = "feed" /\ replay'.todo = replay.todo /\ replay'.raw = archives[r]
      BY <1>1, <3>2 DEF ReplayTypes
    <3> QED BY <1>4, <3>1, <3>3 DEF Archived
  <2>2. Replaying' = r
    BY <2>1 DEF Replaying
  <2> HIDE DEF r
  <2>3. /\ Ahead' = replay.todo \ {r} /\ Ahead = replay.todo
        /\ Handed = ToSet(replayed) /\ Handed' = ToSet(replayed) \union ToSet(Archived(r))
    BY <1>3, <2>1, <2>2 DEF Ahead, Handed
  <2>4. ToSet(Archived(r)) \subseteq Kept(r)
    BY DEF Kept
  <2>5. \A l \in ToSet(replayed), m \in ToSet(Archived(r)) : l < m
    BY <1>1, <2>1, <2>3, <2>4 DEF ReplayOrder
  <2>6. ASSUME NEW j \in Ahead', NEW l \in Handed', NEW m \in Kept(j)' PROVE l < m
    <3>1. j \in replay.todo /\ j \in Nat /\ r < j
      BY <2>1, <2>3
    <3>2. m \in Kept(j)
      BY <1>2, <3>1
    <3>3. CASE l \in ToSet(replayed)
      BY <1>1, <2>3, <3>1, <3>2, <3>3 DEF ReplayOrder
    <3>4. CASE l \in ToSet(Archived(r))
      BY <2>1, <2>4, <3>1, <3>2, <3>4 DEF AscendInv, KeptInv, KeptAscend
    <3> QED BY <2>3, <3>3, <3>4
  <2>7. Handed' \subseteq 1..(nextLsn' - 1)
    <3>1. Kept(r) \subseteq 1..(nextLsn - 1)
      BY <2>1 DEF AscendInv, KeptInv, KeptOpened
    <3> QED BY <1>1, <2>3, <2>4, <3>1 DEF ReplayOrder
  <2>8. Ascends(replayed') /\ Ascends(replay'.raw)
    BY <1>1, <2>1 DEF ReplayOrder, AscendInv, KeptInv, CopiesAscend
  <2> QED BY <2>1, <2>5, <2>6, <2>7, <2>8 DEF ReplayOrder, Ascends
<1>7. CASE FeedRecord
  <2> DEFINE l == Head(replay.raw)
             rest == Tail(replay.raw)
  <2>1. /\ replay.pc = "feed" /\ replay.raw # <<>> /\ replayed' = Append(replayed, l)
        /\ replay'.pc = "feed" /\ replay'.todo = replay.todo /\ replay'.raw = rest
    BY <1>1, <1>7 DEF FeedRecord, ReplayTypes
  <2>2. /\ l \in ToSet(replay.raw) /\ ToSet(rest) \subseteq ToSet(replay.raw)
        /\ Ascends(rest) /\ \A m \in ToSet(rest) : l < m
    BY <1>1, <2>1, AscendingSequences DEF ReplayOrder
  <2>3. l \in 1..MaxLsn
    BY <1>1, <2>1, LsnSequences
  <2> HIDE DEF l, rest
  <2>4. Ahead' = Ahead
    BY <2>1 DEF Ahead, Replaying
  <2>5. \A k \in ToSet(replayed), m \in ToSet(replay.raw) : k < m
    BY <1>1, <2>1 DEF ReplayOrder
  <2>6. ToSet(replayed') = ToSet(replayed) \union {l} /\ Ascends(replayed')
    <3>1. Ascends(replayed) /\ \A m \in ToSet(replayed) : m < l
      BY <1>1, <2>2, <2>5 DEF ReplayOrder
    <3> QED BY <1>1, <2>1, <2>3, <3>1, LsnSequences, AscendingSequences
  <2>7. Handed' \subseteq Handed
    BY <2>1, <2>2, <2>6 DEF Handed
  <2>8. \A k \in ToSet(replayed'), m \in ToSet(replay'.raw) : k < m
    BY <2>1, <2>2, <2>5, <2>6
  <2>9. \A j \in Ahead' : \A k \in Handed', m \in Kept(j)' : k < m
    <3>1. Ahead \subseteq Nat
      BY <1>1 DEF Ahead, ReplayTypes
    <3> QED BY <1>1, <1>2, <2>4, <2>7, <3>1 DEF ReplayOrder
  <2>10. Handed' \subseteq 1..(nextLsn' - 1)
    BY <1>1, <2>7 DEF ReplayOrder
  <2> QED BY <2>1, <2>2, <2>6, <2>8, <2>9, <2>10 DEF ReplayOrder, Ascends
<1>8. CASE EndArchive
  <2>1. /\ replay.pc = "feed" /\ replay.raw = <<>> /\ replayed' = replayed
        /\ replay'.pc \in {"read", "healed"} /\ replay'.todo = replay.todo \ {Replaying}
        /\ replay'.raw = replay.raw
    BY <1>1, <1>8 DEF EndArchive, ReplayTypes
  <2>2. Handed' = Handed /\ Ahead' \subseteq Ahead
    BY <2>1 DEF Handed, Ahead
  <2>3. Ahead \subseteq Nat
    BY <1>1 DEF Ahead, ReplayTypes
  <2>4. \A j \in Ahead' : \A k \in Handed', m \in Kept(j)' : k < m
    BY <1>1, <1>2, <2>2, <2>3 DEF ReplayOrder
  <2> QED BY <1>1, <2>1, <2>2, <2>4 DEF ReplayOrder, Ascends
<1>9. CASE ReplayError
  <2>1. replayed' = replayed /\ replay'.pc = "healed" /\ replay'.raw = replay.raw
    BY <1>1, <1>9 DEF ReplayError, ReplayTypes
  <2>2. Handed' = Handed /\ Ahead' = {}
    BY <2>1 DEF Handed, Ahead
  <2> QED BY <1>1, <2>1, <2>2 DEF ReplayOrder, Ascends
<1> QED BY <1>5, <1>6, <1>7, <1>8, <1>9 DEF ReplayStep

\* Without a restart or an 'archiveError', every step keeps the order.
LEMMA AscendStep ==
    ASSUME OneCaller, AscendInv, [LedgerNext]_ledgerVars, Quiet'
    PROVE  AscendInv'
<1>1. LedgerInv'
  BY LedgerInvStep DEF AscendInv
<1>2. nextLsn \in Nat \ {0} /\ activeIndex \in Nat /\ SpillTypes /\ ReplayTypes
  BY DEF AscendInv, WindowInv, CallInv, SegmentInv, LedgerInv
<1>3. ASSUME WindowInv', KeptMoves, CopiesAscend', UNCHANGED <<replay, replayed>>
      PROVE  AscendInv'
  <2>1. activeIndex' \in Nat
    BY <1>3 DEF WindowInv, SegmentInv
  <2>2. KeptInv'
    BY <1>2, <1>3, <2>1, KeptStaysInOrder DEF AscendInv, KeptInv
  <2>3. ReplayOrder'
    BY <1>2, <1>3, ReplayWaits DEF AscendInv
  <2> QED BY <1>1, <1>3, <2>2, <2>3 DEF AscendInv
<1>4. CASE WalStep \/ UNCHANGED ledgerVars
  <2>1. WindowInv' /\ KeptMoves /\ CopiesAscend'
    BY <1>2, <1>4, LogStepWindow, LogKept DEF AscendInv
  <2>2. UNCHANGED <<replay, replayed>>
    BY <1>4 DEF WalStep, ledgerVars, archiveVars
  <2> QED BY <1>3, <2>1, <2>2
<1>5. CASE BeginSpill \/ SpillStep
  <2>1. WindowInv' /\ KeptMoves /\ CopiesAscend'
    BY <1>2, <1>5, SpillKeepsWindow, SpillKept DEF AscendInv
  <2>2. UNCHANGED <<replay, replayed>>
    BY <1>5 DEF BeginSpill, SpillStep, ReadSegment, WriteArchive, RemoveSegment, DeleteSpilled
  <2> QED BY <1>3, <2>1, <2>2
<1>6. CASE BeginReplay \/ ReplayStep \/ ReplayError
  BY <1>1, <1>6, ReplayKept, ReplayInOrder DEF AscendInv
<1>7. ~SpillError
  BY DEF Quiet, SpillError
<1>8. ~LedgerCrash
  <2>1. crashes \in Nat /\ crashes' = 0
    BY BoundsAssumption DEF Quiet, AscendInv, LedgerInv, TypeInv, CounterTypes
  <2> QED BY <2>1 DEF LedgerCrash, Crash
<1> QED BY <1>4, <1>5, <1>6, <1>7, <1>8 DEF LedgerNext

\* Restarts are counted and an error that was emitted stays emitted.
LEMMA QuietBefore ==
    ASSUME LedgerInv, [LedgerNext]_ledgerVars, Quiet'
    PROVE  Quiet
<1>1. crashes \in Nat /\ crashes' = 0 /\ archiveError' = archiveError /\ ~archiveError'
  BY BoundsAssumption, ErrorStays DEF Quiet, LedgerInv, TypeInv, CounterTypes
<1>2. CASE WalStep \/ UNCHANGED ledgerVars
  <2>1. crashes' = crashes
    BY <1>2 DEF WalStep, AppendStep, RefuseAppend, BeginAppend, WriteFrame, RecordWrite,
       TrimFile, Account, Fsync, Flushed, RejectAppend, SwitchStep, EnterPartition,
       SwitchFsync, SwitchFlushed, RejectSwitch, MarkTimer, Tick, envVars, ledgerVars, walVars
  <2> QED BY <1>1, <2>1 DEF Quiet
<1>3. CASE BeginSpill \/ SpillStep \/ SpillError \/ BeginReplay \/ ReplayStep \/ ReplayError
  <2>1. crashes' = crashes
    BY <1>3 DEF BeginSpill, SpillStep, ReadSegment, WriteArchive, RemoveSegment, DeleteSpilled,
       SpillError, BeginReplay, ReplayStep, ReadArchive, FeedRecord, EndArchive, Heal,
       LeavePartition, ReplayError, walVars, envVars
  <2> QED BY <1>1, <2>1 DEF Quiet
<1>4. ~LedgerCrash
  BY <1>1 DEF LedgerCrash, Crash
<1> QED BY <1>2, <1>3, <1>4 DEF LedgerNext

\* At the start nothing is kept.
LEMMA AscendInitInv == LedgerInit => AscendInv
<1> SUFFICES ASSUME LedgerInit PROVE AscendInv
  OBVIOUS
<1>1. LedgerInv /\ WalInv
  BY LedgerInitInv, WalInitInv DEF LedgerInit
<1>2. /\ segments = <<>> /\ files = <<>> /\ archives = <<>> /\ replayed = <<>>
      /\ spill.pc = "idle" /\ spill.raw = <<>> /\ replay.pc = "idle" /\ replay.raw = <<>>
      /\ call = [w \in Writers |-> Idle]
  BY DEF LedgerInit, WalInit, NoSpill, NoReplay
<1>3. Dated = {}
  BY <1>2 DEF Dated, DatedIn
<1>4. WindowInv
  BY <1>1, <1>2, <1>3 DEF WindowInv, WalInv, CreatedInOrder, SpillTakesFront
<1>5. ToSet(<<>>) = {} /\ Ascends(<<>>)
  BY DEF ToSet, Ascends
<1>6. \A i : Filed(i) = <<>> /\ Archived(i) = <<>> /\ Copied(i) = <<>> /\ Writing(i) = {}
  BY <1>2 DEF Filed, FileAt, EmptyFile, LsnSeq, Archived, Copied, Writing, Idle
<1>7. \A i : Kept(i) = {}
  BY <1>5, <1>6 DEF Kept
<1>8. KeptInv
  BY <1>2, <1>5, <1>6, <1>7 DEF KeptInv, KeptAscend, KeptOpened, CopiesAscend, Idle
<1>9. ReplayOrder
  BY <1>2, <1>5 DEF ReplayOrder, Handed, Ahead
<1> QED BY <1>1, <1>4, <1>8, <1>9 DEF AscendInv

\* The records of one caller are replayed in LSN order, each once, whatever spills and
\* trims overlap with the replay and with the appends, and whatever fails, until a restart
\* or an 'archiveError' (spillToArchive, replayFromArchive).
THEOREM ReplaysAscend ==
    ASSUME OneCaller
    PROVE  LedgerSpec => []ReplayAscends
<1> DEFINE QuietInv == LedgerInv /\ (Quiet => AscendInv)
<1>1. QuietInv /\ [LedgerNext]_ledgerVars => QuietInv'
  BY LedgerInvStep, QuietBefore, AscendStep
<1>2. QuietInv => ReplayAscends
  BY DEF Quiet, AscendInv, ReplayOrder, Ascends, ReplayAscends, ReplaysInLsnOrder
<1>3. LedgerInit => QuietInv
  BY AscendInitInv, LedgerInitInv
<1> HIDE DEF QuietInv
<1> QED BY <1>1, <1>2, <1>3, PTL DEF LedgerSpec
=============================================================================
