---------------------------- MODULE WriteAheadLog ----------------------------
(***************************************************************************)
(* Appending to the write-ahead ledger: WalWriter                          *)
(* (src/ledger/wal-writer.ts) over SegmentManager                          *)
(* (src/ledger/segment-manager.ts), acknowledging to AckWatermark.         *)
(*                                                                         *)
(* Several callers may have an append() in progress at once.  JavaScript   *)
(* runs one of them from one `await` to the next, so each action below is  *)
(* the code between two awaits, or the effect of the file operation that   *)
(* is awaited, which happens at some point before its continuation runs.   *)
(* A crash loses all memory and any part of a file that no fsync covered.  *)
(***************************************************************************)
EXTENDS Integers, Sequences, FiniteSets

CONSTANTS
    Writers,         \* callers of append(), each awaiting its own call
    Switchers,       \* callers of setPartitionMode(true)
    Payloads,        \* payload sizes
    HeaderBytes,     \* frame header: 8-byte LSN and 4-byte length
    SegmentBytes,    \* SEGMENT_SIZE_BYTES
    MaxSegments,     \* floor(quota / segment size)
    NormalFlush,     \* NORMAL_FLUSH_BYTES
    PartitionFlush,  \* PARTITION_FLUSH_BYTES
    ThrottleBytes,   \* PARTITION_THROTTLE_BYTES_PER_MIN
    Minute,          \* length of the throttle window, in clock ticks
    AdvanceRecords,  \* the watermark's record count
    IoFaults,        \* bound: records at whose append a file operation may fail; if there
                     \* are any, so may those of switches, spills and replays
    MaxLsn,          \* bound: records appended
    MaxClock,        \* bound: clock ticks
    MaxCrashes       \* bound: crashes

ASSUME SizesAssumption ==
    /\ Payloads \subseteq Nat
    /\ HeaderBytes \in Nat \ {0}
    /\ SegmentBytes \in Nat \ {0}
    /\ MaxSegments \in Nat \ {0}
    /\ NormalFlush \in Nat \ {0}
    /\ PartitionFlush \in Nat \ {0}
    /\ ThrottleBytes \in Nat
    /\ Minute \in Nat \ {0}
    /\ AdvanceRecords \in Nat \ {0}
    /\ IoFaults \subseteq Nat
\* There is a longest payload, and finitely many appends are in progress at once.
ASSUME PayloadsAssumption == \E p \in Payloads : \A q \in Payloads : q <= p
ASSUME WritersAssumption == IsFiniteSet(Writers)
ASSUME BoundsAssumption == MaxLsn \in Nat /\ MaxClock \in Nat /\ MaxCrashes \in Nat

VARIABLES
    watermark, pendingLsn, pendingCount, frozen,   \* the AckWatermark
    segments,       \* SegmentManager.segments, oldest first
    activeIndex,    \* SegmentManager.activeIndex
    files,          \* the segment files on disk, by segment index
    partitionMode,  \* WalWriter.partitionMode
    windowBytes,    \* WalWriter.bytesWrittenThisMinute
    windowStart,    \* WalWriter.minuteWindowStart
    resetMissed,    \* history: setPartitionMode(true) rejected before its reset of the
                    \* minute's count, and nothing has reset it since
    unflushed,      \* WalWriter.bytesSinceLastFlush
    call,           \* where each writer stands in append()
    switch,         \* where each switcher stands in setPartitionMode(true)
    nextLsn,        \* the LSN the callers use next
    returned,       \* LSNs whose append() returned true
    clock,
    crashes

markVars == <<watermark, pendingLsn, pendingCount, frozen>>
segmentVars == <<segments, activeIndex>>
throttleVars == <<windowBytes, windowStart, resetMissed>>
envVars == <<clock, crashes>>
walVars == <<markVars, segmentVars, files, partitionMode, throttleVars, unflushed,
             call, switch, nextLsn, returned, envVars>>

Mark == INSTANCE AckWatermark WITH Lsns <- 1..MaxLsn, MaxPending <- MaxLsn

Idle == [pc |-> "idle", lsn |-> 0, size |-> 0, seg |-> 0]
NoSwitch == [pc |-> "idle", seg |-> 0]

WalInit ==
    /\ Mark!WatermarkInit
    /\ segments = <<>>
    /\ activeIndex = 0
    /\ files = <<>>
    /\ partitionMode = FALSE
    /\ windowBytes = 0
    /\ windowStart = 0
    /\ resetMissed = FALSE
    /\ unflushed = 0
    /\ call = [w \in Writers |-> Idle]
    /\ switch = [s \in Switchers |-> NoSwitch]
    /\ nextLsn = 1
    /\ returned = {}
    /\ clock = 0
    /\ crashes = 0

-----------------------------------------------------------------------------
(* SegmentManager *)

\* createNewSegment(), for a list that already holds `segs`.
WithNewSegment(segs, index) ==
    Append(segs, [index |-> index, size |-> 0, createdAt |-> clock])

\* getActiveSegment() makes a segment if there is none; the active one is last.
OpenedIndex == IF segments = <<>> THEN activeIndex + 1 ELSE activeIndex
Opened == IF segments = <<>> THEN WithNewSegment(segments, OpenedIndex) ELSE segments
OpenSegment == segments' = Opened /\ activeIndex' = OpenedIndex
ActiveSegment == Opened[Len(Opened)].index

\* Mutant: the header is not counted.
Grown_Payload(bytes) == [Opened EXCEPT ![Len(Opened)].size = @ + bytes - HeaderBytes]

\* The active segment with `bytes` more recorded against it.
Grown(bytes) == [Opened EXCEPT ![Len(Opened)].size = @ + bytes]
IsFull(segs) == segs[Len(segs)].size >= SegmentBytes

\* Mutants: one segment too many stays; the newest full one goes instead of the
\* oldest.
TrimInto_OffByOne(w, segs) ==
    IF Len(segs) > MaxSegments + 1
    THEN /\ segments' = Tail(segs)
         /\ call' = [call EXCEPT ![w].pc = "trim", ![w].seg = Head(segs).index]
    ELSE /\ segments' = segs
         /\ call' = [call EXCEPT ![w].pc = "account"]
TrimInto_Newest(w, segs) ==
    IF Len(segs) > MaxSegments
    THEN /\ segments' = SubSeq(segs, 1, Len(segs) - 2) \o <<segs[Len(segs)]>>
         /\ call' = [call EXCEPT ![w].pc = "trim", ![w].seg = segs[Len(segs) - 1].index]
    ELSE /\ segments' = segs
         /\ call' = [call EXCEPT ![w].pc = "account"]
\* One turn of trimWindow()'s loop: shift() the oldest segment out of the window
\* and leave writer w deleting its file, or leave w past the loop.  Index 0
\* stands for no file to delete.
TrimInto(w, segs) ==
    IF Len(segs) > MaxSegments
    THEN /\ segments' = Tail(segs)
         /\ call' = [call EXCEPT ![w].pc = "trim", ![w].seg = Head(segs).index]
    ELSE /\ segments' = segs
         /\ call' = [call EXCEPT ![w].pc = "account"]

-----------------------------------------------------------------------------
(* Files *)

EmptyFile == [recs |-> <<>>, synced |-> 0]
FileAt(i) == IF i \in DOMAIN files THEN files[i] ELSE EmptyFile
FilesWith(i, file) == [j \in DOMAIN files \union {i} |-> IF j = i THEN file ELSE files[j]]
FilesWithout(i) == [j \in DOMAIN files \ {i} |-> files[j]]

\* The length of a file in bytes: a record knows the offset its frame ends at.
EndOf(recs) == IF recs = <<>> THEN 0 ELSE recs[Len(recs)].end

\* appendFile() creates a missing file; fsync() of a missing file succeeds.
AppendToFile(i, lsn, size) ==
    files' = FilesWith(i, [FileAt(i) EXCEPT
                 !.recs = Append(@, [lsn |-> lsn, end |-> EndOf(@) + size])])
SyncFile(i) ==
    files' = IF i \in DOMAIN files
             THEN [files EXCEPT ![i].synced = Len(files[i].recs)]
             ELSE files

-----------------------------------------------------------------------------
(* WalWriter.append(), from await to await *)

WindowOver == clock - windowStart >= Minute
WindowSpent == IF WindowOver THEN 0 ELSE windowBytes
SlideWindow ==
    /\ windowBytes' = WindowSpent
    /\ windowStart' = IF WindowOver THEN clock ELSE windowStart
    /\ resetMissed' = (resetMissed /\ ~WindowOver)
\* Mutant: only the record itself is held against the budget.
OverBudget_ThisRecord(payload) == payload > ThrottleBytes

OverBudget(payload) == WindowSpent + payload > ThrottleBytes

\* Partition mode: the budget of the minute is exhausted, append() returns false.
RefuseAppend(w) ==
    /\ call[w].pc = "idle"
    /\ nextLsn <= MaxLsn
    /\ partitionMode
    /\ \E payload \in Payloads : OverBudget(payload)
    /\ SlideWindow
    /\ UNCHANGED <<markVars, segmentVars, files, partitionMode, unflushed, call,
                   switch, nextLsn, returned, envVars>>

\* Up to the await of appendFile(): the target segment is fixed here.
BeginAppend(w) ==
    /\ call[w].pc = "idle"
    /\ nextLsn <= MaxLsn
    /\ IF partitionMode THEN SlideWindow ELSE UNCHANGED throttleVars
    /\ \E payload \in Payloads :
           /\ partitionMode => ~OverBudget(payload)
           /\ call' = [call EXCEPT ![w] =
                 [pc |-> "write", lsn |-> nextLsn, size |-> payload + HeaderBytes,
                  seg |-> ActiveSegment]]
    /\ OpenSegment
    /\ nextLsn' = nextLsn + 1
    /\ UNCHANGED <<markVars, files, partitionMode, unflushed, switch, returned, envVars>>

\* The frame reaches the file.
WriteFrame(w) ==
    /\ call[w].pc = "write"
    /\ AppendToFile(call[w].seg, call[w].lsn, call[w].size)
    /\ call' = [call EXCEPT ![w].pc = "record"]
    /\ UNCHANGED <<markVars, segmentVars, partitionMode, throttleVars, unflushed,
                   switch, nextLsn, returned, envVars>>

\* recordWrite(): the bytes count against the segment that is active now; a
\* full segment is rotated out and the first turn of the trim loop runs.
RecordWrite(w) ==
    /\ call[w].pc = "record"
    /\ LET grown == Grown(call[w].size)
       IN  IF IsFull(grown)
           THEN /\ activeIndex' = OpenedIndex + 1
                /\ TrimInto(w, WithNewSegment(grown, OpenedIndex + 1))
           ELSE /\ activeIndex' = OpenedIndex
                /\ segments' = grown
                /\ call' = [call EXCEPT ![w].pc = "account"]
    /\ UNCHANGED <<markVars, files, partitionMode, throttleVars, unflushed, switch,
                   nextLsn, returned, envVars>>

\* trimWindow() deletes the file it shifted out, swallowing an error, and looks
\* at the length again; rotate() then asks for the active segment once more.
TrimFile(w) ==
    /\ call[w].pc = "trim"
    /\ \/ files' = FilesWithout(call[w].seg)
       \/ call[w].lsn \in IoFaults /\ files' = files
    /\ activeIndex' = OpenedIndex
    /\ TrimInto(w, Opened)
    /\ UNCHANGED <<markVars, partitionMode, throttleVars, unflushed, switch, nextLsn,
                   returned, envVars>>

\* Mutant: the latest LSN handed out is acknowledged, not this record's.
Return_Latest(w) ==
    /\ Mark!Acknowledge(nextLsn - 1)
    /\ returned' = returned \union {call[w].lsn}
    /\ call' = [call EXCEPT ![w] = Idle]

\* append() returns true: the record is acknowledged.
Return(w) ==
    /\ Mark!Acknowledge(call[w].lsn)
    /\ returned' = returned \union {call[w].lsn}
    /\ call' = [call EXCEPT ![w] = Idle]

FlushThreshold == IF partitionMode THEN PartitionFlush ELSE NormalFlush

\* After recordWrite(): count the frame, then return or start flush(), which
\* picks the segment that is active at this moment.
Account(w) ==
    /\ call[w].pc = "account"
    /\ windowBytes' = IF partitionMode THEN windowBytes + call[w].size ELSE windowBytes
    /\ unflushed' = unflushed + call[w].size
    /\ IF unflushed' >= FlushThreshold
       THEN /\ OpenSegment
            /\ call' = [call EXCEPT ![w].pc = "fsync", ![w].seg = ActiveSegment]
            /\ UNCHANGED <<markVars, returned>>
       ELSE Return(w) /\ UNCHANGED segmentVars
    /\ UNCHANGED <<files, partitionMode, windowStart, resetMissed, switch, nextLsn, envVars>>

Fsync(w) ==
    /\ call[w].pc = "fsync"
    /\ SyncFile(call[w].seg)
    /\ call' = [call EXCEPT ![w].pc = "flushed"]
    /\ UNCHANGED <<markVars, segmentVars, partitionMode, throttleVars, unflushed,
                   switch, nextLsn, returned, envVars>>

Flushed(w) ==
    /\ call[w].pc = "flushed"
    /\ unflushed' = 0
    /\ Return(w)
    /\ UNCHANGED <<segmentVars, files, partitionMode, throttleVars, switch, nextLsn, envVars>>

\* appendFile() or fsync() rejects: append() rejects and nothing else is done.
RejectAppend(w) ==
    /\ call[w].lsn \in IoFaults
    /\ call[w].pc \in {"write", "fsync"}
    /\ call' = [call EXCEPT ![w] = Idle]
    /\ UNCHANGED <<markVars, segmentVars, files, partitionMode, throttleVars, unflushed,
                   switch, nextLsn, returned, envVars>>

-----------------------------------------------------------------------------
(* Partition mode: the callbacks of the partition detector freeze the mark  *)
(* and switch the writer together.                                          *)

\* setPartitionMode(true) up to the await of its flush(); a writer already in
\* partition mode is left alone.
EnterPartition(s) ==
    /\ switch[s].pc = "idle"
    /\ ~partitionMode
    /\ Mark!SetFrozen(TRUE)
    /\ partitionMode' = TRUE
    /\ OpenSegment
    /\ switch' = [switch EXCEPT ![s] = [pc |-> "fsync", seg |-> ActiveSegment]]
    /\ UNCHANGED <<files, throttleVars, unflushed, call, nextLsn, returned, envVars>>

SwitchFsync(s) ==
    /\ switch[s].pc = "fsync"
    /\ SyncFile(switch[s].seg)
    /\ switch' = [switch EXCEPT ![s].pc = "flushed"]
    /\ UNCHANGED <<markVars, segmentVars, partitionMode, throttleVars, unflushed, call,
                   nextLsn, returned, envVars>>

SwitchFlushed(s) ==
    /\ switch[s].pc = "flushed"
    /\ unflushed' = 0
    /\ windowBytes' = 0
    /\ windowStart' = clock
    /\ resetMissed' = FALSE
    /\ switch' = [switch EXCEPT ![s] = NoSwitch]
    /\ UNCHANGED <<markVars, segmentVars, files, partitionMode, call, nextLsn, returned, envVars>>

\* The fsync rejects, and setPartitionMode() with it: the mode is already on, and
\* the minute's count and the flush counter stay as they were.
RejectSwitch(s) ==
    /\ IoFaults # {}
    /\ switch[s].pc = "fsync"
    /\ resetMissed' = TRUE
    /\ switch' = [switch EXCEPT ![s] = NoSwitch]
    /\ UNCHANGED <<markVars, segmentVars, files, partitionMode, windowBytes, windowStart,
                   unflushed, call, nextLsn, returned, envVars>>

LeavePartition ==
    /\ partitionMode
    /\ Mark!SetFrozen(FALSE)
    /\ partitionMode' = FALSE
    /\ UNCHANGED <<segmentVars, files, throttleVars, unflushed, call, switch, nextLsn,
                   returned, envVars>>

MarkTimer ==
    /\ Mark!TimerTick
    /\ UNCHANGED <<segmentVars, files, partitionMode, throttleVars, unflushed, call,
                   switch, nextLsn, returned, envVars>>

-----------------------------------------------------------------------------
(* Environment *)

Tick ==
    /\ clock < MaxClock
    /\ clock' = clock + 1
    /\ UNCHANGED <<markVars, segmentVars, files, partitionMode, throttleVars, unflushed,
                   call, switch, nextLsn, returned, crashes>>

\* The process dies and starts again through its constructors, which read
\* nothing from disk; a file keeps what was fsynced and maybe some of the rest.
Crash ==
    /\ crashes < MaxCrashes
    /\ crashes' = crashes + 1
    /\ \E kept \in [DOMAIN files -> 0..MaxLsn] :
           /\ \A i \in DOMAIN files : kept[i] \in files[i].synced..Len(files[i].recs)
           /\ files' = [i \in DOMAIN files |->
                  [recs |-> SubSeq(files[i].recs, 1, kept[i]), synced |-> kept[i]]]
    /\ watermark' = 0 /\ pendingLsn' = 0 /\ pendingCount' = 0 /\ frozen' = FALSE
    /\ segments' = <<>> /\ activeIndex' = 0
    /\ partitionMode' = FALSE
    /\ windowBytes' = 0 /\ windowStart' = clock /\ resetMissed' = FALSE
    /\ unflushed' = 0
    /\ call' = [w \in Writers |-> Idle]
    /\ switch' = [s \in Switchers |-> NoSwitch]
    /\ UNCHANGED <<nextLsn, returned, clock>>

AppendStep(w) ==
    \/ RefuseAppend(w) \/ BeginAppend(w) \/ WriteFrame(w) \/ RecordWrite(w)
    \/ TrimFile(w) \/ Account(w) \/ Fsync(w) \/ Flushed(w) \/ RejectAppend(w)

SwitchStep(s) ==
    EnterPartition(s) \/ SwitchFsync(s) \/ SwitchFlushed(s) \/ RejectSwitch(s)

WalNext ==
    \/ \E w \in Writers : AppendStep(w)
    \/ \E s \in Switchers : SwitchStep(s)
    \/ LeavePartition
    \/ MarkTimer
    \/ Tick
    \/ Crash

WalSpec == WalInit /\ [][WalNext]_walVars

\* The steps of append() that nobody has to ask for: a file operation completes
\* and its continuation runs.
AppendProgress(w) ==
    WriteFrame(w) \/ RecordWrite(w) \/ TrimFile(w) \/ Account(w) \/ Fsync(w) \/ Flushed(w)

-----------------------------------------------------------------------------
Records == [lsn : 1..MaxLsn, end : Nat]
Pcs == {"idle", "write", "record", "trim", "account", "fsync", "flushed"}

\* Segments, files, calls and counters keep their types.
WalTypeOK ==
    /\ Mark!WatermarkTypeOK
    /\ segments \in Seq([index : Nat \ {0}, size : Nat, createdAt : Nat])
    /\ activeIndex \in Nat
    /\ \A i \in DOMAIN files :
          files[i] \in [recs : Seq(Records), synced : Nat]
              /\ files[i].synced <= Len(files[i].recs)
    /\ partitionMode \in BOOLEAN
    /\ windowBytes \in Nat /\ windowStart \in Nat /\ unflushed \in Nat
    /\ resetMissed \in BOOLEAN
    /\ call \in [Writers -> [pc : Pcs, lsn : 0..MaxLsn, size : Nat, seg : Nat]]
    /\ switch \in [Switchers -> [pc : {"idle", "fsync", "flushed"}, seg : Nat]]
    /\ nextLsn \in 1..(MaxLsn + 1)
    /\ returned \subseteq 1..MaxLsn
    /\ clock \in 0..MaxClock /\ crashes \in 0..MaxCrashes

\* The window: never more segments than the quota allows, numbered without a
\* gap up to the active one, and an active segment that still has room.  An
\* overlapping rotation or a second trim loop could break each of these
\* (rotate, recordWrite, trimWindow).
SegmentWindow ==
    /\ Len(segments) <= MaxSegments
    /\ \A k \in 1..Len(segments) : segments[k].index = activeIndex - Len(segments) + k
    /\ segments # <<>> => segments[Len(segments)].size < SegmentBytes

LsnsIn(i) == {files[i].recs[k].lsn : k \in 1..Len(files[i].recs)}
Tracked == {segments[k].index : k \in 1..Len(segments)}
TrackedLsns == UNION {LsnsIn(i) : i \in Tracked \intersect DOMAIN files}

\* The sliding window sacrifices the oldest records first: a record whose
\* append() returned true and that no tracked segment holds any more is older
\* than every record a tracked segment holds, even when its frame was written
\* after its segment had left the window (trimWindow).  Until a restart, which
\* forgets every segment.
TrimLosesOldestFirst ==
    crashes = 0 => \A lost \in returned \ TrackedLsns, kept \in TrackedLsns : lost < kept

BytesIn(i) == EndOf(files[i].recs)
MaxPayload == CHOOSE p \in Payloads : \A q \in Payloads : q <= p
MaxFrame == HeaderBytes + MaxPayload

\* recordWrite() counts a frame against the segment active at that moment, not
\* the one the frame went to; still a segment file outgrows SEGMENT_SIZE_BYTES
\* by no more than one frame per concurrent append (append, recordWrite).  Each
\* restart numbers segments from one again and may add as much to the old file.
FileSizeBounded ==
    \A i \in DOMAIN files :
        BytesIn(i) < (crashes + 1) * (SegmentBytes + Cardinality(Writers) * MaxFrame)

\* The throttle checks the budget before an await and counts after it, counts
\* frames but checks payloads, and lets appends that began in normal mode pass:
\* this is how far the minute's count can overshoot, once the flush on entering
\* partition mode has reset what an earlier partition left (append,
\* setPartitionMode): the last checked frame, or one begun in normal mode if that
\* is longer than the whole budget, and one for every other append.  Where that
\* flush rejects, the old count stays and there is no such limit, until the
\* window slides or a later partition resets the count.
SpendingBound ==
    Mark!Higher(ThrottleBytes, MaxPayload) + HeaderBytes
        + (Cardinality(Writers) - 1) * MaxFrame
ThrottleOvershoot ==
    (~resetMissed /\ \A s \in Switchers : switch[s].pc = "idle") =>
        windowBytes <= SpendingBound

\* The refinement: to its callers the log is the abstract AckedLog; no record is
\* acknowledged twice, and nothing but a restart takes the mark back or moves it
\* to a record that is not acknowledged (append, advanceWatermark).
Abstract == INSTANCE AckedLog WITH Lsns <- 1..MaxLsn, acked <- returned, mark <- watermark
LogPromise == Abstract!AckedSpec

\* The mark, and what it is about to move to, name records whose append()
\* returned true: never one in flight, rejected or refused.
MarkNamesReturnedRecord == {watermark, pendingLsn} \subseteq returned \union {0}

\* "fsync is called per-segment (every 64 MB of data)" (wal-writer.ts): with
\* no append in progress and nothing left to flush, a segment that is no longer active is wholly on disk.
\* The code breaks it: the append that fills a segment flushes the next one.
SealedSegmentsSynced ==
    (unflushed = 0 /\ \A w \in Writers : call[w].pc = "idle") =>
        \A i \in (Tracked \ {activeIndex}) \intersect DOMAIN files :
            files[i].synced = Len(files[i].recs)
=============================================================================
