---------------------------- MODULE LedgerArchive ----------------------------
(***************************************************************************)
(* Spilling stale segments to the archive while the replica set is         *)
(* partitioned, and replaying the archive when it heals                    *)
(* (src/ledger/ledger-sync-protocol.ts), while appends go on.              *)
(*                                                                         *)
(* A spill and a replay await every file operation, so the append steps of *)
(* WriteAheadLog run between any two of the steps below.  Compression is   *)
(* a pure function and is left out; an archive is the LSNs of its frames.  *)
(***************************************************************************)
EXTENDS WriteAheadLog, SequencesExt

CONSTANTS
    SpillAge,    \* ARCHIVE_SPILL_AGE_MS, in clock ticks
    MaxReplays   \* bound: replays started

ASSUME ArchiveAssumption == SpillAge \in Nat /\ MaxReplays \in Nat

VARIABLES
    archives,   \* archived LSNs by segment index: the files of ARCHIVE_DIR
    spill,      \* where spillToArchive() stands
    replay,     \* where replayFromArchive() stands
    replayed,   \* LSNs handed to replayRecord() by the present replay
    replays,
    archiveError   \* 'archiveError' has been emitted

archiveVars == <<archives, spill, replay, replayed, replays, archiveError>>
ledgerVars == <<walVars, archiveVars>>

NoSpill == [pc |-> "idle", todo |-> {}, raw |-> <<>>]
NoReplay == [pc |-> "idle", todo |-> {}, raw |-> <<>>, fileHigh |-> 0, high |-> 0]

LedgerInit ==
    /\ WalInit
    /\ archives = <<>>
    /\ spill = NoSpill
    /\ replay = NoReplay
    /\ replayed = <<>>
    /\ replays = 0
    /\ archiveError = FALSE

LsnSeq(recs) == [k \in 1..Len(recs) |-> recs[k].lsn]

-----------------------------------------------------------------------------
(* spillToArchive() *)

\* getSegmentsOlderThan(): the active segment is among them when it is old.
IsStale(seg) == seg.createdAt < clock - SpillAge
StaleSegments ==
    {segments[k].index : k \in {j \in 1..Len(segments) : IsStale(segments[j])}}
\* The list is taken from its front, where the lowest number is.
Spilling == Min(spill.todo)

\* "Called periodically while in partition mode."
BeginSpill ==
    /\ spill.pc = "idle"
    /\ partitionMode
    /\ StaleSegments # {}
    /\ spill' = [pc |-> "read", todo |-> StaleSegments, raw |-> <<>>]
    /\ UNCHANGED <<walVars, archives, replay, replayed, replays, archiveError>>

\* The next stale segment, or the end of the loop.
NextSpill == IF spill.todo = {Spilling}
             THEN NoSpill
             ELSE [pc |-> "read", todo |-> spill.todo \ {Spilling}, raw |-> <<>>]

\* readSegment() answers an empty buffer for a missing file, and for any error.
ReadSegment ==
    /\ spill.pc = "read"
    /\ \/ spill' = [spill EXCEPT !.pc = "archive",
                                 !.raw = LsnSeq(FileAt(Spilling).recs)]
       \/ IoFaults # {} /\ spill' = [spill EXCEPT !.pc = "archive", !.raw = <<>>]
    /\ UNCHANGED <<walVars, archives, replay, replayed, replays, archiveError>>

\* writeFile() replaces an archive of that name.
WriteArchive ==
    /\ spill.pc = "archive"
    /\ archives' = [i \in DOMAIN archives \union {Spilling} |->
                       IF i = Spilling THEN spill.raw ELSE archives[i]]
    /\ spill' = [spill EXCEPT !.pc = "remove", !.raw = <<>>]
    /\ UNCHANGED <<walVars, replay, replayed, replays, archiveError>>

\* removeSegment() up to the await of deleteFile(); nothing to delete if the
\* segment has left the window meanwhile.
RemoveSegment ==
    /\ spill.pc = "remove"
    /\ LET found == {k \in 1..Len(segments) : segments[k].index = Spilling}
       IN  IF found = {}
           THEN segments' = segments /\ spill' = NextSpill
           ELSE /\ segments' = RemoveAt(segments, Min(found))
                /\ spill' = [spill EXCEPT !.pc = "delete"]
    /\ UNCHANGED <<markVars, activeIndex, files, partitionMode, throttleVars, unflushed,
                   call, switch, nextLsn, returned, envVars, archives, replay, replayed,
                   replays, archiveError>>

DeleteSpilled ==
    /\ spill.pc = "delete"
    /\ files' = FilesWithout(Spilling)
    /\ spill' = NextSpill
    /\ UNCHANGED <<markVars, segmentVars, partitionMode, throttleVars, unflushed, call,
                   switch, nextLsn, returned, envVars, archives, replay, replayed, replays,
                   archiveError>>

\* writeFile() or deleteFile() rejects: 'archiveError', and on with the next.
SpillError ==
    /\ IoFaults # {}
    /\ spill.pc \in {"archive", "delete"}
    /\ spill' = NextSpill
    /\ archiveError' = TRUE
    /\ UNCHANGED <<walVars, archives, replay, replayed, replays>>

-----------------------------------------------------------------------------
(* replayFromArchive(), called by the partition detector on heal; the heal  *)
(* callback then ends partition mode.                                       *)

\* Mutant: the listing is taken from its end.
Replaying_Last == CHOOSE i \in replay.todo : \A j \in replay.todo : j <= i
\* The archive being replayed: sorted file names are sorted by segment index.
Replaying == Min(replay.todo)

\* Listing the archive directory.
BeginReplay ==
    /\ replay.pc = "idle"
    /\ replays < MaxReplays
    /\ partitionMode
    /\ replay' = [NoReplay EXCEPT
                     !.pc = IF archives = <<>> THEN "healed" ELSE "read",
                     !.todo = DOMAIN archives]
    /\ replayed' = <<>>
    /\ replays' = replays + 1
    /\ UNCHANGED <<walVars, archives, spill, archiveError>>

ReadArchive ==
    /\ replay.pc = "read"
    /\ replay' = [replay EXCEPT !.pc = "feed", !.raw = archives[Replaying],
                                !.fileHigh = 0]
    /\ UNCHANGED <<walVars, archives, spill, replayed, replays, archiveError>>

\* One turn of replayArchiveFile()'s loop.
FeedRecord ==
    /\ replay.pc = "feed"
    /\ replay.raw # <<>>
    /\ replayed' = Append(replayed, Head(replay.raw))
    /\ replay' = [replay EXCEPT !.raw = Tail(@),
                                !.fileHigh = Mark!Higher(@, Head(replay.raw))]
    /\ UNCHANGED <<walVars, archives, spill, replays, archiveError>>

\* Mutant: the mark is forced before this archive's LSNs are counted.
EndArchive_Before ==
    /\ replay.pc = "feed"
    /\ replay.raw = <<>>
    /\ Mark!ForceAdvance(replay.high)
    /\ replay' = [replay EXCEPT
                    !.high = Mark!Higher(@, replay.fileHigh),
                    !.todo = @ \ {Replaying},
                    !.pc = IF replay.todo = {Replaying} THEN "healed" ELSE "read"]
    /\ UNCHANGED <<segmentVars, files, partitionMode, throttleVars, unflushed, call, switch,
                   nextLsn, returned, envVars, archives, spill, replayed, replays,
                   archiveError>>

\* The archive is exhausted: the mark is forced, frozen or not.
EndArchive ==
    /\ replay.pc = "feed"
    /\ replay.raw = <<>>
    /\ LET high == Mark!Higher(replay.high, replay.fileHigh)
       IN  /\ Mark!ForceAdvance(high)
           /\ replay' = [replay EXCEPT
                            !.high = high,
                            !.todo = @ \ {Replaying},
                            !.pc = IF replay.todo = {Replaying} THEN "healed" ELSE "read"]
    /\ UNCHANGED <<segmentVars, files, partitionMode, throttleVars, unflushed, call, switch,
                   nextLsn, returned, envVars, archives, spill, replayed, replays,
                   archiveError>>

\* Mutant: the rejection reaches checkPeers(), which signals no heal.
ReplayError_Propagates ==
    /\ IoFaults # {}
    /\ replay.pc = "read"
    /\ replay' = NoReplay
    /\ UNCHANGED <<walVars, archives, spill, replayed, replays, archiveError>>

\* readFile(), inflate or replayRecord() rejects: the replay is abandoned and
\* the detector signals the heal all the same.
ReplayError ==
    /\ IoFaults # {}
    /\ \/ replay.pc = "read"
       \/ replay.pc = "feed" /\ replay.raw # <<>>
    /\ replay' = [replay EXCEPT !.pc = "healed"]
    /\ UNCHANGED <<walVars, archives, spill, replayed, replays, archiveError>>

\* onHeal
Heal ==
    /\ replay.pc = "healed"
    /\ replay' = NoReplay
    /\ LeavePartition
    /\ UNCHANGED <<archives, spill, replayed, replays, archiveError>>

-----------------------------------------------------------------------------
\* Memory is lost; the archive directory stays.
LedgerCrash ==
    /\ Crash
    /\ spill' = NoSpill
    /\ replay' = NoReplay
    /\ replayed' = <<>>
    /\ UNCHANGED <<archives, replays, archiveError>>

WalStep ==
    /\ \/ \E w \in Writers : AppendStep(w)
       \/ \E s \in Switchers : SwitchStep(s)
       \/ MarkTimer
       \/ Tick
    /\ UNCHANGED archiveVars

SpillStep == ReadSegment \/ WriteArchive \/ RemoveSegment \/ DeleteSpilled
ReplayStep == ReadArchive \/ FeedRecord \/ EndArchive \/ Heal

LedgerNext ==
    \/ WalStep
    \/ BeginSpill \/ SpillStep \/ SpillError
    \/ BeginReplay \/ ReplayStep \/ ReplayError
    \/ LedgerCrash

LedgerSpec == LedgerInit /\ [][LedgerNext]_ledgerVars

\* The file operations of a replay complete and its continuations run.
LedgerFairSpec == LedgerSpec /\ WF_ledgerVars(ReplayStep)

-----------------------------------------------------------------------------
\* Archives, the spill and the replay keep their types.
LedgerTypeOK ==
    /\ WalTypeOK
    /\ DOMAIN archives \subseteq Nat \ {0}
    /\ \A i \in DOMAIN archives : archives[i] \in Seq(1..MaxLsn)
    /\ spill \in [pc : {"idle", "read", "archive", "remove", "delete"},
                  todo : SUBSET (Nat \ {0}), raw : Seq(1..MaxLsn)]
    /\ replay \in [pc : {"idle", "read", "feed", "healed"}, todo : SUBSET (Nat \ {0}),
                   raw : Seq(1..MaxLsn), fileHigh : Nat, high : Nat]
    /\ replayed \in Seq(1..MaxLsn)
    /\ replays \in 0..MaxReplays
    /\ archiveError \in BOOLEAN

\* "All archives are replayed in LSN order before normal WAL operations resume"
\* (ledger-sync-protocol.ts).  The code breaks it in a single life with a single
\* caller: when a segment's archive cannot be written, spillToArchive() goes on to
\* archive and remove the later ones, so that the older segment is the last of the
\* window and takes new records, and a replay hands these over before those of the
\* archives in between (replayFromArchive).
ReplaysInLsnOrder ==
    \A j, k \in 1..Len(replayed) : j < k => replayed[j] < replayed[k]

\* The records that one caller appends one after the other are replayed in LSN order,
\* each once, whatever spills and trims overlap with the replay and whatever else
\* fails, until a restart or an 'archiveError' (spillToArchive, replayFromArchive).
\* A restart numbers the segments from one again, and the archives of the life before
\* are replayed between those of this one.
ReplayAscends == crashes = 0 /\ ~archiveError => ReplaysInLsnOrder

\* While the mark is frozen it moves only to a record that the present replay
\* has handed over: neither the timer nor the record count gets through
\* ("in partition mode the watermark will NOT advance", AckWatermark.setPartitionMode).
FrozenMarkFollowsReplay ==
    [][frozen /\ watermark' # watermark /\ crashes' = crashes =>
          watermark' \in ToSet(replayed)]_ledgerVars

\* Between archives, and when the heal is signalled, the mark covers every record
\* of the archives handed over so far, unless the last of them was abandoned half
\* way (replayFromArchive).
MarkCoversReplayed ==
    (replay.pc \in {"read", "healed"} /\ replay.raw = <<>>) =>
        \A l \in ToSet(replayed) : l <= watermark

\* Whatever fails, a heal that has begun ends partition mode (checkPeers).
HealEndsPartitionMode == replay.pc # "idle" ~> ~partitionMode

LsnsOnDisk == UNION {LsnsIn(i) : i \in DOMAIN files}
LsnsArchived == UNION {ToSet(archives[i]) : i \in DOMAIN archives}

\* "Segments older than ARCHIVE_SPILL_AGE_MS are compressed ... and moved to
\* ARCHIVE_DIR" (ledger-sync-protocol.ts): with a window too large to trim,
\* a record whose append() returned true is in a segment file or in the archive.
\* The code breaks it: the active segment is spilled with an append under way.
SpillKeepsRecords == returned \subseteq LsnsOnDisk \union LsnsArchived
=============================================================================
