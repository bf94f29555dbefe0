----------------------------- MODULE PhysicalWal -----------------------------
(***************************************************************************)
(* The physical WAL of crates/engine/src/disk/pwal.rs: records with        *)
(* increasing LSNs in numbered segment files, a rollover when a segment is *)
(* full, truncation of the segments before a checkpoint, and what open     *)
(* finds after a crash.                                                    *)
(*                                                                         *)
(* A segment is a sequence of entries: whole records, and the fragments    *)
(* that crashes left.  A reader of a segment stops at the first fragment   *)
(* (its length runs past the end or its crc fails).  Sizes are in units    *)
(* chosen by the instance.  A crash loses any part of what was not synced; *)
(* that a created file stays in its directory is assumed.                  *)
(***************************************************************************)
EXTENDS Naturals, Sequences, SequencesExt, FiniteSets, FiniteSetsExt

CONSTANTS
    SegmentSize,    \* SEGMENT_SIZE
    Sizes,          \* sizes of encoded records in use
    MaxRecords,     \* bound: records of a behaviour
    WalCrashes      \* bound: crashes of a behaviour

ASSUME PhysicalWalAssumption ==
    /\ SegmentSize \in Nat \ {0}
    /\ Sizes \subseteq Nat \ {0}
    /\ MaxRecords \in Nat /\ WalCrashes \in Nat

VARIABLES
    files,          \* files[n]: the entries of segment n, for segments on disk
    syncedEntries,  \* how many entries of the last segment are known durable
    up,             \* whether the log is open
    currentSeg, currentBytes, nextLsn,
    appended,       \* history: number of appends
    removing,       \* segments that truncate_before has still to delete
    walCrashes,
    durable         \* history: records that could be read when a sync
                    \*          returned and that no truncation was told to drop

physicalVars == <<files, syncedEntries, up, currentSeg, currentBytes, nextLsn, appended,
          removing, walCrashes, durable>>

-----------------------------------------------------------------------------
\* serial tells apart two records that were given the same LSN.
WalRecord == [lsn : Nat, size : Sizes, serial : Nat]
Fragment == [lsn |-> 0, size |-> 1, serial |-> 0]

Segments == DOMAIN files
Size(entries) == FoldSeq(LAMBDA e, n : e.size + n, 0, entries)

\* read_segment: the entries before the first fragment.
GoodPrefix(entries) ==
    LET torn == SelectInSeq(entries, LAMBDA e : e = Fragment)
    IN  IF torn = 0 THEN entries ELSE SubSeq(entries, 1, torn - 1)

ReadSegment(n) == GoodPrefix(files[n])

\* The records that replay hands out.  It goes through the segments in ascending
\* order (list_segments) and through each from its start.
Replayed == UNION {Range(ReadSegment(n)) : n \in Segments}

\* An open log appends to a segment that exists, and truncate_before never
\* removes that one.
PhysicalTypeOK ==
    /\ Segments \subseteq Nat
    /\ \A n \in Segments : files[n] \in Seq(WalRecord \cup {Fragment})
    /\ up \in BOOLEAN
    /\ {syncedEntries, currentSeg, currentBytes, nextLsn, appended, walCrashes} \subseteq Nat
    /\ up => /\ currentSeg \in Segments
             /\ syncedEntries \in 0..Len(files[currentSeg])
    /\ removing \subseteq Segments \ {currentSeg}
    /\ durable \subseteq WalRecord

PhysicalInit ==
    /\ files = [n \in {0} |-> <<>>]
    /\ syncedEntries = 0 /\ up = TRUE
    /\ currentSeg = 0 /\ currentBytes = 0 /\ nextLsn = 1
    /\ appended = 0 /\ removing = {} /\ walCrashes = 0 /\ durable = {}

-----------------------------------------------------------------------------
Ready == up /\ removing = {}

\* MUTANT of Overflows: the record that overflows is still let in.
OverflowsLate(size) == currentBytes > SegmentSize

\* A segment always takes at least one record.
Overflows(size) == currentBytes > 0 /\ currentBytes + size > SegmentSize

\* The segment that the next record of this size goes to.  roll_segment syncs
\* the old segment before it opens the next one.
Target(size) == IF Overflows(size) THEN currentSeg + 1 ELSE currentSeg
Opened(n) == IF n \in Segments THEN files[n] ELSE <<>>
WithSegment(n, entries) ==
    [m \in Segments \cup {n} |-> IF m = n THEN entries ELSE files[m]]

Rolled(size) ==
    /\ currentSeg' = Target(size)
    /\ syncedEntries' = IF Overflows(size) THEN 0 ELSE syncedEntries

AppendRecord(size) ==
    /\ Ready /\ appended < MaxRecords
    /\ LET n == Target(size)
           rec == [lsn |-> nextLsn, size |-> size, serial |-> appended + 1]
       IN  files' = WithSegment(n, Append(Opened(n), rec))
    /\ Rolled(size)
    /\ currentBytes' = size + (IF Overflows(size) THEN 0 ELSE currentBytes)
    /\ nextLsn' = nextLsn + 1
    /\ appended' = appended + 1
    /\ UNCHANGED <<up, removing, walCrashes, durable>>

\* write_all fails part way: the log stays open behind the fragment.
AppendFails(size) ==
    /\ Ready /\ appended < MaxRecords
    /\ LET n == Target(size)
       IN  files' = WithSegment(n, Append(Opened(n), Fragment))
    /\ Rolled(size)
    /\ currentBytes' = IF Overflows(size) THEN 0 ELSE currentBytes
    /\ appended' = appended + 1
    /\ UNCHANGED <<up, nextLsn, removing, walCrashes, durable>>

Sync ==
    /\ Ready
    /\ syncedEntries' = Len(files[currentSeg])
    /\ durable' = durable \cup Replayed
    /\ UNCHANGED <<files, up, currentSeg, currentBytes, nextLsn, appended,
                   removing, walCrashes>>

\* MUTANT of KeepFrom: the segment after the one that holds lsn.
KeepAfter(lsn) ==
    Min({currentSeg} \cup
        {n + 1 : n \in {m \in Segments : \E r \in Range(ReadSegment(m)) : r.lsn >= lsn}})

\* The first segment with a readable record at or after lsn, at most the
\* current one.
KeepFrom(lsn) ==
    Min({currentSeg} \cup
        {n \in Segments : \E r \in Range(ReadSegment(n)) : r.lsn >= lsn})

Removable(lsn) == {n \in Segments : n < KeepFrom(lsn) /\ n # currentSeg}

\* truncate_before, for the LSN of a record that was synced.
TruncateBefore(lsn) ==
    /\ Ready
    /\ \E r \in durable : r.lsn = lsn
    /\ removing' = Removable(lsn)
    /\ durable' = {r \in durable : r.lsn >= lsn}
    /\ UNCHANGED <<files, syncedEntries, up, currentSeg, currentBytes, nextLsn,
                   appended, walCrashes>>

\* The deletion loop of truncate_before, oldest segment first.
RemoveSegment ==
    /\ up /\ removing # {}
    /\ LET n == Min(removing)
       IN  /\ files' = Restrict(files, Segments \ {n})
           /\ removing' = removing \ {n}
    /\ UNCHANGED <<syncedEntries, up, currentSeg, currentBytes, nextLsn, appended,
                   walCrashes, durable>>

-----------------------------------------------------------------------------
\* A crash keeps the synced entries of the last segment, any prefix of the
\* others and, when one of them was lost, possibly a fragment of it.
CrashWal ==
    /\ up /\ walCrashes < WalCrashes
    /\ up' = FALSE /\ walCrashes' = walCrashes + 1
    /\ removing' = {}
    /\ \E k \in syncedEntries..Len(files[currentSeg]), torn \in BOOLEAN :
          LET kept == SubSeq(files[currentSeg], 1, k)
          IN  /\ torn => k < Len(files[currentSeg])
              /\ files' = [files EXCEPT ![currentSeg] =
                             IF torn THEN Append(kept, Fragment) ELSE kept]
    /\ UNCHANGED <<syncedEntries, currentSeg, currentBytes, nextLsn, appended, durable>>

\* MUTANT of LastLsn: only the last segment is looked at.
LastLsnOfTail ==
    Max({0} \cup {r.lsn : r \in Range(ReadSegment(Max(Segments)))})

\* The largest LSN that can be read.
LastLsn == Max({0} \cup {r.lsn : r \in Replayed})

\* open resumes in the highest segment, after the largest LSN; the tail of the
\* file is not cut off.
Open ==
    /\ ~up
    /\ up' = TRUE
    /\ currentSeg' = Max(Segments)
    /\ currentBytes' = Size(files[Max(Segments)])
    /\ syncedEntries' = Len(files[Max(Segments)])
    /\ nextLsn' = LastLsn + 1
    /\ UNCHANGED <<files, appended, removing, walCrashes, durable>>

PhysicalNext ==
    \/ \E size \in Sizes : AppendRecord(size) \/ AppendFails(size)
    \/ Sync \/ RemoveSegment \/ CrashWal \/ Open
    \/ \E lsn \in 1..MaxRecords : TruncateBefore(lsn)

PhysicalSpec == PhysicalInit /\ [][PhysicalNext]_physicalVars

-----------------------------------------------------------------------------
(* Properties *)

\* A record that could be read when sync returned is found by every later
\* replay, until a truncation at a higher LSN: across rollovers, failed writes,
\* truncations that were cut short, crashes and reopens.
SyncedReplays == durable \subseteq Replayed

\* Replay hands out records in strictly increasing LSN order.
ReplayInLsnOrder ==
    \A m, n \in Segments :
        \A i \in DOMAIN ReadSegment(m), j \in DOMAIN ReadSegment(n) :
            m < n \/ (m = n /\ i < j) =>
                ReadSegment(m)[i].lsn < ReadSegment(n)[j].lsn

\* The next record is given an LSN that no record has that a sync made durable.
LsnsAreFresh == up => \A r \in durable : r.lsn < nextLsn

\* LSNs order the log over crashes and reopens: replay sees them increase, and
\* none that is durable is given out again.
LsnsOrderLog == ReplayInLsnOrder /\ LsnsAreFresh

\* Fragments aside, a segment is over its size only when a single record is.
SegmentsBounded ==
    \A n \in Segments :
        LET records == SelectSeq(files[n], LAMBDA e : e # Fragment)
        IN  Size(records) > SegmentSize => Len(records) = 1
=============================================================================
