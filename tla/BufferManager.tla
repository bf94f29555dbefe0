--------------------------- MODULE BufferManager ----------------------------
(***************************************************************************)
(* The LRU page cache of crates/engine/src/disk/buffer.rs over the heap    *)
(* file of heap.rs, driven as append_via_buffer (disk/mod.rs) drives it:   *)
(* a page is changed through the reference get_page returned and then      *)
(* marked dirty, before any other call, and the first error ends the use   *)
(* of the pool: checkpoint returns it and drops the buffer manager.        *)
(*                                                                         *)
(* resident, frame, dirty and used are the fields of the pool; frame and   *)
(* used are Blank and 0 for pages that are not resident.                   *)
(***************************************************************************)
EXTENDS Naturals, FiniteSets

CONSTANTS
    Contents,       \* what a page can hold
    Blank,          \* an empty page
    Capacity,       \* frames in the pool
    MaxPages,       \* bound: pages of the file
    MaxClock        \* bound: accesses of a behaviour

ASSUME BufferAssumption ==
    /\ Blank \in Contents
    /\ Capacity \in Nat \ {0}
    /\ MaxPages \in Nat /\ MaxClock \in Nat

VARIABLES
    count,          \* heap.page_count
    disk,           \* the pages of the file as the process sees it
    synced,         \* the pages of the file as of the last fsync
    resident, frame, dirty, used,
    clock,
    failed,         \* an error was returned
    parity          \* history: parity of the number of edits

vars == <<count, disk, synced, resident, frame, dirty, used, clock, failed,
          parity>>

PageNos == 0..(MaxPages - 1)

\* The pool, the file and the clock keep their types; only resident pages are
\* dirty.
TypeOK ==
    /\ count \in 0..MaxPages
    /\ disk \in [PageNos -> Contents] /\ synced \in [PageNos -> Contents]
    /\ resident \subseteq PageNos /\ dirty \subseteq resident
    /\ frame \in [PageNos -> Contents]
    /\ used \in [PageNos -> Nat]
    /\ clock \in Nat /\ failed \in BOOLEAN /\ parity \in {0, 1}

Init ==
    /\ count = 0 /\ clock = 0 /\ failed = FALSE /\ parity = 0
    /\ disk = [p \in PageNos |-> Blank]
    /\ synced = [p \in PageNos |-> Blank]
    /\ resident = {} /\ dirty = {}
    /\ frame = [p \in PageNos |-> Blank]
    /\ used = [p \in PageNos |-> 0]

-----------------------------------------------------------------------------
\* min_by_key over the ticks.
IsVictim(v) == v \in resident /\ \A q \in resident : used[v] <= used[q]

IsFull == Cardinality(resident) >= Capacity

\* MUTANT of Written: a dirty victim is not written.
Unwritten(d, v) == d

\* evict_one writes a dirty victim to the file d.
Written(d, v) == IF v \in dirty THEN [d EXCEPT ![v] = frame[v]] ELSE d

Undirtied(v) == dirty \ {v}

Stamped(p) == [used EXCEPT ![p] = clock']

\* admit when there is room: page p enters with content c.
AdmitFree(p, c, d, isDirty) ==
    /\ ~IsFull
    /\ disk' = d /\ failed' = FALSE
    /\ resident' = resident \cup {p}
    /\ dirty' = IF isDirty THEN dirty \cup {p} ELSE dirty
    /\ frame' = [frame EXCEPT ![p] = c]
    /\ used' = Stamped(p)

\* admit after evict_one.
AdmitEvict(p, c, d, isDirty) ==
    /\ IsFull
    /\ \E v \in resident :
          /\ IsVictim(v)
          /\ disk' = Written(d, v)
          /\ resident' = (resident \ {v}) \cup {p}
          /\ dirty' = IF isDirty THEN Undirtied(v) \cup {p} ELSE Undirtied(v)
          /\ frame' = [frame EXCEPT ![v] = Blank, ![p] = c]
          /\ used' = [Stamped(p) EXCEPT ![v] = 0]
    /\ failed' = FALSE

\* admit when the write of a dirty victim fails: the victim has already left
\* the pool, and the new page does not enter.
AdmitFails(d) ==
    /\ IsFull
    /\ \E v \in dirty :
          /\ IsVictim(v)
          /\ resident' = resident \ {v} /\ dirty' = Undirtied(v)
          /\ frame' = [frame EXCEPT ![v] = Blank]
          /\ used' = [used EXCEPT ![v] = 0]
    /\ disk' = d /\ failed' = TRUE

Admit(p, c, d, isDirty) ==
    \/ AdmitFree(p, c, d, isDirty)
    \/ AdmitEvict(p, c, d, isDirty)
    \/ AdmitFails(d)

\* get_page of a resident page.
Hit(p) ==
    /\ ~failed /\ p \in resident
    /\ clock < MaxClock /\ clock' = clock + 1
    /\ used' = Stamped(p)
    /\ UNCHANGED <<count, disk, synced, resident, frame, dirty, failed, parity>>

\* get_page of a page that has to be read; admit ticks a second time.
Miss(p) ==
    /\ ~failed /\ p < count /\ p \notin resident
    /\ clock < MaxClock /\ clock' = clock + 2
    /\ Admit(p, disk[p], disk, FALSE)
    /\ UNCHANGED <<count, synced, parity>>

\* new_page writes an empty page to the file and admits it dirty.
NewPage ==
    /\ ~failed /\ count < MaxPages
    /\ clock < MaxClock /\ clock' = clock + 1
    /\ Admit(count, Blank, [disk EXCEPT ![count] = Blank], TRUE)
    /\ count' = count + 1
    /\ UNCHANGED <<synced, parity>>

MarkDirty(p) == dirty \cup {p}

\* A tuple is inserted through the reference that get_page returned, and the
\* page is marked.
Modify(p, c) ==
    /\ ~failed /\ p \in resident /\ used[p] = clock
    /\ frame' = [frame EXCEPT ![p] = c]
    /\ dirty' = MarkDirty(p)
    /\ parity' = 1 - parity
    /\ UNCHANGED <<count, disk, synced, resident, used, clock, failed>>

\* flush_all: every dirty page is written, then the file is synced.
FlushAll ==
    /\ ~failed
    /\ disk' = [p \in PageNos |-> IF p \in dirty THEN frame[p] ELSE disk[p]]
    /\ dirty' = {}
    /\ synced' = disk'
    /\ UNCHANGED <<count, resident, frame, used, clock, failed, parity>>

\* flush_all fails, in a write or in the sync: the pages of done were written
\* and are clean, the others stay dirty.
FlushFails(done) ==
    /\ ~failed /\ failed' = TRUE
    /\ disk' = [p \in PageNos |-> IF p \in done THEN frame[p] ELSE disk[p]]
    /\ dirty' = dirty \ done
    /\ UNCHANGED <<count, synced, resident, frame, used, clock, parity>>

Next ==
    \/ \E p \in PageNos : Hit(p) \/ Miss(p)
    \/ \E p \in PageNos, c \in Contents : Modify(p, c)
    \/ \E done \in SUBSET dirty : FlushFails(done)
    \/ NewPage \/ FlushAll

Spec == Init /\ [][Next]_vars

-----------------------------------------------------------------------------
(* Properties *)

\* The pool never holds more than Capacity pages.
PoolBounded == Cardinality(resident) <= Capacity

\* A page that is resident and not dirty equals its page of the file, so that
\* dropping it loses nothing.
CleanIsCurrent == \A p \in resident \ dirty : frame[p] = disk[p]

\* What the caller sees in page p: its frame, else the file.
View == [p \in PageNos |-> IF p \in resident THEN frame[p] ELSE disk[p]]

\* After an error nothing is promised of the pages.
Shown == IF failed THEN [p \in PageNos |-> Blank] ELSE View

Store == INSTANCE PageStore WITH view <- Shown, saved <- synced

\* The cache is invisible: a page shows what was last put in it, also after it
\* was evicted and read again, and flush_all makes all of it durable.  Until
\* the first error no edit is lost, and an error leaves what was flushed.
CacheIsInvisible == Store!Spec
=============================================================================
