-------------------------- MODULE PhysicalWalProofs --------------------------
(***************************************************************************)
(* Proofs about PhysicalWal, for every segment size, set of record sizes   *)
(* and number of records and crashes.                                      *)
(*                                                                         *)
(* The invariant follows a durable record to the place where it lies: a    *)
(* position of a segment with no fragment before it, which no truncation   *)
(* is about to remove and which, in the last segment, was synced.  LSNs    *)
(* grow along the places that a reader reaches, and the next one is larger *)
(* than all of them; a record behind a fragment is never read again, so    *)
(* its LSN may be given out twice.                                         *)
(***************************************************************************)
EXTENDS PhysicalWal, SequenceTheorems, WellFoundedInduction, TLAPS

Entry == WalRecord \cup {Fragment}

\* The positions of a segment that a reader gets to.
Reached(entries) ==
    {i \in 1..Len(entries) : \A k \in 1..i : entries[k] # Fragment}

\* The types, as far as the proofs need them; the open segment is the last one.
Types ==
    /\ Segments \subseteq Nat
    /\ \A n \in Segments : files[n] \in Seq(Entry)
    /\ currentSeg \in Segments /\ \A n \in Segments : n <= currentSeg
    /\ up \in BOOLEAN
    /\ syncedEntries \in Nat /\ nextLsn \in Nat /\ appended \in Nat
    /\ up => syncedEntries <= Len(files[currentSeg])
    /\ removing \subseteq Segments \ {currentSeg}
    /\ durable \subseteq WalRecord

\* Record r can be read at position i of segment n, and no crash or running
\* truncation can take it away.
SafeAt(r, n, i) ==
    /\ n \in Segments \ removing
    /\ i \in Reached(files[n]) /\ files[n][i] = r
    /\ up /\ n = currentSeg => i <= syncedEntries

DurableIsSafe == \A r \in durable : \E n \in Segments : \E i \in Nat : SafeAt(r, n, i)

\* Along the places that a reader gets to, LSNs grow ...
LsnsGrow ==
    \A m, n \in Segments : \A i \in Reached(files[m]), j \in Reached(files[n]) :
        m < n \/ (m = n /\ i < j) => files[m][i].lsn < files[n][j].lsn

\* ... and the next one is larger.
NextIsLarger ==
    \A n \in Segments : \A i \in Reached(files[n]) : files[n][i].lsn < nextLsn

PhysicalInv == Types /\ DurableIsSafe /\ LsnsGrow /\ NextIsLarger

-----------------------------------------------------------------------------
(* Least and largest elements *)

\* A set of naturals that is not empty has a least element.
LEMMA LeastElement ==
    ASSUME NEW S \in SUBSET Nat, S # {}
    PROVE  \E x \in S : \A y \in S : x <= y
  <1>1. \E x \in S : \A y \in S : ~(<<y, x>> \in OpToRel(<, Nat))
    BY NatLessThanWellFounded, WFMin
  <1>2. PICK x \in S : \A y \in S : ~(<<y, x>> \in {ss \in Nat \X Nat : ss[1] < ss[2]})
    BY <1>1 DEF OpToRel
  <1>3. ASSUME NEW y \in S PROVE x <= y
    <2>1. ~(y < x)
      BY <1>2
    <2> QED
      BY <2>1
  <1> QED
    BY <1>3

LEMMA MinIsLeast ==
    ASSUME NEW S \in SUBSET Nat, S # {}
    PROVE  Min(S) \in S /\ \A y \in S : Min(S) <= y
  BY LeastElement DEF Min

LEMMA MaxIsLargest ==
    ASSUME NEW S \in SUBSET Nat, NEW b \in S, \A x \in S : x <= b
    PROVE  Max(S) = b
  <1>1. \A y \in S : b >= y
    OBVIOUS
  <1>2. PICK m \in S : m = Max(S) /\ \A y \in S : m >= y
    BY <1>1 DEF Max
  <1>3. m >= b /\ m <= b /\ m \in Nat
    BY <1>2
  <1> QED
    BY <1>2, <1>3

\* A bounded set of naturals that is not empty has a largest element.
LEMMA LargestElement ==
    ASSUME NEW S \in SUBSET Nat, S # {}, NEW b \in Nat, \A x \in S : x <= b
    PROVE  \E m \in S : \A x \in S : x <= m
  <1> DEFINE Bounds == {c \in Nat : \A x \in S : x <= c}
  <1>1. Bounds \in SUBSET Nat /\ Bounds # {}
    BY DEF Bounds
  <1>2. PICK c \in Bounds : \A d \in Bounds : c <= d
    BY <1>1, LeastElement
  <1>3. c \in Nat /\ \A x \in S : x <= c
    BY <1>2
  <1>4. ASSUME c \notin S PROVE FALSE
    <2>1. \A x \in S : x < c
      BY <1>3, <1>4
    <2>2. c - 1 \in Nat /\ \A x \in S : x <= c - 1
      <3>1. PICK y \in S : TRUE
        OBVIOUS
      <3>2. c - 1 \in Nat
        BY <1>3, <2>1, <3>1
      <3> QED
        BY <1>3, <2>1, <3>2
    <2>3. c - 1 \in Bounds
      BY <2>2
    <2> QED
      BY <1>2, <1>3, <2>3
  <1> QED
    BY <1>3, <1>4

-----------------------------------------------------------------------------
(* What a reader of a segment gets *)

LEMMA ReadsReached ==
    ASSUME NEW entries \in Seq(Entry)
    PROVE  /\ DOMAIN GoodPrefix(entries) = Reached(entries)
           /\ \A i \in Reached(entries) : GoodPrefix(entries)[i] = entries[i]
  <1> DEFINE torn == {i \in 1..Len(entries) : entries[i] = Fragment}
  <1>1. SelectInSeq(entries, LAMBDA e : e = Fragment) = IF torn # {} THEN Min(torn) ELSE 0
    BY DEF SelectInSeq
  <1>2. PICK len \in Nat : len = Len(entries) /\ DOMAIN entries = 1..len
    OBVIOUS
  <1>3. CASE torn = {}
    <2>1. GoodPrefix(entries) = entries
      BY <1>1, <1>3 DEF GoodPrefix
    <2>2. Reached(entries) = 1..len
      BY <1>2, <1>3 DEF Reached
    <2> QED
      BY <1>2, <2>1, <2>2
  <1>4. CASE torn # {}
    <2>1. PICK t \in torn : t = Min(torn) /\ \A y \in torn : t <= y
      <3>1. torn \in SUBSET Nat
        OBVIOUS
      <3> HIDE DEF torn
      <3> QED
        BY <1>4, <3>1, MinIsLeast
    <2>2. t \in 1..len /\ entries[t] = Fragment /\ t # 0
      BY <1>2, <2>1
    <2>3. GoodPrefix(entries) = SubSeq(entries, 1, t - 1)
      BY <1>1, <1>4, <2>1, <2>2 DEF GoodPrefix
    <2>4. Reached(entries) = 1..(t - 1)
      <3>1. ASSUME NEW i \in Reached(entries) PROVE i \in 1..(t - 1)
        BY <1>2, <2>2 DEF Reached
      <3>2. ASSUME NEW i \in 1..(t - 1) PROVE i \in Reached(entries)
        <4>1. ASSUME NEW k \in 1..i, entries[k] = Fragment PROVE FALSE
          BY <1>2, <2>1, <2>2, <4>1
        <4> QED
          BY <1>2, <2>2, <4>1 DEF Reached
      <3> QED
        BY <3>1, <3>2
    <2>5. /\ DOMAIN SubSeq(entries, 1, t - 1) = 1..(t - 1)
          /\ \A i \in 1..(t - 1) : SubSeq(entries, 1, t - 1)[i] = entries[i]
      BY <1>2, <2>2
    <2> QED
      BY <2>3, <2>4, <2>5
  <1> QED
    BY <1>3, <1>4

\* The records of a replay are those that lie where a reader gets to.
LEMMA ReplayedReached ==
    ASSUME Types, NEW r
    PROVE  r \in Replayed <=> \E n \in Segments : \E i \in Reached(files[n]) : files[n][i] = r
  <1>1. \A n \in Segments : Range(ReadSegment(n)) = {files[n][i] : i \in Reached(files[n])}
    BY ReadsReached DEF Types, ReadSegment, Range
  <1> QED
    BY <1>1 DEF Replayed

\* What a reader gets has an LSN.
LEMMA LsnIsNat ==
    ASSUME Types, NEW n \in Segments, NEW i \in Reached(files[n])
    PROVE  files[n][i] \in WalRecord /\ files[n][i].lsn \in Nat
  <1>1. files[n] \in Seq(Entry) /\ i \in 1..Len(files[n]) /\ files[n][i] # Fragment
    BY DEF Types, Reached
  <1>2. files[n][i] \in Entry
    BY <1>1, ElementOfSeq
  <1> QED
    BY <1>1, <1>2 DEF Entry, WalRecord

\* A reader gets as far as before into a longer segment, and to the new entry
\* only if that is a whole record and nothing before it is torn.
LEMMA ReachedOfAppend ==
    ASSUME NEW s \in Seq(Entry), NEW e \in Entry
    PROVE  /\ \A i \in Reached(s) : i \in Reached(Append(s, e)) /\ Append(s, e)[i] = s[i]
           /\ \A i \in Reached(Append(s, e)) :
                 \/ i \in Reached(s) /\ Append(s, e)[i] = s[i]
                 \/ i = Len(s) + 1 /\ e # Fragment /\ Append(s, e)[i] = e
  <1>1. PICK len \in Nat : len = Len(s)
    OBVIOUS
  <1>2. /\ Len(Append(s, e)) = len + 1 /\ Append(s, e)[len + 1] = e
        /\ \A i \in 1..len : Append(s, e)[i] = s[i]
    BY <1>1
  <1>3. ASSUME NEW i \in Reached(s)
        PROVE  i \in Reached(Append(s, e)) /\ Append(s, e)[i] = s[i]
    BY <1>1, <1>2 DEF Reached
  <1>4. ASSUME NEW i \in Reached(Append(s, e))
        PROVE  \/ i \in Reached(s) /\ Append(s, e)[i] = s[i]
               \/ i = len + 1 /\ e # Fragment /\ Append(s, e)[i] = e
    <2>1. i \in 1..(len + 1) /\ \A k \in 1..i : Append(s, e)[k] # Fragment
      BY <1>2 DEF Reached
    <2>2. CASE i = len + 1
      BY <1>2, <2>1, <2>2
    <2>3. CASE i \in 1..len
      <3>1. \A k \in 1..i : s[k] # Fragment
        BY <1>2, <2>1, <2>3
      <3> QED
        BY <1>1, <1>2, <2>3, <3>1 DEF Reached
    <2>4. i = len + 1 \/ i \in 1..len
      BY <2>1
    <2> QED
      BY <2>2, <2>3, <2>4
  <1> QED
    BY <1>1, <1>3, <1>4

\* A reader of a shorter segment gets to nothing else, and to all that is left
\* of what it got to.
LEMMA ReachedOfPrefix ==
    ASSUME NEW s \in Seq(Entry), NEW k \in 0..Len(s)
    PROVE  /\ SubSeq(s, 1, k) \in Seq(Entry) /\ Len(SubSeq(s, 1, k)) = k
           /\ \A i \in Reached(SubSeq(s, 1, k)) : i \in Reached(s) /\ SubSeq(s, 1, k)[i] = s[i]
           /\ \A i \in Reached(s) :
                 i <= k => i \in Reached(SubSeq(s, 1, k)) /\ SubSeq(s, 1, k)[i] = s[i]
  <1>1. /\ SubSeq(s, 1, k) \in Seq(Entry) /\ Len(SubSeq(s, 1, k)) = k
        /\ \A i \in 1..k : SubSeq(s, 1, k)[i] = s[i]
    <2>1. \A i \in 1..k : s[i] \in Entry
      BY ElementOfSeq
    <2>2. k \in Nat
      OBVIOUS
    <2>3. /\ SubSeq(s, 1, k) \in Seq(Entry)
          /\ Len(SubSeq(s, 1, k)) = IF 1 <= k THEN k - 1 + 1 ELSE 0
          /\ \A i \in 1..(k - 1 + 1) : SubSeq(s, 1, k)[i] = s[1 + i - 1]
      BY <2>1, <2>2, SubSeqProperties
    <2> QED
      BY <2>2, <2>3
  <1>2. ASSUME NEW i \in Reached(SubSeq(s, 1, k))
        PROVE  i \in Reached(s) /\ SubSeq(s, 1, k)[i] = s[i]
    <2>1. i \in 1..k /\ \A m \in 1..i : SubSeq(s, 1, k)[m] # Fragment
      BY <1>1 DEF Reached
    <2>2. i \in 1..Len(s) /\ \A m \in 1..i : m \in 1..k
      BY <2>1
    <2> QED
      BY <1>1, <2>1, <2>2 DEF Reached
  <1>3. ASSUME NEW i \in Reached(s), i <= k
        PROVE  i \in Reached(SubSeq(s, 1, k)) /\ SubSeq(s, 1, k)[i] = s[i]
    BY <1>1, <1>3 DEF Reached
  <1> QED
    BY <1>1, <1>2, <1>3

-----------------------------------------------------------------------------
(* The steps *)

LEMMA PhysicalInvInit == PhysicalInit => PhysicalInv
  <1> SUFFICES ASSUME PhysicalInit PROVE PhysicalInv
    OBVIOUS
  <1>1. Segments = {0} /\ files[0] = <<>> /\ Reached(files[0]) = {}
    BY DEF PhysicalInit, Segments, Reached
  <1>2. Types
    BY <1>1 DEF PhysicalInit, Types
  <1>3. DurableIsSafe /\ LsnsGrow /\ NextIsLarger
    BY <1>1 DEF PhysicalInit, DurableIsSafe, LsnsGrow, NextIsLarger
  <1> QED
    BY <1>2, <1>3 DEF PhysicalInv

\* Where an entry goes: into the last segment, or into a new one behind it.
LEMMA TargetFacts ==
    ASSUME Types, NEW size \in Sizes
    PROVE  /\ Target(size) \in Nat /\ Opened(Target(size)) \in Seq(Entry)
           /\ \A n \in Segments : n <= Target(size)
           /\ \/ Target(size) = currentSeg /\ Opened(Target(size)) = files[currentSeg]
              \/ /\ Target(size) = currentSeg + 1 /\ Target(size) \notin Segments
                 /\ Opened(Target(size)) = <<>>
  <1>1. currentSeg \in Nat /\ \A n \in Segments : n \in Nat /\ n <= currentSeg
    BY DEF Types
  <1>2. CASE Overflows(size)
    <2>1. Target(size) = currentSeg + 1
      BY <1>2 DEF Target
    <2>2. currentSeg + 1 \notin Segments
      BY <1>1
    <2>3. Opened(Target(size)) = <<>>
      BY <2>1, <2>2 DEF Opened
    <2>4. <<>> \in Seq(Entry)
      OBVIOUS
    <2>5. currentSeg + 1 \in Nat /\ \A n \in Segments : n <= currentSeg + 1
      BY <1>1
    <2> QED
      BY <2>1, <2>2, <2>3, <2>4, <2>5
  <1>3. CASE ~Overflows(size)
    <2>1. Target(size) = currentSeg
      BY <1>3 DEF Target
    <2>2. Opened(Target(size)) = files[currentSeg] /\ files[currentSeg] \in Seq(Entry)
      BY <2>1 DEF Opened, Types
    <2> QED
      BY <1>1, <2>1, <2>2
  <1> QED
    BY <1>2, <1>3

\* An entry e at the end of the log: a fragment, or a record with the next LSN.
LEMMA AppendInv ==
    ASSUME PhysicalInv, NEW size \in Sizes, NEW e \in Entry, up,
           files' = WithSegment(Target(size), Append(Opened(Target(size)), e)),
           Rolled(size),
           nextLsn' \in Nat, nextLsn <= nextLsn', appended' \in Nat,
           e # Fragment => e.lsn = nextLsn /\ nextLsn < nextLsn',
           UNCHANGED <<up, removing, durable>>
    PROVE  PhysicalInv'
  <1>0. Types /\ DurableIsSafe /\ LsnsGrow /\ NextIsLarger
    BY DEF PhysicalInv
  <1>1. PICK T \in Nat, old \in Seq(Entry) :
           /\ T = Target(size) /\ old = Opened(T)
           /\ \A n \in Segments : n <= T
           /\ \/ T = currentSeg /\ old = files[currentSeg]
              \/ T = currentSeg + 1 /\ T \notin Segments /\ old = <<>>
    BY <1>0, TargetFacts
  <1>2. /\ Segments' = Segments \cup {T} /\ files'[T] = Append(old, e)
        /\ \A n \in Segments : n # T => files'[n] = files[n]
        /\ T \in Segments => T = currentSeg /\ old = files[T]
    BY <1>0, <1>1 DEF WithSegment, Segments, Types
  <1>3. /\ currentSeg' = T
        /\ \/ T = currentSeg /\ syncedEntries' = syncedEntries
           \/ T = currentSeg + 1 /\ syncedEntries' = 0
    <2>1. currentSeg \in Nat
      BY <1>0 DEF Types
    <2> QED
      BY <1>1, <2>1 DEF Rolled, Target
  <1>4. Append(old, e) \in Seq(Entry) /\ Len(Append(old, e)) = Len(old) + 1 /\ Len(old) \in Nat
    BY <1>1
  <1>reach. /\ \A i \in Reached(old) : i \in Reached(files'[T]) /\ files'[T][i] = old[i]
        /\ \A i \in Reached(files'[T]) :
              \/ i \in Reached(old) /\ files'[T][i] = old[i]
              \/ i = Len(old) + 1 /\ e # Fragment /\ files'[T][i] = e
    <2>1. /\ \A i \in Reached(old) : i \in Reached(Append(old, e)) /\ Append(old, e)[i] = old[i]
          /\ \A i \in Reached(Append(old, e)) :
                \/ i \in Reached(old) /\ Append(old, e)[i] = old[i]
                \/ i = Len(old) + 1 /\ e # Fragment /\ Append(old, e)[i] = e
      BY ReachedOfAppend
    <2>2. files'[T] = Append(old, e)
      BY <1>2
    <2> QED
      BY <2>1, <2>2, Zenon
  <1>5. ASSUME NEW n \in Segments, NEW i \in Reached(files[n])
        PROVE  i \in Reached(files'[n]) /\ files'[n][i] = files[n][i]
    BY <1>2, <1>reach
  <1>6. ASSUME NEW n \in Segments', NEW i \in Reached(files'[n])
        PROVE  \/ n \in Segments /\ i \in Reached(files[n]) /\ files'[n][i] = files[n][i]
               \/ n = T /\ i = Len(old) + 1 /\ e # Fragment /\ files'[n][i] = e
    <2>1. CASE n # T
      BY <1>2, <2>1
    <2>2. CASE n = T
      <3>1. \/ i \in Reached(old) /\ files'[n][i] = old[i]
            \/ i = Len(old) + 1 /\ e # Fragment /\ files'[n][i] = e
        BY <1>reach, <2>2
      <3>2. T \notin Segments => Reached(old) = {}
        <4>1. T \notin Segments => old = <<>>
          BY <1>0, <1>1 DEF Types
        <4>2. Reached(<<>>) = {}
          BY DEF Reached
        <4> QED
          BY <4>1, <4>2
      <3> QED
        BY <1>2, <2>2, <3>1, <3>2
    <2> QED
      BY <2>1, <2>2
  <1>7. Types'
    <2>1. Segments' \subseteq Nat /\ \A n \in Segments' : files'[n] \in Seq(Entry)
      <3>1. Segments \subseteq Nat /\ \A n \in Segments : files[n] \in Seq(Entry)
        BY <1>0 DEF Types
      <3> QED
        BY <1>2, <1>4, <3>1
    <2>2. currentSeg' \in Segments' /\ \A n \in Segments' : n <= currentSeg'
      BY <1>1, <1>2, <1>3
    <2>3. syncedEntries' \in Nat /\ syncedEntries' <= Len(files'[currentSeg'])
      BY <1>0, <1>1, <1>2, <1>3, <1>4 DEF Types
    <2>4. removing' \subseteq Segments' \ {currentSeg'}
      BY <1>0, <1>1, <1>2, <1>3 DEF Types
    <2> QED
      BY <1>0, <2>1, <2>2, <2>3, <2>4 DEF Types
  <1>8. DurableIsSafe'
    <2> SUFFICES ASSUME NEW r \in durable
                 PROVE  \E n \in Segments' : \E i \in Nat : SafeAt(r, n, i)'
      BY DEF DurableIsSafe
    <2>1. PICK n \in Segments, i \in Nat : SafeAt(r, n, i)
      BY <1>0 DEF DurableIsSafe
    <2>2. n \in Segments' \ removing' /\ i \in Reached(files'[n]) /\ files'[n][i] = r
      BY <1>2, <1>5, <2>1 DEF SafeAt
    <2>3. n = currentSeg' => i <= syncedEntries'
      BY <1>1, <1>3, <2>1 DEF SafeAt
    <2> QED
      BY <2>2, <2>3 DEF SafeAt
  <1>9. LsnsGrow'
    <2> SUFFICES ASSUME NEW m \in Segments', NEW n \in Segments',
                        NEW i \in Reached(files'[m]), NEW j \in Reached(files'[n]),
                        m < n \/ (m = n /\ i < j)
                 PROVE  files'[m][i].lsn < files'[n][j].lsn
      BY DEF LsnsGrow
    <2>1. m \in Nat /\ n \in Nat /\ m <= T /\ n <= T
      <3>1. Segments \subseteq Nat
        BY <1>0 DEF Types
      <3>2. \A k \in Segments' : k \in Nat /\ k <= T
        BY <1>1, <1>2, <3>1
      <3> QED
        BY <3>2
    <2>2. CASE n \in Segments /\ j \in Reached(files[n]) /\ files'[n][j] = files[n][j]
      <3>1. ~(m = T /\ i = Len(old) + 1)
        <4>1. n = T => j \in 1..Len(old)
          BY <1>2, <2>2 DEF Reached
        <4> QED
          BY <1>4, <2>1, <4>1
      <3>2. m \in Segments /\ i \in Reached(files[m]) /\ files'[m][i] = files[m][i]
        BY <1>6, <3>1
      <3> QED
        BY <1>0, <2>2, <3>2 DEF LsnsGrow
    <2>3. CASE n = T /\ j = Len(old) + 1 /\ e # Fragment /\ files'[n][j] = e
      <3>1. ~(m = T /\ i = Len(old) + 1)
        BY <1>4, <2>1, <2>3
      <3>2. m \in Segments /\ i \in Reached(files[m]) /\ files'[m][i] = files[m][i]
        BY <1>6, <3>1
      <3> QED
        BY <1>0, <2>3, <3>2 DEF NextIsLarger
    <2> QED
      BY <1>6, <2>2, <2>3
  <1>10. NextIsLarger'
    <2> SUFFICES ASSUME NEW n \in Segments', NEW i \in Reached(files'[n])
                 PROVE  files'[n][i].lsn < nextLsn'
      BY DEF NextIsLarger
    <2>1. CASE n \in Segments /\ i \in Reached(files[n]) /\ files'[n][i] = files[n][i]
      <3>1. files[n][i].lsn \in Nat /\ files[n][i].lsn < nextLsn /\ nextLsn \in Nat
        BY <1>0, <2>1, LsnIsNat DEF NextIsLarger, Types
      <3> QED
        BY <2>1, <3>1
    <2>2. CASE e # Fragment /\ files'[n][i] = e
      BY <2>2
    <2> QED
      BY <1>6, <2>1, <2>2
  <1> QED
    BY <1>7, <1>8, <1>9, <1>10 DEF PhysicalInv

LEMMA AppendRecordInv ==
    ASSUME PhysicalInv, NEW size \in Sizes, AppendRecord(size)
    PROVE  PhysicalInv'
  <1> DEFINE rec == [lsn |-> nextLsn, size |-> size, serial |-> appended + 1]
  <1>1. nextLsn \in Nat /\ appended \in Nat
    BY DEF PhysicalInv, Types
  <1>2. rec \in Entry
    BY <1>1 DEF Entry, WalRecord
  <1>3. /\ up /\ Rolled(size)
        /\ files' = WithSegment(Target(size), Append(Opened(Target(size)), rec))
        /\ nextLsn' = nextLsn + 1 /\ appended' = appended + 1
        /\ UNCHANGED <<up, removing, durable>>
    BY DEF AppendRecord, Ready
  <1>4. rec.lsn = nextLsn
    OBVIOUS
  <1> HIDE DEF rec
  <1>5. /\ nextLsn' \in Nat /\ nextLsn <= nextLsn' /\ nextLsn < nextLsn' /\ appended' \in Nat
    BY <1>1, <1>3
  <1> QED
    BY <1>2, <1>3, <1>4, <1>5, AppendInv

LEMMA AppendFailsInv ==
    ASSUME PhysicalInv, NEW size \in Sizes, AppendFails(size)
    PROVE  PhysicalInv'
  <1>1. nextLsn \in Nat /\ appended \in Nat /\ Fragment \in Entry
    BY DEF PhysicalInv, Types, Entry
  <1>2. /\ up /\ Rolled(size)
        /\ files' = WithSegment(Target(size), Append(Opened(Target(size)), Fragment))
        /\ nextLsn' = nextLsn /\ appended' = appended + 1
        /\ UNCHANGED <<up, removing, durable>>
    BY DEF AppendFails, Ready
  <1>3. nextLsn' \in Nat /\ nextLsn <= nextLsn' /\ appended' \in Nat
    BY <1>1, <1>2
  <1> QED
    BY <1>1, <1>2, <1>3, AppendInv

\* After a sync, all that a reader gets to is synced.
LEMMA SyncInv ==
    ASSUME PhysicalInv, Sync
    PROVE  PhysicalInv'
  <1>0. Types /\ DurableIsSafe /\ LsnsGrow /\ NextIsLarger
    BY DEF PhysicalInv
  <1>1. /\ up /\ removing = {}
        /\ syncedEntries' = Len(files[currentSeg]) /\ durable' = durable \cup Replayed
        /\ UNCHANGED <<files, up, currentSeg, nextLsn, appended, removing>>
        /\ Segments' = Segments
    BY DEF Sync, Ready, Segments
  <1>2. files[currentSeg] \in Seq(Entry) /\ syncedEntries' \in Nat
    BY <1>0, <1>1 DEF Types
  <1>3. ASSUME NEW r \in durable'
        PROVE  \E n \in Segments : \E i \in Reached(files[n]) : files[n][i] = r
    <2>1. CASE r \in Replayed
      BY <1>0, <2>1, ReplayedReached
    <2>2. CASE r \in durable
      BY <1>0, <2>2 DEF DurableIsSafe, SafeAt
    <2> QED
      BY <1>1, <2>1, <2>2
  <1>4. Types'
    <2>1. durable' \subseteq WalRecord
      BY <1>0, <1>3, LsnIsNat
    <2> QED
      BY <1>0, <1>1, <1>2, <2>1 DEF Types
  <1>5. DurableIsSafe'
    <2> SUFFICES ASSUME NEW r \in durable'
                 PROVE  \E n \in Segments : \E i \in Nat : SafeAt(r, n, i)'
      BY <1>1 DEF DurableIsSafe
    <2>1. PICK n \in Segments : \E i \in Reached(files[n]) : files[n][i] = r
      BY <1>3
    <2>2. PICK i \in Reached(files[n]) : files[n][i] = r
      BY <2>1
    <2>3. i \in Nat /\ i \in 1..Len(files[n])
      BY DEF Reached
    <2>4. SafeAt(r, n, i)'
      BY <1>1, <1>2, <2>2, <2>3 DEF SafeAt
    <2> QED
      BY <2>3, <2>4
  <1>6. LsnsGrow' /\ NextIsLarger'
    BY <1>0, <1>1 DEF LsnsGrow, NextIsLarger
  <1> QED
    BY <1>4, <1>5, <1>6 DEF PhysicalInv

\* A truncation keeps every segment that holds a record it is to keep.
LEMMA TruncateInv ==
    ASSUME PhysicalInv, NEW lsn \in Nat, TruncateBefore(lsn)
    PROVE  PhysicalInv'
  <1>0. Types /\ DurableIsSafe /\ LsnsGrow /\ NextIsLarger
    BY DEF PhysicalInv
  <1>1. /\ up /\ removing = {}
        /\ removing' = Removable(lsn) /\ durable' = {r \in durable : r.lsn >= lsn}
        /\ UNCHANGED <<files, syncedEntries, up, currentSeg, nextLsn, appended>>
        /\ Segments' = Segments
    BY DEF TruncateBefore, Ready, Segments
  <1>2. Types'
    BY <1>0, <1>1 DEF Types, Removable
  <1>3. DurableIsSafe'
    <2> SUFFICES ASSUME NEW r \in durable, r.lsn >= lsn
                 PROVE  \E n \in Segments : \E i \in Nat : SafeAt(r, n, i)'
      BY <1>1 DEF DurableIsSafe
    <2>1. PICK n \in Segments, i \in Nat : SafeAt(r, n, i)
      BY <1>0 DEF DurableIsSafe
    <2> DEFINE keep == {currentSeg} \cup
                          {m \in Segments : \E q \in Range(ReadSegment(m)) : q.lsn >= lsn}
    <2>2. n \in keep
      <3>1. files[n] \in Seq(Entry) /\ i \in Reached(files[n]) /\ files[n][i] = r
        BY <1>0, <2>1 DEF SafeAt, Types
      <3>2. r \in Range(ReadSegment(n))
        BY <3>1, ReadsReached DEF Range, ReadSegment
      <3> QED
        BY <3>2
    <2>3. keep \in SUBSET Nat /\ Segments \subseteq Nat
      BY <1>0 DEF Types
    <2>4. KeepFrom(lsn) = Min(keep)
      BY DEF KeepFrom
    <2> HIDE DEF keep
    <2>5. Min(keep) <= n /\ Min(keep) \in Nat /\ n \in Nat
      BY <2>2, <2>3, MinIsLeast
    <2>6. n \notin Removable(lsn)
      BY <2>4, <2>5 DEF Removable
    <2> QED
      BY <1>1, <2>1, <2>6 DEF SafeAt
  <1>4. LsnsGrow' /\ NextIsLarger'
    BY <1>0, <1>1 DEF LsnsGrow, NextIsLarger
  <1> QED
    BY <1>2, <1>3, <1>4 DEF PhysicalInv

\* The deletion loop takes only segments without durable records.
LEMMA RemoveInv ==
    ASSUME PhysicalInv, RemoveSegment
    PROVE  PhysicalInv'
  <1>0. Types /\ DurableIsSafe /\ LsnsGrow /\ NextIsLarger
    BY DEF PhysicalInv
  <1>1. PICK n : n = Min(removing)
    OBVIOUS
  <1>2. /\ up /\ removing # {}
        /\ files' = Restrict(files, Segments \ {n}) /\ removing' = removing \ {n}
        /\ UNCHANGED <<syncedEntries, up, currentSeg, nextLsn, appended, durable>>
    BY <1>1 DEF RemoveSegment
  <1>3. n \in removing /\ n # currentSeg
    <2>1. removing \in SUBSET Nat /\ currentSeg \notin removing
      BY <1>0 DEF Types
    <2> QED
      BY <1>1, <1>2, <2>1, MinIsLeast
  <1>4. /\ Segments' = Segments \ {n}
        /\ \A m \in Segments \ {n} : files'[m] = files[m]
    BY <1>2 DEF Segments, Restrict
  <1>5. Types'
    BY <1>0, <1>2, <1>3, <1>4 DEF Types
  <1>6. DurableIsSafe'
    <2> SUFFICES ASSUME NEW r \in durable
                 PROVE  \E m \in Segments' : \E i \in Nat : SafeAt(r, m, i)'
      BY <1>2 DEF DurableIsSafe
    <2>1. PICK m \in Segments, i \in Nat : SafeAt(r, m, i)
      BY <1>0 DEF DurableIsSafe
    <2>2. m \in Segments' /\ files'[m] = files[m]
      BY <1>3, <1>4, <2>1 DEF SafeAt
    <2> QED
      BY <1>2, <2>1, <2>2 DEF SafeAt
  <1>7. LsnsGrow'
    <2> SUFFICES ASSUME NEW k \in Segments', NEW m \in Segments',
                        NEW i \in Reached(files'[k]), NEW j \in Reached(files'[m]),
                        k < m \/ (k = m /\ i < j)
                 PROVE  files'[k][i].lsn < files'[m][j].lsn
      BY DEF LsnsGrow
    <2>1. k \in Segments /\ m \in Segments /\ files'[k] = files[k] /\ files'[m] = files[m]
      BY <1>4
    <2> QED
      BY <1>0, <2>1 DEF LsnsGrow
  <1>8. NextIsLarger'
    BY <1>0, <1>2, <1>4 DEF NextIsLarger
  <1> QED
    BY <1>5, <1>6, <1>7, <1>8 DEF PhysicalInv

\* A crash cuts the last segment behind what was synced.
LEMMA CrashInv ==
    ASSUME PhysicalInv, CrashWal
    PROVE  PhysicalInv'
  <1>0. Types /\ DurableIsSafe /\ LsnsGrow /\ NextIsLarger
    BY DEF PhysicalInv
  <1>1. /\ up /\ up' = FALSE /\ removing' = {}
        /\ UNCHANGED <<syncedEntries, currentSeg, nextLsn, appended, durable>>
    BY DEF CrashWal
  <1>2. PICK old \in Seq(Entry) : old = files[currentSeg]
    BY <1>0 DEF Types
  <1>3. PICK k \in syncedEntries..Len(old), torn \in BOOLEAN :
           files' = [files EXCEPT ![currentSeg] =
                       IF torn THEN Append(SubSeq(old, 1, k), Fragment) ELSE SubSeq(old, 1, k)]
    BY <1>2 DEF CrashWal
  <1>4. PICK new : new = IF torn THEN Append(SubSeq(old, 1, k), Fragment) ELSE SubSeq(old, 1, k)
    OBVIOUS
  <1>5. k \in 0..Len(old) /\ syncedEntries <= k /\ syncedEntries \in Nat /\ k \in Nat
    BY <1>0 DEF Types
  <1>6. PICK kept \in Seq(Entry) :
           /\ kept = SubSeq(old, 1, k)
           /\ \A i \in Reached(kept) : i \in Reached(old) /\ kept[i] = old[i]
           /\ \A i \in Reached(old) : i <= k => i \in Reached(kept) /\ kept[i] = old[i]
    BY <1>5, ReachedOfPrefix
  <1>7. /\ new \in Seq(Entry)
        /\ \A i \in Reached(new) : i \in Reached(old) /\ new[i] = old[i]
        /\ \A i \in Reached(old) : i <= k => i \in Reached(new) /\ new[i] = old[i]
    <2>1. CASE torn
      <3>1. Fragment \in Entry
        BY DEF Entry
      <3>2. /\ \A i \in Reached(kept) :
                  i \in Reached(Append(kept, Fragment)) /\ Append(kept, Fragment)[i] = kept[i]
            /\ \A i \in Reached(Append(kept, Fragment)) :
                  i \in Reached(kept) /\ Append(kept, Fragment)[i] = kept[i]
        BY <3>1, ReachedOfAppend
      <3>3. new = Append(kept, Fragment) /\ Append(kept, Fragment) \in Seq(Entry)
        BY <1>4, <1>6, <2>1, <3>1
      <3> QED
        BY <1>6, <3>2, <3>3
    <2>2. CASE ~torn
      BY <1>4, <1>6, <2>2
    <2> QED
      BY <2>1, <2>2
  <1>8. /\ Segments' = Segments /\ files'[currentSeg] = new
        /\ \A n \in Segments : n # currentSeg => files'[n] = files[n]
    BY <1>0, <1>3, <1>4 DEF Segments, Types
  <1>9. ASSUME NEW n \in Segments, NEW i \in Reached(files'[n])
        PROVE  i \in Reached(files[n]) /\ files'[n][i] = files[n][i]
    BY <1>2, <1>7, <1>8
  <1>10. Types'
    BY <1>0, <1>1, <1>7, <1>8 DEF Types
  <1>11. DurableIsSafe'
    <2> SUFFICES ASSUME NEW r \in durable
                 PROVE  \E n \in Segments' : \E i \in Nat : SafeAt(r, n, i)'
      BY <1>1 DEF DurableIsSafe
    <2>1. PICK n \in Segments, i \in Nat : SafeAt(r, n, i)
      BY <1>0 DEF DurableIsSafe
    <2>2. i \in Reached(files[n]) /\ files[n][i] = r /\ (n = currentSeg => i <= k)
      BY <1>1, <1>5, <2>1 DEF SafeAt
    <2>3. i \in Reached(files'[n]) /\ files'[n][i] = r
      BY <1>2, <1>7, <1>8, <2>2
    <2>4. SafeAt(r, n, i)'
      BY <1>1, <1>8, <2>3 DEF SafeAt
    <2> QED
      BY <1>8, <2>4
  <1>12. LsnsGrow'
    <2> SUFFICES ASSUME NEW m \in Segments, NEW n \in Segments,
                        NEW i \in Reached(files'[m]), NEW j \in Reached(files'[n]),
                        m < n \/ (m = n /\ i < j)
                 PROVE  files'[m][i].lsn < files'[n][j].lsn
      BY <1>8 DEF LsnsGrow
    <2>1. /\ i \in Reached(files[m]) /\ files'[m][i] = files[m][i]
          /\ j \in Reached(files[n]) /\ files'[n][j] = files[n][j]
      BY <1>9
    <2> QED
      BY <1>0, <2>1 DEF LsnsGrow
  <1>13. NextIsLarger'
    BY <1>0, <1>1, <1>8, <1>9 DEF NextIsLarger
  <1> QED
    BY <1>10, <1>11, <1>12, <1>13 DEF PhysicalInv

\* open goes on in the same segment, after the largest LSN that can be read.
LEMMA OpenInv ==
    ASSUME PhysicalInv, Open
    PROVE  PhysicalInv'
  <1>0. Types /\ DurableIsSafe /\ LsnsGrow /\ NextIsLarger
    BY DEF PhysicalInv
  <1>1. /\ Segments \in SUBSET Nat /\ currentSeg \in Segments
        /\ \A n \in Segments : n <= currentSeg
    BY <1>0 DEF Types
  <1>2. Max(Segments) = currentSeg
    BY <1>1, MaxIsLargest
  <1>3. /\ up' = TRUE /\ currentSeg' = currentSeg /\ syncedEntries' = Len(files[currentSeg])
        /\ nextLsn' = LastLsn + 1
        /\ UNCHANGED <<files, appended, removing, durable>> /\ Segments' = Segments
    BY <1>2 DEF Open, Segments
  <1> DEFINE lsns == {0} \cup {r.lsn : r \in Replayed}
  <1>4. ASSUME NEW r \in Replayed PROVE r.lsn \in Nat /\ r.lsn <= nextLsn
    <2>1. PICK n \in Segments : \E i \in Reached(files[n]) : files[n][i] = r
      BY <1>0, ReplayedReached
    <2>2. PICK i \in Reached(files[n]) : files[n][i] = r
      BY <2>1
    <2>3. r.lsn \in Nat /\ r.lsn < nextLsn /\ nextLsn \in Nat
      BY <1>0, <2>2, LsnIsNat DEF NextIsLarger, Types
    <2> QED
      BY <2>3
  <1>5. lsns \in SUBSET Nat /\ lsns # {} /\ nextLsn \in Nat /\ \A x \in lsns : x <= nextLsn
    BY <1>0, <1>4 DEF Types
  <1>6. LastLsn = Max(lsns)
    BY DEF LastLsn
  <1>7. \A r \in Replayed : r.lsn \in lsns
    OBVIOUS
  <1> HIDE DEF lsns
  <1>8. PICK m \in lsns : \A x \in lsns : x <= m
    BY <1>5, LargestElement
  <1>9. LastLsn = m /\ m \in Nat
    BY <1>5, <1>6, <1>8, MaxIsLargest
  <1>10. NextIsLarger'
    <2> SUFFICES ASSUME NEW n \in Segments, NEW i \in Reached(files[n])
                 PROVE  files[n][i].lsn < nextLsn'
      BY <1>3 DEF NextIsLarger
    <2>1. files[n][i] \in Replayed
      BY <1>0, ReplayedReached
    <2>2. files[n][i].lsn \in Nat /\ files[n][i].lsn <= m
      BY <1>4, <1>7, <1>8, <2>1
    <2> QED
      BY <1>3, <1>9, <2>2
  <1>11. Types'
    <2>1. files[currentSeg] \in Seq(Entry) /\ Len(files[currentSeg]) \in Nat
      BY <1>0 DEF Types
    <2>2. nextLsn' \in Nat
      BY <1>3, <1>9
    <2> QED
      BY <1>0, <1>3, <2>1, <2>2 DEF Types
  <1>12. DurableIsSafe'
    <2> SUFFICES ASSUME NEW r \in durable
                 PROVE  \E n \in Segments : \E i \in Nat : SafeAt(r, n, i)'
      BY <1>3 DEF DurableIsSafe
    <2>1. PICK n \in Segments, i \in Nat : SafeAt(r, n, i)
      BY <1>0 DEF DurableIsSafe
    <2>2. i <= Len(files[n])
      BY <2>1 DEF SafeAt, Reached
    <2> QED
      BY <1>3, <2>1, <2>2 DEF SafeAt
  <1>13. LsnsGrow'
    BY <1>0, <1>3 DEF LsnsGrow
  <1> QED
    BY <1>10, <1>11, <1>12, <1>13 DEF PhysicalInv

-----------------------------------------------------------------------------
LEMMA PhysicalInvNext == PhysicalInv /\ [PhysicalNext]_physicalVars => PhysicalInv'
  <1> SUFFICES ASSUME PhysicalInv, [PhysicalNext]_physicalVars PROVE PhysicalInv'
    OBVIOUS
  <1>1. CASE UNCHANGED physicalVars
    BY <1>1 DEF physicalVars, PhysicalInv, Types, DurableIsSafe, SafeAt, LsnsGrow, NextIsLarger,
                Segments
  <1>2. ASSUME NEW size \in Sizes, AppendRecord(size) \/ AppendFails(size)
        PROVE  PhysicalInv'
    BY <1>2, AppendRecordInv, AppendFailsInv
  <1>3. CASE Sync \/ RemoveSegment \/ CrashWal \/ Open
    BY <1>3, SyncInv, RemoveInv, CrashInv, OpenInv
  <1>4. ASSUME NEW lsn \in 1..MaxRecords, TruncateBefore(lsn)
        PROVE  PhysicalInv'
    <2>1. lsn \in Nat
      BY PhysicalWalAssumption
    <2> QED
      BY <1>4, <2>1, TruncateInv
  <1> QED
    BY <1>1, <1>2, <1>3, <1>4 DEF PhysicalNext

\* A record that could be read when sync returned is found by every later
\* replay until a truncation at a higher LSN: pwal.rs across rollovers, failed
\* writes, truncations that were cut short, crashes and reopens.
THEOREM DurableReplays == PhysicalSpec => []SyncedReplays
  <1>1. PhysicalInit => PhysicalInv
    BY PhysicalInvInit
  <1>2. PhysicalInv /\ [PhysicalNext]_physicalVars => PhysicalInv'
    BY PhysicalInvNext
  <1>3. PhysicalInv => SyncedReplays
    <2> SUFFICES ASSUME PhysicalInv, NEW r \in durable PROVE r \in Replayed
      BY DEF SyncedReplays
    <2>1. PICK n \in Segments, i \in Nat : SafeAt(r, n, i)
      BY DEF PhysicalInv, DurableIsSafe
    <2> QED
      BY <2>1, ReplayedReached DEF PhysicalInv, SafeAt
  <1> QED
    BY <1>1, <1>2, <1>3, PTL DEF PhysicalSpec

\* LSNs order the log over crashes and reopens: replay sees them increase, and
\* none that is durable is given out again (pwal.rs append, roll_segment, open).
THEOREM LsnsAreOrdered == PhysicalSpec => []LsnsOrderLog
  <1>1. PhysicalInit => PhysicalInv
    BY PhysicalInvInit
  <1>2. PhysicalInv /\ [PhysicalNext]_physicalVars => PhysicalInv'
    BY PhysicalInvNext
  <1>3. PhysicalInv => LsnsOrderLog
    <2> SUFFICES ASSUME PhysicalInv PROVE LsnsOrderLog
      OBVIOUS
    <2>1. \A n \in Segments : files[n] \in Seq(Entry)
      BY DEF PhysicalInv, Types
    <2>2. ReplayInLsnOrder
      <3>1. \A n \in Segments :
               /\ DOMAIN ReadSegment(n) = Reached(files[n])
               /\ \A i \in Reached(files[n]) : ReadSegment(n)[i] = files[n][i]
        BY <2>1, ReadsReached DEF ReadSegment
      <3> QED
        BY <3>1 DEF ReplayInLsnOrder, PhysicalInv, LsnsGrow
    <2>3. LsnsAreFresh
      BY DEF LsnsAreFresh, PhysicalInv, DurableIsSafe, SafeAt, NextIsLarger
    <2> QED
      BY <2>2, <2>3 DEF LsnsOrderLog
  <1> QED
    BY <1>1, <1>2, <1>3, PTL DEF PhysicalSpec
=============================================================================
