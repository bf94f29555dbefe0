------------------------ MODULE BufferManagerProofs -------------------------
(***************************************************************************)
(* Proofs about BufferManager, for every pool size, number of pages and    *)
(* set of contents.                                                        *)
(*                                                                         *)
(* The invariant that carries the refinement says what the cache may       *)
(* forget: a clean frame equals its page of the file, only existing pages  *)
(* are resident, and the file is blank beyond its end.                     *)
(***************************************************************************)
EXTENDS BufferManager, FiniteSetTheorems, TLAPS

\* Only pages of the file are resident, and the rest of the file is blank.
WithinFile ==
    /\ \A p \in resident : p < count
    /\ \A p \in PageNos : p >= count => disk[p] = Blank

Inv == TypeOK /\ WithinFile /\ CleanIsCurrent

-----------------------------------------------------------------------------
\* A step of admit from a state with the invariant: the page p is not resident,
\* and d, the file that admit starts from, is the file except perhaps at p.
LEMMA AdmitInv ==
    ASSUME TypeOK, CleanIsCurrent, clock' \in Nat,
           NEW p \in PageNos, p \notin resident,
           NEW c \in Contents, NEW d \in [PageNos -> Contents],
           \A q \in PageNos : q # p => d[q] = disk[q],
           NEW isDirty \in BOOLEAN, ~isDirty => d[p] = c,
           Admit(p, c, d, isDirty)
    PROVE  /\ disk' \in [PageNos -> Contents]
           /\ resident' \subseteq resident \cup {p} /\ dirty' \subseteq resident'
           /\ frame' \in [PageNos -> Contents] /\ used' \in [PageNos -> Nat]
           /\ failed' \in BOOLEAN
           /\ CleanIsCurrent'
           /\ disk'[p] = d[p]
           /\ \A q \in PageNos : q \notin resident /\ q # p => disk'[q] = disk[q]
  <1> USE BufferAssumption
  <1>1. CASE AdmitFree(p, c, d, isDirty)
    BY <1>1 DEF AdmitFree, Stamped, TypeOK, CleanIsCurrent, PageNos
  <1>2. CASE AdmitEvict(p, c, d, isDirty)
    <2>1. PICK v \in resident :
             /\ disk' = Written(d, v)
             /\ resident' = (resident \ {v}) \cup {p}
             /\ dirty' = IF isDirty THEN Undirtied(v) \cup {p} ELSE Undirtied(v)
             /\ frame' = [frame EXCEPT ![v] = Blank, ![p] = c]
             /\ used' = [Stamped(p) EXCEPT ![v] = 0]
      BY <1>2 DEF AdmitEvict
    <2>2. v \in PageNos /\ v # p
      BY <2>1 DEF TypeOK
    <2>3. /\ disk' \in [PageNos -> Contents]
          /\ \A q \in PageNos : q # v => disk'[q] = d[q]
          /\ v \in dirty => disk'[v] = frame[v]
      BY <2>1, <2>2 DEF Written, TypeOK
    <2>4. /\ frame' \in [PageNos -> Contents] /\ used' \in [PageNos -> Nat]
          /\ frame'[p] = c
          /\ \A q \in PageNos : q # v /\ q # p => frame'[q] = frame[q]
      BY <2>1, <2>2 DEF Stamped, TypeOK
    <2>5. resident' \subseteq resident \cup {p} /\ dirty' \subseteq resident'
      BY <2>1, <2>2 DEF Undirtied, TypeOK
    <2>6. CleanIsCurrent'
      <3> SUFFICES ASSUME NEW q \in resident', q \notin dirty'
                   PROVE  frame'[q] = disk'[q]
        BY DEF CleanIsCurrent
      <3>1. CASE q = p
        BY <3>1, <2>1, <2>2, <2>3, <2>4 DEF Undirtied
      <3>2. CASE q # p
        <4>1. q \in resident /\ q # v /\ q \in PageNos /\ q \notin dirty
          BY <3>2, <2>1 DEF Undirtied, TypeOK
        <4> QED
          BY <3>2, <4>1, <2>3, <2>4 DEF CleanIsCurrent
      <3> QED
        BY <3>1, <3>2
    <2>7. failed' = FALSE
      BY <1>2 DEF AdmitEvict
    <2> QED
      BY <2>2, <2>3, <2>4, <2>5, <2>6, <2>7
  <1>3. CASE AdmitFails(d)
    BY <1>3 DEF AdmitFails, Undirtied, TypeOK, CleanIsCurrent
  <1> QED
    BY <1>1, <1>2, <1>3 DEF Admit

-----------------------------------------------------------------------------
LEMMA InitInv == Init => Inv
  <1> SUFFICES ASSUME Init PROVE Inv
    OBVIOUS
  <1>1. failed \in BOOLEAN /\ parity \in {0, 1}
    BY Zenon DEF Init
  <1>2. TypeOK
    BY <1>1, BufferAssumption DEF Init, TypeOK
  <1>3. WithinFile /\ CleanIsCurrent
    BY BufferAssumption DEF Init, WithinFile, CleanIsCurrent, PageNos
  <1> QED
    BY <1>2, <1>3 DEF Inv

LEMMA MissInv ==
    ASSUME Inv, NEW p \in PageNos, Miss(p)
    PROVE  Inv'
  <1>0. Admit(p, disk[p], disk, FALSE)
    BY Zenon DEF Miss
  <1>1. /\ p \notin resident /\ p < count
        /\ clock' \in Nat /\ count' = count /\ synced' = synced
        /\ parity' = parity
    BY DEF Miss, Inv, TypeOK
  <1>2. /\ disk' \in [PageNos -> Contents]
        /\ resident' \subseteq resident \cup {p} /\ dirty' \subseteq resident'
        /\ frame' \in [PageNos -> Contents] /\ used' \in [PageNos -> Nat]
        /\ failed' \in BOOLEAN
        /\ CleanIsCurrent'
        /\ disk'[p] = disk[p]
        /\ \A q \in PageNos : q \notin resident /\ q # p => disk'[q] = disk[q]
    BY <1>0, <1>1, AdmitInv DEF Inv, TypeOK
  <1> QED
    BY <1>1, <1>2 DEF Inv, TypeOK, WithinFile, PageNos

LEMMA NewPageInv ==
    ASSUME Inv, NewPage
    PROVE  Inv'
  <1> DEFINE d == [disk EXCEPT ![count] = Blank]
  <1> USE BufferAssumption
  <1>0. Admit(count, Blank, d, TRUE)
    BY Zenon DEF NewPage
  <1>1. /\ count \in PageNos /\ count \notin resident /\ clock' \in Nat
        /\ count' = count + 1 /\ count' \in 0..MaxPages /\ synced' = synced
        /\ parity' = parity
        /\ d \in [PageNos -> Contents] /\ d[count] = Blank
        /\ \A q \in PageNos : q # count => d[q] = disk[q]
    BY DEF NewPage, Inv, TypeOK, WithinFile, PageNos
  <1> HIDE DEF d
  <1>2. /\ disk' \in [PageNos -> Contents]
        /\ resident' \subseteq resident \cup {count} /\ dirty' \subseteq resident'
        /\ frame' \in [PageNos -> Contents] /\ used' \in [PageNos -> Nat]
        /\ failed' \in BOOLEAN
        /\ CleanIsCurrent'
        /\ disk'[count] = d[count]
        /\ \A q \in PageNos : q \notin resident /\ q # count => disk'[q] = disk[q]
    BY <1>0, <1>1, AdmitInv DEF Inv
  <1> QED
    BY <1>1, <1>2 DEF Inv, TypeOK, WithinFile, PageNos

LEMMA NextInv == Inv /\ [Next]_vars => Inv'
  <1> SUFFICES ASSUME Inv, [Next]_vars PROVE Inv'
    OBVIOUS
  <1> USE BufferAssumption
  <1>1. ASSUME NEW p \in PageNos, Hit(p) PROVE Inv'
    BY <1>1 DEF Hit, Stamped, Inv, TypeOK, WithinFile, CleanIsCurrent
  <1>2. ASSUME NEW p \in PageNos, Miss(p) PROVE Inv'
    BY <1>2, MissInv
  <1>3. ASSUME NEW p \in PageNos, NEW c \in Contents, Modify(p, c) PROVE Inv'
    BY <1>3 DEF Modify, MarkDirty, Inv, TypeOK, WithinFile, CleanIsCurrent
  <1>4. ASSUME NEW done \in SUBSET dirty, FlushFails(done) PROVE Inv'
    BY <1>4 DEF FlushFails, Inv, TypeOK, WithinFile, CleanIsCurrent, PageNos
  <1>5. CASE NewPage
    BY <1>5, NewPageInv
  <1>6. CASE FlushAll
    BY <1>6 DEF FlushAll, Inv, TypeOK, WithinFile, CleanIsCurrent, PageNos
  <1>7. CASE UNCHANGED vars
    BY <1>7 DEF vars, Inv, TypeOK, WithinFile, CleanIsCurrent
  <1> QED
    BY <1>1, <1>2, <1>3, <1>4, <1>5, <1>6, <1>7 DEF Next

\* In every reachable state, also after a failed write, the pool is well formed
\* and a frame that is not dirty equals its page of the file.
THEOREM CleanFramesCurrent == Spec => [](TypeOK /\ CleanIsCurrent)
  <1>1. Inv => TypeOK /\ CleanIsCurrent
    BY DEF Inv
  <1> QED
    BY InitInv, NextInv, <1>1, PTL DEF Spec

-----------------------------------------------------------------------------
\* As long as its write does not fail, admit changes what no caller can see:
\* every page but p shows what it showed, and p the content it came with.
LEMMA AdmitView ==
    ASSUME Inv, ~failed', clock' \in Nat,
           NEW p \in PageNos, p \notin resident,
           NEW c \in Contents, NEW d \in [PageNos -> Contents],
           \A q \in PageNos : q # p => d[q] = disk[q],
           NEW isDirty \in BOOLEAN,
           Admit(p, c, d, isDirty)
    PROVE  View' = [View EXCEPT ![p] = c]
  <1> USE BufferAssumption
  <1>1. CASE AdmitFree(p, c, d, isDirty)
    BY <1>1 DEF AdmitFree, View, Inv, TypeOK
  <1>2. CASE AdmitEvict(p, c, d, isDirty)
    <2>1. PICK v \in resident :
             /\ disk' = Written(d, v)
             /\ resident' = (resident \ {v}) \cup {p}
             /\ frame' = [frame EXCEPT ![v] = Blank, ![p] = c]
      BY <1>2 DEF AdmitEvict
    <2>2. v \in PageNos /\ v # p
      BY <2>1 DEF Inv, TypeOK
    <2>3. disk'[v] = frame[v]
      BY <2>1, <2>2 DEF Written, Inv, TypeOK, CleanIsCurrent
    <2>4. \A q \in PageNos : q # v => disk'[q] = d[q]
      BY <2>1, <2>2 DEF Written, Inv, TypeOK
    <2>5. \A q \in PageNos : q # p /\ q # v => frame'[q] = frame[q]
      BY <2>1, <2>2 DEF Inv, TypeOK
    <2>6. frame'[p] = c
      BY <2>1, <2>2 DEF Inv, TypeOK
    <2>7. \A q \in PageNos :
             (IF q \in resident' THEN frame'[q] ELSE disk'[q])
               = [View EXCEPT ![p] = c][q]
      BY <2>1, <2>2, <2>3, <2>4, <2>5, <2>6 DEF View
    <2> QED
      BY <2>7 DEF View
  <1>3. CASE AdmitFails(d)
    BY <1>3 DEF AdmitFails
  <1> QED
    BY <1>1, <1>2, <1>3 DEF Admit

\* What the refinement maps to the variables of the page store.
storeVars == <<count, Shown, synced, parity, failed>>

LEMMA InitRefines == Init => Store!Init
  BY DEF Init, Store!Init, Shown, View, PageNos, Store!PageNos

\* A step that ends in an error, leaves the flushed pages and at most makes a
\* page, fails in the page store.
LEMMA FailRefines ==
    ASSUME ~failed, failed' = TRUE, synced' = synced, parity' = parity,
           count' \in {count, count + 1}
    PROVE  Store!Fail
  <1>1. Shown' = [p \in PageNos |-> Blank]
    BY DEF Shown, PageNos
  <1> QED
    BY <1>1 DEF Store!Fail, PageNos, Store!PageNos

\* A step without error that changes no page in the view changes none in what
\* is shown.
LEMMA ShownUnchanged ==
    ASSUME ~failed, ~failed', View' = View
    PROVE  Shown' = Shown
  BY DEF Shown

LEMMA MissRefines ==
    ASSUME Inv, NEW p \in PageNos, Miss(p)
    PROVE  [Store!Next]_storeVars
  <1>0. Admit(p, disk[p], disk, FALSE)
    BY Zenon DEF Miss
  <1>1. /\ p \notin resident /\ p < count /\ ~failed
        /\ clock' \in Nat /\ count' = count /\ synced' = synced
        /\ parity' = parity
    BY DEF Miss, Inv, TypeOK
  <1>2. failed' \in BOOLEAN
    BY MissInv DEF Inv, TypeOK
  <1>3. CASE failed' = TRUE
    BY <1>1, <1>3, FailRefines DEF Store!Next
  <1>4. CASE failed' = FALSE
    <2>1. View' = [View EXCEPT ![p] = disk[p]]
      BY <1>0, <1>1, <1>4, AdmitView DEF Inv, TypeOK
    <2>2. View[p] = disk[p]
      BY <1>1 DEF View
    <2>3. View' = View
      BY <2>1, <2>2 DEF View
    <2>4. failed' = failed /\ Shown' = Shown
      BY <1>1, <1>4, <2>3, ShownUnchanged DEF Inv, TypeOK
    <2> QED
      BY <1>1, <2>4 DEF storeVars
  <1> QED
    BY <1>2, <1>3, <1>4

LEMMA NewPageRefines ==
    ASSUME Inv, NewPage
    PROVE  Store!Next
  <1> DEFINE d == [disk EXCEPT ![count] = Blank]
  <1> USE BufferAssumption
  <1>0. Admit(count, Blank, d, TRUE)
    BY Zenon DEF NewPage
  <1>1. /\ count \in PageNos /\ count \notin resident /\ clock' \in Nat
        /\ count < MaxPages /\ count' = count + 1 /\ synced' = synced
        /\ ~failed /\ parity' = parity
        /\ d \in [PageNos -> Contents]
        /\ \A q \in PageNos : q # count => d[q] = disk[q]
    BY DEF NewPage, Inv, TypeOK, WithinFile, PageNos
  <1> HIDE DEF d
  <1>2. failed' \in BOOLEAN
    BY NewPageInv DEF Inv, TypeOK
  <1>3. CASE failed' = TRUE
    BY <1>1, <1>3, FailRefines DEF Store!Next
  <1>4. CASE failed' = FALSE
    <2>1. View' = [View EXCEPT ![count] = Blank]
      BY <1>0, <1>1, <1>4, AdmitView
    <2>2. View[count] = Blank
      BY <1>1 DEF View, Inv, TypeOK, WithinFile
    <2>3. View' = View
      BY <1>1, <2>1, <2>2 DEF View
    <2>4. failed' = failed /\ Shown' = Shown
      BY <1>1, <1>4, <2>3, ShownUnchanged DEF Inv, TypeOK
    <2> QED
      BY <1>1, <2>4 DEF Store!NewPage, Store!Next
  <1> QED
    BY <1>2, <1>3, <1>4

LEMMA ModifyRefines ==
    ASSUME Inv, NEW p \in PageNos, NEW c \in Contents, Modify(p, c)
    PROVE  Store!Modify(p, c)
  <1>1. /\ ~failed /\ failed' = failed /\ p \in resident /\ p < count
        /\ parity' = 1 - parity /\ count' = count /\ synced' = synced
    BY DEF Modify, Inv, WithinFile
  <1>2. View' = [View EXCEPT ![p] = c]
    BY DEF Modify, View, Inv, TypeOK
  <1> QED
    BY <1>1, <1>2 DEF Shown, Store!Modify

LEMMA FlushRefines ==
    ASSUME Inv, FlushAll
    PROVE  Store!Flush
  <1>1. disk' = View
    BY DEF FlushAll, View, Inv, TypeOK, CleanIsCurrent
  <1>2. View' = View
    BY <1>1 DEF FlushAll, View, Inv, TypeOK, CleanIsCurrent
  <1>3. /\ ~failed /\ failed' = failed /\ parity' = parity /\ count' = count
        /\ synced' = disk'
    BY DEF FlushAll
  <1> QED
    BY <1>1, <1>2, <1>3 DEF Shown, Store!Flush

LEMMA NextRefines == Inv /\ [Next]_vars => [Store!Next]_storeVars
  <1> SUFFICES ASSUME Inv, [Next]_vars
               PROVE  [Store!Next]_storeVars
    OBVIOUS
  <1>1. ASSUME NEW p \in PageNos, Hit(p) PROVE UNCHANGED storeVars
    BY <1>1 DEF Hit, View, Shown, storeVars
  <1>2. ASSUME NEW p \in PageNos, Miss(p) PROVE [Store!Next]_storeVars
    BY <1>2, MissRefines
  <1>3. ASSUME NEW p \in PageNos, NEW c \in Contents, Modify(p, c)
        PROVE  Store!Modify(p, c)
    BY <1>3, ModifyRefines
  <1>4. ASSUME NEW done \in SUBSET dirty, FlushFails(done) PROVE Store!Next
    BY <1>4, FailRefines DEF FlushFails, Store!Next
  <1>5. CASE NewPage
    BY <1>5, NewPageRefines
  <1>6. CASE FlushAll
    BY <1>6, FlushRefines DEF Store!Next
  <1>7. CASE UNCHANGED vars
    BY <1>7 DEF vars, View, Shown, storeVars
  <1>8. PageNos = Store!PageNos
    BY DEF PageNos, Store!PageNos
  <1> QED
    BY <1>1, <1>2, <1>3, <1>4, <1>5, <1>6, <1>7, <1>8 DEF Next, Store!Next

\* The cache is invisible: every behaviour of the buffer manager is one of the
\* page store, in which evictions and reads are stutters and an I/O error is
\* the only way to lose an edit.
THEOREM CacheRefinesStore == Spec => CacheIsInvisible
  <1>1. Inv /\ [Next]_vars => [Store!Next]_<<count, Shown, synced, parity, failed>>
    BY NextRefines DEF storeVars
  <1> QED
    BY InitInv, NextInv, InitRefines, <1>1, PTL
       DEF Spec, CacheIsInvisible, Store!Spec

-----------------------------------------------------------------------------
LEMMA AdmitBounded ==
    ASSUME IsFiniteSet(resident), PoolBounded,
           NEW p \in PageNos, p \notin resident, NEW c, NEW d, NEW isDirty,
           Admit(p, c, d, isDirty)
    PROVE  IsFiniteSet(resident') /\ Cardinality(resident') <= Capacity
  <1> USE BufferAssumption
  <1>1. Cardinality(resident) \in Nat
    BY FS_CardinalityType
  <1>2. ASSUME NEW v \in resident
        PROVE  /\ IsFiniteSet(resident \ {v})
               /\ Cardinality(resident \ {v}) = Cardinality(resident) - 1
    BY FS_RemoveElement
  <1>3. CASE AdmitFree(p, c, d, isDirty)
    <2>1. resident' = resident \cup {p} /\ Cardinality(resident) < Capacity
      BY <1>1, <1>3 DEF AdmitFree, IsFull
    <2>2. /\ IsFiniteSet(resident \cup {p})
          /\ Cardinality(resident \cup {p}) = Cardinality(resident) + 1
      BY FS_AddElement
    <2> QED
      BY <1>1, <2>1, <2>2
  <1>4. CASE AdmitEvict(p, c, d, isDirty)
    <2>1. PICK v \in resident : resident' = (resident \ {v}) \cup {p}
      BY <1>4 DEF AdmitEvict
    <2>2. p \notin resident \ {v}
      OBVIOUS
    <2>3. /\ IsFiniteSet((resident \ {v}) \cup {p})
          /\ Cardinality((resident \ {v}) \cup {p}) = Cardinality(resident \ {v}) + 1
      BY <1>2, <2>2, FS_AddElement
    <2> QED
      BY <1>1, <1>2, <2>1, <2>3 DEF PoolBounded
  <1>5. CASE AdmitFails(d)
    <2>1. PICK v \in dirty : IsVictim(v) /\ resident' = resident \ {v}
      BY <1>5 DEF AdmitFails
    <2> QED
      BY <1>1, <1>2, <2>1 DEF PoolBounded, IsVictim
  <1> QED
    BY <1>3, <1>4, <1>5 DEF Admit

\* The pool never holds more than its capacity, also after a failed write.
THEOREM PoolWithinCapacity == Spec => []PoolBounded
  <1> DEFINE J == Inv /\ IsFiniteSet(resident) /\ PoolBounded
  <1> USE BufferAssumption
  <1>1. Init => J
    BY InitInv, FS_EmptySet DEF Init, PoolBounded
  <1>2. J /\ [Next]_vars => J'
    <2> SUFFICES ASSUME J, [Next]_vars
                 PROVE  IsFiniteSet(resident') /\ Cardinality(resident') <= Capacity
      BY NextInv DEF PoolBounded
    <2>1. ASSUME NEW p \in PageNos, Miss(p)
          PROVE  IsFiniteSet(resident') /\ Cardinality(resident') <= Capacity
      <3>1. p \notin resident /\ Admit(p, disk[p], disk, FALSE)
        BY <2>1, Zenon DEF Miss
      <3> QED
        BY <3>1, AdmitBounded
    <2>2. CASE NewPage
      <3>1. Admit(count, Blank, [disk EXCEPT ![count] = Blank], TRUE)
        BY <2>2, Zenon DEF NewPage
      <3>2. count \in PageNos /\ count \notin resident
        BY <2>2 DEF NewPage, Inv, TypeOK, WithinFile, PageNos
      <3> QED
        BY <3>1, <3>2, AdmitBounded
    <2>3. CASE UNCHANGED resident
      BY <2>3 DEF PoolBounded
    <2> QED
      BY <2>1, <2>2, <2>3 DEF Next, Hit, Modify, FlushAll, FlushFails, vars
  <1>3. J => PoolBounded
    OBVIOUS
  <1> QED
    BY <1>1, <1>2, <1>3, PTL DEF Spec
=============================================================================
