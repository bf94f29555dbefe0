-------------------------- MODULE LockServerProofs --------------------------
(***************************************************************************)
(* Theorems about LockServer, for any number of backends and objects: the  *)
(* held modes never conflict, every queue entry belongs to a parked thread,*)
(* and the wait-for graph never has a cycle.                               *)
(***************************************************************************)
EXTENDS LockServer, TLAPS

\* The inductive invariant.  That a thread is queued for one object only is
\* what keeps the graph acyclic when a lock is granted: the backend that is
\* granted leaves the only queue it is in, so edges into it start no cycle.
Inv ==
    /\ TypeOK
    /\ HoldersCompatible
    /\ WaitersAreParked
    /\ NoDeadlock

-----------------------------------------------------------------------------
\* The conflict matrix of lock.rs is symmetric.
LEMMA ConflictsSymmetric ==
    ASSUME NEW a \in ModeOrNone, NEW b \in ModeOrNone, ConflictsWith(a, b)
    PROVE  ConflictsWith(b, a)
BY DEF ConflictsWith, CONFLICTS, LockMode, ModeOrNone, None

\* Every mode has an index, and None is no mode.
LEMMA ModeFacts ==
    /\ None \notin LockMode
    /\ \A m \in LockMode : Index[m] \in Nat
    /\ \A m \in LockMode : CONFLICTS[m] \subseteq LockMode
BY DEF None, LockMode, Index, CONFLICTS

-----------------------------------------------------------------------------
(* Type correctness *)

LEMMA ReleaseType ==
    ASSUME LockTypeOK, NEW p \in Pids, ReleaseAll(p)
    PROVE  LockTypeOK'
BY DEF LockTypeOK, ReleaseAll, ModeOrNone

\* TypeOK holds in every reachable state.
THEOREM TypeCorrect == Spec => []TypeOK
<1>1. Init => TypeOK
  BY DEF Init, LockInit, TypeOK, LockTypeOK, ModeOrNone
<1>2. TypeOK /\ [Next]_vars => TypeOK'
  <2> SUFFICES ASSUME TypeOK, [Next]_vars PROVE TypeOK'
    OBVIOUS
  <2> USE RequestAssumption, ModeFacts DEF TypeOK, LockTypeOK, ModeOrNone
  <2>1. CASE UNCHANGED vars
    BY <2>1 DEF vars
  <2>2. ASSUME NEW p \in Pids, NEW m \in LockMode,
               NEW w \in {"Wait", "NoWait", "SkipLocked"},
               NEW objs \in SUBSET Objects, StartLocking(p, m, w, objs)
        PROVE  TypeOK'
    BY <2>2 DEF StartLocking, Statement
  <2>3. ASSUME NEW p \in Pids, LockTable(p) PROVE TypeOK'
    BY <2>2, <2>3 DEF LockTable
  <2>4. ASSUME NEW p \in Pids, SelectForLocking(p) PROVE TypeOK'
    <3>1. RowModes \subseteq LockMode
      BY DEF RowModes, LockMode
    <3> QED BY <2>2, <2>4, <3>1 DEF SelectForLocking
  <2>5. ASSUME NEW p \in Pids, NEW o \in Objects, NextObject(p, o)
        PROVE  stmt[p] \in Statement /\ stmt[p].mode \in LockMode
    BY <2>5 DEF NextObject, Statement, NoStmt
  <2>6. ASSUME NEW p \in Pids, NEW o \in Objects, LockGranted(p, o)
        PROVE  TypeOK'
    BY <2>5, <2>6 DEF LockGranted, TryGranted, Grant, WithoutWaiter, Done, Statement
  <2>7. ASSUME NEW p \in Pids, NEW o \in Objects, LockSkipped(p, o)
        PROVE  TypeOK'
    BY <2>5, <2>7 DEF LockSkipped, Done, Statement
  <2>8. ASSUME NEW p \in Pids, NEW o \in Objects, LockFailed(p, o)
        PROVE  TypeOK'
    BY <2>8, ReleaseType DEF LockFailed, ReturnError, MarkError, StopWatchdog
  <2>9. ASSUME NEW p \in Pids, NEW o \in Objects, LockParked(p, o)
        PROVE  TypeOK'
    BY <2>5, <2>9 DEF LockParked, WithWaiter
  <2>10. ASSUME NEW p \in Pids, FinishLocking(p) PROVE TypeOK'
    BY <2>10 DEF FinishLocking, MarkError, StopWatchdog
  <2>11. ASSUME NEW p \in Pids, Run(p) PROVE TypeOK'
    BY <2>6, <2>7, <2>8, <2>9, <2>10, <2>11 DEF Run
  <2>12. ASSUME NEW p \in Pids,
                Begin(p) \/ StatementError(p) \/ CheckCanceled(p)
         PROVE  TypeOK'
    BY <2>12 DEF Begin, StatementError, CheckCanceled, MarkError
  <2>13. ASSUME NEW p \in Pids,
                Commit(p) \/ Rollback(p) \/ IdleTimeout(p) \/ Disconnect(p)
         PROVE  TypeOK'
    BY <2>13, ReleaseType DEF Commit, Rollback, IdleTimeout, Disconnect
  <2>14. ASSUME NEW p \in Pids,
                \/ Savepoint(p) \/ ReleaseSavepoint(p) \/ RollbackToSavepoint(p)
                \/ CancelRequest(p) \/ Watchdog(p)
         PROVE  TypeOK'
    BY <2>14 DEF Savepoint, ReleaseSavepoint, RollbackToSavepoint,
                 CancelRequest, Watchdog
  <2> QED
    BY <2>1, <2>3, <2>4, <2>11, <2>12, <2>13, <2>14 DEF Next
<1> QED
  BY <1>1, <1>2, PTL DEF Spec

-----------------------------------------------------------------------------
(* What releasing and granting do to the invariant *)

\* After release_all the backend has no entry and the others are as before.
LEMMA ReleaseEffect ==
    ASSUME LockTypeOK, NEW p \in Pids, ReleaseAll(p),
           NEW o \in Objects, NEW q \in Pids
    PROVE  /\ holders'[o][q] = IF q = p THEN None ELSE holders[o][q]
           /\ waiters'[o][q] = IF q = p THEN None ELSE waiters[o][q]
BY DEF LockTypeOK, ReleaseAll

LEMMA ReleaseCompatible ==
    ASSUME LockTypeOK, HoldersCompatible, NEW p \in Pids, ReleaseAll(p)
    PROVE  HoldersCompatible'
<1> SUFFICES ASSUME NEW o \in Objects, NEW q \in Pids, NEW r \in Pids, q # r
             PROVE  ~ConflictsWith(holders'[o][q], holders'[o][r])
  BY DEF HoldersCompatible, ConflictsWith
<1>1. ~ConflictsWith(holders[o][q], holders[o][r])
  BY DEF HoldersCompatible
<1>2. /\ holders'[o][q] = IF q = p THEN None ELSE holders[o][q]
      /\ holders'[o][r] = IF r = p THEN None ELSE holders[o][r]
  BY ReleaseEffect
<1>3. \A m \in ModeOrNone : ~ConflictsWith(None, m) /\ ~ConflictsWith(m, None)
  BY ModeFacts DEF ConflictsWith, ModeOrNone
<1>4. holders[o][q] \in ModeOrNone /\ holders[o][r] \in ModeOrNone
  BY DEF LockTypeOK
<1> QED
  BY <1>1, <1>2, <1>3, <1>4

\* Releasing only takes edges away from the wait-for graph.
LEMMA ReleaseNoDeadlock ==
    ASSUME LockTypeOK, NoDeadlock, NEW p \in Pids, ReleaseAll(p)
    PROVE  NoDeadlock'
<1>1. ASSUME NEW q \in Pids, NEW r \in Pids, WaitsFor(waiters, q, r)'
      PROVE  WaitsFor(waiters, q, r)
  <2>1. q # r
    BY <1>1 DEF WaitsFor
  <2>2. PICK o \in Objects : /\ waiters'[o][q] # None
                             /\ ConflictsWith(holders'[o][r], waiters'[o][q])
    BY <1>1 DEF WaitsFor, ConflictsWith
  <2>3. /\ holders'[o][r] = IF r = p THEN None ELSE holders[o][r]
        /\ waiters'[o][q] = IF q = p THEN None ELSE waiters[o][q]
    BY ReleaseEffect
  <2>4. holders'[o][r] # None
    BY <2>2, ModeFacts DEF ConflictsWith
  <2> QED
    BY <2>1, <2>2, <2>3, <2>4 DEF WaitsFor
<1> QED
  BY <1>1 DEF NoDeadlock, HasCycle

\* Granting what no other backend's hold conflicts with keeps holds compatible.
LEMMA GrantCompatible ==
    ASSUME LockTypeOK, HoldersCompatible, NEW p \in Pids, NEW o \in Objects,
           NEW m \in LockMode, TryGranted(p, o, m)
    PROVE  HoldersCompatible'
<1> SUFFICES ASSUME NEW obj \in Objects, NEW q \in Pids, NEW r \in Pids, q # r
             PROVE  ~ConflictsWith(holders'[obj][q], holders'[obj][r])
  BY DEF HoldersCompatible, ConflictsWith
<1>1. ~ConflictsWith(holders[obj][q], holders[obj][r])
  BY DEF HoldersCompatible
<1>2. \A oo \in Objects, s \in Pids :
        \/ holders'[oo][s] = holders[oo][s]
        \/ oo = o /\ s = p /\ holders'[oo][s] = m
  BY DEF TryGranted, Grant, LockTypeOK
<1>3. \A s \in Pids \ {p} : ~ConflictsWith(holders[o][s], m)
  BY DEF TryGranted, Conflicting
<1>4. \A s \in Pids \ {p} : ~ConflictsWith(m, holders[o][s])
  BY <1>3, ConflictsSymmetric DEF LockTypeOK, ModeOrNone
<1> QED
  BY <1>1, <1>2, <1>3, <1>4

\* A backend that leaves the only queue it is in can be on no cycle, so the
\* edges that its new lock creates close none.
LEMMA GrantNoDeadlock ==
    ASSUME LockTypeOK, NoDeadlock, NEW p \in Pids, NEW o \in Objects,
           NEW m \in LockMode, TryGranted(p, o, m),
           \A other \in Objects : waiters[other][p] # None => other = o
    PROVE  NoDeadlock'
<1>1. \A obj \in Objects : waiters'[obj][p] = None
  BY DEF TryGranted, Grant, WithoutWaiter, LockTypeOK
<1>2. \A obj \in Objects, q \in Pids \ {p} :
        waiters'[obj][q] = waiters[obj][q] /\ holders'[obj][q] = holders[obj][q]
  BY DEF TryGranted, Grant, WithoutWaiter, LockTypeOK
<1>3. ASSUME NEW q \in Pids PROVE ~WaitsFor(waiters, p, q)'
  BY <1>1 DEF WaitsFor
<1>4. ASSUME NEW q \in Pids \ {p}, NEW r \in Pids \ {p}, WaitsFor(waiters, q, r)'
      PROVE  WaitsFor(waiters, q, r)
  BY <1>2, <1>4 DEF WaitsFor, ConflictsWith
<1>5. ASSUME NEW S \in SUBSET Pids, S # {},
             \A q \in S : \E r \in S : WaitsFor(waiters, q, r)'
      PROVE  FALSE
  <2>1. p \notin S
    BY <1>3, <1>5
  <2>2. \A q \in S : \E r \in S : WaitsFor(waiters, q, r)
    BY <1>4, <1>5, <2>1
  <2> QED
    BY <1>5, <2>2 DEF NoDeadlock, HasCycle
<1> QED
  BY <1>5 DEF NoDeadlock, HasCycle

-----------------------------------------------------------------------------
(* The inductive invariant *)

\* A backend with a queue entry is inside a statement with that object to do.
LEMMA NoStatementNoWaiter ==
    ASSUME WaitersAreParked, NEW p \in Pids, stmt[p].todo = {}
    PROVE  \A o \in Objects : waiters[o][p] = None
BY DEF WaitersAreParked

\* A step that leaves p without queue entries, and the others' entries and
\* statements alone, keeps every entry with its parked thread.
LEMMA OthersParked ==
    ASSUME WaitersAreParked, NEW p \in Pids,
           \A o \in Objects : waiters'[o][p] = None,
           \A o \in Objects, q \in Pids \ {p} :
               waiters'[o][q] = waiters[o][q] /\ stmt'[q] = stmt[q]
    PROVE  WaitersAreParked'
BY DEF WaitersAreParked

\* Steps that change neither the locks nor any statement.
LEMMA LocksUntouched ==
    ASSUME HoldersCompatible, WaitersAreParked, NoDeadlock,
           UNCHANGED <<holders, waiters, stmt>>
    PROVE  HoldersCompatible' /\ WaitersAreParked' /\ NoDeadlock'
<1>1. HoldersCompatible'
  BY DEF HoldersCompatible, ConflictsWith
<1>2. WaitersAreParked'
  BY DEF WaitersAreParked
<1>3. NoDeadlock'
  BY DEF NoDeadlock, HasCycle, WaitsFor, ConflictsWith
<1> QED
  BY <1>1, <1>2, <1>3

\* A statement of p starts or ends while p has no queue entry.
LEMMA OnlyStatement ==
    ASSUME HoldersCompatible, WaitersAreParked, NoDeadlock, TypeOK,
           NEW p \in Pids, stmt[p].todo = {} \/ stmt[p].policy = "SkipLocked",
           UNCHANGED <<holders, waiters>>,
           \A q \in Pids \ {p} : stmt'[q] = stmt[q]
    PROVE  HoldersCompatible' /\ WaitersAreParked' /\ NoDeadlock'
<1>1. \A o \in Objects : waiters[o][p] = None
  BY DEF WaitersAreParked
<1>2. WaitersAreParked'
  BY <1>1, OthersParked
<1>3. HoldersCompatible' /\ NoDeadlock'
  BY DEF HoldersCompatible, NoDeadlock, HasCycle, WaitsFor, ConflictsWith
<1> QED
  BY <1>2, <1>3

\* Every step that releases all locks of p, whatever it does to p's statement.
LEMMA OnRelease ==
    ASSUME HoldersCompatible, WaitersAreParked, NoDeadlock, TypeOK,
           NEW p \in Pids, ReleaseAll(p),
           \A q \in Pids \ {p} : stmt'[q] = stmt[q]
    PROVE  HoldersCompatible' /\ WaitersAreParked' /\ NoDeadlock'
<1>1. HoldersCompatible' /\ NoDeadlock'
  BY ReleaseCompatible, ReleaseNoDeadlock DEF TypeOK
<1>2. /\ \A o \in Objects : waiters'[o][p] = None
      /\ \A o \in Objects, q \in Pids \ {p} : waiters'[o][q] = waiters[o][q]
  BY ReleaseEffect DEF TypeOK
<1> QED
  BY <1>1, <1>2, OthersParked

\* The inductive invariant holds in every reachable state of LockServer, for
\* any backends, objects and modes in use.
THEOREM Safety == Spec => []Inv
<1>1. Init => Inv
  <2> SUFFICES ASSUME Init PROVE Inv
    OBVIOUS
  <2>1. TypeOK
    BY DEF Init, LockInit, TypeOK, LockTypeOK, ModeOrNone
  <2>2. \A o \in Objects, p \in Pids : holders[o][p] = None /\ waiters[o][p] = None
    BY DEF Init, LockInit
  <2>3. HoldersCompatible /\ WaitersAreParked
    BY <2>2, ModeFacts DEF HoldersCompatible, WaitersAreParked, ConflictsWith
  <2>4. NoDeadlock
    BY <2>2 DEF NoDeadlock, HasCycle, WaitsFor
  <2> QED
    BY <2>1, <2>3, <2>4 DEF Inv
<1>2. Inv /\ TypeOK' /\ [Next]_vars => Inv'
  <2> SUFFICES ASSUME Inv, TypeOK', [Next]_vars
               PROVE  HoldersCompatible' /\ WaitersAreParked' /\ NoDeadlock'
    BY DEF Inv
  <2> USE DEF Inv
  <2>1. CASE UNCHANGED vars
    BY <2>1, LocksUntouched DEF vars
  <2>2. ASSUME NEW p \in Pids, LockTable(p) \/ SelectForLocking(p)
        PROVE  HoldersCompatible' /\ WaitersAreParked' /\ NoDeadlock'
    <3>1. /\ stmt[p].todo = {}
          /\ UNCHANGED <<holders, waiters>>
          /\ \A q \in Pids \ {p} : stmt'[q] = stmt[q]
      BY <2>2 DEF LockTable, SelectForLocking, StartLocking, Idle, NoStmt, TypeOK
    <3> QED
      BY <3>1, OnlyStatement
  <2>3. ASSUME NEW p \in Pids, NEW o \in Objects, LockGranted(p, o)
        PROVE  HoldersCompatible' /\ WaitersAreParked' /\ NoDeadlock'
    <3>1. stmt[p].mode \in LockMode
      BY <2>3 DEF LockGranted, NextObject, TypeOK, Statement, NoStmt
    <3>2. TryGranted(p, o, stmt[p].mode)
      BY <2>3 DEF LockGranted
    <3>3. \A other \in Objects : waiters[other][p] # None => other = o
      BY <2>3 DEF LockGranted, NextObject
    <3>4. HoldersCompatible' /\ NoDeadlock'
      BY <3>1, <3>2, <3>3, GrantCompatible, GrantNoDeadlock DEF TypeOK
    <3>5. /\ \A obj \in Objects : waiters'[obj][p] = None
          /\ \A obj \in Objects, q \in Pids \ {p} :
                waiters'[obj][q] = waiters[obj][q]
      BY <3>2, <3>3 DEF TryGranted, Grant, WithoutWaiter, TypeOK, LockTypeOK
    <3>6. \A q \in Pids \ {p} : stmt'[q] = stmt[q]
      BY <2>3 DEF LockGranted, Done, TypeOK
    <3> QED
      BY <3>4, <3>5, <3>6, OthersParked
  <2>4. ASSUME NEW p \in Pids, NEW o \in Objects, LockSkipped(p, o)
        PROVE  HoldersCompatible' /\ WaitersAreParked' /\ NoDeadlock'
    <3>1. /\ stmt[p].policy = "SkipLocked"
          /\ UNCHANGED <<holders, waiters>>
          /\ \A q \in Pids \ {p} : stmt'[q] = stmt[q]
      BY <2>4 DEF LockSkipped, Done, TypeOK
    <3> QED
      BY <3>1, OnlyStatement
  <2>5. ASSUME NEW p \in Pids, NEW o \in Objects, LockFailed(p, o)
        PROVE  HoldersCompatible' /\ WaitersAreParked' /\ NoDeadlock'
    <3>1. ReleaseAll(p) /\ \A q \in Pids \ {p} : stmt'[q] = stmt[q]
      BY <2>5 DEF LockFailed, ReturnError, TypeOK
    <3> QED
      BY <3>1, OnRelease
  <2>6. ASSUME NEW p \in Pids, NEW o \in Objects, LockParked(p, o)
        PROVE  HoldersCompatible' /\ WaitersAreParked' /\ NoDeadlock'
    <3>1. HoldersCompatible'
      BY <2>6 DEF LockParked, HoldersCompatible, ConflictsWith
    <3>2. NoDeadlock'
      BY <2>6 DEF LockParked, TryConflict, NoDeadlock, HasCycle, WaitsFor,
                  ConflictsWith
    <3>3. \A obj \in Objects, q \in Pids :
            waiters'[obj][q] = IF obj = o /\ q = p THEN stmt[p].mode
                               ELSE waiters[obj][q]
      BY <2>6 DEF LockParked, WithWaiter, TypeOK, LockTypeOK
    <3>4. /\ stmt[p].policy = "Wait"
          /\ o \in stmt[p].todo
          /\ \A other \in Objects : waiters[other][p] = None
          /\ stmt' = stmt
      BY <2>6 DEF LockParked, GivesUp, NextObject, TypeOK, Statement, NoStmt
    <3>5. WaitersAreParked'
      BY <3>3, <3>4 DEF WaitersAreParked
    <3> QED
      BY <3>1, <3>2, <3>5
  <2>7. ASSUME NEW p \in Pids, FinishLocking(p)
        PROVE  HoldersCompatible' /\ WaitersAreParked' /\ NoDeadlock'
    <3>1. /\ stmt[p].todo = {}
          /\ UNCHANGED <<holders, waiters>>
          /\ \A q \in Pids \ {p} : stmt'[q] = stmt[q]
      BY <2>7 DEF FinishLocking, TypeOK
    <3> QED
      BY <3>1, OnlyStatement
  <2>8. ASSUME NEW p \in Pids,
               \/ Begin(p) \/ StatementError(p) \/ CheckCanceled(p)
               \/ Savepoint(p) \/ ReleaseSavepoint(p) \/ RollbackToSavepoint(p)
               \/ CancelRequest(p) \/ Watchdog(p)
        PROVE  HoldersCompatible' /\ WaitersAreParked' /\ NoDeadlock'
    <3>1. UNCHANGED <<holders, waiters, stmt>>
      BY <2>8 DEF Begin, StatementError, CheckCanceled, Savepoint,
                  ReleaseSavepoint, RollbackToSavepoint, CancelRequest, Watchdog
    <3> QED
      BY <3>1, LocksUntouched
  <2>9. ASSUME NEW p \in Pids,
               Commit(p) \/ Rollback(p) \/ IdleTimeout(p) \/ Disconnect(p)
        PROVE  HoldersCompatible' /\ WaitersAreParked' /\ NoDeadlock'
    <3>1. ReleaseAll(p) /\ stmt' = stmt
      BY <2>9 DEF Commit, Rollback, IdleTimeout, Disconnect
    <3> QED
      BY <3>1, OnRelease
  <2> QED
    BY <2>1, <2>2, <2>3, <2>4, <2>5, <2>6, <2>7, <2>8, <2>9 DEF Next, Run
<1> QED
  BY <1>1, <1>2, TypeCorrect, PTL DEF Spec

\* Two backends never hold an object in conflicting modes.
THEOREM HeldLocksCompatible == Spec => []HoldersCompatible
BY Safety, PTL DEF Inv

\* No set of backends ever waits in a circle.
THEOREM DeadlockFree == Spec => []NoDeadlock
BY Safety, PTL DEF Inv

\* Only a thread inside acquire_lock is queued, and for one object only.
THEOREM QueueEntriesLive == Spec => []WaitersAreParked
BY Safety, PTL DEF Inv

-----------------------------------------------------------------------------
(* Table locks and blocks *)

\* A statement that still has tables to lock runs inside an open block.
TablesNeedBlock == \A p \in Pids : tx[p] # "open" => stmt[p].todo \subseteq Rows

\* Outside blocks no session holds a table lock.
THEOREM TableLocksEnd == Spec => []TableLocksInBlock
<1> DEFINE J == TableLocksInBlock /\ TablesNeedBlock
<1>1. Init => J
  BY DEF Init, LockInit, TableLocksInBlock, TablesNeedBlock, Holds, NoStmt
<1>2. ASSUME TypeOK, J, NEW p \in Pids, ReleaseAll(p),
             \A q \in Pids \ {p} : tx'[q] = tx[q] /\ stmt'[q] = stmt[q],
             stmt'[p].todo = {}
      PROVE  J'
  <2>1. \A o \in Objects, q \in Pids \ {p} : holders'[o][q] = holders[o][q]
    BY <1>2, ReleaseEffect DEF TypeOK
  <2>2. \A o \in Objects : holders'[o][p] = None
    BY <1>2, ReleaseEffect DEF TypeOK
  <2> QED
    BY <1>2, <2>1, <2>2 DEF TableLocksInBlock, TablesNeedBlock, Holds
<1>3. ASSUME TypeOK, J, holders' = holders,
             \A p \in Pids :
                /\ tx'[p] \in {"none", "gone"} => tx[p] = tx'[p]
                /\ stmt'[p].todo \subseteq Rows \/ tx'[p] = "open"
      PROVE  J'
  BY <1>3 DEF TableLocksInBlock, TablesNeedBlock, Holds
<1>4. TypeOK /\ J /\ [Next]_vars => J'
  <2> SUFFICES ASSUME TypeOK, J, [Next]_vars PROVE J'
    OBVIOUS
  <2>1. CASE UNCHANGED vars
    BY <2>1, <1>3 DEF vars, lockVars, TablesNeedBlock
  <2>2. ASSUME NEW p \in Pids, NEW o \in Objects, LockGranted(p, o) PROVE J'
    <3>1. \A q \in Pids, obj \in Objects :
             \/ holders'[obj][q] = holders[obj][q]
             \/ q = p /\ obj = o
      BY <2>2 DEF LockGranted, TryGranted, Grant, TypeOK, LockTypeOK
    <3>2. o \in stmt[p].todo /\ tx' = tx
      BY <2>2 DEF LockGranted, NextObject
    <3>3. \A q \in Pids : stmt'[q].todo \subseteq stmt[q].todo
      BY <2>2 DEF LockGranted, Done, TypeOK
    <3>4. TableLocksInBlock'
      BY <3>1, <3>2 DEF TableLocksInBlock, TablesNeedBlock, Holds
    <3> QED
      BY <3>2, <3>3, <3>4 DEF TablesNeedBlock
  <2>3. ASSUME NEW p \in Pids, NEW o \in Objects,
               LockSkipped(p, o) \/ LockParked(p, o)
        PROVE  J'
    <3>1. \A q \in Pids : stmt'[q].todo \subseteq stmt[q].todo
      BY <2>3 DEF LockSkipped, LockParked, Done, TypeOK
    <3> QED
      BY <2>3, <3>1, <1>3 DEF LockSkipped, LockParked, TablesNeedBlock
  <2>4. ASSUME NEW p \in Pids, NEW o \in Objects, LockFailed(p, o) PROVE J'
    <3>1. /\ ReleaseAll(p)
          /\ \A q \in Pids \ {p} : tx'[q] = tx[q] /\ stmt'[q] = stmt[q]
          /\ stmt'[p].todo = {}
      BY <2>4 DEF LockFailed, ReturnError, MarkError, TypeOK, NoStmt
    <3> QED
      BY <3>1, <1>2
  <2>5. ASSUME NEW p \in Pids,
               Commit(p) \/ Rollback(p) \/ IdleTimeout(p) \/ Disconnect(p)
        PROVE  J'
    <3>1. /\ ReleaseAll(p)
          /\ \A q \in Pids \ {p} : tx'[q] = tx[q] /\ stmt'[q] = stmt[q]
          /\ stmt'[p].todo = {}
      BY <2>5 DEF Commit, Rollback, IdleTimeout, Disconnect, Idle, TypeOK, NoStmt
    <3> QED
      BY <3>1, <1>2
  <2>6. ASSUME NEW p \in Pids, LockTable(p) \/ SelectForLocking(p) PROVE J'
    <3>1. /\ holders' = holders /\ tx' = tx
          /\ \A q \in Pids : stmt'[q].todo \subseteq Rows \/ tx[q] = "open"
      BY <2>6 DEF LockTable, SelectForLocking, StartLocking, TypeOK,
                  TablesNeedBlock
    <3> QED
      BY <3>1, <1>3
  <2>7. ASSUME NEW p \in Pids, FinishLocking(p) PROVE J'
    <3>1. /\ holders' = holders
          /\ \A q \in Pids : tx'[q] = tx[q] \/ (q = p /\ tx'[q] = "failed")
      BY <2>7 DEF FinishLocking, MarkError, TypeOK
    <3>2. /\ stmt'[p].todo = {}
          /\ \A q \in Pids \ {p} : stmt'[q] = stmt[q]
      BY <2>7 DEF FinishLocking, TypeOK, NoStmt
    <3>3. \A q \in Pids : stmt'[q].todo \subseteq Rows \/ tx'[q] = "open"
      BY <3>1, <3>2 DEF TablesNeedBlock
    <3> QED
      BY <3>1, <3>3, <1>3
  <2>8. ASSUME NEW p \in Pids,
               \/ Begin(p) \/ StatementError(p) \/ CheckCanceled(p)
               \/ Savepoint(p) \/ ReleaseSavepoint(p) \/ RollbackToSavepoint(p)
               \/ CancelRequest(p) \/ Watchdog(p)
        PROVE  J'
    <3>1. /\ holders' = holders /\ stmt' = stmt
          /\ \A q \in Pids :
                \/ tx'[q] = tx[q]
                \/ q = p /\ Idle(p) /\ tx'[q] \in {"open", "failed"}
      BY <2>8 DEF Begin, StatementError, CheckCanceled, MarkError, Savepoint,
                  ReleaseSavepoint, RollbackToSavepoint, CancelRequest, Watchdog,
                  TypeOK
    <3>2. \A q \in Pids : stmt[q].todo \subseteq Rows \/ tx'[q] = "open"
      BY <3>1 DEF Idle, NoStmt, TablesNeedBlock
    <3> QED
      BY <3>1, <3>2, <1>3
  <2> QED
    BY <2>1, <2>2, <2>3, <2>4, <2>5, <2>6, <2>7, <2>8 DEF Next, Run
<1> QED
  BY <1>1, <1>4, TypeCorrect, PTL DEF Spec

-----------------------------------------------------------------------------
(* The action property *)

\* While a block goes on, none of its locks is dropped or weakened.
THEOREM LocksKept == Spec => LocksStayInBlock
<1> DEFINE Kept ==
      \A p \in Pids, o \in Objects :
          holders[o][p] # None /\ tx'[p] = "open" =>
              /\ holders'[o][p] # None
              /\ Index[holders'[o][p]] >= Index[holders[o][p]]
<1>1. ASSUME TypeOK, holders' = holders PROVE Kept
  BY <1>1, ModeFacts DEF TypeOK, LockTypeOK, ModeOrNone
<1>2. ASSUME TypeOK, NEW q \in Pids, ReleaseAll(q), tx'[q] # "open" PROVE Kept
  <2>1. \A o \in Objects, p \in Pids \ {q} : holders'[o][p] = holders[o][p]
    BY <1>2, ReleaseEffect DEF TypeOK
  <2> QED
    BY <1>2, <2>1, ModeFacts DEF TypeOK, LockTypeOK, ModeOrNone
<1>3. ASSUME TypeOK, NEW q \in Pids, NEW obj \in Objects, LockGranted(q, obj)
      PROVE  Kept
  <2>1. stmt[q].mode \in LockMode
    BY <1>3 DEF LockGranted, NextObject, TypeOK, Statement, NoStmt
  <2>2. \A o \in Objects, p \in Pids :
          \/ holders'[o][p] = holders[o][p]
          \/ /\ holders'[o][p] \in LockMode
             /\ \/ holders[o][p] = None
                \/ Index[holders'[o][p]] > Index[holders[o][p]]
    BY <1>3, <2>1 DEF LockGranted, TryGranted, Grant, TypeOK, LockTypeOK
  <2> QED
    BY <1>3, <2>2, ModeFacts DEF TypeOK, LockTypeOK, ModeOrNone
<1>4. ASSUME TypeOK, NEW q \in Pids, NEW obj \in Objects, LockFailed(q, obj)
      PROVE  Kept
  <2>1. ReleaseAll(q) /\ tx'[q] # "open"
    BY <1>4 DEF LockFailed, ReturnError, MarkError, TypeOK
  <2> QED
    BY <1>2, <1>4, <2>1
<1>5. ASSUME TypeOK, NEW q \in Pids,
             Commit(q) \/ Rollback(q) \/ IdleTimeout(q) \/ Disconnect(q)
      PROVE  Kept
  <2>1. ReleaseAll(q) /\ tx'[q] # "open"
    BY <1>5 DEF Commit, Rollback, IdleTimeout, Disconnect, TypeOK
  <2> QED
    BY <1>2, <1>5, <2>1
<1>6. ASSUME NEW q \in Pids,
             \/ LockTable(q) \/ SelectForLocking(q) \/ FinishLocking(q)
             \/ \E o \in Objects : LockSkipped(q, o) \/ LockParked(q, o)
             \/ Begin(q) \/ StatementError(q) \/ CheckCanceled(q)
             \/ Savepoint(q) \/ ReleaseSavepoint(q) \/ RollbackToSavepoint(q)
             \/ CancelRequest(q) \/ Watchdog(q)
      PROVE  holders' = holders
  BY <1>6 DEF LockTable, SelectForLocking, StartLocking, FinishLocking,
              LockSkipped, LockParked, Begin, StatementError, CheckCanceled,
              Savepoint, ReleaseSavepoint, RollbackToSavepoint, CancelRequest,
              Watchdog
<1>7. TypeOK /\ [Next]_vars => [Kept]_vars
  BY <1>1, <1>3, <1>4, <1>5, <1>6 DEF Next, Run
<1> QED
  BY <1>7, TypeCorrect, PTL DEF Spec, LocksStayInBlock
=============================================================================
