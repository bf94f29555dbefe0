----------------------------- MODULE LockServer -----------------------------
(***************************************************************************)
(* The connection threads of crates/server/src/server.rs as users of the   *)
(* lock manager: LOCK TABLE and SELECT ... FOR UPDATE/SHARE take locks one *)
(* object at a time through the loop of acquire_lock, and COMMIT, ROLLBACK,*)
(* the idle timeout and the end of the connection release them.  Cancel    *)
(* requests and the statement_timeout watchdog arrive at any moment.       *)
(*                                                                         *)
(* One iteration of acquire_lock's loop runs under the lock-manager mutex  *)
(* and is one step.  A parked thread retries after every notification and  *)
(* after 50 ms in any case, so a retry is always possible and the condition*)
(* variable adds no behaviour of its own.                                  *)
(***************************************************************************)
EXTENDS LockManager

CONSTANTS
    Rows,           \* the objects that are rows; the others are tables
    TableModes,     \* the modes that LOCK TABLE asks for
    RowPolicies,    \* the wait policies that FOR UPDATE/SHARE uses
    Interrupted,    \* backends that cancel requests and statement_timeout reach
    Nested          \* backends whose blocks use savepoints

ASSUME RequestAssumption ==
    /\ Rows \subseteq Objects
    /\ TableModes \subseteq LockMode
    /\ RowPolicies \subseteq {"Wait", "NoWait", "SkipLocked"}
    /\ Interrupted \subseteq Pids
    /\ Nested \subseteq Pids

VARIABLES
    tx,         \* tx[p]: "none", "open", "failed", or "gone" once disconnected
    stmt,       \* stmt[p]: the locking statement that p is executing
    savepoint,  \* savepoint[p]: whether the block has a savepoint
    cancel,     \* cancel[p]: the cancel flag of the backend handle
    fired       \* fired[p]: the watchdog of the running statement went off

vars == <<holders, waiters, tx, stmt, savepoint, cancel, fired>>

\* FOR UPDATE and FOR NO KEY UPDATE lock a row Exclusive, the others Share.
RowModes == {"Exclusive", "Share"}

\* The part of a locking statement that is still to do.  The order in which
\* the code meets the tables or rows is left open.
Statement ==
    [mode : LockMode, policy : {"Wait", "NoWait", "SkipLocked"},
     todo : SUBSET Objects]

NoStmt == [mode |-> None, policy |-> None, todo |-> {}]

Idle(p) == tx[p] # "gone" /\ stmt[p] = NoStmt
Running(p) == stmt[p] # NoStmt
Parked(p) == \E o \in Objects : waiters[o][p] # None
Holds(p) == {o \in Objects : holders[o][p] # None}

\* Lock tables, blocks, statements and flags keep their types.
TypeOK ==
    /\ LockTypeOK
    /\ tx \in [Pids -> {"none", "open", "failed", "gone"}]
    /\ stmt \in [Pids -> Statement \cup {NoStmt}]
    /\ savepoint \in [Pids -> BOOLEAN]
    /\ cancel \in [Pids -> BOOLEAN]
    /\ fired \in [Pids -> BOOLEAN]

Init ==
    /\ LockInit
    /\ tx = [p \in Pids |-> "none"]
    /\ stmt = [p \in Pids |-> NoStmt]
    /\ savepoint = [p \in Pids |-> FALSE]
    /\ cancel = [p \in Pids |-> FALSE]
    /\ fired = [p \in Pids |-> FALSE]

-----------------------------------------------------------------------------
(* Pieces shared by the handlers *)

\* mark_error: an error inside a block fails the block.
MarkError(p) ==
    tx' = [tx EXCEPT ![p] = IF @ = "open" THEN "failed" ELSE @]

\* The end of run_statement_timed: a watchdog that fired takes its cancel flag
\* with it.
StopWatchdog(p) ==
    /\ fired' = [fired EXCEPT ![p] = FALSE]
    /\ cancel' = [cancel EXCEPT ![p] = IF fired[p] THEN FALSE ELSE @]

\* MUTANT of ReturnError: the block does not fail.
ReturnErrorKeepsBlock(p) ==
    /\ stmt' = [stmt EXCEPT ![p] = NoStmt]
    /\ UNCHANGED tx
    /\ StopWatchdog(p)

\* A locking statement returns an error to the client.
ReturnError(p) ==
    /\ stmt' = [stmt EXCEPT ![p] = NoStmt]
    /\ MarkError(p)
    /\ StopWatchdog(p)

\* Objects are locked one after the other: the next object is any that remains,
\* but a thread that is parked retries the one it is parked on.
NextObject(p, o) ==
    /\ o \in stmt[p].todo
    /\ \A other \in Objects : waiters[other][p] # None => other = o

\* One object of the statement is dealt with.
Done(p, o) ==
    stmt' = [stmt EXCEPT ![p] =
        [mode |-> @.mode, policy |-> @.policy, todo |-> @.todo \ {o}]]

-----------------------------------------------------------------------------
(* Statements that take locks *)

StartLocking(p, m, w, objs) ==
    /\ Idle(p)
    /\ ~cancel[p]
    /\ stmt' = [stmt EXCEPT ![p] = [mode |-> m, policy |-> w, todo |-> objs]]
    /\ UNCHANGED <<holders, waiters, tx, savepoint, cancel, fired>>

\* LOCK TABLE t, ... IN m MODE [NOWAIT] needs a block that has not failed.
LockTable(p) ==
    /\ tx[p] = "open"
    /\ \E m \in TableModes, w \in {"Wait", "NoWait"},
          objs \in (SUBSET (Objects \ Rows)) \ {{}} : StartLocking(p, m, w, objs)

\* SELECT ... FOR UPDATE/SHARE once the SELECT has produced the rows objs; it
\* runs in autocommit too.
SelectForLocking(p) ==
    /\ tx[p] \in {"none", "open"}
    /\ \E m \in RowModes, w \in RowPolicies,
          objs \in (SUBSET Rows) \ {{}} : StartLocking(p, m, w, objs)

LockGranted(p, o) ==
    /\ NextObject(p, o)
    /\ TryGranted(p, o, stmt[p].mode)
    /\ Done(p, o)
    /\ UNCHANGED <<tx, savepoint, cancel, fired>>

\* SKIP LOCKED leaves out a row that somebody else has locked.
LockSkipped(p, o) ==
    /\ NextObject(p, o)
    /\ stmt[p].policy = "SkipLocked"
    /\ IsLockedByOther(p, o, stmt[p].mode)
    /\ Done(p, o)
    /\ UNCHANGED <<holders, waiters, tx, savepoint, cancel, fired>>

\* MUTANT of GivesUp: the cancel flag is not looked at.
NoWaitOnly(p) == stmt[p].policy = "NoWait"

\* A conflict that acquire_lock does not wait out.
GivesUp(p) == stmt[p].policy = "NoWait" \/ cancel[p]

\* acquire_lock gives up: the wait would deadlock, the statement said NOWAIT,
\* or the backend was cancelled.  In all three cases release_all(pid) runs.
LockFailed(p, o) ==
    /\ NextObject(p, o)
    /\ stmt[p].policy # "SkipLocked"
    /\ \/ TryDeadlock(p, o, stmt[p].mode)
       \/ /\ TryConflict(p, o, stmt[p].mode)
          /\ GivesUp(p)
    /\ ReleaseAll(p)
    /\ ReturnError(p)
    /\ UNCHANGED savepoint

\* acquire_lock parks.  A retry that finds the same conflict changes nothing.
LockParked(p, o) ==
    /\ NextObject(p, o)
    /\ stmt[p].policy # "SkipLocked" /\ ~GivesUp(p)
    /\ waiters[o][p] = None
    /\ TryConflict(p, o, stmt[p].mode)
    /\ waiters' = WithWaiter(p, o, stmt[p].mode)
    /\ UNCHANGED <<holders, tx, stmt, savepoint, cancel, fired>>

\* The statement returns.  If the watchdog fired meanwhile the client gets an
\* error although the locks were taken.
FinishLocking(p) ==
    /\ Running(p)
    /\ stmt[p].todo = {}
    /\ stmt' = [stmt EXCEPT ![p] = NoStmt]
    /\ StopWatchdog(p)
    /\ IF fired[p] THEN MarkError(p) ELSE UNCHANGED tx
    /\ UNCHANGED <<holders, waiters, savepoint>>

-----------------------------------------------------------------------------
(* Other statements and events *)

Begin(p) ==
    /\ Idle(p) /\ ~cancel[p] /\ tx[p] = "none"
    /\ tx' = [tx EXCEPT ![p] = "open"]
    /\ UNCHANGED <<holders, waiters, stmt, savepoint, cancel, fired>>

\* Any other statement that fails inside the block.
StatementError(p) ==
    /\ Idle(p) /\ ~cancel[p] /\ tx[p] = "open"
    /\ MarkError(p)
    /\ UNCHANGED <<holders, waiters, stmt, savepoint, cancel, fired>>

\* check_canceled at the start of a statement consumes the flag.
CheckCanceled(p) ==
    /\ Idle(p) /\ cancel[p]
    /\ cancel' = [cancel EXCEPT ![p] = FALSE]
    /\ MarkError(p)
    /\ UNCHANGED <<holders, waiters, stmt, savepoint, fired>>

\* COMMIT and PREPARE TRANSACTION, whether they publish, roll back a failed
\* block or report a serialization failure, end the block and release.
Commit(p) ==
    /\ Idle(p) /\ ~cancel[p] /\ tx[p] \in {"open", "failed"}
    /\ tx' = [tx EXCEPT ![p] = "none"]
    /\ savepoint' = [savepoint EXCEPT ![p] = FALSE]
    /\ ReleaseAll(p)
    /\ UNCHANGED <<stmt, cancel, fired>>

\* ROLLBACK releases even when there is no block.
Rollback(p) ==
    /\ Idle(p) /\ ~cancel[p]
    /\ tx' = [tx EXCEPT ![p] = "none"]
    /\ savepoint' = [savepoint EXCEPT ![p] = FALSE]
    /\ ReleaseAll(p)
    /\ UNCHANGED <<stmt, cancel, fired>>

\* The idle-in-transaction timeout, found at the next message.
IdleTimeout(p) ==
    /\ Idle(p) /\ tx[p] \in {"open", "failed"}
    /\ tx' = [tx EXCEPT ![p] = "none"]
    /\ savepoint' = [savepoint EXCEPT ![p] = FALSE]
    /\ ReleaseAll(p)
    /\ UNCHANGED <<stmt, cancel, fired>>

\* The connection ends and ConnGuard is dropped.
Disconnect(p) ==
    /\ Idle(p)
    /\ tx' = [tx EXCEPT ![p] = "gone"]
    /\ savepoint' = [savepoint EXCEPT ![p] = FALSE]
    /\ ReleaseAll(p)
    /\ UNCHANGED <<stmt, cancel, fired>>

\* One savepoint name: setting it again replaces the older one.
Savepoint(p) ==
    /\ p \in Nested
    /\ Idle(p) /\ ~cancel[p] /\ tx[p] \in {"open", "failed"}
    /\ savepoint' = [savepoint EXCEPT ![p] = TRUE]
    /\ UNCHANGED <<holders, waiters, tx, stmt, cancel, fired>>

ReleaseSavepoint(p) ==
    /\ Idle(p) /\ ~cancel[p] /\ savepoint[p]
    /\ savepoint' = [savepoint EXCEPT ![p] = FALSE]
    /\ UNCHANGED <<holders, waiters, tx, stmt, cancel, fired>>

\* ROLLBACK TO revives a failed block; locks are not touched.
RollbackToSavepoint(p) ==
    /\ Idle(p) /\ ~cancel[p] /\ savepoint[p]
    /\ tx' = [tx EXCEPT ![p] = "open"]
    /\ UNCHANGED <<holders, waiters, stmt, savepoint, cancel, fired>>

\* A CancelRequest on another connection names this backend.
CancelRequest(p) ==
    /\ p \in Interrupted
    /\ tx[p] # "gone"
    /\ cancel' = [cancel EXCEPT ![p] = TRUE]
    /\ UNCHANGED <<holders, waiters, tx, stmt, savepoint, fired>>

\* The statement_timeout watchdog reaches its deadline.
Watchdog(p) ==
    /\ p \in Interrupted
    /\ Running(p)
    /\ fired' = [fired EXCEPT ![p] = TRUE]
    /\ cancel' = [cancel EXCEPT ![p] = TRUE]
    /\ UNCHANGED <<holders, waiters, tx, stmt, savepoint>>

-----------------------------------------------------------------------------
\* The thread executing a locking statement makes its next step.
Run(p) ==
    \/ \E o \in Objects : \/ LockGranted(p, o)
                          \/ LockSkipped(p, o)
                          \/ LockFailed(p, o)
                          \/ LockParked(p, o)
    \/ FinishLocking(p)

Next ==
    \E p \in Pids :
        \/ LockTable(p) \/ SelectForLocking(p) \/ Run(p)
        \/ Begin(p) \/ StatementError(p) \/ CheckCanceled(p)
        \/ Commit(p) \/ Rollback(p) \/ IdleTimeout(p) \/ Disconnect(p)
        \/ Savepoint(p) \/ ReleaseSavepoint(p) \/ RollbackToSavepoint(p)
        \/ CancelRequest(p) \/ Watchdog(p)

Spec == Init /\ [][Next]_vars

\* A thread that executes a statement keeps running, and a parked one wakes
\* after 50 ms at the latest.
Scheduling == \A p \in Pids : WF_vars(Run(p))

\* No client sends statements for ever: one that is idle again and again
\* eventually closes its connection.
ClientsLeave == \A p \in Pids : SF_vars(Disconnect(p))

FairSpec == Spec /\ Scheduling

-----------------------------------------------------------------------------
(* Properties *)

\* Two backends never hold the same object in conflicting modes (the purpose
\* of try_acquire's conflict test, across upgrades, SKIP LOCKED and releases).
HoldersCompatible ==
    \A o \in Objects, p, q \in Pids :
        p # q => ~ConflictsWith(holders[o][p], holders[o][q])

\* The wait-for graph has no cycle at rest: refusing the wait that would close
\* one is enough, although grants overtake queued waiters and an upgrade can
\* add edges towards the backend that is granted.
NoDeadlock == ~HasCycle(waiters)

\* A queue entry belongs to a thread that is inside acquire_lock for that
\* object and mode: NOWAIT, cancellation, deadlock and the timeout leave none
\* behind, and nobody is queued for two objects.
WaitersAreParked ==
    \A p \in Pids, o \in Objects :
        waiters[o][p] # None =>
            /\ stmt[p].policy = "Wait"
            /\ stmt[p].mode = waiters[o][p]
            /\ o \in stmt[p].todo
            /\ \A other \in Objects \ {o} : waiters[other][p] = None

\* Locks are given up only by a step that ends or fails the block: while the
\* block goes on, a lock stays and its mode does not move down.
LocksStayInBlock ==
    [][\A p \in Pids, o \in Objects :
          holders[o][p] # None /\ tx'[p] = "open" =>
              /\ holders'[o][p] # None
              /\ Index[holders'[o][p]] >= Index[holders[o][p]]]_vars

\* A cancelled wait returns, whatever the other sessions do (acquire_lock: "the
\* cancel flag is honored so a canceled statement does not block forever").
CanceledWaitReturns ==
    \A p \in Pids : (Parked(p) /\ cancel[p]) ~> ~Parked(p)

\* If clients eventually leave, no locking statement waits for ever: waits
\* cannot be circular and no queue entry is forgotten.
EveryWaitReturns ==
    ClientsLeave => \A p \in Pids : Parked(p) ~> ~Parked(p)

\* Every wait of acquire_lock returns, for either of the two reasons.
WaitsReturn == CanceledWaitReturns /\ EveryWaitReturns

\* Table locks belong to blocks: a session that is outside a block, because the
\* block ended, timed out or the connection closed, holds none.  Row locks that
\* FOR UPDATE/SHARE took outside a block do stay.
TableLocksInBlock ==
    \A p \in Pids : tx[p] \in {"none", "gone"} => Holds(p) \subseteq Rows
=============================================================================
