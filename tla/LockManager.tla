---------------------------- MODULE LockManager ----------------------------
(***************************************************************************)
(* The lock manager of crates/engine/src/lock.rs: for every lockable       *)
(* object, which backend holds it in which mode and which backend is       *)
(* queued for it.  The functions of lock.rs are the operators below; the   *)
(* thread that calls them in a loop (server.rs, acquire_lock) is modelled  *)
(* in LockServer.                                                          *)
(*                                                                         *)
(* The code keeps holders and waiters in vectors, at most one entry per    *)
(* backend; only who has an entry and in which mode matters, so each is a  *)
(* function from backends to a mode or None.                               *)
(***************************************************************************)
EXTENDS Naturals, FiniteSets

CONSTANTS
    Pids,       \* the backends (one per connection)
    Objects     \* tables and rows that can be locked

VARIABLES
    holders,    \* holders[o][p]: the mode p holds o in, or None
    waiters     \* waiters[o][p]: the mode p is queued for o in, or None

lockVars == <<holders, waiters>>

LockMode ==
    {"AccessShare", "RowShare", "RowExclusive", "ShareUpdateExclusive",
     "Share", "ShareRowExclusive", "Exclusive", "AccessExclusive"}

None == "None"

ModeOrNone == LockMode \cup {None}

\* LockMode::index, the position in the declaration order.
Index ==
    [AccessShare |-> 0, RowShare |-> 1, RowExclusive |-> 2,
     ShareUpdateExclusive |-> 3, Share |-> 4, ShareRowExclusive |-> 5,
     Exclusive |-> 6, AccessExclusive |-> 7]

\* The conflict matrix, one row per mode.
CONFLICTS ==
    [AccessShare |-> {"AccessExclusive"},
     RowShare |-> {"Exclusive", "AccessExclusive"},
     RowExclusive |->
        {"Share", "ShareRowExclusive", "Exclusive", "AccessExclusive"},
     ShareUpdateExclusive |->
        {"ShareUpdateExclusive", "Share", "ShareRowExclusive", "Exclusive",
         "AccessExclusive"},
     Share |->
        {"RowExclusive", "ShareUpdateExclusive", "ShareRowExclusive",
         "Exclusive", "AccessExclusive"},
     ShareRowExclusive |->
        {"RowExclusive", "ShareUpdateExclusive", "Share",
         "ShareRowExclusive", "Exclusive", "AccessExclusive"},
     Exclusive |-> LockMode \ {"AccessShare"},
     AccessExclusive |-> LockMode]

\* None, the absence of an entry, conflicts with nothing.
ConflictsWith(a, b) == a \in LockMode /\ b \in CONFLICTS[a]

-----------------------------------------------------------------------------
(* Queries *)

\* The backends whose hold on o keeps p from taking it in mode m.
Conflicting(p, o, m) ==
    {q \in Pids \ {p} : ConflictsWith(holders[o][q], m)}

\* is_locked_by_other: the SKIP LOCKED probe.
IsLockedByOther(p, o, m) == Conflicting(p, o, m) # {}

\* An edge of wait_for_graph over the waiters W: p is queued behind q.
WaitsFor(W, p, q) ==
    /\ p # q
    /\ \E o \in Objects :
          /\ W[o][p] # None
          /\ ConflictsWith(holders[o][q], W[o][p])

\* has_cycle, by what it decides: a finite graph has a cycle exactly when some
\* nonempty set of nodes keeps an edge inside the set from each of its nodes.
\* The search that the code performs is modelled in CycleSearch.
HasCycle(W) ==
    \E S \in SUBSET Pids :
        S # {} /\ \A p \in S : \E q \in S : WaitsFor(W, p, q)

-----------------------------------------------------------------------------
(* Updates *)

\* add_waiter: a backend queues at most once per object.
WithWaiter(p, o, m) ==
    [waiters EXCEPT ![o][p] = IF @ = None THEN m ELSE @]

\* The waiters of grant and remove_waiter.
WithoutWaiter(p, o) == [waiters EXCEPT ![o][p] = None]

\* grant: the wait is over; a backend that already holds the object keeps one
\* entry, whose mode is replaced only by a mode of larger index.
Grant(p, o, m) ==
    /\ waiters' = WithoutWaiter(p, o)
    /\ holders' = [holders EXCEPT ![o][p] =
                     IF @ = None \/ Index[m] > Index[@] THEN m ELSE @]

\* MUTANT of TryGranted: a holder is granted any mode.
TryGrantedReentrant(p, o, m) ==
    /\ Conflicting(p, o, m) = {} \/ holders[o][p] # None
    /\ Grant(p, o, m)

\* The three outcomes of try_acquire.
TryGranted(p, o, m) ==
    /\ Conflicting(p, o, m) = {}
    /\ Grant(p, o, m)

TryDeadlock(p, o, m) ==
    /\ Conflicting(p, o, m) # {}
    /\ HasCycle(WithWaiter(p, o, m))

\* MUTANT of TryConflict: the new edges are not in the graph.
TryConflictStale(p, o, m) ==
    /\ Conflicting(p, o, m) # {}
    /\ ~HasCycle(waiters)

TryConflict(p, o, m) ==
    /\ Conflicting(p, o, m) # {}
    /\ ~HasCycle(WithWaiter(p, o, m))

\* release_all: drop every hold and every wait of p.
ReleaseAll(p) ==
    /\ holders' = [o \in Objects |-> [holders[o] EXCEPT ![p] = None]]
    /\ waiters' = [o \in Objects |-> [waiters[o] EXCEPT ![p] = None]]

LockInit ==
    /\ holders = [o \in Objects |-> [p \in Pids |-> None]]
    /\ waiters = [o \in Objects |-> [p \in Pids |-> None]]

LockTypeOK ==
    /\ holders \in [Objects -> [Pids -> ModeOrNone]]
    /\ waiters \in [Objects -> [Pids -> ModeOrNone]]
=============================================================================
