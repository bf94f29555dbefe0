---------------------------- MODULE Transactions ----------------------------
(***************************************************************************)
(* Transactions of crates/server/src/server.rs: run_statement, run_plain,  *)
(* execute_autocommit and replay, with the commit bookkeeping of           *)
(* crates/engine/src/storage.rs.                                           *)
(*                                                                         *)
(* A block works on a private clone of the whole database.  COMMIT puts    *)
(* the clone in the place of the shared database under the db mutex, and   *)
(* then, under the WAL mutex only, appends the SQL of its statements one   *)
(* record at a time.  Autocommit statements change the shared database and *)
(* append their record under the db mutex.  A restart replays the WAL.     *)
(*                                                                         *)
(* Every writing statement is a number from a global clock, and a table    *)
(* holds the sequence of the statements that were applied to it: enough to *)
(* tell apart any two orders and any lost or leaked statement.             *)
(***************************************************************************)
EXTENDS Naturals, Sequences, SequencesExt, FiniteSets

CONSTANTS
    Sessions,       \* connections
    Tables,
    Side,           \* pairs <<t, u>>: a statement on t also changes u, by a
                    \* trigger or by routing rows to a partition
    Levels,         \* isolation levels in use
    AccessModes,    \* values of READ ONLY in use
    Names,          \* savepoint names in use
    Autocommitters, \* sessions that write outside blocks
    TwoPhase,       \* whether blocks also end by PREPARE TRANSACTION
    PartialEffects, \* whether a statement can fail after changing rows
    WalFails,       \* whether a WAL append can fail
    MaxClock,       \* bound: statements and blocks of a behaviour
    MaxCrashes      \* bound: crashes of a behaviour

ASSUME TransactionsAssumption ==
    /\ Side \subseteq Tables \X Tables
    /\ Levels \subseteq {"ReadUncommitted", "ReadCommitted", "RepeatableRead",
                          "Serializable"}
    /\ AccessModes \subseteq BOOLEAN
    /\ Autocommitters \subseteq Sessions
    /\ {TwoPhase, PartialEffects, WalFails} \subseteq BOOLEAN
    /\ MaxClock \in Nat /\ MaxCrashes \in Nat

VARIABLES
    db,             \* the shared database: db[t], the statements applied to t
    version,        \* commit_version
    stamp,          \* table_versions
    wal,            \* the records of the WAL
    walOwner,       \* {} or {the session that holds the WAL mutex}
    tx,             \* tx[s]: the block of s
    gids,           \* gids[s]: blocks that s prepared, each as its statements
    clock,
    crashes,
    acked,          \* history: statements whose commit the client was told of
    undone,         \* history: statements that were rolled back
    partial,        \* history: statements that failed after changing rows
    unlogged,       \* history: statements whose append failed
    published,      \* history: the records of each block put in place
    lostUpdates,    \* history: statements of blocks that a serializing COMMIT
                    \*          overwrote in a table both of them name
    lostOthers      \* history: statements it removed from tables it did not
                    \*          write

commits == <<acked, published, lostUpdates, lostOthers>>

vars == <<db, version, stamp, wal, walOwner, tx, gids, clock, crashes, undone,
          partial, unlogged, commits>>

-----------------------------------------------------------------------------
Statements == 1..MaxClock
Database == [Tables -> Seq(Statements)]
Record == [tab : Tables, id : Statements]

\* The tables that a statement on t changes.
Changed(t) == {t} \cup {u \in Tables : <<t, u>> \in Side}

\* execute: the effect of statement n on table t of database d.
Apply(d, t, n) ==
    [u \in Tables |-> IF u \in Changed(t) THEN Append(d[u], n) ELSE d[u]]

\* The statements among records that changed u, in order.
On(records, u) ==
    LET mine == SelectSeq(records, LAMBDA r : u \in Changed(r.tab))
    IN  [i \in DOMAIN mine |-> mine[i].id]

Ids(records) == {records[i].id : i \in DOMAIN records}
Contents(d) == UNION {Range(d[t]) : t \in Tables}

\* replay: apply the records in order to an empty database.
Replay(records) == [t \in Tables |-> On(records, t)]

NoBlock == [status |-> "none"]
InBlock(s) == tx[s].status \in {"open", "failed"}
Tick == clock < MaxClock /\ clock' = clock + 1

SavepointType ==
    [name : Names, db : Database, len : Nat, wset : SUBSET Tables]

Transaction ==
    [status : {"open", "failed"}, level : Levels, readOnly : AccessModes,
     began : Nat, snapshot : Nat, db : Database, buffered : Seq(Record),
     wset : SUBSET Tables, savepoints : Seq(SavepointType)]

\* A block whose clone is in place and whose records are being appended.
Committing ==
    [status : {"logging"}, todo : Seq(Record), ids : SUBSET Statements,
     prepare : BOOLEAN]

\* Every variable keeps the type the code declares for it; a block is either
\* absent or complete (session.tx: Option<Transaction>).
TypeOK ==
    /\ db \in Database
    /\ version \in Nat /\ stamp \in [Tables -> Nat]
    /\ wal \in Seq(Record)
    /\ walOwner \in {{}} \cup {{s} : s \in Sessions}
    /\ DOMAIN tx = Sessions
    /\ \A s \in Sessions : tx[s] \in {NoBlock} \cup Transaction \cup Committing
    /\ gids \in [Sessions -> SUBSET SUBSET Statements]
    /\ clock \in 0..MaxClock /\ crashes \in 0..MaxCrashes
    /\ UNION {acked, undone, partial, unlogged, lostUpdates, lostOthers}
          \subseteq Statements
    /\ published \subseteq SUBSET Record

Init ==
    /\ db = [t \in Tables |-> <<>>]
    /\ version = 0 /\ stamp = [t \in Tables |-> 0]
    /\ wal = <<>> /\ walOwner = {}
    /\ tx = [s \in Sessions |-> NoBlock]
    /\ gids = [s \in Sessions |-> {}]
    /\ clock = 0 /\ crashes = 0
    /\ acked = {} /\ undone = {} /\ partial = {} /\ unlogged = {}
    /\ published = {}
    /\ lostUpdates = {} /\ lostOthers = {}

\* What a statement inside a block leaves alone.
SharedUntouched ==
    UNCHANGED <<db, version, stamp, wal, walOwner, gids, crashes, unlogged,
                commits>>

-----------------------------------------------------------------------------
(* Statements inside a block *)

\* BEGIN clones the shared database and reads commit_version under the mutex.
Begin(s) ==
    /\ tx[s] = NoBlock
    /\ Tick
    /\ \E l \in Levels, ro \in AccessModes :
          tx' = [tx EXCEPT ![s] =
             [status |-> "open", level |-> l, readOnly |-> ro,
              began |-> clock', snapshot |-> version, db |-> db,
              buffered |-> <<>>, wset |-> {}, savepoints |-> <<>>]]
    /\ UNCHANGED <<undone, partial>> /\ SharedUntouched

\* SET TRANSACTION adjusts the running block.
SetTransaction(s) ==
    /\ InBlock(s)
    /\ \E l \in Levels, ro \in AccessModes :
          tx' = [tx EXCEPT ![s].level = l, ![s].readOnly = ro]
    /\ UNCHANGED <<clock, undone, partial>> /\ SharedUntouched

\* A statement that writes t runs on the working copy; its SQL is buffered and
\* the table it names enters the write set.
Execute(s, t) ==
    /\ tx[s].status = "open" /\ ~tx[s].readOnly
    /\ Tick
    /\ tx' = [tx EXCEPT
                ![s].db = Apply(@, t, clock'),
                ![s].buffered = Append(@, [tab |-> t, id |-> clock']),
                ![s].wset = @ \cup {t}]
    /\ UNCHANGED <<undone, partial>> /\ SharedUntouched

\* A statement fails and with it the block.
ExecuteFails(s) ==
    /\ tx[s].status = "open"
    /\ tx' = [tx EXCEPT ![s].status = "failed"]
    /\ UNCHANGED <<clock, undone, partial>> /\ SharedUntouched

\* The executor checks rows before it changes any, but the triggers of a
\* statement run, and can fail, after its rows were changed.
ExecuteFailsLate(s, t) ==
    /\ PartialEffects
    /\ tx[s].status = "open" /\ ~tx[s].readOnly
    /\ Tick
    /\ tx' = [tx EXCEPT ![s].status = "failed",
                        ![s].db[t] = Append(@, clock')]
    /\ partial' = partial \cup {clock'}
    /\ UNCHANGED undone /\ SharedUntouched

\* SAVEPOINT, also in a failed block: an older one of that name is dropped.
Savepoint(s, n) ==
    /\ InBlock(s)
    /\ tx' = [tx EXCEPT ![s].savepoints =
                Append(SelectSeq(@, LAMBDA sp : sp.name # n),
                       [name |-> n, db |-> tx[s].db,
                        len |-> Len(tx[s].buffered), wset |-> tx[s].wset])]
    /\ UNCHANGED <<clock, undone, partial>> /\ SharedUntouched

\* rposition: the newest savepoint called n, 0 if there is none.
Position(s, n) ==
    SelectLastInSeq(tx[s].savepoints, LAMBDA sp : sp.name = n)

ReleaseSavepoint(s, n) ==
    /\ InBlock(s) /\ Position(s, n) > 0
    /\ tx' = [tx EXCEPT ![s].savepoints = SubSeq(@, 1, Position(s, n) - 1)]
    /\ UNCHANGED <<clock, undone, partial>> /\ SharedUntouched

\* MUTANT of TruncateBuffer: ROLLBACK TO forgets the buffered SQL.
KeepBuffer(records, len) == records

\* tx.buffered.truncate(sp.buffered_len)
TruncateBuffer(records, len) == SubSeq(records, 1, len)

\* MUTANT of NewerDropped: later savepoints survive ROLLBACK TO.
NewerKept(savepoints, pos) == savepoints

\* tx.savepoints.truncate(pos + 1): later savepoints go, this one stays.
NewerDropped(savepoints, pos) == SubSeq(savepoints, 1, pos)

\* ROLLBACK TO restores the working copy, the buffer and the write set, and
\* revives a failed block.
RollbackToSavepoint(s, n) ==
    /\ InBlock(s) /\ Position(s, n) > 0
    /\ LET sp == tx[s].savepoints[Position(s, n)]
       IN  /\ tx' = [tx EXCEPT
                ![s].db = sp.db,
                ![s].buffered = TruncateBuffer(@, sp.len),
                ![s].wset = sp.wset,
                ![s].savepoints = NewerDropped(@, Position(s, n)),
                ![s].status = "open"]
           /\ undone' = undone \cup
                {r.id : r \in Range(SubSeq(tx[s].buffered, sp.len + 1,
                                           Len(tx[s].buffered)))}
    /\ UNCHANGED <<clock, partial>> /\ SharedUntouched

-----------------------------------------------------------------------------
(* The end of a block *)

\* session.tx.take()
Taken(s) == NoBlock

\* The working copy is dropped: ROLLBACK, COMMIT of a failed block, the idle
\* timeout, the end of the connection.
Discard(s) ==
    /\ tx' = [tx EXCEPT ![s] = Taken(s)]
    /\ undone' = undone \cup Ids(tx[s].buffered)
    /\ UNCHANGED <<clock, partial>> /\ SharedUntouched

Rollback(s) == InBlock(s) /\ Discard(s)

\* MUTANT of HasConflictingCommit: only a commit that began before ours.
MissesFirstCommit(s) == \E t \in tx[s].wset : stamp[t] > tx[s].snapshot + 1

\* has_conflicting_commit
HasConflictingCommit(s) == \E t \in tx[s].wset : stamp[t] > tx[s].snapshot

Serializing(s) == tx[s].level \in {"RepeatableRead", "Serializable"}
Conflict(s) == Serializing(s) /\ HasConflictingCommit(s)

CommitConflict(s) == tx[s].status = "open" /\ Conflict(s) /\ Discard(s)

\* What the shared database holds in t and the clone of s does not.
Unseen(s, t) == Range(db[t]) \ Range(tx[s].db[t])
Named(s) == {r.tab : r \in Range(tx[s].buffered)}
Written(s) == UNION {Changed(t) : t \in Named(s)}

\* What putting the clone of s in place removes from the shared database.
RecordLosses(s) ==
    /\ lostUpdates' = lostUpdates \cup
          {r.id : r \in {b \in UNION published :
                           /\ Serializing(s) /\ b.tab \in Named(s)
                           /\ b.id \in Unseen(s, b.tab)}}
    /\ lostOthers' = lostOthers \cup
          (IF Serializing(s) THEN UNION {Unseen(s, t) : t \in Tables \ Written(s)}
                             ELSE {})

\* COMMIT and PREPARE TRANSACTION put the clone in place: adopt_commit_state,
\* record_commit, *shared_db = working.  The db mutex is then released, before
\* the WAL mutex is taken.
Publish(s) ==
    /\ tx[s].status = "open" /\ ~Conflict(s)
    /\ db' = tx[s].db
    /\ version' = version + 1
    /\ stamp' = [t \in Tables |->
                   IF t \in tx[s].wset THEN version + 1 ELSE stamp[t]]
    /\ \E prepare \in {FALSE, TwoPhase} :
          tx' = [tx EXCEPT ![s] =
             [status |-> "logging", todo |-> tx[s].buffered,
              ids |-> Ids(tx[s].buffered), prepare |-> prepare]]
    /\ published' = published \cup {Range(tx[s].buffered)}
    /\ RecordLosses(s)
    /\ UNCHANGED <<wal, walOwner, gids, clock, crashes, acked, undone, partial,
                   unlogged>>

\* The WAL mutex is held over the whole loop.
HoldWal(s) == {s}

\* wal_append.  A failed append is only reported on stderr.
WalAppend(rec) ==
    \/ wal' = Append(wal, rec) /\ UNCHANGED unlogged
    \/ WalFails /\ unlogged' = unlogged \cup {rec.id} /\ UNCHANGED wal

\* MUTANT of NextRecord: the buffer is popped from its end.
LastRecord(todo) == Last(todo)

NextRecord(todo) == Head(todo)

\* One turn of the loop over tx.buffered.
AppendRecord(s) ==
    /\ tx[s].status = "logging" /\ tx[s].todo # <<>>
    /\ walOwner \subseteq {s}
    /\ walOwner' = HoldWal(s)
    /\ WalAppend(NextRecord(tx[s].todo))
    /\ tx' = [tx EXCEPT ![s].todo = Tail(@)]
    /\ UNCHANGED <<db, version, stamp, gids, clock, crashes, undone, partial,
                   commits>>

Flushed(s) == tx[s].todo = <<>>

\* The WAL mutex is released, a prepared gid is remembered, the client is told.
CommitReturns(s) ==
    /\ tx[s].status = "logging" /\ Flushed(s)
    /\ walOwner \subseteq {s} /\ walOwner' = {}
    /\ tx' = [tx EXCEPT ![s] = NoBlock]
    /\ gids' = IF tx[s].prepare THEN [gids EXCEPT ![s] = @ \cup {tx[s].ids}]
                                ELSE gids
    /\ acked' = acked \cup tx[s].ids
    /\ UNCHANGED <<db, version, stamp, wal, clock, crashes, undone, partial,
                   unlogged, published, lostUpdates, lostOthers>>

\* COMMIT PREPARED and ROLLBACK PREPARED only forget the gid: the work was
\* committed by PREPARE TRANSACTION, and neither takes it back.
FinishPrepared(s, ids) ==
    /\ ~(tx[s].status = "logging") /\ ids \in gids[s]
    /\ gids' = [gids EXCEPT ![s] = @ \ {ids}]
    /\ UNCHANGED <<db, version, stamp, wal, walOwner, tx, clock, crashes, undone,
                   partial, unlogged, commits>>

-----------------------------------------------------------------------------
(* Outside blocks *)

\* execute_autocommit: the db mutex is held until the record is appended, so
\* no step of another session falls between the change and its record.  The
\* commit bookkeeping is not touched.
Autocommit(s, t) ==
    /\ s \in Autocommitters
    /\ tx[s] = NoBlock /\ walOwner = {}
    /\ Tick
    /\ db' = Apply(db, t, clock')
    /\ WalAppend([tab |-> t, id |-> clock'])
    /\ acked' = acked \cup {clock'}
    /\ UNCHANGED <<version, stamp, walOwner, tx, gids, crashes, undone, partial,
                   published, lostUpdates, lostOthers>>

\* A statement that fails after it changed rows of t: nothing takes them back,
\* and nothing is logged.
AutocommitFailsLate(s, t) ==
    /\ PartialEffects
    /\ s \in Autocommitters
    /\ tx[s] = NoBlock
    /\ Tick
    /\ db' = [db EXCEPT ![t] = Append(@, clock')]
    /\ partial' = partial \cup {clock'}
    /\ UNCHANGED <<version, stamp, wal, walOwner, tx, gids, crashes, undone,
                   unlogged, commits>>

\* The process dies and is started again on the same WAL file.
Restart ==
    /\ crashes < MaxCrashes
    /\ crashes' = crashes + 1
    /\ db' = Replay(wal)
    /\ version' = 0 /\ stamp' = [t \in Tables |-> 0]
    /\ walOwner' = {}
    /\ tx' = [s \in Sessions |-> NoBlock]
    /\ gids' = [s \in Sessions |-> {}]
    /\ undone' = undone \cup UNION {Ids(tx[s].buffered) :
                                      s \in {r \in Sessions : InBlock(r)}}
    /\ UNCHANGED <<wal, clock, partial, unlogged, commits>>

-----------------------------------------------------------------------------
Next ==
    \/ \E s \in Sessions :
          \/ Begin(s) \/ SetTransaction(s) \/ ExecuteFails(s)
          \/ Rollback(s) \/ CommitConflict(s) \/ Publish(s)
          \/ AppendRecord(s) \/ CommitReturns(s)
          \/ \E t \in Tables : \/ Execute(s, t) \/ ExecuteFailsLate(s, t)
                               \/ Autocommit(s, t) \/ AutocommitFailsLate(s, t)
          \/ \E n \in Names : \/ Savepoint(s, n) \/ ReleaseSavepoint(s, n)
                              \/ RollbackToSavepoint(s, n)
          \/ \E ids \in gids[s] : FinishPrepared(s, ids)
    \/ Restart

Spec == Init /\ [][Next]_vars

-----------------------------------------------------------------------------
(* Properties *)

\* The working copy of a block, and of each of its savepoints, is its snapshot
\* changed by exactly the statements that are buffered for the WAL, in their
\* order, and the write set is what those statements name: COMMIT publishes
\* what it logs, and has_conflicting_commit looks at what was written.  Rows of
\* statements that failed late are left aside.
CopyMatchesBuffer ==
    \A s \in Sessions : InBlock(s) =>
        LET new(d, t) ==
                SelectSeq(d[t], LAMBDA n : n > tx[s].began /\ n \notin partial)
            agrees(d, records, wset) ==
                /\ \A t \in Tables : new(d, t) = On(records, t)
                /\ wset = {r.tab : r \in Range(records)}
        IN  /\ agrees(tx[s].db, tx[s].buffered, tx[s].wset)
            /\ \A sp \in Range(tx[s].savepoints) :
                  /\ sp.len <= Len(tx[s].buffered)
                  /\ agrees(sp.db, SubSeq(tx[s].buffered, 1, sp.len), sp.wset)

\* Work that was undone, by ROLLBACK, ROLLBACK TO, a serialization failure or a
\* restart, is in neither the shared database nor the WAL, then or later.
NoUndoneWork ==
    undone \cap (Contents(db) \cup Ids(wal)) = {}

\* A COMMIT under REPEATABLE READ or SERIALIZABLE never overwrites what another
\* block did, after its snapshot, to a table that statements of both name.
NoLostUpdate == lostUpdates = {}

\* What COMMIT (or an autocommit statement) was reported for is in the WAL, and
\* so in the database that a restart rebuilds, unless its own append failed.
AckedIsLogged == acked \subseteq Ids(wal) \cup unlogged

\* The records of one block are next to each other in the WAL: no record of
\* another session falls between them.
BlocksContiguous ==
    \A b \in published : \A i, j, k \in DOMAIN wal :
        i < j /\ j < k /\ {wal[i], wal[k]} \subseteq b => wal[j] \in b

\* A restart recovers of each block a prefix, in the order of its statements:
\* one is missing before another only if its own append failed.
RecoveredPrefix ==
    \A b \in published : \A k \in DOMAIN wal : wal[k] \in b =>
        \A r \in b : r.id < wal[k].id =>
            r.id \in Ids(SubSeq(wal, 1, k - 1)) \cup unlogged

\* What a crash anywhere in COMMIT leaves behind: whatever was reported is in
\* the log, a block's records stand together, and they form a prefix of it.
LogRecovers == AckedIsLogged /\ BlocksContiguous /\ RecoveredPrefix

\* Committed work stays: a COMMIT under REPEATABLE READ or SERIALIZABLE does
\* not remove statements from tables that it did not write.
NoLostCommit == lostOthers = {}
=============================================================================
