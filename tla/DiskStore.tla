------------------------------ MODULE DiskStore ------------------------------
(***************************************************************************)
(* Checkpoints and recovery of crates/engine/src/disk/mod.rs, with the     *)
(* start-up of crates/server/src/server.rs (serve_on) that chooses between *)
(* the logical WAL and the disk store.                                     *)
(*                                                                         *)
(* CHECKPOINT runs under the db mutex and rewrites, one table after the    *)
(* other, the heap file of each table in place, and then the catalog.  A   *)
(* crash or an error can stop it between any two of these steps.           *)
(*                                                                         *)
(* A table is the set of the statements that made it; a heap file is what  *)
(* reading it back gives.                                                  *)
(***************************************************************************)
EXTENDS Naturals, FiniteSets, Functions

CONSTANTS
    Tables,         \* table names
    Files,          \* heap file names
    HeapFile,       \* HeapFile[t]: heap_file_name
    LogicalLog,     \* whether PGRS_DATA is set as well
    RowsTooLarge,   \* whether some row may not fit a page
    MaxStatements,  \* bound: statements of a behaviour
    MaxCrashes      \* bound: crashes of a behaviour

ASSUME DiskStoreAssumption ==
    /\ HeapFile \in [Tables -> Files]
    /\ {LogicalLog, RowsTooLarge} \subseteq BOOLEAN
    /\ MaxStatements \in Nat /\ MaxCrashes \in Nat

VARIABLES
    db,             \* the database in memory: existing table -> statements
    log,            \* what replaying the logical WAL gives
    heaps,          \* heaps[f]: the rows in file f, or Corrupt
    catalog,        \* the tables named by the catalog file
    phase,          \* "idle", "heaps", "catalog" or "down"
    todo,           \* tables that the running checkpoint has still to write
    filling,        \* {} or {the table whose heap file was just truncated}
    statements,     \* number of statements so far
    crashes,
    committed,      \* history: the tables as of the last committed statement
    saved,          \* history: the tables as of the last whole checkpoint
    last            \* history: "none", or whether the checkpoint that was
                    \*          started last is "whole" or "cut"

diskVars == <<db, log, heaps, catalog, phase, todo, filling, statements,
          crashes, committed, saved, last>>

-----------------------------------------------------------------------------
Corrupt == {0}      \* a page fails its checksum
NoTables == [t \in {} |-> {}]
With(f, t, rows) == [u \in DOMAIN f \cup {t} |-> IF u = t THEN rows ELSE f[u]]
Without(f, t) == Restrict(f, DOMAIN f \ {t})

Database == UNION {[S -> SUBSET (1..MaxStatements)] : S \in SUBSET Tables}

\* Tables, files and catalog keep their types, and outside the loop over the
\* tables no table is left to write.
DiskTypeOK ==
    /\ {db, log, committed, saved} \subseteq Database
    /\ heaps \in [Files -> SUBSET (0..MaxStatements)]
    /\ catalog \subseteq Tables
    /\ phase \in {"idle", "heaps", "catalog", "down"}
    /\ todo \subseteq DOMAIN db /\ filling \subseteq todo
    /\ phase # "heaps" => todo = {}
    /\ statements \in 0..MaxStatements /\ crashes \in 0..MaxCrashes
    /\ last \in {"none", "whole", "cut"}

DiskInit ==
    /\ db = NoTables /\ log = NoTables /\ committed = NoTables
    /\ saved = NoTables /\ last = "none"
    /\ heaps = [f \in Files |-> {}] /\ catalog = {}
    /\ phase = "idle" /\ todo = {} /\ filling = {}
    /\ statements = 0 /\ crashes = 0

-----------------------------------------------------------------------------
(* Statements, under the db mutex *)

\* After a statement the tables are d; l is the logical WAL with its record.
Statement(d, l) ==
    /\ phase = "idle" /\ statements < MaxStatements
    /\ statements' = statements + 1
    /\ db' = d /\ committed' = d
    /\ log' = IF LogicalLog THEN l ELSE log
    /\ UNCHANGED <<heaps, catalog, phase, todo, filling, crashes, saved, last>>

\* CREATE TABLE, and a statement that changes the rows of a table.
Change(t) ==
    LET rows(f) == (IF t \in DOMAIN f THEN f[t] ELSE {}) \cup {statements + 1}
    IN  Statement(With(db, t, rows(db)), With(log, t, rows(log)))

DropTable(t) == t \in DOMAIN db /\ Statement(Without(db, t), Without(log, t))

-----------------------------------------------------------------------------
(* CHECKPOINT *)

StartCheckpoint ==
    /\ phase = "idle"
    /\ phase' = IF DOMAIN db = {} THEN "catalog" ELSE "heaps"
    /\ todo' = DOMAIN db
    /\ last' = "cut"
    /\ UNCHANGED <<db, log, heaps, catalog, filling, statements, crashes,
                   committed, saved>>

\* MUTANT of Truncated: the rows of the last checkpoint stay.
NotTruncated(f) == heaps[f]

Truncated(f) == {}

\* std::fs::write(&path, [])
TruncateHeap(t) ==
    /\ phase = "heaps" /\ t \in todo /\ filling = {}
    /\ heaps' = [heaps EXCEPT ![HeapFile[t]] = Truncated(HeapFile[t])]
    /\ filling' = {t}
    /\ UNCHANGED <<db, log, catalog, phase, todo, statements, crashes,
                   committed, saved, last>>

\* The file of t has received the given rows.
WithRows(t, rows) == heaps' = [heaps EXCEPT ![HeapFile[t]] = @ \cup rows]

\* Every row is appended through the buffer manager, and flush_all succeeds.
FillHeap(t) ==
    /\ t \in filling
    /\ WithRows(t, db[t])
    /\ filling' = {}
    /\ todo' = todo \ {t}
    /\ phase' = IF todo' = {} THEN "catalog" ELSE "heaps"
    /\ UNCHANGED <<db, log, catalog, statements, crashes, committed, saved,
                   last>>

Abandoned == {}

\* A row is larger than a page: checkpoint returns early, which is reported on
\* stderr, and the server goes on.  Pages that were evicted are in the file.
FillFails(t) ==
    /\ RowsTooLarge /\ t \in filling
    /\ \E rows \in SUBSET db[t] : WithRows(t, rows)
    /\ phase' = "idle" /\ todo' = Abandoned /\ filling' = {}
    /\ UNCHANGED <<db, log, catalog, statements, crashes, committed,
                   saved, last>>

CatalogTables == DOMAIN db

\* write_catalog; the record in the physical WAL and its truncation follow and
\* decide nothing in recovery.
WriteCatalog ==
    /\ phase = "catalog"
    /\ catalog' = CatalogTables
    /\ phase' = "idle"
    /\ saved' = db /\ last' = "whole"
    /\ UNCHANGED <<db, log, heaps, todo, filling, statements, crashes, committed>>

-----------------------------------------------------------------------------
(* Crash and start-up *)

\* The process dies.  A heap file that is being filled is left with some of
\* its rows or with a page that was cut; a catalog that is being written keeps
\* some of its tables.
Crash ==
    /\ phase # "down" /\ crashes < MaxCrashes
    /\ crashes' = crashes + 1
    /\ phase' = "down" /\ todo' = {} /\ filling' = {}
    /\ \/ UNCHANGED heaps
       \/ \E t \in filling : heaps' = [heaps EXCEPT ![HeapFile[t]] = Corrupt]
       \/ \E t \in filling : \E rows \in SUBSET db[t] : WithRows(t, rows)
    /\ \/ UNCHANGED catalog
       \/ /\ phase = "catalog"
          /\ \E S \in SUBSET DOMAIN db : S # DOMAIN db /\ catalog' = S
    /\ UNCHANGED <<db, log, statements, committed, saved, last>>

\* DiskStore::recover
Readable == \A t \in catalog : heaps[HeapFile[t]] # Corrupt
Recovered == [t \in catalog |-> heaps[HeapFile[t]]]

\* A disk store that yields at least one table takes the place of what the
\* logical WAL gave.
TakesOver == Readable /\ catalog # {}

\* serve_on: the logical WAL is replayed, then the disk store is recovered.
StartUp ==
    /\ phase = "down"
    /\ phase' = "idle"
    /\ db' = IF TakesOver THEN Recovered ELSE log
    /\ UNCHANGED <<log, heaps, catalog, todo, filling, statements, crashes,
                   committed, saved, last>>

DiskNext ==
    \/ \E t \in Tables :
          \/ Change(t) \/ DropTable(t)
          \/ TruncateHeap(t) \/ FillHeap(t) \/ FillFails(t)
    \/ StartCheckpoint \/ WriteCatalog \/ Crash \/ StartUp

DiskSpec == DiskInit /\ [][DiskNext]_diskVars

-----------------------------------------------------------------------------
(* Properties *)

\* No other table of the catalog has the file of t: heap_file_name maps every
\* character but letters, digits and "_" to "_", so two tables can share one.
Alone(t) == \A u \in catalog \ {t} : HeapFile[u] # HeapFile[t]

\* As long as no later checkpoint was started, recovery gives the tables of the
\* last checkpoint that ended: none that was dropped before it, no row of an
\* earlier checkpoint, no row of another table in a file that is not shared.
CheckpointRecovered ==
    last = "whole" /\ catalog # {} =>
        /\ Readable /\ catalog = DOMAIN saved
        /\ \A t \in catalog : Alone(t) => Recovered[t] = saved[t]

\* With a logical WAL, start-up restores all that was committed, as long as no
\* checkpoint was started.
CommittedRestored ==
    LogicalLog /\ last = "none" /\ phase = "idle" => db = committed

\* What start-up finds after a crash at any point of a checkpoint.
StartUpRestores == CheckpointRecovered /\ CommittedRestored
=============================================================================
