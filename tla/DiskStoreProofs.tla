--------------------------- MODULE DiskStoreProofs ---------------------------
(***************************************************************************)
(* Proofs about DiskStore, for every set of tables and files, every way to *)
(* name the files, and any number of statements and crashes.               *)
(*                                                                         *)
(* The invariant that carries recovery says, for each point of a running   *)
(* checkpoint, what the heap files hold already: the file that was just    *)
(* truncated is empty, a table that was written is whole on disk unless it *)
(* shares its file, and no file of a written table is corrupt.  Before the *)
(* first checkpoint the catalog is empty, so that start-up takes what the  *)
(* logical WAL gives.                                                      *)
(***************************************************************************)
EXTENDS DiskStore, TLAPS

\* No row of a table, and so of a file that was not cut, is 0.
Rows == SUBSET (1..MaxStatements)

\* No other table of S has the file of t.
AloneIn(S, t) == \A u \in S \ {t} : HeapFile[u] # HeapFile[t]

\* The types, as far as the proofs need them.
Types ==
    /\ DOMAIN db \subseteq Tables /\ DOMAIN log \subseteq Tables
    /\ \A t \in DOMAIN db : db[t] \in Rows
    /\ \A t \in DOMAIN log : log[t] \in Rows
    /\ heaps \in [Files -> Rows \cup {Corrupt}]
    /\ catalog \subseteq Tables
    /\ phase \in {"idle", "heaps", "catalog", "down"}
    /\ filling \subseteq todo /\ todo \subseteq DOMAIN db
    /\ statements \in 0..MaxStatements
    /\ last \in {"none", "whole", "cut"}

\* A checkpoint that has not ended is on record as cut; it has at most one file
\* open, which is empty.
RunningCheckpoint ==
    /\ phase # "heaps" => todo = {}
    /\ phase \in {"heaps", "catalog"} => last = "cut"
    /\ \A t \in filling : heaps[HeapFile[t]] = {}
    /\ \A t, u \in filling : t = u

\* The tables that the running checkpoint has written.
WrittenTables ==
    phase \in {"heaps", "catalog"} =>
        \A t \in DOMAIN db \ todo :
            /\ heaps[HeapFile[t]] \in Rows
            /\ AloneIn(DOMAIN db, t) => heaps[HeapFile[t]] = db[t]

\* The last checkpoint that ended is on disk.
WholeOnDisk ==
    last = "whole" =>
        /\ catalog = DOMAIN saved
        /\ \A t \in catalog :
              /\ heaps[HeapFile[t]] \in Rows
              /\ AloneIn(catalog, t) => heaps[HeapFile[t]] = saved[t]

\* As long as no checkpoint was started there is no catalog, and the logical
\* WAL has all that was committed.
OnlyLogged ==
    last = "none" =>
        /\ catalog = {}
        /\ LogicalLog => log = committed /\ (phase # "down" => db = committed)

DiskInv == Types /\ RunningCheckpoint /\ WrittenTables /\ WholeOnDisk /\ OnlyLogged

-----------------------------------------------------------------------------
\* A file that was cut is no set of rows of a table.
LEMMA CorruptIsNoRows == Corrupt \notin Rows /\ {} \in Rows
  BY DiskStoreAssumption DEF Corrupt, Rows

LEMMA DiskInvInit == DiskInit => DiskInv
  BY DiskStoreAssumption, CorruptIsNoRows
  DEF DiskInit, DiskInv, Types, RunningCheckpoint, WrittenTables, WholeOnDisk, OnlyLogged,
      NoTables

\* A statement changes no file, and db and the logical WAL alike.
LEMMA StatementInv ==
    ASSUME DiskInv, NEW d, NEW l, Statement(d, l),
           DOMAIN d \subseteq Tables, \A t \in DOMAIN d : d[t] \in Rows,
           DOMAIN l \subseteq Tables, \A t \in DOMAIN l : l[t] \in Rows,
           db = log => d = l
    PROVE  DiskInv'
  <1> USE DEF DiskInv, Statement
  <1>0. phase = "idle" /\ todo = {} /\ filling = {}
    BY DEF Types, RunningCheckpoint
  <1>1. Types'
    BY <1>0, DiskStoreAssumption DEF Types
  <1>2. RunningCheckpoint'
    BY <1>0 DEF RunningCheckpoint
  <1>3. WrittenTables'
    BY <1>0 DEF WrittenTables
  <1>4. WholeOnDisk'
    BY DEF WholeOnDisk, AloneIn
  <1>5. OnlyLogged'
    BY <1>0 DEF OnlyLogged
  <1> QED
    BY <1>1, <1>2, <1>3, <1>4, <1>5

LEMMA ChangeInv ==
    ASSUME DiskInv, NEW t \in Tables, Change(t)
    PROVE  DiskInv'
  <1> DEFINE rows(f) == (IF t \in DOMAIN f THEN f[t] ELSE {}) \cup {statements + 1}
             d == With(db, t, rows(db))
             l == With(log, t, rows(log))
  <1>1. Statement(d, l)
    BY DEF Change
  <1>2. statements + 1 \in 1..MaxStatements
    BY DiskStoreAssumption DEF Change, Statement, DiskInv, Types
  <1>3. rows(db) \in Rows /\ rows(log) \in Rows
    BY <1>2 DEF DiskInv, Types, Rows
  <1>4. DOMAIN d \subseteq Tables /\ \A u \in DOMAIN d : d[u] \in Rows
    BY <1>3 DEF DiskInv, Types, With
  <1>5. DOMAIN l \subseteq Tables /\ \A u \in DOMAIN l : l[u] \in Rows
    BY <1>3 DEF DiskInv, Types, With
  <1>6. db = log => d = l
    OBVIOUS
  <1> HIDE DEF d, l
  <1> QED
    BY <1>1, <1>4, <1>5, <1>6, StatementInv

LEMMA DropInv ==
    ASSUME DiskInv, NEW t \in Tables, DropTable(t)
    PROVE  DiskInv'
  <1> DEFINE d == Without(db, t)
             l == Without(log, t)
  <1>1. Statement(d, l)
    BY DEF DropTable
  <1>2. DOMAIN d \subseteq Tables /\ \A u \in DOMAIN d : d[u] \in Rows
    BY DEF DiskInv, Types, Without, Restrict
  <1>3. DOMAIN l \subseteq Tables /\ \A u \in DOMAIN l : l[u] \in Rows
    BY DEF DiskInv, Types, Without, Restrict
  <1>4. db = log => d = l
    OBVIOUS
  <1> HIDE DEF d, l
  <1> QED
    BY <1>1, <1>2, <1>3, <1>4, StatementInv

LEMMA StartInv ==
    ASSUME DiskInv, StartCheckpoint
    PROVE  DiskInv'
  <1> USE DEF DiskInv, StartCheckpoint
  <1>0. todo = {} /\ filling = {}
    BY DEF Types, RunningCheckpoint
  <1>1. Types'
    BY <1>0 DEF Types
  <1>2. RunningCheckpoint'
    BY <1>0 DEF RunningCheckpoint
  <1>3. WrittenTables'
    BY <1>0 DEF WrittenTables
  <1>4. WholeOnDisk' /\ OnlyLogged'
    BY DEF WholeOnDisk, OnlyLogged
  <1> QED
    BY <1>1, <1>2, <1>3, <1>4

\* Truncating the file of a table that is still to be written touches no
\* written table that is alone in its file.
LEMMA TruncateInv ==
    ASSUME DiskInv, NEW t \in Tables, TruncateHeap(t)
    PROVE  DiskInv'
  <1> USE DEF DiskInv
  <1>0. /\ phase = "heaps" /\ t \in todo /\ filling = {} /\ filling' = {t}
        /\ heaps' = [heaps EXCEPT ![HeapFile[t]] = {}]
        /\ UNCHANGED <<db, log, catalog, phase, todo, statements, crashes, committed, saved, last>>
        /\ last = "cut" /\ todo \subseteq DOMAIN db /\ DOMAIN db \subseteq Tables
        /\ HeapFile \in [Tables -> Files] /\ heaps \in [Files -> Rows \cup {Corrupt}]
    BY DiskStoreAssumption DEF TruncateHeap, Truncated, Types, RunningCheckpoint
  <1>1. heaps' \in [Files -> Rows \cup {Corrupt}]
    BY <1>0, CorruptIsNoRows
  <1>2. Types'
    BY <1>0, <1>1 DEF Types
  <1>3. RunningCheckpoint'
    BY <1>0 DEF RunningCheckpoint
  <1>4. WrittenTables'
    <2> SUFFICES ASSUME NEW u \in DOMAIN db \ todo
                 PROVE  /\ heaps'[HeapFile[u]] \in Rows
                        /\ AloneIn(DOMAIN db, u) => heaps'[HeapFile[u]] = db[u]
      BY <1>0 DEF WrittenTables
    <2>1. /\ heaps[HeapFile[u]] \in Rows
          /\ AloneIn(DOMAIN db, u) => heaps[HeapFile[u]] = db[u]
      BY <1>0 DEF WrittenTables
    <2>2. CASE HeapFile[u] = HeapFile[t]
      BY <1>0, <2>2, CorruptIsNoRows DEF AloneIn
    <2>3. CASE HeapFile[u] # HeapFile[t]
      BY <1>0, <2>1, <2>3
    <2> QED
      BY <2>2, <2>3
  <1>5. WholeOnDisk' /\ OnlyLogged'
    BY <1>0 DEF WholeOnDisk, OnlyLogged
  <1> QED
    BY <1>2, <1>3, <1>4, <1>5

\* What a file that was truncated holds after rows of its table went into it.
LEMMA FilledFile ==
    ASSUME DiskInv, NEW t \in filling, NEW rows \in SUBSET db[t], WithRows(t, rows)
    PROVE  /\ heaps' = [heaps EXCEPT ![HeapFile[t]] = rows]
           /\ rows \in Rows /\ HeapFile[t] \in Files
           /\ heaps' \in [Files -> Rows \cup {Corrupt}]
  <1>1. heaps[HeapFile[t]] = {} /\ t \in DOMAIN db /\ t \in Tables
    BY DEF DiskInv, Types, RunningCheckpoint
  <1>2. rows \in Rows
    BY <1>1 DEF DiskInv, Types, Rows
  <1>3. HeapFile[t] \in Files /\ heaps \in [Files -> Rows \cup {Corrupt}]
    BY <1>1, DiskStoreAssumption DEF DiskInv, Types
  <1>4. {} \cup rows = rows
    OBVIOUS
  <1> QED
    BY <1>1, <1>2, <1>3, <1>4 DEF WithRows

\* A filled table is whole on disk; the others are as they were.
LEMMA FillInv ==
    ASSUME DiskInv, NEW t \in Tables, FillHeap(t)
    PROVE  DiskInv'
  <1> USE DEF DiskInv
  <1>0. /\ t \in filling /\ filling' = {} /\ todo' = todo \ {t}
        /\ phase' = IF todo' = {} THEN "catalog" ELSE "heaps"
        /\ UNCHANGED <<db, log, catalog, statements, crashes, committed, saved, last>>
        /\ t \in todo /\ phase = "heaps" /\ last = "cut"
        /\ todo \subseteq DOMAIN db /\ DOMAIN db \subseteq Tables
        /\ HeapFile \in [Tables -> Files] /\ heaps \in [Files -> Rows \cup {Corrupt}]
    BY DiskStoreAssumption DEF FillHeap, Types, RunningCheckpoint
  <1>1. /\ heaps' = [heaps EXCEPT ![HeapFile[t]] = db[t]] /\ db[t] \in Rows
        /\ heaps' \in [Files -> Rows \cup {Corrupt}]
    BY <1>0, FilledFile DEF FillHeap
  <1>2. Types'
    BY <1>0, <1>1 DEF Types
  <1>3. RunningCheckpoint'
    BY <1>0 DEF RunningCheckpoint
  <1>4. WrittenTables'
    <2> SUFFICES ASSUME NEW u \in DOMAIN db \ todo'
                 PROVE  /\ heaps'[HeapFile[u]] \in Rows
                        /\ AloneIn(DOMAIN db, u) => heaps'[HeapFile[u]] = db[u]
      BY <1>0 DEF WrittenTables
    <2>1. CASE u = t
      BY <1>0, <1>1, <2>1
    <2>2. CASE u # t
      <3>1. /\ heaps[HeapFile[u]] \in Rows
            /\ AloneIn(DOMAIN db, u) => heaps[HeapFile[u]] = db[u]
        BY <1>0, <2>2 DEF WrittenTables
      <3>2. CASE HeapFile[u] = HeapFile[t]
        BY <1>0, <1>1, <2>2, <3>2 DEF AloneIn
      <3>3. CASE HeapFile[u] # HeapFile[t]
        BY <1>0, <1>1, <3>1, <3>3
      <3> QED
        BY <3>2, <3>3
    <2> QED
      BY <2>1, <2>2
  <1>5. WholeOnDisk' /\ OnlyLogged'
    BY <1>0 DEF WholeOnDisk, OnlyLogged
  <1> QED
    BY <1>2, <1>3, <1>4, <1>5

\* A checkpoint that gives up stays on record as cut.
LEMMA FillFailsInv ==
    ASSUME DiskInv, NEW t \in Tables, FillFails(t)
    PROVE  DiskInv'
  <1> USE DEF DiskInv
  <1>0. /\ t \in filling /\ filling' = {} /\ todo' = {} /\ phase' = "idle"
        /\ UNCHANGED <<db, log, catalog, statements, crashes, committed, saved, last>>
        /\ last = "cut"
    BY DEF FillFails, Types, RunningCheckpoint, Abandoned
  <1>1. heaps' \in [Files -> Rows \cup {Corrupt}]
    BY <1>0, FilledFile DEF FillFails
  <1>2. Types'
    BY <1>0, <1>1 DEF Types
  <1>3. RunningCheckpoint' /\ WrittenTables'
    BY <1>0 DEF RunningCheckpoint, WrittenTables
  <1>4. WholeOnDisk' /\ OnlyLogged'
    BY <1>0 DEF WholeOnDisk, OnlyLogged
  <1> QED
    BY <1>2, <1>3, <1>4

\* The catalog is written when every table is.
LEMMA CatalogInv ==
    ASSUME DiskInv, WriteCatalog
    PROVE  DiskInv'
  <1> USE DEF DiskInv, WriteCatalog
  <1>0. todo = {} /\ filling = {} /\ catalog' = DOMAIN db
    BY DEF Types, RunningCheckpoint, CatalogTables
  <1>1. Types'
    BY <1>0 DEF Types
  <1>2. RunningCheckpoint' /\ WrittenTables' /\ OnlyLogged'
    BY <1>0 DEF RunningCheckpoint, WrittenTables, OnlyLogged
  <1>3. WholeOnDisk'
    BY <1>0 DEF WholeOnDisk, WrittenTables, AloneIn
  <1> QED
    BY <1>1, <1>2, <1>3

\* A crash spoils files only while a checkpoint runs.
LEMMA CrashInv ==
    ASSUME DiskInv, Crash
    PROVE  DiskInv'
  <1> USE DEF DiskInv
  <1>0. /\ phase' = "down" /\ todo' = {} /\ filling' = {}
        /\ UNCHANGED <<db, log, statements, committed, saved, last>>
        /\ catalog' = catalog \/ (phase = "catalog" /\ catalog' \subseteq DOMAIN db)
    BY DEF Crash
  <1>1. filling # {} => phase = "heaps"
    BY DEF Types, RunningCheckpoint
  <1>2. /\ heaps' \in [Files -> Rows \cup {Corrupt}]
        /\ filling = {} => heaps' = heaps
    <2>1. CASE heaps' = heaps
      BY <2>1 DEF Types
    <2>2. CASE \E t \in filling : heaps' = [heaps EXCEPT ![HeapFile[t]] = Corrupt]
      BY <2>2 DEF Types
    <2>3. CASE \E t \in filling : \E rows \in SUBSET db[t] : WithRows(t, rows)
      BY <2>3, FilledFile
    <2> QED
      BY <2>1, <2>2, <2>3 DEF Crash
  <1>3. Types'
    BY <1>0, <1>2 DEF Types
  <1>4. RunningCheckpoint' /\ WrittenTables'
    BY <1>0 DEF RunningCheckpoint, WrittenTables
  <1>5. last # "cut" => heaps' = heaps /\ catalog' = catalog
    BY <1>0, <1>1, <1>2 DEF RunningCheckpoint
  <1>6. WholeOnDisk'
    BY <1>0, <1>5 DEF WholeOnDisk, AloneIn
  <1>7. OnlyLogged'
    BY <1>0, <1>5 DEF OnlyLogged
  <1> QED
    BY <1>3, <1>4, <1>6, <1>7

\* Start-up changes no file.
LEMMA StartUpInv ==
    ASSUME DiskInv, StartUp
    PROVE  DiskInv'
  <1> USE DEF DiskInv, StartUp
  <1>0. todo = {} /\ filling = {}
    BY DEF Types, RunningCheckpoint
  <1>1. DOMAIN db' \subseteq Tables /\ \A t \in DOMAIN db' : db'[t] \in Rows
    <2>1. CASE TakesOver
      BY <2>1, DiskStoreAssumption DEF TakesOver, Readable, Recovered, Types
    <2>2. CASE ~TakesOver
      BY <2>2 DEF Types
    <2> QED
      BY <2>1, <2>2
  <1>2. Types'
    BY <1>0, <1>1 DEF Types
  <1>3. RunningCheckpoint' /\ WrittenTables'
    BY <1>0 DEF RunningCheckpoint, WrittenTables
  <1>4. WholeOnDisk'
    BY DEF WholeOnDisk, AloneIn
  <1>5. OnlyLogged'
    BY DEF OnlyLogged, TakesOver
  <1> QED
    BY <1>2, <1>3, <1>4, <1>5

-----------------------------------------------------------------------------
LEMMA DiskInvNext == DiskInv /\ [DiskNext]_diskVars => DiskInv'
  <1> SUFFICES ASSUME DiskInv, [DiskNext]_diskVars PROVE DiskInv'
    OBVIOUS
  <1>1. CASE UNCHANGED diskVars
    BY <1>1 DEF diskVars, DiskInv, Types, RunningCheckpoint, WrittenTables, WholeOnDisk,
                OnlyLogged, AloneIn
  <1>2. ASSUME NEW t \in Tables,
               \/ Change(t) \/ DropTable(t)
               \/ TruncateHeap(t) \/ FillHeap(t) \/ FillFails(t)
        PROVE  DiskInv'
    BY <1>2, ChangeInv, DropInv, TruncateInv, FillInv, FillFailsInv
  <1>3. CASE StartCheckpoint \/ WriteCatalog \/ Crash \/ StartUp
    BY <1>3, StartInv, CatalogInv, CrashInv, StartUpInv
  <1> QED
    BY <1>1, <1>2, <1>3 DEF DiskNext

LEMMA DiskInvRestores == DiskInv => StartUpRestores
  <1> SUFFICES ASSUME DiskInv PROVE StartUpRestores
    OBVIOUS
  <1>1. CheckpointRecovered
    BY CorruptIsNoRows
    DEF CheckpointRecovered, DiskInv, WholeOnDisk, AloneIn, Alone, Readable, Recovered
  <1>2. CommittedRestored
    BY DEF CommittedRestored, DiskInv, OnlyLogged
  <1> QED
    BY <1>1, <1>2 DEF StartUpRestores

\* A checkpoint that ended is recovered whole until the next one is started,
\* and a server with a logical WAL that never started one recovers all that was
\* committed, wherever crashes and failed checkpoints fall: mod.rs checkpoint
\* and recover with serve_on.
THEOREM RecoveryRestores == DiskSpec => []StartUpRestores
  <1>1. DiskInit => DiskInv
    BY DiskInvInit
  <1>2. DiskInv /\ [DiskNext]_diskVars => DiskInv'
    BY DiskInvNext
  <1>3. DiskInv => StartUpRestores
    BY DiskInvRestores
  <1> QED
    BY <1>1, <1>2, <1>3, PTL DEF DiskSpec
=============================================================================
