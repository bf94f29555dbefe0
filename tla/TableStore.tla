----------------------------- MODULE TableStore -----------------------------
(***************************************************************************)
(* One table under the operations the executor applies to it: the row      *)
(* operations, TRUNCATE, ALTER TABLE ADD/DROP COLUMN, CREATE/DROP INDEX    *)
(* and vacuum.  The table record and the operations themselves are in      *)
(* TableOps.                                                               *)
(*                                                                         *)
(* Two history variables hold what the code is known to let go of:         *)
(* drifted, the indexes that no longer match the heap (built over TOAST    *)
(* pointers, or naming a dropped column in an expression or a predicate),  *)
(* and leaked, the chunks of dropped columns.                              *)
(***************************************************************************)
EXTENDS TableOps

CONSTANTS
    Texts,          \* the texts that statements use
    RowShapes,      \* the rows that statements use
    IndexSpecs,     \* the indexes that CREATE INDEX may build
    ColumnNames,    \* the names of columns, in the order they are added
    MaxColumns,     \* bound on the columns of the table
    MaxRows,        \* bound on the rows of the table
    MaxIds,         \* bound on the row ids given out
    MaxChunks,      \* bound on the chunk ids given out
    MaxDead,        \* bound on the dead rows, behind which only vacuum goes on
    MaxIndexes      \* bound on the indexes and unique constraints of the table

ASSUME TableAssumption ==
    /\ LongTexts \subseteq Texts /\ Texts \subseteq Nat /\ 0 \notin LongTexts
    /\ PageSize \in Nat \ {0} /\ BrinSize \in Nat \ {0}

VARIABLES tbl, drifted, leaked

tableVars == <<tbl, drifted, leaked>>

\* The rows of a statement: RowShapes cut to the columns of the table.
InputRows == {SubSeq(shape, 1, Len(tbl.cols)) : shape \in RowShapes}

\* A table with the first two columns.
TableInit ==
    /\ tbl = NewTable(<<[name |-> ColumnNames[1]], [name |-> ColumnNames[2]]>>)
    /\ drifted = {}
    /\ leaked = {}

Insert(row) ==
    /\ Len(tbl.rows) < MaxRows /\ tbl.nextId < MaxIds /\ tbl.nextToast < MaxChunks
    /\ ~UniqueViolation(tbl, row, {})
    /\ tbl' = PushRow(tbl, row)
    /\ UNCHANGED <<drifted, leaked>>

Update(p, row) ==
    /\ tbl.nextToast < MaxChunks /\ DeadRows(tbl) < MaxDead
    /\ ~UniqueViolation(tbl, row, {p})
    /\ tbl' = UpdateRow(tbl, p, row)
    /\ UNCHANGED <<drifted, leaked>>

Delete(positions) ==
    /\ DeadRows(tbl) < MaxDead
    /\ tbl' = DeleteRows(tbl, positions)
    /\ UNCHANGED <<drifted, leaked>>

TruncateTable ==
    /\ tbl' = Truncate(tbl)
    /\ drifted' = {}
    /\ leaked' = {}

\* An index that names a column in its expression or predicate.
Names(idx, name) == idx.expr = name \/ (idx.pred # <<>> /\ idx.pred[1] = name)

\* ALTER TABLE ADD COLUMN: the default for every row, or for a generated
\* column a copy of the first column, read from the stored row.
AddTableColumn(fill) ==
    LET name == CHOOSE n \in ToSet(ColumnNames) : ColumnIndex(tbl, n) = 0
    IN  /\ Len(tbl.cols) < MaxColumns
        /\ tbl' = AddColumn(tbl, [name |-> name], fill)
        /\ drifted' = drifted \cup {i.name : i \in {j \in ToSet(tbl.indexes) :
                                                    Names(j, name) /\ tbl.rows # <<>>}}
        /\ UNCHANGED leaked

DropTableColumn(c) ==
    LET others == UNION {PointersOf(RemoveAt(tbl.rows[p], c)) : p \in DOMAIN tbl.rows}
        dropped == UNION {PointersOf(<<tbl.rows[p][c]>>) : p \in DOMAIN tbl.rows}
    IN  /\ Len(tbl.cols) > 1
        /\ tbl' = DropColumn(tbl, c)
        /\ drifted' = {n \in drifted \cup {i.name : i \in {j \in ToSet(tbl.indexes) :
                                                    Names(j, tbl.cols[c].name)}} :
                          \E i \in DOMAIN tbl'.indexes : tbl'.indexes[i].name = n}
        /\ leaked' = leaked \cup (dropped \ others)

\* The stored cells that an index reads.
IndexedCells(t, idx, row) ==
    {row[c] : c \in (ToSet(idx.cols) \cup {ColumnIndex(t, idx.expr)}
                     \cup (IF idx.pred = <<>> THEN {} ELSE {ColumnIndex(t, idx.pred[1])})) \ {0}}

\* exec_create_index: a fresh name, its columns exist, and only a unique index
\* over one column and without a predicate looks for duplicates.
CreateIndex(spec) ==
    LET idx == NewIndex(spec.name, spec.cols, spec.expr, spec.pred, spec.unique, spec.method)
    IN  /\ Len(tbl.indexes) + Len(tbl.uniques) < MaxIndexes
        /\ \A i \in DOMAIN tbl.indexes : tbl.indexes[i].name # spec.name
        /\ ToSet(spec.cols) \subseteq DOMAIN tbl.cols
        /\ spec.expr # "" => ColumnIndex(tbl, spec.expr) # 0
        /\ spec.pred # <<>> => ColumnIndex(tbl, spec.pred[1]) # 0
        /\ ~(/\ spec.unique /\ Len(spec.cols) = 1 /\ spec.pred = <<>>
             /\ HaveDuplicateValues(tbl, spec.cols))
        /\ tbl' = AddAndPopulateIndex(tbl, idx)
        /\ drifted' = IF \E p \in DOMAIN tbl.rows :
                            \E c \in IndexedCells(tbl, idx, tbl.rows[p]) : c[1] = "pointer"
                      THEN drifted \cup {spec.name} ELSE drifted
        /\ UNCHANGED leaked

DropIndex(name) ==
    /\ tbl' = RemoveIndex(tbl, name)
    /\ drifted' = drifted \ {name}
    /\ UNCHANGED leaked

\* ALTER TABLE ADD UNIQUE over two columns.
AddUnique(cols) ==
    /\ Len(tbl.indexes) + Len(tbl.uniques) < MaxIndexes
    /\ ToSet(cols) \subseteq DOMAIN tbl.cols
    /\ ~HaveDuplicateValues(tbl, cols)
    /\ tbl' = [tbl EXCEPT !.uniques = Append(@, [cols |-> cols])]
    /\ UNCHANGED <<drifted, leaked>>

\* VACUUM, or autovacuum_once when the table has enough dead rows.
Vacuum ==
    /\ tbl' = VacuumStorage(tbl)
    /\ UNCHANGED <<drifted, leaked>>

Statement ==
    \/ \E row \in InputRows : Insert(row)
    \/ \E p \in DOMAIN tbl.rows, row \in InputRows : Update(p, row)
    \/ \E positions \in SUBSET DOMAIN tbl.rows \ {{}} : Delete(positions)
    \/ \E v \in {Null, Text(Max(Texts))} : AddTableColumn([p \in DOMAIN tbl.rows |-> v])
    \/ AddTableColumn([p \in DOMAIN tbl.rows |-> tbl.rows[p][1]])
    \/ \E c \in DOMAIN tbl.cols : DropTableColumn(c)
    \/ \E spec \in IndexSpecs : CreateIndex(spec)
    \/ AddUnique(<<1, 2>>)
    \/ Vacuum

\* A table with a drifted index is not followed further, except to where the
\* index is emptied or dropped.
TableNext ==
    \/ drifted = {} /\ Statement
    \/ TruncateTable
    \/ \E i \in DOMAIN tbl.indexes : DropIndex(tbl.indexes[i].name)

TableSpec == TableInit /\ [][TableNext]_tableVars

-----------------------------------------------------------------------------
Rows(t) == [p \in DOMAIN t.rows |-> DetoastRow(t, t.rows[p])]

Matching(t) == {i \in ToSet(t.indexes) : i.name \notin drifted}

\* Row ids are never reused or shared and the position map is the inverse of
\* the id list, whatever rows are deleted in between (storage.rs delete_rows,
\* push_row): an index lookup lands on the row it was filed for.
PositionsAgree ==
    /\ DOMAIN tbl.ids = DOMAIN tbl.rows
    /\ DOMAIN tbl.pos = ToSet(tbl.ids)
    /\ \A p \in DOMAIN tbl.ids : tbl.pos[tbl.ids[p]] = p /\ tbl.ids[p] < tbl.nextId

\* What the index should hold: the entries of the rows as their readers see
\* them.
Expected(t, idx) ==
    FoldLeftDomain(LAMBDA acc, p :
        IF RowQualifies(t, idx, Rows(t)[p])
        THEN acc (+) SetToBag(UNION {Entries(idx.method, k, t.ids[p]) :
                                        k \in IndexKeys(t, idx, Rows(t)[p])})
        ELSE acc, EmptyBag, t.rows)

\* Every index that was not built over pointers and names no dropped column
\* holds exactly the entries of the rows in the heap, over every sequence of
\* statements (index.rs:13: "the index never drifts from the heap").
IndexesMatchHeap == \A idx \in Matching(tbl) : idx.store = Expected(tbl, idx)

\* Rows, stable ids, positions and indexes stay in step.
IndexesInStep == PositionsAgree /\ IndexesMatchHeap

\* The rows that satisfy a bound pair on the first key column, by a scan.
Scan(t, idx, lo, hi) ==
    {p \in DOMAIN t.rows :
        /\ RowQualifies(t, idx, Rows(t)[p])
        /\ \E k \in IndexKeys(t, idx, Rows(t)[p]) :
              k[1] # Null /\ AboveLow(k[1], lo) /\ BelowHigh(k[1], hi)}

Bounds == {<<>>} \cup {<<Text(n), incl>> : n \in Texts, incl \in BOOLEAN}

\* An index lookup never misses a row that a scan would find: equality on any
\* method, ranges where the method has an order (or block summaries), and
\* containment on GIN (executor.rs plan_index_access relies on it: candidate
\* rows are filtered again, missing ones are lost).
LookupsComplete ==
    \A idx \in Matching(tbl) :
        /\ \A n \in Texts :
              LET point == <<Text(n), TRUE>>
              IN  /\ Len(idx.cols) <= 1 =>
                        Scan(tbl, idx, point, point)
                            \subseteq IdsToPositions(tbl, LookupEq(idx, <<Text(n)>>))
                  /\ IsOrdered(idx.method) =>
                        Scan(tbl, idx, point, point)
                            \subseteq IdsToPositions(tbl, LookupPrefix(idx, <<Text(n)>>))
                  /\ idx.method = "gin" =>
                        {p \in DOMAIN tbl.rows : Rows(tbl)[p][idx.cols[1]] = Text(n)}
                            \subseteq IdsToPositions(tbl, LookupGinContains(idx, Elements[n]))
        /\ idx.method \notin {"hash", "gin"} =>
              \A lo, hi \in Bounds : ~RangePanics(idx, lo, hi) =>
                  Scan(tbl, idx, lo, hi) \subseteq IdsToPositions(tbl, LookupRange(idx, lo, hi))

\* No pointer dangles, no chunk is shared by two rows, and every chunk is
\* reachable from a row or belonged to a dropped column (toast_row and
\* untoast_row around updates and deletes).
ChunksReferenced ==
    /\ DOMAIN tbl.toast = leaked \cup UNION {PointersOf(tbl.rows[p]) : p \in DOMAIN tbl.rows}
    /\ \A p, q \in DOMAIN tbl.rows :
          p # q => PointersOf(tbl.rows[p]) \cap PointersOf(tbl.rows[q]) = {}
    /\ \A id \in DOMAIN tbl.toast : id < tbl.nextToast

\* The page counters are those of the rows filed on the page: saturating
\* subtraction never hides a row or a byte that was taken away twice.
PagesAgree ==
    /\ DOMAIN tbl.rowPage = ToSet(tbl.ids) /\ DOMAIN tbl.rowBytes = ToSet(tbl.ids)
    /\ \A no \in DOMAIN tbl.pages :
          LET here == {id \in DOMAIN tbl.rowPage : tbl.rowPage[id] = no}
          IN  /\ tbl.pages[no].live = Cardinality(here)
              /\ tbl.pages[no].liveBytes = MapThenSumSet(LAMBDA id : tbl.rowBytes[id], here)

\* The side store and the page accounting stay in step with the rows.
StorageInStep == ChunksReferenced /\ PagesAgree

\* The table behaves as a plain list of rows: whatever moves to and from the
\* side store, no reader sees a value change except by an update of that row.
Plain == INSTANCE AbstractTable WITH content <- Rows(tbl)
BehavesAsRows == Plain!Spec
=============================================================================
