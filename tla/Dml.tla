-------------------------------- MODULE Dml ---------------------------------
(***************************************************************************)
(* INSERT (ON CONFLICT, into partitioned tables, serial, default and       *)
(* generated columns), UPDATE, DELETE, MERGE and TRUNCATE of               *)
(* crates/engine/src/executor.rs, with NOT NULL, CHECK, domain, unique and *)
(* foreign key constraints and AFTER row triggers.                         *)
(*                                                                         *)
(* A table is what AbstractTable promises, a list of rows: TableStore is   *)
(* shown to keep that promise.  Values are integers or NULL and short      *)
(* enough to stay in the row.  Expressions are left out: a statement names *)
(* its rows, its new values and the positions it selects.                  *)
(***************************************************************************)
EXTENDS Integers, Sequences, SequencesExt, FiniteSets, FiniteSetsExt

CONSTANTS
    NULL,
    Schemas,        \* the schemas to check: table name -> columns, constraints, ...
    Values,         \* the values statements use
    Sources,        \* the lists of rows that INSERT and MERGE use
    Clauses,        \* the WHEN clauses that MERGE uses
    MaxSerial       \* bound on the values a sequence gives out

VARIABLES
    schema,         \* the schema in use, chosen at the start
    tables,         \* table name -> list of rows
    sequences,      \* table name -> the sequence behind its serial column
    last            \* the last statement: [kind, table, ok]

dmlVars == <<schema, tables, sequences, last>>

Schema == schema
Tables == DOMAIN Schema
Columns(t) == Schema[t].cols
Partitions(t) == Schema[t].partitions
RowPositions(t) == DOMAIN tables[t]

NewSequence == [last |-> 1, called |-> FALSE]

-----------------------------------------------------------------------------
(***************************************************************************)
(* Sequences behind serial columns (storage.rs)                            *)
(***************************************************************************)

\* next_sequence and Sequence::next_value.
NextValue(seq) == [last |-> IF seq.called THEN seq.last + 1 ELSE seq.last, called |-> TRUE]

\* MUTANT of Observe: the sequence does not notice explicit values.
Ignores(seq, v) == seq

\* observe_sequence.
Observe(seq, v) == IF v > seq.last THEN [last |-> v, called |-> TRUE] ELSE seq

-----------------------------------------------------------------------------
(***************************************************************************)
(* A row before it is stored                                               *)
(***************************************************************************)

\* The expression of a generated column, on its base column.
Generated(v) == IF v = NULL THEN NULL ELSE v + 10

\* MUTANT of ApplyGeneratedColumns: the stored value is kept when there is one.
KeepsGenerated(t, row) ==
    [i \in DOMAIN row |-> IF Columns(t)[i].gen # 0 /\ row[i] = NULL
                          THEN Generated(row[Columns(t)[i].gen]) ELSE row[i]]

\* apply_generated_columns.
ApplyGeneratedColumns(t, row) ==
    [i \in DOMAIN row |-> IF Columns(t)[i].gen # 0
                          THEN Generated(row[Columns(t)[i].gen]) ELSE row[i]]

SerialColumns(t) == {i \in DOMAIN Columns(t) : Columns(t)[i].serial}

NotNullViolated(t, row) == \E i \in DOMAIN row : Columns(t)[i].notNull /\ row[i] = NULL

WithDefaults(t, targets, given) ==
    [i \in DOMAIN given |->
        IF i \notin targets /\ Columns(t)[i].default # NULL THEN Columns(t)[i].default ELSE given[i]]

\* The sequence of the table after a row: drawn from for a NULL in the serial
\* column, told of any other value.
SequenceAfter(seq, t, row) ==
    IF SerialColumns(t) = {} THEN seq
    ELSE LET i == CHOOSE i \in SerialColumns(t) : TRUE
         IN  IF row[i] = NULL THEN NextValue(seq) ELSE Observe(seq, row[i])

WithSerial(t, row, value) ==
    [i \in DOMAIN row |-> IF i \in SerialColumns(t) /\ row[i] = NULL THEN value ELSE row[i]]

RowChecked(seq, t, row) ==
    [seq |-> seq, row |-> row, err |-> IF NotNullViolated(t, row) THEN "not null" ELSE ""]

FinishedRow(seq, t, row) ==
    RowChecked(seq, t, ApplyGeneratedColumns(t, WithSerial(t, row, seq.last)))

\* finish_insert_row: a generated column takes no value, an identity column
\* GENERATED ALWAYS none but OVERRIDING ones, defaults fill the columns that
\* the statement does not target, a serial column is filled or
\* observed (which stays when the row is refused), then NOT NULL.
FinishInsertRow(seq, t, targets, given, overriding) ==
    IF \E i \in targets : /\ given[i] # NULL
                          /\ Columns(t)[i].gen # 0 \/ (Columns(t)[i].always /\ ~overriding)
    THEN [seq |-> seq, row |-> given, err |-> "generated"]
    ELSE LET full == WithDefaults(t, targets, given)
         IN  FinishedRow(SequenceAfter(seq, t, full), t, full)

\* The rows of one statement, finished in order; the first error ends it.
AddFinished(acc, f) == [seq |-> f.seq, rows |-> Append(acc.rows, f.row), err |-> f.err]
FinishRows(seq, t, targets, rows, overriding) ==
    FoldLeft(LAMBDA acc, given :
        IF acc.err # "" THEN acc
        ELSE AddFinished(acc, FinishInsertRow(acc.seq, t, targets, given, overriding)),
        [seq |-> seq, rows |-> <<>>, err |-> ""], rows)

-----------------------------------------------------------------------------
(***************************************************************************)
(* Constraints                                                             *)
(***************************************************************************)

\* check_row_constraints: a CHECK that is not true refuses the row, NULL too.
CheckViolated(t, row) == \E c \in Schema[t].checks : row[c.col] \notin c.allowed

\* enforce_user_types, for a column of a domain.
DomainViolated(t, row) ==
    \E i \in DOMAIN row : LET d == Columns(t)[i].domain IN
        d # {} /\ row[i] \notin d

\* check_foreign_key_constraints.
ForeignKeyViolated(tbls, t, row) ==
    \E fk \in Schema[t].fks :
        /\ row[fk.col] # NULL
        /\ \A p \in DOMAIN tbls[fk.ref] : tbls[fk.ref][p][fk.refCol] # row[fk.col]

\* check_parent_key_not_referenced.
IsReferenced(tbls, t, row) ==
    \E child \in Tables : \E fk \in Schema[child].fks :
        /\ fk.ref = t /\ row[fk.refCol] # NULL
        /\ \E p \in DOMAIN tbls[child] : tbls[child][p][fk.col] = row[fk.refCol]

ReferencedColumns(t) ==
    UNION {{fk.refCol : fk \in {k \in Schema[child].fks : k.ref = t}} : child \in Tables}

SameKey(a, b, key) == \A i \in key : a[i] # NULL /\ a[i] = b[i]

\* Table::unique_violation; TableStore shows what the lookup behind it finds.
ViolatesUnique(tbls, t, row, exclude) ==
    \E k \in DOMAIN Schema[t].uniques : \E p \in DOMAIN tbls[t] \ exclude :
        SameKey(tbls[t][p], row, Schema[t].uniques[k])

\* MUTANT of HaveDuplicateKey: the new rows are not compared with each other.
NeverDuplicate(t, rows) == FALSE

\* rows_have_duplicate_unique_key, over all unique keys.
HaveDuplicateKey(t, rows) ==
    \E k \in DOMAIN Schema[t].uniques : \E p, q \in DOMAIN rows :
        p < q /\ SameKey(rows[p], rows[q], Schema[t].uniques[k])

\* The row checks of a statement in their order, "" when all pass.
RowError(tbls, t, rows) ==
    CASE \E p \in DOMAIN rows : CheckViolated(t, rows[p]) -> "check"
      [] \E p \in DOMAIN rows : DomainViolated(t, rows[p]) -> "domain"
      [] \E p \in DOMAIN rows : ForeignKeyViolated(tbls, t, rows[p]) -> "foreign key"
      [] OTHER -> ""

-----------------------------------------------------------------------------
(***************************************************************************)
(* Results: a statement maps [tables, seqs] to [tables, seqs, err]         *)
(***************************************************************************)

State == [tables |-> tables, seqs |-> sequences, err |-> ""]
Failed(s, why) == [s EXCEPT !.err = why]

WithRows(s, t, new) == [s EXCEPT !.tables[t] = @ \o new]
WithUpdates(s, t, updates) ==
    [s EXCEPT !.tables[t] = [p \in DOMAIN @ |->
        IF \E u \in DOMAIN updates : updates[u].pos = p
        THEN updates[CHOOSE u \in DOMAIN updates : updates[u].pos = p].row ELSE @[p]]]
WithoutRows(s, t, positions) ==
    LET kept == SelectSeq([p \in DOMAIN s.tables[t] |-> p], LAMBDA p : p \notin positions)
    IN  [s EXCEPT !.tables[t] = [k \in DOMAIN kept |-> @[kept[k]]]]

RowsOf(updates) == [u \in DOMAIN updates |-> updates[u].row]

\* ON CONFLICT DO NOTHING: a row that collides with the table or with an
\* accepted row is left out.
Accepted(s, t, rows) ==
    FoldLeft(LAMBDA acc, row :
        IF ViolatesUnique(s.tables, t, row, {}) \/ HaveDuplicateKey(t, Append(acc, row))
        THEN acc ELSE Append(acc, row), <<>>, rows)

\* conflict_position_for_row with an empty target: the first position under
\* the first unique key that collides, 0 when there is none.
ConflictPosition(s, t, row) ==
    LET hit(key) == SelectInSeq(s.tables[t], LAMBDA r : SameKey(r, row, key))
        k == SelectInSeq(Schema[t].uniques, LAMBDA key : hit(key) # 0)
    IN  IF k = 0 THEN 0 ELSE hit(Schema[t].uniques[k])

\* The plan of ON CONFLICT DO UPDATE SET col = excluded.col, for one more row,
\* which collides with the row at position p or, when p is 0, with none.
PlanRow(acc, s, t, col, row, p) ==
    IF acc.err # "" THEN acc
    ELSE IF p = 0 THEN [acc EXCEPT !.inserts = Append(@, row)]
    ELSE IF \E u \in DOMAIN acc.updates : acc.updates[u].pos = p
    THEN [acc EXCEPT !.err = "second time"]
    ELSE [acc EXCEPT !.updates = Append(@, [pos |-> p, row |->
            ApplyGeneratedColumns(t, [s.tables[t][p] EXCEPT ![col] = row[col]])])]

ConflictPlan(s, t, col, rows) ==
    FoldLeft(LAMBDA acc, row : PlanRow(acc, s, t, col, row, ConflictPosition(s, t, row)),
             [updates |-> <<>>, inserts |-> <<>>, err |-> ""], rows)

\* The unique keys that a plan of updates and inserts would break.
PlanCollides(s, t, updates, inserts) ==
    \/ \E u \in DOMAIN updates : ViolatesUnique(s.tables, t, updates[u].row, {updates[u].pos})
    \/ \E i \in DOMAIN inserts : ViolatesUnique(s.tables, t, inserts[i], {})
    \/ HaveDuplicateKey(t, inserts \o RowsOf(updates))

\* What exec_insert does with a conflict plan: all checks, then all changes.
CarryOut(s, t, plan, err) ==
    CASE plan.err # "" -> Failed(s, plan.err)
      [] plan.err = "" /\ PlanCollides(s, t, plan.updates, plan.inserts) -> Failed(s, "unique")
      [] OTHER -> IF err # "" THEN Failed(s, err)
                  ELSE WithRows(WithUpdates(s, t, plan.updates), t, plan.inserts)

UpsertPlanned(s, t, plan) == CarryOut(s, t, plan, RowError(s.tables, t, RowsOf(plan.updates)))

DoUpdate(s, t, col, rows) == UpsertPlanned(s, t, ConflictPlan(s, t, col, rows))

\* The checks of a plain INSERT, on all rows before any is stored.
PlainInsert(s, t, rows) ==
    IF (\E p \in DOMAIN rows : ViolatesUnique(s.tables, t, rows[p], {})) \/ HaveDuplicateKey(t, rows)
    THEN Failed(s, "unique")
    ELSE WithRows(s, t, rows)

\* MUTANT of InsertFinished: the constraints are looked at after the rows are in.
StoresFirst(s, t, f, action, err) ==
    IF f.err # "" THEN Failed(s, f.err) ELSE Failed(WithRows(s, t, f.rows), err)

\* The finished rows, the error of the first row check that fails, and what
\* ON CONFLICT says.
InsertFinished(s, t, f, action, err) ==
    CASE f.err # "" -> Failed(s, f.err)
      [] f.err = "" /\ err # "" -> Failed(s, err)
      [] OTHER -> CASE action = "nothing" -> WithRows(s, t, Accepted(s, t, f.rows))
                    [] action = "update" -> DoUpdate(s, t, 2, f.rows)
                    [] OTHER -> PlainInsert(s, t, f.rows)

InsertChecked(s, t, f, action) ==
    InsertFinished([s EXCEPT !.seqs[t] = f.seq], t, f, action, RowError(s.tables, t, f.rows))

\* exec_insert into an ordinary table, up to its triggers.
InsertRows(s, t, targets, rows, action, overriding) ==
    InsertChecked(s, t, FinishRows(s.seqs[t], t, targets, rows, overriding), action)

-----------------------------------------------------------------------------
(***************************************************************************)
(* Triggers and partitions                                                 *)
(***************************************************************************)

\* fire_row_triggers: the body of the AFTER trigger, an INSERT of a fixed row
\* into another table, once per affected row; its error is the statement's.
Fire(s, trig, affected) ==
    FoldLeft(LAMBDA acc, k :
        IF acc.err # "" THEN acc
        ELSE InsertRows(acc, trig.into, DOMAIN Columns(trig.into), <<trig.row>>, "", FALSE),
        s, [k \in 1..affected |-> k])

FireRowTriggers(s, t, event, affected) ==
    IF s.err # "" \/ ~\E trig \in Schema[t].triggers : trig.event = event THEN s
    ELSE Fire(s, CHOOSE trig \in Schema[t].triggers : trig.event = event, affected)

\* exec_insert: the rows, then the triggers of the rows inserted and updated.
InsertTriggers(done, t, inserted, updated) ==
    FireRowTriggers(FireRowTriggers(done, t, "insert", inserted), t, "update", updated)

AfterInsert(s, t, done, wanted) ==
    LET inserted == Len(done.tables[t]) - Len(s.tables[t])
    IN  InsertTriggers(done, t, inserted, IF wanted = 0 THEN 0 ELSE wanted - inserted)

ExecInsert(s, t, targets, rows, action, overriding) ==
    IF action = "update" /\ Columns(t)[2].gen # 0 THEN Failed(s, "generated")
    ELSE AfterInsert(s, t, InsertRows(s, t, targets, rows, action, overriding),
                     IF action = "update" THEN Len(rows) ELSE 0)

\* route_partition, for RANGE partitions: the first one with from <= key < to.
RoutePartition(t, key) ==
    SelectInSeq(Partitions(t), LAMBDA p :
        key # NULL /\ Schema[p].from <= key /\ key < Schema[p].to)

\* exec_insert_partitioned: each row is finished for the parent, routed on its
\* first column and inserted on its own; an error leaves the earlier ones.
InsertRouted(s, t, f, part) ==
    CASE f.err # "" -> Failed(s, f.err)
      [] f.err = "" /\ part = 0 -> Failed(s, "no partition")
      [] OTHER -> ExecInsert(s, Partitions(t)[part], DOMAIN Columns(t), <<f.row>>, "", TRUE)

RouteRow(s, t, f) == InsertRouted([s EXCEPT !.seqs[t] = f.seq], t, f, RoutePartition(t, f.row[1]))

InsertPartitioned(s, t, targets, rows) ==
    FoldLeft(LAMBDA acc, given :
        IF acc.err # "" THEN acc
        ELSE RouteRow(acc, t, FinishInsertRow(acc.seqs[t], t, targets, given, FALSE)),
        s, rows)

-----------------------------------------------------------------------------
(***************************************************************************)
(* UPDATE, DELETE, MERGE                                                   *)
(***************************************************************************)

\* MUTANT of KeysReleased: only the new row is compared with the children.
ForgetsChildren(s, t, updates) == TRUE

\* exec_update's look at the children of every row whose referenced column
\* changes, or is NULL, which compares equal to nothing.
KeysReleased(s, t, updates) ==
    \A u \in DOMAIN updates :
        LET old == s.tables[t][updates[u].pos]
        IN  (\E c \in ReferencedColumns(t) : old[c] = NULL \/ old[c] # updates[u].row[c])
                => ~IsReferenced(s.tables, t, old)

\* exec_update: SET col = v at the selected positions; all checks come first.
Versions(s, t, positions, col, v) ==
    SetToSeq({[pos |-> p, row |->
        ApplyGeneratedColumns(t, [s.tables[t][p] EXCEPT ![col] = v])] : p \in positions})

UpdateChecked(s, t, updates, err) ==
    CASE err # "" -> Failed(s, err)
      [] err = "" /\ ~KeysReleased(s, t, updates) -> Failed(s, "referenced")
      [] OTHER -> IF PlanCollides(s, t, updates, <<>>) THEN Failed(s, "unique")
                  ELSE FireRowTriggers(WithUpdates(s, t, updates), t, "update", Len(updates))

UpdateTo(s, t, updates) == UpdateChecked(s, t, updates, RowError(s.tables, t, RowsOf(updates)))

UpdateRows(s, t, positions, col, v) ==
    IF Columns(t)[col].gen # 0 THEN Failed(s, "generated")
    ELSE UpdateTo(s, t, Versions(s, t, positions, col, v))

\* exec_delete.
ExecDelete(s, t, positions) ==
    IF \E p \in positions : IsReferenced(s.tables, t, s.tables[t][p]) THEN Failed(s, "referenced")
    ELSE FireRowTriggers(WithoutRows(s, t, positions), t, "delete", Cardinality(positions))

\* The untouched target rows that satisfy ON target.1 = source.1.
MergeMatches(s, t, touched, src) ==
    {p \in DOMAIN s.tables[t] \ touched : src[1] # NULL /\ s.tables[t][p][1] = src[1]}

\* The first WHEN clause for a matched or unmatched row whose condition (the
\* second source column is not NULL, if any) holds; "" when there is none.
MergeAction(clauses, matched, src) ==
    LET k == SelectInSeq(clauses, LAMBDA c : c.matched = matched /\ (c.cond => src[2] # NULL))
    IN  IF k = 0 THEN "" ELSE clauses[k].action

\* exec_merge's plan: what each source row does, in order.
MergeInsert(acc, f) == [acc EXCEPT !.seq = f.seq, !.err = f.err, !.inserts = Append(@, f.row)]

MergeRow(acc, s, t, src, matches, action) ==
    CASE action = "insert" -> MergeInsert(acc, FinishInsertRow(acc.seq, t, DOMAIN src, src, FALSE))
      [] action = "update" ->
            [acc EXCEPT !.touched = @ \cup matches, !.updates = @ \o Versions(s, t, matches, 2, src[2])]
      [] action = "delete" -> [acc EXCEPT !.touched = @ \cup matches, !.deletes = @ \cup matches]
      [] action = "nothing" -> [acc EXCEPT !.touched = @ \cup matches]
      [] OTHER -> acc

MergeSource(acc, s, t, clauses, src, matches) ==
    MergeRow(acc, s, t, src, matches, MergeAction(clauses, matches # {}, src))

MergePlan(s, t, clauses, source) ==
    FoldLeft(LAMBDA acc, src :
        IF acc.err # "" THEN acc
        ELSE MergeSource(acc, s, t, clauses, src, MergeMatches(s, t, acc.touched, src)),
        [touched |-> {}, deletes |-> {}, updates |-> <<>>, inserts |-> <<>>,
         seq |-> s.seqs[t], err |-> ""], source)

\* exec_merge: checks on all new versions, then updates, deletes, inserts.  It
\* looks at the children of deleted rows only, and fires no trigger.
MergeChecked(s, t, plan, err) ==
    CASE plan.err # "" -> Failed(s, plan.err)
      [] plan.err = "" /\ err # "" -> Failed(s, err)
      [] plan.err = "" /\ err = "" /\ \E p \in plan.deletes : IsReferenced(s.tables, t, s.tables[t][p]) ->
            Failed(s, "referenced")
      [] OTHER ->
            IF PlanCollides(s, t, plan.updates, plan.inserts) THEN Failed(s, "unique")
            ELSE WithRows(WithoutRows(WithUpdates(s, t, plan.updates), t, plan.deletes),
                          t, plan.inserts)

MergePlanned(s, t, plan) ==
    MergeChecked([s EXCEPT !.seqs[t] = plan.seq], t, plan,
                 RowError(s.tables, t, RowsOf(plan.updates) \o plan.inserts))

Merge(s, t, clauses, source) ==
    IF Columns(t)[2].gen # 0 /\ \E k \in DOMAIN clauses : clauses[k].action = "update"
    THEN Failed(s, "generated")
    ELSE MergePlanned(s, t, MergePlan(s, t, clauses, source))

-----------------------------------------------------------------------------
(***************************************************************************)
(* The statements as steps                                                 *)
(***************************************************************************)
Fits(s) == \A t \in Tables : Len(s.tables[t]) <= Schema[t].cap /\ s.seqs[t].last <= MaxSerial

Done(kind, t, s) ==
    /\ Fits(s)
    /\ UNCHANGED schema
    /\ tables' = s.tables
    /\ sequences' = s.seqs
    /\ last' = [kind |-> kind, table |-> t, ok |-> s.err = ""]

DmlInit ==
    /\ schema \in Schemas
    /\ tables = [t \in Tables |-> <<>>]
    /\ sequences = [t \in Tables |-> NewSequence]
    /\ last = [kind |-> "", table |-> "", ok |-> TRUE]

Width(t) == Len(Columns(t))
Given(t) == {[p \in DOMAIN src |-> SubSeq(src[p], 1, Width(t))] : src \in Sources}
Targets(t) == {1..Width(t), 2..Width(t), {1}}
\* Columns that a statement does not name are NULL before they are filled.
Masked(rows, targets) ==
    [p \in DOMAIN rows |-> [i \in DOMAIN rows[p] |-> IF i \in targets THEN rows[p][i] ELSE NULL]]

InsertInto(t, targets, rows, action) ==
    /\ Partitions(t) = <<>> /\ (action = "update" => Width(t) >= 2)
    /\ Done(IF action = "update" THEN "upsert" ELSE "insert", t,
            ExecInsert(State, t, targets, Masked(rows, targets), action, FALSE))

InsertIntoParent(t, targets, rows) ==
    /\ Partitions(t) # <<>>
    /\ Done("insert", t, InsertPartitioned(State, t, targets, Masked(rows, targets)))

UpdateTable(t, positions, col, v) == Done("update", t, UpdateRows(State, t, positions, col, v))

DeleteFrom(t, positions) == Done("delete", t, ExecDelete(State, t, positions))

MergeInto(t, clauses, rows) == Width(t) >= 2 /\ Done("merge", t, Merge(State, t, clauses, rows))

\* exec_truncate.
TruncateAll(t) == Done("truncate", t, [State EXCEPT !.tables[t] = <<>>])

\* Statements that write rows name the tables the schema opens to them; rows
\* of the others come from triggers and routing.
DmlNext ==
    \/ \E t \in {u \in Tables : Schema[u].open} :
          \/ \E targets \in Targets(t), rows \in Given(t), action \in {"", "nothing", "update"} :
                InsertInto(t, targets, rows, action)
          \/ \E targets \in Targets(t), rows \in Given(t) : InsertIntoParent(t, targets, rows)
          \/ \E positions \in SUBSET RowPositions(t) \ {{}}, col \in 1..Width(t), v \in Values \cup {NULL} :
                UpdateTable(t, positions, col, v)
          \/ \E clauses \in Clauses, rows \in Given(t) : MergeInto(t, clauses, rows)
    \/ \E t \in Tables :
          \/ \E positions \in SUBSET RowPositions(t) \ {{}} : DeleteFrom(t, positions)
          \/ TruncateAll(t)

DmlSpec == DmlInit /\ [][DmlNext]_dmlVars

-----------------------------------------------------------------------------
StoredRows(t) == {tables[t][p] : p \in RowPositions(t)}

\* No sequence of statements puts two rows with one unique key in a table:
\* the checks against the old rows and among the new ones (exec_insert, its
\* two conflict actions, exec_update, exec_merge) leave no gap.
UniqueKeysHeld ==
    \A t \in Tables : \A k \in DOMAIN Schema[t].uniques : \A p, q \in RowPositions(t) :
        SameKey(tables[t][p], tables[t][q], Schema[t].uniques[k]) => p = q

\* Every row satisfies the CHECK constraints and domains of its table.
ChecksHeld ==
    \A t \in Tables : \A row \in StoredRows(t) :
        /\ \A c \in Schema[t].checks : row[c.col] \in c.allowed
        /\ \A i \in DOMAIN row : Columns(t)[i].domain # {} => row[i] \in Columns(t)[i].domain

\* A generated column is the expression of its base column in every row,
\* whichever statement wrote the row last.
GeneratedInStep ==
    \A t \in Tables : \A row \in StoredRows(t) : \A i \in DOMAIN row :
        Columns(t)[i].gen # 0 => row[i] = Generated(row[Columns(t)[i].gen])

\* Every row satisfies what its table declares of single rows.
RowsAreValid == ChecksHeld /\ GeneratedInStep

\* INSERT keeps NOT NULL, whatever mix of defaults, serial and generated
\* columns fills the row.  UPDATE, ON CONFLICT DO UPDATE and MERGE do not look
\* at it, and are left out.
NotNullOf(t) == \A row \in StoredRows(t) : \A i \in DOMAIN row : Columns(t)[i].notNull => row[i] # NULL
InsertKeepsNotNull ==
    [][\A t \in Tables : NotNullOf(t) /\ last'.kind = "insert" => NotNullOf(t)']_dmlVars

\* Every foreign key finds its row, over any order of inserts, updates and
\* deletes of both tables.  ON CONFLICT DO UPDATE, MERGE and TRUNCATE of the
\* referenced table do not look at the rows that reference it.
ReferencesOf(t) ==
    \A fk \in Schema[t].fks : \A row \in StoredRows(t) :
        row[fk.col] # NULL => \E ref \in StoredRows(fk.ref) : ref[fk.refCol] = row[fk.col]
ReferencesKept ==
    [][\A t \in Tables :
          ReferencesOf(t) /\ (last'.kind \in {"insert", "update", "delete"} \/ last'.table = t)
              => ReferencesOf(t)']_dmlVars

\* An INSERT into a partitioned table leaves every partition with keys of its
\* own bound only: route_partition, on the finished row.
WithinBound(p) == \A row \in StoredRows(p) : row[1] # NULL /\ Schema[p].from <= row[1] /\ row[1] < Schema[p].to
RoutedByBound ==
    [][\A t \in Tables : \A p \in ToSet(Partitions(t)) :
          WithinBound(p) /\ last'.table = t => WithinBound(p)']_dmlVars

\* The constraints that statements check against other rows or only on the way
\* in hold over every statement that does check them.
ConstraintsKept == InsertKeepsNotNull /\ ReferencesKept /\ RoutedByBound

\* An INSERT never leaves a serial column with a value that its sequence will
\* give out again, apart from the first one (observe_sequence does not mark a
\* sequence that still stands at its start).
Ahead(t) ==
    \A row \in StoredRows(t) : \A i \in SerialColumns(t) :
        row[i] # NULL /\ (row[i] <= 1 \/ (sequences[t].called /\ row[i] <= sequences[t].last))
SequenceIsAhead == [][\A t \in Tables : Ahead(t) /\ last'.kind = "insert" => Ahead(t)']_dmlVars

\* A statement that fails leaves every row as it was, unless its error comes
\* from a trigger, which fires after the rows are stored, or from a later row
\* of an insert into a partitioned table (executor.rs exec_insert: "check all
\* new rows against existing data and against each other before inserting
\* any").  Sequences may have moved.
FailuresChangeNothing ==
    [][(~last'.ok /\ Schema[last'.table].triggers = {} /\ Partitions(last'.table) = <<>>)
            => tables' = tables]_dmlVars
=============================================================================
