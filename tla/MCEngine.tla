------------------------------ MODULE MCEngine ------------------------------
(***************************************************************************)
(* Tables for TLC: one table with all that is kept beside its rows         *)
(* (TableStore), and the statements that write tables under constraints    *)
(* (Dml).  A behaviour is about one of the two.                            *)
(***************************************************************************)
EXTENDS TableStore, Dml

VARIABLE focus  \* "table" or "dml"

-----------------------------------------------------------------------------
(* TableStore. *)


Idx(name, cols, expr, pred, unique, method) ==
    [name |-> name, cols |-> cols, expr |-> expr, pred |-> pred,
     unique |-> unique, method |-> method]

MCElements == [n \in 0..3 |-> CASE n = 0 -> {} [] n = 1 -> {1} [] n = 2 -> {2} [] n = 3 -> {1, 2}]

MCSpecs ==
    {Idx("unique", <<1>>, "", <<>>, TRUE, "btree"),
     Idx("pair", <<2, 1>>, "", <<>>, FALSE, "btree"),
     Idx("hash", <<2>>, "", <<>>, FALSE, "hash"),
     Idx("brin", <<1>>, "", <<>>, FALSE, "brin"),
     Idx("gin", <<2>>, "", <<>>, FALSE, "gin"),
     Idx("expr", <<>>, "a", <<>>, FALSE, "btree"),
     Idx("partial", <<2>>, "", <<"a", 3>>, FALSE, "btree")}

MCShapes == {<<Text(1), Text(1)>>, <<Text(3), Text(1)>>, <<Null, Text(3)>>}

MCNames == <<"a", "b">>

-----------------------------------------------------------------------------
(* Dml. *)


Col(notNull, serial, gen, default) ==
    [notNull |-> notNull, serial |-> serial, always |-> FALSE, gen |-> gen,
     default |-> default, domain |-> {}]
AnyCol == Col(FALSE, FALSE, 0, NULL)

Tab(cap, open, cols, uniques, checks, fks, triggers) ==
    [cap |-> cap, open |-> open, cols |-> cols, uniques |-> uniques, checks |-> checks, fks |-> fks,
     triggers |-> triggers, partitions |-> <<>>, from |-> 0, to |-> 0]

\* parent(k PRIMARY KEY, v NOT NULL DEFAULT 2) referenced by
\* child(id serial UNIQUE of a domain, ref REFERENCES parent(k), g generated from ref),
\* with a trigger that writes to a table of at most one row.
References ==
    [parent |-> Tab(2, TRUE, <<AnyCol, Col(TRUE, FALSE, 0, 2)>>, <<{1}>>, {[col |-> 2, allowed |-> {2}]}, {}, {}),
     child  |-> Tab(1, TRUE, <<[Col(FALSE, TRUE, 0, NULL) EXCEPT !.domain = {1, 2, NULL}], AnyCol, Col(FALSE, FALSE, 2, NULL)>>, <<{1}>>, {},
                    {[col |-> 2, ref |-> "parent", refCol |-> 1]},
                    {[event |-> "delete", into |-> "audit", row |-> <<1>>]}),
     audit  |-> Tab(1, FALSE, <<AnyCol>>, <<{1}>>, {}, {}, {})]

\* parted(k serial, v) PARTITION BY RANGE (k), with two partitions.
Partition(from, to) ==
    [Tab(1, FALSE, <<Col(TRUE, TRUE, 0, NULL), Col(TRUE, FALSE, 0, NULL)>>, <<{1}>>, {}, {}, {}) EXCEPT !.from = from, !.to = to]
Partitioned ==
    [parted |-> [Tab(1, TRUE, <<Col(TRUE, TRUE, 0, NULL), AnyCol>>, <<{1}>>, {}, {}, {})
                    EXCEPT !.partitions = <<"low", "high">>],
     low    |-> Partition(0, 2),
     high   |-> Partition(2, 4)]

MCSchemas == {References, Partitioned}

MCSources ==
    {<<<<1, 1, NULL>>>>, <<<<2, 2, NULL>>, <<1, NULL, NULL>>>>, <<<<NULL, 2, NULL>>, <<2, 1, NULL>>>>}

When(matched, cond, action) == [matched |-> matched, cond |-> cond, action |-> action]
MCClauses ==
    {<<When(TRUE, TRUE, "update"), When(TRUE, FALSE, "delete"), When(FALSE, FALSE, "insert")>>,
     <<When(TRUE, FALSE, "nothing"), When(FALSE, TRUE, "insert")>>}

-----------------------------------------------------------------------------
NoStatement == [kind |-> "", table |-> "", ok |-> TRUE]
NoTables == [t \in {} |-> <<>>]
NoDml == schema = NoTables /\ tables = NoTables /\ sequences = NoTables /\ last = NoStatement

MCInit == /\ TableInit
          /\ \/ focus = "table" /\ NoDml
             \/ focus = "dml" /\ DmlInit
MCNext == /\ \/ focus = "table" /\ TableNext /\ UNCHANGED dmlVars
             \/ focus = "dml" /\ DmlNext /\ UNCHANGED tableVars
          /\ UNCHANGED focus
MCSpec == MCInit /\ [][MCNext]_<<tableVars, dmlVars, focus>>
\* No statement depends on what the last one was.
MCView == <<tableVars, schema, tables, sequences, focus>>
=============================================================================
