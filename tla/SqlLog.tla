-------------------------------- MODULE SqlLog --------------------------------
(***************************************************************************)
(* SQL text through the server: a client's text is parsed, its parameters   *)
(* are bound, the statement is executed and, when it changes the database,  *)
(* written to the logical log as text again (crates/server/src/server.rs,   *)
(* execute_autocommit); after a restart the log is parsed and replayed      *)
(* (replay).  What a statement does is left out: the database is the        *)
(* sequence of statements applied to it, so it is restored exactly when the *)
(* log reads back as the statements that were executed.                     *)
(***************************************************************************)
EXTENDS SqlClient, SqlAst, SqlBind, SqlSerializer

CONSTANTS
    Options, QueryOptions, ExprOptions,  \* optional parts a text may use
    Wire,                                \* parameters a client may bind: <<raw, oid>>
    Datums                               \* arguments a native function may pass: <<datum, oid>>

VARIABLES
    draft,      \* the text the client is writing
    phase,      \* how far it got
    prepared,   \* the parsed statement
    executed,   \* the statements that changed the database, in order
    log,        \* the records of the logical log
    restored    \* what replaying the log applies

sqlVars == <<draft, phase, prepared, executed, log, restored>>

-----------------------------------------------------------------------------
(* server.rs.                                                               *)

is_mutation_kinds ==
    {"CreateTable", "CreateExtension", "AlterExtension", "CreateRole", "CreateSequence", "CreateSchema",
     "CreateDatabase", "CreateTablespace", "CreateCollation", "CreateType", "CreateDomain", "CreateView",
     "CreateMaterializedView", "CreateFunction", "CreateTrigger", "CreateRule", "CreateAggregate",
     "DropFunction", "DropTrigger", "DropRule", "DropAggregate", "DropTable", "DropExtension", "DropRole",
     "DropSequence", "DropSchema", "DropDatabase", "DropTablespace", "DropCollation", "DropType",
     "DropDomain", "DropView", "DropMaterializedView", "RefreshMaterializedView", "AlterTable",
     "CreatePolicy", "AlterPolicy", "DropPolicy", "AlterRole", "AlterSequence", "SecurityLabel",
     "AlterSystem", "CreateIndex", "DropIndex", "Comment", "Grant", "Revoke", "Insert", "Truncate",
     "AlterDatabase", "Update", "Delete", "CreateCatalogObject", "DropCatalogObject", "Merge"}
RECURSIVE is_mutation(_)
is_mutation(s) == IF s.k = "Explain" THEN s.analyze /\ is_mutation(s.statement) ELSE s.k \in is_mutation_kinds

(* A record is a statement's text, a semicolon and a line end.  The lexer   *)
(* skips from -- to the end of the line.                                    *)
LineEnd == W("<newline>")
Record(text) == text \o <<W(";"), LineEnd>>
RECURSIVE Flatten(_)
Flatten(rs) == IF rs = <<>> THEN <<>> ELSE Head(rs) \o Flatten(Tail(rs))
RECURSIVE tokenize(_)
tokenize(text) ==
    IF text = <<>> THEN <<>>
    ELSE CASE Head(text) = W("--") -> tokenize(SubSeq(text, Upto(text, 1, "<newline>"), Len(text)))
           [] Head(text) = LineEnd -> tokenize(Tail(text))
           [] OTHER -> <<Head(text)>> \o tokenize(Tail(text))

RECURSIVE RecoverPrefix(_), WithPrefix(_, _)
RecoverPrefix(records) ==
    IF records = <<>> THEN <<>>
    ELSE WithPrefix(parse_sql(tokenize(Head(records))), Tail(records))
WithPrefix(r, others) == IF r = None THEN <<>> ELSE r[1] \o RecoverPrefix(others)
OrPrefix(r, records) == IF r # None THEN r[1] ELSE RecoverPrefix(records)
parse_wal_statements(records) == OrPrefix(parse_sql(tokenize(Flatten(records))), records)
replay(records) == SelectSeq(parse_wal_statements(records), LAMBDA s : s.k # "Empty")

-----------------------------------------------------------------------------
(* Behaviour.                                                               *)

SqlInit ==
    /\ draft \in Drafts(Options, QueryOptions, ExprOptions)
    /\ phase = "writing"
    /\ prepared = <<>> /\ executed = <<>> /\ log = <<>> /\ restored = <<>>

Compose ==
    /\ phase = "writing" /\ draft.todo # <<>>
    /\ draft' \in Choices(draft)
    /\ UNCHANGED <<phase, prepared, executed, log, restored>>

Prepare(r) ==
    /\ phase' = IF r = None THEN "refused" ELSE "prepared"
    /\ prepared' = IF r = None THEN <<>> ELSE r[1]
handle_parse ==
    /\ phase = "writing" /\ draft.todo = <<>>
    /\ Prepare(parse_sql(draft.text))
    /\ UNCHANGED <<draft, executed, log, restored>>

(* The parameters that arrive with the statement: none over the simple      *)
(* protocol.                                                                *)
HasParams == \E j \in DOMAIN draft.text : draft.text[j][1] = "p"
Messages == IF HasParams THEN Wire \cup {<<>>} ELSE {<<>>}
Params(m) == IF m = <<>> THEN Some([n \in {} |-> 0])
             ELSE LET v == decode_param(m[1], m[2]) IN
                  IF v = None THEN None ELSE Some("1" :> v[1])
handle_bind(m) ==
    IF Params(m) = None THEN None
    ELSE IF m = <<>> THEN Some(prepared[1]) ELSE Substitute(prepared[1], Params(m)[1], Descends)

(* Execution succeeds; a statement that fails changes nothing and is not    *)
(* logged.                                                                  *)
execute_autocommit(s) ==
    /\ executed' = IF is_mutation(s) THEN Append(executed, s) ELSE executed
    /\ log' = IF is_mutation(s) THEN Append(log, Record(to_sql(s))) ELSE log

Execute ==
    /\ phase = "prepared"
    /\ \E m \in Messages :
         LET s == handle_bind(m) IN
         IF s = None THEN phase' = "refused" /\ UNCHANGED <<executed, log>>
         ELSE phase' = "executed" /\ execute_autocommit(s[1])
    /\ UNCHANGED <<draft, prepared, restored>>

(* Another statement follows it into the log.                               *)
Follower == parse_sql(Words(<<"truncate", "table", "t">>))[1][1]
ExecuteFollower ==
    /\ phase = "executed" /\ log # <<>>
    /\ execute_autocommit(Follower)
    /\ phase' = "followed"
    /\ UNCHANGED <<draft, prepared, restored>>

(* A native function runs the statement: its arguments are bound, and it    *)
(* reaches the executor as text again (native.rs,                           *)
(* execute_spi_query_with_params; executor.rs,                              *)
(* execute_native_spi_statement).                                           *)
SpiRuns(r) == IF r = None THEN <<>> ELSE SelectSeq(r[1], LAMBDA s : s.k # "Empty")
execute_native_spi_statement(text) == SpiRuns(parse_sql(tokenize(text)))
execute_spi_query_with_params ==
    /\ phase = "prepared"
    /\ \E args \in {<<>>} \cup IF HasParams THEN {<<d>> : d \in Datums} ELSE {} :
         LET params == [n \in {"1" : j \in DOMAIN args} |-> spi_datum_to_value(args[1][1], args[1][2])]
             s == Substitute(prepared[1], params, SpiDescends)
         IN IF s = None THEN phase' = "refused" /\ UNCHANGED <<executed, restored>>
            ELSE /\ phase' = "spi"
                 /\ executed' = s
                 /\ restored' = execute_native_spi_statement(to_sql(s[1]))
    /\ UNCHANGED <<draft, prepared, log>>

Restart ==
    /\ phase = "followed"
    /\ restored' = replay(log)
    /\ phase' = "recovered"
    /\ UNCHANGED <<draft, prepared, executed, log>>

SqlNext == Compose \/ handle_parse \/ Execute \/ ExecuteFollower \/ Restart \/ execute_spi_query_with_params
SqlSpec == SqlInit /\ [][SqlNext]_sqlVars

-----------------------------------------------------------------------------
(* Properties.                                                              *)

(* What the parser returns is a tree of ast.rs: each node has exactly the   *)
(* fields of its struct or variant, whichever optional clauses were read    *)
(* and in whichever order.                                                  *)
TreesWellFormed == phase = "prepared" => \A j \in DOMAIN prepared : WellFormed(prepared[j])

(* What a statement does to the database: everything but its answer.        *)
RECURSIVE Effect(_)
Effect(s) ==
    CASE s.k = "Explain" -> [s EXCEPT !.statement = Effect(s.statement)]
      [] s.k \in {"Insert", "Update", "Delete"} -> [s EXCEPT !.returning = <<>>]
      [] OTHER -> s
Effects(ss) == [j \in DOMAIN ss |-> Effect(ss[j])]

(* Replaying the log applies the statements that were executed              *)
(* (serialize.rs: the text "re-parses to an identical tree").               *)
ReplayIsExact == phase = "recovered" => restored = Effects(executed)

(* The trees whose text reads as another tree, or as none.                  *)
WordsOfExpr == {"null", "select"}
ReadsAsInt(x) == Len(x) < 19 /\ \A j \in 1..Len(x) : SubSeq(x, j, j) \in Digits
BuiltInAsWritten(ws) == ws = <<>> \/ ws[1] = "pg_catalog"
NotWritten(types) == \E j \in DOMAIN types : BuiltInAsWritten(types[j])
LostNode(x) ==
    CASE x.k \in {"Column", "Function"} -> x.name \in WordsOfExpr
      [] x.k = "QualifiedColumn" -> ~Simple(x.qualifier) \/ x.qualifier \in WordsOfExpr
      [] x.k = "Int" -> x.int[1] = -1
      [] x.k = "Float" -> x.float[1] = -1 \/ x.float[2] \in NotFinite \/ ReadsAsInt(x.float[2])
      [] x.k = "ScalarSubquery" -> x.subquery.ctes # <<>>
      [] x.k = "Select" -> x.projection = <<>>
      [] x.k = "TableRef" -> x.only
      [] x.k = "SetOperation" -> x.select.set_ops # <<>>
      [] x.k = "Cte" -> x.dml # None /\ x.dml[1].returning # <<>>
      [] x.k = "ColumnDef" -> x.serial /\ x.default # None
      [] x.k = "AlterTable" ->
           x.action \in {"Noop", "AlterColumnNoop"} \/ (x.action = "AddConstraint" /\ x.constraint.k = "Exclude")
      [] x.k = "AlterPolicy" -> x.roles = Some(<<>>)
      [] x.k \in {"CreateRole", "AlterRole"} -> x.valid_until = Some(None)
      [] x.k = "CreateTrigger" -> x.events = <<>>
      [] x.k = "FunctionArg" -> BuiltInAsWritten(x.type[2])
      [] x.k = "CreateFunction" ->
           \/ x.language # "c" /\ (x.link_symbol # None \/ x.body[1] \in DOMAIN EndsInDollar)
           \/ x.returns # None /\ BuiltInAsWritten(x.returns[1][2])
      [] x.k = "CreateAggregate" ->
           NotWritten(x.arg_types) \/ \E j \in DOMAIN x.options : x.options[j].value \in DOMAIN Blank
      [] x.k = "Set" -> x.local
      [] x.k = "LockTable" -> x.mode # None \/ x.nowait
      [] x.k = "DropAggregate" -> NotWritten(x.arg_types)
      [] x.k = "DropFunction" -> x.arg_types # None /\ NotWritten(x.arg_types[1])
      [] OTHER -> FALSE
RECURSIVE Lost(_), LostIn(_, _)
LostIn(t, x) ==
    CASE t[1] \in {"node", "any"} -> Lost(x)
      [] t[1] \in {"option", "vec"} -> \E j \in DOMAIN x : LostIn(t[2], x[j])
      [] OTHER -> FALSE
Lost(x) ==
    LET fields == VariantFields(x) @@ FieldsOf[x.k] IN
    LostNode(x) \/ \E f \in DOMAIN fields : LostIn(fields[f], x[f])

(* Whatever a client writes and binds, replaying the log applies exactly    *)
(* the statements that were executed, each tree the one the parser and the  *)
(* binder made, unless the tree is one of the above.                        *)
ReplayRestores ==
    phase = "recovered" /\ (\A j \in DOMAIN executed : ~Lost(executed[j])) => restored = Effects(executed)

(* A statement that a native function runs through SPI_execute_with_args is *)
(* the one it gave, with its arguments in place.                            *)
SpiRunsStatement ==
    phase = "spi" /\ ~Lost(executed[1]) => restored = Effects(executed)

(* Even then the replay applies no statement of another kind, and no more   *)
(* statements than were executed: a record never becomes two.               *)
ReplayKeepsKinds ==
    phase = "recovered" => /\ Len(restored) <= Len(executed)
                           /\ \A j \in DOMAIN restored : restored[j].k = executed[j].k

=============================================================================
