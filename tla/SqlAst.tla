-------------------------------- MODULE SqlAst --------------------------------
(***************************************************************************)
(* The trees of crates/sql/src/ast.rs: for each struct and each variant of  *)
(* an enum the fields it has and their types.  "k" names the struct or the  *)
(* variant.  An enum only one struct refers to is folded into it: the       *)
(* variant's name is a field, and its fields are those of the struct.       *)
(***************************************************************************)
EXTENDS SqlGrammar

-----------------------------------------------------------------------------
(* Types of fields.                                                         *)

String == <<"text">>
Bool == <<"flag">>
I64 == <<"i64">>                    \* <<sign, digits>>
F64 == <<"f64">>
DataType == <<"type">>              \* a variant of DataType
TypeName == <<"named">>             \* <<a variant, the declared name if it is not built in>>
Written == <<"written">>            \* <<a variant, the name as it was written>>
Verbatim == <<"tokens">>
Option(t) == <<"option", t>>
Vec(t) == <<"vec", t>>
OneOfThese(s) == <<"enum", s>>
Node(s) == <<"node", s>>

-----------------------------------------------------------------------------
(* Expressions.                                                             *)

UnaryOp == OneOfThese({"Neg", "Not"})
Quantifier == OneOfThese({"Any", "Some", "All"})
BinaryOp == OneOfThese(Comparisons \cup {"+", "-", "*", "/", "%", "||", "->", "->>", "and", "or"})

Expr == Node({"Int", "Float", "Str", "Bool", "Null", "Param", "Column", "QualifiedColumn", "Unary",
              "Binary", "QuantifiedCompare", "Row", "Array", "IsNull", "IsDistinctFrom", "Like", "InList",
              "Between", "Case", "Cast", "ScalarSubquery", "Exists", "InSubquery", "Function"})
Select == Node({"Select"})

ExprFields ==
    [Int |-> [int |-> I64], Float |-> [float |-> F64], Str |-> [text |-> String], Bool |-> [truth |-> Bool],
     Param |-> [n |-> String], Column |-> [name |-> String],
     QualifiedColumn |-> [qualifier |-> String, name |-> String],
     Unary |-> [op |-> UnaryOp, expr |-> Expr], Binary |-> [op |-> BinaryOp, expr |-> Expr, right |-> Expr],
     QuantifiedCompare |-> [op |-> BinaryOp, expr |-> Expr, quantifier |-> Quantifier, list |-> Vec(Expr)],
     Row |-> [items |-> Vec(Expr)], Array |-> [items |-> Vec(Expr)],
     IsNull |-> [expr |-> Expr, negated |-> Bool],
     IsDistinctFrom |-> [expr |-> Expr, right |-> Expr, negated |-> Bool],
     Like |-> [expr |-> Expr, pattern |-> Expr, negated |-> Bool, case_insensitive |-> Bool],
     InList |-> [expr |-> Expr, list |-> Vec(Expr), negated |-> Bool],
     Between |-> [expr |-> Expr, low |-> Expr, high |-> Expr, negated |-> Bool],
     Case |-> [operand |-> Option(Expr), whens |-> Vec(Node({"When"})), else_expr |-> Option(Expr)],
     When |-> [cond |-> Expr, result |-> Expr],
     Cast |-> [expr |-> Expr, target |-> DataType],
     ScalarSubquery |-> [subquery |-> Select], Exists |-> [subquery |-> Select],
     InSubquery |-> [expr |-> Expr, subquery |-> Select, negated |-> Bool],
     Function |-> [name |-> String, args |-> Vec(Expr), star |-> Bool, distinct |-> Bool,
                   filter |-> Option(Expr), over |-> Option(Node({"WindowSpec"}))]]

-----------------------------------------------------------------------------
(* Queries.                                                                 *)

SelectItem == Node({"Wildcard", "SelectItem"})
OrderByItem == Node({"OrderByItem"})
TableRef == Node({"TableRef"})
FromClause == Node({"FromClause"})
Assignment == Node({"Assignment"})
JoinKind == OneOfThese({"Inner", "Left", "Right", "Full", "Cross"})
SetOperator == OneOfThese({"Union", "Intersect", "Except"})
RowLockingMode == OneOfThese({"Update", "NoKeyUpdate", "Share", "KeyShare"})
RowLockingWaitPolicy == OneOfThese({"NoWait", "SkipLocked"})

QueryFields ==
    [Select |-> [ctes |-> Vec(Node({"Cte"})), distinct |-> Bool, distinct_on |-> Vec(Expr),
                 projection |-> Vec(SelectItem), from |-> Option(FromClause), filter |-> Option(Expr),
                 group_by |-> Vec(Expr), grouping_sets |-> Vec(Vec(Expr)), having |-> Option(Expr),
                 order_by |-> Vec(OrderByItem), limit |-> Option(Expr), offset |-> Option(Expr),
                 locking |-> Vec(Node({"RowLockingClause"})), set_ops |-> Vec(Node({"SetOperation"}))],
     Cte |-> [name |-> String, columns |-> Vec(String), select |-> Option(Select),
              dml |-> Option(Node({"Insert", "Update", "Delete"})), recursive |-> Bool],
     RowLockingClause |-> [mode |-> RowLockingMode, tables |-> Vec(String),
                           wait_policy |-> Option(RowLockingWaitPolicy)],
     SetOperation |-> [op |-> SetOperator, all |-> Bool, select |-> Select],
     TableRef |-> [name |-> <<"qualified">>, args |-> Vec(Expr), alias |-> Option(String),
                   subquery |-> Option(Select), lateral |-> Bool, only |-> Bool,
                   column_aliases |-> Vec(String), with_ordinality |-> Bool],
     Join |-> [kind |-> JoinKind, table |-> TableRef, on |-> Option(Expr)],
     FromClause |-> [base |-> TableRef, joins |-> Vec(Node({"Join"}))],
     SelectItem |-> [expr |-> Expr, alias |-> Option(String)],
     OrderByItem |-> [expr |-> Expr, asc |-> Bool],
     WindowSpec |-> [partition_by |-> Vec(Expr), order_by |-> Vec(OrderByItem)]]

-----------------------------------------------------------------------------
(* INSERT, UPDATE, DELETE, MERGE, COPY and the cursors.                     *)

MergeActionFields ==
    [Update |-> [assignments |-> Vec(Assignment)],
     Insert |-> [columns |-> Option(Vec(String)), values |-> Vec(Expr), default_values |-> Bool]]
CopyFormat == OneOfThese({"Text", "Csv", "Binary"})

InsertFields ==
    [Insert |-> [table |-> String, columns |-> Option(Vec(String)), default_values |-> Bool,
                 overriding_system_value |-> Bool, rows |-> Vec(Vec(Expr)), select |-> Option(Select),
                 on_conflict |-> Option(Node({"DoNothing", "DoUpdate"})), returning |-> Vec(SelectItem)],
     DoNothing |-> [target |-> Vec(String)],
     DoUpdate |-> [target |-> Vec(String), assignments |-> Vec(Assignment), filter |-> Option(Expr)],
     Copy |-> [table |-> String, query |-> Option(Select), columns |-> Option(Vec(String)),
               direction |-> OneOfThese({"From", "To"}), file |-> Option(String), format |-> CopyFormat,
               delimiter |-> Option(String), header |-> Bool, null |-> Option(String)]]

DmlFields ==
    [Assignment |-> [column |-> String, value |-> Expr],
     Update |-> [table |-> String, assignments |-> Vec(Assignment), from |-> Option(FromClause),
                 filter |-> Option(Expr), returning |-> Vec(SelectItem)],
     Delete |-> [table |-> String, using |-> Option(FromClause), filter |-> Option(Expr),
                 returning |-> Vec(SelectItem)],
     Merge |-> [target |-> String, alias |-> Option(String), source |-> Node({"Table", "Subquery", "Values"}),
                on |-> Expr, clauses |-> Vec(Node({"MergeWhen"}))],
     Table |-> [name |-> String, alias |-> Option(String)], Subquery |-> [select |-> Select, alias |-> String],
     Values |-> [rows |-> Vec(Vec(Expr)), alias |-> String, columns |-> Vec(String)],
     MergeWhen |-> [matched |-> Bool, condition |-> Option(Expr),
                    action |-> OneOfThese({"Update", "Delete", "Insert", "DoNothing"})],
     Truncate |-> [tables |-> Vec(String)],
     DeclareCursor |-> [name |-> String, select |-> Select],
     Fetch |-> [cursor |-> String, count |-> Option(String)]]

-----------------------------------------------------------------------------
(* Tables, indexes and policies.                                            *)

ColumnDef == Node({"ColumnDef"})
TableConstraint == Node({"Unique", "Check", "ForeignKey", "Exclude"})
TablePersistence == OneOfThese({"Permanent", "Unlogged", "Temporary"})
PartitionStrategy == OneOfThese({"Range", "List", "Hash"})
IndexMethod == OneOfThese({"btree", "hash", "gist", "spgist", "brin", "gin"})

AlterActionFields ==
    [AddColumn |-> [column |-> ColumnDef, if_not_exists |-> Bool],
     AddConstraint |-> [constraint |-> TableConstraint],
     DropColumn |-> [name |-> String, if_exists |-> Bool],
     DropConstraint |-> [name |-> String, if_exists |-> Bool],
     RenameColumn |-> [from |-> String, to |-> String], RenameTable |-> [to |-> String],
     OwnerTo |-> [owner |-> String],
     RowSecurity |-> [security |-> OneOfThese({"Enable", "Disable", "Force", "NoForce"})],
     SetColumnDefault |-> [column |-> String, default |-> Expr],
     DropColumnDefault |-> [column |-> String],
     SetColumnNotNull |-> [column |-> String, not_null |-> Bool]]

TableFields ==
    [ColumnDef |-> [name |-> String, data_type |-> TypeName, not_null |-> Bool, primary_key |-> Bool,
                    default |-> Option(Expr), serial |-> Bool, identity |-> Bool, identity_always |-> Bool,
                    generated |-> Option(Expr)],
     CreateTable |-> [name |-> String, columns |-> Vec(ColumnDef), constraints |-> Vec(TableConstraint),
                      if_not_exists |-> Bool, persistence |-> TablePersistence, inherits |-> Vec(String),
                      partition_by |-> Option(Node({"PartitionBy"})),
                      partition_of |-> Option(Node({"PartitionOf"}))],
     PartitionBy |-> [strategy |-> PartitionStrategy, column |-> String],
     PartitionOf |-> [parent |-> String, bound |-> Node({"Range", "List", "Hash"})],
     Range |-> [from |-> Expr, to |-> Expr], List |-> [list |-> Vec(Expr)],
     Hash |-> [modulus |-> I64, remainder |-> I64],
     AlterTable |-> [table |-> String,
                     action |-> OneOfThese(DOMAIN AlterActionFields \cup {"AlterColumnNoop", "Noop"})],
     Unique |-> [name |-> String, columns |-> Vec(String), primary_key |-> Bool],
     Check |-> [name |-> String, expr |-> Expr, validated |-> Bool],
     ForeignKey |-> [name |-> String, column |-> String, ref_table |-> String, ref_column |-> String,
                     validated |-> Bool],
     Exclude |-> [name |-> String, definition |-> Verbatim]]

IndexFields ==
    [CreateIndex |-> [name |-> Option(String), table |-> String, keys |-> Vec(Node({"IndexKeyExpr"})),
                      unique |-> Bool, if_not_exists |-> Bool, method |-> IndexMethod,
                      include |-> Vec(String), predicate |-> Option(Expr)],
     IndexKeyExpr |-> [column |-> Option(String), expr |-> Option(Expr)]]

PolicyFields ==
    [CreatePolicy |-> [name |-> String, table |-> String, permissive |-> Bool, command |-> String,
                       roles |-> Vec(String), using |-> Option(Expr), with_check |-> Option(Expr)],
     AlterPolicy |-> [name |-> String, table |-> String, roles |-> Option(Vec(String)),
                      using |-> Option(Expr), with_check |-> Option(Expr)]]

-----------------------------------------------------------------------------
(* Types, functions, roles and the other objects of the catalog.            *)

TriggerEvent == OneOfThese({"Insert", "Update", "Delete"})
TriggerTiming == OneOfThese({"Before", "After"})
CatalogObjectKind ==
    OneOfThese({"OperatorClass", "OperatorFamily", "Operator", "EventTrigger", "ForeignDataWrapper", "Server",
                "UserMapping", "Publication", "Subscription"})
CreateTypeFields ==
    [Enum |-> [labels |-> Vec(String)], Composite |-> [attributes |-> Vec(Node({"Attribute"}))],
     Range |-> [subtype |-> DataType]]

FunctionFields ==
    [CreateType |-> [name |-> String, kind |-> OneOfThese(DOMAIN CreateTypeFields)],
     Attribute |-> [name |-> String, data_type |-> DataType],
     CreateDomain |-> [name |-> String, base |-> DataType, not_null |-> Bool, check |-> Option(Expr)],
     FunctionArg |-> [name |-> Option(String), type |-> Written],
     CreateFunction |-> [name |-> String, or_replace |-> Bool, args |-> Vec(Node({"FunctionArg"})),
                         returns |-> Option(Written), body |-> Option(String), link_symbol |-> Option(String),
                         language |-> String, security_definer |-> Bool, strict |-> Bool],
     CreateTrigger |-> [name |-> String, timing |-> TriggerTiming, events |-> Vec(TriggerEvent),
                        table |-> String, for_each_row |-> Bool, function |-> String],
     CreateRule |-> [name |-> String, or_replace |-> Bool, event |-> TriggerEvent, table |-> String,
                     definition |-> Verbatim],
     CreateAggregate |-> [name |-> String, or_replace |-> Bool, arg_types |-> Vec(<<"words">>),
                          options |-> Vec(Node({"AggregateOption"}))],
     AggregateOption |-> [key |-> String, value |-> String]]

RoleOptions ==
    [superuser |-> Option(Bool), inherit |-> Option(Bool), create_role |-> Option(Bool),
     create_db |-> Option(Bool), login |-> Option(Bool), replication |-> Option(Bool),
     bypass_rls |-> Option(Bool), connection_limit |-> Option(String), password |-> Option(Option(String)),
     valid_until |-> Option(Option(String)), in_role |-> Vec(String), role_members |-> Vec(String),
     admin_members |-> Vec(String)]

ObjectFields ==
    [CreateExtension |-> [name |-> String, if_not_exists |-> Bool, version |-> Option(String)],
     AlterExtension |-> [name |-> String, to_version |-> Option(String)],
     CreateRole |-> [name |-> String, is_user |-> Bool] @@ RoleOptions,
     AlterRole |-> [name |-> String] @@ RoleOptions,
     CreateSequence |-> [name |-> String, if_not_exists |-> Bool, start |-> I64, increment |-> I64],
     AlterSequence |-> [name |-> String, restart |-> Option(I64), increment |-> Option(I64)],
     CreateSchema |-> [name |-> String, if_not_exists |-> Bool], CreateDatabase |-> [name |-> String],
     CreateTablespace |-> [name |-> String, location |-> String],
     CreateCollation |-> [name |-> String, if_not_exists |-> Bool, locale |-> String],
     CreateCatalogObject |-> [kind |-> CatalogObjectKind, name |-> <<"object">>, definition |-> Verbatim]]

ViewFields ==
    [CreateView |-> [name |-> String, or_replace |-> Bool, select |-> Select],
     CreateMaterializedView |-> [name |-> String, if_not_exists |-> Bool, select |-> Select],
     RefreshMaterializedView |-> [name |-> String]]

DropFields ==
    LET named_ == [name |-> String, if_exists |-> Bool] IN
    [DropExtension |-> [cascade |-> Bool] @@ named_,
     DropFunction |-> [arg_types |-> Option(Vec(<<"words">>))] @@ named_,
     DropAggregate |-> [arg_types |-> Vec(<<"words">>)] @@ named_,
     DropTrigger |-> [table |-> String] @@ named_, DropRule |-> [table |-> String] @@ named_,
     DropPolicy |-> [table |-> String] @@ named_,
     DropCatalogObject |-> [kind |-> CatalogObjectKind, name |-> <<"object">>, if_exists |-> Bool,
                            definition |-> Verbatim]]
    @@ [k \in {"DropTable", "DropRole", "DropSequence", "DropSchema", "DropDatabase", "DropTablespace",
               "DropCollation", "DropType", "DropDomain", "DropView", "DropMaterializedView",
               "DropIndex"} |-> named_]

-----------------------------------------------------------------------------
(* Comments, privileges, settings, maintenance and the session.             *)

CommentObjectFields == [Relation |-> [name |-> String], Column |-> [table |-> String, column |-> String]]
GrantObjectFields == [Table |-> [privileges |-> Option(Vec(String)), table |-> String],
                      Roles |-> [names |-> Vec(String)]]
Grantee == Node({"Grantee"})
AlterSystemFields == [Set |-> [name |-> Option(String), value |-> String], Reset |-> [name |-> Option(String)]]
AlterDatabaseFields == [Rename |-> [to |-> String], SetConnectionLimit |-> [limit |-> String]]

AdminFields ==
    [Explain |-> [analyze |-> Bool, statement |-> <<"any">>], Analyze |-> [table |-> Option(String)],
     Vacuum |-> [table |-> Option(String)],
     Reindex |-> [target |-> OneOfThese({"Table", "Index", "Database", "System"}), name |-> Option(String)],
     Cluster |-> [table |-> Option(String), index |-> Option(String)],
     Discard |-> [target |-> OneOfThese({"All", "Plans", "Sequences", "Temp"})],
     LockTable |-> [tables |-> Vec(String), mode |-> Option(<<"words">>), nowait |-> Bool],
     Comment |-> [object |-> OneOfThese(DOMAIN CommentObjectFields), comment |-> Option(String)],
     SecurityLabel |-> [provider |-> String, object |-> OneOfThese(DOMAIN CommentObjectFields),
                        label |-> Option(String)],
     Grant |-> [object |-> OneOfThese(DOMAIN GrantObjectFields), grantees |-> Vec(Grantee)],
     Revoke |-> [object |-> OneOfThese(DOMAIN GrantObjectFields), grantees |-> Vec(Grantee)],
     Grantee |-> [name |-> Option(String)],
     AlterSystem |-> [action |-> OneOfThese(DOMAIN AlterSystemFields)],
     AlterDatabase |-> [name |-> String, action |-> OneOfThese(DOMAIN AlterDatabaseFields)]]

IsolationLevel == OneOfThese({"ReadUncommitted", "ReadCommitted", "RepeatableRead", "Serializable"})
SessionFields ==
    [Listen |-> [channel |-> String], Notify |-> [channel |-> String, payload |-> Option(String)],
     Unlisten |-> [channel |-> Option(String)],
     Begin |-> [isolation |-> Option(IsolationLevel), read_only |-> Option(Bool)],
     Savepoint |-> [name |-> String], ReleaseSavepoint |-> [name |-> String],
     RollbackToSavepoint |-> [name |-> String],
     Set |-> [name |-> Option(String), value |-> String, local |-> Bool],
     ResetConfig |-> [name |-> Option(String)], Show |-> [name |-> Option(String)],
     SetTransaction |-> [isolation |-> Option(IsolationLevel), read_only |-> Option(Bool), session |-> Bool],
     PrepareTransaction |-> [gid |-> String], CommitPrepared |-> [gid |-> String],
     RollbackPrepared |-> [gid |-> String]]

FieldsOf ==
    ExprFields @@ QueryFields @@ InsertFields @@ DmlFields @@ TableFields @@ IndexFields @@ PolicyFields
    @@ FunctionFields @@ ObjectFields @@ ViewFields @@ DropFields @@ AdminFields @@ SessionFields
    @@ [k \in {"Null", "Wildcard", "Checkpoint", "Commit", "Rollback", "SetConstraints", "Empty"} |-> <<>>]

(* The fields of the variant that is folded into a node.                    *)
NoFields == [f \in {} |-> String]
VariantFields(x) ==
    LET of(fields, v) == IF v \in DOMAIN fields THEN fields[v] ELSE NoFields IN
    CASE x.k = "AlterTable" -> of(AlterActionFields, x.action)
      [] x.k = "MergeWhen" -> of(MergeActionFields, x.action)
      [] x.k = "CreateType" -> of(CreateTypeFields, x.kind)
      [] x.k \in {"Comment", "SecurityLabel"} -> of(CommentObjectFields, x.object)
      [] x.k \in {"Grant", "Revoke"} -> of(GrantObjectFields, x.object)
      [] x.k = "AlterSystem" -> of(AlterSystemFields, x.action)
      [] x.k = "AlterDatabase" -> of(AlterDatabaseFields, x.action)
      [] OTHER -> NoFields

(* The digits of the instances that are no i64 have nineteen places.        *)
FitsI64(digits) == Len(digits) < 19

(* Whether x is a value of type t, and a node a well-formed tree.           *)
RECURSIVE Is(_, _), WellFormed(_)
Is(t, x) ==
    CASE t[1] = "flag" -> x \in BOOLEAN
      [] t[1] = "i64" -> x[1] \in {-1, 1} /\ FitsI64(x[2])
      [] t[1] = "f64" -> x[1] \in {-1, 1}
      [] t[1] = "enum" -> x \in t[2]
      [] t[1] = "node" -> x.k \in t[2] /\ WellFormed(x)
      [] t[1] = "any" -> WellFormed(x)
      [] t[1] = "option" -> Len(x) <= 1 /\ \A j \in DOMAIN x : Is(t[2], x[j])
      [] t[1] = "vec" -> \A j \in DOMAIN x : Is(t[2], x[j])
      [] t[1] \in {"named", "written", "qualified"} -> Len(x) = 2
      [] OTHER -> TRUE

WellFormed(x) ==
    LET fields == VariantFields(x) @@ FieldsOf[x.k] IN
    /\ DOMAIN x = {"k"} \cup DOMAIN fields
    /\ \A f \in DOMAIN fields : Is(fields[f], x[f])
=============================================================================
