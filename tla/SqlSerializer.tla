----------------------------- MODULE SqlSerializer -----------------------------
(***************************************************************************)
(* crates/sql/src/serialize.rs: the text of a statement, as the tokens the  *)
(* lexer will read it as.  The operators have the names of the functions;   *)
(* a statement is a record as SqlParser builds it.                          *)
(***************************************************************************)
EXTENDS SqlGrammar, SqlTypes

-----------------------------------------------------------------------------
(* Names, literals, lists.                                                  *)

Letters == {"a", "b", "c", "d", "e", "f", "g", "h", "i", "j", "k", "l", "m", "n", "o", "p", "q", "r",
            "s", "t", "u", "v", "w", "x", "y", "z", "_"}
Digits == {"0", "1", "2", "3", "4", "5", "6", "7", "8", "9"}
Simple(x) == /\ x # "" /\ SubSeq(x, 1, 1) \in Letters
             /\ \A j \in 1..Len(x) : SubSeq(x, j, j) \in Letters \cup Digits
ident(x) == <<IF Simple(x) THEN W(x) ELSE Q(x)>>
quote_string(x) == <<L(x)>>
(* Unquoted: a text with a blank in it is read as two words.                *)
Blank == ("x y" :> <<"x", "y">>)
Raw(x) == Words(IF x \in DOMAIN Blank THEN Blank[x] ELSE <<x>>)

(* $$body$$ ends at the first $$ in it, which a body that ends in $ moves.  *)
EndsInDollar == ("b$" :> "b")
dollar_quote(body) ==
    IF body \in DOMAIN EndsInDollar THEN <<L(EndsInDollar[body]), <<"bad", "$">>>> ELSE <<L(body)>>

RECURSIVE Joined(_, _), Concat(_)
Concat(ts) == IF ts = <<>> THEN <<>> ELSE Head(ts) \o Concat(Tail(ts))
Joined(xs, w) ==
    CASE xs = <<>> -> <<>> [] Len(xs) = 1 -> xs[1]
      [] OTHER -> xs[1] \o <<W(w)>> \o Joined(Tail(xs), w)
Commas(xs) == Joined(xs, ",")
Each(xs, Op(_)) == [j \in DOMAIN xs |-> Op(xs[j])]
Idents(xs) == Commas(Each(xs, ident))
Typed(names) == Commas(Each(names, Words))
InParens(t) == <<W("(")>> \o t \o <<W(")")>>
When(p, ws) == IF p THEN Words(ws) ELSE <<>>

(* i64::to_string and format_float, of <<sign, digits>>.                    *)
integer(n) == IF n[1] = -1 THEN <<W("-"), N(n[2])>> ELSE <<N(n[2])>>
NotFinite == {"NaN", "Infinity"}
float(x) == When(x[1] = -1, <<"-">>) \o <<IF x[2] \in NotFinite THEN W(x[2]) ELSE N(x[2])>>

IfSome(o, Op(_)) == IF o = None THEN <<>> ELSE Op(o[1])
IfAny(xs, t) == IF xs = <<>> THEN <<>> ELSE t
if_exists(d) == When(d.if_exists, <<"if", "exists">>)
if_not_exists(c) == When(c.if_not_exists, <<"if", "not", "exists">>)
or_replace(c) == When(c.or_replace, <<"or", "replace">>)

isolation_sql == [ReadUncommitted |-> <<"read", "uncommitted">>, ReadCommitted |-> <<"read", "committed">>,
                  RepeatableRead |-> <<"repeatable", "read">>, Serializable |-> <<"serializable">>]
transaction_modes(s) ==
    IfSome(s.isolation, LAMBDA x : Words(<<"isolation", "level">> \o isolation_sql[x]))
    \o IfSome(s.read_only, LAMBDA x : Words(<<"read", IF x THEN "only" ELSE "write">>))

-----------------------------------------------------------------------------
(* Expressions, queries and statements call each other, through the node's  *)
(* kind.                                                                    *)

RECURSIVE to_sql(_)

Exprs(es) == Commas(Each(es, to_sql))
where(o) == IfSome(o, LAMBDA e : Words(<<"where">>) \o to_sql(e))

(* The text that starts with a minus sign turns the one before it into --.  *)
Minus(t) == IF Head(t) = W("-") THEN <<W("--")>> \o Tail(t) ELSE <<W("-")>> \o t

\* MUTANT of Operand: a compound expression is written without parentheses.
OperandBare(e, op, right) == to_sql(e.expr) \o Words(op) \o right

Operand(e, op, right) == InParens(to_sql(e.expr) \o Words(op) \o right)
Not(e, ws) == IF e.negated THEN <<"not">> \o ws ELSE ws

order_item(o) == to_sql(o.expr) \o When(~o.asc, <<"desc">>)
order_by(os) == IfAny(os, Words(<<"order", "by">>) \o Commas(Each(os, order_item)))
window_spec_sql(w) ==
    IfAny(w.partition_by, Words(<<"partition", "by">>) \o Exprs(w.partition_by)) \o order_by(w.order_by)

function_sql(e) ==
    IF e.name = "__subscript" /\ Len(e.args) = 2
    THEN to_sql(e.args[1]) \o <<W("[")>> \o to_sql(e.args[2]) \o <<W("]")>>
    ELSE Raw(e.name)
         \o (IF e.star THEN Words(<<"(", "*", ")">>)
             ELSE InParens(When(e.distinct, <<"distinct">>) \o Exprs(e.args)))
         \o IfSome(e.filter, LAMBDA f : Words(<<"filter">>) \o InParens(Words(<<"where">>) \o to_sql(f)))
         \o IfSome(e.over, LAMBDA w : Words(<<"over">>) \o InParens(window_spec_sql(w)))

case_sql(e) ==
    LET arm(w) == Words(<<"when">>) \o to_sql(w.cond) \o Words(<<"then">>) \o to_sql(w.result)
    IN Words(<<"case">>) \o IfSome(e.operand, to_sql)
       \o Concat(Each(e.whens, arm))
       \o IfSome(e.else_expr, LAMBDA x : Words(<<"else">>) \o to_sql(x)) \o Words(<<"end">>)

quantifier_sql == [Any |-> "any", Some |-> "some", All |-> "all"]

predicate_sql(e) ==
    CASE e.k = "IsNull" -> Operand(e, <<"is">> \o Not(e, <<"null">>), <<>>)
      [] e.k = "IsDistinctFrom" ->
           Operand(e, <<"is">> \o Not(e, <<"distinct", "from">>), to_sql(e.right))
      [] e.k = "Like" ->
           Operand(e, Not(e, <<IF e.case_insensitive THEN "ilike" ELSE "like">>), to_sql(e.pattern))
      [] e.k = "InList" -> Operand(e, Not(e, <<"in">>), InParens(Exprs(e.list)))
      [] e.k = "Between" ->
           Operand(e, Not(e, <<"between">>), to_sql(e.low) \o Words(<<"and">>) \o to_sql(e.high))
      [] e.k = "InSubquery" -> Operand(e, Not(e, <<"in">>), InParens(to_sql(e.subquery)))

literal_sql(e) ==
    CASE e.k = "Int"   -> integer(e.int)
      [] e.k = "Float" -> float(e.float)
      [] e.k = "Str"   -> quote_string(e.text)
      [] e.k = "Bool"  -> Raw(IF e.truth THEN "true" ELSE "false")
      [] e.k = "Null"  -> Raw("null")
      [] e.k = "Param" -> <<P(e.n)>>

ExprKinds == {"Int", "Float", "Str", "Bool", "Null", "Param", "Column", "QualifiedColumn", "Unary", "Binary",
              "QuantifiedCompare", "Row", "Array", "Case", "Cast", "ScalarSubquery", "Exists", "Function",
              "IsNull", "IsDistinctFrom", "Like", "InList", "Between", "InSubquery"}
expr_to_sql(e) ==
    CASE e.k \in {"Int", "Float", "Str", "Bool", "Null", "Param"} -> literal_sql(e)
      [] e.k = "Column" -> ident(e.name)
      [] e.k = "QualifiedColumn" -> ident(e.qualifier) \o <<W(".")>> \o ident(e.name)
      [] e.k = "Unary" -> InParens(IF e.op = "Neg" THEN Minus(to_sql(e.expr))
                                   ELSE Words(<<"not">>) \o to_sql(e.expr))
      [] e.k = "Binary" -> Operand(e, <<e.op>>, to_sql(e.right))
      [] e.k = "QuantifiedCompare" ->
           Operand(e, <<e.op, quantifier_sql[e.quantifier]>>, InParens(Exprs(e.list)))
      [] e.k = "Row" -> Words(<<"row">>) \o InParens(Exprs(e.items))
      [] e.k = "Array" -> Words(<<"array", "[">>) \o Exprs(e.items) \o <<W("]")>>
      [] e.k = "Case" -> case_sql(e)
      [] e.k = "Cast" -> Words(<<"cast">>)
                         \o InParens(to_sql(e.expr) \o Words(<<"as">> \o sql_name[e.target]))
      [] e.k = "ScalarSubquery" -> InParens(to_sql(e.subquery))
      [] e.k = "Exists" -> Words(<<"exists">>) \o InParens(to_sql(e.subquery))
      [] e.k = "Function" -> function_sql(e)
      [] OTHER -> predicate_sql(e)

-----------------------------------------------------------------------------
(* Queries.                                                                 *)

push_column_aliases(names) == IfAny(names, InParens(Idents(names)))
as(alias_) == IfSome(alias_, LAMBDA a : Words(<<"as">>) \o ident(a))

table_ref_to_sql(t) ==
    When(t.lateral, <<"lateral">>)
    \o (IF t.subquery # None THEN InParens(to_sql(t.subquery[1]))
        ELSE IfSome(t.name[1], LAMBDA s : ident(s) \o <<W(".")>>) \o ident(t.name[2])
             \o IfAny(t.args, InParens(Exprs(t.args)))
             \o When(t.with_ordinality, <<"with", "ordinality">>))
    \o as(t.alias) \o push_column_aliases(t.column_aliases)

JoinWords == [Inner |-> <<"join">>, Left |-> <<"left", "join">>, Right |-> <<"right", "join">>,
              Full |-> <<"full", "join">>, Cross |-> <<"cross", "join">>]
join_sql(j) == Words(JoinWords[j.kind]) \o table_ref_to_sql(j.table)
               \o IfSome(j.on, LAMBDA e : Words(<<"on">>) \o to_sql(e))

from_clause_to_sql(f) == table_ref_to_sql(f.base) \o Concat(Each(f.joins, join_sql))
select_item_to_sql(s) ==
    IF s.k = "Wildcard" THEN Raw("*") ELSE to_sql(s.expr) \o as(s.alias)

LockWords == [Update |-> <<"update">>, NoKeyUpdate |-> <<"no", "key", "update">>, Share |-> <<"share">>,
              KeyShare |-> <<"key", "share">>]
row_locking_clause_to_sql(l) ==
    Words(<<"for">> \o LockWords[l.mode]) \o IfAny(l.tables, Words(<<"of">>) \o Idents(l.tables))
    \o IfSome(l.wait_policy, LAMBDA p : Words(IF p = "NoWait" THEN <<"nowait">> ELSE <<"skip", "locked">>))

cte_sql(c) ==
    ident(c.name) \o IfAny(c.columns, InParens(Idents(c.columns))) \o Words(<<"as">>)
    \o InParens(IF c.dml # None THEN to_sql(c.dml[1]) ELSE to_sql(c.select[1]))
with_sql(s) ==
    Words(<<"with">>) \o When(\E j \in DOMAIN s.ctes : s.ctes[j].recursive, <<"recursive">>)
    \o Commas(Each(s.ctes, cte_sql))

SetWords == [Union |-> "union", Intersect |-> "intersect", Except |-> "except"]
set_op_sql(o) == Raw(SetWords[o.op]) \o When(o.all, <<"all">>) \o to_sql(o.select)

grouping_sql(s) ==
    LET set(es) == InParens(Exprs(es)) IN
    IF s.group_by # <<>> THEN Words(<<"group", "by">>) \o Exprs(s.group_by)
    ELSE IfAny(s.grouping_sets, Words(<<"group", "by", "grouping", "sets">>)
                                \o InParens(Commas(Each(s.grouping_sets, set))))

select_to_sql(s) ==
    IfAny(s.ctes, with_sql(s)) \o Words(<<"select">>)
    \o (IF ~s.distinct THEN <<>>
        ELSE Words(<<"distinct">>) \o IfAny(s.distinct_on, Words(<<"on">>) \o InParens(Exprs(s.distinct_on))))
    \o Commas(Each(s.projection, select_item_to_sql))
    \o IfSome(s.from, LAMBDA f : Words(<<"from">>) \o from_clause_to_sql(f))
    \o where(s.filter) \o grouping_sql(s)
    \o IfSome(s.having, LAMBDA e : Words(<<"having">>) \o to_sql(e))
    \o Concat(Each(s.set_ops, set_op_sql)) \o order_by(s.order_by)
    \o IfSome(s.limit, LAMBDA e : Words(<<"limit">>) \o to_sql(e))
    \o IfSome(s.offset, LAMBDA e : Words(<<"offset">>) \o to_sql(e))
    \o Concat(Each(s.locking, row_locking_clause_to_sql))

-----------------------------------------------------------------------------
(* INSERT, UPDATE, DELETE, MERGE.  RETURNING is not written.                *)

columns_sql(o) == IfSome(o, LAMBDA names : InParens(Idents(names)))
tuple_sql(es) == InParens(Exprs(es))
assignment_sql(a) == ident(a.column) \o <<W("=")>> \o to_sql(a.value)
assignments_sql(as_) == Words(<<"set">>) \o Commas(Each(as_, assignment_sql))

on_conflict_sql(c) ==
    Words(<<"on", "conflict">>) \o IfAny(c.target, InParens(Idents(c.target))) \o Words(<<"do">>)
    \o (IF c.k = "DoNothing" THEN Words(<<"nothing">>)
        ELSE Words(<<"update">>) \o assignments_sql(c.assignments) \o where(c.filter))

insert_sql(i) ==
    Words(<<"insert", "into">>) \o ident(i.table) \o columns_sql(i.columns)
    \o When(i.overriding_system_value, <<"overriding", "system", "value">>)
    \o (IF i.default_values THEN Words(<<"default", "values">>)
        ELSE IF i.select # None THEN to_sql(i.select[1])
        ELSE Words(<<"values">>) \o Commas(Each(i.rows, tuple_sql)))
    \o IfSome(i.on_conflict, on_conflict_sql)

update_sql(u) ==
    Words(<<"update">>) \o ident(u.table) \o assignments_sql(u.assignments)
    \o IfSome(u.from, LAMBDA f : Words(<<"from">>) \o from_clause_to_sql(f)) \o where(u.filter)
delete_sql(d) ==
    Words(<<"delete", "from">>) \o ident(d.table)
    \o IfSome(d.using, LAMBDA f : Words(<<"using">>) \o from_clause_to_sql(f)) \o where(d.filter)

merge_source_sql(s) ==
    CASE s.k = "Table" -> ident(s.name) \o as(s.alias)
      [] s.k = "Subquery" -> InParens(to_sql(s.select)) \o Words(<<"as">>) \o ident(s.alias)
      [] s.k = "Values" -> InParens(Words(<<"values">>) \o Commas(Each(s.rows, tuple_sql)))
                           \o Words(<<"as">>) \o ident(s.alias) \o push_column_aliases(s.columns)
merge_action_sql(w) ==
    CASE w.action = "Update" -> Words(<<"update">>) \o assignments_sql(w.assignments)
      [] w.action = "Delete" -> Words(<<"delete">>)
      [] w.action = "DoNothing" -> Words(<<"do", "nothing">>)
      [] w.action = "Insert" ->
           Words(<<"insert">>)
           \o (IF w.default_values THEN Words(<<"default", "values">>)
               ELSE columns_sql(w.columns) \o Words(<<"values">>) \o tuple_sql(w.values))
merge_when_sql(w) ==
    Words(<<"when">>) \o When(~w.matched, <<"not">>) \o Words(<<"matched">>)
    \o IfSome(w.condition, LAMBDA e : Words(<<"and">>) \o to_sql(e))
    \o Words(<<"then">>) \o merge_action_sql(w)
merge_sql(m) ==
    Words(<<"merge", "into">>) \o ident(m.target) \o as(m.alias)
    \o Words(<<"using">>) \o merge_source_sql(m.source) \o Words(<<"on">>) \o to_sql(m.on)
    \o Concat(Each(m.clauses, merge_when_sql))

-----------------------------------------------------------------------------
(* Tables and indexes.                                                      *)

column_type_sql(c) ==
    CASE c.serial -> Words(<<CASE c.data_type[1] = "Int2" -> "smallserial"
                               [] c.data_type[1] = "Int8" -> "bigserial" [] OTHER -> "serial">>)
      [] c.data_type[2] # None -> Words(c.data_type[2][1])
      [] OTHER -> Words(sql_name[c.data_type[1]])
column_def_to_sql(c) ==
    ident(c.name) \o column_type_sql(c)
    \o (IF c.primary_key THEN Words(<<"primary", "key">>)
        ELSE When(c.not_null /\ ~c.serial, <<"not", "null">>))
    \o When(c.identity, <<"generated">> \o (IF c.identity_always THEN <<"always">> ELSE <<"by", "default">>)
                        \o <<"as", "identity">>)
    \o IfSome(c.generated, LAMBDA e : Words(<<"generated", "always", "as">>) \o InParens(to_sql(e))
                                      \o Words(<<"stored">>))
    \o (IF c.serial THEN <<>> ELSE IfSome(c.default, LAMBDA e : Words(<<"default">>) \o to_sql(e)))

table_constraint_sql(c) ==
    LET valid == When(~c.validated, <<"not", "valid">>) IN
    Words(<<"constraint">>) \o ident(c.name)
    \o (CASE c.k = "Unique" -> Words(IF c.primary_key THEN <<"primary", "key">> ELSE <<"unique">>)
                               \o InParens(Idents(c.columns))
          [] c.k = "Check" -> Words(<<"check">>) \o InParens(to_sql(c.expr)) \o valid
          [] c.k = "ForeignKey" ->
               Words(<<"foreign", "key">>) \o InParens(ident(c.column)) \o Words(<<"references">>)
               \o ident(c.ref_table) \o InParens(ident(c.ref_column)) \o valid
          [] c.k = "Exclude" -> c.definition)

partition_bound_sql(b) ==
    Words(<<"for", "values">>)
    \o (CASE b.k = "Range" -> Words(<<"from">>) \o InParens(to_sql(b.from)) \o Words(<<"to">>)
                              \o InParens(to_sql(b.to))
          [] b.k = "List" -> Words(<<"in">>) \o InParens(Exprs(b.list))
          [] b.k = "Hash" -> Words(<<"with", "(", "modulus">>) \o integer(b.modulus)
                             \o Words(<<",", "remainder">>) \o integer(b.remainder) \o <<W(")")>>)

PersistenceWords == [Permanent |-> <<>>, Unlogged |-> <<"unlogged">>, Temporary |-> <<"temporary">>]
StrategyWords == [Range |-> "range", List |-> "list", Hash |-> "hash"]
create_table_sql(c) ==
    Words(<<"create">> \o PersistenceWords[c.persistence] \o <<"table">>) \o if_not_exists(c) \o ident(c.name)
    \o (IF c.partition_of # None
        THEN Words(<<"partition", "of">>) \o ident(c.partition_of[1].parent)
             \o partition_bound_sql(c.partition_of[1].bound)
        ELSE InParens(Commas(Each(c.columns, column_def_to_sql) \o Each(c.constraints, table_constraint_sql)))
             \o IfAny(c.inherits, Words(<<"inherits">>) \o InParens(Idents(c.inherits)))
             \o IfSome(c.partition_by, LAMBDA p : Words(<<"partition", "by", StrategyWords[p.strategy]>>)
                                                  \o InParens(ident(p.column))))

SecurityWords == [Enable |-> <<"enable">>, Disable |-> <<"disable">>, Force |-> <<"force">>,
                  NoForce |-> <<"no", "force">>]
alter_action_sql(a) ==
    CASE a.action = "AddColumn" -> Words(<<"add", "column">>) \o if_not_exists(a) \o column_def_to_sql(a.column)
      [] a.action = "DropColumn" -> Words(<<"drop", "column">>) \o if_exists(a) \o ident(a.name)
      [] a.action = "AddConstraint" -> Words(<<"add">>) \o table_constraint_sql(a.constraint)
      [] a.action = "DropConstraint" -> Words(<<"drop", "constraint">>) \o if_exists(a) \o ident(a.name)
      [] a.action = "RenameColumn" ->
           Words(<<"rename", "column">>) \o ident(a.from) \o Words(<<"to">>) \o ident(a.to)
      [] a.action = "RenameTable" -> Words(<<"rename", "to">>) \o ident(a.to)
      [] a.action = "OwnerTo" -> Words(<<"owner", "to">>) \o ident(a.owner)
      [] a.action = "RowSecurity" -> Words(SecurityWords[a.security] \o <<"row", "level", "security">>)
      [] a.action = "SetColumnDefault" ->
           Words(<<"alter", "column">>) \o ident(a.column) \o Words(<<"set", "default">>) \o to_sql(a.default)
      [] a.action = "DropColumnDefault" ->
           Words(<<"alter", "column">>) \o ident(a.column) \o Words(<<"drop", "default">>)
      [] a.action = "SetColumnNotNull" ->
           Words(<<"alter", "column">>) \o ident(a.column)
           \o Words(<<IF a.not_null THEN "set" ELSE "drop", "not", "null">>)
      [] a.action \in {"AlterColumnNoop", "Noop"} -> <<>>
alter_table_sql(a) == Words(<<"alter", "table">>) \o ident(a.table) \o alter_action_sql(a)

create_index_sql(c) ==
    LET key(x) == IF x.column # None THEN ident(x.column[1]) ELSE InParens(to_sql(x.expr[1])) IN
    Words(<<"create">>) \o When(c.unique, <<"unique">>) \o Words(<<"index">>) \o if_not_exists(c)
    \o IfSome(c.name, ident) \o Words(<<"on">>) \o ident(c.table)
    \o When(c.method # "btree", <<"using", c.method>>) \o InParens(Commas(Each(c.keys, key)))
    \o IfAny(c.include, Words(<<"include">>) \o InParens(Idents(c.include))) \o where(c.predicate)

-----------------------------------------------------------------------------
(* Policies, types, functions and the objects around them.                  *)

policy_tests_sql(p) ==
    IfSome(p.using, LAMBDA e : Words(<<"using">>) \o InParens(to_sql(e)))
    \o IfSome(p.with_check, LAMBDA e : Words(<<"with", "check">>) \o InParens(to_sql(e)))
create_policy_sql(c) ==
    Words(<<"create", "policy">>) \o ident(c.name) \o Words(<<"on">>) \o ident(c.table)
    \o When(~c.permissive, <<"as", "restrictive">>) \o When(c.command # "all", <<"for", c.command>>)
    \o IfAny(c.roles, Words(<<"to">>) \o Idents(c.roles)) \o policy_tests_sql(c)
alter_policy_sql(a) ==
    Words(<<"alter", "policy">>) \o ident(a.name) \o Words(<<"on">>) \o ident(a.table)
    \o IfSome(a.roles, LAMBDA rs : Words(<<"to">>) \o Idents(rs)) \o policy_tests_sql(a)

create_type_sql(c) ==
    LET attribute_sql(a) == ident(a.name) \o Words(sql_name[a.data_type]) IN
    Words(<<"create", "type">>) \o ident(c.name) \o Words(<<"as">>)
    \o (CASE c.kind = "Enum" -> Words(<<"enum">>) \o InParens(Commas(Each(c.labels, quote_string)))
          [] c.kind = "Composite" -> InParens(Commas(Each(c.attributes, attribute_sql)))
          [] c.kind = "Range" -> Words(<<"range">>) \o InParens(Words(<<"subtype", "=">> \o sql_name[c.subtype])))
create_domain_sql(c) ==
    Words(<<"create", "domain">>) \o ident(c.name) \o Words(<<"as">> \o sql_name[c.base])
    \o When(c.not_null, <<"not", "null">>)
    \o IfSome(c.check, LAMBDA e : Words(<<"check">>) \o InParens(to_sql(e)))

function_body_sql(c) ==
    IF c.language = "c"
    THEN quote_string(c.body[1]) \o IfSome(c.link_symbol, LAMBDA s : <<W(",")>> \o quote_string(s))
    ELSE dollar_quote(c.body[1])
create_function_sql(c) ==
    LET arg(a) == IfSome(a.name, ident) \o Words(a.type[2]) IN
    Words(<<"create">>) \o or_replace(c) \o Words(<<"function">>) \o ident(c.name)
    \o InParens(Commas(Each(c.args, arg)))
    \o IfSome(c.returns, LAMBDA t : Words(<<"returns">> \o t[2]))
    \o Words(<<"as">>) \o function_body_sql(c) \o Words(<<"language", c.language>>)
    \o When(c.strict, <<"strict">>) \o When(c.security_definer, <<"security", "definer">>)

EventWords == [Insert |-> "insert", Update |-> "update", Delete |-> "delete"]
create_trigger_sql(c) ==
    LET event(x) == Raw(EventWords[x]) IN
    Words(<<"create", "trigger">>) \o ident(c.name) \o Raw(IF c.timing = "Before" THEN "before" ELSE "after")
    \o Joined(Each(c.events, event), "or") \o Words(<<"on">>) \o ident(c.table)
    \o Words(<<"for", "each", IF c.for_each_row THEN "row" ELSE "statement", "execute", "function">>)
    \o ident(c.function) \o Words(<<"(", ")">>)
create_rule_sql(c) ==
    Words(<<"create">>) \o or_replace(c) \o Words(<<"rule">>) \o ident(c.name)
    \o Words(<<"as", "on", EventWords[c.event], "to">>) \o ident(c.table) \o c.definition
create_aggregate_sql(c) ==
    LET option(o) == Words(<<o.key, "=">>) \o Raw(o.value) IN
    Words(<<"create">>) \o or_replace(c) \o Words(<<"aggregate">>) \o ident(c.name)
    \o InParens(Typed(c.arg_types)) \o InParens(Commas(Each(c.options, option)))

keyword == [OperatorClass |-> <<"operator", "class">>, OperatorFamily |-> <<"operator", "family">>,
            Operator |-> <<"operator">>, EventTrigger |-> <<"event", "trigger">>,
            ForeignDataWrapper |-> <<"foreign", "data", "wrapper">>, Server |-> <<"server">>,
            UserMapping |-> <<"user", "mapping">>, Publication |-> <<"publication">>,
            Subscription |-> <<"subscription">>]
catalog_name(c) ==
    When(c.kind = "UserMapping", <<"for">>) \o (IF c.kind = "Operator" THEN c.name ELSE ident(c.name))
create_catalog_object_sql(c) == Words(<<"create">> \o keyword[c.kind]) \o catalog_name(c) \o c.definition
drop_catalog_object_sql(d) ==
    Words(<<"drop">> \o keyword[d.kind]) \o if_exists(d) \o catalog_name(d) \o d.definition

-----------------------------------------------------------------------------
(* Roles, privileges, comments, settings.                                   *)

role_flag_sql(o, yes, no) == IfSome(o, LAMBDA p : Raw(IF p THEN yes ELSE no))
role_names_sql(ws, names) == IfAny(names, Words(ws) \o Idents(names))
role_options_sql(r) ==
    role_flag_sql(r.superuser, "superuser", "nosuperuser") \o role_flag_sql(r.inherit, "inherit", "noinherit")
    \o role_flag_sql(r.create_role, "createrole", "nocreaterole")
    \o role_flag_sql(r.create_db, "createdb", "nocreatedb") \o role_flag_sql(r.login, "login", "nologin")
    \o role_flag_sql(r.replication, "replication", "noreplication")
    \o role_flag_sql(r.bypass_rls, "bypassrls", "nobypassrls")
    \o IfSome(r.connection_limit, LAMBDA n : Words(<<"connection", "limit">>) \o <<N(n)>>)
    \o IfSome(r.password, LAMBDA p : Words(<<"password">>)
                                     \o (IF p = None THEN Raw("null") ELSE quote_string(p[1])))
    \o IfSome(r.valid_until, LAMBDA u : Words(<<"valid", "until">>)
                                        \o quote_string(IF u = None THEN "infinity" ELSE u[1]))
    \o role_names_sql(<<"in", "role">>, r.in_role) \o role_names_sql(<<"role">>, r.role_members)
    \o role_names_sql(<<"admin">>, r.admin_members)
role_sql(r) == IfAny(role_options_sql(r), Words(<<"with">>) \o role_options_sql(r))

grant_sql(g, verb, to) ==
    LET grantee(x) == IF x.name = None THEN Raw("public") ELSE ident(x.name[1]) IN
    Raw(verb)
    \o (IF g.object = "Roles" THEN Idents(g.names)
        ELSE (IF g.privileges = None THEN Raw("all") ELSE Commas(Each(g.privileges[1], Raw)))
             \o Words(<<"on">>) \o ident(g.table))
    \o Raw(to) \o Commas(Each(g.grantees, grantee))

comment_target(c) ==
    IF c.object = "Relation" THEN Words(<<"table">>) \o ident(c.name)
    ELSE Words(<<"column">>) \o ident(c.table) \o <<W(".")>> \o ident(c.column)
null_or(o) == IF o = None THEN Raw("null") ELSE quote_string(o[1])
comment_sql(c) == Words(<<"comment", "on">>) \o comment_target(c) \o Words(<<"is">>) \o null_or(c.comment)
security_label_sql(s) ==
    Words(<<"security", "label", "for">>) \o ident(s.provider) \o Words(<<"on">>) \o comment_target(s)
    \o Words(<<"is">>) \o null_or(s.label)

alter_system_sql(a) ==
    Words(<<"alter", "system">>)
    \o (IF a.action = "Set" THEN Words(<<"set">>) \o ident(a.name[1]) \o <<W("=")>> \o quote_string(a.value)
        ELSE Words(<<"reset">>) \o (IF a.name = None THEN Raw("all") ELSE ident(a.name[1])))
alter_database_sql(a) ==
    Words(<<"alter", "database">>) \o ident(a.name)
    \o (IF a.action = "Rename" THEN Words(<<"rename", "to">>) \o ident(a.to)
        ELSE Words(<<"with", "connection", "limit">>) \o <<N(a.limit)>>)

-----------------------------------------------------------------------------
(* to_sql.                                                        *)

create_sql(c) ==
    CASE c.k = "CreateTable" -> create_table_sql(c)
      [] c.k = "CreateExtension" ->
           Words(<<"create", "extension">>) \o if_not_exists(c) \o ident(c.name)
           \o IfSome(c.version, LAMBDA x : Words(<<"with", "version">>) \o quote_string(x))
      [] c.k = "CreateRole" ->
           Words(<<"create", IF c.is_user THEN "user" ELSE "role">>) \o ident(c.name) \o role_sql(c)
      [] c.k = "CreateSequence" ->
           Words(<<"create", "sequence">>) \o if_not_exists(c) \o ident(c.name)
           \o Words(<<"start", "with">>) \o integer(c.start)
           \o Words(<<"increment", "by">>) \o integer(c.increment)
      [] c.k = "CreateSchema" -> Words(<<"create", "schema">>) \o if_not_exists(c) \o ident(c.name)
      [] c.k = "CreateDatabase" -> Words(<<"create", "database">>) \o ident(c.name)
      [] c.k = "CreateTablespace" ->
           Words(<<"create", "tablespace">>) \o ident(c.name) \o Words(<<"location">>) \o quote_string(c.location)
      [] c.k = "CreateCollation" ->
           Words(<<"create", "collation">>) \o if_not_exists(c) \o ident(c.name)
           \o InParens(Words(<<"locale", "=">>) \o quote_string(c.locale))
      [] c.k = "CreateType" -> create_type_sql(c)
      [] c.k = "CreateDomain" -> create_domain_sql(c)
      [] c.k = "CreateView" ->
           Words(<<"create">>) \o or_replace(c) \o Words(<<"view">>) \o ident(c.name) \o Words(<<"as">>)
           \o to_sql(c.select)
      [] c.k = "CreateMaterializedView" ->
           Words(<<"create", "materialized", "view">>) \o if_not_exists(c) \o ident(c.name) \o Words(<<"as">>)
           \o to_sql(c.select)
      [] c.k = "CreateFunction" -> create_function_sql(c)
      [] c.k = "CreateTrigger" -> create_trigger_sql(c)
      [] c.k = "CreateRule" -> create_rule_sql(c)
      [] c.k = "CreateAggregate" -> create_aggregate_sql(c)
      [] c.k = "CreatePolicy" -> create_policy_sql(c)
      [] c.k = "CreateIndex" -> create_index_sql(c)
      [] c.k = "CreateCatalogObject" -> create_catalog_object_sql(c)

\* MUTANT of DropWords: DROP MATERIALIZED VIEW is written as DROP VIEW.
DropWordsShort == [DropTable |-> <<"table">>, DropRole |-> <<"role">>, DropSequence |-> <<"sequence">>,
                   DropSchema |-> <<"schema">>, DropDatabase |-> <<"database">>,
                   DropTablespace |-> <<"tablespace">>, DropCollation |-> <<"collation">>,
                   DropType |-> <<"type">>, DropDomain |-> <<"domain">>, DropView |-> <<"view">>,
                   DropMaterializedView |-> <<"view">>, DropIndex |-> <<"index">>,
                   DropExtension |-> <<"extension">>, DropFunction |-> <<"function">>,
                   DropAggregate |-> <<"aggregate">>, DropTrigger |-> <<"trigger">>,
                   DropRule |-> <<"rule">>, DropPolicy |-> <<"policy">>]

DropWords == [DropTable |-> <<"table">>, DropRole |-> <<"role">>, DropSequence |-> <<"sequence">>,
              DropSchema |-> <<"schema">>, DropDatabase |-> <<"database">>,
              DropTablespace |-> <<"tablespace">>, DropCollation |-> <<"collation">>,
              DropType |-> <<"type">>, DropDomain |-> <<"domain">>, DropView |-> <<"view">>,
              DropMaterializedView |-> <<"materialized", "view">>, DropIndex |-> <<"index">>,
              DropExtension |-> <<"extension">>, DropFunction |-> <<"function">>,
              DropAggregate |-> <<"aggregate">>, DropTrigger |-> <<"trigger">>, DropRule |-> <<"rule">>,
              DropPolicy |-> <<"policy">>]
drop_sql(d) ==
    Words(<<"drop">> \o DropWords[d.k]) \o if_exists(d) \o ident(d.name)
    \o (CASE d.k = "DropExtension" -> When(d.cascade, <<"cascade">>)
          [] d.k = "DropFunction" -> IfSome(d.arg_types, LAMBDA ts : InParens(Typed(ts)))
          [] d.k = "DropAggregate" -> InParens(Typed(d.arg_types))
          [] d.k \in {"DropTrigger", "DropRule", "DropPolicy"} -> Words(<<"on">>) \o ident(d.table)
          [] OTHER -> <<>>)

alter_sql(a) ==
    CASE a.k = "AlterTable" -> alter_table_sql(a)
      [] a.k = "AlterPolicy" -> alter_policy_sql(a)
      [] a.k = "AlterRole" -> Words(<<"alter", "role">>) \o ident(a.name) \o role_sql(a)
      [] a.k = "AlterSequence" ->
           Words(<<"alter", "sequence">>) \o ident(a.name)
           \o IfSome(a.restart, LAMBDA n : Words(<<"restart", "with">>) \o integer(n))
           \o IfSome(a.increment, LAMBDA n : Words(<<"increment", "by">>) \o integer(n))
      [] a.k = "AlterDatabase" -> alter_database_sql(a)
      [] a.k = "AlterSystem" -> alter_system_sql(a)
      [] a.k = "AlterExtension" ->
           Words(<<"alter", "extension">>) \o ident(a.name) \o Words(<<"update">>)
           \o IfSome(a.to_version, LAMBDA x : Words(<<"to">>) \o quote_string(x))

(* Statements that are never logged.  COPY writes its options unescaped.    *)
copy_sql(c) ==
    LET options == When(c.format # "Text", <<"format", IF c.format = "Csv" THEN "csv" ELSE "binary">>)
        delimiter_ == IfSome(c.delimiter, LAMBDA x : Words(<<"delimiter">>) \o quote_string(x))
        header_ == When(c.header, <<"header">>)
        null_ == IfSome(c.null, LAMBDA x : Words(<<"null">>) \o quote_string(x))
        all == SelectSeq(<<options, delimiter_, header_, null_>>, LAMBDA t : t # <<>>)
    IN Words(<<"copy">>)
       \o (IF c.query # None THEN InParens(to_sql(c.query[1])) ELSE ident(c.table) \o columns_sql(c.columns))
       \o Raw(IF c.direction = "From" THEN "from" ELSE "to")
       \o (IF c.file # None THEN quote_string(c.file[1])
           ELSE Raw(IF c.direction = "From" THEN "stdin" ELSE "stdout"))
       \o IfAny(all, Words(<<"with">>) \o InParens(Commas(all)))

\* MUTANT of reindex_sql: REINDEX SYSTEM is written as REINDEX DATABASE.
reindex_sql_database(r) ==
    Words(<<"reindex", CASE r.target = "Table" -> "table" [] r.target = "Index" -> "index"
                         [] OTHER -> "database">>) \o IfSome(r.name, ident)

reindex_sql(r) ==
    Words(<<"reindex", CASE r.target = "Table" -> "table" [] r.target = "Index" -> "index"
                         [] r.target = "Database" -> "database" [] r.target = "System" -> "system">>)
    \o IfSome(r.name, ident)
discard_sql == [All |-> "all", Plans |-> "plans", Sequences |-> "sequences", Temp |-> "temp"]

maintenance_sql(s) ==
    CASE s.k = "Copy" -> copy_sql(s)
      [] s.k = "DeclareCursor" ->
           Words(<<"declare">>) \o ident(s.name) \o Words(<<"cursor", "for">>) \o to_sql(s.select)
      [] s.k = "Fetch" ->
           Words(<<"fetch">>) \o (IF s.count = <<"Next">> THEN Raw("next") ELSE IF s.count = <<"All">> THEN Raw("all")
                                  ELSE <<N(s.count[1])>>)
           \o Words(<<"from">>) \o ident(s.cursor)
      [] s.k = "Analyze" -> Words(<<"analyze">>) \o IfSome(s.table, ident)
      [] s.k = "Vacuum" -> Words(<<"vacuum">>) \o IfSome(s.table, ident)
      [] s.k = "Reindex" -> reindex_sql(s)
      [] s.k = "Cluster" ->
           Words(<<"cluster">>) \o IfSome(s.table, ident)
           \o (IF s.table = None THEN <<>> ELSE IfSome(s.index, LAMBDA x : Words(<<"using">>) \o ident(x)))
      [] s.k = "Checkpoint" -> Words(<<"checkpoint">>)
      [] s.k = "Discard" -> Words(<<"discard", discard_sql[s.target]>>)
      [] s.k = "LockTable" -> Words(<<"lock", "table">>) \o Idents(s.tables)

session_sql(s) ==
    CASE s.k = "Listen" -> Words(<<"listen">>) \o ident(s.channel)
      [] s.k = "Notify" -> Words(<<"notify">>) \o ident(s.channel)
                           \o IfSome(s.payload, LAMBDA x : <<W(",")>> \o quote_string(x))
      [] s.k = "Unlisten" -> Words(<<"unlisten">>) \o (IF s.channel = None THEN Raw("*") ELSE ident(s.channel[1]))
      [] s.k = "Begin" -> Words(<<"begin">>) \o transaction_modes(s)
      [] s.k = "Commit" -> Words(<<"commit">>)
      [] s.k = "Rollback" -> Words(<<"rollback">>)
      [] s.k = "Savepoint" -> Words(<<"savepoint">>) \o ident(s.name)
      [] s.k = "ReleaseSavepoint" -> Words(<<"release", "savepoint">>) \o ident(s.name)
      [] s.k = "RollbackToSavepoint" -> Words(<<"rollback", "to", "savepoint">>) \o ident(s.name)
      [] s.k = "PrepareTransaction" -> Words(<<"prepare", "transaction">>) \o quote_string(s.gid)
      [] s.k = "CommitPrepared" -> Words(<<"commit", "prepared">>) \o quote_string(s.gid)
      [] s.k = "RollbackPrepared" -> Words(<<"rollback", "prepared">>) \o quote_string(s.gid)
      [] s.k = "Set" -> Words(<<"set", s.name[1], "=">>) \o quote_string(s.value)
      [] s.k = "ResetConfig" -> Words(<<"reset", IF s.name = None THEN "all" ELSE s.name[1]>>)
      [] s.k = "Show" -> Words(<<"show", s.name[1]>>)
      [] s.k = "SetConstraints" -> Words(<<"set", "constraints", "all", "immediate">>)
      [] s.k = "SetTransaction" ->
           Words(IF s.session THEN <<"set", "session", "characteristics", "as", "transaction">>
                 ELSE <<"set", "transaction">>) \o transaction_modes(s)

Maintenance == {"Copy", "DeclareCursor", "Fetch", "Analyze", "Vacuum", "Reindex", "Cluster", "Checkpoint",
                "Discard", "LockTable"}
SessionControl == {"Listen", "Notify", "Unlisten", "Begin", "Commit", "Rollback", "Savepoint",
                   "ReleaseSavepoint", "RollbackToSavepoint", "PrepareTransaction", "CommitPrepared",
                   "RollbackPrepared", "Set", "ResetConfig", "Show", "SetConstraints", "SetTransaction"}

statement_to_sql(s) ==
    CASE s.k = "Insert" -> insert_sql(s)
      [] s.k = "Update" -> update_sql(s)
      [] s.k = "Delete" -> delete_sql(s)
      [] s.k = "Merge" -> merge_sql(s)
      [] s.k = "Truncate" -> Words(<<"truncate", "table">>) \o Idents(s.tables)
      [] s.k = "Explain" ->
           Words(<<"explain">>) \o When(s.analyze, <<"analyze">>) \o to_sql(s.statement)
      [] s.k = "Comment" -> comment_sql(s)
      [] s.k = "SecurityLabel" -> security_label_sql(s)
      [] s.k = "Grant" -> grant_sql(s, "grant", "to")
      [] s.k = "Revoke" -> grant_sql(s, "revoke", "from")
      [] s.k = "RefreshMaterializedView" -> Words(<<"refresh", "materialized", "view">>) \o ident(s.name)
      [] s.k \in DOMAIN DropWords -> drop_sql(s)
      [] s.k = "DropCatalogObject" -> drop_catalog_object_sql(s)
      [] s.k \in {"AlterTable", "AlterPolicy", "AlterRole", "AlterSequence", "AlterDatabase", "AlterSystem",
                  "AlterExtension"} -> alter_sql(s)
      [] s.k \in Maintenance -> maintenance_sql(s)
      [] s.k \in SessionControl -> session_sql(s)
      [] s.k = "Empty" -> <<>>
      [] OTHER -> create_sql(s)

to_sql(x) ==
    CASE x.k \in ExprKinds -> expr_to_sql(x)
      [] x.k = "Select" -> select_to_sql(x)
      [] OTHER -> statement_to_sql(x)
=============================================================================
