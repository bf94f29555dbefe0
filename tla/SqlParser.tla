------------------------------ MODULE SqlParser ------------------------------
(***************************************************************************)
(* crates/sql/src/parser.rs as a function from token lists to trees.        *)
(*                                                                          *)
(* SqlStatements and SqlQueries hold the methods, SqlCursor the cursor.     *)
(* Here is what a method computes from the fields it read (Turn), what each *)
(* kind of step does, precedence climbing, and parse_sql.  The methods call *)
(* each other, so the parser at work is a machine with a stack.             *)
(***************************************************************************)
EXTENDS SqlStatements, SqlQueries, SqlCursor

-----------------------------------------------------------------------------
(* What the methods compute from what they read.  The result is an Option:  *)
(* None when the method returns an error there.                             *)

With(v, f, x) == (f :> x) @@ v
Without(v, fs) == [f \in (DOMAIN v) \ fs |-> v[f]]
LastOf(s) == s[Len(s)]
ReplaceLast(s, x) == [s EXCEPT ![Len(s)] = x]

privilege_from_keyword == {"select", "insert", "update", "delete", "truncate", "references", "trigger"}
privileges(v) ==
    IF \E j \in DOMAIN v.names : to_ascii_lowercase(v.names[j]) \notin privilege_from_keyword THEN None
    ELSE Some(With(Without(v, {"names"}), "privileges", Some(v.names)))

(* The name of a constraint that was given none.                            *)
constraint_name(table, c) ==
    IF c.name # None THEN c.name[1]
    ELSE CASE c.k = "Exclude"    -> table \o "_exclusion"
           [] c.k = "Check"      -> table \o "_check"
           [] c.k = "ForeignKey" -> table \o "_" \o c.column \o "_fkey"
           [] c.k = "Unique"     -> table \o "_" \o JoinText(c.columns, "_")
                                    \o (IF c.primary_key THEN "_pkey" ELSE "_key")
named(table, c) == With(c, "name", constraint_name(table, c))
name_last(v) == With(v, "constraints", ReplaceLast(v.constraints, named(v.name, LastOf(v.constraints))))

inline_name(table, column, c) ==
    IF c.name # None THEN c.name[1]
    ELSE table \o "_" \o column \o
         (CASE c.k = "ForeignKey" -> "_fkey" [] c.k = "Check" -> "_check" [] c.k = "Unique" -> "_key")
inline_constraint(table, column, c) ==
    LET n == With(c, "name", inline_name(table, column, c)) IN
    CASE c.k = "ForeignKey" -> With(n, "column", column)
      [] c.k = "Unique"     -> With(n, "columns", <<column>>)
      [] c.k = "Check"      -> n
parse_column_def(c) == Without(c, {"inline", "always"})
take_inline(v) ==
    LET c == LastOf(v.columns) IN
    With(With(v, "columns", ReplaceLast(v.columns, parse_column_def(c))), "constraints",
         v.constraints \o [j \in DOMAIN c.inline |-> inline_constraint(v.name, c.name, c.inline[j])])

index_method(v) ==
    IF to_ascii_lowercase(v.method) \in {"hash", "gist", "spgist", "brin", "gin"} THEN v
    ELSE With(v, "method", "btree")

(* Grouping sets: what CUBE and ROLLUP stand for, and the cross product of  *)
(* the elements of a GROUP BY.                                              *)
rollup_sets(cols) == [j \in 1..(Len(cols) + 1) |-> SubSeq(cols, 1, Len(cols) + 1 - j)]
RECURSIVE cube_sets(_)
cube_sets(cols) ==
    IF cols = <<>> THEN <<<<>>>>
    ELSE LET last == LastOf(cols)  rest == cube_sets(SubSeq(cols, 1, Len(cols) - 1))
         IN [j \in DOMAIN rest |-> Append(rest[j], last)] \o rest
RECURSIVE Crossed(_, _)
Crossed(prefixes, elements) ==
    IF elements = <<>> THEN prefixes
    ELSE LET sets == Head(elements).sets  n == Len(sets) IN
         Crossed([h \in 1..(Len(prefixes) * n) |->
                    prefixes[((h - 1) \div n) + 1] \o sets[((h - 1) % n) + 1]], Tail(elements))
element(plain, sets) == [plain |-> plain, sets |-> sets]
grouping(v) ==
    LET es == v.elements
        plain == \A j \in DOMAIN es : es[j].plain
        w == Without(v, {"elements"})
    IN IF plain THEN With(w, "group_by", [j \in DOMAIN es |-> es[j].sets[1][1]])
       ELSE With(w, "grouping_sets", Crossed(<<<<>>>>, es))

(* VALUES is the SELECT of its first tuple, in union with those of the rest. *)
column_names == <<"column1", "column2", "column3">>
values_select(v) ==
    LET w == Without(v, {"tuples"})
        item(e, a) == [k |-> "SelectItem", expr |-> e, alias |-> a]
        bare(tuple) == With(With(With(w, "k", "Select"), "ctes", <<>>), "projection",
                            [j \in DOMAIN tuple |-> item(tuple[j], None)])
        first == v.tuples[1]
    IN With(With(w, "projection", [j \in DOMAIN first |-> item(first[j], Some(column_names[j]))]),
            "set_ops", [j \in 1..(Len(v.tuples) - 1) |->
                          [k |-> "SetOperation", op |-> "Union", all |-> TRUE, select |-> bare(v.tuples[j + 1])]])

call(name, args) ==
    [k |-> "Function", name |-> name, args |-> args, star |-> FALSE, distinct |-> FALSE,
     filter |-> None, over |-> None]
reg_types == {<<x>> : x \in {"regclass", "regtype", "regnamespace", "regproc", "regrole",
                             "regprocedure", "regoper", "regoperator", "regconfig", "regdictionary"}}
cast(v) ==
    LET raw == v.type[2] IN
    [it |-> IF raw # None /\ raw[1] \in reg_types THEN call("__cast_" \o raw[1][1], <<v.it>>)
            ELSE [k |-> "Cast", expr |-> v.it, target |-> v.type[1]]]

Convert(c, v) ==
    CASE c = "privileges"      -> privileges(v)
      [] c = "name_last"       -> Some(name_last(v))
      [] c = "name_constraint" -> Some(With(v, "constraint", named(v.table, v.constraint)))
      [] c = "take_inline"     -> Some(take_inline(v))
      [] c = "column_def"      -> Some([it |-> parse_column_def(v.it)])
      [] c = "int"             -> IF v.it.k = "Int" THEN Some([it |-> v.it.int]) ELSE None
      [] c = "has_columns"     -> IF v.columns = <<>> THEN None ELSE Some(v)
      [] c = "index_method"    -> Some(index_method(v))
      [] c = "copy_direction"  -> IF v.query # None /\ v.direction = "From" THEN None ELSE Some(v)
      [] c = "first_locale"    -> Some([it |-> IF v.locales = <<>> THEN "C" ELSE v.locales[1]])
      [] c = "some_all"        -> Some([it |-> Some(v.all)])
      [] c = "some_names"      -> Some([it |-> Some(v.names)])
      [] c = "or_no_types"     -> Some(With(v, "arg_types", IF v.arg_types = None THEN <<>> ELSE v.arg_types[1]))
      [] c = "subquery_name"   -> Some(With(v, "name", <<None, IF v.alias = None THEN "" ELSE v.alias[1]>>))
      [] c = "cube_sets"       -> Some(element(FALSE, cube_sets(v.cols)))
      [] c = "rollup_sets"     -> Some(element(FALSE, rollup_sets(v.cols)))
      [] c = "one_set"         -> Some(element(TRUE, <<<<v.expr>>>>))
      [] c = "one_expr"        -> Some([it |-> <<v.expr>>])
      [] c = "grouping"        -> Some(grouping(v))
      [] c = "values_select"   -> Some(values_select(v))
      [] c = "flag_recursive"  -> Some(With(Without(v, {"recursive"}), "ctes",
                                       [j \in DOMAIN v.ctes |-> With(v.ctes[j], "recursive", v.recursive)]))
      [] c = "subquery_has_no_columns" -> Some(IF v.k = "Subquery" THEN Without(v, {"columns"}) ELSE v)
      [] c = "group_or_row"    -> Some(IF Len(v.items) = 1 THEN [it |-> v.items[1]]
                                       ELSE [k |-> "Row", items |-> v.items])
      [] c = "date_part"       -> Some([it |-> call("date_part", <<[k |-> "Str", text |-> v.field], v.source>>)])
      [] c = "cast"            -> Some(cast(v))
      [] c = "subscript"       -> Some([it |-> call("__subscript", <<v.it, v.index>>)])
      [] c = "interval_value"  -> Some([text |-> IF v.qualifier = None THEN v.text
                                                 ELSE v.text \o "|" \o v.qualifier[1]])

-----------------------------------------------------------------------------
(* The methods by the name steps use for them.                              *)

Rules == [
    statement |-> parse_statement, select |-> parse_select, insert |-> parse_insert,
    update |-> parse_update, delete |-> parse_delete, merge |-> parse_merge,
    paren_expr |-> paren_expr, null_or_string |-> null_or_string,
    infinity_or_string |-> infinity_or_string, collation_options |-> parse_collation_options,
    alter_policy |-> parse_alter_policy, policy_roles |-> parse_policy_roles,
    grantee |-> parse_grantee, table_constraint |-> parse_table_constraint,
    inline_references |-> inline_references, inline_check |-> inline_check,
    inline_unique |-> inline_unique, partition_of |-> partition_of, partition_by |-> partition_by,
    partition_bound |-> parse_partition_bound, index_key |-> index_key, attribute |-> attribute,
    function_arg |-> function_arg, aggregate_option |-> aggregate_option,
    optional_arg_types |-> parse_optional_arg_types,
    column_def_with_constraints |-> parse_column_def_with_constraints,
    maybe_names |-> maybe_names, names_or_none |-> names_or_none, subquery |-> subquery,
    assignment |-> assignment, values_tuple |-> values_tuple, values_tuples |-> parse_values_tuples,
    call_args |-> parse_call_args, select_item |-> select_item, order_by_item |-> order_by_item,
    order_by_items |-> parse_order_by_items, table_ref |-> parse_table_ref, join |-> parse_join,
    from_clause |-> parse_from_clause, cte |-> cte, grouping_element |-> grouping_element,
    grouping_set |-> grouping_set, exprs_to_rparen |-> parse_expr_list_until_rparen,
    select_core |-> <<parse_select_core, Put("ctes", <<>>)>>, set_operation |-> set_operation,
    row_locking_clause |-> parse_row_locking_clause, on_conflict |-> parse_on_conflict,
    merge_source |-> parse_merge_source, merge_when |-> parse_merge_when, when |-> when,
    within_group |-> within_group, aggregate_filter |-> parse_aggregate_filter,
    over_clause |-> parse_over_clause, string_expr |-> string_expr, interval_expr |-> interval_expr,
    atom_inner |-> parse_atom_inner, atom |-> parse_atom, prefix |-> parse_prefix,
    column_def |-> <<Get("it", "column_def_with_constraints"), Turn("column_def")>>,
    int_expr |-> <<Ex("it"), Turn("int")>>]

peek_binary_op == Comparisons \cup {"+", "-", "*", "/", "%", "||", "->", "->>", "and", "or"}
binding_power(op) ==
    CASE op = "or" -> <<1, "expr2">> [] op = "and" -> <<3, "expr4">>
      [] op \in Comparisons -> <<5, "expr6">> [] op \in {"||", "->", "->>"} -> <<8, "expr9">>
      [] op \in {"+", "-"} -> <<10, "expr11">> [] op \in {"*", "/", "%"} -> <<12, "expr13">>
min_bp == [expr |-> 0, expr2 |-> 2, expr3 |-> 3, expr4 |-> 4, expr6 |-> 6, expr7 |-> 7,
           expr8 |-> 8, expr9 |-> 9, expr11 |-> 11, expr13 |-> 13]
peek_predicate_keyword(t, i) ==
    \E w \in {"like", "ilike", "in", "between"} : Leads(<<w>>, t, i) \/ Leads(<<"not", w>>, t, i)
eat_quantifier == ("any" :> "Any") @@ ("some" :> "Some") @@ ("all" :> "All")

(* Readers that call no method.                                             *)
FirstPart(r) == IF r.i = 0 THEN Error ELSE At(r.i, r.v[1])
SecondPart(r) == IF r.i = 0 THEN Error ELSE At(r.i, r.v[2])
IfTaken(i, p, v) == IF p THEN At(i + 1, v) ELSE At(i, None)
Collected(t, i, j) == At(j, collect(t, i, j))
LockMode(r) == At(r.i, IF r.v = <<>> THEN None ELSE Some(r.v))
Primitive(nt, t, i) ==
    LET tok == peek_at(t, i) IN
    CASE nt = "ident"          -> parse_ident(t, i)
      [] nt = "object_name"    -> parse_object_name(t, i)
      [] nt = "string"         -> parse_string_literal(t, i)
      [] nt = "number_expr"    -> number_expr(t, i)
      [] nt = "data_type_named" -> parse_data_type_named(t, i)
      [] nt = "data_type"      -> FirstPart(parse_data_type_named(t, i))
      [] nt = "type_name_str"  -> parse_type_name_str(t, i)
      [] nt = "type_name"      -> SecondPart(parse_type_name_str(t, i))
      [] nt = "lower_ident"    -> Lowered(parse_ident(t, i))
      [] nt = "qualified_name" -> parse_qualified_name(t, i)
      [] nt = "guc_name"       -> parse_guc_name(t, i)
      [] nt = "one_char"       -> parse_string_literal(t, i)
      [] nt = "number"         -> parse_number(t, i)
      [] nt = "i64"            -> parse_i64_literal(t, i)
      [] nt = "param"          -> At(i + 1, tok[2])
      [] nt = "version"        -> OneOf({"w", "q", "l"}, t, i)
      [] nt = "option_value"   -> OneOf({"w", "q", "l", "n"}, t, i)
      [] nt = "language"       -> Lowered(OneOf({"w", "q", "l"}, t, i))
      [] nt = "maybe_name"     -> IfTaken(i, IsName(tok), Some(tok[2]))
      [] nt = "maybe_word"     -> IfTaken(i, IsWord(tok), Some(tok[2]))
      [] nt = "attribute_arg"  -> IfTaken(i, (IsWord(tok) /\ tok \notin {W("as"), W("language")}) \/ tok[1] = "n", None)
      [] nt = "setting_value"  -> parse_setting_value(t, i)
      [] nt \in {"tail", "rule_tail"} -> collect_statement_tail(t, i)
      [] nt = "balanced"       -> Collected(t, i, collect_balanced_until_comma_or_rparen(t, i))
      [] nt = "balanced_parens" -> At(skip_balanced_parens(t, i), 0)
      [] nt = "skip_identity_options" -> At(skip_identity_options(t, i), 0)
      [] nt = "operator_symbol" -> parse_operator_symbol(t, i)
      [] nt = "operator"       -> IF tok[1] = "w" /\ tok[2] \in Comparisons \cup {"->", "->>"}
                                  THEN At(i + 1, tok[2]) ELSE Error
      [] nt = "interval_qualifier" -> parse_interval_qualifier(t, i)
      [] nt = "lock_mode"      -> LockMode(ModeWords(t, i, <<>>))

-----------------------------------------------------------------------------
(* The machine: the cursor i (0 after an error), the steps the current      *)
(* method still has to do and the fields it has read, and under it the      *)
(* methods that called it.                                                  *)

Empty == [f \in {} |-> 0]
MethodNames == DOMAIN min_bp \cup DOMAIN Rules
Method(nt) == IF nt \in DOMAIN min_bp THEN <<Get("it", "prefix"), <<"climb", min_bp[nt]>>>>
              ELSE Rules[nt]
Called(nt) == nt \in MethodNames

Start(nt, i) == [i |-> i, todo |-> Method(nt), v |-> Empty, up |-> <<>>, val |-> Empty]
Done(m) == m.i = 0 \/ (m.todo = <<>> /\ m.up = <<>>)
Returned(v) == IF "it" \in DOMAIN v THEN v.it ELSE v

Applying(cases, t, i) == {j \in DOMAIN cases : Leads(cases[j][1], t, i)}
FirstOf(cases, js) == cases[CHOOSE j \in js : \A h \in js : j <= h]

Deliver(how, f, v, x) ==
    CASE how = "set" -> With(v, f, x) [] how = "some" -> With(v, f, Some(x))
      [] how = "push" -> With(v, f, Append(v[f], x)) [] how = "drop" -> v

Fail(m) == [m EXCEPT !.i = 0]
Go(m, j, w) == [m EXCEPT !.i = j, !.v = w, !.todo = Tail(@)]
Do(m, j, steps) == [m EXCEPT !.i = j, !.todo = steps \o Tail(@)]
EnterMethod(m, steps, j, w, back) ==
    [i |-> j, todo |-> steps, v |-> w, up |-> <<<<back, m.v>>>> \o m.up, val |-> Empty]

Took(m, how, f, r) == IF r.i = 0 THEN Fail(m) ELSE Go(m, r.i, Deliver(how, f, m.v, r.v))
Call(t, m, how, f, nt) ==
    IF Called(nt) THEN EnterMethod(m, Method(nt), m.i, Empty, <<<<"into", f, how>>>> \o Tail(m.todo))
    ELSE Took(m, how, f, Primitive(nt, t, m.i))

\* The case of a choice that applies; more is done after it, otherwise when
\* there is none.
Choice(m, cases, js, more, otherwise) ==
    IF js = {} THEN otherwise
    ELSE LET case == FirstOf(cases, js) IN Do(m, m.i + case[2], case[3] \o more)
Choose(t, m, cases, more, otherwise) == Choice(m, cases, Applying(cases, t, m.i), more, otherwise)

Turned(m, c) == IF c = None THEN Fail(m) ELSE Go(m, m.i, c[1])

(* parse_expr_bp: extend the operand read so far while what follows binds   *)
(* at least as tightly as f.                                                *)
Extend(m, steps, j) == EnterMethod(m, steps, j, [expr |-> m.v.it], <<<<"into", "it", "set">>>> \o m.todo)
ExtendFrom(m, f, power, steps, j) == IF power < f THEN Go(m, m.i, m.v) ELSE Extend(m, steps, j)
ClimbBinary(m, f, op, power, quantifier) ==
    IF quantifier[1] = "w" /\ quantifier[2] \in DOMAIN eat_quantifier
    THEN ExtendFrom(m, f, power[1],
             <<K(<<"(">>), Get("list", "exprs_to_rparen"), Put("op", op),
               Put("quantifier", eat_quantifier[quantifier[2]]), Put("k", "QuantifiedCompare")>>, m.i + 2)
    ELSE ExtendFrom(m, f, power[1],
             <<Get("right", power[2]), Put("op", op), Put("k", "Binary")>>, m.i + 1)
Climb(t, m, f, op) ==
    CASE Leads(<<"is">>, t, m.i)          -> ExtendFrom(m, f, 7, is_null_or_distinct, m.i + 1)
      [] peek_predicate_keyword(t, m.i)   -> ExtendFrom(m, f, 5, parse_predicate, m.i)
      [] Leads(<<"operator">>, t, m.i)    -> ExtendFrom(m, f, 5, parse_operator_construct, m.i + 1)
      [] op[1] = "w" /\ op[2] \in peek_binary_op ->
           ClimbBinary(m, f, op[2], binding_power(op[2]), peek_at(t, m.i + 1))
      [] OTHER -> Go(m, m.i, m.v)

StepOf(t, m, s, tag, f, i, v) ==
    CASE tag = "kw"      -> IF Leads(f, t, i) THEN Go(m, i + Len(f), v) ELSE Fail(m)
      [] tag = "put"     -> Go(m, i, With(v, f, s[3]))
      [] tag \in {"get", "getsome", "pushget", "drop"} ->
           Call(t, m, CASE tag = "get" -> "set" [] tag = "getsome" -> "some"
                        [] tag = "pushget" -> "push" [] tag = "drop" -> "drop",
                f, IF tag = "drop" THEN f ELSE s[3])
      [] tag = "pick"    -> Choose(t, m, f, <<>>, Fail(m))
      [] tag = "into"    -> Go(m, i, Deliver(s[3], f, v, m.val))
      [] tag = "loop"    -> Choose(t, m, f, <<s>>, Go(m, i, v))
      [] tag = "opt"     -> IF Leads(s[3], t, i) THEN Do(m, i + Len(s[3]), <<GetSome(f, s[4])>>)
                            ELSE Go(m, i, With(v, f, None))
      [] tag = "flag"    -> IF Leads(s[3], t, i) THEN Go(m, i + Len(s[3]), With(v, f, TRUE))
                            ELSE Go(m, i, With(v, f, FALSE))
      [] tag = "eat"     -> Go(m, IF \E j \in DOMAIN f : Leads(<<f[j]>>, t, i) THEN i + 1 ELSE i, v)
      [] tag = "list"    -> Do(m, i, <<Put(f, <<>>), More(f, s[3])>>)
      [] tag = "more"    -> Do(m, i, <<PushGet(f, s[3]), <<"comma", f, s[3]>>>>)
      [] tag = "comma"   -> IF Leads(<<",">>, t, i) THEN Do(m, i + 1, <<More(f, s[3])>>) ELSE Go(m, i, v)
      [] tag = "optlist" -> IF Leads(s[3], t, i) THEN Do(m, i + Len(s[3]), <<List(f, s[4])>>)
                            ELSE Go(m, i, With(v, f, <<>>))
      [] tag = "sep"     -> Choose(t, m, s[3], <<<<"again", f, s[3]>>>>, Fail(m))
      [] tag = "again"   -> IF Leads(<<f>>, t, i) THEN Do(m, i + 1, <<Sep(f, s[3])>>) ELSE Go(m, i, v)
      [] tag = "push"    -> Go(m, i, With(v, f, Append(v[f], s[3])))
      [] tag = "need"    -> IF v[f] = <<>> THEN Fail(m) ELSE Go(m, i, v)
      [] tag = "copy"    -> Go(m, i, With(v, f, v[s[3]]))
      [] tag = "forget"  -> Go(m, i, Without(v, {f}))
      [] tag = "any"     -> Go(m, i + 1, v)
      [] tag = "skip"    -> Go(m, Upto(t, i, f), v)
      [] tag = "bare"    -> IF IsWord(peek_at(t, i)) /\ t[i][2] \notin s[3]
                            THEN Go(m, i + 1, With(v, f, Some(t[i][2]))) ELSE Go(m, i, With(v, f, None))
      [] tag = "turn"    -> Turned(m, Convert(f, v))
      [] tag = "climb"   -> Climb(t, m, f, peek_at(t, i))
Step(t, m) ==
    LET s == Head(m.todo)
    IN  StepOf(t, m, s, s[1], IF Len(s) > 1 THEN s[2] ELSE 0, m.i, m.v)

Return(m) == [i |-> m.i, todo |-> m.up[1][1], v |-> m.up[1][2], up |-> Tail(m.up), val |-> Returned(m.v)]
Advance(t, m) == IF m.todo = <<>> THEN Return(m) ELSE Step(t, m)

(* At most 2^n advances.                                                    *)
RECURSIVE RunFor(_, _, _)
RunFor(n, t, m) ==
    IF Done(m) THEN m
    ELSE IF n = 0 THEN Advance(t, m)
    ELSE RunFor(n - 1, t, RunFor(n - 1, t, m))

MaxSteps == 12
Result(m) == IF m.i = 0 THEN Error ELSE At(m.i, Returned(m.v))
Parse(nt, t, i) == Result(RunFor(MaxSteps, t, Start(nt, i)))

-----------------------------------------------------------------------------
(* A text is a list of statements with semicolons between them.  None when  *)
(* the parser returns an error.                                             *)

RECURSIVE Statements(_, _, _), AfterStatement(_, _, _)
Statements(t, i, sofar) ==
    IF peek_at(t, i) = W(";") THEN Statements(t, i + 1, sofar)
    ELSE IF peek_at(t, i) = Eof THEN Some(sofar)
    ELSE AfterStatement(t, Parse("statement", t, i), sofar)
AfterStatement(t, r, sofar) ==
    IF r.i = 0 \/ peek_at(t, r.i) \notin {W(";"), Eof} THEN None
    ELSE Statements(t, r.i, Append(sofar, r.v))

OrEmpty(r) == IF r = Some(<<>>) THEN Some(<<[k |-> "Empty"]>>) ELSE r
parse_sql(t) == OrEmpty(Statements(t, 1, <<>>))
=============================================================================
