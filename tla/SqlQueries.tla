------------------------------ MODULE SqlQueries ------------------------------
(***************************************************************************)
(* The methods of crates/sql/src/parser.rs that read queries, the DML       *)
(* statements and expressions, as step sequences under the names they have  *)
(* there.  Precedence climbing itself (parse_expr_bp) is in SqlParser.      *)
(***************************************************************************)
EXTENDS SqlGrammar

-----------------------------------------------------------------------------
(* Pieces DML and queries share.                                            *)

maybe_names == <<Pick(<<Look(<<"(">>, <<Put("it", None), Paren("names", "ident"), Turn("some_names")>>),
                        Else(<<Put("it", None)>>)>>)>>
names_or_none == <<Pick(<<Look(<<"(">>, <<Paren("it", "ident")>>), Else(<<Put("it", <<>>)>>)>>)>>
subquery == <<K(<<"(">>), Get("it", "select"), K(<<")">>)>>
assignment == <<Name("column"), K(<<"=">>), Ex("value"), Put("k", "Assignment")>>
values_tuple == <<Paren0("it", "expr")>>
parse_values_tuples == <<List("it", "values_tuple")>>
parse_call_args ==
    <<Pick(<<Look(<<")">>, <<Put("it", <<>>)>>), Else(<<List("it", "expr")>>)>>),
      Either(<<"order", "by">>, <<Drop("order_by_items")>>, <<>>), K(<<")">>)>>

is_select_clause_keyword ==
    {"from", "where", "order", "limit", "offset", "group", "having", "as", "and", "or", "union",
     "intersect", "except", "for", "fetch"}
is_table_ref_keyword ==
    {"where", "order", "limit", "offset", "group", "having", "join", "inner", "left", "right", "full",
     "cross", "outer", "on", "union", "intersect", "except", "for", "as"}
is_merge_keyword == {"using", "on", "when"}

alias(ws) == Either(<<"as">>, <<GetSome("alias", "ident")>>, <<Bare("alias", ws)>>)

select_item == <<Either(<<"*">>, <<Put("k", "Wildcard")>>,
                        <<Ex("expr"), alias(is_select_clause_keyword), Put("k", "SelectItem")>>)>>
parse_returning == OptList("returning", <<"returning">>, "select_item")

order_by_item ==
    <<Ex("expr"), Pick(<<C(<<"desc">>, <<Put("asc", FALSE)>>), Else(<<Eat(<<"asc">>), Put("asc", TRUE)>>)>>),
      Put("k", "OrderByItem")>>
parse_order_by_items == <<List("it", "order_by_item")>>

-----------------------------------------------------------------------------
(* FROM.                                                                    *)

parse_table_ref ==
    <<Flag("lateral", <<"lateral">>),
      Pick([j \in 1..2 |->
              Look(<<"(", <<"select", "with">>[j]>>,
                   <<GetSome("subquery", "subquery"), alias(is_table_ref_keyword), Turn("subquery_name"),
                     Put("args", <<>>), Put("only", FALSE), Put("with_ordinality", FALSE)>>)]
           \o <<Else(<<Flag("only", <<"only">>), Get("name", "qualified_name"), Put("subquery", None),
                       Either(<<"(">>, <<Get("args", "call_args")>>, <<Put("args", <<>>)>>),
                       Flag("with_ordinality", <<"with", "ordinality">>),
                       alias(is_table_ref_keyword)>>)>>),
      Get("column_aliases", "names_or_none"), Put("k", "TableRef")>>

join(kind, outer) ==
    <<Eat(outer), K(<<"join">>), Put("kind", kind), Get("table", "table_ref"), K(<<"on">>), GetSome("on", "expr")>>
parse_join ==
    <<Pick(<<C(<<",">>, <<Put("kind", "Cross"), Get("table", "table_ref"), Put("on", None)>>),
             C(<<"inner">>, join("Inner", <<>>)), C(<<"left">>, join("Left", <<"outer">>)),
             C(<<"right">>, join("Right", <<"outer">>)), C(<<"full">>, join("Full", <<"outer">>)),
             C(<<"cross">>, <<K(<<"join">>), Put("kind", "Cross"), Get("table", "table_ref"), Put("on", None)>>),
             Else(join("Inner", <<>>))>>), Put("k", "Join")>>
parse_from_clause ==
    <<Get("base", "table_ref"), Put("joins", <<>>),
      Loop(LookAny(<<",", "inner", "left", "right", "full", "cross", "join">>,
                   <<PushGet("joins", "join")>>)),
      Put("k", "FromClause")>>

-----------------------------------------------------------------------------
(* SELECT.                                                                  *)

cte ==
    <<Name("name"), Get("columns", "names_or_none"), K(<<"as", "(">>),
      Pick(LookAny(<<"insert", "update", "delete">>, <<Put("select", None), GetSome("dml", "statement")>>)
           \o <<Else(<<GetSome("select", "select"), Put("dml", None)>>)>>),
      K(<<")">>), Put("k", "Cte")>>

grouping_element ==
    <<Pick(<<C(<<"cube">>, <<K(<<"(">>), Get("cols", "exprs_to_rparen"), Turn("cube_sets")>>),
             C(<<"rollup">>, <<K(<<"(">>), Get("cols", "exprs_to_rparen"), Turn("rollup_sets")>>),
             C(<<"grouping">>, <<K(<<"sets">>), Put("plain", FALSE), Paren("sets", "grouping_set")>>),
             Else(<<Ex("expr"), Turn("one_set")>>)>>)>>
grouping_set == <<Either(<<"(">>, <<Get("it", "exprs_to_rparen")>>, <<Ex("expr"), Turn("one_expr")>>)>>
parse_expr_list_until_rparen ==
    <<Pick(<<Look(<<")">>, <<Put("it", <<>>)>>), Else(<<List("it", "expr")>>)>>), K(<<")">>)>>

empty_select == Seq1(
    <<Put("distinct", FALSE), Put("distinct_on", <<>>), Put("from", None), Put("filter", None),
      Put("group_by", <<>>), Put("grouping_sets", <<>>), Put("having", None), Put("order_by", <<>>),
      Put("limit", None), Put("offset", None), Put("locking", <<>>), Put("set_ops", <<>>)>>)

parse_select_core == Seq1(
    <<empty_select,
      Either(<<"values">>, <<Get("tuples", "values_tuples"), Turn("values_select")>>,
        <<K(<<"select">>), Eat(<<"all">>),
          Either(<<"distinct">>, <<Put("distinct", TRUE),
                                   Either(<<"on">>, <<Paren("distinct_on", "expr")>>, <<>>)>>, <<>>),
          List("projection", "select_item"), Opt("from", <<"from">>, "from_clause"),
          Opt("filter", <<"where">>, "expr"),
          Either(<<"group", "by">>, <<List("elements", "grouping_element"), Turn("grouping")>>, <<>>),
          Opt("having", <<"having">>, "expr")>>),
      Put("k", "Select")>>)

set_operation ==
    <<Alt("op", << <<<<"union">>, "Union">>, <<<<"intersect">>, "Intersect">>, <<<<"except">>, "Except">> >>),
      Flag("all", <<"all">>), Get("select", "select_core"), Put("k", "SetOperation")>>

parse_row_locking_clause ==
    <<K(<<"for">>),
      Alt("mode", << <<<<"no", "key", "update">>, "NoKeyUpdate">>, <<<<"key", "share">>, "KeyShare">>,
                     <<<<"share">>, "Share">>, <<<<"update">>, "Update">> >>),
      OptList("tables", <<"of">>, "object_name"),
      Alt("wait_policy", << <<<<"nowait">>, Some("NoWait")>>, <<<<"skip", "locked">>, Some("SkipLocked")>>,
                            <<<<>>, None>> >>),
      Put("k", "RowLockingClause")>>

limit == Either(<<"limit">>, <<GetSome("limit", "expr")>>, <<>>)
offset == Either(<<"offset">>, <<GetSome("offset", "expr"), Eat(<<"row">>), Eat(<<"rows">>)>>, <<>>)
parse_select_tail == Seq1(
    <<OptList("order_by", <<"order", "by">>, "order_by_item"),
      Loop(<<Look(<<"for">>, <<PushGet("locking", "row_locking_clause")>>)>>),
      Pick(<<Look(<<"limit">>, <<limit, offset>>), Look(<<"offset">>, <<offset, limit>>), Else(<<>>)>>),
      Loop(<<Look(<<"for">>, <<PushGet("locking", "row_locking_clause")>>)>>)>>)

parse_with_clause == Seq1(
    <<Either(<<"with">>, <<Flag("recursive", <<"recursive">>), List("ctes", "cte"), Turn("flag_recursive")>>,
             <<Put("ctes", <<>>)>>)>>)

parse_select ==
    <<parse_with_clause, parse_select_core,
      Loop(LookAny(<<"union", "intersect", "except">>, <<PushGet("set_ops", "set_operation")>>)),
      parse_select_tail>>

-----------------------------------------------------------------------------
(* INSERT, UPDATE, DELETE, MERGE.                                           *)

parse_on_conflict ==
    <<K(<<"conflict">>), Get("target", "names_or_none"), K(<<"do">>),
      Pick(<<C(<<"nothing">>, <<Put("k", "DoNothing")>>),
             C(<<"update">>, <<K(<<"set">>), List("assignments", "assignment"),
                               Opt("filter", <<"where">>, "expr"), Put("k", "DoUpdate")>>)>>)>>

parse_insert ==
    <<K(<<"into">>), Obj("table"), Get("columns", "maybe_names"),
      Flag("overriding_system_value", <<"overriding", "system", "value">>),
      Put("rows", <<>>), Put("select", None), Put("default_values", FALSE),
      Pick(<<C(<<"default">>, <<K(<<"values">>), Put("default_values", TRUE)>>),
             Look(<<"select">>, <<GetSome("select", "select")>>),
             C(<<"values">>, <<Get("rows", "values_tuples")>>)>>),
      Opt("on_conflict", <<"on">>, "on_conflict"), parse_returning, Put("k", "Insert")>>

parse_update ==
    <<Obj("table"), K(<<"set">>), List("assignments", "assignment"),
      Opt("from", <<"from">>, "from_clause"), Opt("filter", <<"where">>, "expr"), parse_returning,
      Put("k", "Update")>>
parse_delete ==
    <<K(<<"from">>), Obj("table"), Opt("using", <<"using">>, "from_clause"),
      Opt("filter", <<"where">>, "expr"), parse_returning, Put("k", "Delete")>>

parse_merge_source ==
    <<Pick(<<C(<<"(">>, <<Either(<<"values">>, <<Get("rows", "values_tuples"), Put("k", "Values")>>,
                                 <<Get("select", "select"), Put("k", "Subquery")>>),
                          K(<<")">>), Eat(<<"as">>), Name("alias"), Get("columns", "names_or_none"),
                          Turn("subquery_has_no_columns")>>),
             Else(<<Obj("name"), alias(is_merge_keyword), Put("k", "Table")>>)>>)>>

merge_insert == Pick(
    <<C(<<"default">>, <<K(<<"values">>), Put("columns", None), Put("values", <<>>), Put("default_values", TRUE)>>),
      Else(<<Get("columns", "maybe_names"), K(<<"values">>), Paren0("values", "expr"),
             Put("default_values", FALSE)>>)>>)
parse_merge_action(matched) == Pick(
    <<C(<<"do">>, <<K(<<"nothing">>), Put("action", "DoNothing")>>)>>
    \o (IF matched
        THEN <<C(<<"update">>, <<K(<<"set">>), List("assignments", "assignment"), Put("action", "Update")>>),
               C(<<"delete">>, <<Put("action", "Delete")>>)>>
        ELSE <<C(<<"insert">>, <<merge_insert, Put("action", "Insert")>>)>>))
merge_when(matched) ==
    <<K(<<"matched">>), Put("matched", matched), Opt("condition", <<"and">>, "expr"), K(<<"then">>),
      parse_merge_action(matched), Put("k", "MergeWhen")>>
parse_merge_when == <<Either(<<"not">>, merge_when(FALSE), merge_when(TRUE))>>

parse_merge ==
    <<K(<<"into">>), Obj("target"), alias(is_merge_keyword), K(<<"using">>),
      Get("source", "merge_source"), K(<<"on">>), Ex("on"), Put("clauses", <<>>),
      Loop(<<C(<<"when">>, <<PushGet("clauses", "merge_when")>>)>>), Need("clauses"), Put("k", "Merge")>>

-----------------------------------------------------------------------------
(* Expressions.                                                             *)

parse_case ==
    <<Pick(<<Look(<<"when">>, <<Put("operand", None)>>), Else(<<GetSome("operand", "expr")>>)>>),
      Put("whens", <<>>), Loop(<<C(<<"when">>, <<PushGet("whens", "when")>>)>>), Need("whens"),
      Opt("else_expr", <<"else">>, "expr"), K(<<"end">>), Put("k", "Case")>>
when == <<Ex("cond"), K(<<"then">>), Ex("result"), Put("k", "When")>>

within_group == <<K(<<"group", "(", "order", "by">>), Ex("it"), Eat(<<"asc">>), Eat(<<"desc">>), K(<<")">>)>>
parse_aggregate_filter == <<K(<<"(", "where">>), Ex("it"), K(<<")">>)>>
parse_over_clause ==
    <<K(<<"(">>), OptList("partition_by", <<"partition", "by">>, "expr"),
      OptList("order_by", <<"order", "by">>, "order_by_item"), SkipTo(")"), K(<<")">>),
      Put("k", "WindowSpec")>>
plain_call == Seq1(<<Put("args", <<>>), Put("star", FALSE), Put("distinct", FALSE), Put("filter", None),
                     Put("over", None), Put("k", "Function")>>)
parse_function_args == Seq1(
    <<plain_call,
      Pick(<<C(<<"*">>, <<K(<<")">>), Put("star", TRUE)>>),
             Else(<<Either(<<")">>, <<>>, <<Flag("distinct", <<"distinct">>), Get("args", "call_args")>>),
                    Either(<<"within">>, <<PushGet("args", "within_group")>>, <<>>)>>)>>),
      Opt("filter", <<"filter">>, "aggregate_filter"), Opt("over", <<"over">>, "over_clause")>>)

typed_literal(w, t) ==
    First(<<w, "<string>">>, <<Get("expr", "string_expr"), Put("target", t), Put("k", "Cast")>>)
string_expr == <<Str("text"), Put("k", "Str")>>
interval_expr == <<Str("text"), Get("qualifier", "interval_qualifier"), Turn("interval_value"), Put("k", "Str")>>

column_or_call ==
    <<Name("qualifier"), K(<<".">>), Name("name"),
      Either(<<".">>, <<Copy("qualifier", "name"), Name("name")>>, <<>>),
      Either(<<"(">>, <<Forget("qualifier"), parse_function_args>>, <<Put("k", "QualifiedColumn")>>)>>

niladic == <<"current_user", "current_role", "session_user", "current_schema", "current_catalog",
             "current_date", "current_timestamp">>

parse_atom_inner == <<Pick(
    <<Look(<<"<number>">>, <<Get("it", "number_expr")>>), Look(<<"<string>">>, <<Get("it", "string_expr")>>),
      Look(<<"<param>">>, <<Get("n", "param"), Put("k", "Param")>>),
      Look(<<"<quoted>">>, <<Name("name"), Put("k", "Column")>>),
      Look(<<"(", "select">>, <<Get("subquery", "subquery"), Put("k", "ScalarSubquery")>>),
      C(<<"(">>, <<List("items", "expr"), K(<<")">>), Turn("group_or_row")>>),
      C(<<"true">>, <<Put("truth", TRUE), Put("k", "Bool")>>),
      C(<<"false">>, <<Put("truth", FALSE), Put("k", "Bool")>>), C(<<"null">>, <<Put("k", "Null")>>),
      C(<<"row", "(">>, <<Get("items", "call_args"), Put("k", "Row")>>),
      First(<<"interval", "<string>">>, <<Get("expr", "interval_expr"), Put("target", "Interval"), Put("k", "Cast")>>),
      typed_literal("date", "Date"), typed_literal("timestamp", "Timestamp"),
      typed_literal("timestamptz", "TimestampTz"), typed_literal("time", "Time"),
      C(<<"array", "[">>, <<Pick(<<Look(<<"]">>, <<Put("items", <<>>)>>), Else(<<List("items", "expr")>>)>>),
                            K(<<"]">>), Put("k", "Array")>>),
      First(<<"array", "(">>, <<Get("subquery", "subquery"), Put("k", "ScalarSubquery")>>),
      C(<<"extract">>, <<K(<<"(">>), Get("field", "lower_ident"), K(<<"from">>), Ex("source"), K(<<")">>),
                         Turn("date_part")>>),
      C(<<"exists">>, <<Get("subquery", "subquery"), Put("k", "Exists")>>),
      C(<<"case">>, parse_case),
      C(<<"cast">>, <<K(<<"(">>), Ex("expr"), K(<<"as">>), Get("target", "data_type"), K(<<")">>), Put("k", "Cast")>>),
      Look(<<"<word>", "(">>, <<Name("name"), K(<<"(">>), parse_function_args>>)>>
    \o LookAny(niladic, <<Get("name", "lower_ident"), plain_call>>)
    \o <<Look(<<"<word>", ".">>, column_or_call), Look(<<"<word>">>, <<Name("name"), Put("k", "Column")>>)>>)>>

parse_atom ==
    <<Get("it", "atom_inner"),
      Loop(<<C(<<"::">>, <<Get("type", "data_type_named"), Turn("cast")>>),
             C(<<"[">>, <<Ex("index"), K(<<"]">>), Turn("subscript")>>),
             C(<<"collate">>, <<Drop("qualified_name")>>)>>)>>

parse_prefix ==
    <<Pick(<<C(<<"not">>, <<Get("expr", "expr3"), Put("op", "Not"), Put("k", "Unary")>>),
             C(<<"-">>, <<Get("expr", "expr9"), Put("op", "Neg"), Put("k", "Unary")>>),
             C(<<"+">>, <<Get("it", "expr9")>>), Else(<<Get("it", "atom")>>)>>)>>

(* What may follow a left operand, which is already in field "expr".        *)
is_null_or_distinct ==
    <<Flag("negated", <<"not">>),
      Either(<<"null">>, <<Put("k", "IsNull")>>,
             <<K(<<"distinct", "from">>), Get("right", "expr8"), Put("k", "IsDistinctFrom")>>)>>
like(ci) == <<Get("pattern", "expr7"), Put("case_insensitive", ci), Put("k", "Like")>>
parse_predicate ==
    <<Flag("negated", <<"not">>),
      Pick(<<C(<<"like">>, like(FALSE)), C(<<"ilike">>, like(TRUE)),
             C(<<"between">>, <<Get("low", "expr7"), K(<<"and">>), Get("high", "expr7"), Put("k", "Between")>>),
             C(<<"in">>, <<Pick(<<
                 Look(<<"(", "select">>, <<Get("subquery", "subquery"), Put("k", "InSubquery")>>),
                 Else(<<Paren0("list", "expr"), Put("k", "InList")>>)>>)>>)>>)>>
parse_operator_construct ==
    <<K(<<"(">>), Pick(<<Look(<<"<word>", ".">>, <<OneToken, OneToken>>), Else(<<>>)>>),
      Get("op", "operator"), K(<<")">>), Get("right", "expr6"), Put("k", "Binary")>>
=============================================================================
