------------------------------- MODULE SqlClient -------------------------------
(***************************************************************************)
(* The SQL a client may send.  A client writes a text by walking the        *)
(* parser's own methods (SqlStatements, SqlQueries): for each step that     *)
(* reads a token it writes one.  What is optional is left out unless the    *)
(* client spends one of the draft's remaining options on it, so the texts   *)
(* are all that use a bounded number of optional parts.                     *)
(***************************************************************************)
EXTENDS SqlParser

(* A draft: the tokens written, the steps still to be walked, the options   *)
(* left, and whether expressions are spelled out or single operands.        *)
Draft(text, todo, left, deep) == [text |-> text, todo |-> todo, left |-> left, deep |-> deep]

(* What may stand for each reader that calls no method, the plain one first. *)
Operands == <<<<W("a")>>, <<P("1")>>, <<N("2.0")>>, <<W("T"), W("."), W("a")>>>>
Samples(nt) ==
    CASE nt \in {"ident", "lower_ident"} -> <<<<W("a")>>, <<W("T")>>, <<Q("null")>>, <<W("select")>>>>
      [] nt \in {"object_name", "qualified_name", "guc_name"} ->
           <<<<W("t")>>, <<W("s"), W("."), W("t")>>, <<Q("T")>>>>
      [] nt = "string" -> <<<<L("x")>>, <<L("b$")>>>>
      [] nt = "one_char" -> <<<<L(",")>>>>
      [] nt = "number_expr" -> <<<<N("1")>>, <<N("1.5")>>, <<N("2.0")>>, <<N("9223372036854775808")>>>>
      [] nt = "number" -> <<<<N("1")>>>>
      [] nt = "i64" -> <<<<N("1")>>, <<W("-"), N("1")>>>>
      [] nt = "param" -> <<<<P("1")>>>>
      [] nt \in {"data_type_named", "data_type", "type_name_str", "type_name"} ->
           <<<<W("int")>>, Words(<<"double", "precision">>), <<W("varchar"), W("("), N("1"), W(")")>>,
             Words(<<"int", "[", "]">>), Words(<<"timestamp", "with", "time", "zone">>), <<W("mood")>>,
             <<W("pg_catalog"), W("."), W("int4")>>, <<Q("int4")>>>>
      [] nt = "version" -> <<<<L("x")>>, <<W("a")>>>>
      [] nt = "option_value" -> <<<<W("a")>>, <<L("x y")>>, <<N("1")>>>>
      [] nt = "language" -> <<<<W("plpgsql")>>, <<W("c")>>, <<L("sql")>>>>
      [] nt \in {"maybe_name", "maybe_word"} -> <<<<>>, <<W("a")>>>>
      [] nt = "attribute_arg" -> <<<<>>, <<N("1")>>>>
      [] nt = "setting_value" -> <<<<L("v")>>, <<W("a"), W(","), W("b")>>>>
      [] nt \in {"tail", "rule_tail"} -> <<Words(<<"do", "nothing">>), <<>>, <<W("as"), Q("T"), L("x")>>>>
      [] nt = "balanced" -> <<Words(<<"exclude", "(", "a", "with", "=", ")">>)>>
      [] nt = "balanced_parens" -> <<Words(<<"(", ")">>), Words(<<"(", "a", ")">>)>>
      [] nt = "skip_identity_options" -> <<<<>>, Words(<<"(", "start", ")">>)>>
      [] nt \in {"operator_symbol", "operator"} -> <<<<W("=")>>>>
      [] nt = "interval_qualifier" -> <<<<>>, <<W("year")>>, Words(<<"year", "to", "month">>)>>
      [] nt = "lock_mode" -> <<Words(<<"share", "mode">>), <<>>>>

IsExpr(nt) == nt \in DOMAIN min_bp
Opaque(d, nt) == IsExpr(nt) /\ ~d.deep
Readings(d, nt) == IF Opaque(d, nt) THEN Operands ELSE Samples(nt)

(* The tokens a case is recognized by that it does not eat are written by   *)
(* its first steps, which are then not optional.                            *)
EatenBy(case) == Words(SubSeq(case[1], 1, case[2]))
Spelled(x) == IF x \in Classes THEN "a" ELSE x
StepsOf(case) ==
    LET lead == case[1]
        steps == case[3]
        s == Head(steps)
        same == {j \in DOMAIN s[2] : s[2][j][2] > 0 /\ s[2][j][1][1] = lead[1]}
        skips(n) == \A j \in 1..n : steps[j] = OneToken
        written(n) == <<K([j \in 1..n |-> Spelled(lead[j])])>> \o SubSeq(steps, n + 1, Len(steps))
    IN CASE case[2] > 0 \/ lead = <<>> \/ steps = <<>> -> steps
         [] s[1] = "opt" -> <<K(s[3]), Drop(s[4])>> \o Tail(steps)
         [] s[1] = "pick" /\ same # {} -> LET c == FirstOf(s[2], same) IN <<K(c[1])>> \o c[3] \o Tail(steps)
         [] s = OneToken -> IF Len(steps) > 1 /\ skips(2) THEN written(2) ELSE written(1)
         [] OTHER -> steps
PlainCase(cases) == IF LastOf(cases)[2] = 0 THEN LastOf(cases) ELSE cases[1]

Operators == {"or", "and", "=", "||", "-", "*"}
Extensions ==
    {<<K(<<"is">>)>> \o is_null_or_distinct, <<K(<<"operator">>)>> \o parse_operator_construct,
     <<K(<<"=", "any", "(">>), Drop("exprs_to_rparen")>>}
    \cup {<<K(<<w>>)>> \o steps : <<w, steps>> \in
            {<<"like", like(FALSE)>>, <<"ilike", like(TRUE)>>,
             <<"between", <<Drop("expr7"), K(<<"and">>), Drop("expr7")>>>>,
             <<"in", <<Paren0("list", "expr")>>>>, <<"in", <<Drop("subquery")>>>>}}
    \cup {<<K(<<"not", "in">>), Paren0("list", "expr")>>}
    \cup {<<K(<<op>>), Drop(binding_power(op)[2])>> : op \in Operators}

Write(d, tokens, steps) == [d EXCEPT !.text = @ \o tokens, !.todo = steps \o Tail(@)]
Spend(d) == [d EXCEPT !.left = @ - 1]
Enter(d, nt) ==
    IF Called(nt) /\ ~Opaque(d, nt) THEN Write(d, <<>>, Method(nt))
    ELSE Write(d, Readings(d, nt)[1], <<>>)

(* A loop whose field is then needed goes round once.                       *)
Needed(d) == Len(d.todo) > 1 /\ d.todo[2][1] = "need"
GoRound(d) ==
    LET s == Head(d.todo)  c == s[2][1] IN
    [d EXCEPT !.text = @ \o EatenBy(c), !.todo = StepsOf(c) \o <<s>> \o Tail(Tail(@))]

(* The plain way to walk the next step, and the ways that cost an option.   *)
Plain(d) ==
    LET s == Head(d.todo)  tag == s[1] IN
    CASE tag = "kw" -> Write(d, Words(s[2]), <<>>)
      [] tag \in {"get", "getsome", "pushget"} -> Enter(d, s[3])
      [] tag = "drop" -> Enter(d, s[2])
      [] tag \in {"list", "more"} -> Write(d, <<>>, <<Drop(s[3]), <<"comma", s[3]>>>>)
      [] tag = "pick" -> LET c == PlainCase(s[2]) IN Write(d, EatenBy(c), StepsOf(c))
      [] tag = "sep" -> LET c == PlainCase(s[3])
                        IN Write(d, EatenBy(c), Append(StepsOf(c), <<"again", s[2], s[3]>>))
      [] tag = "any" -> Write(d, <<N("1")>>, <<>>)
      [] tag = "loop" /\ Needed(d) -> GoRound(d)
      [] OTHER -> Write(d, <<>>, <<>>)

Reader(s) == IF s[1] = "drop" THEN s[2] ELSE s[3]
Spare(cs) == {h \in DOMAIN cs : cs[h] # PlainCase(cs)}
Offers(d, s) ==
    CASE s[1] \in {"eat", "flag", "opt", "optlist", "comma", "again", "bare", "skip", "climb", "loop"} -> TRUE
      [] s[1] = "pick" -> Spare(s[2]) # {}
      [] s[1] = "sep" -> Spare(s[3]) # {}
      [] s[1] \in {"get", "getsome", "pushget", "drop"} ->
           (Called(Reader(s)) => Opaque(d, Reader(s))) /\ Len(Readings(d, Reader(s))) > 1
      [] OTHER -> FALSE
Others(d) ==
    LET s == Head(d.todo)
        tag == s[1]
        nt == Reader(s)
        cases(cs, again) == {Write(d, EatenBy(cs[j]), StepsOf(cs[j]) \o again) :
                               j \in IF tag = "loop" THEN DOMAIN cs ELSE Spare(cs)}
    IN
    IF d.left = 0 THEN {}
    ELSE {Spend(e) : e \in
           CASE tag = "eat" -> {Write(d, <<W(s[2][j])>>, <<>>) : j \in DOMAIN s[2]}
             [] tag = "flag" -> {Write(d, Words(s[3]), <<>>)}
             [] tag = "opt" -> {Write(d, Words(s[3]), <<Drop(s[4])>>)}
             [] tag = "optlist" -> {Write(d, Words(s[3]), <<More("", s[4])>>)}
             [] tag = "comma" -> {Write(d, <<W(",")>>, <<More("", s[2])>>)}
             [] tag = "again" -> {Write(d, <<W(s[2])>>, <<Sep(s[2], s[3])>>)}
             [] tag = "pick" -> cases(s[2], <<>>)
             [] tag = "loop" -> cases(s[2], <<s>>)
             [] tag = "sep" -> cases(s[3], <<<<"again", s[2], s[3]>>>>)
             [] tag = "bare" -> {Write(d, <<W("b")>>, <<>>)}
             [] tag = "skip" -> {Write(d, <<W("x")>>, <<>>)}
             [] tag = "climb" -> {Write(d, <<>>, Append(x, s)) : x \in Extensions}
             [] tag \in {"get", "getsome", "pushget", "drop"} ->
                  IF Called(nt) /\ ~Opaque(d, nt) THEN {}
                  ELSE {Write(d, Readings(d, nt)[j], <<>>) : j \in 2..Len(Readings(d, nt))}
             [] OTHER -> {}}

(* Walk on to the next choice, or to the end.                               *)
AtChoice(d) == d.todo = <<>> \/ (d.left > 0 /\ Offers(d, Head(d.todo)))
RECURSIVE WalkFor(_, _)
WalkFor(n, d) ==
    IF AtChoice(d) THEN d
    ELSE IF n = 0 THEN Plain(d)
    ELSE WalkFor(n - 1, WalkFor(n - 1, d))
Walk(d) == WalkFor(9, d)

(* The drafts one choice later.                                             *)
Choices(d) == {Walk(e) : e \in Others(d) \cup {Plain(d)}}

-----------------------------------------------------------------------------
(* Where texts begin: one draft per form of statement, one for queries, and *)
(* for expressions one that begins anywhere and two where an expression in  *)
(* parentheses is the left or the right operand of another, these with one  *)
(* option less.                                                             *)

Forms(lead, cases) ==
    {<<Words(lead) \o EatenBy(cases[j]), StepsOf(cases[j])>> : j \in DOMAIN cases}
CasesOf(steps) == Head(steps)[2]
StatementForms ==
    Forms(<<>>, Tail(Tail(Tail(CasesOf(parse_statement)))))
    \cup {f \in Forms(<<"create">>, CasesOf(parse_create)) : f[1] # Words(<<"create", "or", "replace">>)}
    \cup Forms(<<"create", "or", "replace">>, replaceable(TRUE))
    \cup {f \in Forms(<<"alter">>, CasesOf(parse_alter)) : f[1] # Words(<<"alter">>)}
    \cup {Append(<<f[1]>>, Append(f[2], Put("k", "AlterTable"))) :
            f \in Forms(<<"alter", "table", "t">>, alter_table[5][2])}
    \cup Forms(<<"drop">>, CasesOf(parse_drop))
QueryForm == <<Words(<<"create", "view", "v", "as">>), parse_select>>
Filtered == Words(<<"delete", "from", "t", "where">>)
ExprForm == <<Filtered, <<Ex("filter")>>>>
OperandForms ==
    {<<Filtered \o Words(ends[1]), <<Drop("expr"), K(ends[2])>>>> :
       ends \in {<<<<"(">>, <<")", "-", "a">>>>, <<<<"a", "-", "(">>, <<")">>>>}}

Begun(form, left, deep) == Draft(form[1], form[2], left, deep)
Drafts(options, query_options, expr_options) ==
    {Walk(d) : d \in {Begun(f, options, FALSE) : f \in StatementForms}
                     \cup {Begun(f, expr_options - 1, TRUE) : f \in OperandForms}
                     \cup {Begun(ExprForm, expr_options, TRUE), Begun(QueryForm, query_options, FALSE)}}
=============================================================================
