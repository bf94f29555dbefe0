-------------------------------- MODULE SqlBind --------------------------------
(***************************************************************************)
(* crates/server/src/bind.rs: decoding the parameters of a Bind message,    *)
(* and putting them in the place of the $N of a prepared statement; and     *)
(* their counterparts for the statements that native functions run through  *)
(* SPI_execute_with_args (crates/engine/src/native.rs).                     *)
(***************************************************************************)
EXTENDS SqlGrammar

-----------------------------------------------------------------------------
(* A parameter on the wire: Null, or its format and bytes.  Text bytes are  *)
(* the text; binary bytes are a length and the number they encode.  How the *)
(* texts of the instance read as numbers (str::parse) is tabulated.         *)

NullParam == <<>>
TextParam(s) == <<"text", s>>
BinaryParam(size, n) == <<"binary", size, n>>

AsI64 == ("1" :> <<1, "1">>) @@ ("-1" :> <<-1, "1">>)
AsF64 == AsI64 @@ ("1.5" :> <<1, "1.5">>) @@ ("NaN" :> <<1, "NaN">>)
AsNumeric == AsI64 @@ ("1.5" :> <<1, "1.5">>)
Truths == {"t", "true", "1", "yes", "on"}

Value(k, x) == <<k, x>>
Read(numbers, s, k) == IF s \in DOMAIN numbers THEN Value(k, numbers[s]) ELSE Value("Text", s)

decode_text(s, oid) ==
    CASE oid = 16 -> Value("Bool", s \in Truths)
      [] oid \in {20, 21, 23} -> Read(AsI64, s, "Int")
      [] oid \in {700, 701} -> Read(AsF64, s, "Float")
      [] oid = 1700 -> IF s \in DOMAIN AsNumeric THEN Value("Numeric", s) ELSE Value("Text", s)
      [] oid = 0 -> IF s \in DOMAIN AsI64 THEN Value("Int", AsI64[s]) ELSE Read(AsF64, s, "Float")
      [] OTHER -> Value("Text", s)

BinarySize == (21 :> 2) @@ (23 :> 4) @@ (20 :> 8) @@ (700 :> 4) @@ (701 :> 8)
decode_binary(size, n, oid) ==
    CASE oid = 16 -> Some(Value("Bool", size > 0 /\ n[2] # "0"))
      [] oid \in DOMAIN BinarySize /\ size # BinarySize[oid] -> None
      [] oid \in {20, 21, 23} -> Some(Value("Int", n))
      [] oid \in {700, 701} -> Some(Value("Float", n))
      [] OTHER -> Some(Value("Text", n[2]))

(* None when the message is refused.                                        *)
decode_param(raw, oid) ==
    CASE raw = NullParam -> Some(Value("Null", 0))
      [] raw # NullParam /\ raw[1] = "binary" -> decode_binary(raw[2], raw[3], oid)
      [] OTHER -> Some(decode_text(raw[2], oid))

(* An argument of SPI_execute_with_args: null, or a datum, which is a       *)
(* number or a pointer to a text, whatever its type says.                   *)
Datum(n, s) == <<n, s>>
spi_datum_to_value(datum, oid) ==
    CASE datum = NullParam -> Value("Null", 0)
      [] datum # NullParam /\ oid = 16 -> Value("Bool", datum[1][2] # "0")
      [] datum # NullParam /\ oid \in {20, 21, 23} -> Value("Int", datum[1])
      [] datum # NullParam /\ oid \in {700, 701, 790, 1700} -> Value("Float", datum[1])
      [] OTHER -> Value("Text", datum[2])

-----------------------------------------------------------------------------
(* Substitution.                                                            *)

value_to_expr(v) ==
    CASE v[1] = "Null" -> [k |-> "Null"]
      [] v[1] = "Int" -> [k |-> "Int", int |-> v[2]]
      [] v[1] = "Float" -> [k |-> "Float", float |-> v[2]]
      [] v[1] = "Numeric" -> [k |-> "Cast", expr |-> [k |-> "Str", text |-> v[2]], target |-> "Numeric"]
      [] v[1] = "Text" -> [k |-> "Str", text |-> v[2]]
      [] v[1] = "Bool" -> [k |-> "Bool", truth |-> v[2]]

(* The fields bind_expr, bind_select, bind_table_ref and bind_statement     *)
(* descend into: those that hold one node, and those that hold several (or  *)
(* an optional one).  Subqueries, OVER, CTEs, grouping sets, ON CONFLICT,   *)
(* FROM of UPDATE, USING of DELETE and all other statements are left alone. *)
bind_expr ==
    [Unary |-> <<{"expr"}, {}>>, Binary |-> <<{"expr", "right"}, {}>>,
     QuantifiedCompare |-> <<{"expr"}, {"list"}>>, IsNull |-> <<{"expr"}, {}>>,
     IsDistinctFrom |-> <<{"expr", "right"}, {}>>, Cast |-> <<{"expr"}, {}>>,
     InSubquery |-> <<{"expr"}, {}>>, Like |-> <<{"expr", "pattern"}, {}>>,
     InList |-> <<{"expr"}, {"list"}>>, Row |-> <<{}, {"items"}>>, Array |-> <<{}, {"items"}>>,
     Between |-> <<{"expr", "low", "high"}, {}>>, Case |-> <<{}, {"operand", "whens", "else_expr"}>>,
     When |-> <<{"cond", "result"}, {}>>, Function |-> <<{}, {"args", "filter"}>>]
bind_table_ref == [TableRef |-> <<{}, {"args"}>>]
bind_select ==
    [Select |-> <<{}, {"projection", "filter", "from", "group_by", "having", "distinct_on", "order_by",
                       "limit", "offset", "set_ops"}>>,
     SelectItem |-> <<{"expr"}, {}>>, FromClause |-> <<{"base"}, {"joins"}>>,
     Join |-> <<{"table"}, {"on"}>>, OrderByItem |-> <<{"expr"}, {}>>, SetOperation |-> <<{"select"}, {}>>]
bind_statement ==
    [Insert |-> <<{}, {"select"}>>, Update |-> <<{}, {"assignments", "filter"}>>,
     Assignment |-> <<{"value"}, {}>>, Delete |-> <<{}, {"filter"}>>, Explain |-> <<{"statement"}, {}>>]
Descends == bind_expr @@ bind_table_ref @@ bind_select @@ bind_statement

(* The binder of native.rs leaves DISTINCT ON alone and enters the          *)
(* subqueries of FROM.                                                      *)
bind_spi_table_ref == [TableRef |-> <<{}, {"args", "subquery"}>>]
bind_spi_select == [bind_select EXCEPT !.Select[2] = @ \ {"distinct_on"}]
SpiDescends == bind_expr @@ bind_spi_table_ref @@ bind_spi_select @@ bind_statement

RECURSIVE Bound(_, _, _), Reached(_, _)
Bound(x, params, descends) ==
    CASE x.k = "Param" -> value_to_expr(params[x.n])
      [] x.k \in DOMAIN descends ->
           LET all(xs) == [j \in DOMAIN xs |-> Bound(xs[j], params, descends)]
               one == descends[x.k][1]
               many == descends[x.k][2]
           IN [f \in DOMAIN x |->
                 IF f \in one THEN Bound(x[f], params, descends)
                 ELSE IF f \in many THEN all(x[f])
                 ELSE IF x.k = "Insert" /\ f = "rows" THEN [j \in DOMAIN x.rows |-> all(x.rows[j])]
                 ELSE x[f]]
      [] OTHER -> x

(* The parameters the substitution meets.                                   *)
Reached(x, descends) ==
    CASE x.k = "Param" -> {x.n}
      [] x.k \in DOMAIN descends ->
           LET all(xs) == UNION {Reached(xs[j], descends) : j \in DOMAIN xs} IN
           UNION ({Reached(x[f], descends) : f \in descends[x.k][1]} \cup {all(x[f]) : f \in descends[x.k][2]}
                  \cup (IF x.k = "Insert" THEN {all(x.rows[j]) : j \in DOMAIN x.rows} ELSE {}))
      [] OTHER -> {}

(* The statement to run; None when too few parameters were supplied.        *)
Substitute(x, params, descends) ==
    IF Reached(x, descends) \subseteq DOMAIN params THEN Some(Bound(x, params, descends)) ELSE None
=============================================================================
