------------------------------ MODULE SqlCursor ------------------------------
(***************************************************************************)
(* The token cursor of crates/sql/src/parser.rs, and the methods that read  *)
(* single names, literals, types and verbatim tails from it.                *)
(*                                                                          *)
(* A reading is a record [i, v]: the position behind what was read, 0 when  *)
(* the parser returned an error, and the value.                             *)
(***************************************************************************)
EXTENDS SqlGrammar, SqlTypes

-----------------------------------------------------------------------------
(* The cursor.                                                              *)

At(i, v) == [i |-> i, v |-> v]
Error == At(0, 0)

peek_at(t, i) == IF i <= Len(t) THEN t[i] ELSE Eof

IsWord(tok) == tok[1] = "w" /\ tok[2] \notin Symbols
IsName(tok) == tok[1] = "q" \/ IsWord(tok)

is_keyword(tok, x) ==
    CASE x = "<any>"    -> tok # Eof
      [] x = "<word>"   -> IsWord(tok)
      [] x = "<quoted>" -> tok[1] = "q"
      [] x = "<string>" -> tok[1] = "l"
      [] x = "<number>" -> tok[1] = "n"
      [] x = "<param>"  -> tok[1] = "p"
      [] OTHER          -> tok = W(x)

Leads(lead, t, i) == \A j \in DOMAIN lead : is_keyword(peek_at(t, i + j - 1), lead[j])

(* The end of the statement at i, and of the group or list element at i.    *)
Upto(t, i, x) ==
    CHOOSE j \in i..(Len(t) + 1) :
        /\ peek_at(t, j) \in {W(x), Eof}
        /\ \A h \in i..(j - 1) : t[h] # W(x)
discard_statement_tail(t, i) == Upto(t, i, ";")

RECURSIVE Balanced(_, _, _, _)
Balanced(t, i, depth, stop) ==
    LET tok == peek_at(t, i) IN
    IF tok = Eof \/ (depth = 0 /\ tok \in stop) THEN i
    ELSE Balanced(t, i + 1,
                  CASE tok = W("(") -> depth + 1 [] tok = W(")") -> depth - 1 [] OTHER -> depth,
                  stop)

collect_balanced_until_comma_or_rparen(t, i) == Balanced(t, i, 0, {W(","), W(")")})
skip_balanced_parens(t, i) ==
    IF peek_at(t, i) # W("(") THEN 0
    ELSE LET j == Balanced(t, i + 1, 0, {W(")")}) IN IF peek_at(t, j) = Eof THEN 0 ELSE j + 1
skip_identity_options(t, i) ==
    IF peek_at(t, i) # W("(") THEN i
    ELSE LET j == Balanced(t, i + 1, 0, {W(")")}) IN IF peek_at(t, j) = Eof THEN j ELSE j + 1

(* Text kept verbatim: the tokens as they read back, so a quoted identifier *)
(* becomes the word inside the quotes.                                      *)
token_text(tok) == IF tok[1] = "q" THEN W(tok[2]) ELSE tok
collect(t, i, j) == [h \in 1..(j - i) |-> token_text(t[i + h - 1])]
collect_statement_tail(t, i) ==
    LET j == discard_statement_tail(t, i) IN At(j, collect(t, i, j))

-----------------------------------------------------------------------------
(* Names, literals and types.                                               *)

parse_ident(t, i) == IF IsName(peek_at(t, i)) THEN At(i + 1, t[i][2]) ELSE Error
parse_string_literal(t, i) == IF peek_at(t, i)[1] = "l" THEN At(i + 1, t[i][2]) ELSE Error
OneOf(classes, t, i) ==
    LET tok == peek_at(t, i) IN
    IF tok[1] \in classes /\ tok[2] \notin Symbols THEN At(i + 1, tok[2]) ELSE Error
Lowered(r) == IF r.i = 0 THEN r ELSE At(r.i, to_ascii_lowercase(r.v))

RECURSIVE Dotted(_, _, _)
Dotted(t, i, names) ==
    LET r == parse_ident(t, i) IN
    IF r.i = 0 THEN Error
    ELSE IF peek_at(t, r.i) = W(".") THEN Dotted(t, r.i + 1, Append(names, r.v))
    ELSE At(r.i, Append(names, r.v))

RECURSIVE JoinText(_, _)
JoinText(xs, sep) ==
    CASE xs = <<>> -> "" [] Len(xs) = 1 -> xs[1]
      [] OTHER -> xs[1] \o sep \o JoinText(Tail(xs), sep)

parse_object_name(t, i) ==
    LET r == Dotted(t, i, <<>>) IN IF r.i = 0 THEN r ELSE At(r.i, r.v[Len(r.v)])
parse_guc_name(t, i) ==
    LET r == Dotted(t, i, <<>>) IN IF r.i = 0 THEN r ELSE At(r.i, JoinText(r.v, "."))
parse_qualified_name(t, i) ==
    LET r == Dotted(t, i, <<>>)  n == Len(r.v) IN
    IF r.i = 0 THEN r
    ELSE At(r.i, <<IF n > 1 THEN Some(r.v[n - 1]) ELSE None, r.v[n]>>)

(* i64 literals: <<sign, digits>>.                                          *)
parse_number(t, i) ==
    IF peek_at(t, i)[1] = "n" /\ t[i][2] \notin FloatTexts \cup HugeTexts
    THEN At(i + 1, t[i][2]) ELSE Error
parse_i64_literal(t, i) ==
    LET neg == peek_at(t, i) = W("-")
        r == parse_number(t, IF neg THEN i + 1 ELSE i)
    IN IF r.i = 0 THEN r ELSE At(r.i, <<IF neg THEN -1 ELSE 1, r.v>>)

\* MUTANT of number_expr: an integer too large for i64 stays one.
number_expr_unbounded(t, i) ==
    IF t[i][2] \in FloatTexts
    THEN At(i + 1, [k |-> "Float", float |-> <<1, Rounded(t[i][2])>>])
    ELSE At(i + 1, [k |-> "Int", int |-> <<1, t[i][2]>>])

number_expr(t, i) ==
    IF t[i][2] \in FloatTexts \cup HugeTexts
    THEN At(i + 1, [k |-> "Float", float |-> <<1, Rounded(t[i][2])>>])
    ELSE At(i + 1, [k |-> "Int", int |-> <<1, t[i][2]>>])

parse_interval_qualifier(t, i) ==
    LET field(j) == peek_at(t, j)[1] = "w"
                    /\ peek_at(t, j)[2] \in {"year", "month", "day", "hour", "minute", "second"}
    IN CASE ~field(i) -> At(i, None)
         [] peek_at(t, i + 1) = W("to") /\ IsWord(peek_at(t, i + 2)) ->
              At(i + 3, Some(t[i][2] \o " to " \o t[i + 2][2]))
         [] peek_at(t, i + 1) = W("to") -> At(i + 3, Some(t[i][2]))
         [] OTHER -> At(i + 1, Some(t[i][2]))

RECURSIVE ModeWords(_, _, _)
ModeWords(t, i, ws) ==
    LET tok == peek_at(t, i) IN
    CASE tok \in {Eof, W(";"), W("nowait")} -> At(i, ws)
      [] tok = W("mode") -> At(i + 1, ws)
      [] IsWord(tok) -> ModeWords(t, i + 1, Append(ws, tok[2]))
      [] OTHER -> ModeWords(t, i + 1, ws)

RECURSIVE SettingText(_, _, _, _)
SettingText(t, i, j, glued) ==
    IF i = j THEN ""
    ELSE LET piece == t[i][2] IN
         IF piece = "," /\ t[i][1] = "w"
         THEN (IF i + 1 = j THEN "," ELSE ", ") \o SettingText(t, i + 1, j, TRUE)
         ELSE (IF glued THEN "" ELSE " ") \o piece
              \o SettingText(t, i + 1, j, piece \in {"", ".", "(", "::"} /\ (piece # "" \/ glued))
parse_setting_value(t, i) ==
    LET j == discard_statement_tail(t, i) IN At(j, SettingText(t, i, j, TRUE))

parse_operator_symbol(t, i) ==
    LET j == CHOOSE h \in i..(Len(t) + 1) :
                /\ peek_at(t, h) \in {W("("), W(";"), Eof}
                /\ \A g \in i..(h - 1) : t[g] \notin {W("("), W(";")}
    IN IF j = i THEN Error ELSE At(j, collect(t, i, j))

(* Types: <<DataType, declared name of a type that is not built in>>; a     *)
(* type's name is the sequence of its words.                                *)
Past(t, j, w) == IF peek_at(t, j) = W(w) THEN j + 1 ELSE j
Unqualified(t, first) ==
    IF first.i # 0 /\ peek_at(t, first.i) = W(".") THEN Lowered(parse_ident(t, first.i + 1)) ELSE first
TypeWords(t, r, nxt) ==
    CASE r.i = 0 -> Error
      [] (r.v = "double" /\ nxt = W("precision")) \/ (r.v = "character" /\ nxt = W("varying")) ->
           At(r.i + 1, <<r.v, nxt[2]>>)
      [] r.v \in {"timestamp", "time"} /\ nxt \in {W("with"), W("without")} ->
           At(Past(t, Past(t, r.i + 1, "time"), "zone"), <<r.v, nxt[2], "time", "zone">>)
      [] OTHER -> At(r.i, <<r.v>>)
TypeNameAt(t, r) == TypeWords(t, r, peek_at(t, r.i))
base_type_name(t, i) == TypeNameAt(t, Unqualified(t, Lowered(parse_ident(t, i))))

RECURSIVE SkipDimensions(_, _)
SkipDimensions(t, i) ==
    IF i = 0 \/ peek_at(t, i) # W("[") THEN i
    ELSE LET j == Upto(t, i, "]") IN
         IF peek_at(t, j) = Eof THEN 0 ELSE SkipDimensions(t, j + 1)

SkipModifier(t, i) ==
    IF peek_at(t, i) # W("(") THEN i
    ELSE LET j == Upto(t, i, ")") IN IF peek_at(t, j) = Eof THEN 0 ELSE j + 1

\* The type that words name: j is the end of its modifier, e of its dimensions.
NamedType(words, j, e) ==
    LET built == words \in DOMAIN from_sql_name IN
    CASE j = 0 \/ e = 0 -> Error
      [] j # 0 /\ e # 0 /\ e # j ->
           At(e, <<"Text", Some((IF built THEN <<pg_type_name[from_sql_name[words]]>> ELSE words)
                                \o <<"[", "]">>)>>)
      [] OTHER -> At(e, IF built THEN <<from_sql_name[words], None>> ELSE <<"Text", Some(words)>>)
DimensionsAt(t, words, j) ==
    NamedType(words, j, IF j = 0 THEN 0 ELSE SkipDimensions(t, Past(t, j, "array")))
TypeAt(t, r) == IF r.i = 0 THEN r ELSE DimensionsAt(t, r.v, SkipModifier(t, r.i))
parse_data_type_named(t, i) == TypeAt(t, base_type_name(t, i))

(* The name written, from the words of the type (a quoted one is lost, a    *)
(* schema's name is kept).                                                  *)
WordsOf(toks) ==
    LET ws == SelectSeq(toks, IsWord) IN [j \in DOMAIN ws |-> to_ascii_lowercase(ws[j][2])]
TypeText(t, i, r, open) ==
    IF r.i = 0 THEN r
    ELSE At(r.i, <<r.v[1], IF r.v[2] # None THEN r.v[2][1]
                           ELSE WordsOf(SubSeq(t, i, (IF open < r.i THEN open ELSE r.i) - 1))>>)
parse_type_name_str(t, i) == TypeText(t, i, parse_data_type_named(t, i), Upto(t, i, "("))
=============================================================================
