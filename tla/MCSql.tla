-------------------------------- MODULE MCSql --------------------------------
(***************************************************************************)
(* SQL text: statements through the parser, the binder, the log and its     *)
(* replay (SqlLog), and, one level down, quoted text through the lexer      *)
(* (SqlLexer).  A behaviour is about one of the two.                        *)
(***************************************************************************)
EXTENDS SqlLog, SqlLexer

VARIABLE focus  \* "log" or "lexer"

(* Parameters of every kind a Bind message may hold.                        *)
MCWire == {<<TextParam("1"), 0>>, <<TextParam("-1"), 0>>, <<TextParam("1.5"), 1700>>,
           <<TextParam("NaN"), 701>>, <<TextParam("1"), 701>>, <<TextParam("t"), 16>>,
           <<TextParam("b$"), 23>>, <<NullParam, 23>>,
           <<BinaryParam(8, <<-1, "1">>), 20>>, <<BinaryParam(3, <<1, "1">>), 23>>}

(* Arguments of every kind a native function may pass.                      *)
One == Datum(<<1, "1">>, "x")
MCDatums == {<<One, 0>>, <<One, 16>>, <<One, 23>>, <<One, 701>>, <<Datum(<<-1, "1">>, "x"), 20>>,
             <<Datum(<<1, "1.5">>, "x"), 1700>>, <<NullParam, 23>>}

(* Every text of up to three characters that mean something to the lexer;   *)
(* behind it white space or a comment that holds a quote; behind that a     *)
(* token of each class.                                                     *)
Alphabet == {"a", "E", "'", "\"", "$", "-", "\\", Newline}
MCTexts == UNION {[1..n -> Alphabet] : n \in 0..3}
MCSeparators == {<<" ">>, <<Newline>>, <<"-", "-", "'", Newline>>,
                 <<"/", "*", "/", "*", "*", "/", "'", "*", "/">>}
MCNeighbours ==
    {Token("w", <<"e">>), Token("n", <<"1", ".", "2", "e", "-", "1">>), Token("s", <<"-", ">", ">">>),
     LiteralToken(<<"'">>), [token |-> <<"p", <<"1">>>>, text |-> <<"$", "1">>],
     [token |-> <<"l", <<"'", Newline>>>>, text |-> <<"E", "'", "\\", "'", "\\", "n", "'">>]}

NoSql == /\ draft = Draft(<<>>, <<>>, 0, FALSE) /\ phase = "idle"
         /\ prepared = <<>> /\ executed = <<>> /\ log = <<>> /\ restored = <<>>
NoLexer == written = <<>> /\ input = <<>> /\ lexPos = 1 /\ lexTokens = <<>> /\ lexed = "idle"

MCInit == \/ focus = "log" /\ SqlInit /\ NoLexer
          \/ focus = "lexer" /\ LexInit /\ NoSql
MCNext == /\ \/ SqlNext /\ UNCHANGED lexVars
             \/ LexNext /\ UNCHANGED sqlVars
          /\ UNCHANGED focus
MCSpec == MCInit /\ [][MCNext]_<<sqlVars, lexVars, focus>>
==============================================================================
