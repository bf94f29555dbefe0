------------------------------- MODULE SqlLexer -------------------------------
(***************************************************************************)
(* The tokenizer, crates/sql/src/lexer.rs, on characters, and the           *)
(* characters crates/sql/src/serialize.rs writes for a name, a string and   *)
(* the body of a function.  A token is its class and its characters;        *)
(* SqlParser and SqlSerializer work on tokens and leave this level out.     *)
(***************************************************************************)
EXTENDS Integers, Sequences, FiniteSets

CONSTANTS
    Texts,       \* the contents of the tokens that are written
    Separators,  \* what may stand between two tokens
    Neighbours   \* the tokens that may follow

VARIABLES
    written,  \* the tokens that were written
    input,   \* their text
    lexPos,     \* how much of it is read
    lexTokens,  \* the tokens that were read
    lexed    \* "reading", "done", or "malformed"

lexVars == <<written, input, lexPos, lexTokens, lexed>>

-----------------------------------------------------------------------------
(* Characters.  The end of the input is the empty string.                   *)

Newline == "\n"
Whitespace == {" ", "\t", Newline}
LowerChars == {"a", "b", "e", "n", "o", "d", "y"}
AlphaChars == LowerChars \cup {"E", "T"}
DigitChars == {"0", "1", "2"}
WordChars == AlphaChars \cup DigitChars \cup {"_", "$"}
TagChars == AlphaChars \cup DigitChars \cup {"_"}

char_at(i) == IF i <= Len(input) THEN input[i] ELSE ""
HasAt(s, i, part) == i + Len(part) - 1 <= Len(s) /\ SubSeq(s, i, i + Len(part) - 1) = part
Sees(i, text) == HasAt(input, i, text)

(* The first position from i on whose character is not in S.                *)
PastAll(i, S) == CHOOSE j \in i..(Len(input) + 1) :
                    char_at(j) \notin S /\ \A m \in i..(j - 1) : char_at(m) \in S
Between(class, i, j) == <<<<class, SubSeq(input, i, j - 1)>>, j>>
Unterminated == <<>>

-----------------------------------------------------------------------------
(* skip_whitespace_and_comments: block comments nest, and one that is not   *)
(* closed ends with the input.                                              *)

RECURSIVE block_comment(_, _), skip_whitespace_and_comments(_)
block_comment(i, depth) ==
    CASE depth = 0 \/ char_at(i) = "" -> i
      [] Sees(i, <<"/", "*">>) -> block_comment(i + 2, depth + 1)
      [] Sees(i, <<"*", "/">>) /\ depth > 0 -> block_comment(i + 2, depth - 1)
      [] OTHER -> block_comment(i + 1, depth)

skip_whitespace_and_comments(i) ==
    CASE char_at(i) \in Whitespace -> skip_whitespace_and_comments(i + 1)
      [] Sees(i, <<"-", "-">>) ->
           skip_whitespace_and_comments(PastAll(i, {input[j] : j \in DOMAIN input} \ {Newline}))
      [] Sees(i, <<"/", "*">>) -> skip_whitespace_and_comments(block_comment(i + 2, 1))
      [] OTHER -> i

-----------------------------------------------------------------------------
(* The readers: a token and the position after it, or Unterminated.         *)

read_word(i) == Between("w", i, PastAll(i, WordChars))
read_param(i) == Between("p", i + 1, PastAll(i + 1, DigitChars))

RECURSIVE NumberEnd(_, _, _)
NumberEnd(i, dot, exp) ==
    CASE char_at(i) \in DigitChars -> NumberEnd(i + 1, dot, exp)
      [] char_at(i) = "." /\ ~dot /\ ~exp -> NumberEnd(i + 1, TRUE, exp)
      [] char_at(i) \in {"e", "E"} /\ ~exp ->
           NumberEnd(IF char_at(i + 1) \in {"+", "-"} THEN i + 2 ELSE i + 1, dot, TRUE)
      [] OTHER -> i
read_number(i) == Between("n", i, NumberEnd(i, FALSE, FALSE))

(* From i on, after the opening quote: a doubled quote stands for one.      *)
RECURSIVE Quoted(_, _, _, _), Escaped(_, _)
Quoted(class, q, i, text) ==
    CASE char_at(i) = "" -> Unterminated
      [] Sees(i, <<q, q>>) -> Quoted(class, q, i + 2, Append(text, q))
      [] char_at(i) = q /\ char_at(i + 1) # q -> <<<<class, text>>, i + 1>>
      [] OTHER -> Quoted(class, q, i + 1, Append(text, char_at(i)))
read_string(i) == Quoted("l", "'", i + 1, <<>>)
read_quoted_ident(i) == Quoted("q", "\"", i + 1, <<>>)

escapes == [n |-> Newline, t |-> "\t", r |-> "\r", b |-> "<backspace>", f |-> "\f"]
EscapedChar(c) == IF c \in DOMAIN escapes THEN escapes[c] ELSE c
Escaped(i, text) ==
    CASE char_at(i) = "" -> Unterminated
      [] Sees(i, <<"'", "'">>) -> Escaped(i + 2, Append(text, "'"))
      [] char_at(i) = "'" /\ char_at(i + 1) # "'" -> <<<<"l", text>>, i + 1>>
      [] char_at(i) = "\\" -> IF char_at(i + 1) = "" THEN Unterminated
                             ELSE Escaped(i + 2, Append(text, EscapedChar(char_at(i + 1))))
      [] OTHER -> Escaped(i + 1, Append(text, char_at(i)))
read_escape_string(i) == Escaped(i + 2, <<>>)

(* $tag$ at i, where the tag may be empty and starts with no digit.         *)
TagEnd(i) == PastAll(i + 1, TagChars)
starts_dollar_quote(i) ==
    char_at(i) = "$" /\ char_at(TagEnd(i)) = "$" /\ char_at(i + 1) \notin DigitChars
read_dollar_string(i) ==
    LET delimiter == SubSeq(input, i, TagEnd(i))
        ends == {j \in (TagEnd(i) + 1)..Len(input) : Sees(j, delimiter)}
        end == CHOOSE j \in ends : \A m \in ends : j <= m
    IN IF ends = {} THEN Unterminated
       ELSE <<<<"l", SubSeq(input, TagEnd(i) + 1, end - 1)>>, end + Len(delimiter)>>

(* Symbols of up to three characters, the longest that fits.                *)
SymbolChars == {<<",">>, <<";">>, <<"(">>, <<")">>, <<"[">>, <<"]">>, <<"*">>, <<"+">>, <<"-">>, <<"/">>,
                <<"%">>, <<".">>, <<"=">>, <<"<">>, <<">">>, <<"~">>, <<"-", ">">>, <<"-", ">", ">">>,
                <<":", ":">>, <<"<", "<">>, <<"<", "<", "=">>, <<"<", ">">>, <<"<", "@">>, <<"<", "=">>,
                <<">", ">">>, <<">", ">", "=">>, <<">", "=">>, <<"!", "=">>, <<"!", "~">>,
                <<"!", "~", "*">>, <<"~", "*">>, <<"@", "@">>, <<"@", ">">>, <<"&", "&">>, <<"|", "|">>}
read_symbol(i) ==
    LET fits == {s \in SymbolChars : Sees(i, s)} IN
    IF fits = {} THEN Unterminated
    ELSE LET s == CHOOSE s \in fits : \A r \in fits : Len(r) <= Len(s) IN <<<<"s", s>>, i + Len(s)>>

ReadToken(i) ==
    LET c == char_at(i) IN
    CASE c \in {"e", "E"} /\ char_at(i + 1) = "'" -> read_escape_string(i)
      [] c \in AlphaChars \cup {"_"} /\ ~(c \in {"e", "E"} /\ char_at(i + 1) = "'") -> read_word(i)
      [] c \in DigitChars \/ (c = "." /\ char_at(i + 1) \in DigitChars) -> read_number(i)
      [] c = "\"" -> read_quoted_ident(i)
      [] c = "'" -> read_string(i)
      [] c = "$" /\ starts_dollar_quote(i) -> read_dollar_string(i)
      [] c = "$" /\ ~starts_dollar_quote(i) /\ char_at(i + 1) \in DigitChars -> read_param(i)
      [] OTHER -> read_symbol(i)

-----------------------------------------------------------------------------
(* serialize.rs.                                                            *)

RECURSIVE Doubled(_, _)
Doubled(s, q) ==
    IF s = <<>> THEN <<>> ELSE (IF Head(s) = q THEN <<q, q>> ELSE <<Head(s)>>) \o Doubled(Tail(s), q)

\* MUTANT of write_string: a quote in the text is not doubled.
write_string_bare(s) == <<"'">> \o s \o <<"'">>

write_string(s) == <<"'">> \o Doubled(s, "'") \o <<"'">>

IsSimple(s) == /\ s # <<>> /\ s[1] \in LowerChars \cup {"_"}
               /\ \A j \in DOMAIN s : s[j] \in LowerChars \cup DigitChars \cup {"_"}
write_ident(s) == IF IsSimple(s) THEN s ELSE <<"\"">> \o Doubled(s, "\"") \o <<"\"">>

Contains(s, part) == \E j \in DOMAIN s : HasAt(s, j, part)
BodyTag == <<"$", "b", "o", "d", "y", "0", "$">>
write_body(s) ==
    LET tag == IF Contains(s, <<"$", "$">>) THEN BodyTag ELSE <<"$", "$">> IN tag \o s \o tag

-----------------------------------------------------------------------------
(* A token to write is one that is read back: a name is a word or a quoted  *)
(* identifier.                                                              *)

NameToken(s) == [token |-> <<IF IsSimple(s) THEN "w" ELSE "q", s>>, text |-> write_ident(s)]
LiteralToken(s) == [token |-> <<"l", s>>, text |-> write_string(s)]
BodyToken(s) == [token |-> <<"l", s>>, text |-> write_body(s)]
EndsInDollarSign(s) == s # <<>> /\ s[Len(s)] = "$"
Token(class, s) == [token |-> <<class, s>>, text |-> s]

Writable == {NameToken(s) : s \in Texts} \cup {LiteralToken(s) : s \in Texts}
            \cup {BodyToken(s) : s \in {x \in Texts : ~EndsInDollarSign(x)}}

(* Two tokens with something between them, or one whose last character was  *)
(* lost with the end of the file.                                           *)
LexInit ==
    /\ \E w \in Writable :
         \/ \E sep \in Separators, n \in Neighbours :
              written = <<w.token, n.token>> /\ input = w.text \o sep \o n.text
         \/ w.text # <<>> /\ written = <<w.token>> /\ input = SubSeq(w.text, 1, Len(w.text) - 1)
    /\ lexPos = 1 /\ lexTokens = <<>> /\ lexed = "reading"

next_token ==
    /\ lexed = "reading"
    /\ LET i == skip_whitespace_and_comments(lexPos)
           r == ReadToken(i)
       IN IF char_at(i) = "" THEN lexed' = "done" /\ lexPos' = i /\ UNCHANGED lexTokens
          ELSE IF r = Unterminated THEN lexed' = "malformed" /\ UNCHANGED <<lexPos, lexTokens>>
          ELSE lexTokens' = Append(lexTokens, r[1]) /\ lexPos' = r[2] /\ UNCHANGED lexed
    /\ UNCHANGED <<written, input>>

LexNext == next_token
LexSpec == LexInit /\ [][LexNext]_lexVars

-----------------------------------------------------------------------------
(* Properties.                                                              *)

(* What the serializer quotes is read back by the lexer as it was, and ends *)
(* where it was meant to end, whatever is in it and whatever comment stands *)
(* behind it (serialize.rs: ident, "so case and special characters round-   *)
(* trip"; dollar_quote, "round-trips through the lexer unchanged").  A body *)
(* that ends in $ does not: its last $ is taken for the delimiter's.  A     *)
(* quoted text that lost its last character is an error, never another text.*)
TextsReadBack ==
    /\ Len(written) = 2 => /\ lexed # "malformed"
                           /\ lexed = "done" => lexTokens = written
                           /\ \A j \in DOMAIN lexTokens : j <= 2 /\ lexTokens[j] = written[j]
    /\ Len(written) = 1 /\ written[1][1] # "w" => lexTokens = <<>> /\ lexed # "done"
=============================================================================
