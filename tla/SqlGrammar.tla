------------------------------ MODULE SqlGrammar ------------------------------
(***************************************************************************)
(* The vocabulary in which the SQL parser (crates/sql/src/parser.rs) and    *)
(* the serializer (crates/sql/src/serialize.rs) are written down here.      *)
(*                                                                          *)
(* Both are recursive-descent programs over a token list: they expect a     *)
(* keyword, try an optional one, read a field of the tree, branch on the    *)
(* next token, loop.  A method is therefore a sequence of steps, and        *)
(* SqlParser and SqlSerializer say what a step does.  A token is a tuple    *)
(* whose first component is its class; keywords are in lower case, since    *)
(* the parser compares them without regard to case.                         *)
(***************************************************************************)
EXTENDS Integers, Sequences, TLC

-----------------------------------------------------------------------------
(* Tokens: lexer.rs, enum Token.                                            *)

W(x) == <<"w", x>>                 \* Word, and every symbol
Q(x) == <<"q", x>>                 \* QuotedIdent
L(x) == <<"l", x>>                 \* StringLit
N(x) == <<"n", x>>                 \* Number, as written
P(x) == <<"p", x>>                 \* Param
Eof == <<"eof", "">>

(* The symbols of Token, and the operators binary_op reads among them.      *)
Comparisons == {"=", "<>", "<", "<=", ">", ">=", "~", "~*", "!~", "!~*", "@>",
                "@@", "<@", "&&", "<<", "<<=", ">>", ">>="}
Symbols == Comparisons \cup
    {"(", ")", "[", "]", ",", ".", ";", "*", "+", "-", "/", "%", "||", "->",
     "->>", "::"}

Words(ws) == [j \in DOMAIN ws |-> W(ws[j])]

-----------------------------------------------------------------------------
(* Options are sequences of at most one element.                            *)

None == <<>>
Some(x) == <<x>>

-----------------------------------------------------------------------------
(* Steps.                                                                   *)

K(ws)              == <<"kw", ws>>            \* expect these tokens
Eat(ws)            == <<"eat", ws>>           \* skip one of these, if next
Put(f, v)          == <<"put", f, v>>         \* field f is v
Get(f, nt)         == <<"get", f, nt>>        \* field f is an nt
GetSome(f, nt)     == <<"getsome", f, nt>>    \* field f is Some(an nt)
List(f, nt)        == <<"list", f, nt>>       \* one or more, with commas
Flag(f, ws)        == <<"flag", f, ws>>       \* field f: did ws follow
Opt(f, ws, nt)     == <<"opt", f, ws, nt>>    \* Option: an nt after ws
OptList(f, ws, nt) == <<"optlist", f, ws, nt>>  \* a list after ws, or empty

Pick(cases)        == <<"pick", cases>>       \* the first case that applies
Loop(cases)        == <<"loop", cases>>       \* cases until none applies
Sep(w, cases)      == <<"sep", w, cases>>     \* cases, one or more, with w between

More(f, nt)        == <<"more", f, nt>>       \* append a list to field f
Push(f, v)         == <<"push", f, v>>        \* append v to field f
PushGet(f, nt)     == <<"pushget", f, nt>>    \* append an nt to field f
Need(f)            == <<"need", f>>           \* fail if field f is None
Copy(f, g)         == <<"copy", f, g>>        \* field f is field g
Forget(f)          == <<"forget", f>>         \* there is no field f
Bare(f, ws)        == <<"bare", f, ws>>       \* Option: a Word not among ws
Turn(c)            == <<"turn", c>>           \* what the method computes at the end
Drop(nt)           == <<"drop", nt>>          \* read an nt, keep nothing
OneToken           == <<"any">>               \* skip one token
SkipTo(x)          == <<"skip", x>>           \* skip up to token x

(* Cases of a Pick: taken when the lead is next, and eaten or only seen.  A *)
(* lead is a sequence of keywords, symbols and classes of tokens.           *)
Classes == {"<any>", "<word>", "<quoted>", "<string>", "<number>", "<param>"}
C(lead, steps)    == <<lead, Len(lead), steps>>
Look(lead, steps) == <<lead, 0, steps>>
First(lead, steps) == <<lead, 1, steps>>
Else(steps)       == <<<<>>, 0, steps>>

Either(lead, then, other) == Pick(<<C(lead, then), Else(other)>>)
Alt(f, cs) == Pick([j \in DOMAIN cs |-> C(cs[j][1], <<Put(f, cs[j][2])>>)])
Seq1(steps) == Pick(<<Else(steps)>>)

LookAny(ws, steps) == [j \in DOMAIN ws |-> Look(<<ws[j]>>, steps)]
EatAny(ws, steps)  == [j \in DOMAIN ws |-> C(<<ws[j]>>, steps)]
Paren(f, nt)  == Seq1(<<K(<<"(">>), List(f, nt), K(<<")">>)>>)
Paren0(f, nt) == Seq1(<<K(<<"(">>), Pick(<<Look(<<")">>, <<Put(f, <<>>)>>), Else(<<List(f, nt)>>)>>), K(<<")">>)>>)

Name(f) == Get(f, "ident")
Obj(f)  == Get(f, "object_name")
Str(f)  == Get(f, "string")
Ex(f)   == Get(f, "expr")
=============================================================================
