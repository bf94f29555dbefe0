----------------------------- MODULE LogicalWal -----------------------------
(***************************************************************************)
(* The logical WAL of crates/engine/src/wal.rs and its recovery in         *)
(* crates/server/src/server.rs (replay, parse_wal_statements,              *)
(* wal_records).                                                           *)
(*                                                                         *)
(* The file is a sequence of tokens: the SQL of a statement, the fragment  *)
(* of one, ";" and newline.  An append writes the SQL, then ";" and        *)
(* newline, then syncs; a crash cuts it anywhere.  Nothing ever removes    *)
(* what a crash left.  Recovery parses the whole file as a script and, if  *)
(* that fails, the records that end in ";" newline up to the first         *)
(* malformed one.                                                          *)
(***************************************************************************)
EXTENDS Naturals, Sequences, SequencesExt, FiniteSets

CONSTANTS
    LogStatements,  \* bound: statements of a behaviour
    LogCrashes,     \* bound: crashes of a behaviour
    Literals,       \* values in use of: a literal of the SQL holds ";" newline
    Fragments       \* what a cut statement can be: "malformed", or "shorter",
                    \* a statement in its own right (DELETE without its WHERE)

ASSUME LogicalWalAssumption ==
    /\ LogStatements \in Nat /\ LogCrashes \in Nat
    /\ Literals \subseteq BOOLEAN
    /\ Fragments \subseteq {"malformed", "shorter"}

VARIABLES
    file,           \* the tokens of wal.sql
    live,           \* the statements that the database in memory has executed
    executed,       \* history: how many statements were run
    acked,          \* history: the statements whose append returned
    logCrashes

logicalVars == <<file, live, executed, acked, logCrashes>>

-----------------------------------------------------------------------------
Sql(n, split) == [kind |-> "sql", id |-> n, split |-> split]
Cut(n, fragment) == [kind |-> fragment, id |-> n, split |-> FALSE]
Semicolon == [kind |-> "semicolon", id |-> 0, split |-> FALSE]
Newline == [kind |-> "newline", id |-> 0, split |-> FALSE]

\* append: the SQL, then ";" and newline.
TextRecord(n, split) == <<Sql(n, split), Semicolon, Newline>>

\* The statement that a fragment of statement n is read as, when it is one.
Other(n) == LogStatements + n
Meaning(e) == IF e.kind = "sql" THEN e.id ELSE Other(e.id)

\* Parser::parse_sql: statements separated by semicolons, the last one with or
\* without one.  A fragment that is no statement, and two statements with no
\* semicolon between them, are errors.
IsText(e) == e.kind \in {"sql", "shorter", "malformed"}

IsError(e) == e.kind = "malformed"

Parses(tokens) ==
    LET visible == SelectSeq(tokens, LAMBDA e : e # Newline)
    IN  /\ \A i \in DOMAIN visible : ~IsError(visible[i])
        /\ \A i \in 1..(Len(visible) - 1) :
              ~(IsText(visible[i]) /\ IsText(visible[i + 1]))

Parsed(tokens) ==
    LET text == SelectSeq(tokens, IsText)
    IN  [i \in DOMAIN text |-> Meaning(text[i])]

\* wal_records: the file cut after every ";" newline, without a remainder that
\* does not end so.  The separator is also found inside a literal.
Ends(tokens) ==
    {i \in DOMAIN tokens :
        /\ tokens[i] = Newline
        /\ i > 1 /\ tokens[i - 1] = Semicolon}

\* The tokens of the record that ends at position e.
RecordAt(tokens, e) ==
    LET before == {i \in Ends(tokens) : i < e}
        start == IF before = {} THEN 1 ELSE 1 + (CHOOSE i \in before :
                                                  \A j \in before : j <= i)
    IN  SubSeq(tokens, start, e)

\* A record whose literal was cut in two parses no more.
RecordParses(record) ==
    Parses(record) /\ \A i \in DOMAIN record : ~record[i].split

\* MUTANT of PrefixEnd: nothing is recovered from a file that does not parse.
NoPrefix(tokens) == 0

\* The end of the last record before the first malformed one.
PrefixEnd(tokens) ==
    LET good == {e \in Ends(tokens) :
                   \A d \in Ends(tokens) :
                      d <= e => RecordParses(RecordAt(tokens, d))}
    IN  IF good = {} THEN 0 ELSE CHOOSE e \in good : \A d \in good : d <= e

\* parse_wal_statements
RecoveredFrom(tokens) ==
    IF Parses(tokens) THEN Parsed(tokens)
    ELSE Parsed(SubSeq(tokens, 1, PrefixEnd(tokens)))

-----------------------------------------------------------------------------
\* The file is made of texts, of semicolons that each follow a text, and of
\* newlines that each follow a semicolon.
LogicalTypeOK ==
    /\ \A i \in DOMAIN file :
          \/ IsText(file[i]) /\ file[i].id \in 1..LogStatements
          \/ i > 1 /\ file[i] = Semicolon /\ IsText(file[i - 1])
          \/ i > 1 /\ file[i] = Newline /\ file[i - 1] = Semicolon
    /\ live \in Seq(Nat) /\ acked \in Seq(1..LogStatements)
    /\ executed \in 0..LogStatements /\ logCrashes \in 0..LogCrashes

LogicalInit ==
    /\ file = <<>> /\ live = <<>> /\ acked = <<>>
    /\ executed = 0 /\ logCrashes = 0

\* A statement is executed and its record appended and synced.
Execute(split) ==
    /\ executed < LogStatements
    /\ executed' = executed + 1
    /\ file' = file \o TextRecord(executed', split)
    /\ live' = Append(live, executed')
    /\ acked' = Append(acked, executed')
    /\ UNCHANGED logCrashes

\* What a crash during the append of statement n leaves of its record.
Leavings(n, split) ==
    {SubSeq(TextRecord(n, split), 1, k) : k \in 0..3} \cup
    {<<Cut(n, fragment)>> : fragment \in Fragments}

\* The process dies while statement executed + 1 is appended, and is started
\* again: open and replay.
CrashInAppend(split) ==
    /\ executed < LogStatements /\ logCrashes < LogCrashes
    /\ executed' = executed + 1
    /\ logCrashes' = logCrashes + 1
    /\ \E left \in Leavings(executed', split) : file' = file \o left
    /\ live' = RecoveredFrom(file')
    /\ UNCHANGED acked

\* The process dies between statements.
RestartLog ==
    /\ logCrashes < LogCrashes
    /\ logCrashes' = logCrashes + 1
    /\ live' = RecoveredFrom(file)
    /\ UNCHANGED <<file, executed, acked>>

LogicalNext ==
    \/ \E split \in Literals : Execute(split) \/ CrashInAppend(split)
    \/ RestartLog

LogicalSpec == LogicalInit /\ [][LogicalNext]_logicalVars

-----------------------------------------------------------------------------
(* Properties *)

\* Where the file is no sequence of statements: at a malformed fragment, at a
\* text that another follows with no semicolon, and, once the records are read
\* one by one, at a literal that holds the separator.
Damaged(i) ==
    \/ IsError(file[i])
    \/ IsText(file[i]) /\ i < Len(file) /\ IsText(file[i + 1])
    \/ ~Parses(file) /\ file[i].split

\* The statements recorded before the first damage.
Intact ==
    {file[k].id : k \in {i \in DOMAIN file : \A j \in 1..i : ~Damaged(j)}}

\* Statements whose append returned are in the database, in their order, after
\* every restart, up to the first damage of the file.
CommittedSurvive ==
    LET kept == SelectSeq(acked, LAMBDA n : n \in Intact)
    IN  SelectSeq(live, LAMBDA n : n \in Range(kept)) = kept

\* Every statement the database has executed is one that was submitted, or a
\* torn fragment that is a statement in its own right.
NothingInvented ==
    Range(live) \subseteq
        1..executed \cup {Other(e.id) : e \in {t \in Range(file) : t.kind = "shorter"}}

\* Recovery of a damaged log executes all that was reported before the damage
\* and nothing that was never submitted.
LogReplays == CommittedSurvive /\ NothingInvented

\* What the tests of server.rs say of a torn tail: it is dropped, and the
\* statements whose append returned are all recovered.
AllCommittedSurvive == SelectSeq(live, LAMBDA n : n \in Range(acked)) = acked
=============================================================================
