------------------------------ MODULE DiskCodec ------------------------------
(***************************************************************************)
(* What crates/engine/src/disk/mod.rs writes into tuples and into the      *)
(* catalog file, and reads back: encode_row and decode_row, write_catalog  *)
(* and read_catalog.                                                       *)
(*                                                                         *)
(* A number is a byte here, followed by the zero bytes of its width; Int   *)
(* and Float carry their eight bytes.  A character of the catalog is a     *)
(* string; a keyword, a type name or a flag is one character, since a file *)
(* that is cut inside one of them has too few fields in that line anyway.  *)
(***************************************************************************)
EXTENDS Integers, Sequences, SequencesExt

CONSTANTS
    DiskRows,       \* the rows in use: sequences of values
    Catalogs        \* the catalogs in use

VARIABLES
    source,         \* [row] or [tables]: what was written
    written         \* the bytes of the tuple, or the characters of the catalog

codecVars == <<source, written>>

Nothing == <<"None">>
Some(x) == <<"Some", x>>

-----------------------------------------------------------------------------
(* The row codec *)

U32(n) == <<n, 0, 0, 0>>

Tags == [Null |-> 0, Int |-> 1, Float |-> 2, Text |-> 3, Bool |-> 4, Numeric |-> 5]

\* A value is its kind and its bytes: the text of Text and Numeric, 0 or 1 for
\* Bool, eight bytes for Int and Float, none for Null.  (That the text of a
\* number reads back as that number is a property of Numeric.)
encode_cell(v) ==
    <<Tags[v.kind]>> \o (IF v.kind \in {"Text", "Numeric"} THEN U32(Len(v.bytes)) ELSE <<>>) \o v.bytes

encode_row(row) == U32(Len(row)) \o FlattenSeq([i \in DOMAIN row |-> encode_cell(row[i])])

\* bytes.get(pos..pos + n)?
Slice(bytes, pos, n) ==
    IF pos + n - 1 <= Len(bytes) THEN Some(SubSeq(bytes, pos, pos + n - 1)) ELSE Nothing

\* The value whose tag is at pos, with the position behind it.
decode_cell(bytes, pos) ==
    LET kinds == {k \in DOMAIN Tags : pos <= Len(bytes) /\ Tags[k] = bytes[pos]}
        kind == CHOOSE k \in kinds : TRUE
        sized == kind \in {"Text", "Numeric"}
        count == CASE sized -> Slice(bytes, pos + 1, 4)
                   [] kind \in {"Int", "Float"} -> Some(U32(8))
                   [] kind = "Bool" -> Some(U32(1))
                   [] kind = "Null" -> Some(U32(0))
        start == IF sized THEN pos + 5 ELSE pos + 1
        payload == Slice(bytes, start, count[2][1])
    IN  IF kinds = {} \/ count = Nothing \/ payload = Nothing THEN Nothing
        ELSE Some([value |-> [kind |-> kind, bytes |-> payload[2]],
                   next |-> start + count[2][1]])

RECURSIVE DecodeCells(_, _, _)
DecodeCells(bytes, pos, n) ==
    IF n = 0 THEN Some(<<>>)
    ELSE LET cell == decode_cell(bytes, pos)
             rest == DecodeCells(bytes, cell[2].next, n - 1)
         IN  IF cell = Nothing \/ rest = Nothing THEN Nothing
             ELSE Some(<<cell[2].value>> \o rest[2])

decode_row(bytes) ==
    LET count == Slice(bytes, 1, 4)
    IN  IF count = Nothing THEN Nothing ELSE DecodeCells(bytes, 5, count[2][1])

-----------------------------------------------------------------------------
(* The catalog: a table is [name, columns], a column [name, type, not_null] *)

Escapes == [c \in {"\\", "\t", "\n"} |->
              CASE c = "\\" -> <<"\\", "\\">> [] c = "\t" -> <<"\\", "t">> [] c = "\n" -> <<"\\", "n">>]

\* MUTANT of escape: the backslash stays as it is.
escape_separators(name) ==
    FlattenSeq([i \in DOMAIN name |->
        IF name[i] \in {"\t", "\n"} THEN Escapes[name[i]] ELSE <<name[i]>>])

escape(name) ==
    FlattenSeq([i \in DOMAIN name |->
        IF name[i] \in DOMAIN Escapes THEN Escapes[name[i]] ELSE <<name[i]>>])

ColumnLine(c) ==
    <<"col", "\t">> \o escape(c.name) \o <<"\t", c.type, "\t", IF c.not_null THEN "1" ELSE "0", "\n">>

TableLines(t) ==
    <<"table", "\t">> \o escape(t.name) \o <<"\n">> \o
    FlattenSeq([i \in DOMAIN t.columns |-> ColumnLine(t.columns[i])])

write_catalog(tables) == FlattenSeq([i \in DOMAIN tables |-> TableLines(tables[i])])

RECURSIVE unescape(_)
unescape(s) ==
    IF s = <<>> THEN <<>>
    ELSE IF s[1] # "\\" THEN <<s[1]>> \o unescape(Tail(s))
    ELSE IF Len(s) = 1 THEN <<>>
    ELSE <<CASE s[2] = "t" -> "\t" [] s[2] = "n" -> "\n" [] OTHER -> s[2]>>
            \o unescape(SubSeq(s, 3, Len(s)))

\* The pieces of a sequence between separators.
Split(s, sep) ==
    LET cuts == <<0>> \o SetToSortSeq({i \in DOMAIN s : s[i] = sep}, <) \o <<Len(s) + 1>>
    IN  [i \in 1..(Len(cuts) - 1) |-> SubSeq(s, cuts[i] + 1, cuts[i + 1] - 1)]

\* text.lines(): a carriage return at the end of a terminated line goes with it.
StripCr(line) == IF line # <<>> /\ Last(line) = "\r" THEN Front(line) ELSE line

Lines(text) ==
    LET pieces == Split(text, "\n")
    IN  [i \in DOMAIN pieces |-> IF i < Len(pieces) THEN StripCr(pieces[i]) ELSE pieces[i]]

\* One line of read_catalog; other lines, and columns before any table, count
\* for nothing.
ReadLine(tables, line) ==
    LET parts == Split(line, "\t")
    IN  CASE Len(parts) = 2 /\ parts[1] = <<"table">> ->
               Append(tables, [name |-> unescape(parts[2]), columns |-> <<>>])
          [] Len(parts) = 4 /\ parts[1] = <<"col">> /\ tables # <<>> ->
               [tables EXCEPT ![Len(tables)].columns =
                  Append(@, [name |-> unescape(parts[2]),
                             type |-> IF parts[3] = <<>> THEN "text" ELSE parts[3][1],
                             not_null |-> parts[4] = <<"1">>])]
          [] OTHER -> tables

read_catalog(text) == FoldLeft(ReadLine, <<>>, Lines(text))

-----------------------------------------------------------------------------
CodecInit ==
    \/ \E row \in DiskRows : source = [row |-> row] /\ written = encode_row(row)
    \/ \E tables \in Catalogs : source = [tables |-> tables] /\ written = write_catalog(tables)

IsRow == DOMAIN source = {"row"}
Whole == written = IF IsRow THEN encode_row(source.row) ELSE write_catalog(source.tables)

\* A crash, or a file that was cut, keeps the first n bytes.
CutAt(n) ==
    /\ Whole
    /\ written' = SubSeq(written, 1, n)
    /\ UNCHANGED source

CodecNext == \E n \in 0..(Len(written) - 1) : CutAt(n)

CodecSpec == CodecInit /\ [][CodecNext]_codecVars

-----------------------------------------------------------------------------
(* Properties *)

\* A tuple that is whole decodes to its row, and one that is cut to none.
RowReadsBack == decode_row(written) = IF Whole THEN Some(source.row) ELSE Nothing

\* A table whose name ends in a carriage return loses it: lines() takes the
\* character for a part of the end of the line.
AsRead(t) == [t EXCEPT !.name = StripCr(@)]

\* Only the last entry that is read of a cut catalog can differ from what was
\* written: it misses columns, the NOT NULL of its last column, or the end of
\* its name.
PrefixOf(t, u) ==
    /\ IsPrefix(t.name, u.name) /\ (t.columns = <<>> \/ t.name = StripCr(u.name))
    /\ Len(t.columns) <= Len(u.columns)
    /\ \A i \in DOMAIN t.columns :
          \/ t.columns[i] = u.columns[i]
          \/ i = Len(t.columns) /\ t.columns[i] = [u.columns[i] EXCEPT !.not_null = FALSE]

CatalogReadsBack ==
    LET tables == source.tables
        read == read_catalog(written)
    IN  /\ Whole => Len(read) = Len(tables) /\ \A i \in DOMAIN read : read[i] = AsRead(tables[i])
        /\ Len(read) <= Len(tables)
        /\ \A i \in DOMAIN read :
              IF i < Len(read) THEN read[i] = AsRead(tables[i]) ELSE PrefixOf(read[i], tables[i])

\* What a checkpoint writes is what recovery reads: rows exactly or not at all,
\* and of a catalog that a crash cut a prefix, names with tabs, newlines and
\* backslashes included.
FilesReadBack == IF IsRow THEN RowReadsBack ELSE CatalogReadsBack
=============================================================================
