--------------------------- MODULE MCPersistence ----------------------------
(***************************************************************************)
(* The parts that write files, each on its own: the logical WAL, the       *)
(* physical WAL, the buffer pool, the checkpoints of the disk store, its   *)
(* heap files, the bytes of its rows and its catalog, and the numbers whose *)
(* text those rows hold.                                                   *)
(***************************************************************************)
EXTENDS LogicalWal, PhysicalWal, BufferManager, DiskStore, HeapPages, DiskCodec,
        Numeric

CONSTANTS t1, t2, t3, f1, f2

VARIABLE focus      \* the part that this behaviour is about

\* heap_file_name gives t1 and t2 the same file.
TwoShareAFile == [t \in {t1, t2, t3} |-> IF t = t3 THEN f2 ELSE f1]

\* Rows of up to two cells, of every kind, with bytes that look like tags and
\* lengths; names with every character that escape and lines() treat specially.
Cell(kind, bytes) == [kind |-> kind, bytes |-> bytes]
Cells == {Cell("Null", <<>>), Cell("Bool", <<1>>), Cell("Int", <<255, 1, 0, 0, 0, 0, 0, 0>>),
          Cell("Text", <<>>), Cell("Text", <<3, 0>>), Cell("Numeric", <<48, 46, 53>>)}
MCDiskRows == {<<>>} \cup {<<c>> : c \in Cells} \cup {<<c, d>> : c \in Cells, d \in Cells}
Characters == {"a", "t", "\\", "\t", "\n", "\r"}
DiskNames == {<<c>> : c \in Characters} \cup {<<c, d>> : c \in Characters, d \in Characters}
DiskColumn(name, not_null) == [name |-> name, type |-> "int4", not_null |-> not_null]
MCCatalogs ==
    {<<[name |-> n, columns |-> <<DiskColumn(m, TRUE), DiskColumn(<<"b">>, FALSE)>>],
       [name |-> <<m[1]>>, columns |-> <<>>]>> : n \in {<<c>> : c \in Characters}, m \in DiskNames}

\* Tuples that leave 0, 1 and 4 bytes of a page free, and one that no page holds.
MCTuples == {<<1, 0, 0, 0, 0>>, <<1, 0, 0, 0, 4, 1>>, <<1, 0, 0, 0, 3, 2, 0, 0, 0, 65, 66>>,
             [i \in 1..21 |-> 7]}

\* Zero with a scale, signs, a carry into a new digit, exponents, and two texts
\* that are no numbers.
MCLiterals == {<<"0">>, <<".", "0", "0">>, <<"-", "1">>, <<"9", ".", "9">>,
               <<"+", "7", "e", "1">>, <<"-", ".", "2", "5">>, <<"e", "1">>, <<"1", "e">>}

persistenceVars == <<focus, logicalVars, physicalVars, vars, diskVars, heapVars, codecVars,
                     numericVars>>

NoCodec == source = [row |-> <<>>] /\ written = encode_row(<<>>)

PersistenceInit ==
    /\ focus \in {"logical", "physical", "buffer", "disk", "heap", "codec", "numeric"}
    /\ LogicalInit /\ PhysicalInit /\ Init /\ DiskInit /\ HeapInit
    /\ IF focus = "codec" THEN CodecInit ELSE NoCodec
    /\ IF focus = "numeric" THEN NumericInit ELSE acc = zero /\ exact = Denoted(zero)

\* The part in focus takes a step; the others stay at their beginning.
PersistenceNext ==
    /\ \/ /\ focus = "logical" /\ LogicalNext
          /\ UNCHANGED <<physicalVars, vars, diskVars, heapVars, codecVars, numericVars>>
       \/ /\ focus = "physical" /\ PhysicalNext
          /\ UNCHANGED <<logicalVars, vars, diskVars, heapVars, codecVars, numericVars>>
       \/ /\ focus = "buffer" /\ Next
          /\ UNCHANGED <<logicalVars, physicalVars, diskVars, heapVars, codecVars, numericVars>>
       \/ /\ focus = "disk" /\ DiskNext
          /\ UNCHANGED <<logicalVars, physicalVars, vars, heapVars, codecVars, numericVars>>
       \/ /\ focus = "heap" /\ HeapNext
          /\ UNCHANGED <<logicalVars, physicalVars, vars, diskVars, codecVars, numericVars>>
       \/ /\ focus = "codec" /\ CodecNext
          /\ UNCHANGED <<logicalVars, physicalVars, vars, diskVars, heapVars, numericVars>>
       \/ /\ focus = "numeric" /\ NumericNext
          /\ UNCHANGED <<logicalVars, physicalVars, vars, diskVars, heapVars, codecVars>>
    /\ UNCHANGED focus

\* The type invariant of each part.
PersistenceTypeOK ==
    /\ focus = "logical" => LogicalTypeOK
    /\ focus = "physical" => PhysicalTypeOK /\ SegmentsBounded
    /\ focus = "buffer" => TypeOK
    /\ focus = "disk" => DiskTypeOK

\* Of behaviours about the codec: the files it wrote read back.
CodecReadsBack == focus = "codec" => FilesReadBack

\* Of behaviours about arithmetic: every result is exact and reads back.
ArithmeticIsExact == focus = "numeric" => NumericIsExact

PersistenceSpec == PersistenceInit /\ [][PersistenceNext]_persistenceVars
=============================================================================
