------------------------------ MODULE TableOps ------------------------------
(***************************************************************************)
(* The in-memory table of crates/engine/src/storage.rs and its secondary   *)
(* indexes of crates/engine/src/index.rs, as operators on table records:   *)
(* rows with stable row ids, the id-to-position map, B-tree, hash, BRIN    *)
(* and GIN indexes (several columns, an expression, a partial predicate),  *)
(* the TOAST side store for long texts, and the heap page accounting.      *)
(*                                                                         *)
(* A cell is <<kind, n>>: NULL, a text, or the pointer text that stands    *)
(* for a value in the side store.  Texts are numbered in collation order;  *)
(* LongTexts exceed TOAST_THRESHOLD_BYTES.  Positions count from 1.        *)
(***************************************************************************)
EXTENDS Integers, Sequences, SequencesExt, FiniteSetsExt, BagsExt

CONSTANTS
    LongTexts,      \* the texts that are longer than TOAST_THRESHOLD_BYTES
    Elements,       \* Elements[n]: the elements of text n read as an array
    PageSize,       \* DEFAULT_PAGE_SIZE, in units of a short value
    BrinSize        \* BRIN_RANGE_SIZE

Null == <<"null", 0>>
Text(n) == <<"text", n>>
Pointer(id) == <<"pointer", id>>

IsLong(c) == c[1] = "text" /\ c[2] \in LongTexts

-----------------------------------------------------------------------------
(***************************************************************************)
(* Keys and index entries                                                  *)
(***************************************************************************)

\* IndexKey::cmp_value for texts and NULL: NULL last, and a pointer, which
\* starts with a control character, before every other text.
TypeRank(c) == CASE c[1] = "pointer" -> 0 [] c[1] = "text" -> 1 [] OTHER -> 2

Less(a, b) ==
    \/ TypeRank(a) < TypeRank(b)
    \/ TypeRank(a) = TypeRank(b) /\ a[2] < b[2]

KeyHasNull(key) == \E i \in DOMAIN key : key[i] = Null

\* The expression of an expression index: some function of one column that
\* maps two texts to the same result, such as lower().
ExprValue(c) == IF c[1] = "text" THEN Text(c[2] \div 2) ELSE c

\* gin_tokens: the distinct elements of an array text; a pointer is no array
\* literal and is one token.
GinTokens(c) ==
    CASE c[1] = "text" -> {Text(e) : e \in Elements[c[2]]}
      [] c[1] = "pointer" -> {c}
      [] OTHER -> {}

IsOrdered(method) == method \in {"btree", "gist", "spgist"}

\* What an index stores for row id under key.  A B-tree keeps the key; a hash
\* index keeps no key with a NULL; BRIN keeps (id, first value) as a member of
\* the id's block; GIN files the id under each element, and under <<>> in the
\* list of all its rows.
Entries(method, key, id) ==
    CASE IsOrdered(method) -> {<<key, id>>}
      [] method = "hash"   -> IF KeyHasNull(key) THEN {} ELSE {<<key, id>>}
      [] method = "brin"   -> {<<<<key[1]>>, id>>}
      [] method = "gin"    -> {<<<<>>, id>>} \cup {<<<<e>>, id>> : e \in GinTokens(key[1])}

\* Index::insert.
IndexInsert(idx, key, id) ==
    [idx EXCEPT !.store = @ (+) SetToBag(Entries(idx.method, key, id))]

\* Index::remove takes away one occurrence of each entry; BRIN finds the
\* member of the block by its row id alone.
IndexRemove(idx, key, id) ==
    LET mine == {e \in BagToSet(idx.store) : e[2] = id}
        gone == IF idx.method # "brin" THEN Entries(idx.method, key, id)
                ELSE IF mine = {} THEN {} ELSE {CHOOSE e \in mine : TRUE}
    IN  [idx EXCEPT !.store = @ (-) SetToBag(gone)]

-----------------------------------------------------------------------------
(***************************************************************************)
(* Lookups                                                                 *)
(***************************************************************************)

\* A bound is <<>> (open) or <<cell, inclusive>>.
AboveLow(c, lo) == lo = <<>> \/ Less(lo[1], c) \/ (lo[2] /\ c = lo[1])
BelowHigh(c, hi) == hi = <<>> \/ Less(c, hi[1]) \/ (hi[2] /\ c = hi[1])

BrinBlock(id) == id \div BrinSize

\* The non-NULL member values of the block of row id.
BlockValues(idx, id) ==
    {e[1][1] : e \in {f \in BagToSet(idx.store) :
                        BrinBlock(f[2]) = BrinBlock(id) /\ f[1][1] # Null}}

\* MUTANT of BrinRangeOverlaps: the bounds are taken as exclusive.
BrinStrictOverlap(values, lo, hi) ==
    /\ lo = <<>> \/ \E v \in values : Less(lo[1], v)
    /\ hi = <<>> \/ \E v \in values : Less(v, hi[1])

\* brin_range_overlaps, on the summary [min, max] of the values of a block.
BrinRangeOverlaps(values, lo, hi) ==
    /\ \E v \in values : AboveLow(v, lo)
    /\ \E v \in values : BelowHigh(v, hi)

\* BTreeMap::range does not accept a start behind the end, nor two equal
\* excluded bounds; an open end stands for "before NULL".
RangePanics(idx, lo, hi) ==
    LET end == IF hi = <<>> THEN <<Null, FALSE>> ELSE hi
    IN  /\ IsOrdered(idx.method) /\ BagToSet(idx.store) # {} /\ lo # <<>>
        /\ \/ Less(end[1], lo[1])
           \/ lo[1] = end[1] /\ ~lo[2] /\ ~end[2]

\* Index::lookup_range.
LookupRange(idx, lo, hi) ==
    LET stored == BagToSet(idx.store)
    IN  CASE idx.method = "brin" ->
               {e[2] : e \in {f \in stored : /\ f[1][1] # Null
                                             /\ BrinRangeOverlaps(BlockValues(idx, f[2]), lo, hi)}}
          [] IsOrdered(idx.method) ->
               {e[2] : e \in {f \in stored : /\ f[1][1] # Null
                                             /\ AboveLow(f[1][1], lo)
                                             /\ BelowHigh(f[1][1], hi)}}
          [] OTHER -> {}

\* Index::lookup_eq.
LookupEq(idx, key) ==
    LET stored == BagToSet(idx.store)
    IN  CASE idx.method = "gin" -> {e[2] : e \in {f \in stored : f[1] = <<>>}}
          [] idx.method = "brin" -> IF key[1] = Null THEN {}
                                    ELSE LookupRange(idx, <<key[1], TRUE>>, <<key[1], TRUE>>)
          [] idx.method = "hash" /\ KeyHasNull(key) -> {}
          [] OTHER -> {e[2] : e \in {f \in stored : f[1] = key}}

\* Index::lookup_prefix, on an ordered index.
LookupPrefix(idx, prefix) ==
    {e[2] : e \in {f \in BagToSet(idx.store) :
                     IsOrdered(idx.method) /\ IsPrefix(prefix, f[1])}}

\* Index::lookup_gin_contains: the intersection of the posting lists.
LookupGinContains(idx, needles) ==
    {e[2] : e \in {f \in BagToSet(idx.store) :
                     /\ f[1] = <<>>
                     /\ \A n \in needles : <<<<Text(n)>>, f[2]>> \in BagToSet(idx.store)}}

-----------------------------------------------------------------------------
(***************************************************************************)
(* Tables                                                                  *)
(***************************************************************************)

\* Table::new: no rows, no indexes.  A column is a record with at least a
\* name.
NewTable(cols) ==
    [cols |-> cols, rows |-> <<>>, ids |-> <<>>, pos |-> <<>>, nextId |-> 0,
     indexes |-> <<>>, uniques |-> <<>>, toast |-> <<>>, nextToast |-> 0,
     pages |-> <<>>, rowPage |-> <<>>, rowBytes |-> <<>>]

ColumnIndex(t, name) == SelectInSeq(t.cols, LAMBDA c : c.name = name)

\* index_key: no key when the expression cannot be evaluated, because its
\* column is gone or renamed.
IndexKeys(t, idx, row) ==
    IF idx.expr = "" THEN {[i \in DOMAIN idx.cols |-> row[idx.cols[i]]]}
    ELSE {<<ExprValue(row[c])>> : c \in {ColumnIndex(t, idx.expr)} \ {0}}

\* row_qualifies: the partial predicate "column >= text"; a predicate that
\* cannot be evaluated is not satisfied.
RowQualifies(t, idx, row) ==
    idx.pred # <<>> =>
        \E c \in {ColumnIndex(t, idx.pred[1])} \ {0} :
            row[c] # Null /\ ~Less(row[c], Text(idx.pred[2]))

\* index_row.
IndexRow(t, row, id) ==
    [t EXCEPT !.indexes = [i \in DOMAIN @ |->
        LET keys == IndexKeys(t, @[i], row)
        IN  IF RowQualifies(t, @[i], row) /\ keys # {}
            THEN IndexInsert(@[i], CHOOSE k \in keys : TRUE, id) ELSE @[i]]]

\* unindex_row.
UnindexRow(t, row, id) ==
    [t EXCEPT !.indexes = [i \in DOMAIN @ |->
        LET keys == IndexKeys(t, @[i], row)
        IN  IF RowQualifies(t, @[i], row) /\ keys # {}
            THEN IndexRemove(@[i], CHOOSE k \in keys : TRUE, id) ELSE @[i]]]

-----------------------------------------------------------------------------
(***************************************************************************)
(* TOAST                                                                   *)
(***************************************************************************)

LongCells(row) == {c \in DOMAIN row : IsLong(row[c])}

\* The chunk id that toast_row gives to the long cell c of row.
ChunkId(t, row, c) == t.nextToast + Cardinality({d \in LongCells(row) : d < c})

ToastedRow(t, row) ==
    [c \in DOMAIN row |-> IF IsLong(row[c]) THEN Pointer(ChunkId(t, row, c)) ELSE row[c]]

\* MUTANT of ToastRow: the chunk counter does not advance.
ReusesChunkId(t, row) ==
    [t EXCEPT !.toast = [id \in {ChunkId(t, row, c) : c \in LongCells(row)} |->
                            row[CHOOSE c \in LongCells(row) : ChunkId(t, row, c) = id]] @@ @]

\* toast_row: what it does to the table.
ToastRow(t, row) ==
    [t EXCEPT !.nextToast = @ + Cardinality(LongCells(row)),
              !.toast = [id \in {ChunkId(t, row, c) : c \in LongCells(row)} |->
                            row[CHOOSE c \in LongCells(row) : ChunkId(t, row, c) = id]] @@ @]

PointersOf(row) == {row[c][2] : c \in {d \in DOMAIN row : row[d][1] = "pointer"}}

\* MUTANT of UntoastRow: the chunks of the old row stay.
KeepsChunks(t, row) == t

\* untoast_row.
UntoastRow(t, row) ==
    [t EXCEPT !.toast = RestrictDomain(@, LAMBDA id : id \notin PointersOf(row))]

\* detoast_value: a pointer without a chunk reads as the empty text.
DetoastValue(t, c) ==
    IF c[1] # "pointer" THEN c
    ELSE IF c[2] \in DOMAIN t.toast THEN t.toast[c[2]] ELSE Text(0)

DetoastRow(t, row) == [c \in DOMAIN row |-> DetoastValue(t, row[c])]

-----------------------------------------------------------------------------
(***************************************************************************)
(* Heap page accounting                                                    *)
(***************************************************************************)

\* row_storage_bytes, up to scale: a header, and a long text counts more than
\* a short value or a pointer.
RowBytes(row) ==
    1 + FoldLeft(LAMBDA sum, c : sum + (IF c = Null THEN 0 ELSE IF IsLong(c) THEN 3 ELSE 1),
                 0, row)

EmptyPage == [live |-> 0, dead |-> 0, liveBytes |-> 0, deadBytes |-> 0]

\* can_fit; free_bytes saturates at zero.
CanFit(page, bytes) == bytes <= Max({0, PageSize - (page.liveBytes + page.deadBytes)})

\* page_for and assign_live_storage: the first page with room, or a new one.
AssignLiveStorage(t, id, bytes) ==
    LET fit == SelectInSeq(t.pages, LAMBDA p : CanFit(p, bytes))
        no == IF fit = 0 THEN Len(t.pages) + 1 ELSE fit
        pages == IF fit = 0 THEN Append(t.pages, EmptyPage) ELSE t.pages
    IN  [t EXCEPT !.pages = [pages EXCEPT ![no].live = @ + 1, ![no].liveBytes = @ + bytes],
                  !.rowPage = (id :> no) @@ @,
                  !.rowBytes = (id :> bytes) @@ @]

\* mark_dead_storage.
MarkDeadStorage(t, id) ==
    IF id \notin DOMAIN t.rowPage THEN t
    ELSE LET no == t.rowPage[id]
             bytes == t.rowBytes[id]
         IN  [t EXCEPT !.pages[no] = [live |-> Max({0, @.live - 1}), dead |-> @.dead + 1,
                                      liveBytes |-> Max({0, @.liveBytes - bytes}),
                                      deadBytes |-> @.deadBytes + bytes],
                       !.rowPage = RestrictDomain(@, LAMBDA i : i # id),
                       !.rowBytes = RestrictDomain(@, LAMBDA i : i # id)]

\* rebuild_live_storage: the rows are placed anew, by the size of what is in
\* the heap (a long value counts as its pointer).
RebuildLiveStorage(t) ==
    FoldLeftDomain(LAMBDA acc, p : AssignLiveStorage(acc, t.ids[p], RowBytes(t.rows[p])),
                   [t EXCEPT !.pages = <<>>, !.rowPage = <<>>, !.rowBytes = <<>>],
                   t.rows)

\* vacuum_storage; the counters it reports are left out.
VacuumStorage(t) == RebuildLiveStorage(t)

DeadRows(t) == FoldLeft(LAMBDA sum, p : sum + p.dead, 0, t.pages)
-----------------------------------------------------------------------------
(***************************************************************************)
(* Row operations                                                          *)
(***************************************************************************)

\* push_row: indexed and measured as given, then long values move out.
PushRow(t, row) ==
    LET id == t.nextId
        placed == AssignLiveStorage(IndexRow([t EXCEPT !.nextId = @ + 1], row, id),
                                    id, RowBytes(row))
    IN  [ToastRow(placed, row) EXCEPT !.rows = Append(@, ToastedRow(t, row)),
                                      !.ids = Append(@, id),
                                      !.pos = (id :> Len(t.rows) + 1) @@ @]

\* MUTANT of UpdateRow: the old key is computed from the stored row.
UnindexStored(t, p, row) ==
    LET id == t.ids[p]
        stored == t.rows[p]
        indexed == IndexRow(UnindexRow(t, stored, id), row, id)
        freed == UntoastRow(AssignLiveStorage(MarkDeadStorage(indexed, id), id, RowBytes(row)),
                            stored)
    IN  [ToastRow(freed, row) EXCEPT !.rows[p] = ToastedRow(freed, row)]

\* update_row: the row keeps its id and position.
UpdateRow(t, p, row) ==
    LET id == t.ids[p]
        stored == t.rows[p]
        indexed == IndexRow(UnindexRow(t, DetoastRow(t, stored), id), row, id)
        freed == UntoastRow(AssignLiveStorage(MarkDeadStorage(indexed, id), id, RowBytes(row)),
                            stored)
    IN  [ToastRow(freed, row) EXCEPT !.rows[p] = ToastedRow(freed, row)]

\* One dropped row: out of the indexes and the side store, dead in its page.
DropRow(t, p) ==
    MarkDeadStorage(UntoastRow(UnindexRow(t, DetoastRow(t, t.rows[p]), t.ids[p]), t.rows[p]),
                    t.ids[p])

\* The position map, rebuilt from the compacted ids.
Positions(t, ids) == [id \in ToSet(ids) |-> CHOOSE p \in DOMAIN ids : ids[p] = id]

\* delete_rows: the dropped rows, then the survivors are compacted.
DeleteRows(t, positions) ==
    LET dropped == FoldSet(LAMBDA p, acc : DropRow(acc, p), t, positions)
        kept == SelectSeq([p \in DOMAIN t.rows |-> p], LAMBDA p : p \notin positions)
        ids == [k \in DOMAIN kept |-> t.ids[kept[k]]]
    IN  [dropped EXCEPT !.rows = [k \in DOMAIN kept |-> t.rows[kept[k]]],
                        !.ids = ids,
                        !.pos = Positions(t, ids)]

\* truncate: the row and chunk counters go on.
Truncate(t) ==
    [t EXCEPT !.rows = <<>>, !.ids = <<>>, !.pos = <<>>, !.toast = <<>>,
              !.pages = <<>>, !.rowPage = <<>>, !.rowBytes = <<>>,
              !.indexes = [i \in DOMAIN @ |-> [@[i] EXCEPT !.store = EmptyBag]]]

-----------------------------------------------------------------------------
(***************************************************************************)
(* Columns and indexes                                                     *)
(***************************************************************************)

\* add_column: the filling is stored as it is; the pages are rewritten.
AddColumn(t, col, fill) ==
    RebuildLiveStorage([t EXCEPT !.cols = Append(@, col),
                                 !.rows = [p \in DOMAIN @ |-> Append(@[p], fill[p])]])

\* Column numbers behind the dropped column c move down.
Shifted(cols, c) == [i \in DOMAIN cols |-> IF cols[i] > c THEN cols[i] - 1 ELSE cols[i]]

\* drop_column: indexes and unique constraints on the column go; one that
\* only names it in an expression or a predicate stays.
DropColumn(t, c) ==
    LET keeps(x) == c \notin ToSet(x.cols)
        indexes == SelectSeq(t.indexes, keeps)
        uniques == SelectSeq(t.uniques, keeps)
    IN  RebuildLiveStorage(
            [t EXCEPT !.cols = RemoveAt(@, c),
                      !.rows = [p \in DOMAIN @ |-> RemoveAt(@[p], c)],
                      !.indexes = [i \in DOMAIN indexes |->
                                      [indexes[i] EXCEPT !.cols = Shifted(@, c)]],
                      !.uniques = [i \in DOMAIN uniques |->
                                      [uniques[i] EXCEPT !.cols = Shifted(@, c)]]])

\* An index before it is populated: Index::new_multi.
NewIndex(name, cols, expr, pred, unique, method) ==
    [name |-> name, cols |-> cols, expr |-> expr, pred |-> pred, unique |-> unique,
     method |-> method, store |-> EmptyBag]

\* add_and_populate_index: the keys are read from the rows as stored.
AddAndPopulateIndex(t, idx) ==
    LET filled == FoldLeftDomain(
            LAMBDA acc, p :
                LET keys == IndexKeys(t, idx, t.rows[p])
                IN  IF RowQualifies(t, idx, t.rows[p]) /\ keys # {}
                    THEN IndexInsert(acc, CHOOSE k \in keys : TRUE, t.ids[p]) ELSE acc,
            idx, t.rows)
    IN  [t EXCEPT !.indexes = Append(@, filled)]

\* remove_index.
RemoveIndex(t, name) ==
    [t EXCEPT !.indexes = RemoveFirstMatch(@, LAMBDA i : i.name = name)]

\* ids_to_positions.
IdsToPositions(t, ids) == {t.pos[id] : id \in ids \cap DOMAIN t.pos}

-----------------------------------------------------------------------------
(***************************************************************************)
(* Unique checks                                                           *)
(***************************************************************************)

\* unique_key_is_null and same_unique_key.
SameUniqueKey(a, b, cols) == \A i \in DOMAIN cols : a[cols[i]] = b[cols[i]]
UniqueKeyIsNull(row, cols) == \E i \in DOMAIN cols : row[cols[i]] = Null

\* A unique index is asked for the value of its leading column, by full key.
IndexConflict(t, idx, row, exclude) ==
    /\ idx.unique /\ idx.cols # <<>> /\ row[idx.cols[1]] # Null
    /\ IdsToPositions(t, LookupEq(idx, <<row[idx.cols[1]]>>)) \ exclude # {}

\* A constraint over several columns is compared with the rows as stored.
ConstraintConflict(t, cols, row, exclude) ==
    /\ ~UniqueKeyIsNull(row, cols)
    /\ \E p \in DOMAIN t.rows \ exclude : SameUniqueKey(t.rows[p], row, cols)

\* unique_violation; exclude is {} or the position of the row being updated.
UniqueViolation(t, row, exclude) ==
    \/ \E i \in DOMAIN t.indexes : IndexConflict(t, t.indexes[i], row, exclude)
    \/ \E u \in DOMAIN t.uniques : ConstraintConflict(t, t.uniques[u].cols, row, exclude)

\* columns_have_duplicate_values, on the rows as stored.
HaveDuplicateValues(t, cols) ==
    \E p, q \in DOMAIN t.rows :
        /\ p # q /\ ~UniqueKeyIsNull(t.rows[p], cols)
        /\ SameUniqueKey(t.rows[p], t.rows[q], cols)
=============================================================================
