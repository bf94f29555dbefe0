------------------------------ MODULE HeapPages ------------------------------
(***************************************************************************)
(* Slotted pages and the heap file made of them: crates/engine/src/disk    *)
(* page.rs and heap.rs, with append_via_buffer of mod.rs.                  *)
(*                                                                         *)
(* A page is kept as the code keeps it, with its header, its line pointers *)
(* and its tuples; what is read is always what to_bytes wrote and          *)
(* from_bytes reads.  Positions count from 1 in sequences and bytes of a   *)
(* page from 0.  The checksum is left out: no byte of a written page       *)
(* changes here, and DiskStore has the pages that a crash cuts.            *)
(***************************************************************************)
EXTENDS Integers, Sequences

CONSTANTS
    PAGE_SIZE,      \* bytes of a page
    Tuples,         \* the tuples in use
    MaxHeapPages    \* bound on the pages of the file

HEADER_SIZE == 24
ITEM_ID_SIZE == 4
Byte == 0..255

\* Offsets and lengths are 16 bits wide; encode_row starts each tuple with a
\* count, so no tuple is empty.
ASSUME HeapAssumption ==
    /\ PAGE_SIZE \in Nat /\ HEADER_SIZE <= PAGE_SIZE /\ PAGE_SIZE < 65536
    /\ Tuples \subseteq Seq(Byte) \ {<<>>}
    /\ MaxHeapPages \in Nat

VARIABLES
    pages,          \* the pages of the file
    stored          \* history: stored[n][slot], the tuple appended there, <<>>
                    \* once it was deleted

heapVars == <<pages, stored>>

-----------------------------------------------------------------------------
(* Page *)

Dead == [offset |-> 0, length |-> 0]

EmptyPage == [lower |-> HEADER_SIZE, upper |-> PAGE_SIZE, ids |-> <<>>, tuples |-> <<>>]

free_space(p) == IF p.upper >= p.lower THEN p.upper - p.lower ELSE 0

\* MUTANT of can_fit: the line pointer takes no room.
can_fit_data(p, len) == free_space(p) >= len

can_fit(p, len) == free_space(p) >= len + ITEM_ID_SIZE

\* insert_tuple, of a tuple that fits.
insert_tuple(p, data) ==
    LET offset == p.upper - Len(data)
    IN  [lower |-> p.lower + ITEM_ID_SIZE, upper |-> offset,
         ids |-> Append(p.ids, [offset |-> offset, length |-> Len(data)]),
         tuples |-> Append(p.tuples, data)]

is_live(p, slot) == slot \in DOMAIN p.ids /\ p.ids[slot].length # 0

\* The tuple of a slot, or <<>> where there is none.
get_tuple(p, slot) == IF is_live(p, slot) THEN p.tuples[slot] ELSE <<>>

\* The slot stays, so that the later ones keep their numbers; its bytes are
\* not given back.
delete_tuple(p, slot) ==
    [p EXCEPT !.ids[slot] = Dead, !.tuples[slot] = <<>>]

\* The line pointers are written first and then the tuples, over whatever is
\* there: of two that claim a byte the later one gets it.
Covers(id, b) == id.offset <= b /\ b < id.offset + id.length

PointerByte(id, k) ==
    CASE k = 0 -> id.offset % 256
      [] k = 1 -> id.offset \div 256
      [] k = 2 -> id.length % 256
      [] k = 3 -> id.length \div 256

Claims(p, b) == {i \in DOMAIN p.ids : Covers(p.ids[i], b)}
Owner(p, b) == CHOOSE i \in Claims(p, b) : \A j \in Claims(p, b) : j <= i

PointersByte(p, b) ==
    LET nth == (b - HEADER_SIZE) \div ITEM_ID_SIZE
    IN  IF nth < Len(p.ids) THEN PointerByte(p.ids[nth + 1], (b - HEADER_SIZE) % ITEM_ID_SIZE)
        ELSE 0

BodyByte(p, b) ==
    IF Claims(p, b) = {} THEN PointersByte(p, b)
    ELSE p.tuples[Owner(p, b)][b - p.ids[Owner(p, b)].offset + 1]

to_bytes(p) ==
    [lower |-> p.lower, upper |-> p.upper, slots |-> Len(p.ids),
     body |-> [b \in HEADER_SIZE..(PAGE_SIZE - 1) |-> BodyByte(p, b)]]

Malformed == [lower |-> 0, upper |-> 0, ids |-> <<>>, tuples |-> <<>>]

\* The line pointer of a slot; a length of 0 is a dead slot whatever its offset.
ReadId(image, slot) ==
    LET base == HEADER_SIZE + (slot - 1) * ITEM_ID_SIZE
        length == image.body[base + 2] + 256 * image.body[base + 3]
    IN  IF length = 0 THEN Dead
        ELSE [offset |-> image.body[base] + 256 * image.body[base + 1], length |-> length]

InPage(id) == id = Dead \/ (HEADER_SIZE <= id.offset /\ id.offset + id.length <= PAGE_SIZE)

ReadTuple(image, id) == [k \in 1..id.length |-> image.body[id.offset + k - 1]]

from_bytes(image) ==
    LET id(slot) == ReadId(image, slot)
    IN  IF /\ HEADER_SIZE + image.slots * ITEM_ID_SIZE <= PAGE_SIZE
           /\ \A slot \in 1..image.slots : InPage(id(slot))
        THEN [lower |-> image.lower, upper |-> image.upper,
              ids |-> [slot \in 1..image.slots |-> id(slot)],
              tuples |-> [slot \in 1..image.slots |-> ReadTuple(image, id(slot))]]
        ELSE Malformed

-----------------------------------------------------------------------------
(* Heap *)

HeapInit == pages = <<>> /\ stored = <<>>

read_page(n) == from_bytes(to_bytes(pages[n]))

FitsTail(data) == pages # <<>> /\ can_fit(read_page(Len(pages)), Len(data))

\* append_tuple, and append_via_buffer: into the last page, if there is room.
AppendToTail(data) ==
    LET last == Len(pages)
    IN  /\ FitsTail(data)
        /\ pages' = [pages EXCEPT ![last] = insert_tuple(read_page(last), data)]
        /\ stored' = [stored EXCEPT ![last] = Append(@, data)]

\* Otherwise into a fresh page.
AppendToNewPage(data) ==
    /\ ~FitsTail(data) /\ Len(pages) < MaxHeapPages /\ can_fit(EmptyPage, Len(data))
    /\ pages' = Append(pages, insert_tuple(EmptyPage, data))
    /\ stored' = Append(stored, <<data>>)

\* A tuple larger than a page: append_via_buffer has allocated a page by then.
\* (append_tuple returns the error without a change.)
AppendTooLarge(data) ==
    /\ ~FitsTail(data) /\ Len(pages) < MaxHeapPages /\ ~can_fit(EmptyPage, Len(data))
    /\ pages' = Append(pages, EmptyPage)
    /\ stored' = Append(stored, <<>>)

DeleteTuple(n, slot) ==
    /\ is_live(read_page(n), slot)
    /\ pages' = [pages EXCEPT ![n] = delete_tuple(read_page(n), slot)]
    /\ stored' = [stored EXCEPT ![n] = [@ EXCEPT ![slot] = <<>>]]

HeapNext ==
    \/ \E data \in Tuples :
          AppendToTail(data) \/ AppendToNewPage(data) \/ AppendTooLarge(data)
    \/ \E n \in DOMAIN pages : \E slot \in DOMAIN pages[n].ids : DeleteTuple(n, slot)

HeapSpec == HeapInit /\ [][HeapNext]_heapVars

-----------------------------------------------------------------------------
(* Properties *)

\* A heap that is read back holds at every address the tuple that was appended
\* there, or none once it was deleted, and at no other address a tuple: tuples
\* and line pointers grow towards each other and never overwrite each other,
\* and slots keep their numbers (page.rs, heap.rs: addresses are "stable across
\* reopens").
HeapIsTheTuples ==
    /\ Len(pages) = Len(stored)
    /\ \A n \in DOMAIN pages :
          /\ DOMAIN read_page(n).ids = DOMAIN stored[n]
          /\ \A slot \in DOMAIN stored[n] : get_tuple(read_page(n), slot) = stored[n][slot]
=============================================================================
