--------------------------- MODULE HeapPagesProofs ---------------------------
(***************************************************************************)
(* Proofs about HeapPages, for every page size, set of tuples and length   *)
(* of the file.                                                            *)
(*                                                                         *)
(* The invariant is the geometry of a slotted page: the line pointers fill *)
(* the page from the header up to lower, the live tuples lie between upper *)
(* and the end of the page, and each one lies below those of the earlier   *)
(* slots, so that no two share a byte and none touches a line pointer.     *)
(* A page of that shape is what from_bytes reads from what to_bytes wrote. *)
(***************************************************************************)
EXTENDS HeapPages, SequenceTheorems, TLAPS

ItemId == [offset : Nat, length : Nat]
Page == [lower : Nat, upper : Nat, ids : Seq(ItemId), tuples : Seq(Seq(Byte))]

Live(p, i) == p.ids[i].length # 0

\* A dead slot has no tuple; a live one lies between upper and the end of the
\* page and is as long as its tuple.
SlotFits(p, i) ==
    IF Live(p, i)
    THEN /\ p.upper <= p.ids[i].offset
         /\ p.ids[i].offset + p.ids[i].length <= PAGE_SIZE
         /\ Len(p.tuples[i]) = p.ids[i].length
    ELSE p.ids[i] = Dead /\ p.tuples[i] = <<>>

WellFormed(p) ==
    /\ p \in Page
    /\ Len(p.ids) = Len(p.tuples)
    /\ p.lower = HEADER_SIZE + ITEM_ID_SIZE * Len(p.ids)
    /\ p.lower <= p.upper /\ p.upper <= PAGE_SIZE
    /\ \A i \in 1..Len(p.ids) : SlotFits(p, i)
    /\ \A i, j \in 1..Len(p.ids) :
          i < j /\ Live(p, i) /\ Live(p, j) =>
             p.ids[j].offset + p.ids[j].length <= p.ids[i].offset

HeapInv ==
    /\ pages \in Seq(Page) /\ stored \in Seq(Seq(Seq(Byte)))
    /\ Len(pages) = Len(stored)
    /\ \A n \in 1..Len(pages) : WellFormed(pages[n]) /\ pages[n].tuples = stored[n]

-----------------------------------------------------------------------------
LEMMA PageSize == PAGE_SIZE \in Nat
  BY HeapAssumption

\* What the shape says of the parts of a page.
LEMMA ShapeFacts ==
    ASSUME NEW p, WellFormed(p)
    PROVE  /\ p.lower \in Nat /\ p.upper \in Nat /\ Len(p.ids) \in Nat
           /\ p.ids \in Seq(ItemId) /\ p.tuples \in Seq(Seq(Byte))
           /\ DOMAIN p.ids = 1..Len(p.ids) /\ Len(p.tuples) = Len(p.ids)
           /\ p = [lower |-> p.lower, upper |-> p.upper, ids |-> p.ids, tuples |-> p.tuples]
           /\ 24 <= p.lower /\ p.lower = 24 + 4 * Len(p.ids)
           /\ p.lower <= p.upper /\ p.upper <= PAGE_SIZE
  <1>1. p \in Page
    BY DEF WellFormed
  <1>2. /\ p.lower \in Nat /\ p.upper \in Nat
        /\ p.ids \in Seq(ItemId) /\ p.tuples \in Seq(Seq(Byte))
        /\ p = [lower |-> p.lower, upper |-> p.upper, ids |-> p.ids, tuples |-> p.tuples]
    BY <1>1 DEF Page
  <1>3. Len(p.ids) \in Nat /\ DOMAIN p.ids = 1..Len(p.ids)
    BY <1>2
  <1>4. /\ Len(p.tuples) = Len(p.ids) /\ p.lower = 24 + 4 * Len(p.ids)
        /\ p.lower <= p.upper /\ p.upper <= PAGE_SIZE
    BY DEF WellFormed, HEADER_SIZE, ITEM_ID_SIZE
  <1> QED
    BY <1>2, <1>3, <1>4

\* What the shape says of a slot.
LEMMA SlotFacts ==
    ASSUME NEW p, WellFormed(p), NEW i \in 1..Len(p.ids)
    PROVE  /\ p.ids[i] \in ItemId /\ p.ids[i].offset \in Nat /\ p.ids[i].length \in Nat
           /\ p.tuples[i] \in Seq(Byte)
           /\ SlotFits(p, i)
  <1>1. /\ p.ids \in Seq(ItemId) /\ p.tuples \in Seq(Seq(Byte))
        /\ Len(p.tuples) = Len(p.ids) /\ Len(p.ids) \in Nat
    BY ShapeFacts
  <1>2. p.ids[i] \in ItemId /\ p.tuples[i] \in Seq(Byte)
    BY <1>1
  <1>3. SlotFits(p, i)
    BY DEF WellFormed
  <1> QED
    BY <1>2, <1>3 DEF ItemId

\* Of two live tuples, that of the later slot ends before the other one starts.
LEMMA LaterLiesBelow ==
    ASSUME NEW p, WellFormed(p), NEW i \in 1..Len(p.ids), NEW j \in 1..Len(p.ids),
           i < j, Live(p, i), Live(p, j)
    PROVE  p.ids[j].offset + p.ids[j].length <= p.ids[i].offset
  BY DEF WellFormed

\* The four bytes of a line pointer are those that to_bytes wrote there: no
\* live tuple reaches down to them.
LEMMA PointerBytes ==
    ASSUME NEW p, WellFormed(p), NEW i \in 1..Len(p.ids), NEW k \in 0..3,
           NEW b, b = 24 + (i - 1) * 4 + k
    PROVE  b \in 24..(PAGE_SIZE - 1) /\ BodyByte(p, b) = PointerByte(p.ids[i], k)
  <1>1. /\ p.lower \in Nat /\ p.upper \in Nat /\ Len(p.ids) \in Nat
        /\ DOMAIN p.ids = 1..Len(p.ids)
        /\ p.lower = 24 + 4 * Len(p.ids) /\ p.lower <= p.upper /\ p.upper <= PAGE_SIZE
    BY ShapeFacts
  <1>2. b \in Int /\ b >= 24 /\ b < p.lower
    BY <1>1
  <1>3. (b - 24) \div 4 = i - 1 /\ (b - 24) % 4 = k
    BY <1>1
  <1>4. ASSUME NEW j \in 1..Len(p.ids), Covers(p.ids[j], b) PROVE FALSE
    <2>1. p.ids[j].offset \in Nat /\ p.ids[j].length \in Nat /\ SlotFits(p, j)
      BY SlotFacts
    <2> QED
      BY <1>1, <1>2, <1>4, <2>1 DEF Covers, SlotFits, Live, Dead
  <1>5. Claims(p, b) = {}
    BY <1>1, <1>4 DEF Claims
  <1>6. PointersByte(p, b) = PointerByte(p.ids[i], k)
    <2>1. i - 1 < Len(p.ids) /\ i - 1 + 1 = i
      BY <1>1
    <2> QED
      BY <1>3, <2>1 DEF PointersByte, HEADER_SIZE, ITEM_ID_SIZE
  <1> QED
    BY <1>1, <1>2, <1>5, <1>6, PageSize DEF BodyByte

\* A byte inside a live tuple is that tuple's: no other tuple claims it.
LEMMA TupleBytes ==
    ASSUME NEW p, WellFormed(p), NEW i \in 1..Len(p.ids), Live(p, i),
           NEW k \in 1..p.ids[i].length, NEW b, b = p.ids[i].offset + k - 1
    PROVE  b \in 24..(PAGE_SIZE - 1) /\ BodyByte(p, b) = p.tuples[i][k]
  <1>1. /\ p.lower \in Nat /\ p.upper \in Nat /\ Len(p.ids) \in Nat
        /\ DOMAIN p.ids = 1..Len(p.ids)
        /\ 24 <= p.lower /\ p.lower <= p.upper /\ p.upper <= PAGE_SIZE
    BY ShapeFacts
  <1>2. PICK off \in Nat, len \in Nat : p.ids[i].offset = off /\ p.ids[i].length = len
    BY SlotFacts
  <1>3. off + len <= PAGE_SIZE /\ p.upper <= off
    BY <1>2, SlotFacts DEF SlotFits
  <1>4. k \in 1..len /\ b = off + k - 1
    BY <1>2
  <1>5. b \in 24..(PAGE_SIZE - 1) /\ off <= b /\ b < off + len
    BY <1>1, <1>3, <1>4, PageSize
  <1>6. ASSUME NEW j \in 1..Len(p.ids), j # i, Covers(p.ids[j], b) PROVE FALSE
    <2>1. PICK off2 \in Nat, len2 \in Nat : p.ids[j].offset = off2 /\ p.ids[j].length = len2
      BY SlotFacts
    <2>2. off2 <= b /\ b < off2 + len2
      BY <1>6, <2>1 DEF Covers
    <2>3. len2 # 0
      BY <1>5, <2>2
    <2>4. off2 + len2 <= off \/ off + len <= off2
      <3>1. i < j \/ j < i
        BY <1>1, <1>6
      <3>2. Live(p, j)
        BY <2>1, <2>3 DEF Live
      <3>3. CASE i < j
        BY <1>2, <2>1, <3>2, <3>3, LaterLiesBelow
      <3>4. CASE j < i
        BY <1>2, <2>1, <3>2, <3>4, LaterLiesBelow
      <3> QED
        BY <3>1, <3>3, <3>4
    <2> QED
      BY <1>5, <2>2, <2>4
  <1>7. Claims(p, b) = {i}
    BY <1>1, <1>2, <1>5, <1>6 DEF Claims, Covers
  <1>8. Owner(p, b) = i
    BY <1>1, <1>7 DEF Owner
  <1>9. BodyByte(p, b) = p.tuples[i][b - p.ids[i].offset + 1]
    BY <1>7, <1>8 DEF BodyByte
  <1>10. b - p.ids[i].offset + 1 = k
    BY <1>2, <1>4
  <1> QED
    BY <1>5, <1>9, <1>10

\* Reading a line pointer back gives the line pointer.
LEMMA ReadsId ==
    ASSUME NEW p, WellFormed(p), NEW i \in 1..Len(p.ids)
    PROVE  ReadId(to_bytes(p), i) = p.ids[i]
  <1>1. PICK body : body = to_bytes(p).body
    OBVIOUS
  <1>2. \A b \in 24..(PAGE_SIZE - 1) : body[b] = BodyByte(p, b)
    BY <1>1 DEF to_bytes, HEADER_SIZE
  <1>3. PICK base \in Int : base = 24 + (i - 1) * 4
    BY ShapeFacts
  <1>4. ASSUME NEW k \in 0..3 PROVE body[base + k] = PointerByte(p.ids[i], k)
    <2>1. PICK b : b = 24 + (i - 1) * 4 + k
      OBVIOUS
    <2>2. b \in 24..(PAGE_SIZE - 1) /\ BodyByte(p, b) = PointerByte(p.ids[i], k)
      BY <2>1, PointerBytes
    <2>3. base + k = b
      BY <1>3, <2>1, ShapeFacts
    <2> QED
      BY <1>2, <2>2, <2>3
  <1>5. PICK off \in Nat, len \in Nat : p.ids[i] = [offset |-> off, length |-> len]
    BY SlotFacts DEF ItemId
  <1>6. /\ body[base] = off % 256 /\ body[base + 1] = off \div 256
        /\ body[base + 2] = len % 256 /\ body[base + 3] = len \div 256
    <2>1. base + 0 = base
      OBVIOUS
    <2>2. /\ PointerByte(p.ids[i], 0) = off % 256 /\ PointerByte(p.ids[i], 1) = off \div 256
          /\ PointerByte(p.ids[i], 2) = len % 256 /\ PointerByte(p.ids[i], 3) = len \div 256
      BY <1>5 DEF PointerByte
    <2> QED
      BY <1>4, <2>1, <2>2
  <1>7. (off % 256) + 256 * (off \div 256) = off /\ (len % 256) + 256 * (len \div 256) = len
    OBVIOUS
  <1>8. len = 0 => p.ids[i] = Dead
    <2>1. SlotFits(p, i) /\ p.ids[i].length = len
      BY <1>5, SlotFacts
    <2> QED
      BY <2>1 DEF SlotFits, Live
  <1>9. ReadId(to_bytes(p), i) =
          IF body[base + 2] + 256 * body[base + 3] = 0 THEN Dead
          ELSE [offset |-> body[base] + 256 * body[base + 1],
                length |-> body[base + 2] + 256 * body[base + 3]]
    BY <1>1, <1>3, Zenon DEF ReadId, HEADER_SIZE, ITEM_ID_SIZE
  <1> QED
    BY <1>5, <1>6, <1>7, <1>8, <1>9

\* What to_bytes writes of a well-formed page, from_bytes reads back.
LEMMA RoundTrip ==
    ASSUME NEW p, WellFormed(p)
    PROVE  from_bytes(to_bytes(p)) = p
  <1>1. PICK image : image = to_bytes(p)
    OBVIOUS
  <1>2. image.slots = Len(p.ids) /\ image.lower = p.lower /\ image.upper = p.upper
    BY <1>1 DEF to_bytes
  <1>3. \A b \in 24..(PAGE_SIZE - 1) : image.body[b] = BodyByte(p, b)
    BY <1>1 DEF to_bytes, HEADER_SIZE
  <1>4. PICK n \in Nat : /\ Len(p.ids) = n /\ Len(p.tuples) = n
                         /\ p.lower = 24 + 4 * n /\ p.lower <= p.upper /\ p.upper <= PAGE_SIZE
    BY ShapeFacts
  <1>5. ASSUME NEW i \in 1..n PROVE ReadId(image, i) = p.ids[i]
    BY <1>1, <1>4, ReadsId
  <1>6. HEADER_SIZE + image.slots * ITEM_ID_SIZE <= PAGE_SIZE
    BY <1>2, <1>4, ShapeFacts, PageSize DEF HEADER_SIZE, ITEM_ID_SIZE
  <1>7. ASSUME NEW i \in 1..n PROVE InPage(p.ids[i])
    <2>1. PICK off \in Nat, len \in Nat : p.ids[i] = [offset |-> off, length |-> len]
      BY <1>4, SlotFacts DEF ItemId
    <2>2. SlotFits(p, i) /\ p.ids[i].offset = off /\ p.ids[i].length = len
      BY <1>4, <2>1, SlotFacts
    <2>3. CASE len # 0
      <3>1. p.upper <= off /\ off + len <= PAGE_SIZE
        BY <2>2, <2>3 DEF SlotFits, Live
      <3>2. 24 <= p.upper /\ p.upper \in Nat
        BY <1>4, ShapeFacts
      <3> QED
        BY <2>2, <3>1, <3>2 DEF InPage, HEADER_SIZE
    <2>4. CASE len = 0
      BY <2>2, <2>4 DEF SlotFits, Live, InPage
    <2> QED
      BY <2>3, <2>4
  <1>8. ASSUME NEW i \in 1..n PROVE ReadTuple(image, p.ids[i]) = p.tuples[i]
    <2>1. SlotFits(p, i) /\ p.ids[i].length \in Nat /\ p.tuples[i] \in Seq(Byte)
      BY <1>4, SlotFacts
    <2>2. CASE Live(p, i)
      <3>1. ASSUME NEW k \in 1..p.ids[i].length
            PROVE  image.body[p.ids[i].offset + k - 1] = p.tuples[i][k]
        BY <1>3, <1>4, <2>2, TupleBytes
      <3>2. p.tuples[i] = [k \in 1..p.ids[i].length |-> p.tuples[i][k]]
        <4>1. p.tuples[i] \in [1..p.ids[i].length -> Byte]
          BY <2>1, <2>2, LenProperties DEF SlotFits
        <4> QED
          BY <4>1
      <3> QED
        BY <3>1, <3>2 DEF ReadTuple
    <2>3. CASE ~Live(p, i)
      <3>1. p.ids[i].length = 0 /\ p.tuples[i] = <<>>
        BY <2>1, <2>3 DEF SlotFits, Live
      <3> QED
        BY <3>1 DEF ReadTuple
    <2> QED
      BY <2>2, <2>3
  <1>9. p.ids = [i \in 1..n |-> p.ids[i]] /\ p.tuples = [i \in 1..n |-> p.tuples[i]]
    <2>1. p.ids \in Seq(ItemId) /\ p.tuples \in Seq(Seq(Byte))
      BY ShapeFacts
    <2>2. p.ids \in [1..n -> ItemId] /\ p.tuples \in [1..n -> Seq(Byte)]
      BY <1>4, <2>1, LenProperties
    <2> QED
      BY <2>2
  <1>10. [i \in 1..image.slots |-> ReadId(image, i)] = p.ids
    BY <1>2, <1>4, <1>5, <1>9
  <1>11. [i \in 1..image.slots |-> ReadTuple(image, ReadId(image, i))] = p.tuples
    BY <1>2, <1>4, <1>5, <1>8, <1>9
  <1>12. \A i \in 1..image.slots : InPage(ReadId(image, i))
    BY <1>2, <1>4, <1>5, <1>7
  <1>13. from_bytes(image) =
            [lower |-> image.lower, upper |-> image.upper, ids |-> p.ids, tuples |-> p.tuples]
    BY <1>6, <1>10, <1>11, <1>12, Zenon DEF from_bytes
  <1> QED
    BY <1>1, <1>2, <1>13, ShapeFacts

-----------------------------------------------------------------------------
\* A tuple that can_fit accepts keeps the page well-formed: it goes right below
\* the tuples, and its line pointer right above the line pointers.
LEMMA InsertKeepsShape ==
    ASSUME NEW p, WellFormed(p), NEW data \in Tuples, can_fit(p, Len(data))
    PROVE  /\ WellFormed(insert_tuple(p, data))
           /\ insert_tuple(p, data).tuples = Append(p.tuples, data)
  <1>1. PICK n \in Nat, lower \in Nat, upper \in Nat :
           /\ p.lower = lower /\ p.upper = upper /\ Len(p.ids) = n /\ Len(p.tuples) = n
           /\ lower = 24 + 4 * n /\ lower <= upper /\ upper <= PAGE_SIZE
    BY ShapeFacts
  <1>2. p.ids \in Seq(ItemId) /\ p.tuples \in Seq(Seq(Byte))
    BY ShapeFacts
  <1>3. PICK len \in Nat : len = Len(data) /\ len > 0 /\ data \in Seq(Byte)
    BY HeapAssumption
  <1>4. len + 4 <= upper - lower
    BY <1>1, <1>3 DEF can_fit, free_space, ITEM_ID_SIZE
  <1>5. PICK off \in Nat : off = upper - len
    BY <1>1, <1>4
  <1>6. PICK id \in ItemId : id = [offset |-> off, length |-> len]
    BY DEF ItemId
  <1>7. PICK q : /\ q = insert_tuple(p, data)
                 /\ q = [lower |-> lower + 4, upper |-> off,
                         ids |-> Append(p.ids, id), tuples |-> Append(p.tuples, data)]
    BY <1>1, <1>3, <1>5, <1>6 DEF insert_tuple, ITEM_ID_SIZE
  <1>8. /\ q.lower = lower + 4 /\ q.upper = off
        /\ q.ids = Append(p.ids, id) /\ q.tuples = Append(p.tuples, data)
    BY <1>7
  <1>9. q \in Page
    <2>1. Append(p.ids, id) \in Seq(ItemId) /\ Append(p.tuples, data) \in Seq(Seq(Byte))
      BY <1>2, <1>3
    <2> QED
      BY <1>7, <2>1 DEF Page
  <1>10. /\ Len(q.ids) = n + 1 /\ Len(q.tuples) = n + 1
         /\ q.ids[n + 1] = id /\ q.tuples[n + 1] = data
    BY <1>1, <1>2, <1>3, <1>8
  <1>11. \A i \in 1..n : q.ids[i] = p.ids[i] /\ q.tuples[i] = p.tuples[i]
    BY <1>1, <1>2, <1>3, <1>8
  <1>12. off + len = upper /\ off <= upper /\ off + len <= PAGE_SIZE /\ off <= PAGE_SIZE
    BY <1>1, <1>5, PageSize
  <1>13. q.lower = HEADER_SIZE + ITEM_ID_SIZE * Len(q.ids)
    BY <1>1, <1>8, <1>10 DEF HEADER_SIZE, ITEM_ID_SIZE
  <1>14. q.lower <= q.upper /\ q.upper <= PAGE_SIZE
    BY <1>1, <1>4, <1>5, <1>8, <1>12
  <1>15. ASSUME NEW i \in 1..(n + 1) PROVE SlotFits(q, i)
    <2>1. CASE i = n + 1
      <3>1. q.ids[i].offset = off /\ q.ids[i].length = len
        BY <1>6, <1>10, <2>1
      <3>2. Len(q.tuples[i]) = len
        BY <1>3, <1>10, <2>1
      <3> QED
        BY <1>3, <1>8, <1>12, <3>1, <3>2 DEF SlotFits, Live
    <2>2. CASE i \in 1..n
      <3>1. SlotFits(p, i) /\ q.ids[i] = p.ids[i] /\ q.tuples[i] = p.tuples[i]
        BY <1>1, <1>11, <2>2, SlotFacts
      <3>2. PICK o \in Nat : p.ids[i].offset = o
        BY <1>1, <2>2, SlotFacts
      <3>3. upper <= o => q.upper <= o
        BY <1>8, <1>12
      <3> QED
        BY <1>1, <3>1, <3>2, <3>3 DEF SlotFits, Live
    <2> QED
      BY <2>1, <2>2
  <1>16. ASSUME NEW i \in 1..(n + 1), NEW j \in 1..(n + 1), i < j, Live(q, i), Live(q, j)
         PROVE  q.ids[j].offset + q.ids[j].length <= q.ids[i].offset
    <2>1. i \in 1..n
      BY <1>16
    <2>2. CASE j = n + 1
      <3>1. p.upper <= p.ids[i].offset
        <4>1. SlotFits(p, i) /\ Live(p, i)
          BY <1>1, <1>11, <1>16, <2>1, SlotFacts DEF Live
        <4> QED
          BY <4>1 DEF SlotFits
      <3>2. q.ids[j].offset + q.ids[j].length = upper
        BY <1>6, <1>10, <1>12, <2>2
      <3> QED
        BY <1>1, <1>11, <2>1, <3>1, <3>2
    <2>3. CASE j \in 1..n
      <3>1. q.ids[i] = p.ids[i] /\ q.ids[j] = p.ids[j] /\ Live(p, i) /\ Live(p, j)
        BY <1>11, <1>16, <2>1, <2>3 DEF Live
      <3> QED
        BY <1>1, <1>16, <2>1, <2>3, <3>1, LaterLiesBelow
    <2> QED
      BY <2>2, <2>3
  <1>17. WellFormed(q)
    BY <1>9, <1>10, <1>13, <1>14, <1>15, <1>16 DEF WellFormed
  <1> QED
    BY <1>7, <1>8, <1>17

\* A fresh page has the shape.
LEMMA EmptyPageShape == WellFormed(EmptyPage) /\ EmptyPage.tuples = <<>>
  BY HeapAssumption DEF WellFormed, EmptyPage, Page, HEADER_SIZE, ITEM_ID_SIZE

\* Deleting keeps the shape: the slot stays, without bytes.
LEMMA DeleteKeepsShape ==
    ASSUME NEW p, WellFormed(p), NEW slot \in 1..Len(p.ids)
    PROVE  /\ WellFormed(delete_tuple(p, slot))
           /\ delete_tuple(p, slot).tuples = [p.tuples EXCEPT ![slot] = <<>>]
  <1>1. PICK n \in Nat : Len(p.ids) = n /\ Len(p.tuples) = n
    BY ShapeFacts
  <1>2. /\ p.ids \in Seq(ItemId) /\ p.tuples \in Seq(Seq(Byte))
        /\ DOMAIN p.ids = 1..n /\ DOMAIN p.tuples = 1..n
        /\ p = [lower |-> p.lower, upper |-> p.upper, ids |-> p.ids, tuples |-> p.tuples]
        /\ p.lower \in Nat /\ p.upper \in Nat
    <2>1. p.ids \in Seq(ItemId) /\ p.tuples \in Seq(Seq(Byte))
      BY ShapeFacts
    <2> QED
      BY <1>1, <2>1, ShapeFacts
  <1>3. PICK ids, tuples : /\ ids = [p.ids EXCEPT ![slot] = Dead]
                           /\ tuples = [p.tuples EXCEPT ![slot] = <<>>]
    OBVIOUS
  <1>4. PICK q : /\ q = delete_tuple(p, slot)
                 /\ q = [lower |-> p.lower, upper |-> p.upper, ids |-> ids, tuples |-> tuples]
    <2>1. PICK l, u, d, t : l = p.lower /\ u = p.upper /\ d = p.ids /\ t = p.tuples
      OBVIOUS
    <2>2. p = [lower |-> l, upper |-> u, ids |-> d, tuples |-> t]
      BY <1>2, <2>1
    <2>3. delete_tuple(p, slot) = [p EXCEPT !.ids = ids, !.tuples = tuples]
      BY <1>2, <1>3 DEF delete_tuple
    <2> QED
      BY <2>1, <2>2, <2>3
  <1>5. Dead \in ItemId /\ Dead.length = 0 /\ <<>> \in Seq(Byte)
    BY DEF Dead, ItemId
  <1>6. ids \in Seq(ItemId) /\ Len(ids) = n /\ tuples \in Seq(Seq(Byte)) /\ Len(tuples) = n
    BY <1>1, <1>2, <1>3, <1>5
  <1>7. /\ \A i \in 1..n : i # slot => ids[i] = p.ids[i] /\ tuples[i] = p.tuples[i]
        /\ ids[slot] = Dead /\ tuples[slot] = <<>>
    BY <1>1, <1>2, <1>3
  <1>8. q.lower = p.lower /\ q.upper = p.upper /\ q.ids = ids /\ q.tuples = tuples
    BY <1>4
  <1>9. q \in Page
    BY <1>2, <1>4, <1>6 DEF Page
  <1>10. ASSUME NEW i \in 1..n PROVE SlotFits(q, i)
    <2>1. CASE i = slot
      BY <1>5, <1>7, <1>8, <2>1 DEF SlotFits, Live
    <2>2. CASE i # slot
      <3>1. SlotFits(p, i) /\ ids[i] = p.ids[i] /\ tuples[i] = p.tuples[i]
        BY <1>1, <1>7, <2>2, SlotFacts
      <3> QED
        BY <1>8, <3>1 DEF SlotFits, Live
    <2> QED
      BY <2>1, <2>2
  <1>11. ASSUME NEW i \in 1..n, NEW j \in 1..n, i < j, Live(q, i), Live(q, j)
         PROVE  q.ids[j].offset + q.ids[j].length <= q.ids[i].offset
    <2>1. i # slot /\ j # slot
      BY <1>5, <1>7, <1>8, <1>11 DEF Live
    <2> QED
      BY <1>1, <1>7, <1>8, <1>11, <2>1, LaterLiesBelow DEF Live
  <1>12. /\ q.lower = HEADER_SIZE + ITEM_ID_SIZE * Len(q.ids)
         /\ q.lower <= q.upper /\ q.upper <= PAGE_SIZE
    BY <1>1, <1>6, <1>8 DEF WellFormed
  <1>13. WellFormed(q)
    BY <1>6, <1>8, <1>9, <1>10, <1>11, <1>12 DEF WellFormed
  <1> QED
    BY <1>3, <1>4, <1>8, <1>13

-----------------------------------------------------------------------------
LEMMA HeapInvInit == HeapInit => HeapInv
  BY DEF HeapInit, HeapInv

\* Every page that a step reads is the page as it is in memory.
LEMMA ReadsPage ==
    ASSUME HeapInv, NEW n \in 1..Len(pages)
    PROVE  /\ read_page(n) = pages[n] /\ WellFormed(pages[n]) /\ pages[n].tuples = stored[n]
           /\ DOMAIN pages[n].ids = 1..Len(pages[n].ids)
  <1>1. WellFormed(pages[n]) /\ pages[n].tuples = stored[n]
    BY DEF HeapInv
  <1>2. PICK p : p = pages[n]
    OBVIOUS
  <1> QED
    BY <1>1, <1>2, RoundTrip, ShapeFacts DEF read_page

\* A step that puts a well-formed page into the place of another.
LEMMA ReplacesPage ==
    ASSUME HeapInv, NEW n \in 1..Len(pages), NEW q, WellFormed(q),
           pages' = [pages EXCEPT ![n] = q], stored' = [stored EXCEPT ![n] = q.tuples]
    PROVE  HeapInv'
  <1>1. q \in Page /\ q.tuples \in Seq(Seq(Byte))
    BY ShapeFacts DEF WellFormed
  <1>2. /\ pages \in Seq(Page) /\ stored \in Seq(Seq(Seq(Byte))) /\ Len(pages) = Len(stored)
        /\ \A m \in 1..Len(pages) : WellFormed(pages[m]) /\ pages[m].tuples = stored[m]
    BY DEF HeapInv
  <1>3. /\ pages' \in Seq(Page) /\ stored' \in Seq(Seq(Seq(Byte)))
        /\ Len(pages') = Len(pages) /\ Len(stored') = Len(pages)
    BY <1>1, <1>2
  <1>4. \A m \in 1..Len(pages) : WellFormed(pages'[m]) /\ pages'[m].tuples = stored'[m]
    BY <1>2
  <1> QED
    BY <1>3, <1>4 DEF HeapInv

\* A step that adds a well-formed page at the end.
LEMMA AddsPage ==
    ASSUME HeapInv, NEW q, WellFormed(q),
           pages' = Append(pages, q), stored' = Append(stored, q.tuples)
    PROVE  HeapInv'
  <1>1. q \in Page /\ q.tuples \in Seq(Seq(Byte))
    BY ShapeFacts DEF WellFormed
  <1>2. /\ pages \in Seq(Page) /\ stored \in Seq(Seq(Seq(Byte))) /\ Len(pages) = Len(stored)
        /\ \A m \in 1..Len(pages) : WellFormed(pages[m]) /\ pages[m].tuples = stored[m]
    BY DEF HeapInv
  <1>3. /\ pages' \in Seq(Page) /\ stored' \in Seq(Seq(Seq(Byte)))
        /\ Len(pages') = Len(pages) + 1 /\ Len(stored') = Len(pages) + 1
    BY <1>1, <1>2
  <1>4. ASSUME NEW m \in 1..Len(pages')
        PROVE  WellFormed(pages'[m]) /\ pages'[m].tuples = stored'[m]
    <2>1. CASE m = Len(pages) + 1
      <3>1. pages'[m] = q /\ stored'[m] = q.tuples
        BY <1>1, <1>2, <2>1
      <3> QED
        BY <3>1
    <2>2. CASE m \in 1..Len(pages)
      <3>1. pages'[m] = pages[m] /\ stored'[m] = stored[m]
        BY <1>1, <1>2, <2>2
      <3> QED
        BY <1>2, <2>2, <3>1
    <2> QED
      BY <1>2, <1>3, <2>1, <2>2
  <1> QED
    BY <1>3, <1>4 DEF HeapInv

\* The geometry of the pages is preserved by every operation on the heap.
LEMMA HeapInvNext == HeapInv /\ [HeapNext]_heapVars => HeapInv'
  <1> SUFFICES ASSUME HeapInv, [HeapNext]_heapVars PROVE HeapInv'
    OBVIOUS
  <1>0. /\ pages \in Seq(Page) /\ stored \in Seq(Seq(Seq(Byte)))
        /\ Len(pages) = Len(stored) /\ Len(pages) \in Nat
        /\ DOMAIN pages = 1..Len(pages) /\ DOMAIN stored = 1..Len(pages)
    BY DEF HeapInv
  <1>1. ASSUME NEW data \in Tuples, AppendToTail(data) PROVE HeapInv'
    <2>1. PICK n \in 1..Len(pages) : n = Len(pages)
      <3>1. pages # <<>>
        BY <1>1 DEF AppendToTail, FitsTail
      <3>2. Len(pages) \in Nat \ {0}
        BY <1>0, <3>1, EmptySeq
      <3> QED
        BY <3>2
    <2>2. PICK p : p = pages[n] /\ p = read_page(n) /\ WellFormed(p) /\ p.tuples = stored[n]
      BY ReadsPage
    <2>3. PICK q : q = insert_tuple(p, data)
      OBVIOUS
    <2>4. can_fit(p, Len(data))
      BY <1>1, <2>1, <2>2 DEF AppendToTail, FitsTail
    <2>5. WellFormed(q) /\ q.tuples = Append(stored[n], data)
      BY <2>2, <2>3, <2>4, InsertKeepsShape
    <2>6. pages' = [pages EXCEPT ![n] = q] /\ stored' = [stored EXCEPT ![n] = q.tuples]
      BY <1>1, <2>1, <2>2, <2>3, <2>5 DEF AppendToTail
    <2> QED
      BY <2>5, <2>6, ReplacesPage
  <1>2. ASSUME NEW data \in Tuples, AppendToNewPage(data) PROVE HeapInv'
    <2>1. PICK q : q = insert_tuple(EmptyPage, data)
      OBVIOUS
    <2>2. WellFormed(q) /\ q.tuples = Append(<<>>, data)
      BY <1>2, <2>1, InsertKeepsShape, EmptyPageShape DEF AppendToNewPage
    <2>3. Append(<<>>, data) = <<data>>
      OBVIOUS
    <2>4. pages' = Append(pages, q) /\ stored' = Append(stored, q.tuples)
      BY <1>2, <2>1, <2>2, <2>3 DEF AppendToNewPage
    <2> QED
      BY <2>2, <2>4, AddsPage
  <1>3. ASSUME NEW data \in Tuples, AppendTooLarge(data) PROVE HeapInv'
    BY <1>3, EmptyPageShape, AddsPage DEF AppendTooLarge
  <1>4. ASSUME NEW n \in DOMAIN pages, NEW slot \in DOMAIN pages[n].ids, DeleteTuple(n, slot)
        PROVE HeapInv'
    <2>1. n \in 1..Len(pages)
      BY <1>0
    <2>2. PICK p : /\ p = pages[n] /\ p = read_page(n) /\ WellFormed(p) /\ p.tuples = stored[n]
                   /\ slot \in 1..Len(p.ids)
      BY <2>1, ReadsPage
    <2>3. PICK q : q = delete_tuple(p, slot)
      OBVIOUS
    <2>4. WellFormed(q) /\ q.tuples = [stored[n] EXCEPT ![slot] = <<>>]
      BY <2>2, <2>3, DeleteKeepsShape
    <2>5. pages' = [pages EXCEPT ![n] = q] /\ stored' = [stored EXCEPT ![n] = q.tuples]
      BY <1>4, <2>2, <2>3, <2>4 DEF DeleteTuple
    <2> QED
      BY <2>1, <2>4, <2>5, ReplacesPage
  <1>5. CASE UNCHANGED heapVars
    BY <1>5 DEF heapVars, HeapInv
  <1> QED
    BY <1>1, <1>2, <1>3, <1>4, <1>5 DEF HeapNext

\* With the geometry, reading back gives the tuples that were appended and
\* not deleted.
LEMMA ShapeGivesTuples == HeapInv => HeapIsTheTuples
  <1> SUFFICES ASSUME HeapInv PROVE HeapIsTheTuples
    OBVIOUS
  <1>1. Len(pages) = Len(stored) /\ DOMAIN pages = 1..Len(pages)
    BY DEF HeapInv
  <1>2. ASSUME NEW n \in 1..Len(pages)
        PROVE  /\ DOMAIN read_page(n).ids = DOMAIN stored[n]
               /\ \A slot \in DOMAIN stored[n] : get_tuple(read_page(n), slot) = stored[n][slot]
    <2>1. PICK p : p = pages[n] /\ p = read_page(n) /\ WellFormed(p) /\ p.tuples = stored[n]
      BY ReadsPage
    <2>2. DOMAIN p.ids = 1..Len(p.ids) /\ DOMAIN p.tuples = 1..Len(p.ids)
      <3>1. p.tuples \in Seq(Seq(Byte)) /\ Len(p.tuples) = Len(p.ids) /\ DOMAIN p.ids = 1..Len(p.ids)
        BY <2>1, ShapeFacts
      <3> QED
        BY <3>1
    <2>3. ASSUME NEW slot \in 1..Len(p.ids) PROVE get_tuple(p, slot) = p.tuples[slot]
      <3>1. SlotFits(p, slot)
        BY <2>1, SlotFacts
      <3> QED
        BY <2>2, <3>1 DEF get_tuple, is_live, SlotFits, Live
    <2> QED
      BY <2>1, <2>2, <2>3
  <1> QED
    BY <1>1, <1>2 DEF HeapIsTheTuples

\* The heap file read back holds exactly the tuples that were appended and not
\* deleted, each at its address: page.rs and heap.rs over any sequence of
\* appends and deletes, for every page size below 64 KiB.
THEOREM HeapKeepsTuples == HeapSpec => []HeapIsTheTuples
  <1>1. HeapInit => HeapInv
    BY HeapInvInit
  <1>2. HeapInv /\ [HeapNext]_heapVars => HeapInv'
    BY HeapInvNext
  <1>3. HeapInv => HeapIsTheTuples
    BY ShapeGivesTuples
  <1> QED
    BY <1>1, <1>2, <1>3, PTL DEF HeapSpec
=============================================================================
