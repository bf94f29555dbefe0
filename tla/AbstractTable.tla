---------------------------- MODULE AbstractTable ----------------------------
(***************************************************************************)
(* What a table promises its callers: a list of rows, each a list of       *)
(* values, in insertion order.  Row ids, indexes, pages and the side store *)
(* for long values are invisible.                                          *)
(***************************************************************************)
EXTENDS Integers, Sequences, SequencesExt

VARIABLE content

AppendRow == content # content' /\ content' # <<>> /\ Front(content') = content

ReplaceRow == \E p \in DOMAIN content :
    /\ DOMAIN content' = DOMAIN content
    /\ \A q \in DOMAIN content \ {p} : content'[q] = content[q]
    /\ Len(content'[p]) = Len(content[p])

RemoveRows == \E positions \in SUBSET DOMAIN content :
    LET kept == SelectSeq([p \in DOMAIN content |-> p], LAMBDA p : p \notin positions)
    IN  content' = [k \in DOMAIN kept |-> content[kept[k]]]

WidenRows ==
    /\ DOMAIN content' = DOMAIN content
    /\ \A p \in DOMAIN content : content'[p] # <<>> /\ Front(content'[p]) = content[p]

NarrowRows == \E c \in UNION {DOMAIN content[p] : p \in DOMAIN content} :
    content' = [p \in DOMAIN content |-> RemoveAt(content[p], c)]

Init == content = <<>>

Next == AppendRow \/ ReplaceRow \/ RemoveRows \/ WidenRows \/ NarrowRows

Spec == Init /\ [][Next]_content
=============================================================================
