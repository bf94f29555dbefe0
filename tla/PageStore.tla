----------------------------- MODULE PageStore ------------------------------
(***************************************************************************)
(* What the page cache of crates/engine/src/disk/buffer.rs promises its    *)
(* caller: pages that hold what was last put in them, whatever the cache   *)
(* evicts, and a flush that makes all of that durable.  After an I/O error *)
(* it promises nothing but that what was flushed stays flushed.            *)
(***************************************************************************)
EXTENDS Naturals

CONSTANTS Contents, Blank, MaxPages

VARIABLES
    count,          \* number of pages
    view,           \* view[p]: what the caller finds in page p
    saved,          \* what is durable
    parity,         \* parity of the number of edits: a page only changes by one
    failed          \* an error was returned

PageNos == 0..(MaxPages - 1)

Init ==
    /\ count = 0 /\ parity = 0 /\ failed = FALSE
    /\ view = [p \in PageNos |-> Blank]
    /\ saved = [p \in PageNos |-> Blank]

NewPage ==
    /\ ~failed /\ count < MaxPages
    /\ count' = count + 1
    /\ UNCHANGED <<view, saved, parity, failed>>

Modify(p, c) ==
    /\ ~failed /\ p < count
    /\ view' = [view EXCEPT ![p] = c]
    /\ parity' = 1 - parity
    /\ UNCHANGED <<count, saved, failed>>

Flush ==
    /\ ~failed
    /\ saved' = view
    /\ UNCHANGED <<count, view, parity, failed>>

\* An operation returns an error; new_page may have made its page.
Fail ==
    /\ ~failed /\ failed' = TRUE
    /\ count' \in {count, count + 1}
    /\ view' = [p \in PageNos |-> Blank]
    /\ UNCHANGED <<saved, parity>>

Next ==
    \/ NewPage \/ Flush \/ Fail
    \/ \E p \in PageNos, c \in Contents : Modify(p, c)

Spec == Init /\ [][Next]_<<count, view, saved, parity, failed>>
=============================================================================
