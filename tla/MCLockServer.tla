---------------------------- MODULE MCLockServer ----------------------------
(***************************************************************************)
(* The lock manager for TLC: the backends that use it (LockServer), and    *)
(* the search it decides deadlocks with (CycleSearch).  A behaviour is     *)
(* about one of the two.                                                   *)
(***************************************************************************)
EXTENDS LockServer, CycleSearch, TLC

VARIABLE focus  \* "server" or "search"

NoSearch ==
    /\ graph = [n \in Nodes |-> {}] /\ color = [n \in Nodes |-> "white"]
    /\ starts = {} /\ stack = <<>> /\ result = "none"

MCInit == \/ focus = "server" /\ Init /\ NoSearch
          \/ focus = "search" /\ Init /\ SearchInit
MCNext == /\ \/ focus = "server" /\ Next /\ UNCHANGED searchVars
             \/ focus = "search" /\ SearchNext /\ UNCHANGED vars
          /\ UNCHANGED focus

\* No backend runs a statement in a behaviour of the search, so the fairness
\* of the backends asks for nothing there.
MCSpec == /\ MCInit /\ [][MCNext]_<<vars, searchVars, focus>>
          /\ Scheduling /\ WF_searchVars(SearchNext)
=============================================================================
