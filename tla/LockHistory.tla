---------------------------- MODULE LockHistory ----------------------------
(***************************************************************************)
(* LockServer with a history variable that remembers what a backend was    *)
(* promised: the modes it was granted.                                     *)
(***************************************************************************)
EXTENDS LockServer

VARIABLE
    granted     \* granted[p][o]: modes granted to p on o and not released

historyVars == <<vars, granted>>

HistoryInit ==
    /\ Init
    /\ granted = [p \in Pids |-> [o \in Objects |-> {}]]

\* The step grants o to p: o leaves the statement's list, the statement goes
\* on, and it was not a row that SKIP LOCKED leaves out.
JustGranted(p, o) ==
    /\ o \in stmt[p].todo
    /\ stmt'[p] # NoStmt
    /\ o \notin stmt'[p].todo
    /\ ~IsLockedByOther(p, o, stmt[p].mode)

RecordHistory ==
    granted' = [p \in Pids |-> [o \in Objects |->
        CASE JustGranted(p, o) -> granted[p][o] \cup {stmt[p].mode}
          [] holders'[o][p] = None -> {}
          [] OTHER -> granted[p][o]]]

HistorySpec == HistoryInit /\ [][Next /\ RecordHistory]_historyVars

-----------------------------------------------------------------------------
\* What lock.rs says of Granted, "the lock was granted (or was already held in
\* a covering mode)": modes granted to two backends and not yet released do
\* not conflict.
GrantedModesCompatible ==
    \A o \in Objects, p, q \in Pids :
        p # q => \A m \in granted[p][o], n \in granted[q][o] :
                    ~ConflictsWith(m, n)
=============================================================================
