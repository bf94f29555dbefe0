------------------------------ MODULE Registry ------------------------------
(***************************************************************************)
(* The registries that the connections of crates/server/src/server.rs      *)
(* share: the backends by pid, through which a notification reaches a      *)
(* session, and the pids that listen on a channel.                         *)
(* Each is behind a mutex of its own; NOTIFY holds both.  A pid is given   *)
(* out once.                                                               *)
(***************************************************************************)
EXTENDS Integers, Sequences, SequencesExt, FiniteSets

CONSTANTS
    LastPid,        \* bound on the connections; pids are 1..LastPid
    Channels,
    MaxNotes        \* bound on the NOTIFY statements

VARIABLES
    nextPid,        \* NEXT_BACKEND_PID
    pc,             \* pc[p]: where the thread of the connection is
    arg,            \* arg[p]: the channel of its statement
    backends,       \* the keys of Shared.backends
    listeners,      \* listeners[c]: Shared.listeners, a sequence of pids
    heldListeners,  \* the holder of the listeners mutex, 0 for none
    heldBackends,   \* the holder of the backends mutex, 0 for none
    queue,          \* queue[p]: the notifications of the backend
    notes,          \* history: the notes sent, <<channel, the listeners at the time>>
    sent            \* history: sent[p], the notes on the wire to the client

registryVars ==
    <<nextPid, pc, arg, backends, listeners, heldListeners, heldBackends, queue, notes, sent>>

Pids == 1..LastPid

RegistryInit ==
    /\ nextPid = 1
    /\ pc = [p \in Pids |-> "off"]
    /\ arg = [p \in Pids |-> CHOOSE c \in Channels : TRUE]
    /\ backends = {}
    /\ listeners = [c \in Channels |-> <<>>]
    /\ heldListeners = 0 /\ heldBackends = 0
    /\ queue = [p \in Pids |-> <<>>]
    /\ notes = <<>>
    /\ sent = [p \in Pids |-> <<>>]

Goto(p, label) == pc' = [pc EXCEPT ![p] = label]

\* handle_connection after authentication: a fresh pid, registered.
Connect ==
    /\ nextPid <= LastPid /\ heldBackends = 0
    /\ backends' = backends \cup {nextPid}
    /\ Goto(nextPid, "idle")
    /\ nextPid' = nextPid + 1
    /\ UNCHANGED <<arg, listeners, heldListeners, heldBackends, queue, notes, sent>>

\* MUTANT of Listen: the pid is pushed without a look.
ListenAgain(p, c) ==
    /\ pc[p] = "idle" /\ heldListeners = 0 /\ Len(listeners[c]) < 3
    /\ listeners' = [listeners EXCEPT ![c] = Append(@, p)]
    /\ UNCHANGED <<nextPid, pc, arg, backends, heldListeners, heldBackends, queue, notes, sent>>

Listen(p, c) ==
    /\ pc[p] = "idle" /\ heldListeners = 0
    /\ listeners' = [listeners EXCEPT ![c] = IF p \in ToSet(@) THEN @ ELSE Append(@, p)]
    /\ UNCHANGED <<nextPid, pc, arg, backends, heldListeners, heldBackends, queue, notes, sent>>

Without(s, p) == SelectSeq(s, LAMBDA q : q # p)

\* UNLISTEN of some channels: one, or all.
Unlisten(p, cs) ==
    /\ pc[p] = "idle" /\ heldListeners = 0
    /\ listeners' = [c \in Channels |-> IF c \in cs THEN Without(listeners[c], p) ELSE listeners[c]]
    /\ UNCHANGED <<nextPid, pc, arg, backends, heldListeners, heldBackends, queue, notes, sent>>

\* NOTIFY takes the two mutexes one after the other ...
NotifyStarts(p, c) ==
    /\ pc[p] = "idle" /\ heldListeners = 0 /\ Len(notes) < MaxNotes
    /\ heldListeners' = p
    /\ arg' = [arg EXCEPT ![p] = c]
    /\ Goto(p, "notify")
    /\ UNCHANGED <<nextPid, backends, listeners, heldBackends, queue, notes, sent>>

NotifyLocks(p) ==
    /\ pc[p] = "notify" /\ heldBackends = 0
    /\ heldBackends' = p
    /\ Goto(p, "push")
    /\ UNCHANGED <<nextPid, arg, backends, listeners, heldListeners, queue, notes, sent>>

Times(s, p) == Len(SelectSeq(s, LAMBDA q : q = p))

\* ... and pushes the note once for each entry that is a registered backend.
NotifyPushes(p) ==
    LET to == listeners[arg[p]]
        note == Len(notes) + 1
    IN  /\ pc[p] = "push"
        /\ notes' = Append(notes, <<arg[p], ToSet(to) \cap backends>>)
        /\ queue' = [q \in Pids |-> IF q \in backends
                                    THEN queue[q] \o [i \in 1..Times(to, q) |-> note] ELSE queue[q]]
        /\ heldListeners' = 0 /\ heldBackends' = 0
        /\ Goto(p, "idle")
        /\ UNCHANGED <<nextPid, arg, backends, listeners, sent>>

\* deliver_notifications, whenever the session is about to be ready.
Deliver(p) ==
    /\ pc[p] = "idle" /\ queue[p] # <<>>
    /\ sent' = [sent EXCEPT ![p] = @ \o queue[p]]
    /\ queue' = [queue EXCEPT ![p] = <<>>]
    /\ UNCHANGED <<nextPid, pc, arg, backends, listeners, heldListeners, heldBackends, notes>>

Disconnect(p) ==
    /\ pc[p] = "idle"
    /\ Goto(p, "closing")
    /\ UNCHANGED <<nextPid, arg, backends, listeners, heldListeners, heldBackends, queue, notes, sent>>

\* MUTANT of Unregister: the guard of the backends is kept for the listeners.
UnregisterHolds(p) ==
    /\ pc[p] = "closing" /\ heldBackends = 0
    /\ backends' = backends \ {p} /\ heldBackends' = p
    /\ Goto(p, "closing2")
    /\ UNCHANGED <<nextPid, arg, listeners, heldListeners, queue, notes, sent>>

\* ConnGuard::drop, after release_locks: the two maps one after the other.
Unregister(p) ==
    /\ pc[p] = "closing" /\ heldBackends = 0
    /\ backends' = backends \ {p}
    /\ Goto(p, "closing2")
    /\ UNCHANGED <<nextPid, arg, listeners, heldListeners, heldBackends, queue, notes, sent>>

Forget(p) ==
    /\ pc[p] = "closing2" /\ heldListeners = 0
    /\ listeners' = [c \in Channels |-> Without(listeners[c], p)]
    /\ Goto(p, "gone")
    /\ UNCHANGED <<nextPid, arg, backends, heldListeners, heldBackends, queue, notes, sent>>

\* What a thread does by itself once it has begun.
GoesOn(p) == NotifyLocks(p) \/ NotifyPushes(p) \/ Deliver(p) \/ Unregister(p) \/ Forget(p)

RegistryNext ==
    \/ Connect
    \/ \E p \in Pids :
        \/ GoesOn(p) \/ Disconnect(p)
        \/ \E c \in Channels : Listen(p, c) \/ NotifyStarts(p, c)
        \/ \E cs \in {{c} : c \in Channels} \cup {Channels} : Unlisten(p, cs)

\* A statement and the teardown of a connection run to their end, and a mutex
\* that is free often enough is acquired in the end; sessions become idle.
RegistrySpec ==
    /\ RegistryInit /\ [][RegistryNext]_registryVars
    /\ \A p \in Pids : SF_registryVars(GoesOn(p))

-----------------------------------------------------------------------------
\* Every backend gets exactly the notes that were sent while it listened, in
\* the order in which they were sent and once each, however NOTIFY, LISTEN,
\* UNLISTEN and the teardown of connections interleave on the two mutexes.
Heard(p) == SelectSeq([i \in 1..Len(notes) |-> i], LAMBDA i : p \in notes[i][2])
NotesOnceInOrder == \A p \in Pids : sent[p] \o queue[p] = Heard(p)

\* A connection that ends is removed from both registries in the end.
ClosedIsForgotten ==
    \A p \in Pids : pc[p] = "closing"
        ~> (p \notin backends /\ \A c \in Channels : p \notin ToSet(listeners[c]))
=============================================================================
