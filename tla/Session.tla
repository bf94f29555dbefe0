------------------------------ MODULE Session -------------------------------
(***************************************************************************)
(* One connection of crates/server/src/server.rs: the message loop with    *)
(* the simple and the extended query protocol, the COPY sub-protocol,      *)
(* errors that are skipped until Sync, the idle-in-transaction timeout,    *)
(* cancel requests and the watchdog of statement_timeout, against a client *)
(* that pipelines batches and waits for ReadyForQuery.                     *)
(*                                                                         *)
(* A statement is its kind: "do" (any other statement), "lock" (it polls   *)
(* for cancellation), "begin", "end", "copyin", "copyout" or "empty"; the  *)
(* query <<"bad">> does not parse.  A reply is its tag on the wire.  There *)
(* is one prepared statement and one portal, the unnamed ones.             *)
(***************************************************************************)
EXTENDS Integers, Sequences, SequencesExt

CONSTANTS
    Queries,        \* the lists of statements of a simple query
    BoundQueries,   \* the lists of statements of a Parse message
    MaxInbox,       \* bound on the messages in flight to the server
    MaxOwed,        \* bound on the ReadyForQuery a client waits for
    MaxBatch        \* bound on the messages of a batch before its Sync

VARIABLES
    client,         \* [mode, owed, batch]: what the client is doing
    inbox,          \* the messages sent and not yet read
    tx, status,     \* the transaction block, and the status byte reported
    skip,           \* skip_until_sync
    prepared,       \* <<>> or <<statements>>
    portal,         \* <<>> or <<statements>>
    work,           \* the handler: [mode, todo, phase, timed, ok]
    cancel,         \* the cancel flag of the backend
    watchdog,       \* the thread of run_statement_timed
    fired,          \* its fired flag
    line,           \* history: the replies since the last ReadyForQuery, as
                    \* "clean", "error" or, when more followed it, "late"
    asked,          \* history: a cancel request is behind the flag
    dropped         \* history: the idle timeout has dropped a message

clientVars == <<client, inbox>>
txVars == <<tx, status>>
extVars == <<skip, prepared, portal>>
timeVars == <<cancel, watchdog, fired, asked>>
sessionVars == <<clientVars, txVars, extVars, work, timeVars, line, dropped>>

Msg(tag, q) == <<tag, q>>
Loop == [mode |-> "loop", todo |-> <<>>, phase |-> "next", timed |-> FALSE, ok |-> TRUE]

SessionInit ==
    /\ client = [mode |-> "ready", owed |-> 0, batch |-> 0]
    /\ inbox = <<>>
    /\ tx = "none" /\ status = "I"
    /\ skip = FALSE /\ prepared = <<>> /\ portal = <<>>
    /\ work = Loop
    /\ cancel = FALSE /\ watchdog = "none" /\ fired = FALSE /\ asked = FALSE
    /\ line = "clean" /\ dropped = FALSE

-----------------------------------------------------------------------------
(***************************************************************************)
(* The client (external)                                                   *)
(***************************************************************************)

\* Told that its connection ends, the client sends nothing more.
Room == Len(inbox) < MaxInbox /\ client.mode # "gone" /\ ~dropped

SendQuery(q) ==
    /\ Room /\ client.mode = "ready"
    /\ inbox' = Append(inbox, Msg("Query", q))
    /\ client' = [client EXCEPT !.mode = "asking", !.owed = @ + 1]
    /\ UNCHANGED <<txVars, extVars, work, timeVars, line, dropped>>

\* A message of a batch, which may be sent before the last Sync is answered.
BatchTags == {"Bind", "Describe", "Execute", "Close", "CopyFail", "Unknown"}
SendInBatch(m) ==
    /\ Room /\ client.mode \in {"ready", "batch", "waiting"} /\ client.batch < MaxBatch
    /\ client.owed < MaxOwed
    /\ inbox' = Append(inbox, m)
    /\ client' = [client EXCEPT !.mode = "batch", !.batch = @ + 1]
    /\ UNCHANGED <<txVars, extVars, work, timeVars, line, dropped>>

SendSync ==
    /\ Room /\ client.mode = "batch"
    /\ inbox' = Append(inbox, Msg("Sync", <<>>))
    /\ client' = [mode |-> "waiting", owed |-> client.owed + 1, batch |-> 0]
    /\ UNCHANGED <<txVars, extVars, work, timeVars, line, dropped>>

SendCopy(tag) ==
    /\ Room /\ client.mode = "copy"
    /\ inbox' = Append(inbox, Msg(tag, <<>>))
    /\ client' = [client EXCEPT !.mode = IF tag = "CopyData" THEN "copy" ELSE "asking"]
    /\ UNCHANGED <<txVars, extVars, work, timeVars, line, dropped>>

Leave ==
    /\ Room
    /\ inbox' = Append(inbox, Msg("Terminate", <<>>))
    /\ client' = [client EXCEPT !.mode = "gone"]
    /\ UNCHANGED <<txVars, extVars, work, timeVars, line, dropped>>

\* A CancelRequest on a connection of its own, at any time.
RequestCancel ==
    /\ ~asked /\ work.mode # "closed" /\ client.mode # "gone"
    /\ cancel' = TRUE /\ asked' = TRUE
    /\ UNCHANGED <<clientVars, txVars, extVars, work, watchdog, fired, line, dropped>>

ClientStep ==
    \/ \E q \in Queries : SendQuery(q)
    \/ \E q \in BoundQueries : SendInBatch(Msg("Parse", q))
    \/ \E tag \in BatchTags : SendInBatch(Msg(tag, <<>>))
    \/ SendSync
    \/ \E tag \in {"CopyData", "CopyDone", "CopyFail", "Unknown"} : SendCopy(tag)
    \/ Leave

-----------------------------------------------------------------------------
(***************************************************************************)
(* Replies                                                                 *)
(***************************************************************************)

\* Replies without ReadyForQuery; after CopyInResponse the client sends data.
Reply(tags) ==
    /\ line' = CASE tags = <<>>                         -> line
                 [] tags # <<>> /\ line # "clean"         -> "late"
                 [] tags # <<>> /\ line = "clean"         -> IF Last(tags) = "E" THEN "error" ELSE line
    /\ client' = IF "G" \in ToSet(tags) /\ client.mode = "asking"
                 THEN [client EXCEPT !.mode = "copy"] ELSE client

\* send_ready_for_query at the end of the given replies.
Ready(tags) ==
    /\ line' = IF line = "clean" \/ tags = <<>> THEN "clean" ELSE "late"
    /\ client' = [client EXCEPT !.owed = @ - 1,
                    !.mode = IF client.owed <= 1 /\ @ \in {"asking", "waiting", "copy"} THEN "ready" ELSE @]

\* mark_error.
MarkError ==
    /\ tx' = IF tx = "open" THEN "failed" ELSE tx
    /\ status' = IF tx = "none" THEN status ELSE "E"

-----------------------------------------------------------------------------
(***************************************************************************)
(* Reading a message (handle_connection)                                   *)
(***************************************************************************)

Reading == work.mode = "loop" /\ inbox # <<>>
Tag == Head(inbox)[1]
Body == Head(inbox)[2]

\* The idle-in-transaction timeout: the block is gone, and so is the message.
IdleTimeoutAborts ==
    /\ Reading /\ tx # "none" /\ Tag # "Terminate"
    /\ inbox' = Tail(inbox)
    /\ tx' = "none" /\ status' = "I"
    /\ Ready(<<"E">>)
    /\ dropped' = TRUE
    /\ UNCHANGED <<extVars, work, timeVars>>

\* MUTANT of Swallowed: Sync is skipped too.
SwallowsSync == skip

Swallowed == skip /\ Tag # "Sync"

Swallow ==
    /\ Reading /\ Swallowed
    /\ inbox' = Tail(inbox)
    /\ UNCHANGED <<client, txVars, extVars, work, timeVars, line, dropped>>

Taken(tag) == Reading /\ ~Swallowed /\ Tag = tag /\ inbox' = Tail(inbox)

\* handle_simple_query up to its first statement.
ReadQuery ==
    /\ Taken("Query")
    /\ \/ /\ Body = <<"bad">>
          /\ MarkError /\ Ready(<<"E">>) /\ UNCHANGED work
       \/ /\ Body # <<"bad">> /\ \A i \in DOMAIN Body : Body[i] = "empty"
          /\ Ready(<<"I">>) /\ UNCHANGED <<txVars, work>>
       \/ /\ Body # <<"bad">> /\ \E i \in DOMAIN Body : Body[i] # "empty"
          /\ work' = [Loop EXCEPT !.mode = "simple", !.todo = Body]
          /\ UNCHANGED <<txVars, client, line>>
    /\ UNCHANGED <<extVars, timeVars, dropped>>

\* MUTANT of Refuse: the error ends the batch at once.
ReadyAtOnce == Ready(<<"E">>) /\ skip' = TRUE

\* An error reply of an extended message.
Refuse == Reply(<<"E">>) /\ skip' = TRUE

\* handle_parse.
ReadParse ==
    /\ Taken("Parse")
    /\ IF Body = <<"bad">> THEN Refuse /\ UNCHANGED prepared
       ELSE Reply(<<"1">>) /\ prepared' = <<Body>> /\ UNCHANGED skip
    /\ UNCHANGED <<txVars, portal, work, timeVars, dropped>>

\* MUTANT of ReadBind: the error does not skip the rest of the batch.
BindGoesOn ==
    /\ Taken("Bind")
    /\ \/ prepared # <<>> /\ Reply(<<"2">>) /\ portal' = prepared
       \/ Reply(<<"E">>) /\ UNCHANGED portal
    /\ UNCHANGED <<txVars, prepared, skip, work, timeVars, dropped>>

\* handle_bind: a parameter may not decode, or be missing.
ReadBind ==
    /\ Taken("Bind")
    /\ \/ prepared # <<>> /\ Reply(<<"2">>) /\ portal' = prepared /\ UNCHANGED skip
       \/ Refuse /\ UNCHANGED portal
    /\ UNCHANGED <<txVars, prepared, work, timeVars, dropped>>

\* handle_describe, of the statement or the portal.
ReadDescribe ==
    /\ Taken("Describe")
    /\ \E described \in {prepared, portal} :
          IF described = <<>> THEN Refuse ELSE Reply(<<"T">>) /\ UNCHANGED skip
    /\ UNCHANGED <<txVars, prepared, portal, work, timeVars, dropped>>

\* handle_execute up to its first statement.
ReadExecute ==
    /\ Taken("Execute")
    /\ IF portal = <<>> THEN Refuse /\ UNCHANGED work
       ELSE /\ work' = [Loop EXCEPT !.mode = "extended", !.todo = portal[1]]
            /\ UNCHANGED <<client, line, skip>>
    /\ UNCHANGED <<txVars, prepared, portal, timeVars, dropped>>

ReadClose ==
    /\ Taken("Close")
    /\ \/ prepared' = <<>> /\ UNCHANGED portal
       \/ portal' = <<>> /\ UNCHANGED prepared
    /\ Reply(<<"3">>)
    /\ UNCHANGED <<txVars, skip, work, timeVars, dropped>>

ReadSync ==
    /\ Taken("Sync")
    /\ skip' = FALSE
    /\ Ready(<<>>)
    /\ UNCHANGED <<txVars, prepared, portal, work, timeVars, dropped>>

\* Stray COPY data is ignored.
ReadStray ==
    /\ Taken("CopyData") \/ Taken("CopyDone")
    /\ UNCHANGED <<client, txVars, extVars, work, timeVars, line, dropped>>

\* A stray CopyFail and an unknown message are errors until Sync.
ReadUnknown ==
    /\ Taken("CopyFail") \/ Taken("Unknown")
    /\ Refuse
    /\ UNCHANGED <<txVars, prepared, portal, work, timeVars, dropped>>

\* Terminate; when it is swallowed, the end of the stream follows.
ReadTerminate ==
    /\ work.mode \in {"loop", "copy"}
    /\ \/ inbox # <<>> /\ Tag = "Terminate" /\ (work.mode = "loop" => ~skip) /\ inbox' = Tail(inbox)
       \/ inbox = <<>> /\ client.mode = "gone" /\ UNCHANGED inbox
    /\ work' = [Loop EXCEPT !.mode = "closed"]
    /\ UNCHANGED <<client, txVars, extVars, timeVars, line, dropped>>

-----------------------------------------------------------------------------
(***************************************************************************)
(* The statements of a query or portal                                     *)
(***************************************************************************)

Batch == work.mode \in {"simple", "extended"} /\ work.phase = "next"
Kind == Head(work.todo)

\* The error path of a statement: the rest of the list is abandoned.
Fails(simple) ==
    /\ MarkError
    /\ IF simple THEN Ready(<<"E">>) /\ UNCHANGED skip ELSE Refuse
    /\ work' = Loop

\* The reply of a statement that succeeded, then the next one.
Succeeds(tags) ==
    /\ Reply(tags)
    /\ work' = [work EXCEPT !.mode = IF @ = "copy" THEN "simple" ELSE @,
                            !.phase = "next", !.todo = Tail(@), !.timed = FALSE]
    /\ UNCHANGED skip

EndBatch ==
    /\ Batch /\ work.todo = <<>>
    /\ work' = Loop
    /\ IF work.mode = "simple" THEN Ready(<<>>) ELSE UNCHANGED <<client, line>>
    /\ UNCHANGED <<inbox, txVars, extVars, timeVars, dropped>>

SkipEmpty ==
    /\ Batch /\ work.todo # <<>> /\ Kind = "empty"
    /\ Succeeds(IF work.mode = "simple" THEN <<>> ELSE <<"I">>)
    /\ UNCHANGED <<inbox, txVars, prepared, portal, timeVars, dropped>>

\* check_canceled at a statement boundary.
CancelPending ==
    /\ Batch /\ work.todo # <<>> /\ Kind # "empty" /\ cancel
    /\ cancel' = FALSE /\ asked' = FALSE
    /\ Fails(work.mode = "simple")
    /\ UNCHANGED <<inbox, prepared, portal, watchdog, fired, dropped>>

\* run_copy, up to CopyInResponse or with the whole output.
StartCopy ==
    /\ Batch /\ work.todo # <<>> /\ work.mode = "simple" /\ Kind \in {"copyin", "copyout"} /\ ~cancel
    /\ \/ Fails(TRUE)
       \/ Kind = "copyout" /\ Succeeds(<<"H", "d", "c", "C">>) /\ UNCHANGED txVars
       \/ /\ Kind = "copyin" /\ Reply(<<"G">>)
          /\ work' = [work EXCEPT !.mode = "copy"] /\ UNCHANGED <<txVars, skip>>
    /\ UNCHANGED <<inbox, prepared, portal, timeVars, dropped>>

\* copy_from_stdin: data until CopyDone, whose rows, if any, are inserted (no
\* rows succeed even in a failed block); other messages end it with an error.
CopyIn ==
    /\ work.mode = "copy" /\ inbox # <<>> /\ Tag # "Terminate"
    /\ inbox' = Tail(inbox)
    /\ \/ /\ Tag = "CopyData" /\ UNCHANGED <<client, txVars, skip, work, line>>
       \/ /\ Tag = "CopyDone" /\ Succeeds(<<"C">>) /\ UNCHANGED txVars
       \/ /\ Tag # "CopyData" /\ Fails(TRUE)
    /\ UNCHANGED <<prepared, portal, timeVars, dropped>>

\* run_statement_timed up to the statement: a watchdog when the timeout is on.
StartStatement(timed) ==
    /\ Batch /\ work.todo # <<>> /\ Kind # "empty" /\ ~cancel
    /\ work.mode = "simple" => Kind \notin {"copyin", "copyout"}
    /\ work' = [work EXCEPT !.phase = "running", !.timed = timed]
    /\ watchdog' = (IF timed THEN "watching" ELSE "none") /\ fired' = FALSE
    /\ UNCHANGED <<inbox, client, txVars, extVars, cancel, asked, line, dropped>>

\* run_statement: BEGIN in a block does nothing, COMMIT ends it (a serialization
\* failure with it), a failed block refuses the rest; a statement that waits
\* for a lock polls the cancel flag; COPY has no data outside its sub-protocol.
RunStatement ==
    /\ work.phase = "running"
    /\ \/ /\ Kind = "begin"
          /\ tx' = (IF tx = "none" THEN "open" ELSE tx) /\ status' = (IF tx = "none" THEN "T" ELSE status)
          /\ work' = [work EXCEPT !.phase = "ran", !.ok = TRUE]
          /\ UNCHANGED <<cancel, asked>>
       \/ /\ Kind = "end"
          /\ tx' = "none" /\ status' = "I"
          /\ \E ok \in (IF tx = "open" THEN BOOLEAN ELSE {TRUE}) :
                work' = [work EXCEPT !.phase = "ran", !.ok = ok]
          /\ UNCHANGED <<cancel, asked>>
       \/ /\ Kind \in {"do", "lock"} /\ tx # "failed"
          /\ work' = [work EXCEPT !.phase = "ran", !.ok = TRUE]
          /\ UNCHANGED <<txVars, cancel, asked>>
       \/ /\ Kind \notin {"begin", "end"}
          /\ work' = [work EXCEPT !.phase = "ran", !.ok = FALSE]
          /\ UNCHANGED <<txVars, cancel, asked>>
       \/ /\ Kind = "lock" /\ tx # "failed" /\ cancel
          /\ cancel' = FALSE /\ asked' = FALSE
          /\ work' = [work EXCEPT !.phase = "ran", !.ok = FALSE]
          /\ UNCHANGED txVars
    /\ UNCHANGED <<inbox, client, extVars, watchdog, fired, line, dropped>>

\* done is set, and the watchdog joined.
StopWatching ==
    /\ work.phase = "ran" /\ work.timed
    /\ work' = [work EXCEPT !.phase = "joining"]
    /\ UNCHANGED <<inbox, client, txVars, extVars, timeVars, line, dropped>>

\* MUTANT of FlagCleared: the flag of the watchdog is left to the next check.
FlagLeft == UNCHANGED <<cancel, asked>>

FlagCleared ==
    /\ cancel' = IF fired THEN FALSE ELSE cancel
    /\ asked' = IF fired THEN FALSE ELSE asked

\* The end of run_statement_timed and the reply of the statement.
FinishStatement ==
    /\ \/ work.phase = "ran" /\ ~work.timed
       \/ work.phase = "joining" /\ watchdog = "ended"
    /\ IF work.ok /\ ~fired THEN Succeeds(<<"C">>) /\ UNCHANGED txVars
       ELSE Fails(work.mode = "simple")
    /\ FlagCleared
    /\ watchdog' = "none" /\ fired' = FALSE
    /\ UNCHANGED <<inbox, prepared, portal, dropped>>

\* The watchdog looks at done once more at its deadline, then sets two flags.
WatchdogStep ==
    /\ \/ watchdog = "watching" /\ work.phase = "joining" /\ watchdog' = "ended" /\ UNCHANGED <<fired, cancel>>
       \/ watchdog = "watching" /\ work.phase # "joining" /\ watchdog' = "firing" /\ UNCHANGED <<fired, cancel>>
       \/ watchdog = "firing" /\ ~fired /\ fired' = TRUE /\ UNCHANGED <<watchdog, cancel>>
       \/ watchdog = "firing" /\ fired /\ cancel' = TRUE /\ watchdog' = "ended" /\ UNCHANGED fired
    /\ UNCHANGED <<inbox, client, txVars, extVars, work, asked, line, dropped>>

ServerStep ==
    \/ Swallow \/ ReadQuery \/ ReadParse \/ ReadBind \/ ReadDescribe \/ ReadExecute
    \/ ReadClose \/ ReadSync \/ ReadStray \/ ReadUnknown \/ ReadTerminate
    \/ EndBatch \/ SkipEmpty \/ CancelPending \/ StartCopy \/ CopyIn
    \/ \E timed \in BOOLEAN : StartStatement(timed)
    \/ RunStatement \/ StopWatching \/ FinishStatement \/ WatchdogStep

SessionNext == ClientStep \/ RequestCancel \/ ServerStep \/ IdleTimeoutAborts

\* The connection's thread and the watchdog go on while they can.
SessionSpec == SessionInit /\ [][SessionNext]_sessionVars /\ WF_sessionVars(ServerStep)

-----------------------------------------------------------------------------
\* The status byte of ReadyForQuery is that of the transaction block, over
\* errors in every protocol, COMMIT of failed blocks and the idle timeout.
StatusAgrees ==
    /\ (status = "I") = (tx = "none")
    /\ (status = "E") = (tx = "failed")

\* An error is the last reply of its batch: whatever else the client has sent
\* is skipped until Sync, or the rest of the query is abandoned.
ErrorEndsBatch == line # "late" \/ dropped

\* ReadyForQuery comes once for every query and Sync, and never unasked,
\* unless the idle timeout has answered in the middle of a batch; and its
\* status byte is that of the transaction block.
OneReadyEach ==
    /\ StatusAgrees
    /\ dropped \/ client.owed >= (IF client.mode \in {"asking", "waiting", "copy"} THEN 1 ELSE 0)

\* Between statements the cancel flag is set only by a cancel request: "The
\* watchdog is always torn down before this function returns, so it can never
\* affect a later statement" (server.rs run_statement_timed), although it sets
\* its two flags one after the other while the statement ends.
WatchdogLeavesNothing == work.phase = "next" => (cancel => asked)

\* The message loop never goes back to reading in the middle of an error: when
\* a client may send its next query, nothing is being skipped ("once a message
\* errors we discard input until the next Sync").
ReadyIsListening == client.mode = "ready" /\ inbox = <<>> => ~skip

\* The same, of the sessions that the idle timeout leaves alone.
ReadyIsListeningOtherwise == ReadyIsListening \/ dropped

\* After an error the session is back in step at the next Sync: the batch has
\* no further reply, and nothing is skipped once the client may ask again.
ErrorsResynchronize == ErrorEndsBatch /\ ReadyIsListeningOtherwise

\* A client that waits gets its ReadyForQuery or a CopyInResponse, unless the
\* idle timeout has dropped its message.
Answered ==
    client.mode \in {"asking", "waiting"} ~> (client.mode \notin {"asking", "waiting"} \/ dropped)
=============================================================================
