--------------------------- MODULE RrdcachedProtocol ---------------------------
(***************************************************************************)
(* The protocol between rrd_client.c and a connection thread of            *)
(* rrd_daemon.c: how commands become lines in a stream, how the daemon     *)
(* cuts the stream into commands and answers them, and how the client      *)
(* library finds the answer that belongs to its request.                   *)
(*                                                                         *)
(* The threads of a client share one connection.  A call of librrd sends   *)
(* one command; a call with more of them stands for a program that writes  *)
(* to the daemon itself and reads by the same rules.  A command is a few   *)
(* units long, the last of which is its end of line, and a read or a write *)
(* may stop at any unit.  All updates are for one file.                    *)
(***************************************************************************)
EXTENDS Integers, FiniteSets, Sequences

CONSTANTS
    Threads,      \* the threads of the client
    NoThread,     \* stands for nobody
    Calls,        \* of each thread: the sequences of commands that it may send at once
    Size,         \* the number of units of a command of each kind
    RBUF_SIZE,    \* size of the read buffer of a connection
    StatsLines,   \* number of lines with which STATS is answered
    MaxToDaemon,  \* units that the socket holds on their way to the daemon
    MaxToClient,  \* lines that it holds on their way to the client
    MaxConns,     \* bound: number of connections
    MaxCommands,  \* bound: number of commands
    MaxLosses     \* bound: number of connections lost on the way

Kinds == {"update", "stats", "unknown", "batch", "dot", "quit"}
NoNumber == -2    \* a line that does not begin with a number

ASSUME ThreadsAssumption == NoThread \notin Threads
ASSUME SizesAssumption ==
    /\ \A t \in Threads : \A shape \in Calls[t] :
          shape \in Seq(Kinds) /\ Len(shape) > 0
    /\ \A kind \in Kinds : Size[kind] \in Nat \ {0}
    /\ RBUF_SIZE \in Nat \ {0} /\ StatsLines \in Nat
    /\ MaxToDaemon \in Nat \ {0} /\ MaxToClient \in Nat \ {0}
    /\ MaxConns \in Nat /\ MaxCommands \in Nat /\ MaxLosses \in Nat
\* A program that begins a batch also ends it.
ASSUME BatchesEnd ==
    \A t \in Threads : \A shape \in Calls[t] : \A i \in DOMAIN shape :
        shape[i] = "batch" => \E j \in DOMAIN shape : i < j /\ shape[j] = "dot"

VARIABLES
    lock,     \* the thread that holds `lock'
    sd,       \* the connection of the client, or 0
    pc,       \* what each thread does
    call,     \* the commands of its call
    unsent,   \* the next unit that it has to write: of which of them, and which one
    answer,   \* the response it is reading
    answers,  \* the responses it has read
    running,  \* the state of the daemon is RUNNING
    last_update_stamp,  \* of the cache item of the file; 0 if there is none
    conn,     \* the connections: both directions, and the daemon's listen_socket_t
    commands, \* history: all commands
    outcome,  \* history: what the daemon did with them
    losses    \* number of connections lost

clientVars == <<lock, sd, pc, call, unsent, answer, answers>>
vars == <<clientVars, running, last_update_stamp, conn, commands, outcome, losses>>

Conns == 1 .. MaxConns
Kind(id) == commands[id].kind
Stamp(id) == commands[id].stamp

NothingSent == [cmd |-> 1, part |-> 1]
NoAnswer == [status |-> 0, lines |-> <<>>]
Unused == [server |-> "unused", closed |-> FALSE, lost |-> FALSE, to |-> <<>>, from |-> <<>>,
           rbuf |-> <<>>, batch_start |-> FALSE, batch_cmd |-> 0, wbuf |-> <<>>, out |-> <<>>]

Init ==
    /\ lock = NoThread /\ sd = 0
    /\ pc = [t \in Threads |-> "idle"]
    /\ call = [t \in Threads |-> <<>>]
    /\ unsent = [t \in Threads |-> NothingSent]
    /\ answer = [t \in Threads |-> NoAnswer]
    /\ answers = [t \in Threads |-> <<>>]
    /\ running = TRUE /\ last_update_stamp = 0
    /\ conn = [c \in Conns |-> Unused]
    /\ commands = <<>> /\ outcome = <<>> /\ losses = 0

-----------------------------------------------------------------------------
(* The client.                                                             *)

Units(id) == [k \in 1 .. Size[Kind(id)] |-> [id |-> id, part |-> k]]
IsEol(u) == u.part = Size[Kind(u.id)]

\* A new call, or the same one once more after it has failed.
Begin(t, cmds) ==
    /\ Len(commands) + Len(cmds) <= MaxCommands
    /\ commands' = commands \o cmds
    /\ outcome' = outcome \o [k \in 1 .. Len(cmds) |-> "none"]
    /\ call' = [call EXCEPT ![t] = [k \in 1 .. Len(cmds) |-> Len(commands) + k]]
    /\ answers' = [answers EXCEPT ![t] = <<>>]
    /\ pc' = [pc EXCEPT ![t] = "connect"]
    /\ UNCHANGED <<lock, sd, unsent, answer, running, last_update_stamp, conn, losses>>

NewCall(t, shape) ==
    /\ pc[t] \in {"idle", "done", "failed"}
    /\ Begin(t, [k \in 1 .. Len(shape) |->
                    [kind |-> shape[k], stamp |-> Len(commands) + k]])

Retry(t) ==
    /\ pc[t] = "failed"
    /\ Begin(t, [k \in 1 .. Len(call[t]) |-> commands[call[t][k]]])

Goto(t, l) == pc' = [pc EXCEPT ![t] = l]

\* rrdc_connect: a connection that is there is used, whatever has become of it.
Connect(t) ==
    /\ pc[t] = "connect" /\ lock = NoThread
    /\ LET unused == {c \in Conns : conn[c].server = "unused"} IN
       \/ /\ sd # 0
          /\ Goto(t, "request") /\ UNCHANGED <<sd, conn>>
       \/ /\ sd = 0 /\ running /\ unused # {}
          /\ LET c == CHOOSE c \in unused : \A d \in unused : c <= d
             IN  sd' = c /\ conn' = [conn EXCEPT ![c].server = "open"]
          /\ Goto(t, "request")
       \/ /\ sd = 0 /\ (~ running \/ unused = {})
          /\ Goto(t, "failed") /\ UNCHANGED <<sd, conn>>
    /\ UNCHANGED <<lock, call, unsent, answer, answers, running, last_update_stamp,
                   commands, outcome, losses>>

\* close_connection of the client: what has not been read is gone.
close_connection ==
    sd' = 0 /\ conn' = [conn EXCEPT ![sd].closed = TRUE, ![sd].from = <<>>]

\* rrdc_disconnect
Disconnect(t) ==
    /\ pc[t] = "done" /\ lock = NoThread /\ sd # 0
    /\ close_connection
    /\ UNCHANGED <<lock, pc, call, unsent, answer, answers, running, last_update_stamp,
                   commands, outcome, losses>>

\* rrdc_update and its like take the lock; request finds no connection, or writes.
Request(t) ==
    /\ pc[t] = "request" /\ lock = NoThread
    /\ \/ /\ sd = 0 /\ Goto(t, "failed") /\ UNCHANGED <<lock, unsent, answer>>
       \/ /\ sd # 0 /\ Goto(t, "write")
          /\ lock' = t
          /\ unsent' = [unsent EXCEPT ![t] = NothingSent]
          /\ answer' = [answer EXCEPT ![t] = NoAnswer]
    /\ UNCHANGED <<sd, call, answers, running, last_update_stamp, conn,
                   commands, outcome, losses>>

\* fwrite and fflush: the socket takes the units as long as it has room, and a broken
\* one everything.
NextUnit(t) == [id |-> call[t][unsent[t].cmd], part |-> unsent[t].part]
Advance(t) ==
    LET n == unsent[t] IN
    /\ unsent' = [unsent EXCEPT ![t] = IF IsEol(NextUnit(t)) THEN [cmd |-> n.cmd + 1, part |-> 1]
                                       ELSE [n EXCEPT !.part = @ + 1]]
    /\ Goto(t, IF IsEol(NextUnit(t)) /\ n.cmd = Len(call[t]) THEN "read" ELSE "write")
Write(t) ==
    LET broken == conn[sd].lost \/ conn[sd].server = "closed" IN
    /\ pc[t] = "write"
    /\ \/ broken /\ Goto(t, "read") /\ UNCHANGED <<unsent, conn>>
       \/ /\ ~ broken /\ Len(conn[sd].to) < MaxToDaemon
          /\ conn' = [conn EXCEPT ![sd].to = Append(@, NextUnit(t))]
          /\ Advance(t)
    /\ UNCHANGED <<lock, sd, call, answer, answers, running, last_update_stamp,
                   commands, outcome, losses>>

\* The commands that are answered at once: those outside a batch, and its end.
InBatch(ids, i) ==
    \E j \in 1 .. i - 1 : /\ Kind(ids[j]) = "batch"
                          /\ \A k \in j + 1 .. i - 1 : Kind(ids[k]) # "dot"
Answered(ids) ==
    {i \in DOMAIN ids : Kind(ids[i]) # "quit" /\ (InBatch(ids, i) => Kind(ids[i]) = "dot")}

\* The end of a request, when all is answered: the lock is released.
Return(t, got) ==
    /\ answers' = [answers EXCEPT ![t] = got]
    /\ answer' = [answer EXCEPT ![t] = NoAnswer]
    /\ IF Len(got) = Cardinality(Answered(call[t]))
       THEN Goto(t, "done") /\ lock' = NoThread
       ELSE UNCHANGED <<pc, lock>>

\* Mutant: the lock is not released when a request fails.
Die_KeepsLock(t) ==
    /\ Goto(t, "failed") /\ close_connection
    /\ UNCHANGED <<lock, answer, answers>>

\* response_read fails: the connection is closed, and the request with it.
Die(t) ==
    /\ Goto(t, "failed") /\ lock' = NoThread /\ close_connection
    /\ UNCHANGED <<answer, answers>>

\* A line of a response: the header, or one of those that follow it.
Text(line) ==
    IF line.part = 0 THEN [n |-> line.resp.status, id |-> line.resp.id]
    ELSE line.resp.lines[line.part]

\* response_read, one line: the first one has the number of those that follow.
ReadLine(t) ==
    LET line == Text(Head(conn[sd].from))
        first == answer[t].status = 0
        now == IF first THEN [status |-> line.n, lines |-> <<>>]
               ELSE [answer[t] EXCEPT !.lines = Append(@, line)]
    IN
    /\ pc[t] = "read" /\ conn[sd].from # <<>>
    /\ IF first /\ line.n = NoNumber THEN Die(t)
       ELSE /\ conn' = [conn EXCEPT ![sd].from = Tail(@)]
            /\ IF Len(now.lines) >= now.status THEN Return(t, Append(answers[t], now))
               ELSE answer' = [answer EXCEPT ![t] = now] /\ UNCHANGED <<pc, lock, answers>>
            /\ UNCHANGED sd
    /\ UNCHANGED <<call, unsent, running, last_update_stamp, commands, outcome, losses>>

\* fgets finds the end of the file.
ReadEof(t) ==
    /\ pc[t] = "read" /\ conn[sd].from = <<>>
    /\ conn[sd].server = "closed" \/ conn[sd].lost
    /\ Die(t)
    /\ UNCHANGED <<call, unsent, running, last_update_stamp, commands, outcome, losses>>

-----------------------------------------------------------------------------
(* The daemon: connection_thread_main.                                     *)

daemonOnly == <<clientVars, running, commands, losses>>

Ready(c) == conn[c].server = "open" /\ conn[c].out = <<>>
Complete(c) == \E i \in DOMAIN conn[c].rbuf : IsEol(conn[c].rbuf[i])

Closed(k) == [Unused EXCEPT !.server = "closed", !.closed = k.closed, !.lost = k.lost,
                            !.from = k.from]

\* Mutant: next_cmd does not move the remainder to the front.
ReadInto_Forgets(rbuf, chunk) == chunk

\* What has been read follows the remainder that next_cmd has moved to the front.
ReadInto(rbuf, chunk) == rbuf \o chunk

\* read: any part of what has arrived, as far as there is room.
ServerRead(c, n) ==
    /\ Ready(c) /\ ~ Complete(c) /\ running
    /\ n <= Len(conn[c].to) /\ n <= RBUF_SIZE - Len(conn[c].rbuf)
    /\ conn' = [conn EXCEPT ![c].rbuf = ReadInto(@, SubSeq(conn[c].to, 1, n)),
                            ![c].to = SubSeq(@, n + 1, Len(@))]
    /\ UNCHANGED <<daemonOnly, last_update_stamp, outcome>>

\* Mutant: the rest of a command that fills the buffer is waited for.
ServerClose_Waits(c) ==
    LET k == conn[c] IN
    /\ Ready(c) /\ ~ Complete(c)
    /\ ~ running \/ k.closed \/ (k.lost /\ k.to = <<>>)
    /\ \/ conn' = [conn EXCEPT ![c] = Closed(k)]
       \/ k.to # <<>> /\ conn' = [conn EXCEPT ![c] = [Closed(k) EXCEPT !.from = <<>>]]
    /\ UNCHANGED <<daemonOnly, last_update_stamp, outcome>>

\* The loop ends: at a shutdown, at the end of the file, when the client has hung up
\* whether or not all was read, and when a command is too long for the buffer, since
\* a read of no bytes looks like the end of the file.  Input that nobody has read
\* may take answers on their way along with it.
ServerClose(c) ==
    LET k == conn[c] IN
    /\ Ready(c) /\ ~ Complete(c)
    /\ \/ ~ running
       \/ k.closed
       \/ k.lost /\ k.to = <<>>
       \/ Len(k.rbuf) = RBUF_SIZE /\ k.to # <<>>
    /\ \/ conn' = [conn EXCEPT ![c] = Closed(k)]
       \/ k.to # <<>> /\ conn' = [conn EXCEPT ![c] = [Closed(k) EXCEPT !.from = <<>>]]
    /\ UNCHANGED <<daemonOnly, last_update_stamp, outcome>>

\* send_response and the lines after it, one write each.
ServerWrite(c) ==
    LET k == conn[c] IN
    /\ k.server = "open" /\ k.out # <<>>
    /\ ~ k.closed /\ ~ k.lost /\ Len(k.from) < MaxToClient
    /\ conn' = [conn EXCEPT ![c].from = Append(@, Head(k.out)), ![c].out = Tail(@)]
    /\ UNCHANGED <<daemonOnly, last_update_stamp, outcome>>

\* It fails; only handle_request_stats goes on.
ServerWriteFails(c) ==
    LET k == conn[c] IN
    /\ k.server = "open" /\ k.out # <<>>
    /\ k.closed \/ k.lost
    /\ conn' = [conn EXCEPT ![c] = IF Kind(Head(k.out).resp.id) = "stats"
                                   THEN [k EXCEPT !.out = <<>>] ELSE Closed(k)]
    /\ UNCHANGED <<daemonOnly, last_update_stamp, outcome>>

-----------------------------------------------------------------------------
(* The daemon: handle_request.                                             *)

\* command_check_context and find_command
Allowed(kind, batch) ==
    CASE kind = "unknown" -> FALSE
      [] kind \in {"stats", "batch"} -> ~ batch
      [] kind = "dot" -> batch
      [] kind \in {"update", "quit"} -> TRUE

\* A response to the command id: the header and the lines that it announces.
Response(id, status, info) ==
    LET resp == [id |-> id, status |-> status, lines |-> info]
    IN  [k \in 1 .. Len(info) + 1 |-> [resp |-> resp, part |-> k - 1]]

\* Of the commands of a batch only the errors are noted, with their numbers.
send_response(k, id, ok, info) ==
    IF k.batch_start
    THEN IF ok THEN k ELSE [k EXCEPT !.wbuf = Append(@, [n |-> k.batch_cmd, id |-> id])]
    ELSE IF ok THEN [k EXCEPT !.out = Response(id, Len(info), info), !.wbuf = <<>>]
    ELSE [k EXCEPT !.out = Response(id, -1, <<>>), !.wbuf = <<>>]

\* Mutant: a command is counted after it was answered.
Counted_Late(k) == k

\* handle_request counts the commands of a batch.
Counted(k) == IF k.batch_start THEN [k EXCEPT !.batch_cmd = @ + 1] ELSE k

\* A new item has the stamp 0.
IsNewer(stamp) == stamp > last_update_stamp

Answer(c, id, k, result) ==
    /\ conn' = [conn EXCEPT ![c] = k]
    /\ outcome' = [outcome EXCEPT ![id] = result]

HandleUpdate(c, id, k) ==
    IF IsNewer(Stamp(id))
    THEN /\ last_update_stamp' = Stamp(id)
         /\ Answer(c, id, send_response(k, id, TRUE, <<>>), "ok")
    ELSE /\ Answer(c, id, send_response(k, id, FALSE, <<>>), "error")
         /\ UNCHANGED last_update_stamp

HandleStats(c, id, k) ==
    LET info == [i \in 1 .. StatsLines |-> [n |-> NoNumber, id |-> id]]
    IN  Answer(c, id, send_response(k, id, TRUE, info), "ok")

BatchStart(c, id, k) ==
    Answer(c, id, [send_response(k, id, TRUE, <<>>) EXCEPT !.batch_start = TRUE,
                                                           !.batch_cmd = 0], "ok")

BatchDone(c, id, k) ==
    Answer(c, id, send_response([k EXCEPT !.batch_start = FALSE, !.batch_cmd = 0],
                                id, TRUE, k.wbuf), "ok")

\* Mutant: next_cmd drops what has come with the command.
Remainder_Lost(rbuf, eol) == <<>>

\* What follows the command that next_cmd returns.
Remainder(rbuf, eol) == SubSeq(rbuf, eol + 1, Len(rbuf))

\* next_cmd finds a line, and handle_request deals with it.
ServerCommand(c) ==
    LET rbuf == conn[c].rbuf
        eol == CHOOSE i \in DOMAIN rbuf : IsEol(rbuf[i]) /\ \A j \in 1 .. i - 1 : ~ IsEol(rbuf[j])
        id == rbuf[eol].id
        k == Counted([conn[c] EXCEPT !.rbuf = Remainder(rbuf, eol)])
        Handled(kind) == SubSeq(rbuf, 1, eol) = Units(id) /\ Kind(id) = kind
                         /\ Allowed(kind, k.batch_start)
    IN
    /\ Ready(c) /\ Complete(c)
    /\ \/ Handled("update") /\ HandleUpdate(c, id, k)
       \/ /\ \/ Handled("stats") /\ HandleStats(c, id, k)
             \/ Handled("batch") /\ BatchStart(c, id, k)
             \/ Handled("dot") /\ BatchDone(c, id, k)
             \/ Handled("quit") /\ Answer(c, id, Closed(k), "ok")
             \/ /\ ~ \E kind \in Kinds : Handled(kind)
                /\ Answer(c, id, send_response(k, id, FALSE, <<>>),
                          IF SubSeq(rbuf, 1, eol) = Units(id) THEN "error" ELSE "garbled")
          /\ UNCHANGED last_update_stamp
    /\ UNCHANGED daemonOnly

-----------------------------------------------------------------------------
(* The surroundings: the file leaves the cache, the daemon is told to      *)
(* stop, a connection is lost with part of what is on its way.             *)

\* flush_old_values removes an item without values, handle_request_forget any.
Forget ==
    /\ last_update_stamp # 0 /\ last_update_stamp' = 0
    /\ UNCHANGED <<clientVars, running, conn, commands, outcome, losses>>

Stop ==
    /\ running /\ running' = FALSE
    /\ UNCHANGED <<clientVars, last_update_stamp, conn, commands, outcome, losses>>

Lose(c) ==
    /\ losses < MaxLosses /\ losses' = losses + 1
    /\ conn[c].server = "open" /\ ~ conn[c].closed /\ ~ conn[c].lost
    /\ \E i \in 0 .. Len(conn[c].to), j \in 0 .. Len(conn[c].from) :
          conn' = [conn EXCEPT ![c].lost = TRUE, ![c].to = SubSeq(@, 1, i),
                               ![c].from = SubSeq(@, 1, j)]
    /\ UNCHANGED <<clientVars, running, last_update_stamp, commands, outcome>>

Client(t) == Connect(t) \/ Request(t) \/ Write(t) \/ ReadLine(t) \/ ReadEof(t)
Server(c) ==
    \/ \E n \in 1 .. RBUF_SIZE : ServerRead(c, n)
    \/ ServerClose(c) \/ ServerWrite(c) \/ ServerWriteFails(c) \/ ServerCommand(c)

Next ==
    \/ \E t \in Threads :
          \/ \E shape \in Calls[t] : NewCall(t, shape)
          \/ Retry(t) \/ Disconnect(t) \/ Client(t)
    \/ \E c \in Conns : Server(c) \/ Lose(c)
    \/ Forget \/ Stop

\* Threads run, and a mutex is given to a waiting thread in the end.
Fairness ==
    /\ \A t \in Threads : WF_vars(Client(t))
    /\ \A c \in Conns : WF_vars(Server(c))

Spec == Init /\ [][Next]_vars /\ Fairness

-----------------------------------------------------------------------------
(* Type invariant, with what ties the lock to the threads and the          *)
(* connection of the client to one of the daemon.                          *)
TypeOK ==
    /\ lock \in Threads \union {NoThread} /\ sd \in {0} \union Conns
    /\ \A t \in Threads :
          /\ pc[t] \in {"idle", "connect", "request", "write", "read", "done", "failed"}
          /\ pc[t] \in {"write", "read"} <=> lock = t
          /\ pc[t] = "write" => unsent[t].cmd \in DOMAIN call[t]
                                /\ unsent[t].part \in 1 .. Size[Kind(call[t][unsent[t].cmd])]
          /\ \A i \in DOMAIN call[t] : call[t][i] \in DOMAIN commands
    /\ lock # NoThread => sd # 0
    /\ sd # 0 => conn[sd].server # "unused" /\ ~ conn[sd].closed
    /\ \A c \in Conns :
          /\ Len(conn[c].rbuf) <= RBUF_SIZE /\ Len(conn[c].to) <= MaxToDaemon
          /\ Len(conn[c].from) <= MaxToClient
          /\ conn[c].batch_start \in BOOLEAN /\ conn[c].batch_cmd \in 0 .. MaxCommands
          /\ conn[c].server # "open" =>
                conn[c].rbuf = <<>> /\ conn[c].out = <<>> /\ conn[c].wbuf = <<>>

(* Commands reach handle_request whole and one by one: however the stream  *)
(* was cut into reads and writes, and whichever threads share it, next_cmd *)
(* never returns the end of one command without its beginning or together  *)
(* with another one.                                                       *)
CommandsArriveWhole == \A id \in DOMAIN outcome : outcome[id] # "garbled"

\* The place of the i-th command among those that are answered.
Rank(ids, i) == Cardinality({j \in Answered(ids) : j <= i})

\* The response that a call should get for its i-th command.
ErrorNumbers(ids, i) ==
    LET start == CHOOSE j \in 1 .. i - 1 : Kind(ids[j]) = "batch" /\ ~ InBatch(ids, j)
                                           /\ \A k \in j + 1 .. i - 1 : Kind(ids[k]) # "dot"
    IN  {<<j - start, ids[j]>> : j \in {j \in start + 1 .. i - 1 : outcome[ids[j]] = "error"}}
RightResponse(ids, i, got) ==
    LET id == ids[i] IN
    IF outcome[id] = "error" THEN got.status = -1
    ELSE CASE Kind(id) = "stats" ->
                got.status = StatsLines /\ \A l \in DOMAIN got.lines : got.lines[l].id = id
           [] Kind(id) = "dot" ->
                /\ got.status = Cardinality(ErrorNumbers(ids, i))
                /\ {<<got.lines[l].n, got.lines[l].id>> : l \in DOMAIN got.lines} = ErrorNumbers(ids, i)
           [] OTHER -> outcome[id] = "ok" /\ got.status = 0

(* A call that ends has got its own responses: one for each command        *)
(* outside a batch, in order, which says what the daemon did with it, and  *)
(* for a batch the errors with the numbers of their commands.  This holds  *)
(* for every thread that shares the connection, after connections that     *)
(* were lost or closed with answers still on their way (request,           *)
(* response_read, send_response).                                          *)
AnswersAreTheOnesOfTheCall ==
    \A t \in Threads : pc[t] = "done" =>
        LET ids == call[t] IN
        /\ Len(answers[t]) = Cardinality(Answered(ids))
        /\ \A i \in Answered(ids) : RightResponse(ids, i, answers[t][Rank(ids, i)])

(* What the daemon does of a call is a beginning of it, in order and        *)
(* without a gap, also of a call that fails anywhere on the way; and of a  *)
(* call that ends it has done everything up to the last answer, the        *)
(* commands of a batch included, which have none of their own.  So a       *)
(* program that sends a failed call again repeats a beginning of it, and   *)
(* one whose call has ended repeats nothing that has to come (next_cmd,    *)
(* request, send_response).                                                *)
CallsAreHandledInOrder ==
    \A t \in Threads : \A i, j \in DOMAIN call[t] : i < j =>
        /\ outcome[call[t][j]] # "none" => outcome[call[t][i]] # "none"
        /\ pc[t] = "done" /\ j \in Answered(call[t]) => outcome[call[t][i]] # "none"

(* Every call ends, with its responses or with a failure: neither side     *)
(* waits for the other for ever, although both block when the socket is    *)
(* full and a batch is longer than what it holds.  The errors of a batch   *)
(* wait for its end (send_response), when the client reads again.          *)
CallsEnd ==
    \A t \in Threads :
        pc[t] \in {"connect", "request", "write", "read"} ~> pc[t] \in {"done", "failed"}
=============================================================================
