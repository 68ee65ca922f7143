---------------------------- MODULE ClientRuntime ----------------------------
(***************************************************************************)
(* client.socket: one caller (the Lua thread; calls on an instance are     *)
(* serial) and one I/O thread that owns the loop and every connection.     *)
(* The caller puts a command into the runtime's only slot, wakes the loop  *)
(* and waits until the command has run (skyuv_client_runtime_call); most   *)
(* calls then wait for a request on the caller's stack, which a later      *)
(* callback of the loop completes (submit_request).  select polls each     *)
(* socket through the same slot and then sleeps until a notification.      *)
(*                                                                         *)
(* Each command and each callback runs on the I/O thread alone, and is one *)
(* step.  The revision counter is abstracted to the only thing compared:   *)
(* whether it has moved since the caller read it.  Bytes are numbered in   *)
(* the order in which the peer sends them.                                 *)
(***************************************************************************)
EXTENDS Integers, Sequences, FiniteSets

CONSTANTS MaxId,         \* INT64_MAX: ids run from 1 to MaxId
          ReceiveLimit,  \* CLIENT_RECEIVE_LIMIT
          MaxBytes,      \* bound on the bytes the peer of each connection sends
          MaxParts,      \* bound on the parts of UINT_MAX bytes in one send
          MaxSockets     \* bound on the sockets one select names

ASSUME ClientAssumption ==
  /\ MaxId \in Nat \ {0} /\ ReceiveLimit \in Nat \ {0}
  /\ MaxBytes \in [1 .. MaxId -> Nat] /\ MaxParts \in Nat /\ MaxSockets \in Nat

VARIABLES at,           \* where the caller is
          op,           \* the call in progress: its arguments and runtime->result
          poll,         \* the select in progress; revised: notified since it read the revision
          pending,      \* the command in the slot has not run yet
          request,      \* the request on the caller's stack
          async,        \* uv_async_send was called, execute has not run
          stopping,     \* destroy was called
          thread,       \* the I/O thread
          wakeup,       \* the async handle
          connections,  \* the list of connections, by id
          next_id       \* the last id handed out

callerVars == <<at, op, poll>>
slotVars == <<pending, async>>
threadVars == <<stopping, thread, wakeup>>
vars == <<callerVars, slotVars, request, threadVars, connections, next_id>>

Id == 1 .. MaxId

\* A connection when start_connect has put it into the list.  A handle is "none" before
\* it is initialized and after it has closed.  read_status is "error" for UV_EOF, too.
\* The last four fields are libuv's: whether it reads, and the requests it has not
\* called back yet.  arrived (the bytes the peer has sent) and taken (the bytes recv
\* has returned) are history.
NewConnection ==
  [tcp |-> "open", timer |-> "none", handles |-> 1, request |-> TRUE, timed_out |-> FALSE,
   received |-> << >>, arrived |-> 0, taken |-> << >>, read_status |-> "ok", paused |-> FALSE,
   write_closed |-> FALSE, read_closed |-> FALSE,
   reading |-> FALSE, connecting |-> FALSE, writing |-> FALSE, shutting |-> FALSE]

\* What the place of an id holds that is not in the list.
NoConnection == [NewConnection EXCEPT !.tcp = "none", !.handles = 0, !.request = FALSE]

Exists(id) == connections[id] # NoConnection

\* id, read and write are what connect and ready return through the request.
NoRequest == [done |-> FALSE, result |-> "ok", id |-> 0, read |-> FALSE, write |-> FALSE]

NoOp == [type |-> "none", id |-> 0, timeout |-> "none", parts |-> 0, size |-> 0,
         read |-> FALSE, write |-> FALSE, result |-> "ok"]

NoPoll == [sockets |-> {}, todo |-> {}, ready |-> FALSE, revised |-> FALSE]

Init ==
  /\ at = "creating" /\ op = NoOp /\ poll = NoPoll
  /\ pending = FALSE /\ async = FALSE /\ request = NoRequest
  /\ stopping = FALSE /\ thread = "starting" /\ wakeup = "none"
  /\ connections = [id \in Id |-> NoConnection] /\ next_id = 0
-----------------------------------------------------------------------------
\* Creation: the caller waits until the I/O thread has set up its loop or failed to.
RunStarts ==
  /\ thread = "starting"
  /\ \/ thread' = "running" /\ wakeup' = "open"
     \/ thread' = "exited" /\ wakeup' = "closed"
  /\ UNCHANGED <<callerVars, pending, async, request, stopping, connections, next_id>>

CreateReturns ==
  /\ at = "creating" /\ thread # "starting"
  /\ at' = IF thread = "running" THEN "idle" ELSE "destroyed"
  /\ UNCHANGED <<op, poll, slotVars, request, threadVars, connections, next_id>>

\* skyuv_client_runtime_call up to the wait; the mutex makes it one step.
runtime_call(o) ==
  /\ op' = o /\ request' = NoRequest
  /\ pending' = TRUE /\ async' = TRUE
  /\ at' = "call"
  /\ UNCHANGED <<threadVars, connections, next_id>>

Call(o) == at = "idle" /\ runtime_call(o) /\ UNCHANGED poll

runtime_connect ==
  \E t \in {"none", "zero", "some"} : Call([NoOp EXCEPT !.type = "connect", !.timeout = t])

runtime_close == \E id \in Id : Call([NoOp EXCEPT !.type = "close", !.id = id])

\* parts = 0 is a send of no bytes, which is submitted all the same.
runtime_send ==
  \E id \in Id, n \in 0 .. MaxParts : Call([NoOp EXCEPT !.type = "send", !.id = id, !.parts = n])

runtime_recv ==
  \E id \in Id, n \in 1 .. ReceiveLimit :
     Call([NoOp EXCEPT !.type = "recv", !.id = id, !.size = n])

runtime_shutdown ==
  \E id \in Id, r, w \in BOOLEAN :
     /\ r \/ w
     /\ Call([NoOp EXCEPT !.type = "shutdown", !.id = id, !.read = r, !.write = w])

Destroy ==
  /\ at = "idle" /\ at' = "joining"
  /\ stopping' = TRUE /\ async' = TRUE
  /\ UNCHANGED <<op, poll, pending, request, thread, wakeup, connections, next_id>>

Joined ==
  /\ at = "joining" /\ thread = "exited" /\ at' = "destroyed"
  /\ UNCHANGED <<op, poll, slotVars, request, threadVars, connections, next_id>>

\* The call is over with result r: select goes on with the next socket or gives up,
\* a long send with its next part, everything else returns to Lua.
Return(r) ==
  \/ /\ op.type = "ready" /\ r = "ok"
     /\ at' = "check" /\ op' = NoOp /\ request' = NoRequest
     /\ poll' = [poll EXCEPT !.ready = @ \/ IF op.write THEN request.write ELSE request.read]
     /\ UNCHANGED <<slotVars, threadVars, connections, next_id>>
  \/ /\ op.type = "send" /\ r = "ok" /\ op.parts > 1
     /\ runtime_call([op EXCEPT !.parts = @ - 1])
     /\ UNCHANGED poll
  \/ /\ ~(op.type = "ready" /\ r = "ok") /\ ~(op.type = "send" /\ r = "ok" /\ op.parts > 1)
     /\ at' = "idle" /\ op' = NoOp /\ poll' = NoPoll /\ request' = NoRequest
     /\ UNCHANGED <<slotVars, threadVars, connections, next_id>>

CallReturns ==
  /\ at = "call" /\ ~pending
  /\ \/ (op.type \in {"recv", "ready"} \/ op.result # "ok") /\ Return(op.result)
     \/ /\ op.type \notin {"recv", "ready"} /\ op.result = "ok" /\ at' = "request"
        /\ UNCHANGED <<op, poll, slotVars, request, threadVars, connections, next_id>>

RequestReturns == at = "request" /\ request.done /\ Return(request.result)
-----------------------------------------------------------------------------
\* select: sockets are pairs of an id and whether it is to be written.  Each round
\* reads the revision, asks for each socket, and sleeps if none is ready.
select_socket ==
  /\ at = "idle" /\ at' = "select"
  /\ \E sockets \in SUBSET (Id \X BOOLEAN) :
       /\ Cardinality(sockets) \in 1 .. MaxSockets
       /\ poll' = [NoPoll EXCEPT !.sockets = sockets]
  /\ UNCHANGED <<op, slotVars, request, threadVars, connections, next_id>>

ReadRevision ==
  /\ at = "select" /\ at' = "check"
  /\ poll' = [poll EXCEPT !.revised = FALSE, !.todo = poll.sockets, !.ready = FALSE]
  /\ UNCHANGED <<op, slotVars, request, threadVars, connections, next_id>>

runtime_ready ==
  /\ at = "check"
  /\ \E socket \in poll.todo :
       /\ poll' = [poll EXCEPT !.todo = @ \ {socket}]
       /\ runtime_call([NoOp EXCEPT !.type = "ready", !.id = socket[1], !.write = socket[2]])

\* A socket is ready, or the timeout of select has passed.
EndSelect ==
  /\ at = "check" /\ poll.todo = {}
  /\ at' = "idle" /\ poll' = NoPoll
  /\ UNCHANGED <<op, slotVars, request, threadVars, connections, next_id>>

\* The comparison of the revision and the wait are under one lock.
runtime_wait ==
  /\ at = "check" /\ poll.todo = {} /\ ~poll.ready
  /\ at' = IF poll.revised THEN "select" ELSE "wait"
  /\ UNCHANGED <<op, poll, slotVars, request, threadVars, connections, next_id>>

\* uv_cond_timedwait runs out, or either wait wakes up spuriously.
WaitEnds ==
  /\ at = "wait" /\ at' = "select"
  /\ UNCHANGED <<op, poll, slotVars, request, threadVars, connections, next_id>>

notify ==
  /\ poll' = [poll EXCEPT !.revised = poll.sockets # {}]
  /\ at' = IF at = "wait" THEN "select" ELSE at
-----------------------------------------------------------------------------
\* execute: the command in the slot, one action per command.
Execute(type) ==
  /\ async /\ wakeup = "open" /\ ~stopping /\ op.type = type
  /\ async' = FALSE /\ pending' = FALSE
  /\ UNCHANGED <<at, poll, threadVars>>

Answer(r) == op' = [op EXCEPT !.result = r]

\* The command refuses, without a trace.
Refuse(r) == Answer(r) /\ UNCHANGED <<request, connections, next_id>>

\* The command completes its request at once.
Complete == /\ Answer("ok") /\ request' = [request EXCEPT !.done = TRUE]
            /\ UNCHANGED <<connections, next_id>>

Change(id, c) == connections' = [connections EXCEPT ![id] = c]

uv_close(handle) == IF handle = "open" THEN "closing" ELSE handle

close_connection_keeps_timer(c) == [c EXCEPT !.tcp = uv_close(@), !.reading = FALSE]

close_connection(c) ==
  [c EXCEPT !.tcp = uv_close(@), !.timer = uv_close(@), !.reading = FALSE]

\* outcome is the step of start_connect that fails: "init" is uv_timer_init, "start"
\* uv_timer_start or uv_tcp_connect.  Failures also end in the close callback.
start_connect_uncounted(timeout, outcome) ==
  LET c == [NewConnection EXCEPT !.timer = IF timeout = "some" THEN "open" ELSE "none"]
  IN  IF timeout = "zero" \/ outcome # "ok" THEN close_connection(c)
      ELSE [c EXCEPT !.connecting = TRUE]

start_connect(timeout, outcome) ==
  LET timed == timeout = "some" /\ outcome # "init"
      c == [NewConnection EXCEPT !.timer = IF timed THEN "open" ELSE "none",
                                 !.handles = IF timed THEN 2 ELSE 1]
  IN  IF timeout = "zero" \/ outcome # "ok" THEN close_connection(c)
      ELSE [c EXCEPT !.connecting = TRUE]

StartConnect ==
  /\ Execute("connect")
  /\ \/ /\ next_id < MaxId
        /\ \E outcome \in {"ok", "init", "start"} :
             /\ Change(next_id + 1, start_connect(op.timeout, outcome))
             /\ request' = [request EXCEPT !.result = IF op.timeout = "zero" THEN "ETIMEDOUT"
                                                     ELSE IF outcome = "ok" THEN @ ELSE "error"]
        /\ Answer("ok") /\ UNCHANGED next_id
     \/ Refuse("error")    \* UV_ENOSPC, UV_ENOMEM or uv_tcp_init

StartClose ==
  /\ Execute("close")
  /\ \/ /\ Exists(op.id)
        /\ Change(op.id, close_connection([connections[op.id] EXCEPT !.request = TRUE]))
        /\ Answer("ok") /\ UNCHANGED <<request, next_id>>
     \/ ~Exists(op.id) /\ op.id <= next_id /\ Complete
     \/ ~Exists(op.id) /\ op.id > next_id /\ Refuse("EBADF")

StartSend ==
  /\ Execute("send")
  /\ \/ ~Exists(op.id) /\ Refuse("EBADF")
     \/ Exists(op.id) /\ connections[op.id].write_closed /\ Refuse("EPIPE")
     \/ /\ Exists(op.id) /\ ~connections[op.id].write_closed
        /\ \/ op.parts = 0 /\ Complete
           \/ /\ op.parts > 0
              /\ Change(op.id, [connections[op.id] EXCEPT !.writing = TRUE])
              /\ Answer("ok") /\ UNCHANGED <<request, next_id>>
           \/ op.parts > 0 /\ Refuse("error")    \* uv_write

\* The bytes taken leave the front of the buffer.  Reading starts again if the full
\* buffer had stopped it; ok is the result of uv_read_start.
receive_data_from_end(c, size, ok) ==
  LET n == IF size > Len(c.received) THEN Len(c.received) ELSE size
      resume == c.paused /\ c.read_status = "ok"
  IN  [c EXCEPT !.taken = @ \o SubSeq(c.received, 1, n),
                !.received = SubSeq(@, 1, Len(@) - n),
                !.reading = @ \/ (resume /\ ok),
                !.read_status = IF resume /\ ~ok THEN "error" ELSE @,
                !.paused = @ /\ ~resume]

receive_data_stays_paused(c, size, ok) ==
  LET n == IF size > Len(c.received) THEN Len(c.received) ELSE size
  IN  [c EXCEPT !.taken = @ \o SubSeq(c.received, 1, n),
                !.received = SubSeq(@, n + 1, Len(@))]

receive_data(c, size, ok) ==
  LET n == IF size > Len(c.received) THEN Len(c.received) ELSE size
      resume == c.paused /\ c.read_status = "ok"
  IN  [c EXCEPT !.taken = @ \o SubSeq(c.received, 1, n),
                !.received = SubSeq(@, n + 1, Len(@)),
                !.reading = @ \/ (resume /\ ok),
                !.read_status = IF resume /\ ~ok THEN "error" ELSE @,
                !.paused = @ /\ ~resume]

ReceiveData ==
  /\ Execute("recv")
  /\ \/ ~Exists(op.id) /\ Refuse("EBADF")
     \/ /\ Exists(op.id) /\ connections[op.id].received = << >>
        /\ Refuse(IF connections[op.id].read_status = "ok" THEN "EAGAIN" ELSE "error")
     \/ /\ Exists(op.id) /\ connections[op.id].received # << >>
        /\ \E ok \in BOOLEAN : Change(op.id, receive_data(connections[op.id], op.size, ok))
        /\ Answer("ok") /\ UNCHANGED <<request, next_id>>

\* The read side first: if shutting it fails the write side is left alone.  The write
\* side counts as closed even if uv_shutdown refuses.
StartShutdown ==
  /\ Execute("shutdown")
  /\ LET c == connections[op.id]
         reads == op.read /\ ~c.read_closed
         writes == op.write /\ ~c.write_closed
         shut == [c EXCEPT !.reading = @ /\ ~reads, !.read_closed = @ \/ reads,
                           !.read_status = IF reads THEN "error" ELSE @,
                           !.write_closed = @ \/ writes]
     IN  \/ ~Exists(op.id) /\ Refuse("EBADF")
         \/ Exists(op.id) /\ reads /\ Refuse("error")
         \/ /\ Exists(op.id) /\ writes
            /\ \E ok \in BOOLEAN : /\ Change(op.id, [shut EXCEPT !.shutting = ok])
                                  /\ Answer(IF ok THEN "ok" ELSE "error")
            /\ UNCHANGED <<request, next_id>>
         \/ /\ Exists(op.id) /\ ~writes
            /\ Change(op.id, shut)
            /\ Answer("ok") /\ request' = [request EXCEPT !.done = TRUE]
            /\ UNCHANGED next_id

CheckReady ==
  /\ Execute("ready")
  /\ \/ ~Exists(op.id) /\ Refuse("EBADF")
     \/ /\ Exists(op.id)
        /\ LET c == connections[op.id] IN
           request' = [request EXCEPT !.read = c.received # << >> \/ c.read_status # "ok",
                                      !.write = ~c.write_closed]
        /\ Answer("ok") /\ UNCHANGED <<connections, next_id>>

\* execute after destroy: every connection, and then what is left of the loop's
\* handles, that is the async.
Stop_keeps_wakeup ==
  /\ async /\ wakeup = "open" /\ stopping /\ async' = FALSE
  /\ connections' = [id \in Id |-> close_connection(connections[id])]
  /\ UNCHANGED <<callerVars, pending, request, threadVars, next_id>>

Stop ==
  /\ async /\ wakeup = "open" /\ stopping /\ async' = FALSE
  /\ connections' = [id \in Id |-> close_connection(connections[id])]
  /\ wakeup' = "closing"
  /\ UNCHANGED <<callerVars, pending, request, stopping, thread, next_id>>
-----------------------------------------------------------------------------
\* Callbacks of the loop.
LoopKeeps == UNCHANGED <<op, slotVars, threadVars>>

\* The connect request of a closing handle is called back with UV_ECANCELED.  A
\* connection that could not be made, or not be read, is closed and answered by its
\* close callbacks.
connected_ignores_timeout(id, ok) ==
  LET c == [connections[id] EXCEPT !.connecting = FALSE, !.timer = uv_close(@)]
  IN  /\ ~ok
      /\ Change(id, close_connection(c)) /\ request' = [request EXCEPT !.result = "error"]
      /\ UNCHANGED next_id

connected(id, ok) ==
  LET back == [connections[id] EXCEPT !.connecting = FALSE]
      c == [back EXCEPT !.timer = uv_close(@)]
  IN  \/ back.timed_out /\ Change(id, back) /\ UNCHANGED <<request, next_id>>
      \/ /\ ~back.timed_out /\ ~ok
         /\ Change(id, close_connection(c)) /\ request' = [request EXCEPT !.result = "error"]
         /\ UNCHANGED next_id
      \/ /\ ~back.timed_out /\ ok
         /\ Change(id, [c EXCEPT !.reading = TRUE, !.request = FALSE])
         /\ request' = [request EXCEPT !.done = TRUE, !.result = "ok", !.id = id]
         /\ next_id' = id

Connected(id) ==
  /\ connections[id].connecting
  /\ \E ok \in BOOLEAN : (ok => connections[id].tcp = "open") /\ connected(id, ok)
  /\ UNCHANGED <<at, poll>> /\ LoopKeeps

ConnectionTimeout(id) ==
  /\ connections[id].timer = "open"
  /\ Change(id, close_connection([connections[id] EXCEPT !.timed_out = TRUE]))
  /\ request' = [request EXCEPT !.result = "ETIMEDOUT"]
  /\ UNCHANGED <<at, poll, next_id>> /\ LoopKeeps

\* n bytes arrive; the buffer that allocate_read offers is the room left.
Received(id) ==
  /\ connections[id].reading
  /\ LET c == connections[id] IN
     \E n \in 1 .. ReceiveLimit - Len(c.received) :
       /\ c.arrived + n <= MaxBytes[id]
       /\ LET full == Len(c.received) + n = ReceiveLimit IN
          Change(id, [c EXCEPT !.received = @ \o [k \in 1 .. n |-> c.arrived + k],
                               !.arrived = @ + n, !.reading = ~full, !.paused = @ \/ full])
  /\ notify /\ UNCHANGED <<request, next_id>> /\ LoopKeeps

\* EOF or an error.
ReceivedEnd_silent(id) ==
  /\ connections[id].reading
  /\ Change(id, [connections[id] EXCEPT !.read_status = "error", !.reading = FALSE])
  /\ UNCHANGED <<at, poll, request, next_id>> /\ LoopKeeps

ReceivedEnd(id) ==
  /\ connections[id].reading
  /\ Change(id, [connections[id] EXCEPT !.read_status = "error", !.reading = FALSE])
  /\ notify /\ UNCHANGED <<request, next_id>> /\ LoopKeeps

complete(r) == request' = [request EXCEPT !.done = TRUE, !.result = r]

Written(id) ==
  /\ connections[id].writing
  /\ Change(id, [connections[id] EXCEPT !.writing = FALSE])
  /\ \E r \in {"ok", "error"} : complete(r)
  /\ UNCHANGED <<at, poll, next_id>> /\ LoopKeeps

ShutdownDone(id) ==
  /\ connections[id].shutting
  /\ Change(id, [connections[id] EXCEPT !.shutting = FALSE])
  /\ \E r \in {"ok", "error"} : complete(r)
  /\ UNCHANGED <<at, poll, next_id>> /\ LoopKeeps

\* One of the connection's handles has closed; c is the connection with that handle
\* closed.  The last one frees the connection and answers the request it points to.
connection_closed_early(id, c) ==
  /\ Change(id, IF c.handles > 1 THEN [c EXCEPT !.handles = @ - 1] ELSE NoConnection)
  /\ request' = [request EXCEPT !.done = @ \/ c.request]
  /\ UNCHANGED next_id

connection_closed(id, c) ==
  /\ \/ /\ c.handles > 1
        /\ Change(id, [c EXCEPT !.handles = @ - 1]) /\ UNCHANGED request
     \/ /\ c.handles = 1
        /\ Change(id, NoConnection)
        /\ request' = [request EXCEPT !.done = @ \/ c.request]
  /\ UNCHANGED next_id

TcpClosed(id) ==
  LET c == connections[id] IN
  /\ c.tcp = "closing" /\ ~c.connecting /\ ~c.writing /\ ~c.shutting
  /\ connection_closed(id, [c EXCEPT !.tcp = "none"])
  /\ UNCHANGED <<at, poll>> /\ LoopKeeps

TimerClosed(id) ==
  /\ connections[id].timer = "closing"
  /\ connection_closed(id, [connections[id] EXCEPT !.timer = "none"])
  /\ UNCHANGED <<at, poll>> /\ LoopKeeps

\* uv_run returns once no handle is left, and the thread ends.
RunEnds ==
  /\ thread = "running" /\ wakeup = "closing" /\ \A id \in Id : ~Exists(id)
  /\ thread' = "exited" /\ wakeup' = "closed"
  /\ UNCHANGED <<callerVars, slotVars, request, stopping, connections, next_id>>
-----------------------------------------------------------------------------
\* Steps a thread takes of its own accord once it can: returns of the caller, and
\* on the loop everything that does not wait for the peer or the network.
CallerStep ==
  CreateReturns \/ Joined \/ CallReturns \/ RequestReturns
  \/ ReadRevision \/ runtime_ready \/ EndSelect \/ runtime_wait

CommandStep ==
  StartConnect \/ StartClose \/ StartSend \/ ReceiveData \/ StartShutdown \/ CheckReady \/ Stop

CloseStep(id) ==
  \/ ConnectionTimeout(id) \/ TcpClosed(id) \/ TimerClosed(id)
  \/ connections[id].tcp = "closing" /\ Connected(id)

LoopStep == RunStarts \/ CommandStep \/ (\E id \in Id : CloseStep(id)) \/ RunEnds

CallStart ==
  \/ runtime_connect \/ runtime_close \/ runtime_send \/ runtime_recv \/ runtime_shutdown
  \/ select_socket \/ Destroy

NetworkStep(id) ==
  Connected(id) \/ Received(id) \/ ReceivedEnd(id) \/ Written(id) \/ ShutdownDone(id)

Next == CallStart \/ CallerStep \/ WaitEnds \/ LoopStep \/ \E id \in Id : NetworkStep(id)

Spec == Init /\ [][Next]_vars

FairSpec == Spec /\ WF_vars(CallerStep) /\ WF_vars(LoopStep)
-----------------------------------------------------------------------------
\* A connection counts exactly the handles of it that have not closed, so it is freed
\* after the last close callback and not before (connection_closed; a handle whose
\* connection is freed would call back into freed memory).
HandlesExact ==
  \A id \in Id :
     connections[id].handles = (IF connections[id].tcp = "none" THEN 0 ELSE 1)
                             + (IF connections[id].timer = "none" THEN 0 ELSE 1)

\* Every pointer the loop keeps to a request (connection->request, and the data of a
\* write or shutdown in flight) points to the request the caller is waiting on: the
\* request is on the caller's stack and no callback comes after it is gone.
RequestOutlivesUse ==
  \A id \in Id : LET c == connections[id] IN
     /\ c.request => at \in {"call", "request"} /\ ~request.done /\
                     (op.type = "connect" \/ (op.type = "close" /\ op.id = id))
     /\ c.writing => at \in {"call", "request"} /\ ~request.done /\
                     op.type = "send" /\ op.id = id
     /\ c.shutting => at \in {"call", "request"} /\ ~request.done /\
                      op.type = "shutdown" /\ op.id = id

\* A connect that timed out says so: the cancelled connect request that calls back
\* later does not replace the reason (connected returns early).
TimeoutReported ==
  \A id \in Id : connections[id].timed_out => request.result = "ETIMEDOUT"

\* recv returns the peer's bytes in order, none twice and none dropped, through the
\* bounded buffer (received, receive_data).
BytesInOrder ==
  \A id \in Id : LET c == connections[id] IN
     c.taken \o c.received = [k \in 1 .. c.arrived |-> k] /\ Len(c.received) <= ReceiveLimit

\* A connected socket reads whenever it has room and has not ended: backpressure never
\* leaves it stopped (received pauses, receive_data resumes), and libuv is never
\* offered an empty buffer (allocate_read).
ReadsWhileRoom ==
  \A id \in Id : LET c == connections[id] IN
     c.tcp = "open" /\ ~c.connecting =>
       (c.reading <=> c.read_status = "ok" /\ Len(c.received) < ReceiveLimit)

\* select never sleeps on a socket that is ready: what arrives after it was asked
\* about moves the revision (select_socket, notify, skyuv_client_runtime_wait).
SleepsOnlyIfNothingReady ==
  at = "wait" =>
    \A socket \in poll.sockets : LET c == connections[socket[1]] IN
      IF socket[2] THEN c.write_closed ELSE c.received = << >> /\ c.read_status = "ok"

\* A connect with a timeout returns, whatever the network does (connection_timeout).
TimedConnectReturns ==
  (op.type = "connect" /\ op.timeout # "none") ~> at = "idle"

\* destroy returns, whatever connections and timers are still there (execute, run).
DestroyReturns == at = "joining" ~> at = "destroyed"
=============================================================================
