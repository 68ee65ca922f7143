------------------------ MODULE ClientRuntimeProofs -------------------------
(***************************************************************************)
(* Proofs about ClientRuntime, for any number of connections, bytes and    *)
(* sockets.                                                                *)
(*                                                                         *)
(* What holds of a connection by itself is Local; every function that      *)
(* changes a connection keeps it (first section).  How connections, the    *)
(* caller and its request fit together is ClientInv; it holds because      *)
(* calls are serial: while a command is pending nothing in the loop points *)
(* to a request, so a command always meets connections that are open.      *)
(***************************************************************************)
EXTENDS ClientRuntime, TLAPS

Handle == {"none", "open", "closing"}

Status == {"ok", "error"}

Connection ==
  [tcp : Handle, timer : Handle, handles : Nat, request : BOOLEAN, timed_out : BOOLEAN,
   received : Seq(Nat), arrived : Nat, taken : Seq(Nat), read_status : Status, paused : BOOLEAN,
   write_closed : BOOLEAN, read_closed : BOOLEAN,
   reading : BOOLEAN, connecting : BOOLEAN, writing : BOOLEAN, shutting : BOOLEAN]

Counted(c) ==
  c.handles = (IF c.tcp = "none" THEN 0 ELSE 1) + (IF c.timer = "none" THEN 0 ELSE 1)

\* The first m bytes of the peer, and the n bytes after them.
Bytes(m) == [k \in 1 .. m |-> k]

Following(m, n) == [k \in 1 .. n |-> m + k]

InOrder(c) ==
  c.taken \o c.received = Bytes(c.arrived) /\ Len(c.received) <= ReceiveLimit

\* A connected socket reads while it has room, and paused says that it has none.
Flowing(c) ==
  c.tcp = "open" /\ ~c.connecting =>
    /\ c.reading <=> c.read_status = "ok" /\ Len(c.received) < ReceiveLimit
    /\ c.read_status = "ok" => (c.paused <=> Len(c.received) = ReceiveLimit)

\* A socket that is being connected has received nothing and its request waits for it; only
\* such a socket has a timer that runs.
Fresh(c) ==
  /\ c.connecting => /\ c.request /\ ~c.reading /\ ~c.paused
                     /\ c.received = << >> /\ c.read_status = "ok"
  /\ c.timer = "open" => c.connecting
  /\ c.timed_out => c.request /\ c.tcp # "open" /\ c.timer # "open"

\* libuv's requests come back before the close callback.
Quiet(c) == c.tcp = "none" => ~c.connecting /\ ~c.writing /\ ~c.shutting

Local(c) ==
  c \in Connection /\ Counted(c) /\ InOrder(c) /\ Flowing(c) /\ Fresh(c) /\ Quiet(c)
-----------------------------------------------------------------------------
ReturnCode == {"ok", "error", "ETIMEDOUT", "EBADF", "EPIPE", "EAGAIN"}

Operation ==
  [type : {"none", "connect", "close", "send", "recv", "shutdown", "ready"}, id : Nat,
   timeout : {"none", "zero", "some"}, parts : Nat, size : Nat, read : BOOLEAN,
   write : BOOLEAN, result : ReturnCode]

RequestRecord == [done : BOOLEAN, result : ReturnCode, id : Nat, read : BOOLEAN, write : BOOLEAN]

Socket == Id \X BOOLEAN

PollRecord == [sockets : SUBSET Socket, todo : SUBSET Socket, ready : BOOLEAN, revised : BOOLEAN]

ClientTypeInv ==
  /\ at \in {"creating", "idle", "call", "request", "select", "check", "wait", "joining",
             "destroyed"}
  /\ op \in Operation /\ poll \in PollRecord /\ request \in RequestRecord
  /\ pending \in BOOLEAN /\ async \in BOOLEAN /\ stopping \in BOOLEAN
  /\ wakeup \in {"none", "open", "closing", "closed"}
  /\ next_id \in 0 .. MaxId
  /\ connections \in [Id -> Connection]

\* A command is pending only while its caller waits for it, and is executed once; what
\* it names exists in the type of its call.
Serial ==
  /\ pending => at = "call" /\ ~request.done
  /\ async /\ ~stopping => pending
  /\ stopping => at \in {"joining", "destroyed"}
  /\ op.type \in {"close", "send", "recv", "shutdown", "ready"} => op.id \in Id
  /\ op.type = "recv" => op.size > 0
  /\ at = "request" => op.result = "ok" /\ op.type # "ready"

\* The command has run without an error and its caller waits for the request.
Awaited == at \in {"call", "request"} /\ ~pending /\ op.result = "ok" /\ ~request.done

PointsTo(id) ==
  LET c == connections[id] IN
  /\ c.request => Awaited /\ \/ op.type = "connect" /\ id = next_id + 1
                             \/ op.type = "close" /\ op.id = id
  /\ c.writing => Awaited /\ op.type = "send" /\ op.id = id
  /\ c.shutting => Awaited /\ op.type = "shutdown" /\ op.id = id
  /\ c.timed_out => request.result = "ETIMEDOUT"
  /\ c # NoConnection /\ c.tcp # "open" => c.request \/ stopping

\* socket is not ready: select would sleep on it.
NotReady(socket) ==
  LET c == connections[socket[1]] IN
  IF socket[2] THEN c.write_closed ELSE c.received = << >> /\ c.read_status = "ok"

Selecting == at \in {"check", "wait"} \/ (at = "call" /\ op.type = "ready")

\* The sockets select has asked about in this round are not ready unless it has been
\* notified since; the answer about the last one may still be in the request.
Asked ==
  /\ at = "wait" => ~poll.revised /\ ~poll.ready /\ poll.todo = {}
  /\ Selecting /\ ~poll.revised /\ ~poll.ready =>
       \A socket \in poll.sockets \ poll.todo :
          \/ NotReady(socket)
          \/ /\ at = "call" /\ socket = <<op.id, op.write>>
             /\ pending \/ op.result # "ok" \/ (IF op.write THEN request.write ELSE request.read)

ClientInv ==
  /\ ClientTypeInv /\ Serial
  /\ \A id \in Id : Local(connections[id]) /\ PointsTo(id)
  /\ Asked
-----------------------------------------------------------------------------
(* What the functions that change a connection keep.                        *)

SamePointers(d, c) ==
  d.request = c.request /\ d.writing = c.writing /\ d.shutting = c.shutting
  /\ d.timed_out = c.timed_out

SameReadiness(d, c) ==
  d.write_closed = c.write_closed /\ d.received = c.received /\ d.read_status = c.read_status

\* Sequence facts: an empty one, and appending what was split off.
LEMMA NoBytes ==
  << >> \o << >> = Bytes(0) /\ << >> \in Seq(Nat) /\ Len(<< >>) = 0
  BY DEF Bytes

LEMMA NoConnectionLocal ==
  /\ Local(NoConnection)
  /\ NoConnection.tcp = "none" /\ ~NoConnection.request /\ ~NoConnection.writing
  /\ ~NoConnection.shutting /\ ~NoConnection.timed_out /\ ~NoConnection.write_closed
  /\ NoConnection.received = << >> /\ NoConnection.read_status = "ok"
  /\ ~NoConnection.reading /\ NoConnection.timer = "none"
  <1> DEFINE c == NoConnection
  <1>1. /\ c.tcp = "none" /\ c.timer = "none" /\ c.handles = 0 /\ c.request = FALSE
        /\ c.timed_out = FALSE /\ c.received = << >> /\ c.arrived = 0 /\ c.taken = << >>
        /\ c.read_status = "ok" /\ c.paused = FALSE /\ c.write_closed = FALSE
        /\ c.read_closed = FALSE /\ c.reading = FALSE /\ c.connecting = FALSE
        /\ c.writing = FALSE /\ c.shutting = FALSE
    BY Zenon DEF NoConnection, NewConnection
  <1>2. 0 \in Nat /\ 1 \in Nat
    OBVIOUS
  <1>3. c \in Connection
    BY <1>2, NoBytes, Zenon DEF NoConnection, NewConnection, Connection, Handle, Status
  <1> HIDE DEF c
  <1>4. Local(c)
    BY <1>1, <1>3, NoBytes, ClientAssumption DEF Local, Counted, InOrder, Flowing, Fresh, Quiet
  <1>5. QED
    BY <1>1, <1>4, Zenon DEF c

LEMMA SameInOrder ==
  ASSUME NEW c, InOrder(c), NEW d,
         d.taken = c.taken, d.received = c.received, d.arrived = c.arrived
  PROVE  InOrder(d)
  BY Zenon DEF InOrder

LEMMA UvClose ==
  \A handle \in Handle : uv_close(handle) \in Handle /\ uv_close(handle) # "open"
  BY DEF Handle, uv_close

LEMMA CloseFields ==
  ASSUME NEW c \in Connection
  PROVE  LET d == close_connection(c) IN
         /\ d \in Connection
         /\ d.tcp = uv_close(c.tcp) /\ d.timer = uv_close(c.timer) /\ d.reading = FALSE
         /\ d.handles = c.handles /\ d.arrived = c.arrived /\ d.taken = c.taken
         /\ d.paused = c.paused /\ d.connecting = c.connecting
         /\ SamePointers(d, c) /\ SameReadiness(d, c)
  BY UvClose, Zenon DEF Connection, close_connection, SamePointers, SameReadiness

\* close_connection leaves the requests in flight to their callbacks.
LEMMA CloseLocal ==
  ASSUME NEW c, Local(c), NEW d, d = close_connection(c)
  PROVE  Local(d) /\ SamePointers(d, c) /\ SameReadiness(d, c) /\ d.tcp # "open"
  <1>1. /\ d \in Connection
        /\ d.tcp = uv_close(c.tcp) /\ d.timer = uv_close(c.timer) /\ d.reading = FALSE
        /\ d.handles = c.handles /\ d.arrived = c.arrived /\ d.taken = c.taken
        /\ d.paused = c.paused /\ d.connecting = c.connecting
        /\ SamePointers(d, c) /\ SameReadiness(d, c)
    BY CloseFields, Zenon DEF Local
  <1>2. InOrder(d)
    BY <1>1, SameInOrder, Zenon DEF Local, SameReadiness
  <1>3. Counted(d)
    BY <1>1 DEF Local, Counted, uv_close
  <1>4. Flowing(d) /\ Fresh(d) /\ Quiet(d) /\ d.tcp # "open"
    BY <1>1 DEF Local, Flowing, Fresh, Quiet, uv_close, SamePointers, SameReadiness
  <1>5. QED
    BY <1>1, <1>2, <1>3, <1>4, Zenon DEF Local

\* A new connection is open and waits for its connect, or has failed and is closing; its
\* request points to it in both cases.
LEMMA StartConnectLocal ==
  ASSUME NEW timeout, NEW outcome, NEW d, d = start_connect(timeout, outcome)
  PROVE  Local(d) /\ d.request /\ ~d.timed_out /\ ~d.writing /\ ~d.shutting
  <1> DEFINE timed == timeout = "some" /\ outcome # "init"
             fails == timeout = "zero" \/ outcome # "ok"
             c == [NewConnection EXCEPT !.timer = IF timed THEN "open" ELSE "none",
                                        !.handles = IF timed THEN 2 ELSE 1]
  <1>1. d = IF fails THEN close_connection(c) ELSE [c EXCEPT !.connecting = TRUE]
    BY Zenon DEF start_connect
  <1>2. 0 \in Nat /\ 1 \in Nat /\ (IF timed THEN 2 ELSE 1) \in Nat
    OBVIOUS
  <1>3. c \in Connection
    BY <1>2, NoBytes, Zenon DEF NewConnection, Connection, Handle, Status
  <1>4. /\ c.tcp = "open" /\ c.timer = (IF timed THEN "open" ELSE "none")
        /\ c.handles = (IF timed THEN 2 ELSE 1) /\ c.request = TRUE
        /\ c.timed_out = FALSE /\ c.received = << >> /\ c.arrived = 0 /\ c.taken = << >>
        /\ c.read_status = "ok" /\ c.paused = FALSE /\ c.reading = FALSE
        /\ c.connecting = FALSE /\ c.writing = FALSE /\ c.shutting = FALSE
    BY Zenon DEF NewConnection
  <1> HIDE DEF timed, fails, c
  <1>5. CASE fails
    <2>1. d = close_connection(c)
      BY <1>1, <1>5
    <2>2. /\ d \in Connection
          /\ d.tcp = uv_close(c.tcp) /\ d.timer = uv_close(c.timer) /\ d.reading = FALSE
          /\ d.handles = c.handles /\ d.arrived = c.arrived /\ d.taken = c.taken
          /\ d.paused = c.paused /\ d.connecting = c.connecting
          /\ SamePointers(d, c) /\ SameReadiness(d, c)
      BY <1>3, <2>1, CloseFields, ZenonT(40)
    <2>3. QED
      BY <1>4, <2>2, NoBytes, ClientAssumption
      DEF Local, Counted, InOrder, Flowing, Fresh, Quiet, uv_close, SamePointers, SameReadiness
  <1>6. CASE ~fails
    <2>1. d \in Connection
      BY <1>1, <1>3, <1>6, Zenon DEF Connection
    <2>2. /\ d.tcp = "open" /\ d.timer = c.timer /\ d.reading = FALSE
          /\ d.handles = c.handles /\ d.arrived = 0 /\ d.taken = << >> /\ d.received = << >>
          /\ d.read_status = "ok" /\ d.paused = FALSE /\ d.connecting = TRUE
          /\ d.request = TRUE /\ d.timed_out = FALSE /\ d.writing = FALSE /\ d.shutting = FALSE
      BY <1>1, <1>3, <1>4, <1>6, Zenon DEF Connection
    <2>3. QED
      BY <1>4, <2>1, <2>2, NoBytes, ClientAssumption
      DEF Local, Counted, InOrder, Flowing, Fresh, Quiet
  <1>7. QED
    BY <1>5, <1>6

\* A connection that is closed on request.
LEMMA CloseRequestLocal ==
  ASSUME NEW c, Local(c), NEW d, d = close_connection([c EXCEPT !.request = TRUE])
  PROVE  /\ Local(d) /\ d.request /\ d.tcp # "open" /\ SameReadiness(d, c)
         /\ d.writing = c.writing /\ d.shutting = c.shutting /\ d.timed_out = c.timed_out
  <1>1. PICK b : b = [c EXCEPT !.request = TRUE]
    OBVIOUS
  <1>2. b \in Connection
    BY <1>1, Zenon DEF Local, Connection
  <1>3. /\ b.tcp = c.tcp /\ b.timer = c.timer /\ b.reading = c.reading
        /\ b.handles = c.handles /\ b.arrived = c.arrived /\ b.taken = c.taken
        /\ b.paused = c.paused /\ b.connecting = c.connecting /\ SameReadiness(b, c)
        /\ b.writing = c.writing /\ b.shutting = c.shutting /\ b.timed_out = c.timed_out
        /\ b.request = TRUE
    BY <1>1, Zenon DEF Local, Connection, SameReadiness
  <1>4. Local(b)
    <2>1. InOrder(b)
      BY <1>3, SameInOrder, Zenon DEF Local, SameReadiness
    <2>2. QED
      BY <1>2, <1>3, <2>1 DEF Local, Counted, Flowing, Fresh, Quiet, SameReadiness
  <1>5. QED
    BY Zenon, <1>1, <1>3, <1>4, CloseLocal DEF SamePointers, SameReadiness

\* The timer of a connect has fired.
LEMMA TimeoutLocal ==
  ASSUME NEW c, Local(c), c.timer = "open",
         NEW d, d = close_connection([c EXCEPT !.timed_out = TRUE])
  PROVE  /\ Local(d) /\ d.tcp # "open" /\ SameReadiness(d, c)
         /\ d.request = c.request /\ d.writing = c.writing /\ d.shutting = c.shutting
  <1>1. PICK b : b = [c EXCEPT !.timed_out = TRUE]
    OBVIOUS
  <1>2. b \in Connection
    BY <1>1, Zenon DEF Local, Connection
  <1>3. /\ b.tcp = c.tcp /\ b.timer = c.timer /\ b.reading = c.reading
        /\ b.handles = c.handles /\ b.arrived = c.arrived /\ b.taken = c.taken
        /\ b.paused = c.paused /\ b.connecting = c.connecting /\ SameReadiness(b, c)
        /\ b.writing = c.writing /\ b.shutting = c.shutting /\ b.request = c.request
        /\ b.timed_out = TRUE
    BY <1>1, Zenon DEF Local, Connection, SameReadiness
  <1>4. d = close_connection(b)
    BY <1>1
  <1>5. /\ d \in Connection
        /\ d.tcp = uv_close(b.tcp) /\ d.timer = uv_close(b.timer) /\ d.reading = FALSE
        /\ d.handles = b.handles /\ d.arrived = b.arrived /\ d.taken = b.taken
        /\ d.paused = b.paused /\ d.connecting = b.connecting
        /\ SamePointers(d, b) /\ SameReadiness(d, b)
    BY <1>2, <1>4, CloseFields, Zenon
  <1>6. InOrder(d)
    BY <1>3, <1>5, SameInOrder, Zenon DEF Local, SameReadiness
  <1>7. Counted(d)
    BY <1>3, <1>5 DEF Local, Counted, uv_close
  <1>8. Flowing(d) /\ Fresh(d) /\ Quiet(d)
    BY <1>3, <1>5 DEF Local, Flowing, Fresh, Quiet, uv_close, SamePointers, SameReadiness
  <1>9. QED
    BY <1>3, <1>5, <1>6, <1>7, <1>8 DEF Local, uv_close, SamePointers, SameReadiness

\* The cancelled connect of a connection that has timed out calls back.
LEMMA CancelledLocal ==
  ASSUME NEW c, Local(c), c.timed_out, NEW d, d = [c EXCEPT !.connecting = FALSE]
  PROVE  Local(d) /\ SamePointers(d, c) /\ SameReadiness(d, c) /\ d.tcp = c.tcp
  <1>1. d \in Connection
    BY Zenon DEF Local, Connection
  <1>2. /\ d.tcp = c.tcp /\ d.timer = c.timer /\ d.reading = c.reading
        /\ d.handles = c.handles /\ d.arrived = c.arrived /\ d.taken = c.taken
        /\ d.paused = c.paused /\ d.connecting = FALSE
        /\ SamePointers(d, c) /\ SameReadiness(d, c)
    BY Zenon DEF Local, Connection, SamePointers, SameReadiness
  <1>3. InOrder(d)
    BY <1>1, <1>2, SameInOrder, Zenon DEF Local, SameReadiness
  <1>4. Counted(d)
    BY <1>1, <1>2 DEF Local, Counted
  <1>5. Flowing(d) /\ Fresh(d) /\ Quiet(d)
    BY <1>1, <1>2 DEF Local, Flowing, Fresh, Quiet, SamePointers, SameReadiness
  <1>6. QED
    BY Zenon, <1>1, <1>2, <1>3, <1>4, <1>5 DEF Local, SamePointers, SameReadiness

\* A connect that fails: the connection closes, its request still points to it.
LEMMA ConnectFailsLocal ==
  ASSUME NEW c, Local(c), c.connecting,
         NEW d, d = close_connection([[c EXCEPT !.connecting = FALSE] EXCEPT !.timer = uv_close(@)])
  PROVE  Local(d) /\ SamePointers(d, c) /\ SameReadiness(d, c) /\ d.tcp # "open"
  <1>1. PICK b : b = [[c EXCEPT !.connecting = FALSE] EXCEPT !.timer = uv_close(@)]
    OBVIOUS
  <1>2. d = close_connection(b)
    BY <1>1
  <1>3. b \in Connection
    BY <1>1, UvClose, Zenon DEF Local, Connection
  <1>4. /\ b.tcp = c.tcp /\ b.timer = uv_close(c.timer) /\ b.reading = c.reading
        /\ b.handles = c.handles /\ b.arrived = c.arrived /\ b.taken = c.taken
        /\ b.paused = c.paused /\ b.connecting = FALSE
        /\ SamePointers(b, c) /\ SameReadiness(b, c)
    BY <1>1, Zenon DEF Local, Connection, SamePointers, SameReadiness
  <1>5. /\ d \in Connection
        /\ d.tcp = uv_close(b.tcp) /\ d.timer = uv_close(b.timer) /\ d.reading = FALSE
        /\ d.handles = b.handles /\ d.arrived = b.arrived /\ d.taken = b.taken
        /\ d.paused = b.paused /\ d.connecting = b.connecting
        /\ SamePointers(d, b) /\ SameReadiness(d, b)
    BY <1>2, <1>3, CloseFields, Zenon
  <1>6. InOrder(d)
    BY <1>4, <1>5, SameInOrder, Zenon DEF Local, SameReadiness
  <1>7. Counted(d)
    BY <1>4, <1>5 DEF Local, Counted, uv_close
  <1>8. Flowing(d) /\ Fresh(d) /\ Quiet(d)
    BY <1>4, <1>5 DEF Local, Flowing, Fresh, Quiet, uv_close, SamePointers, SameReadiness
  <1>9. QED
    BY <1>4, <1>5, <1>6, <1>7, <1>8 DEF Local, uv_close, SamePointers, SameReadiness

\* A connect that succeeds: the connection starts to read, and its request is answered.
LEMMA ConnectedLocal ==
  ASSUME NEW c, Local(c), c.connecting, c.tcp = "open", ~c.timed_out,
         NEW d, d = [[[c EXCEPT !.connecting = FALSE] EXCEPT !.timer = uv_close(@)]
                        EXCEPT !.reading = TRUE, !.request = FALSE]
  PROVE  /\ Local(d) /\ ~d.request /\ ~d.timed_out /\ d.tcp = "open" /\ SameReadiness(d, c)
         /\ d.writing = c.writing /\ d.shutting = c.shutting
  <1>1. d \in Connection
    BY UvClose, ZenonT(40) DEF Local, Connection
  <1>2. /\ d.tcp = c.tcp /\ d.timer = uv_close(c.timer) /\ d.reading = TRUE
        /\ d.handles = c.handles /\ d.arrived = c.arrived /\ d.taken = c.taken
        /\ d.paused = c.paused /\ d.connecting = FALSE /\ d.request = FALSE
        /\ d.timed_out = c.timed_out /\ d.writing = c.writing /\ d.shutting = c.shutting
        /\ SameReadiness(d, c)
    BY Zenon DEF Local, Connection, SameReadiness
  <1>3. d.received = << >> /\ Len(d.received) < ReceiveLimit
    BY <1>2, ClientAssumption, NoBytes DEF Local, Fresh, SameReadiness
  <1>4. Flowing(d)
    BY <1>2, <1>3, ClientAssumption DEF Local, Fresh, Flowing, SameReadiness
  <1>5. InOrder(d)
    BY <1>2, SameInOrder, Zenon DEF Local, SameReadiness
  <1>6. Counted(d)
    BY <1>2 DEF Local, Counted, uv_close
  <1>7. Fresh(d) /\ Quiet(d)
    BY <1>2 DEF Local, Fresh, Quiet, uv_close
  <1>8. QED
    BY <1>1, <1>2, <1>4, <1>5, <1>6, <1>7, Zenon DEF Local

\* A write is submitted, or calls back.
Writing(c, b) == [c EXCEPT !.writing = b]

LEMMA WritingLocal ==
  ASSUME NEW c, Local(c), NEW b \in BOOLEAN, b => c.tcp = "open", NEW d, d = Writing(c, b)
  PROVE  /\ Local(d) /\ SameReadiness(d, c) /\ d.tcp = c.tcp /\ d.writing = b
         /\ d.request = c.request /\ d.shutting = c.shutting /\ d.timed_out = c.timed_out
  <1>1. d \in Connection
    BY Zenon DEF Local, Connection, Writing
  <1>2. /\ d.tcp = c.tcp /\ d.timer = c.timer /\ d.reading = c.reading
        /\ d.handles = c.handles /\ d.arrived = c.arrived /\ d.taken = c.taken
        /\ d.paused = c.paused /\ d.connecting = c.connecting /\ d.writing = b
        /\ d.request = c.request /\ d.shutting = c.shutting /\ d.timed_out = c.timed_out
        /\ SameReadiness(d, c)
    BY Zenon DEF Local, Connection, Writing, SameReadiness
  <1>3. InOrder(d)
    BY <1>1, <1>2, SameInOrder, Zenon DEF Local, SameReadiness
  <1>4. Counted(d)
    BY <1>1, <1>2 DEF Local, Counted
  <1>5. Flowing(d) /\ Fresh(d) /\ Quiet(d)
    BY <1>1, <1>2 DEF Local, Flowing, Fresh, Quiet, SameReadiness
  <1>6. QED
    BY <1>1, <1>2, <1>3, <1>4, <1>5 DEF Local, SameReadiness

\* A shutdown calls back.
LEMMA ShuttingLocal ==
  ASSUME NEW c, Local(c), NEW d, d = [c EXCEPT !.shutting = FALSE]
  PROVE  /\ Local(d) /\ SameReadiness(d, c) /\ d.tcp = c.tcp /\ ~d.shutting
         /\ d.request = c.request /\ d.writing = c.writing /\ d.timed_out = c.timed_out
  <1>1. d \in Connection
    BY Zenon DEF Local, Connection
  <1>2. /\ d.tcp = c.tcp /\ d.timer = c.timer /\ d.reading = c.reading
        /\ d.handles = c.handles /\ d.arrived = c.arrived /\ d.taken = c.taken
        /\ d.paused = c.paused /\ d.connecting = c.connecting /\ d.shutting = FALSE
        /\ d.request = c.request /\ d.writing = c.writing /\ d.timed_out = c.timed_out
        /\ SameReadiness(d, c)
    BY Zenon DEF Local, Connection, SameReadiness
  <1>3. InOrder(d)
    BY <1>1, <1>2, SameInOrder, Zenon DEF Local, SameReadiness
  <1>4. Counted(d)
    BY <1>1, <1>2 DEF Local, Counted
  <1>5. Flowing(d) /\ Fresh(d) /\ Quiet(d)
    BY <1>1, <1>2 DEF Local, Flowing, Fresh, Quiet, SameReadiness
  <1>6. QED
    BY <1>1, <1>2, <1>3, <1>4, <1>5 DEF Local, SameReadiness

\* A shutdown starts: reads and writes are the sides it shuts, shutting whether a uv_shutdown
\* is in flight.
ShutSides(c, reads, writes, shutting) ==
  [[c EXCEPT !.reading = @ /\ ~reads, !.read_closed = @ \/ reads,
             !.read_status = IF reads THEN "error" ELSE @, !.write_closed = @ \/ writes]
      EXCEPT !.shutting = shutting]

LEMMA ShutdownLocal ==
  ASSUME NEW c, Local(c), c.tcp = "open", ~c.connecting,
         NEW reads \in BOOLEAN, NEW writes \in BOOLEAN, NEW shutting \in BOOLEAN,
         NEW d, d = ShutSides(c, reads, writes, shutting)
  PROVE  /\ Local(d) /\ d.tcp = "open" /\ d.shutting = shutting
         /\ d.request = c.request /\ d.writing = c.writing /\ d.timed_out = c.timed_out
  <1> DEFINE reading == c.reading /\ ~reads
             read_closed == c.read_closed \/ reads
             status == IF reads THEN "error" ELSE c.read_status
             write_closed == c.write_closed \/ writes
  <1>1. /\ c \in Connection /\ c.reading \in BOOLEAN /\ c.read_status \in Status
        /\ reading \in BOOLEAN /\ read_closed \in BOOLEAN /\ write_closed \in BOOLEAN
        /\ status \in Status
    BY Zenon DEF Local, Connection, Status
  <1>2. d = [[c EXCEPT !.reading = reading, !.read_closed = read_closed,
                       !.read_status = status, !.write_closed = write_closed]
                EXCEPT !.shutting = shutting]
    BY Zenon DEF ShutSides
  <1>3. reading = (c.reading /\ ~reads) /\ status = (IF reads THEN "error" ELSE c.read_status)
    OBVIOUS
  <1> HIDE DEF reading, read_closed, status, write_closed
  <1>4. d \in Connection
    BY <1>1, <1>2, Zenon DEF Connection
  <1>5. /\ d.tcp = c.tcp /\ d.timer = c.timer /\ d.reading = reading
        /\ d.handles = c.handles /\ d.arrived = c.arrived /\ d.taken = c.taken
        /\ d.paused = c.paused /\ d.connecting = c.connecting /\ d.shutting = shutting
        /\ d.request = c.request /\ d.writing = c.writing /\ d.timed_out = c.timed_out
        /\ d.read_status = status /\ d.received = c.received
    BY <1>1, <1>2, Zenon DEF Connection
  <1>6. InOrder(d)
    BY <1>5, SameInOrder, Zenon DEF Local
  <1>7. Flowing(d)
    <2>1. CASE reads
      BY Zenon, <1>3, <1>5, <2>1 DEF Flowing
    <2>2. CASE ~reads
      BY <1>1, <1>3, <1>5, <2>2 DEF Local, Flowing
    <2>3. QED
      BY <2>1, <2>2
  <1>8. Counted(d) /\ Fresh(d) /\ Quiet(d)
    BY <1>5 DEF Local, Counted, Fresh, Quiet
  <1>9. QED
    BY <1>4, <1>5, <1>6, <1>7, <1>8, Zenon DEF Local

LEMMA SameElements ==
  ASSUME NEW s \in Seq(Nat), NEW t \in Seq(Nat), Len(s) = Len(t),
         \A i \in 1 .. Len(s) : s[i] = t[i]
  PROVE  s = t
  OBVIOUS

LEMMA Concatenation ==
  ASSUME NEW s \in Seq(Nat), NEW t \in Seq(Nat)
  PROVE  s \o t \in Seq(Nat) /\ Len(s \o t) = Len(s) + Len(t)
  OBVIOUS

LEMMA Cut ==
  ASSUME NEW t \in Seq(Nat), NEW n \in 0 .. Len(t)
  PROVE  /\ SubSeq(t, 1, n) \in Seq(Nat) /\ SubSeq(t, n + 1, Len(t)) \in Seq(Nat)
         /\ Len(SubSeq(t, n + 1, Len(t))) = Len(t) - n
         /\ SubSeq(t, 1, n) \o SubSeq(t, n + 1, Len(t)) = t
  <1> DEFINE front == SubSeq(t, 1, n)
             rest == SubSeq(t, n + 1, Len(t))
  <1>1. front \in Seq(Nat) /\ Len(front) = n /\ \A i \in 1 .. n : front[i] = t[i]
    OBVIOUS
  <1>2. /\ rest \in Seq(Nat) /\ Len(rest) = Len(t) - n
        /\ \A i \in 1 .. Len(t) - n : rest[i] = t[n + i]
    OBVIOUS
  <1> HIDE DEF front, rest
  <1>3. /\ front \o rest \in Seq(Nat) /\ Len(front \o rest) = Len(t)
        /\ \A i \in 1 .. Len(t) : (front \o rest)[i] = t[i]
    <2>1. front \o rest \in Seq(Nat) /\ Len(front \o rest) = Len(t)
      <3>1. front \o rest \in Seq(Nat) /\ Len(front \o rest) = Len(front) + Len(rest)
        BY <1>1, <1>2, Concatenation, Zenon
      <3>2. Len(front) + Len(rest) = Len(t)
        BY <1>1, <1>2
      <3>3. QED
        BY <3>1, <3>2, Zenon
    <2>2. ASSUME NEW i \in 1 .. Len(t) PROVE (front \o rest)[i] = t[i]
      <3>1. (front \o rest)[i] = IF i <= n THEN front[i] ELSE rest[i - n]
        BY <1>1, <1>2
      <3>2. CASE i <= n
        BY <1>1, <3>1, <3>2
      <3>3. CASE ~(i <= n)
        <4>1. i - n \in 1 .. Len(t) - n /\ n + (i - n) = i
          BY <3>3
        <4>2. QED
          BY <1>2, <3>1, <3>3, <4>1
      <3>4. QED
        BY <3>2, <3>3, Zenon
    <2>3. QED
      BY <2>1, <2>2, Zenon
  <1>4. front \o rest = t
    BY Zenon, <1>3, SameElements
  <1>5. QED
    BY Zenon, <1>1, <1>2, <1>4 DEF front, rest

LEMMA Associative ==
  \A s, t, u \in Seq(Nat) : (s \o t) \o u = s \o (t \o u)
  <1> SUFFICES ASSUME NEW s \in Seq(Nat), NEW t \in Seq(Nat), NEW u \in Seq(Nat)
               PROVE  (s \o t) \o u = s \o (t \o u)
    OBVIOUS
  <1>1. (s \o t) \o u \in Seq(Nat) /\ s \o (t \o u) \in Seq(Nat)
    OBVIOUS
  <1>2. Len((s \o t) \o u) = Len(s \o (t \o u))
    OBVIOUS
  <1>3. \A i \in 1 .. Len((s \o t) \o u) : ((s \o t) \o u)[i] = (s \o (t \o u))[i]
    OBVIOUS
  <1>4. QED
    BY Zenon, <1>1, <1>2, <1>3, SameElements

\* Taking n bytes off the buffer keeps what was taken and what is buffered together.
LEMMA TakenInOrder ==
  ASSUME NEW s \in Seq(Nat), NEW t \in Seq(Nat), NEW n \in 0 .. Len(t)
  PROVE  /\ s \o SubSeq(t, 1, n) \in Seq(Nat) /\ SubSeq(t, n + 1, Len(t)) \in Seq(Nat)
         /\ (s \o SubSeq(t, 1, n)) \o SubSeq(t, n + 1, Len(t)) = s \o t
         /\ Len(SubSeq(t, n + 1, Len(t))) = Len(t) - n
  <1> DEFINE front == SubSeq(t, 1, n)
             rest == SubSeq(t, n + 1, Len(t))
  <1>1. front \in Seq(Nat) /\ rest \in Seq(Nat) /\ Len(rest) = Len(t) - n
    BY Cut
  <1>4. front \o rest = t
    BY Zenon, Cut
  <1> HIDE DEF front, rest
  <1>5. s \o front \in Seq(Nat)
    BY <1>1, Concatenation
  <1>6. (s \o front) \o rest = s \o (front \o rest)
    BY <1>1, Associative, Zenon
  <1>7. QED
    BY Zenon, <1>1, <1>4, <1>5, <1>6 DEF front, rest

\* recv takes at least one byte; if the full buffer had stopped the reads they start again.
LEMMA ReceiveLocal ==
  ASSUME NEW c, Local(c), c.received # << >>, NEW size \in Nat, size > 0, NEW ok \in BOOLEAN,
         NEW d, d = receive_data(c, size, ok)
  PROVE  Local(d) /\ SamePointers(d, c) /\ d.tcp = c.tcp
  <1> DEFINE n == IF size > Len(c.received) THEN Len(c.received) ELSE size
             resume == c.paused /\ c.read_status = "ok"
             taken == c.taken \o SubSeq(c.received, 1, n)
             received == SubSeq(c.received, n + 1, Len(c.received))
             reading == c.reading \/ (resume /\ ok)
             status == IF resume /\ ~ok THEN "error" ELSE c.read_status
             paused == c.paused /\ ~resume
  <1>1. /\ c \in Connection /\ c.received \in Seq(Nat) /\ c.taken \in Seq(Nat)
        /\ c.read_status \in Status
    BY Zenon DEF Local, Connection
  <1>2. Len(c.received) \in Nat /\ Len(c.received) > 0 /\ n \in 1 .. Len(c.received)
        /\ n \in 0 .. Len(c.received)
    BY <1>1
  <1>3. /\ taken \in Seq(Nat) /\ received \in Seq(Nat) /\ taken \o received = c.taken \o c.received
        /\ Len(received) = Len(c.received) - n
    BY <1>1, <1>2, TakenInOrder, Zenon
  <1>4. reading \in BOOLEAN /\ paused \in BOOLEAN /\ status \in Status
    BY <1>1, Zenon DEF Connection, Status
  <1>5. d = [c EXCEPT !.taken = taken, !.received = received, !.reading = reading,
                      !.read_status = status, !.paused = paused]
    BY Zenon DEF receive_data
  <1>6. /\ reading = (c.reading \/ (resume /\ ok)) /\ paused = (c.paused /\ ~resume)
        /\ status = (IF resume /\ ~ok THEN "error" ELSE c.read_status)
    OBVIOUS
  <1> HIDE DEF n, taken, received, reading, status, paused
  <1>7. d \in Connection
    BY <1>1, <1>3, <1>4, <1>5, Zenon DEF Connection
  <1>8. /\ d.taken = taken /\ d.received = received /\ d.reading = reading
        /\ d.read_status = status /\ d.paused = paused
        /\ d.tcp = c.tcp /\ d.timer = c.timer /\ d.handles = c.handles
        /\ d.arrived = c.arrived /\ d.connecting = c.connecting /\ SamePointers(d, c)
    BY <1>1, <1>5, Zenon DEF Connection, SamePointers
  <1>9. c.taken \o c.received = Bytes(c.arrived) /\ Len(c.received) <= ReceiveLimit
    BY Zenon DEF Local, InOrder
  <1>10. Len(received) < Len(c.received) /\ Len(received) < ReceiveLimit
    BY <1>2, <1>3, <1>9, ClientAssumption
  <1>11. InOrder(d)
    <2>1. Len(received) <= ReceiveLimit
      BY <1>2, <1>3, <1>9, ClientAssumption
    <2>2. QED
      BY <1>3, <1>8, <1>9, <2>1, Zenon DEF InOrder
  <1>12. ~c.connecting
    BY DEF Local, Fresh
  <1>13. Flowing(d)
    <2>1. Flowing(c) /\ Len(received) # ReceiveLimit
      BY <1>10, ClientAssumption DEF Local
    <2>2. c.reading \in BOOLEAN /\ c.paused \in BOOLEAN
      BY <1>1, Zenon DEF Connection
    <2>3. QED
      BY <1>2, <1>6, <1>8, <1>9, <1>10, <1>12, <2>1, <2>2, ClientAssumption DEF Flowing
  <1>14. Counted(d) /\ Fresh(d) /\ Quiet(d)
    BY <1>8, <1>12 DEF Local, Counted, Fresh, Quiet, SamePointers
  <1>15. QED
    BY <1>7, <1>8, <1>11, <1>13, <1>14, Zenon DEF Local

\* The next n bytes arrive.
LEMMA ConcatAt ==
  \A w, u \in Seq(Nat) : \A k \in 1 .. Len(w) + Len(u) :
     (w \o u)[k] = IF k <= Len(w) THEN w[k] ELSE u[k - Len(w)]
  OBVIOUS

LEMMA Numbered ==
  ASSUME NEW m \in Nat, NEW n \in Nat
  PROVE  /\ Bytes(m) \in Seq(Nat) /\ Following(m, n) \in Seq(Nat) /\ Len(Following(m, n)) = n
         /\ Bytes(m) \o Following(m, n) = Bytes(m + n)
  <1> DEFINE w == Bytes(m)
             u == Following(m, n)
  <1>1. w \in Seq(Nat) /\ Len(w) = m /\ \A k \in 1 .. m : w[k] = k
    BY DEF Bytes
  <1>2. u \in Seq(Nat) /\ Len(u) = n /\ \A k \in 1 .. n : u[k] = m + k
    BY DEF Following
  <1>3. Bytes(m + n) \in Seq(Nat) /\ Len(Bytes(m + n)) = m + n
        /\ \A k \in 1 .. m + n : Bytes(m + n)[k] = k
    BY DEF Bytes
  <1> HIDE DEF w, u
  <1>4. w \o u \in Seq(Nat) /\ Len(w \o u) = m + n
    BY <1>1, <1>2
  <1>5. ASSUME NEW k \in 1 .. m + n PROVE (w \o u)[k] = k
    <2>1. (w \o u)[k] = IF k <= m THEN w[k] ELSE u[k - m]
      BY <1>1, <1>2, ConcatAt, Zenon
    <2>2. CASE k <= m
      BY <1>1, <2>1, <2>2
    <2>3. CASE ~(k <= m)
      <3>1. k - m \in 1 .. n /\ m + (k - m) = k
        BY <2>3
      <3>2. QED
        BY <1>2, <2>1, <2>3, <3>1
    <2>4. QED
      BY <2>2, <2>3, Zenon
  <1>6. w \o u = Bytes(m + n)
    BY Zenon, <1>3, <1>4, <1>5, SameElements
  <1>7. QED
    BY <1>1, <1>2, <1>6 DEF w, u

LEMMA ArrivedInOrder ==
  ASSUME NEW s \in Seq(Nat), NEW t \in Seq(Nat), NEW m \in Nat, NEW n \in Nat,
         s \o t = Bytes(m)
  PROVE  /\ t \o Following(m, n) \in Seq(Nat) /\ Len(t \o Following(m, n)) = Len(t) + n
         /\ s \o (t \o Following(m, n)) = Bytes(m + n)
  <1>1. /\ Following(m, n) \in Seq(Nat) /\ Len(Following(m, n)) = n
        /\ (s \o t) \o Following(m, n) = Bytes(m + n)
    BY Numbered, Zenon
  <1>2. (s \o t) \o Following(m, n) = s \o (t \o Following(m, n))
    BY <1>1, Associative, Zenon
  <1>3. t \o Following(m, n) \in Seq(Nat) /\ Len(t \o Following(m, n)) = Len(t) + n
    BY Zenon, <1>1, Concatenation
  <1>4. QED
    BY <1>1, <1>2, <1>3, Zenon

Arrived(c, n, full) ==
  [c EXCEPT !.received = @ \o [k \in 1 .. n |-> c.arrived + k],
            !.arrived = @ + n, !.reading = ~full, !.paused = @ \/ full]

LEMMA ArrivedLocal ==
  ASSUME NEW c, Local(c), c.reading, NEW n \in 1 .. ReceiveLimit - Len(c.received),
         NEW full, full = (Len(c.received) + n = ReceiveLimit), NEW d, d = Arrived(c, n, full)
  PROVE  Local(d) /\ SamePointers(d, c) /\ d.tcp = c.tcp
  <1> DEFINE received == c.received \o Following(c.arrived, n)
             paused == c.paused \/ full
             reading == ~full
  <1>1. /\ c \in Connection /\ c.received \in Seq(Nat) /\ c.taken \in Seq(Nat)
        /\ c.arrived \in Nat /\ c.paused \in BOOLEAN
    BY Zenon DEF Local, Connection
  <1>2. c.taken \o c.received = Bytes(c.arrived) /\ Len(c.received) <= ReceiveLimit
    BY Zenon DEF Local, InOrder
  <1>3. n \in Nat /\ n > 0 /\ Len(c.received) \in Nat /\ Len(c.received) + n <= ReceiveLimit
        /\ Len(c.received) < ReceiveLimit
    BY <1>1, ClientAssumption
  <1>4. /\ received \in Seq(Nat) /\ Len(received) = Len(c.received) + n
        /\ c.taken \o received = Bytes(c.arrived + n)
    BY <1>1, <1>2, <1>3, ArrivedInOrder, ZenonT(40)
  <1>5. /\ paused \in BOOLEAN /\ reading \in BOOLEAN /\ full \in BOOLEAN
        /\ paused = (c.paused \/ full) /\ reading = ~full
    BY <1>1
  <1>6. d = [c EXCEPT !.received = received, !.arrived = @ + n, !.reading = reading,
                      !.paused = paused]
    BY Zenon DEF Following, Arrived
  <1>7. c.arrived + n \in Nat
    BY <1>1, <1>3
  <1> HIDE DEF received, paused, reading
  <1>8. d \in Connection
    BY <1>1, <1>4, <1>5, <1>6, <1>7, ZenonT(40) DEF Connection
  <1>9. /\ d.taken = c.taken /\ d.received = received /\ d.reading = reading
        /\ d.read_status = c.read_status /\ d.paused = paused
        /\ d.tcp = c.tcp /\ d.timer = c.timer /\ d.handles = c.handles
        /\ d.arrived = c.arrived + n /\ d.connecting = c.connecting /\ SamePointers(d, c)
    BY <1>1, <1>6, Zenon DEF Connection, SamePointers
  <1>10. InOrder(d)
    BY Zenon, <1>3, <1>4, <1>9 DEF InOrder
  <1>11. ~c.connecting
    BY DEF Local, Fresh
  <1>12. Flowing(d)
    <2>1. full <=> Len(received) = ReceiveLimit
      BY Zenon, <1>4
    <2>2. Len(received) <= ReceiveLimit /\ (Len(received) < ReceiveLimit <=> ~full)
      <3>1. Len(received) = Len(c.received) + n
        BY <1>4, Zenon
      <3>2. /\ Len(received) <= ReceiveLimit
            /\ Len(received) < ReceiveLimit <=> Len(received) # ReceiveLimit
        BY <1>3, <3>1, ClientAssumption
      <3>3. QED
        BY <2>1, <3>2, Zenon
    <2>3. c.tcp = "open" => c.read_status = "ok" /\ ~c.paused
      BY <1>1, <1>3, <1>11, ClientAssumption DEF Local, Flowing
    <2>4. QED
      BY Zenon, <1>5, <1>9, <1>11, <2>1, <2>2, <2>3 DEF Flowing
  <1>13. Counted(d) /\ Fresh(d) /\ Quiet(d)
    BY <1>9, <1>11 DEF Local, Counted, Fresh, Quiet, SamePointers
  <1>14. QED
    BY <1>8, <1>9, <1>10, <1>12, <1>13, Zenon DEF Local

\* The stream ends.
LEMMA EndLocal ==
  ASSUME NEW c, Local(c), c.reading,
         NEW d, d = [c EXCEPT !.read_status = "error", !.reading = FALSE]
  PROVE  Local(d) /\ SamePointers(d, c) /\ d.tcp = c.tcp
  <1>1. d \in Connection
    BY Zenon DEF Local, Connection, Status
  <1>2. /\ d.tcp = c.tcp /\ d.timer = c.timer /\ d.reading = FALSE
        /\ d.handles = c.handles /\ d.arrived = c.arrived /\ d.taken = c.taken
        /\ d.paused = c.paused /\ d.connecting = c.connecting /\ SamePointers(d, c)
        /\ d.read_status = "error" /\ d.received = c.received
    BY Zenon DEF Local, Connection, SamePointers
  <1>3. InOrder(d)
    BY <1>1, <1>2, SameInOrder, Zenon DEF Local
  <1>4. Counted(d)
    BY <1>1, <1>2 DEF Local, Counted
  <1>5. Flowing(d) /\ Fresh(d) /\ Quiet(d)
    BY <1>1, <1>2 DEF Local, Flowing, Fresh, Quiet, SamePointers
  <1>6. QED
    BY <1>1, <1>2, <1>3, <1>4, <1>5 DEF Local, SamePointers

\* A handle has closed, and another one is left: a timer of a socket that stays, or the
\* first of the two handles of a connection that goes.
LEMMA TcpClosedLocal ==
  ASSUME NEW c, Local(c), c.tcp = "closing", ~c.connecting, ~c.writing, ~c.shutting,
         NEW d, d = [[c EXCEPT !.tcp = "none"] EXCEPT !.handles = @ - 1]
  PROVE  Local(d) /\ SamePointers(d, c) /\ SameReadiness(d, c) /\ d.tcp = "none"
  <1>1. c \in Connection /\ c.handles \in Nat /\ c.timer \in Handle
    BY Zenon DEF Local, Connection
  <1>2. c.handles - 1 \in Nat
    BY <1>1 DEF Local, Counted
  <1>3. d \in Connection
    BY <1>1, <1>2, Zenon DEF Connection, Handle
  <1>4. /\ d.tcp = "none" /\ d.timer = c.timer /\ d.reading = c.reading
        /\ d.handles = c.handles - 1 /\ d.arrived = c.arrived /\ d.taken = c.taken
        /\ d.paused = c.paused /\ d.connecting = c.connecting
        /\ SamePointers(d, c) /\ SameReadiness(d, c)
    BY <1>1, Zenon DEF Connection, SamePointers, SameReadiness
  <1>5. InOrder(d)
    BY <1>4, SameInOrder, Zenon DEF Local, SameReadiness
  <1>6. Counted(d)
    BY <1>1, <1>4 DEF Local, Counted
  <1>7. Flowing(d) /\ Fresh(d) /\ Quiet(d)
    BY <1>4 DEF Local, Flowing, Fresh, Quiet, SamePointers, SameReadiness
  <1>8. QED
    BY <1>3, <1>4, <1>5, <1>6, <1>7, Zenon DEF Local

LEMMA TimerClosedLocal ==
  ASSUME NEW c, Local(c), c.timer = "closing",
         NEW d, d = [[c EXCEPT !.timer = "none"] EXCEPT !.handles = @ - 1]
  PROVE  Local(d) /\ SamePointers(d, c) /\ SameReadiness(d, c) /\ d.tcp = c.tcp
  <1>1. c \in Connection /\ c.handles \in Nat /\ c.tcp \in Handle
    BY Zenon DEF Local, Connection
  <1>2. c.handles - 1 \in Nat
    BY <1>1 DEF Local, Counted
  <1>3. d \in Connection
    BY <1>1, <1>2, Zenon DEF Connection, Handle
  <1>4. /\ d.tcp = c.tcp /\ d.timer = "none" /\ d.reading = c.reading
        /\ d.handles = c.handles - 1 /\ d.arrived = c.arrived /\ d.taken = c.taken
        /\ d.paused = c.paused /\ d.connecting = c.connecting
        /\ SamePointers(d, c) /\ SameReadiness(d, c)
    BY <1>1, Zenon DEF Connection, SamePointers, SameReadiness
  <1>5. InOrder(d)
    BY <1>4, SameInOrder, Zenon DEF Local, SameReadiness
  <1>6. Counted(d)
    BY <1>1, <1>4 DEF Local, Counted
  <1>7. Flowing(d) /\ Fresh(d) /\ Quiet(d)
    BY <1>4 DEF Local, Flowing, Fresh, Quiet, SamePointers, SameReadiness
  <1>8. QED
    BY <1>3, <1>4, <1>5, <1>6, <1>7, Zenon DEF Local
-----------------------------------------------------------------------------
(* How the connections, the caller and its request fit together.            *)

\* Nothing in the loop points to a request through this connection.
Free(id) ==
  LET c == connections[id] IN
  /\ ~c.request /\ ~c.writing /\ ~c.shutting /\ ~c.timed_out
  /\ c # NoConnection /\ c.tcp # "open" => stopping

LEMMA NobodyPoints ==
  ASSUME ClientInv, ~Awaited \/ op.type \in {"recv", "ready", "none"}
  PROVE  \A id \in Id : Free(id)
  <1> SUFFICES ASSUME NEW id \in Id PROVE Free(id)
    OBVIOUS
  <1>1. PICK c : c = connections[id]
    OBVIOUS
  <1>2. Local(c) /\ PointsTo(id)
    BY <1>1 DEF ClientInv
  <1>3. c.timed_out => c.request
    BY <1>2 DEF Local, Fresh
  <1>4. QED
    BY <1>1, <1>2, <1>3 DEF PointsTo, Free

LEMMA FreeKept ==
  ASSUME NEW id \in Id, Free(id), connections'[id] = connections[id], stopping => stopping'
  PROVE  PointsTo(id)'
  BY DEF Free, PointsTo

LEMMA Unwatched ==
  ASSUME at' # "wait", at' # "check", at' = "call" => op'.type # "ready"
  PROVE  Asked'
  BY DEF Asked, Selecting

LEMMA ChangeOne ==
  ASSUME ClientInv, NEW id \in Id, NEW d, Local(d), Change(id, d)
  PROVE  /\ connections' \in [Id -> Connection]
         /\ \A i \in Id : Local(connections'[i])
         /\ connections'[id] = d
         /\ \A i \in Id : i # id => connections'[i] = connections[i]
  <1>1. connections \in [Id -> Connection] /\ \A i \in Id : Local(connections[i])
    BY DEF ClientInv, ClientTypeInv
  <1>2. d \in Connection
    BY DEF Local
  <1>3. /\ connections' \in [Id -> Connection] /\ connections'[id] = d
        /\ \A i \in Id : i # id => connections'[i] = connections[i]
    BY <1>1, <1>2, Zenon DEF Change
  <1>4. QED
    BY <1>1, <1>3, Zenon

LEMMA AnswerType ==
  ASSUME op \in Operation, NEW r \in ReturnCode, Answer(r)
  PROVE  /\ op' \in Operation /\ op'.result = r /\ op'.type = op.type /\ op'.id = op.id
         /\ op'.size = op.size /\ op'.write = op.write
  BY Zenon DEF Operation, Answer

\* What a command meets: its caller waits for it, and no request is pointed to.
LEMMA Executing ==
  ASSUME ClientInv, NEW type, Execute(type)
  PROVE  /\ at = "call" /\ ~request.done /\ ~stopping /\ op.type = type /\ op \in Operation
         /\ \A id \in Id : Free(id)
         /\ at' = "call" /\ pending' = FALSE /\ async' = FALSE /\ stopping' = FALSE
         /\ poll' = poll /\ wakeup' = wakeup
  <1>1. pending /\ at = "call" /\ ~request.done /\ ~stopping
    BY DEF ClientInv, Serial, Execute
  <1>2. ~Awaited
    BY <1>1 DEF Awaited
  <1>3. \A id \in Id : Free(id)
    BY <1>2, NobodyPoints
  <1>4. stopping' = stopping /\ stopping \in BOOLEAN /\ op \in Operation
    BY DEF Execute, threadVars, ClientInv, ClientTypeInv
  <1>5. QED
    BY <1>1, <1>3, <1>4 DEF Execute, threadVars

\* What is left to show of a command other than ready.
LEMMA CommandKeeps ==
  ASSUME ClientInv, NEW type, Execute(type), type # "ready", NEW r \in ReturnCode, Answer(r),
         request' \in RequestRecord, next_id' = next_id,
         connections' \in [Id -> Connection],
         \A id \in Id : Local(connections'[id]) /\ PointsTo(id)'
  PROVE  ClientInv'
  <1>1. /\ op' \in Operation /\ op'.result = r /\ op'.type = op.type /\ op'.id = op.id
        /\ op'.size = op.size /\ op'.write = op.write
    BY AnswerType DEF ClientInv, ClientTypeInv
  <1>2. /\ op.type = type /\ at' = "call" /\ pending' = FALSE /\ async' = FALSE
        /\ stopping' = FALSE /\ poll' = poll /\ wakeup' = wakeup
    BY Zenon, Executing
  <1>3. ClientTypeInv'
    BY Zenon, <1>1, <1>2 DEF ClientInv, ClientTypeInv
  <1>4. Serial'
    BY <1>1, <1>2 DEF ClientInv, Serial
  <1>5. Asked'
    BY <1>1, <1>2, Unwatched
  <1>6. QED
    BY <1>3, <1>4, <1>5 DEF ClientInv

\* A command that refuses, or completes its request at once, leaves every connection alone.
LEMMA NothingChanges ==
  ASSUME ClientInv, NEW type, Execute(type), type # "ready", NEW r \in ReturnCode, Answer(r),
         request' \in RequestRecord, UNCHANGED <<connections, next_id>>
  PROVE  ClientInv'
  <1>1. \A id \in Id : Free(id) /\ connections'[id] = connections[id]
    BY Zenon, Executing
  <1>2. \A id \in Id : PointsTo(id)'
    BY Zenon, <1>1, FreeKept, Executing
  <1>3. connections' \in [Id -> Connection] /\ \A id \in Id : Local(connections'[id])
    BY DEF ClientInv, ClientTypeInv
  <1>4. QED
    BY <1>2, <1>3, CommandKeeps

\* What is left to show of a command that changes the connection id.
LEMMA CommandChanges ==
  ASSUME ClientInv, NEW type, Execute(type), type # "ready", NEW r \in ReturnCode, Answer(r),
         request' \in RequestRecord, next_id' = next_id,
         NEW id \in Id, NEW d, Local(d), Change(id, d), PointsTo(id)'
  PROVE  ClientInv'
  <1>1. /\ connections' \in [Id -> Connection] /\ \A i \in Id : Local(connections'[i])
        /\ \A i \in Id : i # id => connections'[i] = connections[i]
    BY ChangeOne, Zenon
  <1>2. \A i \in Id : PointsTo(i)'
    BY Zenon, <1>1, FreeKept, Executing
  <1>3. QED
    BY <1>1, <1>2, CommandKeeps

LEMMA RequestType ==
  ASSUME request \in RequestRecord
  PROVE  /\ [request EXCEPT !.done = TRUE] \in RequestRecord
         /\ \A r \in ReturnCode :
               LET q == [request EXCEPT !.result = r] IN
               q \in RequestRecord /\ q.result = r /\ q.done = request.done
         /\ \A r \in ReturnCode :
               LET q == [request EXCEPT !.done = TRUE, !.result = r] IN
               q \in RequestRecord /\ q.result = r /\ q.done = TRUE
  BY Zenon DEF RequestRecord

LEMMA Codes ==
  {"ok", "error", "ETIMEDOUT", "EBADF", "EPIPE", "EAGAIN"} \subseteq ReturnCode
  BY DEF ReturnCode

\* A refusal, or an immediate answer.
LEMMA RefuseStep ==
  ASSUME ClientInv, NEW type, Execute(type), type # "ready", NEW r \in ReturnCode, Refuse(r)
  PROVE  ClientInv'
  BY NothingChanges DEF Refuse, ClientInv, ClientTypeInv

LEMMA CompleteStep ==
  ASSUME ClientInv, NEW type, Execute(type), type # "ready", Complete
  PROVE  ClientInv'
  <1>1. request' \in RequestRecord /\ Answer("ok") /\ UNCHANGED <<connections, next_id>>
    BY Zenon, RequestType DEF Complete, ClientInv, ClientTypeInv
  <1>2. QED
    BY <1>1, Codes, NothingChanges

LEMMA StartConnectStep ==
  ASSUME ClientInv, StartConnect
  PROVE  ClientInv'
  <1>1. Execute("connect")
    BY DEF StartConnect
  <1>2. CASE Refuse("error")
    BY <1>1, <1>2, RefuseStep, Codes
  <1>3. ASSUME next_id < MaxId, NEW outcome \in {"ok", "init", "start"},
               Change(next_id + 1, start_connect(op.timeout, outcome)),
               request' = [request EXCEPT !.result = IF op.timeout = "zero" THEN "ETIMEDOUT"
                                                     ELSE IF outcome = "ok" THEN @ ELSE "error"],
               Answer("ok"), next_id' = next_id
        PROVE  ClientInv'
    <2>1. next_id + 1 \in Id
      BY <1>3, ClientAssumption DEF ClientInv, ClientTypeInv, Id
    <2>2. PICK d : d = start_connect(op.timeout, outcome)
      OBVIOUS
    <2>3. Local(d) /\ d.request /\ ~d.timed_out /\ ~d.writing /\ ~d.shutting
      BY <2>2, StartConnectLocal, Zenon
    <2>4. Change(next_id + 1, d)
      BY <1>3, <2>2
    <2>5. connections'[next_id + 1] = d
      BY <2>1, <2>3, <2>4, ChangeOne
    <2>6. request' \in RequestRecord /\ request'.done = request.done
      BY <1>3, Zenon DEF ClientInv, ClientTypeInv, RequestRecord, ReturnCode
    <2>7. op'.result = "ok" /\ op'.type = "connect"
      BY Zenon, <1>1, <1>3, Executing, AnswerType, Codes
    <2>8. PointsTo(next_id + 1)'
      BY Zenon, <1>1, <1>3, <2>3, <2>5, <2>6, <2>7, Executing DEF PointsTo, Awaited
    <2>9. QED
      BY <1>1, <1>3, <2>1, <2>3, <2>4, <2>6, <2>8, CommandChanges, Codes
  <1>4. QED
    BY <1>2, <1>3 DEF StartConnect

LEMMA StartCloseStep ==
  ASSUME ClientInv, StartClose
  PROVE  ClientInv'
  <1>1. Execute("close")
    BY DEF StartClose
  <1>2. CASE Complete
    BY <1>1, <1>2, CompleteStep
  <1>3. CASE Refuse("EBADF")
    BY <1>1, <1>3, RefuseStep, Codes
  <1>4. ASSUME Exists(op.id),
               Change(op.id, close_connection([connections[op.id] EXCEPT !.request = TRUE])),
               Answer("ok"), UNCHANGED <<request, next_id>>
        PROVE  ClientInv'
    <2>1. PICK id \in Id : id = op.id
      BY Zenon, <1>1, Executing DEF ClientInv, Serial
    <2>2. PICK c, d : c = connections[id] /\ d = close_connection([c EXCEPT !.request = TRUE])
      OBVIOUS
    <2>3. Local(c) /\ Free(id)
      BY Zenon, <1>1, <2>1, <2>2, Executing DEF ClientInv
    <2>4. /\ Local(d) /\ d.request /\ d.writing = c.writing /\ d.shutting = c.shutting
          /\ d.timed_out = c.timed_out
      BY <2>2, <2>3, CloseRequestLocal, Zenon
    <2>5. Change(id, d)
      BY <1>4, <2>1, <2>2
    <2>6. connections'[id] = d
      BY <2>1, <2>4, <2>5, ChangeOne
    <2>7. op'.result = "ok" /\ op'.type = "close" /\ op'.id = id
      BY Zenon, <1>1, <1>4, <2>1, Executing, AnswerType, Codes
    <2>8. PointsTo(id)'
      BY Zenon, <1>1, <1>4, <2>2, <2>3, <2>4, <2>6, <2>7, Executing DEF PointsTo, Awaited, Free
    <2>9. request' \in RequestRecord /\ next_id' = next_id
      BY <1>4 DEF ClientInv, ClientTypeInv
    <2>10. QED
      BY <1>1, <1>4, <2>1, <2>4, <2>5, <2>8, <2>9, CommandChanges, Codes
  <1>5. QED
    BY <1>2, <1>3, <1>4 DEF StartClose

LEMMA StartSendStep ==
  ASSUME ClientInv, StartSend
  PROVE  ClientInv'
  <1>1. Execute("send")
    BY DEF StartSend
  <1>2. CASE Complete
    BY <1>1, <1>2, CompleteStep
  <1>3. CASE \E r \in {"EBADF", "EPIPE", "error"} : Refuse(r)
    BY <1>1, <1>3, RefuseStep, Codes
  <1>4. ASSUME Exists(op.id), Change(op.id, [connections[op.id] EXCEPT !.writing = TRUE]),
               Answer("ok"), UNCHANGED <<request, next_id>>
        PROVE  ClientInv'
    <2>1. PICK id \in Id : id = op.id
      BY Zenon, <1>1, Executing DEF ClientInv, Serial
    <2>0. PICK b \in BOOLEAN : b = TRUE
      OBVIOUS
    <2>2. PICK c, d : c = connections[id] /\ d = Writing(c, b)
      BY Zenon
    <2>3. Local(c) /\ Free(id) /\ c.tcp = "open"
      BY Zenon, <1>1, <1>4, <2>1, <2>2, Executing DEF ClientInv, Free, Exists
    <2>4. /\ Local(d) /\ d.tcp = c.tcp /\ d.request = c.request /\ d.shutting = c.shutting
          /\ d.timed_out = c.timed_out
      <3>1. b \in BOOLEAN /\ Local(c) /\ d = Writing(c, b) /\ (b => c.tcp = "open")
        BY <2>0, <2>2, <2>3
      <3>2. QED
        BY ONLY <3>1, WritingLocal, Zenon
    <2>5. Change(id, d)
      BY <1>4, <2>0, <2>1, <2>2 DEF Writing
    <2>6. connections'[id] = d
      BY <2>1, <2>4, <2>5, ChangeOne
    <2>7. op'.result = "ok" /\ op'.type = "send" /\ op'.id = id
      BY Zenon, <1>1, <1>4, <2>1, Executing, AnswerType, Codes
    <2>8. PointsTo(id)'
      BY Zenon, <1>1, <1>4, <2>2, <2>3, <2>4, <2>6, <2>7, Executing DEF PointsTo, Awaited, Free
    <2>9. request' \in RequestRecord /\ next_id' = next_id
      BY <1>4 DEF ClientInv, ClientTypeInv
    <2>10. QED
      BY <1>1, <1>4, <2>1, <2>4, <2>5, <2>8, <2>9, CommandChanges, Codes
  <1>5. QED
    BY <1>2, <1>3, <1>4 DEF StartSend

LEMMA ReceiveDataStep ==
  ASSUME ClientInv, ReceiveData
  PROVE  ClientInv'
  <1>1. Execute("recv")
    BY DEF ReceiveData
  <1>2. CASE \E r \in {"EBADF", "EAGAIN", "error"} : Refuse(r)
    BY <1>1, <1>2, RefuseStep, Codes
  <1>3. ASSUME Exists(op.id), connections[op.id].received # << >>, NEW ok \in BOOLEAN,
               Change(op.id, receive_data(connections[op.id], op.size, ok)),
               Answer("ok"), UNCHANGED <<request, next_id>>
        PROVE  ClientInv'
    <2>1. PICK id \in Id : id = op.id /\ op.size > 0
      BY Zenon, <1>1, Executing DEF ClientInv, Serial
    <2>2. PICK size \in Nat : size = op.size
      BY Zenon DEF ClientInv, ClientTypeInv, Operation
    <2>3. PICK c, d : c = connections[id] /\ d = receive_data(c, size, ok)
      OBVIOUS
    <2>4. Local(c) /\ Free(id) /\ c.tcp = "open"
      BY Zenon, <1>1, <1>3, <2>1, <2>3, Executing DEF ClientInv, Free, Exists
    <2>5. Local(d) /\ SamePointers(d, c) /\ d.tcp = c.tcp
      <3>1. size > 0 /\ c.received # << >>
        BY <1>3, <2>1, <2>2, <2>3, Zenon
      <3>2. QED
        BY <2>3, <2>4, <3>1, ReceiveLocal, Zenon
    <2>6. Change(id, d)
      BY <1>3, <2>1, <2>2, <2>3
    <2>7. connections'[id] = d
      BY <2>1, <2>5, <2>6, ChangeOne
    <2>8. PointsTo(id)'
      BY <2>3, <2>4, <2>5, <2>7 DEF PointsTo, Free, SamePointers
    <2>9. request' \in RequestRecord /\ next_id' = next_id
      BY <1>3 DEF ClientInv, ClientTypeInv
    <2>10. QED
      BY <1>1, <1>3, <2>1, <2>5, <2>6, <2>8, <2>9, CommandChanges, Codes
  <1>4. QED
    BY <1>2, <1>3 DEF ReceiveData

LEMMA StartShutdownStep ==
  ASSUME ClientInv, StartShutdown
  PROVE  ClientInv'
  <1> DEFINE c == connections[op.id]
             reads == op.read /\ ~c.read_closed
             writes == op.write /\ ~c.write_closed
             shut == [c EXCEPT !.reading = @ /\ ~reads, !.read_closed = @ \/ reads,
                               !.read_status = IF reads THEN "error" ELSE @,
                               !.write_closed = @ \/ writes]
  <1>1. Execute("shutdown")
    BY Zenon DEF StartShutdown
  <1>2. \/ Refuse("EBADF") \/ Refuse("error")
        \/ \E ok \in BOOLEAN : /\ Exists(op.id) /\ Change(op.id, [shut EXCEPT !.shutting = ok])
                               /\ Answer(IF ok THEN "ok" ELSE "error")
                               /\ UNCHANGED <<request, next_id>>
        \/ /\ Exists(op.id) /\ Change(op.id, shut) /\ Answer("ok")
           /\ request' = [request EXCEPT !.done = TRUE] /\ UNCHANGED next_id
    BY Zenon DEF StartShutdown
  <1>3. CASE Refuse("EBADF") \/ Refuse("error")
    BY <1>1, <1>3, RefuseStep, Codes
  <1>4. PICK id \in Id : id = op.id
    BY Zenon, <1>1, Executing DEF ClientInv, Serial
  <1>5. Local(c) /\ Free(id)
    BY Zenon, <1>1, <1>4, Executing DEF ClientInv
  <1>6. op.read \in BOOLEAN /\ op.write \in BOOLEAN
    BY Zenon DEF ClientInv, ClientTypeInv, Operation
  <1>7. reads \in BOOLEAN /\ writes \in BOOLEAN
    BY <1>6, Zenon
  <1>8. ASSUME Exists(op.id) PROVE c.tcp = "open" /\ ~c.connecting
    BY Zenon, <1>1, <1>4, <1>5, <1>8, Executing DEF Free, Exists, Local, Fresh
  <1>9. ASSUME NEW ok \in BOOLEAN, Exists(op.id), Change(op.id, [shut EXCEPT !.shutting = ok]),
               Answer(IF ok THEN "ok" ELSE "error"), UNCHANGED <<request, next_id>>
        PROVE  ClientInv'
    <2>1. PICK d : d = [shut EXCEPT !.shutting = ok] /\ d = ShutSides(c, reads, writes, ok)
      BY Zenon DEF ShutSides
    <2>2. /\ Local(d) /\ d.tcp = "open" /\ d.shutting = ok
          /\ d.request = c.request /\ d.writing = c.writing /\ d.timed_out = c.timed_out
      <3>1. Local(c) /\ c.tcp = "open" /\ ~c.connecting
        BY <1>5, <1>8, <1>9
      <3>2. d = ShutSides(c, reads, writes, ok)
        BY <2>1
      <3> HIDE DEF c, reads, writes, shut
      <3>3. QED
        BY <1>7, <3>1, <3>2, ShutdownLocal
    <2>3. Change(id, d)
      BY <1>4, <1>9, <2>1
    <2>4. connections'[id] = d
      BY <1>4, <2>2, <2>3, ChangeOne
    <2>5. PICK r \in {"ok", "error"} : Answer(r) /\ (ok => r = "ok")
      BY <1>9
    <2>6. op'.result = r /\ op'.type = "shutdown" /\ op'.id = id
      BY Zenon, <1>1, <1>4, <2>5, Executing, AnswerType, Codes
    <2>7. request' = request /\ request' \in RequestRecord /\ next_id' = next_id
      BY <1>9 DEF ClientInv, ClientTypeInv
    <2>8. PointsTo(id)'
      BY Zenon, <1>1, <1>4, <1>5, <2>2, <2>4, <2>5, <2>6, <2>7, Executing DEF PointsTo, Awaited, Free
    <2>9. QED
      BY <1>1, <1>4, <2>2, <2>3, <2>5, <2>7, <2>8, CommandChanges, Codes
  <1>10. ASSUME Exists(op.id), Change(op.id, shut), Answer("ok"),
                request' = [request EXCEPT !.done = TRUE], UNCHANGED next_id
         PROVE  ClientInv'
    <2>1. PICK d : /\ d = [shut EXCEPT !.shutting = FALSE]
                   /\ d = ShutSides(c, reads, writes, FALSE)
      BY Zenon DEF ShutSides
    <2>2. d = shut
      <3>1. c \in Connection /\ c.shutting = FALSE
        BY <1>4, <1>5, Zenon DEF Local, Free, Connection
      <3>2. shut.shutting = FALSE /\ shut = [shut EXCEPT !.shutting = shut.shutting]
        BY <3>1, ZenonT(40) DEF Connection
      <3>3. QED
        BY <2>1, <3>2, Zenon
    <2>3. /\ Local(d) /\ d.tcp = "open" /\ d.shutting = FALSE
          /\ d.request = c.request /\ d.writing = c.writing /\ d.timed_out = c.timed_out
      <3>1. Local(c) /\ c.tcp = "open" /\ ~c.connecting
        BY <1>5, <1>8, <1>10
      <3>2. PICK ok \in BOOLEAN : ok = FALSE /\ d = ShutSides(c, reads, writes, ok)
        BY Zenon, <2>1
      <3> HIDE DEF c, reads, writes, shut
      <3>3. QED
        BY <1>7, <3>1, <3>2, ShutdownLocal
    <2>4. Change(id, d)
      BY <1>4, <1>10, <2>2
    <2>5. connections'[id] = d
      BY <1>4, <2>3, <2>4, ChangeOne
    <2>6. PointsTo(id)'
      BY <1>4, <1>5, <2>3, <2>5 DEF PointsTo, Free
    <2>7. request' \in RequestRecord /\ next_id' = next_id
      BY Zenon, <1>10, RequestType DEF ClientInv, ClientTypeInv
    <2>8. QED
      BY Zenon, <1>1, <1>4, <1>10, <2>3, <2>4, <2>6, <2>7, CommandChanges, Codes
  <1>11. QED
    BY <1>2, <1>3, <1>9, <1>10, Zenon

\* ready: the answer about a socket that could be used is in the request.
LEMMA CheckReadyStep ==
  ASSUME ClientInv, CheckReady
  PROVE  ClientInv'
  <1>1. Execute("ready")
    BY DEF CheckReady
  <1>2. /\ at = "call" /\ op.type = "ready" /\ op \in Operation
        /\ at' = "call" /\ pending' = FALSE /\ async' = FALSE /\ stopping' = FALSE
        /\ poll' = poll /\ wakeup' = wakeup /\ connections' = connections /\ next_id' = next_id
    BY Zenon, <1>1, Executing DEF CheckReady, Refuse
  <1>3. PICK r \in ReturnCode : Answer(r) /\ (r = "ok" => Exists(op.id))
    BY Codes DEF CheckReady, Refuse
  <1>4. /\ op' \in Operation /\ op'.result = r /\ op'.type = op.type /\ op'.id = op.id
        /\ op'.size = op.size /\ op'.write = op.write
    BY <1>2, <1>3, AnswerType
  <1> DEFINE c == connections[op.id]
             read == c.received # << >> \/ c.read_status # "ok"
             write == ~c.write_closed
  <1>5. request' \in RequestRecord /\ (r = "ok" => request'.read = read /\ request'.write = write)
    <2>1. request \in RequestRecord /\ read \in BOOLEAN /\ write \in BOOLEAN
      BY DEF ClientInv, ClientTypeInv
    <2>2. CASE Refuse("EBADF")
      <3>1. Answer("EBADF") /\ request' = request
        BY <2>2 DEF Refuse
      <3>2. op'.result = "EBADF"
        BY <1>2, <3>1, AnswerType, Codes
      <3>3. r # "ok"
        BY <1>4, <3>2
      <3>4. QED
        BY <2>1, <3>1, <3>3, Zenon
    <2>3. CASE request' = [request EXCEPT !.read = read, !.write = write]
      <3> HIDE DEF read, write
      <3>1. QED
        BY <2>1, <2>3, Zenon DEF RequestRecord
    <2>4. QED
      BY <2>2, <2>3, Zenon DEF CheckReady
  <1>6. ClientTypeInv'
    BY Zenon, <1>2, <1>4, <1>5 DEF ClientInv, ClientTypeInv
  <1>7. Serial'
    BY <1>2, <1>4 DEF ClientInv, Serial
  <1>8. \A id \in Id : Local(connections'[id]) /\ PointsTo(id)'
    BY Zenon, <1>1, <1>2, FreeKept, Executing DEF ClientInv
  <1>9. Asked'
    <2>1. SUFFICES ASSUME ~poll.revised, ~poll.ready, NEW socket \in poll.sockets \ poll.todo,
                          ~NotReady(socket)'
                   PROVE  /\ socket = <<op'.id, op'.write>>
                          /\ \/ op'.result # "ok"
                             \/ IF op'.write THEN request'.write ELSE request'.read
      BY <1>2, Zenon DEF Asked
    <2>2. ~NotReady(socket)
      BY <1>2, <2>1 DEF NotReady
    <2>3. socket = <<op.id, op.write>>
      BY <1>2, <2>1, <2>2 DEF ClientInv, Asked, Selecting
    <2>4. CASE r = "ok"
      <3>1. socket[1] = op.id /\ socket[2] = op.write
        BY <2>3
      <3>2. IF op.write THEN write ELSE read
        BY <2>2, <3>1 DEF NotReady
      <3>3. QED
        BY Zenon, <1>4, <1>5, <2>3, <2>4, <3>2
    <2>5. CASE r # "ok"
      BY <1>4, <2>3, <2>5
    <2>6. QED
      BY <2>4, <2>5
  <1>10. QED
    BY <1>6, <1>7, <1>8, <1>9 DEF ClientInv

\* Stop closes every connection, once nobody waits for an answer.
LEMMA StopStep ==
  ASSUME ClientInv, Stop
  PROVE  ClientInv'
  <1>1. stopping /\ at \in {"joining", "destroyed"} /\ ~pending
    BY DEF ClientInv, Serial, Stop
  <1>2. /\ UNCHANGED <<at, op, poll, pending, request, stopping, next_id>>
        /\ async' = FALSE /\ wakeup' = "closing"
        /\ connections' = [id \in Id |-> close_connection(connections[id])]
    BY DEF Stop, callerVars
  <1>3. \A id \in Id : Free(id)
    BY <1>1, NobodyPoints DEF Awaited
  <1>4. ASSUME NEW id \in Id PROVE Local(connections'[id]) /\ PointsTo(id)'
    <2>1. PICK c, d : c = connections[id] /\ d = close_connection(c)
      OBVIOUS
    <2>2. Local(c) /\ connections'[id] = d
      BY <1>2, <2>1 DEF ClientInv
    <2>3. Local(d) /\ SamePointers(d, c)
      BY <2>1, <2>2, CloseLocal, Zenon
    <2>4. QED
      BY <1>1, <1>2, <1>3, <2>1, <2>2, <2>3 DEF Free, PointsTo, SamePointers
  <1>5. connections' \in [Id -> Connection]
    BY <1>2, <1>4 DEF Local
  <1>6. ClientTypeInv'
    BY Zenon, <1>2, <1>5 DEF ClientInv, ClientTypeInv
  <1>7. Serial'
    BY <1>1, <1>2 DEF ClientInv, Serial
  <1>8. Asked'
    BY <1>1, <1>2, Unwatched
  <1>9. QED
    BY <1>4, <1>6, <1>7, <1>8 DEF ClientInv

\* The steps of the caller leave the connections alone.
CallerKeeps == connections' = connections /\ next_id' = next_id /\ wakeup' = wakeup

LEMMA CallerStays ==
  ASSUME ClientInv, CallerKeeps, stopping => stopping',
         ~Awaited \/ op.type \in {"recv", "ready", "none"}
  PROVE  \A id \in Id : Local(connections'[id]) /\ PointsTo(id)'
  BY NobodyPoints, FreeKept DEF ClientInv, CallerKeeps

\* An operation as its call makes it.
CallType(o) ==
  /\ o \in Operation /\ o.type # "none"
  /\ o.type # "connect" => o.id \in Id
  /\ o.type = "recv" => o.size > 0

LEMMA NoRequestType == NoRequest \in RequestRecord /\ ~NoRequest.done
  <1>1. 0 \in Nat
    OBVIOUS
  <1>2. QED
    BY <1>1, Zenon DEF NoRequest, RequestRecord, ReturnCode

LEMMA NoOpType == NoOp \in Operation /\ NoOp.type = "none" /\ NoOp.result = "ok"
  <1>1. 0 \in Nat
    OBVIOUS
  <1>2. QED
    BY <1>1, Zenon DEF NoOp, Operation, ReturnCode

LEMMA NoPollType == NoPoll \in PollRecord
  BY Zenon DEF NoPoll, PollRecord

LEMMA CallKeeps ==
  ASSUME ClientInv, ~stopping, ~Awaited \/ op.type \in {"recv", "ready", "none"},
         NEW o, CallType(o), o.type # "ready", runtime_call(o), poll' = poll
  PROVE  ClientInv'
  <1>1. /\ op' = o /\ request' = NoRequest /\ pending' = TRUE /\ async' = TRUE /\ at' = "call"
        /\ stopping' = stopping /\ CallerKeeps
    BY DEF runtime_call, CallerKeeps, threadVars
  <1>2. \A id \in Id : Local(connections'[id]) /\ PointsTo(id)'
    BY <1>1, CallerStays
  <1>3. ClientTypeInv'
    BY <1>1, NoRequestType DEF ClientInv, ClientTypeInv, CallType, CallerKeeps
  <1>4. Serial'
    BY <1>1, NoRequestType DEF Serial, CallType
  <1>5. Asked'
    BY <1>1, Unwatched
  <1>6. QED
    BY <1>2, <1>3, <1>4, <1>5 DEF ClientInv

LEMMA CallStartStep ==
  ASSUME ClientInv,
         runtime_connect \/ runtime_close \/ runtime_send \/ runtime_recv \/ runtime_shutdown
  PROVE  ClientInv'
  <1>1. 0 \in Nat /\ \A id \in Id : id \in Nat
    BY ClientAssumption DEF Id
  <1>2. \E o : CallType(o) /\ o.type # "ready" /\ Call(o)
    <2>1. CASE runtime_connect
      <3>1. PICK t \in {"none", "zero", "some"} :
              Call([NoOp EXCEPT !.type = "connect", !.timeout = t])
        BY Zenon, <2>1 DEF runtime_connect
      <3>2. PICK o : o = [NoOp EXCEPT !.type = "connect", !.timeout = t]
        OBVIOUS
      <3>3. o \in Operation /\ o.type = "connect"
        BY <1>1, <3>2, Zenon DEF NoOp, Operation, ReturnCode
      <3>4. CallType(o)
        BY <3>3 DEF CallType
      <3>5. QED
        BY Zenon, <3>1, <3>2, <3>3, <3>4
    <2>2. CASE runtime_close
      <3>1. PICK id \in Id :
              Call([NoOp EXCEPT !.type = "close", !.id = id])
        BY Zenon, <2>2 DEF runtime_close
      <3>2. PICK o : o = [NoOp EXCEPT !.type = "close", !.id = id]
        OBVIOUS
      <3>3. o \in Operation /\ o.type = "close" /\ o.id = id
        BY <1>1, <3>2, Zenon DEF NoOp, Operation, ReturnCode
      <3>4. CallType(o)
        BY <3>3 DEF CallType
      <3>5. QED
        BY Zenon, <3>1, <3>2, <3>3, <3>4
    <2>3. CASE runtime_send
      <3>1. PICK id \in Id, n \in 0 .. MaxParts :
              Call([NoOp EXCEPT !.type = "send", !.id = id, !.parts = n])
        BY Zenon, <2>3 DEF runtime_send
      <3>2. PICK o : o = [NoOp EXCEPT !.type = "send", !.id = id, !.parts = n]
        OBVIOUS
      <3>3. n \in Nat
        BY ClientAssumption
      <3>4. o \in Operation /\ o.type = "send" /\ o.id = id
        BY <1>1, <3>3, <3>2, Zenon DEF NoOp, Operation, ReturnCode
      <3>5. CallType(o)
        BY <3>3, <3>4 DEF CallType
      <3>6. QED
        BY Zenon, <3>1, <3>2, <3>4, <3>5
    <2>4. CASE runtime_recv
      <3>1. PICK id \in Id, n \in 1 .. ReceiveLimit :
              Call([NoOp EXCEPT !.type = "recv", !.id = id, !.size = n])
        BY Zenon, <2>4 DEF runtime_recv
      <3>2. PICK o : o = [NoOp EXCEPT !.type = "recv", !.id = id, !.size = n]
        OBVIOUS
      <3>3. n \in Nat /\ n > 0
        BY ClientAssumption
      <3>4. o \in Operation /\ o.type = "recv" /\ o.id = id /\ o.size = n
        BY <1>1, <3>3, <3>2, Zenon DEF NoOp, Operation, ReturnCode
      <3>5. CallType(o)
        BY <3>3, <3>4 DEF CallType
      <3>6. QED
        BY Zenon, <3>1, <3>2, <3>4, <3>5
    <2>5. CASE runtime_shutdown
      <3>1. PICK id \in Id, r \in BOOLEAN, w \in BOOLEAN :
              Call([NoOp EXCEPT !.type = "shutdown", !.id = id, !.read = r, !.write = w])
        BY Zenon, <2>5 DEF runtime_shutdown
      <3>2. PICK o : o = [NoOp EXCEPT !.type = "shutdown", !.id = id, !.read = r, !.write = w]
        OBVIOUS
      <3>3. o \in Operation /\ o.type = "shutdown" /\ o.id = id
        BY <1>1, <3>2, Zenon DEF NoOp, Operation, ReturnCode
      <3>4. CallType(o)
        BY <3>3 DEF CallType
      <3>5. QED
        BY Zenon, <3>1, <3>2, <3>3, <3>4
    <2>6. QED
      BY <2>1, <2>2, <2>3, <2>4, <2>5
  <1>3. PICK o : CallType(o) /\ o.type # "ready" /\ Call(o)
    BY <1>2
  <1>4. at = "idle" /\ runtime_call(o) /\ poll' = poll
    BY <1>3 DEF Call
  <1>5. ~stopping /\ ~Awaited
    BY <1>4 DEF ClientInv, Serial, Awaited
  <1>6. QED
    BY <1>3, <1>4, <1>5, CallKeeps

\* Steps between calls: the command slot is empty before and after them.
LEMMA IdleKeeps ==
  ASSUME ClientInv, CallerKeeps, stopping => stopping', stopping' \in BOOLEAN,
         ~Awaited \/ op.type \in {"recv", "ready", "none"}, ~pending,
         at' \in {"idle", "select", "check", "wait", "joining", "destroyed"},
         op' \in Operation, op' = op \/ op'.type = "none",
         request' \in RequestRecord, poll' \in PollRecord,
         pending' = pending, async' \in BOOLEAN, async' /\ ~stopping' => async /\ ~stopping,
         stopping' => at' \in {"joining", "destroyed"}, Asked'
  PROVE  ClientInv'
  <1>1. \A id \in Id : Local(connections'[id]) /\ PointsTo(id)'
    BY CallerStays
  <1>2. ClientTypeInv'
    BY DEF ClientInv, ClientTypeInv, CallerKeeps
  <1>3. Serial'
    BY DEF ClientInv, Serial
  <1>4. QED
    BY <1>1, <1>2, <1>3 DEF ClientInv

LEMMA PollType ==
  ASSUME poll \in PollRecord
  PROVE  /\ \A b \in BOOLEAN : LET p == [poll EXCEPT !.ready = b] IN
               /\ p \in PollRecord /\ p.ready = b /\ p.revised = poll.revised
               /\ p.sockets = poll.sockets /\ p.todo = poll.todo
         /\ \A b \in BOOLEAN : LET p == [poll EXCEPT !.revised = b] IN
               /\ p \in PollRecord /\ p.ready = poll.ready /\ p.revised = b
               /\ p.sockets = poll.sockets /\ p.todo = poll.todo
         /\ \A S \in SUBSET Socket : LET p == [poll EXCEPT !.todo = S] IN
               /\ p \in PollRecord /\ p.ready = poll.ready /\ p.revised = poll.revised
               /\ p.sockets = poll.sockets /\ p.todo = S
  BY Zenon DEF PollRecord

LEMMA BetweenCalls ==
  ASSUME ClientInv, at \notin {"call", "request"}
  PROVE  ~Awaited /\ ~pending /\ (stopping => at \in {"joining", "destroyed"})
  BY DEF ClientInv, Serial, Awaited

LEMMA SelectStep ==
  ASSUME ClientInv, select_socket \/ ReadRevision \/ EndSelect \/ runtime_wait \/ WaitEnds
  PROVE  ClientInv'
  <1>1. /\ op' = op /\ pending' = pending /\ async' = async /\ request' = request
        /\ stopping' = stopping /\ CallerKeeps
        /\ at \in {"idle", "select", "check", "wait"}
    BY DEF select_socket, ReadRevision, EndSelect, runtime_wait, WaitEnds, CallerKeeps, slotVars,
           threadVars
  <1>2. ~Awaited /\ ~pending /\ ~stopping
    BY <1>1, BetweenCalls
  <1>3. /\ op \in Operation /\ request \in RequestRecord /\ poll \in PollRecord
        /\ async \in BOOLEAN /\ stopping \in BOOLEAN
    BY DEF ClientInv, ClientTypeInv
  <1>4. /\ at' \in {"idle", "select", "check", "wait"} /\ poll' \in PollRecord /\ Asked'
    <2>1. CASE select_socket
      <3>1. PICK sockets \in SUBSET Socket : poll' = [NoPoll EXCEPT !.sockets = sockets]
        BY Zenon, <2>1 DEF select_socket, Socket
      <3>2. poll' \in PollRecord
        BY <3>1, Zenon DEF NoPoll, PollRecord
      <3>3. at' = "select"
        BY <2>1 DEF select_socket
      <3>4. QED
        BY <3>2, <3>3, Unwatched
    <2>2. CASE ReadRevision
      <3>1. at' = "check" /\ poll' = [poll EXCEPT !.revised = FALSE, !.todo = poll.sockets,
                                                  !.ready = FALSE]
        BY <2>2 DEF ReadRevision
      <3>2. poll' \in PollRecord /\ poll'.todo = poll'.sockets
        BY <1>3, <3>1, Zenon DEF PollRecord
      <3>3. QED
        BY <3>1, <3>2 DEF Asked
    <2>3. CASE EndSelect
      BY <2>3, NoPollType, Unwatched DEF EndSelect
    <2>4. CASE runtime_wait
      <3>1. /\ at = "check" /\ poll' = poll /\ poll.todo = {} /\ ~poll.ready
            /\ at' = IF poll.revised THEN "select" ELSE "wait"
        BY <2>4 DEF runtime_wait
      <3>2. CASE poll.revised
        BY <1>3, <3>1, <3>2, Unwatched
      <3>3. CASE ~poll.revised
        <4>1. \A socket \in poll.sockets \ poll.todo : NotReady(socket)
          BY <3>1, <3>3 DEF ClientInv, Asked, Selecting
        <4>2. \A socket \in poll'.sockets \ poll'.todo : NotReady(socket)'
          BY <1>1, <3>1, <4>1 DEF NotReady, CallerKeeps
        <4>3. QED
          BY <1>3, <3>1, <3>3, <4>2 DEF Asked
      <3>4. QED
        BY <3>2, <3>3
    <2>5. CASE WaitEnds
      BY <1>3, <2>5, Unwatched DEF WaitEnds
    <2>6. QED
      BY <2>1, <2>2, <2>3, <2>4, <2>5
  <1>5. QED
    BY <1>1, <1>2, <1>3, <1>4, IdleKeeps

LEMMA LifeStep ==
  ASSUME ClientInv, CreateReturns \/ Joined \/ Destroy
  PROVE  ClientInv'
  <1>1. /\ op' = op /\ pending' = pending /\ request' = request /\ poll' = poll
        /\ CallerKeeps /\ at \in {"creating", "joining", "idle"}
        /\ at' \in {"idle", "destroyed", "joining"}
    BY DEF CreateReturns, Joined, Destroy, CallerKeeps, slotVars, threadVars
  <1>2. ~Awaited /\ ~pending /\ (stopping => at = "joining")
    BY <1>1, BetweenCalls
  <1>3. /\ op \in Operation /\ request \in RequestRecord /\ poll \in PollRecord
        /\ async \in BOOLEAN /\ stopping \in BOOLEAN
    BY DEF ClientInv, ClientTypeInv
  <1>4. \/ async' = async /\ stopping' = stopping
        \/ async' = TRUE /\ stopping' = TRUE /\ at' = "joining"
    BY DEF CreateReturns, Joined, Destroy, slotVars, threadVars
  <1>5. stopping' => at' \in {"joining", "destroyed"}
    BY Zenon, <1>1, <1>2, <1>4 DEF CreateReturns, Joined, Destroy, threadVars
  <1>6. Asked'
    BY <1>1, Unwatched
  <1>7. /\ stopping => stopping'
        /\ stopping' \in BOOLEAN /\ async' \in BOOLEAN
        /\ async' /\ ~stopping' => async /\ ~stopping
    <2>1. CASE async' = async /\ stopping' = stopping
      BY <1>3, <2>1
    <2>2. CASE async' = TRUE /\ stopping' = TRUE
      BY <2>2
    <2>3. QED
      BY Zenon, <1>4, <2>1, <2>2
  <1>8. /\ op' \in Operation /\ request' \in RequestRecord /\ poll' \in PollRecord
        /\ at' \in {"idle", "select", "check", "wait", "joining", "destroyed"}
    BY <1>1, <1>3
  <1>9. QED
    BY <1>1, <1>2, <1>5, <1>6, <1>7, <1>8, IdleKeeps

LEMMA RuntimeReadyStep ==
  ASSUME ClientInv, runtime_ready
  PROVE  ClientInv'
  <1>1. PICK socket \in poll.todo :
          /\ poll' = [poll EXCEPT !.todo = @ \ {socket}]
          /\ runtime_call([NoOp EXCEPT !.type = "ready", !.id = socket[1], !.write = socket[2]])
    BY Zenon DEF runtime_ready
  <1>2. poll \in PollRecord /\ poll.todo \in SUBSET Socket
    BY Zenon DEF ClientInv, ClientTypeInv, PollRecord
  <1>3. socket[1] \in Id /\ socket[2] \in BOOLEAN /\ socket = <<socket[1], socket[2]>>
    BY <1>2 DEF Socket
  <1>4. 0 \in Nat /\ socket[1] \in Nat
    BY <1>3, ClientAssumption DEF Id
  <1>5. PICK o : o = [NoOp EXCEPT !.type = "ready", !.id = socket[1], !.write = socket[2]]
    OBVIOUS
  <1>6. /\ o \in Operation /\ o.type = "ready" /\ o.id = socket[1] /\ o.write = socket[2]
    BY <1>3, <1>4, <1>5, Zenon DEF NoOp, Operation, ReturnCode
  <1>7. /\ op' = o /\ request' = NoRequest /\ pending' = TRUE /\ async' = TRUE /\ at' = "call"
        /\ stopping' = stopping /\ CallerKeeps /\ at = "check"
    BY <1>1, <1>5 DEF runtime_ready, runtime_call, CallerKeeps, threadVars
  <1>8. poll.todo \ {socket} \in SUBSET Socket
    BY <1>2
  <1>9. /\ poll' \in PollRecord /\ poll'.ready = poll.ready /\ poll'.revised = poll.revised
        /\ poll'.sockets = poll.sockets /\ poll'.todo = poll.todo \ {socket}
    BY <1>1, <1>2, <1>8, PollType, Zenon
  <1>10. ~Awaited /\ ~stopping
    BY <1>7, BetweenCalls
  <1>11. \A id \in Id : Local(connections'[id]) /\ PointsTo(id)'
    BY <1>7, <1>10, CallerStays
  <1>12. ClientTypeInv'
    BY <1>6, <1>7, <1>9, NoRequestType DEF ClientInv, ClientTypeInv, CallerKeeps
  <1>13. Serial'
    BY <1>3, <1>6, <1>7, <1>10, NoRequestType DEF Serial
  <1>14. Asked'
    <2>1. SUFFICES ASSUME ~poll.revised, ~poll.ready,
                          NEW s \in poll.sockets \ (poll.todo \ {socket}), s # socket
                   PROVE  NotReady(s)'
      BY <1>3, <1>6, <1>7, <1>9 DEF Asked
    <2>2. NotReady(s)
      BY <1>7, <2>1 DEF ClientInv, Asked, Selecting
    <2>3. QED
      BY <1>7, <2>2 DEF NotReady, CallerKeeps
  <1>15. QED
    BY <1>11, <1>12, <1>13, <1>14 DEF ClientInv

\* A call is over: nothing points to its request any more.
LEMMA ReturnStep ==
  ASSUME ClientInv, at \in {"call", "request"}, ~pending, NEW r, Return(r),
         ~Awaited \/ op.type \in {"recv", "ready", "none"},
         at = "call" => r = op.result
  PROVE  ClientInv'
  <1>1. ~stopping /\ op \in Operation /\ poll \in PollRecord /\ request \in RequestRecord
        /\ async \in BOOLEAN /\ stopping \in BOOLEAN
    BY DEF ClientInv, Serial, ClientTypeInv
  <1>2. CASE op.type = "send" /\ op.parts > 1 /\ runtime_call([op EXCEPT !.parts = @ - 1])
             /\ poll' = poll
    <2>1. PICK o : o = [op EXCEPT !.parts = @ - 1]
      BY Zenon
    <2>2. op.parts \in Nat
      BY <1>1, Zenon DEF Operation
    <2>3. op.parts - 1 \in Nat
      BY <1>2, <2>2
    <2>4. o \in Operation /\ o.type = op.type /\ o.id = op.id
      BY <1>1, <2>1, <2>3, Zenon DEF Operation
    <2>5. CallType(o) /\ o.type # "ready"
      BY <1>2, <2>4 DEF CallType, ClientInv, Serial
    <2>6. QED
      BY Zenon, <1>1, <1>2, <2>1, <2>5, CallKeeps
  <1>3. CASE /\ at' = "idle" /\ op' = NoOp /\ poll' = NoPoll /\ request' = NoRequest
             /\ UNCHANGED <<slotVars, threadVars, connections, next_id>>
    <2>1. pending' = pending /\ async' = async /\ stopping' = stopping /\ CallerKeeps
      BY <1>3 DEF slotVars, threadVars, CallerKeeps
    <2>2. Asked'
      BY <1>3, Unwatched
    <2>3. QED
      BY <1>1, <1>3, <2>1, <2>2, NoOpType, NoPollType, NoRequestType, IdleKeeps
  <1>4. CASE /\ op.type = "ready" /\ r = "ok"
             /\ at' = "check" /\ op' = NoOp /\ request' = NoRequest
             /\ poll' = [poll EXCEPT !.ready = @ \/ IF op.write THEN request.write ELSE request.read]
             /\ UNCHANGED <<slotVars, threadVars, connections, next_id>>
    <2> DEFINE answer == IF op.write THEN request.write ELSE request.read
               ready == poll.ready \/ answer
    <2>1. pending' = pending /\ async' = async /\ stopping' = stopping /\ CallerKeeps
      BY <1>4 DEF slotVars, threadVars, CallerKeeps
    <2>2. ready \in BOOLEAN /\ poll' = [poll EXCEPT !.ready = ready]
      BY <1>4
    <2>3. ready <=> poll.ready \/ answer
      OBVIOUS
    <2> HIDE DEF ready
    <2>4. /\ poll' \in PollRecord /\ poll'.ready = ready /\ poll'.revised = poll.revised
          /\ poll'.sockets = poll.sockets /\ poll'.todo = poll.todo
      BY <1>1, <2>2, PollType, Zenon
    <2>5. at = "call" /\ op.result = "ok"
      BY <1>4 DEF ClientInv, Serial
    <2>6. Asked'
      <3>1. SUFFICES ASSUME ~poll.revised, ~poll.ready, ~answer,
                            NEW socket \in poll.sockets \ poll.todo
                     PROVE  NotReady(socket)'
        BY <1>4, <2>3, <2>4 DEF Asked
      <3>2. NotReady(socket)
        BY <1>4, <2>5, <3>1 DEF ClientInv, Asked, Selecting
      <3>3. QED
        BY <2>1, <3>2 DEF NotReady, CallerKeeps
    <2>7. QED
      BY <1>1, <1>4, <2>1, <2>4, <2>6, NoOpType, NoRequestType, IdleKeeps
  <1>5. QED
    BY <1>2, <1>3, <1>4 DEF Return

LEMMA ReturnsStep ==
  ASSUME ClientInv, CallReturns \/ RequestReturns
  PROVE  ClientInv'
  <1>1. CASE RequestReturns
    <2>1. at = "request" /\ request.done /\ Return(request.result)
      BY <1>1 DEF RequestReturns
    <2>2. ~pending /\ ~Awaited
      BY <2>1 DEF ClientInv, Serial, Awaited
    <2>3. QED
      BY <2>1, <2>2, ReturnStep
  <1>2. CASE /\ at = "call" /\ ~pending /\ Return(op.result)
             /\ op.type \in {"recv", "ready"} \/ op.result # "ok"
    <2>1. ~Awaited \/ op.type \in {"recv", "ready", "none"}
      BY <1>2 DEF Awaited
    <2>2. QED
      BY <1>2, <2>1, ReturnStep
  <1>3. CASE /\ at = "call" /\ ~pending
             /\ op.type \notin {"recv", "ready"} /\ op.result = "ok" /\ at' = "request"
             /\ UNCHANGED <<op, poll, slotVars, request, threadVars, connections, next_id>>
    <2>1. /\ UNCHANGED <<op, poll, pending, async, request, stopping, wakeup, connections, next_id>>
      BY <1>3 DEF slotVars, threadVars
    <2>2. ClientTypeInv'
      BY <1>3, <2>1 DEF ClientInv, ClientTypeInv
    <2>3. Serial'
      BY <1>3, <2>1 DEF ClientInv, Serial
    <2>4. \A id \in Id : Local(connections'[id]) /\ PointsTo(id)'
      BY <1>3, <2>1 DEF ClientInv, PointsTo, Awaited
    <2>5. Asked'
      BY <1>3, Unwatched
    <2>6. QED
      BY <2>2, <2>3, <2>4, <2>5 DEF ClientInv
  <1>4. QED
    BY <1>1, <1>2, <1>3 DEF CallReturns
-----------------------------------------------------------------------------
(* The callbacks of the loop.                                               *)

\* At most one connection points to a request.
LEMMA OnlyOne ==
  ASSUME ClientInv, NEW id \in Id,
         connections[id].request \/ connections[id].writing \/ connections[id].shutting
  PROVE  /\ Awaited /\ ~stopping /\ op.type # "ready"
         /\ \A i \in Id : i # id => Free(i)
  <1>1. PointsTo(id)
    BY DEF ClientInv
  <1>2. Awaited /\ op.type # "ready" /\ ~stopping
    BY <1>1 DEF PointsTo, ClientInv, Serial, Awaited
  <1>3. ASSUME NEW i \in Id, i # id PROVE Free(i)
    <2>1. PICK c : c = connections[i]
      OBVIOUS
    <2>2. PointsTo(i) /\ (c.timed_out => c.request)
      BY <2>1 DEF ClientInv, Local, Fresh
    <2>3. ~c.request /\ ~c.writing /\ ~c.shutting
      BY <1>1, <1>3, <2>1, <2>2 DEF PointsTo
    <2>4. QED
      BY <2>1, <2>2, <2>3 DEF PointsTo, Free
  <1>4. QED
    BY <1>2, <1>3

\* What is left to show of a callback that changes the connection id.
LEMMA LoopChanges ==
  ASSUME ClientInv, NEW id \in Id, NEW d, Local(d), Change(id, d), LoopKeeps,
         request' \in RequestRecord, next_id' \in 0 .. MaxId, poll' \in PollRecord,
         at' = at \/ (at = "wait" /\ at' = "select"), pending => ~request'.done,
         PointsTo(id)', \A i \in Id : i # id => PointsTo(i)', Asked'
  PROVE  ClientInv'
  <1>1. connections' \in [Id -> Connection] /\ \A i \in Id : Local(connections'[i])
    BY ChangeOne, Zenon
  <1>2. UNCHANGED <<op, pending, async, stopping, wakeup>>
    BY DEF LoopKeeps, slotVars, threadVars
  <1>3. ClientTypeInv'
    BY <1>1, <1>2 DEF ClientInv, ClientTypeInv
  <1>4. Serial'
    BY <1>2 DEF ClientInv, Serial
  <1>5. QED
    BY <1>1, <1>3, <1>4 DEF ClientInv

\* A callback of the connection that points to the request.
LEMMA HolderChanges ==
  ASSUME ClientInv, NEW id \in Id,
         connections[id].request \/ connections[id].writing \/ connections[id].shutting,
         NEW d, Local(d), Change(id, d), LoopKeeps, UNCHANGED <<at, poll>>,
         request' \in RequestRecord, next_id' \in 0 .. MaxId, PointsTo(id)'
  PROVE  ClientInv'
  <1>1. /\ Awaited /\ ~stopping /\ op.type # "ready" /\ \A i \in Id : i # id => Free(i)
    BY OnlyOne, Zenon
  <1>2. \A i \in Id : i # id => connections'[i] = connections[i]
    BY ChangeOne, Zenon
  <1>3. stopping' = stopping /\ op' = op
    BY DEF LoopKeeps, threadVars
  <1>4. \A i \in Id : i # id => PointsTo(i)'
    BY <1>1, <1>2, <1>3, FreeKept
  <1>5. ~pending /\ Asked'
    BY <1>1, <1>3, Unwatched DEF Awaited
  <1>6. poll' \in PollRecord
    BY DEF ClientInv, ClientTypeInv
  <1>7. QED
    BY <1>4, <1>5, <1>6, LoopChanges

LEMMA ConnectedStep ==
  ASSUME ClientInv, NEW id \in Id, Connected(id)
  PROVE  ClientInv'
  <1>1. PICK c : c = connections[id]
    OBVIOUS
  <1>2. Local(c) /\ PointsTo(id) /\ c.connecting /\ c.request
    BY <1>1 DEF ClientInv, Connected, Local, Fresh
  <1>3. PICK ok \in BOOLEAN : (ok => c.tcp = "open") /\ connected(id, ok)
    BY <1>1 DEF Connected
  <1>4. UNCHANGED <<at, poll>> /\ LoopKeeps
    BY DEF Connected
  <1>5. UNCHANGED <<at, op, pending, stopping>> /\ Awaited
    BY <1>1, <1>2, <1>4, OnlyOne DEF LoopKeeps, slotVars, threadVars
  <1>6. request \in RequestRecord /\ next_id \in 0 .. MaxId /\ id \in 0 .. MaxId /\ id \in Nat
    BY ClientAssumption DEF ClientInv, ClientTypeInv, Id
  <1> DEFINE back == [c EXCEPT !.connecting = FALSE]
             shut == [back EXCEPT !.timer = uv_close(@)]
  <1>7. \/ c.timed_out /\ Change(id, back) /\ UNCHANGED <<request, next_id>>
        \/ /\ ~c.timed_out
           /\ Change(id, close_connection(shut)) /\ request' = [request EXCEPT !.result = "error"]
           /\ UNCHANGED next_id
        \/ /\ ~c.timed_out /\ ok
           /\ Change(id, [shut EXCEPT !.reading = TRUE, !.request = FALSE])
           /\ request' = [request EXCEPT !.done = TRUE, !.result = "ok", !.id = id]
           /\ next_id' = id
    <2>1. back.timed_out = c.timed_out
      BY <1>2, Zenon DEF Local, Connection
    <2>2. QED
      BY <1>1, <1>3, <2>1, Zenon DEF connected
  <1>8. CASE c.timed_out /\ Change(id, back) /\ UNCHANGED <<request, next_id>>
    <2>1. PICK d : d = back
      BY Zenon
    <2>2. Local(d) /\ SamePointers(d, c) /\ d.tcp = c.tcp
      BY <1>2, <1>8, <2>1, CancelledLocal, Zenon
    <2>3. Change(id, d)
      BY <1>8, <2>1
    <2>4. connections'[id] = d
      BY <2>2, <2>3, ChangeOne
    <2>5. PointsTo(id)'
      BY Zenon, <1>1, <1>2, <1>5, <1>8, <2>2, <2>4 DEF PointsTo, Awaited, SamePointers
    <2>6. QED
      BY <1>1, <1>2, <1>4, <1>6, <1>8, <2>2, <2>3, <2>5, HolderChanges
  <1>9. CASE /\ ~c.timed_out
             /\ Change(id, close_connection(shut)) /\ request' = [request EXCEPT !.result = "error"]
             /\ UNCHANGED next_id
    <2>1. PICK d : d = close_connection(shut)
      OBVIOUS
    <2>2. Local(d) /\ SamePointers(d, c)
      BY <1>2, <2>1, ConnectFailsLocal, Zenon
    <2>3. Change(id, d)
      BY <1>9, <2>1
    <2>4. connections'[id] = d
      BY <2>2, <2>3, ChangeOne
    <2>5. request' \in RequestRecord /\ request'.done = request.done
      BY Zenon, <1>6, <1>9, RequestType, Codes
    <2>6. PointsTo(id)'
      BY Zenon, <1>1, <1>2, <1>5, <1>9, <2>2, <2>4, <2>5 DEF PointsTo, Awaited, SamePointers
    <2>7. QED
      BY <1>1, <1>2, <1>4, <1>6, <1>9, <2>2, <2>3, <2>5, <2>6, HolderChanges
  <1>10. CASE /\ ~c.timed_out /\ ok
              /\ Change(id, [shut EXCEPT !.reading = TRUE, !.request = FALSE])
              /\ request' = [request EXCEPT !.done = TRUE, !.result = "ok", !.id = id]
              /\ next_id' = id
    <2>1. PICK d : d = [shut EXCEPT !.reading = TRUE, !.request = FALSE]
      OBVIOUS
    <2>2. /\ Local(d) /\ ~d.request /\ ~d.timed_out /\ d.tcp = "open"
          /\ d.writing = c.writing /\ d.shutting = c.shutting
      BY <1>2, <1>3, <1>10, <2>1, ConnectedLocal, Zenon
    <2>3. Change(id, d)
      BY <1>10, <2>1
    <2>4. connections'[id] = d
      BY <2>2, <2>3, ChangeOne
    <2>5. request' \in RequestRecord
      BY <1>6, <1>10, Zenon DEF RequestRecord, ReturnCode
    <2>6. ~c.writing /\ ~c.shutting
      BY <1>1, <1>2 DEF PointsTo
    <2>7. PointsTo(id)'
      BY <2>2, <2>4, <2>6 DEF PointsTo
    <2>8. QED
      BY <1>1, <1>2, <1>4, <1>6, <1>10, <2>2, <2>3, <2>5, <2>7, HolderChanges
  <1>11. QED
    BY <1>7, <1>8, <1>9, <1>10, Zenon

LEMMA ConnectionTimeoutStep ==
  ASSUME ClientInv, NEW id \in Id, ConnectionTimeout(id)
  PROVE  ClientInv'
  <1>1. PICK c : c = connections[id]
    OBVIOUS
  <1>2. Local(c) /\ PointsTo(id) /\ c.timer = "open" /\ c.request
    BY <1>1 DEF ClientInv, ConnectionTimeout, Local, Fresh
  <1>3. /\ Change(id, close_connection([c EXCEPT !.timed_out = TRUE]))
        /\ request' = [request EXCEPT !.result = "ETIMEDOUT"]
        /\ UNCHANGED <<at, poll>> /\ next_id' = next_id /\ LoopKeeps
    BY <1>1 DEF ConnectionTimeout
  <1>4. UNCHANGED <<at, op, pending, stopping>> /\ Awaited
    BY <1>1, <1>2, <1>3, OnlyOne DEF LoopKeeps, slotVars, threadVars
  <1>5. PICK d : d = close_connection([c EXCEPT !.timed_out = TRUE])
    OBVIOUS
  <1>6. /\ Local(d) /\ d.tcp # "open"
        /\ d.request = c.request /\ d.writing = c.writing /\ d.shutting = c.shutting
    BY <1>2, <1>5, TimeoutLocal, Zenon
  <1>7. Change(id, d)
    BY <1>3, <1>5
  <1>8. connections'[id] = d
    BY <1>6, <1>7, ChangeOne
  <1>9. request' \in RequestRecord /\ request'.done = request.done /\ request'.result = "ETIMEDOUT"
    BY Zenon, <1>3, RequestType, Codes DEF ClientInv, ClientTypeInv
  <1>10. PointsTo(id)'
    BY Zenon, <1>1, <1>2, <1>3, <1>4, <1>6, <1>8, <1>9 DEF PointsTo, Awaited
  <1>11. next_id' \in 0 .. MaxId
    BY <1>3 DEF ClientInv, ClientTypeInv
  <1>12. QED
    BY <1>1, <1>2, <1>3, <1>6, <1>7, <1>9, <1>10, <1>11, HolderChanges

\* The callback of a write or a shutdown answers the request.
LEMMA AnsweredStep ==
  ASSUME ClientInv, NEW id \in Id, Written(id) \/ ShutdownDone(id)
  PROVE  ClientInv'
  <1>1. PICK c : c = connections[id]
    OBVIOUS
  <1>2. Local(c) /\ PointsTo(id) /\ (c.writing \/ c.shutting)
    BY <1>1 DEF ClientInv, Written, ShutdownDone
  <1>3. ~c.request /\ ~c.timed_out /\ (c.tcp = "open" \/ stopping)
    <2>1. ~c.request /\ c # NoConnection
      BY <1>1, <1>2, NoConnectionLocal DEF PointsTo
    <2>2. QED
      BY Zenon, <1>1, <1>2, <2>1 DEF PointsTo, Local, Fresh
  <1>4. /\ UNCHANGED <<at, poll>> /\ next_id' = next_id /\ LoopKeeps /\ stopping' = stopping
        /\ \E r \in {"ok", "error"} : complete(r)
    BY DEF Written, ShutdownDone, LoopKeeps, threadVars
  <1>5. request' \in RequestRecord
    BY ZenonT(40), <1>4, RequestType, Codes DEF ClientInv, ClientTypeInv, complete
  <1>6. PICK d : /\ Change(id, d) /\ Local(d) /\ d.tcp = c.tcp /\ ~d.request /\ ~d.timed_out
                 /\ ~d.writing /\ ~d.shutting
    <2>1. CASE Written(id)
      <3>1. PICK b \in BOOLEAN : b = FALSE
        BY Zenon
      <3>2. PICK d : d = Writing(c, b)
        OBVIOUS
      <3>3. /\ Local(d) /\ d.tcp = c.tcp /\ d.writing = b
            /\ d.request = c.request /\ d.shutting = c.shutting /\ d.timed_out = c.timed_out
        BY Zenon, <1>2, <3>1, <3>2, WritingLocal
      <3>4. Change(id, d)
        BY Zenon, <1>1, <2>1, <3>1, <3>2 DEF Written, Writing
      <3>5. ~c.shutting
        BY <1>1, <1>2, <2>1 DEF PointsTo, Written
      <3>6. QED
        BY <1>3, <3>1, <3>3, <3>4, <3>5
    <2>2. CASE ShutdownDone(id)
      <3>1. PICK d : d = [c EXCEPT !.shutting = FALSE]
        BY Zenon
      <3>2. /\ Local(d) /\ d.tcp = c.tcp /\ ~d.shutting
            /\ d.request = c.request /\ d.writing = c.writing /\ d.timed_out = c.timed_out
        BY <1>2, <3>1, ShuttingLocal, Zenon
      <3>3. Change(id, d)
        BY <1>1, <2>2, <3>1 DEF ShutdownDone
      <3>4. ~c.writing
        BY <1>1, <1>2, <2>2 DEF PointsTo, ShutdownDone
      <3>5. QED
        BY <1>3, <3>2, <3>3, <3>4
    <2>3. QED
      BY <2>1, <2>2
  <1>7. connections'[id] = d
    BY <1>6, ChangeOne
  <1>8. PointsTo(id)'
    BY <1>3, <1>4, <1>6, <1>7 DEF PointsTo
  <1>9. next_id' \in 0 .. MaxId
    BY <1>4 DEF ClientInv, ClientTypeInv
  <1>10. QED
    BY <1>1, <1>2, <1>4, <1>5, <1>6, <1>8, <1>9, HolderChanges

\* Bytes, or the end, arrive: select is told.
LEMMA ArrivesStep ==
  ASSUME ClientInv, NEW id \in Id, Received(id) \/ ReceivedEnd(id)
  PROVE  ClientInv'
  <1>1. PICK c : c = connections[id]
    OBVIOUS
  <1>2. Local(c) /\ PointsTo(id) /\ c.reading
    BY Zenon, <1>1 DEF ClientInv, Received, ReceivedEnd
  <1>3. /\ notify /\ UNCHANGED <<op, pending, request, stopping>> /\ next_id' = next_id
        /\ LoopKeeps
    BY Zenon DEF Received, ReceivedEnd, LoopKeeps, slotVars, threadVars
  <1>4. PICK d : Change(id, d) /\ Local(d) /\ SamePointers(d, c) /\ d.tcp = c.tcp
    <2>1. CASE ReceivedEnd(id)
      <3>1. PICK d : d = [c EXCEPT !.read_status = "error", !.reading = FALSE]
        OBVIOUS
      <3>2. Local(d) /\ SamePointers(d, c) /\ d.tcp = c.tcp
        BY <1>2, <3>1, EndLocal, Zenon
      <3>3. QED
        BY Zenon, <1>1, <2>1, <3>1, <3>2 DEF ReceivedEnd
    <2>2. CASE Received(id)
      <3>1. PICK n \in 1 .. ReceiveLimit - Len(c.received) :
              Change(id, Arrived(c, n, Len(c.received) + n = ReceiveLimit))
        BY <1>1, <2>2, ZenonT(40) DEF Received, Arrived
      <3>2. PICK d, full : /\ full = (Len(c.received) + n = ReceiveLimit)
                           /\ d = Arrived(c, n, full)
        OBVIOUS
      <3>3. Local(d) /\ SamePointers(d, c) /\ d.tcp = c.tcp
        BY <1>2, <3>2, ArrivedLocal
      <3>4. QED
        BY <3>1, <3>2, <3>3
    <2>3. QED
      BY <2>1, <2>2
  <1>5. /\ connections'[id] = d /\ \A i \in Id : i # id => connections'[i] = connections[i]
    BY <1>4, ChangeOne, Zenon
  <1>6. poll \in PollRecord /\ request' \in RequestRecord /\ next_id' \in 0 .. MaxId
        /\ at \in {"creating", "idle", "call", "request", "select", "check", "wait", "joining",
                   "destroyed"}
    BY <1>3 DEF ClientInv, ClientTypeInv
  <1> DEFINE told == poll.sockets # {}
  <1>7. told \in BOOLEAN /\ poll' = [poll EXCEPT !.revised = told]
        /\ at' = IF at = "wait" THEN "select" ELSE at
    BY <1>3 DEF notify
  <1>8. /\ poll' \in PollRecord /\ poll'.revised = told /\ poll'.sockets = poll.sockets
    <2> HIDE DEF told
    <2>1. QED
      BY <1>6, <1>7, PollType, Zenon
  <1>9. Asked'
    BY Zenon, <1>7, <1>8 DEF Asked
  <1>10. Awaited' = Awaited
    BY <1>3, <1>7 DEF Awaited
  <1>11. ASSUME NEW i \in Id, i # id PROVE PointsTo(i)'
    <2>1. PointsTo(i)
      BY DEF ClientInv
    <2>2. QED
      BY <1>3, <1>5, <1>10, <1>11, <2>1 DEF PointsTo
  <1>12. PointsTo(id)'
    <2>1. c # NoConnection
      BY <1>2, NoConnectionLocal
    <2>2. QED
      BY <1>1, <1>2, <1>3, <1>4, <1>5, <1>10, <2>1 DEF PointsTo, SamePointers
  <1>13. pending => ~request'.done
    BY <1>3 DEF ClientInv, Serial
  <1>14. QED
    BY <1>3, <1>4, <1>6, <1>7, <1>8, <1>9, <1>11, <1>12, <1>13, LoopChanges

\* A handle of a connection that goes has closed.
LEMMA ClosedKeeps ==
  ASSUME ClientInv, NEW id \in Id, NEW c, c = connections[id], c # NoConnection, c.tcp # "open",
         NEW d, Local(d), Change(id, d), LoopKeeps, UNCHANGED <<at, poll>>, next_id' = next_id,
         \/ request' = request /\ SamePointers(d, c)
         \/ /\ request' = [request EXCEPT !.done = @ \/ c.request]
            /\ d = NoConnection /\ ~c.writing /\ ~c.shutting
  PROVE  ClientInv'
  <1>1. Local(c) /\ PointsTo(id) /\ (c.request \/ stopping)
    BY DEF ClientInv, PointsTo
  <1>2. /\ connections'[id] = d /\ \A i \in Id : i # id => connections'[i] = connections[i]
    BY ChangeOne, Zenon
  <1>3. UNCHANGED <<op, pending, stopping>>
    BY DEF LoopKeeps, slotVars, threadVars
  <1>4. request \in RequestRecord /\ poll' \in PollRecord /\ next_id' \in 0 .. MaxId
    BY DEF ClientInv, ClientTypeInv
  <1>5. c.request \in BOOLEAN
    BY <1>1, Zenon DEF Local, Connection
  <1>6. request' \in RequestRecord
    BY <1>4, <1>5, Zenon DEF RequestRecord
  <1>7. CASE c.request
    <2>1. PointsTo(id)'
      <3>1. CASE request' = request /\ SamePointers(d, c)
        BY <1>1, <1>2, <1>3, <1>7, <3>1 DEF PointsTo, Awaited, SamePointers
      <3>2. CASE d = NoConnection
        BY <1>2, <3>2, NoConnectionLocal DEF PointsTo
      <3>3. QED
        BY <3>1, <3>2
    <2>2. QED
      BY <1>4, <1>6, <1>7, <2>1, HolderChanges
  <1>8. CASE ~c.request
    <2>1. stopping /\ at \in {"joining", "destroyed"} /\ ~pending
      BY <1>1, <1>8 DEF ClientInv, Serial
    <2>2. \A i \in Id : Free(i)
      BY <2>1, NobodyPoints DEF Awaited
    <2>3. PointsTo(id)'
      <3>1. ~d.request /\ ~d.writing /\ ~d.shutting /\ ~d.timed_out
        BY <2>2, NoConnectionLocal DEF Free, SamePointers
      <3>2. QED
        BY <1>2, <1>3, <2>1, <3>1 DEF PointsTo
    <2>4. \A i \in Id : i # id => PointsTo(i)'
      BY <1>2, <1>3, <2>2, FreeKept
    <2>5. Asked'
      BY <2>1, Unwatched
    <2>6. QED
      BY <1>4, <1>6, <2>1, <2>3, <2>4, <2>5, LoopChanges
  <1>9. QED
    BY <1>7, <1>8

LEMMA TcpClosedStep ==
  ASSUME ClientInv, NEW id \in Id, TcpClosed(id)
  PROVE  ClientInv'
  <1>1. PICK c, e : c = connections[id] /\ e = [c EXCEPT !.tcp = "none"]
    BY Zenon
  <1>2. /\ Local(c) /\ c.tcp = "closing" /\ ~c.connecting /\ ~c.writing /\ ~c.shutting
        /\ connection_closed(id, e) /\ UNCHANGED <<at, poll>> /\ LoopKeeps
    BY Zenon, <1>1 DEF TcpClosed, ClientInv
  <1>3. c # NoConnection /\ next_id' = next_id
    BY <1>2, NoConnectionLocal DEF connection_closed
  <1>4. e.handles = c.handles /\ e.request = c.request
    BY <1>1, <1>2, Zenon DEF Local, Connection
  <1>5. CASE Change(id, [e EXCEPT !.handles = @ - 1]) /\ UNCHANGED request
    <2>1. PICK d : d = [e EXCEPT !.handles = @ - 1]
      BY Zenon
    <2>2. Local(d) /\ SamePointers(d, c)
      BY <1>1, <1>2, <2>1, TcpClosedLocal, Zenon
    <2>3. QED
      BY <1>1, <1>2, <1>3, <1>5, <2>1, <2>2, ClosedKeeps
  <1>6. CASE Change(id, NoConnection) /\ request' = [request EXCEPT !.done = @ \/ e.request]
    BY <1>1, <1>2, <1>3, <1>4, <1>6, NoConnectionLocal, ClosedKeeps
  <1>7. QED
    BY <1>2, <1>5, <1>6 DEF connection_closed

LEMMA TimerClosedStep ==
  ASSUME ClientInv, NEW id \in Id, TimerClosed(id)
  PROVE  ClientInv'
  <1>1. PICK c, e : c = connections[id] /\ e = [c EXCEPT !.timer = "none"]
    BY Zenon
  <1>2. /\ Local(c) /\ PointsTo(id) /\ c.timer = "closing"
        /\ connection_closed(id, e) /\ UNCHANGED <<at, poll>> /\ LoopKeeps
    BY Zenon, <1>1 DEF TimerClosed, ClientInv
  <1>3. c # NoConnection /\ next_id' = next_id
    BY <1>2, NoConnectionLocal DEF connection_closed
  <1>4. e.handles = c.handles /\ e.request = c.request
    BY <1>1, <1>2, Zenon DEF Local, Connection
  <1>5. CASE Change(id, [e EXCEPT !.handles = @ - 1]) /\ UNCHANGED request
    <2>1. PICK d : d = [e EXCEPT !.handles = @ - 1]
      BY Zenon
    <2>2. Local(d) /\ SamePointers(d, c) /\ SameReadiness(d, c) /\ d.tcp = c.tcp /\ Change(id, d)
      BY <1>1, <1>2, <1>5, <2>1, TimerClosedLocal, ZenonT(40)
    <2>3. CASE c.tcp # "open"
      BY <1>1, <1>2, <1>3, <1>5, <2>2, <2>3, ClosedKeeps
    <2>4. CASE c.tcp = "open"
      <3>1. /\ connections'[id] = d /\ \A i \in Id : i # id => connections'[i] = connections[i]
        BY <2>2, ChangeOne, Zenon
      <3>2. UNCHANGED <<op, pending, stopping>>
        BY <1>2 DEF LoopKeeps, slotVars, threadVars
      <3>3. PointsTo(id)'
        BY <1>1, <1>2, <1>3, <1>5, <2>2, <2>4, <3>1, <3>2 DEF PointsTo, SamePointers, Awaited
      <3>4. \A i \in Id : i # id => PointsTo(i)'
        BY <1>2, <1>3, <1>5, <3>1, <3>2 DEF ClientInv, PointsTo, Awaited
      <3>5. /\ request' \in RequestRecord /\ poll' \in PollRecord /\ next_id' \in 0 .. MaxId
            /\ poll.sockets \in SUBSET Socket
        BY <1>2, <1>3, <1>5 DEF ClientInv, ClientTypeInv, PollRecord
      <3>6. \A socket \in poll.sockets : NotReady(socket)' = NotReady(socket)
        <4>1. \A socket \in poll.sockets : socket[1] \in Id
          BY <3>5 DEF Socket
        <4>2. QED
          BY <1>1, <2>2, <3>1, <4>1 DEF NotReady, SameReadiness
      <3>7. Asked
        BY DEF ClientInv
      <3>8. Asked'
        BY <1>2, <1>5, <3>2, <3>6, <3>7, Zenon DEF Asked, Selecting
      <3>9. pending => ~request'.done
        BY <1>5 DEF ClientInv, Serial
      <3>10. QED
        BY Zenon, <1>2, <2>2, <3>3, <3>4, <3>5, <3>8, <3>9, LoopChanges
    <2>5. QED
      BY <2>3, <2>4
  <1>6. CASE /\ e.handles = 1
             /\ Change(id, NoConnection) /\ request' = [request EXCEPT !.done = @ \/ e.request]
    <2>1. c.tcp = "none"
      BY <1>2, <1>4, <1>6 DEF Local, Counted
    <2>2. ~c.writing /\ ~c.shutting
      BY <1>2, <2>1 DEF Local, Quiet
    <2>3. QED
      BY <1>1, <1>2, <1>3, <1>4, <1>6, <2>1, <2>2, NoConnectionLocal, ClosedKeeps
  <1>7. QED
    BY <1>2, <1>5, <1>6 DEF connection_closed

LEMMA ThreadStep ==
  ASSUME ClientInv, RunStarts \/ RunEnds
  PROVE  ClientInv'
  <1>1. /\ UNCHANGED <<at, op, poll, pending, async, request, stopping, connections, next_id>>
        /\ wakeup' \in {"none", "open", "closing", "closed"}
    BY DEF RunStarts, RunEnds, callerVars, slotVars
  <1>2. ClientTypeInv'
    BY <1>1 DEF ClientInv, ClientTypeInv
  <1>3. Serial'
    BY <1>1 DEF ClientInv, Serial
  <1>4. \A id \in Id : Local(connections'[id]) /\ PointsTo(id)'
    BY Zenon, <1>1 DEF ClientInv, PointsTo, Awaited
  <1>5. Asked'
    BY Zenon, <1>1 DEF ClientInv, Asked, Selecting, NotReady
  <1>6. QED
    BY <1>2, <1>3, <1>4, <1>5 DEF ClientInv
-----------------------------------------------------------------------------
LEMMA ClientInit == Init => ClientInv
  <1> SUFFICES ASSUME Init PROVE ClientInv
    OBVIOUS
  <1>1. connections \in [Id -> Connection] /\ \A id \in Id : connections[id] = NoConnection
    BY NoConnectionLocal DEF Init, Local
  <1>2. ClientTypeInv
    <2>1. 0 \in 0 .. MaxId
      BY ClientAssumption
    <2>2. QED
      BY Zenon, <1>1, <2>1, NoOpType, NoPollType, NoRequestType DEF Init, ClientTypeInv
  <1>3. Serial
    BY NoOpType DEF Init, Serial
  <1>4. \A id \in Id : Local(connections[id]) /\ PointsTo(id)
    BY <1>1, NoConnectionLocal DEF PointsTo
  <1>5. Asked
    BY DEF Init, Asked, Selecting
  <1>6. QED
    BY <1>2, <1>3, <1>4, <1>5 DEF ClientInv

LEMMA ClientNext == ClientInv /\ [Next]_vars => ClientInv'
  <1> SUFFICES ASSUME ClientInv, [Next]_vars PROVE ClientInv'
    OBVIOUS
  <1>1. CASE CallStart
    BY <1>1, CallStartStep, SelectStep, LifeStep DEF CallStart
  <1>2. CASE CallerStep \/ WaitEnds
    BY <1>2, LifeStep, ReturnsStep, SelectStep, RuntimeReadyStep DEF CallerStep
  <1>3. CASE CommandStep
    BY <1>3, StartConnectStep, StartCloseStep, StartSendStep, ReceiveDataStep, StartShutdownStep,
       CheckReadyStep, StopStep DEF CommandStep
  <1>4. ASSUME NEW id \in Id, CloseStep(id) PROVE ClientInv'
    BY <1>4, ConnectionTimeoutStep, TcpClosedStep, TimerClosedStep, ConnectedStep DEF CloseStep
  <1>5. ASSUME NEW id \in Id, NetworkStep(id) PROVE ClientInv'
    BY <1>5, ConnectedStep, ArrivesStep, AnsweredStep DEF NetworkStep
  <1>6. CASE RunStarts \/ RunEnds
    BY <1>6, ThreadStep
  <1>7. CASE UNCHANGED vars
    <2>1. UNCHANGED <<at, op, poll, pending, async, request, stopping, wakeup, connections, next_id>>
      BY <1>7 DEF vars, callerVars, slotVars, threadVars
    <2>2. ClientTypeInv' /\ Serial'
      BY <2>1 DEF ClientInv, ClientTypeInv, Serial
    <2>3. \A id \in Id : Local(connections'[id]) /\ PointsTo(id)'
      BY Zenon, <2>1 DEF ClientInv, PointsTo, Awaited
    <2>4. Asked'
      BY Zenon, <2>1 DEF ClientInv, Asked, Selecting, NotReady
    <2>5. QED
      BY <2>2, <2>3, <2>4 DEF ClientInv
  <1>8. QED
    BY <1>1, <1>2, <1>3, <1>4, <1>5, <1>6, <1>7 DEF Next, LoopStep

\* The inductive invariant holds in every reachable state.
THEOREM ClientCorrect == Spec => []ClientInv
  BY ClientInit, ClientNext, PTL DEF Spec

\* A connection's count is the number of its handles that have not closed: the last close
\* callback, and no earlier one, frees it (connection_closed).
THEOREM HandlesCounted == Spec => []HandlesExact
  <1>1. ClientInv => HandlesExact
    BY DEF ClientInv, Local, Counted, HandlesExact
  <1>2. QED
    BY <1>1, ClientCorrect, PTL

\* Whatever the loop still points to is the request the caller is waiting on.
THEOREM RequestsOutliveUse == Spec => []RequestOutlivesUse
  <1>1. ClientInv => RequestOutlivesUse
    BY Zenon DEF ClientInv, PointsTo, Awaited, RequestOutlivesUse
  <1>2. QED
    BY <1>1, ClientCorrect, PTL

\* A connect that timed out is answered with ETIMEDOUT, however late its callback comes.
THEOREM TimeoutsReported == Spec => []TimeoutReported
  <1>1. ClientInv => TimeoutReported
    BY Zenon DEF ClientInv, PointsTo, TimeoutReported
  <1>2. QED
    BY <1>1, ClientCorrect, PTL

\* recv hands out the peer's bytes in order, none twice and none dropped.
THEOREM BytesStayInOrder == Spec => []BytesInOrder
  <1>1. ClientInv => BytesInOrder
    BY Zenon DEF ClientInv, Local, InOrder, Bytes, BytesInOrder
  <1>2. QED
    BY <1>1, ClientCorrect, PTL

\* A connected socket that has room reads.
THEOREM RoomIsRead == Spec => []ReadsWhileRoom
  <1>1. ClientInv => ReadsWhileRoom
    BY Zenon DEF ClientInv, Local, Flowing, ReadsWhileRoom
  <1>2. QED
    BY <1>1, ClientCorrect, PTL

\* select never sleeps while one of its sockets is ready.
THEOREM SelectNeverOversleeps == Spec => []SleepsOnlyIfNothingReady
  <1>1. ClientInv => SleepsOnlyIfNothingReady
    BY Zenon DEF ClientInv, Asked, Selecting, NotReady, SleepsOnlyIfNothingReady
  <1>2. QED
    BY <1>1, ClientCorrect, PTL
=============================================================================
