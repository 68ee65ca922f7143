---------------------------- MODULE SocketEntry -----------------------------
(***************************************************************************)
(* One socket of the runtime, struct skyuv_socket_entry, and what each     *)
(* function of socket_internal.c that runs on the loop thread does to it.  *)
(*                                                                         *)
(* An operator takes the entry before the call and yields the entry after  *)
(* it, the events it pushes and the send buffers it releases.  The outcome *)
(* of a libuv call is a parameter.  An entry that is not in the table      *)
(* (a NULL from find_entry, a freed entry) is NoEntry, in state "INVALID". *)
(*                                                                         *)
(* Left out: addresses and names, byte and time statistics, error codes    *)
(* (the value of an ERROR is 0), the contents of received data.            *)
(***************************************************************************)
EXTENDS Integers, Sequences

CONSTANT WARNING_SIZE    \* SKYUV_SOCKET_WARNING_SIZE, 1 MiB in the code

ASSUME WarningSizeAssumption == WARNING_SIZE \in Nat \ {0}

\* LISTEN_PENDING is set and replaced within process_listen.
State == {"INVALID", "RESERVED", "LISTENING", "CONNECTING", "ACCEPTED_PAUSED", "CONNECTED",
          "CONNECTED_PAUSED", "HALFCLOSE_READ", "UDP", "CLOSING"}

EventType == {"DATA", "CLOSE", "OPEN", "ACCEPT", "ERROR", "UDP", "WARNING"}

\* A queued or submitted write: the number of its buffer, and its size.
Write == [buf : Nat, size : Nat]

Event == [type : EventType, id : Int, opaque : Nat, value : Int]

Entry == [id : Int, state : State, opaque : Nat, initialized : BOOLEAN,
          is_udp : BOOLEAN, has_udp_target : BOOLEAN, external_fd : Int,
          high : Seq(Write), low : Seq(Write),
          writing : Seq(Write),          \* the write libuv holds, at most one
          udp_writes : SUBSET Nat,       \* buffers of sends libuv holds
          queued_bytes : Int, warn_size : Nat,
          reading : BOOLEAN, close_requested : BOOLEAN,
          connecting : BOOLEAN,          \* libuv holds the uv_connect_t
          unaccepted : BOOLEAN,          \* libuv holds a connection nobody accepted
          uv_closes : Nat,               \* calls of uv_close on the handle
          terminals : Nat]               \* CLOSE and fatal ERROR events pushed

NoEntry == [id |-> 0, state |-> "INVALID", opaque |-> 0, initialized |-> FALSE,
            is_udp |-> FALSE, has_udp_target |-> FALSE, external_fd |-> -1,
            high |-> << >>, low |-> << >>, writing |-> << >>, udp_writes |-> {},
            queued_bytes |-> 0, warn_size |-> 0, reading |-> FALSE,
            close_requested |-> FALSE, connecting |-> FALSE, unaccepted |-> FALSE,
            uv_closes |-> 0, terminals |-> 0]

ReservedEntry(id, opaque) ==
  [NoEntry EXCEPT !.id = id, !.state = "RESERVED", !.opaque = opaque]

\* What a call did: the entry after it, events pushed, buffers released.
Did(entry, events, buffers) == [entry |-> entry, events |-> events, buffers |-> buffers]

Unchanged(e) == Did(e, << >>, {})

EventOf(type, e, value) == [type |-> type, id |-> e.id, opaque |-> e.opaque, value |-> value]

\* ERROR sent to whoever issued a command the entry cannot take.
ErrorTo(command) ==
  [type |-> "ERROR", id |-> command.id, opaque |-> command.opaque, value |-> 0]

Buffers(writes) == {writes[i].buf : i \in 1 .. Len(writes)}

\* The writes an entry has in flight or queued, and the sum of their sizes.
Held(e) == e.writing \o e.high \o e.low

TotalSize(writes) ==
  LET sum[i \in 0 .. Len(writes)] == IF i = 0 THEN 0 ELSE sum[i - 1] + writes[i].size
  IN  sum[Len(writes)]

\* The buffers an entry has queued or in flight.
HeldBuffers(e) == Buffers(e.writing) \cup Buffers(e.high) \cup Buffers(e.low) \cup e.udp_writes
-----------------------------------------------------------------------------
\* set_entry_state(CLOSING) and uv_close always come together.
uv_close(e) == [e EXCEPT !.state = "CLOSING", !.uv_closes = @ + 1]

Terminal(e) == [e EXCEPT !.terminals = @ + 1]

close_after_writes(e) ==
  IF ~e.close_requested \/ e.writing # << >> \/ e.high # << >> \/ e.low # << >>
  THEN e
  ELSE uv_close(e)

reject_entry(e) == Did(uv_close(Terminal(e)), <<EventOf("ERROR", e, 0)>>, {})

finish_entry(e) == IF e.state = "CLOSING" THEN Unchanged(e) ELSE reject_entry(e)

\* A write that fails after the peer's EOF closes without a second report.
fail_write(e) ==
  IF e.state = "HALFCLOSE_READ" THEN Did(uv_close(e), << >>, {}) ELSE finish_entry(e)

start_reading(e) == [e EXCEPT !.reading = TRUE]

close_entry_forgets_low(e) == Did(NoEntry, << >>, Buffers(e.high))

close_entry(e) == Did(NoEntry, << >>, Buffers(e.high) \cup Buffers(e.low))

\* The callback of uv_read_start: data, end of file, or an error.
read_completed(e, nread) ==
  CASE nread = "data"  -> Did(e, <<EventOf("DATA", e, 0)>>, {})
    [] nread = "eof"   -> IF e.state = "HALFCLOSE_READ" THEN Unchanged(e)
                          ELSE Did(Terminal([e EXCEPT !.reading = FALSE, !.state = "HALFCLOSE_READ"]),
                                   <<EventOf("CLOSE", e, 0)>>, {})
    [] nread = "error" -> finish_entry(e)

pump_write_keeps_bytes(e, ok) ==
  IF e.writing # << >> \/ (e.high = << >> /\ e.low = << >>) THEN Unchanged(e)
  ELSE LET next   == IF e.high # << >> THEN Head(e.high) ELSE Head(e.low)
           taken  == IF e.high # << >> THEN [e EXCEPT !.high = Tail(@)]
                                       ELSE [e EXCEPT !.low = Tail(@)]
           failed == fail_write(taken)
       IN  IF ok THEN Unchanged([taken EXCEPT !.writing = <<next>>])
                 ELSE Did(failed.entry, failed.events, {next.buf})

pump_write(e, ok) ==
  IF e.writing # << >> \/ (e.high = << >> /\ e.low = << >>) THEN Unchanged(e)
  ELSE LET next   == IF e.high # << >> THEN Head(e.high) ELSE Head(e.low)
           taken  == IF e.high # << >> THEN [e EXCEPT !.high = Tail(@)]
                                       ELSE [e EXCEPT !.low = Tail(@)]
           failed == fail_write([taken EXCEPT !.queued_bytes = @ - next.size])
       IN  IF ok THEN Unchanged([taken EXCEPT !.writing = <<next>>])
                 ELSE Did(failed.entry, failed.events, {next.buf})

write_completed_stops(e, ok, pump_ok) ==
  LET first == IF ok \/ e.state = "CLOSING" THEN Unchanged(e) ELSE fail_write(e)
      done  == [first.entry EXCEPT !.queued_bytes = @ - e.writing[1].size, !.writing = << >>,
                                   !.warn_size = IF first.entry.queued_bytes - e.writing[1].size = 0 THEN 0 ELSE @]
  IN  Did(close_after_writes(done), first.events, {e.writing[1].buf})

\* The callback of uv_write; pump_ok is the outcome of the next uv_write.
write_completed(e, ok, pump_ok) ==
  LET write  == e.writing[1]
      first  == IF ok \/ e.state = "CLOSING" THEN Unchanged(e) ELSE fail_write(e)
      done   == [first.entry EXCEPT !.queued_bytes = @ - write.size, !.writing = << >>]
      calm   == done.queued_bytes = 0 /\ done.warn_size > 0 /\ done.state # "CLOSING"
      rest   == IF calm THEN [done EXCEPT !.warn_size = 0] ELSE done
      pushed == first.events \o (IF calm THEN <<EventOf("WARNING", done, 0)>> ELSE << >>)
      pumped == pump_write(rest, pump_ok)
  IN  CASE rest.close_requested -> Did(close_after_writes(rest), pushed, {write.buf})
        [] ~rest.close_requested /\ rest.state # "CLOSING" ->
             Did(pumped.entry, pushed \o pumped.events, {write.buf} \cup pumped.buffers)
        [] OTHER -> Did(rest, pushed, {write.buf})

\* The callback of uv_tcp_connect, called with ECANCELED after uv_close.
connect_completed_late(e, ok) ==
  LET connected == [e EXCEPT !.connecting = FALSE] IN
  IF ~ok THEN reject_entry(connected)
  ELSE Did([start_reading(connected) EXCEPT !.state = "CONNECTED"],
           <<EventOf("OPEN", e, 0)>>, {})

connect_completed(e, ok) ==
  LET connected == [e EXCEPT !.connecting = FALSE] IN
  CASE e.state = "CLOSING"         -> Unchanged(connected)
    [] e.state # "CLOSING" /\ ~ok  -> reject_entry(connected)
    [] e.state # "CLOSING" /\ ok   -> Did([start_reading(connected) EXCEPT !.state = "CONNECTED"],
                                          <<EventOf("OPEN", e, 0)>>, {})

udp_received(e, nread) ==
  IF nread = "error" THEN finish_entry(e) ELSE Did(e, <<EventOf("UDP", e, 0)>>, {})

udp_write_completed(e, buf, ok) ==
  Did([e EXCEPT !.udp_writes = @ \ {buf}],
      IF ok \/ e.state = "CLOSING" THEN << >> ELSE <<EventOf("ERROR", e, 0)>>, {buf})
-----------------------------------------------------------------------------
(***************************************************************************)
(* The commands that open a socket.  They act on an entry the submitting   *)
(* thread reserved.  The outcome of their libuv calls is "discard" when    *)
(* the address does not parse or the handle cannot be initialized, and     *)
(* "reject" when a call on the initialized handle fails.                   *)
(***************************************************************************)
OpenOutcome == {"ok", "reject", "discard"}

open_entry(e, outcome, opened, events) ==
  CASE e.state # "RESERVED" -> Unchanged(e)
    [] e.state = "RESERVED" /\ outcome = "discard" -> Did(NoEntry, <<EventOf("ERROR", e, 0)>>, {})
    [] e.state = "RESERVED" /\ outcome = "reject"  -> reject_entry(opened)
    [] e.state = "RESERVED" /\ outcome = "ok"      -> Did(opened, events, {})

process_listen(e, outcome) ==
  open_entry(e, outcome, [e EXCEPT !.initialized = TRUE, !.state = "LISTENING"],
             <<EventOf("OPEN", e, 0)>>)

process_connect(e, outcome) ==
  open_entry(e, outcome, [e EXCEPT !.initialized = TRUE, !.state = "CONNECTING",
                                   !.connecting = (outcome = "ok")], << >>)

process_bind(e, outcome) ==
  open_entry(e, outcome, [e EXCEPT !.initialized = TRUE, !.state = "CONNECTED",
                                   !.reading = (outcome = "ok")],
             <<EventOf("OPEN", e, 0)>>)

process_udp(e, outcome) ==
  open_entry(e, outcome, [e EXCEPT !.initialized = TRUE, !.is_udp = TRUE, !.state = "UDP"], << >>)
-----------------------------------------------------------------------------
(***************************************************************************)
(* The commands on an open socket; e is NoEntry when find_entry fails.     *)
(* A command that does not hand its buffer on has it released by           *)
(* skyuv_socket_command_destroy.                                           *)
(***************************************************************************)
OpenType == {"LISTEN", "CONNECT", "BIND", "UDP"}

RequestType == {"START", "PAUSE", "NODELAY", "SEND", "SEND_LOW", "CLOSE", "SHUTDOWN",
                "UDP_CONNECT", "UDP_SEND"}

SendType == {"SEND", "SEND_LOW", "UDP_SEND"}

\* A bad address is one that decode_udp_address (UDP_SEND), or uv_ip4_addr and
\* uv_ip6_addr (UDP_CONNECT), cannot read.
Command == [type : OpenType \cup RequestType \cup {"EXIT"}, id : Int, opaque : Nat, buf : Nat, size : Nat,
            address : {"none", "good", "bad"}]

Owned(e, command) == [e EXCEPT !.opaque = command.opaque]

process_start(e, command, ok) ==
  LET owned == Owned(e, command) IN
  CASE e.state \in {"LISTENING", "CONNECTED"} -> Did(owned, <<EventOf("OPEN", owned, 0)>>, {})
    [] e.state \in {"ACCEPTED_PAUSED", "CONNECTED_PAUSED"} /\ ok ->
         Did([start_reading(owned) EXCEPT !.state = "CONNECTED"], <<EventOf("OPEN", owned, 0)>>, {})
    [] e.state \in {"ACCEPTED_PAUSED", "CONNECTED_PAUSED"} /\ ~ok -> reject_entry(owned)
    [] OTHER -> Did(e, <<ErrorTo(command)>>, {})

process_pause(e, ok) ==
  CASE e.state # "CONNECTED" -> Unchanged(e)
    [] e.state = "CONNECTED" /\ ~ok -> Did(e, <<EventOf("ERROR", e, 0)>>, {})
    [] e.state = "CONNECTED" /\ ok  ->
         Unchanged([e EXCEPT !.reading = FALSE, !.state = "CONNECTED_PAUSED"])

Writable == {"CONNECTED", "CONNECTED_PAUSED", "HALFCLOSE_READ"}

\* The backlog in KiB, rounded up and capped at INT_MAX.
warning_kb(bytes) ==
  LET kb == (bytes + 1023) \div 1024 IN IF kb > 2147483647 THEN 2147483647 ELSE kb

enqueue_write_late(e, command) ==
  LET queued == [e EXCEPT !.high = Append(@, [buf |-> command.buf, size |-> command.size]),
                          !.queued_bytes = @ + command.size]
  IN  IF queued.queued_bytes > WARNING_SIZE
      THEN Unchanged([queued EXCEPT !.warn_size = WARNING_SIZE * 2])
      ELSE Unchanged(queued)

\* Each warning doubles the backlog at which the next one is due.
enqueue_write(e, command) ==
  LET write  == [buf |-> command.buf, size |-> command.size]
      queued == IF command.type = "SEND_LOW"
                THEN [e EXCEPT !.low = Append(@, write), !.queued_bytes = @ + command.size]
                ELSE [e EXCEPT !.high = Append(@, write), !.queued_bytes = @ + command.size]
  IN  IF queued.queued_bytes >= WARNING_SIZE /\ queued.queued_bytes >= e.warn_size
      THEN Did([queued EXCEPT !.warn_size = IF @ = 0 THEN WARNING_SIZE * 2 ELSE @ * 2],
               <<EventOf("WARNING", e, warning_kb(queued.queued_bytes))>>, {})
      ELSE Unchanged(queued)

process_udp_send(e, command, ok) ==
  CASE e.state # "UDP" -> Did(e, <<ErrorTo(command)>>, {command.buf})
    [] e.state = "UDP" /\ ok /\ (command.address = "good" \/ (command.address = "none" /\ e.has_udp_target)) ->
         Unchanged([e EXCEPT !.udp_writes = @ \cup {command.buf}])
    [] OTHER -> Did(e, <<EventOf("ERROR", e, 0)>>, {command.buf})

\* ok is FALSE when the write cannot be allocated (or uv_udp_send fails).
process_send(e, command, ok) ==
  CASE e.state = "UDP" -> process_udp_send(e, command, ok)
    [] e.state # "UDP" /\ (e.state \notin Writable \/ e.close_requested) ->
         Did(e, <<ErrorTo(command)>>, {command.buf})
    [] e.state \in Writable /\ ~e.close_requested /\ ~ok ->
         Did(e, <<EventOf("ERROR", e, 0)>>, {command.buf})
    [] OTHER -> enqueue_write(e, command)

\* parsed: the host of the command is an address.  Nobody is told if it is not.
process_udp_connect(e, parsed) ==
  IF e.state = "UDP" /\ parsed THEN Unchanged([e EXCEPT !.has_udp_target = TRUE]) ELSE Unchanged(e)

process_close_tells_twice(e, command) ==
  LET closed == Terminal(Owned(e, command)) IN
  IF e.state \in {"INVALID", "CLOSING"} THEN Unchanged(e)
  ELSE Did(IF e.initialized THEN uv_close(closed) ELSE NoEntry,
           <<EventOf("CLOSE", closed, 0)>>, {})

process_close(e, command) ==
  LET owned  == Owned(e, command)
      told   == e.state # "HALFCLOSE_READ"
      events == IF told THEN <<EventOf("CLOSE", owned, 0)>> ELSE << >>
      closed == IF told THEN Terminal(owned) ELSE owned
  IN  CASE e.state \in {"INVALID", "CLOSING"} -> Unchanged(e)
        [] e.state \notin {"INVALID", "CLOSING"} /\ ~e.initialized -> Did(NoEntry, events, {})
        [] e.state \notin {"INVALID", "CLOSING"} /\ e.initialized
             /\ command.type = "CLOSE" /\ ~e.is_udp /\ e.queued_bytes > 0 ->
               Did(close_after_writes([closed EXCEPT !.reading = FALSE, !.close_requested = TRUE]),
                   events, {})
        [] OTHER -> Did(uv_close(closed), events, {})

exit_entry_keeps_state(e) ==
  CASE ~e.initialized -> NoEntry
    [] e.initialized /\ e.uv_closes = 0 -> [e EXCEPT !.uv_closes = 1]
    [] OTHER -> e

\* What process_exit and skyuv_socket_runtime_release do with each entry.
exit_entry(e) ==
  CASE ~e.initialized -> NoEntry
    [] e.initialized /\ e.uv_closes = 0 -> uv_close(e)
    [] OTHER -> e
=============================================================================
