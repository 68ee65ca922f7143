-------------------------- MODULE SocketProperties --------------------------
(***************************************************************************)
(* What the socket runtime promises its callers and what it must keep      *)
(* straight inside, stated over SocketRuntime.  A behaviour ends at        *)
(* Stopped (an assertion of libuv, or freed memory used); what leads there *)
(* is the subject of the last section.                                     *)
(***************************************************************************)
EXTENDS SocketRuntime

Entries == {slots[s] : s \in Occupied}

\* queued_bytes is the sum of the sizes of the writes that are queued or in flight
\* (process_send adds, write_completed and a failing pump_write subtract), so it
\* cannot wrap below zero and is zero exactly when nothing is left to write.
QueuedBytesExact == \A e \in Entries : e.queued_bytes = TotalSize(Held(e))

\* The backlog warnings of process_send and write_completed: a backlog of
\* WARNING_SIZE has been reported, and a reported backlog that has gone has been
\* reported gone (warn_size is back to 0) unless the socket is closing.
BacklogReported ==
  \A e \in Entries :
     /\ e.warn_size = 0 => e.queued_bytes < WARNING_SIZE
     /\ e.warn_size > 0 /\ e.state # "CLOSING" => e.queued_bytes > 0

\* Where buffer b is: in a command, in an entry's lists, or with libuv.
Places(b) ==
  {<<"command", 0, i>> : i \in {i \in 1 .. Len(queue) : queue[i].buf = b}}
  \cup (UNION {LET held == Held(slots[s])
               IN  {<<"write", s, i>> : i \in {i \in 1 .. Len(held) : held[i].buf = b}} : s \in Slot})
  \cup {<<"udp", s, 0>> : s \in {s \in Slot : b \in slots[s].udp_writes}}

\* Every accepted send buffer is in exactly one place until it is released, and is
\* released exactly once, whatever closes, fails, exits or is released in between
\* (release_write).
BufferReleasedOnce == \A b \in 1 .. sends : Cardinality(Places(b)) + released[b] = 1

\* EXIT is reported only when every handle has been closed and called back.
ExitAfterLastClose == exit_ready \/ phase = "done" => \A e \in Entries : ~e.initialized

\* The life of a socket as SocketLife describes it: whatever is read, written, paused
\* or fails in between, a slot is reused only after the close callback of an opened
\* socket, and then under a new generation.
StageOf(e) ==
  CASE e.state = "INVALID"  -> "free"
    [] e.state = "RESERVED" -> "reserved"
    [] e.state = "CLOSING"  -> "closing"
    [] OTHER -> IF e.close_requested THEN "draining" ELSE "live"

Life == INSTANCE SocketLife WITH stage <- [s \in Slot |-> StageOf(slots[s])],
                                 generation <- generations

ImplementsLife == Life!Spec

\* After skyuv_socket_runtime_exit was called, poll delivers EXIT (or release was
\* called, or the process has stopped).
ExitCompletes == ~accepting ~> (phase \in {"done", "release", "released"} \/ Stopped)
-----------------------------------------------------------------------------
\* uv_close is called at most once on a handle, which libuv requires.
ClosedOnce == \A e \in Entries : e.uv_closes <= 1

\* A socket reports CLOSE at most once, however many commands close it.
CloseReportedOnce == \A e \in Entries : e.uv_closes <= 1 => e.terminals <= 1

\* No entry is freed twice.
NoDoubleFree == misuse # "double free"

\* A socket that was closed with writes queued is closed once they are written:
\* libuv completes writes, since the peer reads.
DrainSpec == FairSpec /\ \A s \in Slot : SF_vars(~Stopped /\ RequestStep(s))

DrainCompletes ==
  \A s \in Slot : slots[s].close_requested ~> (~slots[s].close_requested \/ Stopped)
=============================================================================
