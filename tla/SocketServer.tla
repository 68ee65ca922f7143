---------------------------- MODULE SocketServer ----------------------------
(***************************************************************************)
(* socket/socket_server_compat.c: the socket_server of Skynet on top of    *)
(* the socket runtime.  Most functions pass a call on; what they add is    *)
(* who frees the caller's buffer, and the two calls that make a dial.      *)
(*                                                                         *)
(* A caller hands over memory (freed for it), an object (copied, then      *)
(* freed through the interface it registered) or a raw pointer (copied,    *)
(* never freed).  The runtime numbers the buffers it accepts.              *)
(***************************************************************************)
EXTENDS SocketProperties

CONSTANTS BufferTypes,    \* kinds of buffers handed over
          MaxHanded       \* bound on the buffers handed over

\* socket_server_udp_send derives the size of an address from its first byte, so that
\* what it passes on can be decoded.
ASSUME ServerAssumption ==
  /\ BufferTypes \subseteq {"MEMORY", "OBJECT", "RAWPOINTER"} /\ MaxHanded \in Nat
  /\ Addresses \subseteq {"good"}

VARIABLES object_interface,   \* socket_server_userobject was called
          handed,             \* the buffers handed over, in order
          dials,              \* where the dial of a thread is, and its socket
          dialled             \* the sockets dials to an address have returned

serverVars == <<object_interface, handed, dials, dialled>>

NoDial == [at |-> "no", id |-> 0]

\* freed counts what socket_server_compat.c frees, buf is the runtime's number.
Handed == [type : BufferTypes, interface : BOOLEAN, freed : Nat, buf : Nat]

ServerInit ==
  /\ Init
  /\ object_interface = FALSE
  /\ handed = << >>
  /\ dials = [t \in Threads |-> NoDial]
  /\ dialled = {}

\* socket_server_userobject.
userobject ==
  /\ Active /\ ~object_interface /\ "OBJECT" \in BufferTypes
  /\ object_interface' = TRUE
  /\ UNCHANGED <<vars, handed, dials, dialled>>
-----------------------------------------------------------------------------
HandOver(type, freed, buf) ==
  handed' = Append(handed, [type |-> type, interface |-> object_interface,
                            freed |-> freed, buf |-> buf])

\* release_sendbuffer, as a number of frees.
release_sendbuffer(type) ==
  IF type = "MEMORY" \/ (type = "OBJECT" /\ object_interface) THEN 1 ELSE 0

send_refused_twice(type) ==
  /\ HandOver(type, IF type = "MEMORY" THEN 2 ELSE release_sendbuffer(type), 0)
  /\ UNCHANGED vars

\* The runtime has stopped or memory has run out, the buffer is empty, or the
\* address of a datagram is of no known kind: the copy is gone, and so is what the caller gave
\* away.  An object without an interface stays with the caller.  (socket_server_udp_send
\* also refuses a NULL address, and then frees nothing: Skynet passes none.)
send_refused(type) ==
  /\ HandOver(type, release_sendbuffer(type), 0)
  /\ UNCHANGED vars

\* An object has been copied and freed, a raw pointer copied by the runtime.
send_accepted(type, send) ==
  /\ type = "OBJECT" => object_interface
  /\ send
  /\ HandOver(type, IF type = "OBJECT" THEN release_sendbuffer(type) ELSE 0, sends + 1)

\* socket_server_send and socket_server_send_lowpriority.
send_buffer ==
  /\ Active /\ Len(handed) < MaxHanded
  /\ \E type \in BufferTypes : send_refused(type) \/ send_accepted(type, runtime_send)
  /\ UNCHANGED <<object_interface, dials, dialled>>

udp_send ==
  /\ Active /\ Len(handed) < MaxHanded
  /\ \E type \in BufferTypes : send_refused(type) \/ send_accepted(type, runtime_udp_send)
  /\ UNCHANGED <<object_interface, dials, dialled>>
-----------------------------------------------------------------------------
Dial(t, at, id) == dials' = [dials EXCEPT ![t] = [at |-> at, id |-> id]]

\* socket_server_udp_dial opens a socket,
udp_dial(t) ==
  /\ dials[t] = NoDial
  /\ runtime_udp(t)
  /\ Dial(t, "udp", 0)
  /\ UNCHANGED <<object_interface, handed, dialled>>

\* and when socket_server_udp has returned the id, which nobody else knows yet (or
\* has failed),
UdpReturns(t) ==
  /\ dials[t].at = "udp" /\ calls[t].at = "submitted"
  /\ \/ /\ HasEntry(t)
        /\ Dial(t, "connect", calls[t].id)
        /\ calls' = [calls EXCEPT ![t] = NoCall]
        /\ UNCHANGED <<queue, accepting, tableVars, exit_ready, events, loopVars, ghostVars,
                       countVars>>
     \/ Misuse(HasEntry(t), "use after free") /\ UNCHANGED dials
  /\ UNCHANGED <<object_interface, handed, dialled>>

UdpFails(t) ==
  /\ dials[t].at = "udp"
  /\ Discard(t)
  /\ dials' = [dials EXCEPT ![t] = NoDial]
  /\ UNCHANGED <<object_interface, handed, dialled>>

dial_connect_known(t) ==
  /\ dials[t].at = "connect"
  /\ \/ /\ dials[t].id \in published
        /\ dials' = [dials EXCEPT ![t] = NoDial]
        /\ queue_push(RequestCommand("UDP_CONNECT", dials[t].id, 0, "good"))
        /\ UNCHANGED <<published, dialled>>
     \/ /\ dials[t].id \notin published
        /\ published' = published \cup {dials[t].id}
        /\ dialled' = dialled \cup {dials[t].id}
        /\ UNCHANGED <<queue, accepting, dials>>
  /\ UNCHANGED <<tableVars, exit_ready, events, loopVars, calls, released, sent_to, misuse,
                 countVars, object_interface, handed>>

\* it connects the socket and returns the id, whether the host is an address or not:
\* process_udp_connect finds that out.  When the command is refused, the dial fails and
\* the socket stays open: only events can tell its owner of it.
dial_connect(t) ==
  /\ dials[t].at = "connect"
  /\ dials' = [dials EXCEPT ![t] = NoDial]
  /\ \/ /\ \E address \in Hosts("UDP_CONNECT") :
              /\ queue_push(RequestCommand("UDP_CONNECT", dials[t].id, 0, address))
              /\ dialled' = IF address = "good" THEN dialled \cup {dials[t].id} ELSE dialled
        /\ published' = published \cup {dials[t].id}
     \/ UNCHANGED <<queue, accepting, dialled, published>>
  /\ UNCHANGED <<tableVars, exit_ready, events, loopVars, calls, released, sent_to, misuse,
                 countVars, object_interface, handed>>
-----------------------------------------------------------------------------
\* The functions that pass a call on, and ignore its result or return -1.
server_open(t) ==
  /\ dials[t] = NoDial
  /\ OpenCall(t) \/ ThreadStep(t)

server_call ==
  \/ runtime_start \/ runtime_pause \/ runtime_nodelay \/ runtime_udp_connect
  \/ runtime_close \/ runtime_shutdown \/ Exit

DialStep(t) == dials[t].at = "udp" /\ SubmitOpen(t)

Forward ==
  /\ \/ \E t \in Threads : server_open(t) \/ DialStep(t)
     \/ ReserveFails \/ server_call
     \/ LoopStep \/ BeginDrain
     \/ \E s \in Slot : PeerStep(s) \/ RequestStep(s) \/ CloseEntry(s)
     \/ (\A t \in Threads : dials[t] = NoDial) /\ Release
     \/ Teardown
  /\ UNCHANGED serverVars

ServerNext ==
  /\ ~Stopped
  /\ \/ Forward \/ userobject \/ send_buffer \/ udp_send
     \/ \E t \in Threads : udp_dial(t) \/ UdpReturns(t) \/ UdpFails(t) \/ dial_connect(t)

ServerSpec == ServerInit /\ [][ServerNext]_<<vars, serverVars>>
-----------------------------------------------------------------------------
\* What was handed over is freed exactly once, by socket_server_compat.c or by the
\* runtime when it is done with it; a raw pointer never is, nor is an object for which
\* no interface was registered (release_sendbuffer, runtime_send).
CallerBufferFreedOnce ==
  \A i \in 1 .. Len(handed) :
     LET h == handed[i]
         frees == h.freed + (IF h.type = "MEMORY" /\ h.buf # 0
                             THEN Cardinality(Places(h.buf)) + released[h.buf] ELSE 0)
     IN  frees = IF h.type = "MEMORY" \/ (h.type = "OBJECT" /\ h.interface) THEN 1 ELSE 0

\* A socket that socket_server_udp_dial has returned for a host that is an address has
\* its target before any send of its owner is looked at: the command that sets it is
\* ahead of them all.  (For any other host the dial succeeds all the same, and only a
\* send tells the owner that there is no target.)
DialledHasTarget ==
  \A s \in Slot : slots[s].state = "UDP" /\ slots[s].id \in dialled /\ ~slots[s].has_udp_target =>
     \E i \in 1 .. Len(queue) :
        /\ queue[i].type = "UDP_CONNECT" /\ queue[i].id = slots[s].id
        /\ queue[i].address = "good"
        /\ \A j \in 1 .. i : queue[j].id = slots[s].id => queue[j].type \notin SendType
=============================================================================
