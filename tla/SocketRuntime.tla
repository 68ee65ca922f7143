--------------------------- MODULE SocketRuntime ----------------------------
(***************************************************************************)
(* struct skyuv_socket_runtime: the table of sockets, the threads that     *)
(* open sockets and submit commands, the loop thread that runs uv_run and  *)
(* hands out events from poll, exit and release.                           *)
(*                                                                         *)
(* A step of the loop thread is one command, one libuv callback or one     *)
(* entry of the pump list.  Opening a socket takes a thread several steps: *)
(* it reserves an entry, (bind only) claims the descriptor, submits the    *)
(* command, and reads the entry's id to return it, or discards the entry   *)
(* when the command was refused.                                           *)
(* Wake-ups are the subject of CommandChannel: here the loop notices       *)
(* commands whenever it runs callbacks.                                    *)
(*                                                                         *)
(* uv_close on a handle that is closing already stops the process (libuv   *)
(* asserts), and so does the use of a freed entry: see Stopped.            *)
(***************************************************************************)
EXTENDS SocketId, SocketEntry, CommandQueue, FiniteSets

CONSTANTS Threads,          \* threads that open sockets
          Owners,           \* services, the values of opaque
          Opens,            \* kinds of sockets opened, a subset of OpenType
          Requests,         \* commands issued on open sockets, a subset of RequestType
          Fds,              \* descriptors given to skyuv_socket_runtime_bind
          Sizes,            \* sizes of sent buffers
          Addresses,        \* encoded addresses of udp_send
          UvOutcomes,       \* outcomes of libuv calls, a subset of OpenOutcome
          OutOfMemory,      \* whether allocations may fail
          MaxOpens,         \* bound on the sockets opened
          MaxRequests,      \* bound on the commands issued that carry no buffer
          MaxSends,         \* bound on the buffers sent
          MaxEvents         \* bound on the queue of events while peers are active

ASSUME RuntimeAssumption ==
  /\ Owners \subseteq Nat
  /\ Opens \subseteq OpenType
  /\ Requests \subseteq RequestType
  /\ Fds \subseteq Nat
  /\ Sizes \subseteq Nat \ {0}
  /\ Addresses \subseteq {"none", "good", "bad"}
  /\ UvOutcomes \subseteq OpenOutcome
  /\ OutOfMemory \in BOOLEAN
  /\ MaxOpens \in Nat /\ MaxRequests \in Nat /\ MaxSends \in Nat /\ MaxEvents \in Nat

VARIABLES slots, generations, next_slot, entry_count,
          exiting, exit_ready, events, pump,
          phase,       \* where the loop thread is
          calls,       \* what each thread is doing
          published,   \* socket ids returned to callers or delivered with ACCEPT
          released,    \* how often each sent buffer was released
          sent_to,     \* the socket each buffer was sent to
          opens, requests, sends,   \* numbers of calls made so far
          misuse       \* the use of a freed entry, if one happened

tableVars == <<slots, generations, next_slot, entry_count>>
countVars == <<opens, requests, sends>>
vars == <<queue, accepting, tableVars, exiting, exit_ready, events, pump, phase, calls,
          published, released, sent_to, countVars, misuse>>

Buf == 1 .. MaxSends

\* In poll; in uv_run; in consume_commands, its first and its second loop; out of
\* the poll that returned EXIT; in release; after release.
Phase == {"poll", "run", "drain", "pump", "done", "release", "released"}

NoCall == [at |-> "idle", type |-> "LISTEN", id |-> 0, opaque |-> 0, fd |-> -1]

Call == [at : {"idle", "reserved", "ready", "submitted", "refused"}, type : OpenType, id : Int,
         opaque : Nat, fd : Int]

Init ==
  /\ queue_init
  /\ slots = [s \in Slot |-> NoEntry]
  /\ generations = [s \in Slot |-> 0]
  /\ next_slot = 0
  /\ entry_count = 0
  /\ exiting = FALSE
  /\ exit_ready = FALSE
  /\ events = << >>
  /\ pump = << >>
  /\ phase = "poll"
  /\ calls = [t \in Threads |-> NoCall]
  /\ published = {}
  /\ released = [b \in Buf |-> 0]
  /\ sent_to = [b \in Buf |-> 0]
  /\ opens = 0 /\ requests = 0 /\ sends = 0
  /\ misuse = "none"

\* What is left after an assertion of libuv fails or freed memory was used.
Stopped == misuse # "none" \/ \E s \in Slot : slots[s].uv_closes > 1
-----------------------------------------------------------------------------
\* The table.
find_entry_in_slot(id) == slots[id_slot(id)]

find_entry(id) ==
  IF slots[id_slot(id)].id = id THEN slots[id_slot(id)] ELSE NoEntry

Occupied == {s \in Slot : slots[s].state # "INVALID"}

\* The slot reserve_entry takes: the first free one from next_slot on.
Distance(s) == (s - next_slot) % SLOT_COUNT

FirstFree(s) ==
  /\ s \notin Occupied
  /\ \A r \in Slot \ Occupied : Distance(s) <= Distance(r)

\* A reservation that succeeds leaves next_slot behind the slot taken; one that
\* fails because every slot is in use comes back to where it started.
reserve_entry(s, entry) ==
  /\ FirstFree(s)
  /\ generations' = [generations EXCEPT ![s] = next_generation(@)]
  /\ next_slot' = (s + 1) % SLOT_COUNT
  /\ slots' = [slots EXCEPT ![s] = entry]
  /\ entry_count' = entry_count + 1

NewId(s) == id_make(s, next_generation(generations[s]))

\* push_event drops the event when its node cannot be allocated; no function
\* pushes more than two.
Kept(pushed) ==
  IF OutOfMemory THEN {<< >>, pushed} \cup {<<pushed[i]>> : i \in 1 .. Len(pushed)} ELSE {pushed}

push_events(pushed) == \E kept \in Kept(pushed) : events' = events \o kept

release_buffers(buffers) ==
  released' = [b \in Buf |-> IF b \in buffers THEN released[b] + 1 ELSE released[b]]

update_exit_ready == exit_ready' = (exit_ready \/ (exiting /\ entry_count' = 0))

\* The loop thread has run a function on the entry of slot s.
Apply(s, did) ==
  LET freed == did.entry = NoEntry IN
  /\ slots' = [slots EXCEPT ![s] = did.entry]
  /\ entry_count' = IF freed THEN entry_count - 1 ELSE entry_count
  /\ IF freed THEN update_exit_ready ELSE UNCHANGED exit_ready
  /\ push_events(did.events)
  /\ release_buffers(did.buffers)
  /\ UNCHANGED <<generations, next_slot>>

\* The same for a function that found no entry.
ApplyToNone(did) ==
  /\ push_events(did.events)
  /\ release_buffers(did.buffers)
  /\ UNCHANGED <<tableVars, exit_ready>>
-----------------------------------------------------------------------------
\* The threads.  They are gone before release is called.
Active == phase \notin {"release", "released"}

loopVars == <<exiting, pump, phase>>
ghostVars == <<published, released, sent_to, misuse>>

Command0(type, id, opaque) ==
  [type |-> type, id |-> id, opaque |-> opaque, buf |-> 0, size |-> 0, address |-> "none"]

\* The start of listen, connect, udp and bind.
Reserve(t, type, fds) ==
  /\ Active /\ calls[t].at = "idle" /\ opens < MaxOpens /\ type \in Opens
  /\ opens' = opens + 1
  /\ \E opaque \in Owners, s \in Slot, fd \in fds :
        /\ reserve_entry(s, ReservedEntry(NewId(s), opaque))
        /\ calls' = [calls EXCEPT ![t] = [at |-> IF type = "BIND" THEN "reserved" ELSE "ready",
                                          type |-> type, id |-> NewId(s),
                                          opaque |-> opaque, fd |-> fd]]
  /\ UNCHANGED <<queue, accepting, exit_ready, events, loopVars, ghostVars, requests, sends>>

runtime_listen(t) == Reserve(t, "LISTEN", {-1})

runtime_connect(t) == Reserve(t, "CONNECT", {-1})

runtime_udp(t) == Reserve(t, "UDP", {-1})

runtime_bind(t) == Reserve(t, "BIND", Fds)

\* reserve_entry found a free slot and could not allocate the entry.
ReserveFails ==
  /\ Active /\ OutOfMemory /\ opens < MaxOpens
  /\ opens' = opens + 1
  /\ \E s \in Slot : FirstFree(s) /\ next_slot' = (s + 1) % SLOT_COUNT
  /\ UNCHANGED <<queue, accepting, slots, generations, entry_count, exit_ready, events,
                 loopVars, calls, ghostVars, requests, sends>>

\* The thread's pointer to its entry is still valid.
HasEntry(t) == slots[id_slot(calls[t].id)].id = calls[t].id

\* It may free the entry: no command has opened it, so that libuv has no handle in it.
OwnsEntry(t) == HasEntry(t) /\ ~slots[id_slot(calls[t].id)].initialized

Misuse(valid, what) ==
  /\ ~valid
  /\ misuse' = what
  /\ UNCHANGED <<queue, accepting, tableVars, exit_ready, events, loopVars, calls,
                 published, released, sent_to, countVars>>

ClaimFd_unchecked(t) ==
  /\ calls[t].at = "reserved"
  /\ HasEntry(t)
  /\ calls' = [calls EXCEPT ![t].at = "ready"]
  /\ slots' = [slots EXCEPT ![id_slot(calls[t].id)].external_fd = calls[t].fd]
  /\ UNCHANGED <<queue, accepting, generations, next_slot, entry_count, exit_ready, events,
                 loopVars, ghostVars, countVars>>

\* bind looks for another entry with its descriptor and claims it, under slots_mutex.
ClaimFd(t) ==
  /\ calls[t].at = "reserved"
  /\ \/ /\ HasEntry(t)
        /\ LET mine == id_slot(calls[t].id) IN
           IF \E s \in Occupied \ {mine} : slots[s].external_fd = calls[t].fd
           THEN /\ calls' = [calls EXCEPT ![t].at = "refused"]
                /\ UNCHANGED slots
           ELSE /\ calls' = [calls EXCEPT ![t].at = "ready"]
                /\ slots' = [slots EXCEPT ![mine].external_fd = calls[t].fd]
        /\ UNCHANGED <<queue, accepting, generations, next_slot, entry_count, exit_ready,
                       events, loopVars, ghostVars, countVars>>
     \/ Misuse(HasEntry(t), "use after free")

\* Builds the command from the entry and submits it.
SubmitOpen(t) ==
  /\ calls[t].at = "ready"
  /\ \/ /\ HasEntry(t)
        /\ LET command == Command0(calls[t].type, calls[t].id, calls[t].opaque) IN
           \/ queue_push(command) /\ calls' = [calls EXCEPT ![t].at = "submitted"]
           \/ /\ queue_refuses(command) \/ OutOfMemory
              /\ calls' = [calls EXCEPT ![t].at = "refused"]
              /\ UNCHANGED <<queue, accepting>>
        /\ UNCHANGED <<tableVars, exit_ready, events, loopVars, ghostVars, countVars>>
     \/ Misuse(HasEntry(t), "use after free")

\* *id = entry->id after the command was submitted.
ReturnId(t) ==
  /\ calls[t].at = "submitted"
  /\ \/ /\ HasEntry(t)
        /\ published' = published \cup {calls[t].id}
        /\ calls' = [calls EXCEPT ![t] = NoCall]
        /\ UNCHANGED <<queue, accepting, tableVars, exit_ready, events, loopVars, released,
                       sent_to, countVars, misuse>>
     \/ Misuse(HasEntry(t), "use after free")

discard_uninitialized_entry_uncounted(s) ==
  /\ slots' = [slots EXCEPT ![s] = NoEntry]
  /\ UNCHANGED <<entry_count, generations, next_slot, exit_ready>>

discard_uninitialized_entry_forgets_exit(s) ==
  /\ slots' = [slots EXCEPT ![s] = NoEntry]
  /\ entry_count' = entry_count - 1
  /\ UNCHANGED <<generations, next_slot, exit_ready>>

discard_uninitialized_entry(s) ==
  /\ slots' = [slots EXCEPT ![s] = NoEntry]
  /\ entry_count' = entry_count - 1
  /\ update_exit_ready
  /\ UNCHANGED <<generations, next_slot>>

Discard(t) ==
  /\ calls[t].at = "refused"
  /\ \/ /\ OwnsEntry(t)
        /\ discard_uninitialized_entry(id_slot(calls[t].id))
        /\ calls' = [calls EXCEPT ![t] = NoCall]
        /\ UNCHANGED <<queue, accepting, events, loopVars, ghostVars, countVars>>
     \/ Misuse(OwnsEntry(t), "double free")

\* The host of UDP_CONNECT is a string of the caller's, an address or not.
Hosts(type) == IF type = "UDP_CONNECT" THEN {"good", "bad"} ELSE {"none"}

RequestCommand(type, id, opaque, address) ==
  [Command0(type, id, opaque) EXCEPT !.address = address]

\* The calls that act on a socket: they fill in a command and submit it.  A
\* refused command, and its buffer, stay with the caller.
Request(type, opaques) ==
  /\ Active /\ requests < MaxRequests /\ type \in Requests
  /\ requests' = requests + 1
  /\ \E id \in published, opaque \in opaques, address \in Hosts(type) :
        queue_push(RequestCommand(type, id, opaque, address))
  /\ UNCHANGED <<tableVars, exit_ready, events, loopVars, calls, ghostVars, opens, sends>>

runtime_start == Request("START", Owners)

runtime_pause == Request("PAUSE", Owners)

runtime_nodelay == Request("NODELAY", {0})

runtime_udp_connect == Request("UDP_CONNECT", {0})

runtime_close == Request("CLOSE", Owners)

runtime_shutdown == Request("SHUTDOWN", Owners)

\* Buffers are numbered in the order in which they are sent.
Send(type, addresses) ==
  /\ Active /\ sends < MaxSends /\ type \in Requests
  /\ sends' = sends + 1
  /\ \E id \in published, size \in Sizes, address \in addresses :
        /\ queue_push([Command0(type, id, 0) EXCEPT !.buf = sends + 1, !.size = size,
                                                    !.address = address])
        /\ sent_to' = [sent_to EXCEPT ![sends + 1] = id]
  /\ UNCHANGED <<tableVars, exit_ready, events, loopVars, calls, published, released, opens,
                 requests, misuse>>

runtime_send == Send("SEND", {"none"}) \/ Send("SEND_LOW", {"none"})

runtime_udp_send == Send("UDP_SEND", Addresses)

Exit ==
  /\ Active
  /\ queue_stop(Command0("EXIT", 0, 0))
  /\ UNCHANGED <<tableVars, exit_ready, events, loopVars, calls, ghostVars, countVars>>
-----------------------------------------------------------------------------
\* The loop thread: poll, and the moments at which it enters and leaves uv_run
\* and consume_commands.
threadVars == <<calls, sent_to, countVars, misuse>>

Goto(from, to) ==
  /\ phase = from /\ phase' = to
  /\ UNCHANGED <<queue, accepting, tableVars, exiting, exit_ready, events, pump, published,
                 released, threadVars>>

RunOnce == events = << >> /\ ~exit_ready /\ Goto("poll", "run")

EndRun == Goto("run", "poll")

BeginDrain == queue # << >> /\ Goto("run", "drain")

EndDrain == queue = << >> /\ Goto("drain", "pump")

EndPump == pump = << >> /\ Goto("pump", "run")

\* poll returns the oldest event; the id of an accepted socket travels in ACCEPT.
PollEvent ==
  /\ phase = "poll" /\ events # << >>
  /\ events' = Tail(events)
  /\ published' = IF Head(events).type = "ACCEPT" THEN published \cup {Head(events).value}
                                                  ELSE published
  /\ UNCHANGED <<queue, accepting, tableVars, exit_ready, loopVars, released, threadVars>>

\* poll returns EXIT, after which it is not called again.
PollExit ==
  /\ phase = "poll" /\ events = << >> /\ exit_ready
  /\ exit_ready' = FALSE
  /\ phase' = "done"
  /\ UNCHANGED <<queue, accepting, tableVars, events, exiting, pump, published, released,
                 threadVars>>
-----------------------------------------------------------------------------
\* consume_commands: one action per kind of command.
Results == IF "reject" \in UvOutcomes THEN BOOLEAN ELSE {TRUE}

Consume(types) ==
  /\ phase = "drain" /\ queue # << >> /\ Head(queue).type \in types
  /\ queue_pop
  /\ UNCHANGED <<phase, published, threadVars>>

Handle(did) ==
  IF find_entry(Head(queue).id) = NoEntry
  THEN ApplyToNone(did)
  ELSE Apply(id_slot(Head(queue).id), did)

ProcessListen ==
  /\ Consume({"LISTEN"})
  /\ \E outcome \in UvOutcomes : Handle(process_listen(find_entry(Head(queue).id), outcome))
  /\ UNCHANGED <<exiting, pump>>

ProcessConnect ==
  /\ Consume({"CONNECT"})
  /\ \E outcome \in UvOutcomes : Handle(process_connect(find_entry(Head(queue).id), outcome))
  /\ UNCHANGED <<exiting, pump>>

ProcessBind ==
  /\ Consume({"BIND"})
  /\ \E outcome \in UvOutcomes : Handle(process_bind(find_entry(Head(queue).id), outcome))
  /\ UNCHANGED <<exiting, pump>>

ProcessUdp ==
  /\ Consume({"UDP"})
  /\ \E outcome \in UvOutcomes : Handle(process_udp(find_entry(Head(queue).id), outcome))
  /\ UNCHANGED <<exiting, pump>>

ProcessStart ==
  /\ Consume({"START"})
  /\ \E ok \in Results : Handle(process_start(find_entry(Head(queue).id), Head(queue), ok))
  /\ UNCHANGED <<exiting, pump>>

ProcessPause ==
  /\ Consume({"PAUSE"})
  /\ \E ok \in Results : Handle(process_pause(find_entry(Head(queue).id), ok))
  /\ UNCHANGED <<exiting, pump>>

\* process_nodelay sets an option of the handle and reports nothing.
ProcessNodelay ==
  /\ Consume({"NODELAY"})
  /\ Handle(Unchanged(find_entry(Head(queue).id)))
  /\ UNCHANGED <<exiting, pump>>

\* A TCP write fails at once only when its node cannot be allocated.
SendResults(e) ==
  {TRUE} \cup {r \in {FALSE} : OutOfMemory \/ (e.state = "UDP" /\ FALSE \in Results)}

\* A socket with a new write and none in flight joins the pump list once.
ProcessSend ==
  /\ Consume({"SEND", "SEND_LOW"})
  /\ LET e == find_entry(Head(queue).id)
         s == id_slot(Head(queue).id)
     IN  \E ok \in SendResults(e) :
           LET did == process_send(e, Head(queue), ok) IN
           /\ Handle(did)
           /\ pump' = IF /\ Head(queue).buf \in Buffers(did.entry.high) \cup Buffers(did.entry.low)
                         /\ e.writing = << >>
                         /\ \A i \in 1 .. Len(pump) : pump[i] # s
                      THEN Append(pump, s) ELSE pump
  /\ UNCHANGED exiting

ProcessUdpSend ==
  /\ Consume({"UDP_SEND"})
  /\ LET e == find_entry(Head(queue).id) IN
     \E ok \in SendResults(e) : Handle(process_udp_send(e, Head(queue), ok))
  /\ UNCHANGED <<exiting, pump>>

\* An address that does not parse is ignored without an event.
ProcessUdpConnect ==
  /\ Consume({"UDP_CONNECT"})
  /\ Handle(process_udp_connect(find_entry(Head(queue).id), Head(queue).address = "good"))
  /\ UNCHANGED <<exiting, pump>>

ProcessClose ==
  /\ Consume({"CLOSE", "SHUTDOWN"})
  /\ Handle(process_close(find_entry(Head(queue).id), Head(queue)))
  /\ UNCHANGED <<exiting, pump>>

ProcessExit_early ==
  /\ Consume({"EXIT"})
  /\ exiting' = TRUE
  /\ slots' = [s \in Slot |-> exit_entry(slots[s])]
  /\ entry_count' = entry_count - Cardinality({s \in Occupied : ~slots[s].initialized})
  /\ exit_ready' = TRUE
  /\ UNCHANGED <<generations, next_slot, events, pump, released>>

ProcessExit ==
  /\ Consume({"EXIT"})
  /\ exiting' = TRUE
  /\ slots' = [s \in Slot |-> exit_entry(slots[s])]
  /\ entry_count' = entry_count - Cardinality({s \in Occupied : ~slots[s].initialized})
  /\ exit_ready' = (exit_ready \/ entry_count' = 0)
  /\ UNCHANGED <<generations, next_slot, events, pump, released>>

\* The second loop: start the first write of every socket on the pump list.
PumpNext ==
  /\ phase = "pump" /\ pump # << >>
  /\ pump' = Tail(pump)
  /\ LET e == slots[Head(pump)] IN
     \E ok \in Results :
        Apply(Head(pump), IF e.state = "CLOSING" THEN Unchanged(e) ELSE pump_write(e, ok))
  /\ UNCHANGED <<queue, accepting, exiting, phase, published, threadVars>>
-----------------------------------------------------------------------------
\* libuv's callbacks.  A handle that uv_close was called on has its pending
\* requests called back and then close_entry; it reads and accepts nothing.
Callback(s, did) ==
  /\ Apply(s, did)
  /\ UNCHANGED <<queue, accepting, loopVars, published, threadVars>>

Polled(s) == phase = "run" /\ Len(events) < MaxEvents /\ slots[s].uv_closes = 0

ReadCompleted(s) ==
  /\ Polled(s) /\ slots[s].reading
  /\ \E nread \in {"data", "eof", "error"} : Callback(s, read_completed(slots[s], nread))

UdpReceived(s) ==
  /\ Polled(s) /\ slots[s].state = "UDP"
  /\ \E nread \in {"data", "error"} : Callback(s, udp_received(slots[s], nread))

Returning == phase \in {"run", "release"}

ConnectCompleted(s) ==
  /\ Returning /\ slots[s].connecting
  /\ \E ok \in BOOLEAN : Callback(s, connect_completed(slots[s], ok))

WriteCompleted(s) ==
  /\ Returning /\ slots[s].writing # << >>
  /\ \E ok, pump_ok \in Results : Callback(s, write_completed(slots[s], ok, pump_ok))

UdpWriteCompleted(s) ==
  /\ Returning
  /\ \E buf \in slots[s].udp_writes, ok \in Results :
        Callback(s, udp_write_completed(slots[s], buf, ok))

CloseEntry(s) ==
  /\ Returning /\ slots[s].uv_closes > 0
  /\ slots[s].writing = << >> /\ slots[s].udp_writes = {} /\ ~slots[s].connecting
  /\ Callback(s, close_entry(slots[s]))

Accepted(s, opaque) ==
  [ReservedEntry(NewId(s), opaque) EXCEPT !.initialized = TRUE, !.state = "ACCEPTED_PAUSED"]

\* accept_connection with a failed status.
AcceptFails(l) ==
  /\ Polled(l) /\ slots[l].state = "LISTENING" /\ ~slots[l].unaccepted
  /\ "reject" \in UvOutcomes
  /\ Callback(l, Did(slots[l], <<EventOf("ERROR", slots[l], 0)>>, {}))

AcceptEvent_of_listener(l, accepted) == EventOf("ACCEPT", slots[l], slots[l].id)

AcceptEvent(l, accepted) == EventOf("ACCEPT", slots[l], accepted.id)

AcceptConnection(l) ==
  /\ Polled(l) /\ slots[l].state = "LISTENING" /\ ~slots[l].unaccepted
  /\ \E s \in Slot :
     LET accepted == Accepted(s, slots[l].opaque) IN
     \/ /\ reserve_entry(s, accepted)
        /\ push_events(<<AcceptEvent(l, accepted)>>)
     \/ /\ "reject" \in UvOutcomes      \* uv_accept fails
        /\ LET did == reject_entry(accepted) IN
           reserve_entry(s, did.entry) /\ push_events(did.events)
  /\ UNCHANGED <<queue, accepting, exit_ready, loopVars, published, released, threadVars>>

\* accept_connection returns without calling uv_accept: there is no slot, or the
\* entry or its handle cannot be had.  libuv keeps the connection and polls the
\* listener no more.
AcceptStalls(l) ==
  /\ Polled(l) /\ slots[l].state = "LISTENING" /\ ~slots[l].unaccepted
  /\ slots' = [slots EXCEPT ![l].unaccepted = TRUE]
  /\ \/ /\ Occupied = Slot
        /\ UNCHANGED <<generations, next_slot>>
     \/ \E s \in Slot :
           /\ FirstFree(s)
           /\ next_slot' = (s + 1) % SLOT_COUNT
           /\ \/ /\ OutOfMemory
                 /\ UNCHANGED generations
              \/ /\ "discard" \in UvOutcomes
                 /\ generations' = [generations EXCEPT ![s] = next_generation(@)]
  /\ UNCHANGED <<queue, accepting, entry_count, exit_ready, events, loopVars, published,
                 released, threadVars>>
-----------------------------------------------------------------------------
\* release closes what is left and runs the loop until nothing is open.
Release ==
  /\ phase \in {"poll", "done"}
  /\ \A t \in Threads : calls[t].at = "idle"
  /\ slots' = [s \in Slot |-> exit_entry(slots[s])]
  /\ phase' = "release"
  /\ UNCHANGED <<queue, accepting, generations, next_slot, entry_count, exiting, exit_ready,
                 events, pump, published, released, threadVars>>

\* Then it destroys the commands and events that are left.
Teardown ==
  /\ phase = "release" /\ Occupied = {}
  /\ phase' = "released"
  /\ queue_destroy
  /\ release_buffers({queue[i].buf : i \in 1 .. Len(queue)})
  /\ events' = << >>
  /\ UNCHANGED <<tableVars, exiting, exit_ready, pump, published, threadVars>>
-----------------------------------------------------------------------------
CallOnSocket ==
  \/ runtime_start \/ runtime_pause \/ runtime_nodelay \/ runtime_udp_connect
  \/ runtime_close \/ runtime_shutdown \/ runtime_send \/ runtime_udp_send

OpenCall(t) == runtime_listen(t) \/ runtime_connect(t) \/ runtime_udp(t) \/ runtime_bind(t)

ThreadStep(t) == ClaimFd(t) \/ SubmitOpen(t) \/ ReturnId(t) \/ Discard(t)

CommandStep ==
  \/ ProcessListen \/ ProcessConnect \/ ProcessBind \/ ProcessUdp
  \/ ProcessStart \/ ProcessPause \/ ProcessNodelay \/ ProcessSend
  \/ ProcessUdpSend \/ ProcessUdpConnect \/ ProcessClose \/ ProcessExit

LoopStep ==
  \/ RunOnce \/ EndRun \/ PollEvent \/ PollExit
  \/ CommandStep \/ EndDrain \/ PumpNext \/ EndPump

\* What the network and the peers decide.
PeerStep(s) ==
  ReadCompleted(s) \/ UdpReceived(s) \/ AcceptFails(s) \/ AcceptConnection(s) \/ AcceptStalls(s)

RequestStep(s) == ConnectCompleted(s) \/ WriteCompleted(s) \/ UdpWriteCompleted(s)

Next ==
  /\ ~Stopped
  /\ \/ \E t \in Threads : OpenCall(t) \/ ThreadStep(t)
     \/ ReserveFails \/ CallOnSocket \/ Exit
     \/ LoopStep \/ BeginDrain
     \/ \E s \in Slot : PeerStep(s) \/ RequestStep(s) \/ CloseEntry(s)
     \/ Release \/ Teardown

Spec == Init /\ [][Next]_vars

\* A thread inside a call goes on; so does the loop thread, and uv_run looks at the
\* async and at the closing handles each time it runs, which is why they get strong
\* fairness: between two runs poll hands out events.  Peers owe nothing, and nobody
\* has to call release.
Fairness ==
  /\ \A t \in Threads : WF_vars(~Stopped /\ ThreadStep(t))
  /\ WF_vars(~Stopped /\ LoopStep)
  /\ SF_vars(~Stopped /\ BeginDrain)
  /\ \A s \in Slot : SF_vars(/\ ~Stopped /\ slots[s].state = "CLOSING"
                             /\ (RequestStep(s) \/ CloseEntry(s)))

FairSpec == Spec /\ Fairness
-----------------------------------------------------------------------------
\* Types of the runtime's state.
TypeInv ==
  /\ queue \in Seq(Command) /\ accepting \in BOOLEAN
  /\ slots \in [Slot -> Entry]
  /\ generations \in [Slot -> {0} \cup Generation]
  /\ next_slot \in Slot
  /\ entry_count \in Int
  /\ exiting \in BOOLEAN /\ exit_ready \in BOOLEAN
  /\ events \in Seq(Event)
  /\ pump \in Seq(Slot)
  /\ phase \in Phase
  /\ calls \in [Threads -> Call]
  /\ published \subseteq Int
  /\ released \in [Buf -> Nat]
  /\ sent_to \in [Buf -> Int]
  /\ opens \in Nat /\ requests \in Nat /\ sends \in Nat
  /\ misuse \in {"none", "use after free", "double free"}

\* The table is consistent: a slot is empty or holds an entry whose id names that
\* slot and its current generation (find_entry and close_entry rely on it).
SlotIntegrity ==
  \A s \in Slot :
     IF slots[s].state = "INVALID" THEN slots[s] = NoEntry
     ELSE slots[s].id = id_make(s, generations[s]) /\ generations[s] \in Generation

\* entry_count, which decides when EXIT may be reported, counts the occupied slots.
EntryCountExact == phase \notin {"release", "released"} => entry_count = Cardinality(Occupied)

\* A socket is in state CLOSING exactly when uv_close was called on its handle, so
\* the test of the state in finish_entry, process_close, write_completed and
\* connect_completed is the test whether the handle may still be used.
ClosingIsClosed ==
  \A s \in Slot : slots[s].state = "CLOSING" <=> slots[s].uv_closes > 0

\* Two sockets never hold the same descriptor: bind looks for another holder and
\* claims the descriptor in one critical section.
DescriptorHeldOnce ==
  \A r, s \in Occupied :
     r # s /\ slots[r].external_fd = slots[s].external_fd => slots[r].external_fd = -1

\* Unless it drains before closing, a socket reports its end (CLOSE or a fatal ERROR)
\* at most once, and delivers no data afterwards: read_completed, connect_completed,
\* write_completed, process_start and process_close agree on who reports it.
EndReportedOnce ==
  \A s \in Occupied : ~slots[s].close_requested =>
     /\ slots[s].terminals <= 1
     /\ slots[s].reading /\ slots[s].uv_closes = 0 => slots[s].terminals = 0

\* A buffer is only ever written to the socket it was sent to: a command with the id
\* of a socket that is gone never reaches the next socket of the same slot.
WrittenToAddressee ==
  \A s \in Occupied : \A b \in HeldBuffers(slots[s]) : sent_to[b] = slots[s].id

\* A socket with queued writes has one in flight whenever consume_commands is not
\* running, so its queue moves on; a socket that drains before closing is excepted.
WritesMoveOn ==
  phase \notin {"drain", "pump"} =>
     \A s \in Occupied :
        LET e == slots[s] IN
        (e.high # << >> \/ e.low # << >>) /\ e.state # "CLOSING" /\ ~e.close_requested
          => e.writing # << >>

Announced(id) ==
  \/ id \in published
  \/ \E i \in 1 .. Len(events) : events[i].type = "ACCEPT" /\ events[i].value = id

\* An accepted socket is known to its owner or about to be: its ACCEPT was delivered
\* or is queued, so that nobody's socket stays open for ever.
AcceptedIsAnnounced ==
  \/ OutOfMemory \/ phase = "released"
  \/ \A s \in Occupied : slots[s].state = "ACCEPTED_PAUSED" => Announced(slots[s].id)

\* skyuv_socket_runtime_state.
runtime_state(id) ==
  LET e == find_entry(id) IN IF e.close_requested THEN "CLOSING" ELSE e.state

\* A socket once seen as CLOSING by its owner is never seen alive again: START,
\* PAUSE, a late connect or an EOF do not bring it back.
NeverReopened ==
  [][\A id \in published : runtime_state(id) = "CLOSING"
       => runtime_state(id)' \in {"CLOSING", "INVALID"}]_vars
=============================================================================
