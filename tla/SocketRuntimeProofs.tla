-------------------------- MODULE SocketRuntimeProofs -----------------------
(***************************************************************************)
(* The invariants of SocketRuntime that hold for every number of slots,    *)
(* threads and owners: its types, the integrity of the socket table, that  *)
(* a descriptor is held once, that a socket reports its end once, is never *)
(* reopened, is CLOSING exactly when its handle is being closed, gets no   *)
(* buffer that was sent to another socket, goes on writing what is queued, *)
(* and is announced when it was accepted.                                  *)
(***************************************************************************)
EXTENDS SocketTableProofs, SocketProperties, FiniteSetTheorems

\* exit_entry on every slot keeps the table sound and takes no descriptor.
LEMMA ExitAll ==
  ASSUME TableInv, slots' = [s \in Slot |-> exit_entry(slots[s])], generations' = generations
  PROVE  /\ slots' \in [Slot -> Entry] /\ OneHolder(slots') /\ Lasting
         /\ \A s \in Slot : SoundSlot(slots'[s], s, generations'[s])
<1> SUFFICES ASSUME NEW s \in Slot
             PROVE  /\ exit_entry(slots[s]) \in Entry
                    /\ exit_entry(slots[s]).external_fd \in {slots[s].external_fd, -1}
                    /\ \/ exit_entry(slots[s]) = NoEntry
                       \/ Continues(exit_entry(slots[s]), slots[s])
                    /\ SoundSlot(exit_entry(slots[s]), s, generations[s])
  BY Zenon DEF OneHolder, TableInv, Lasting
<1>1. SoundSlot(slots[s], s, generations[s])
  BY DEF TableInv
<1>2. /\ Sound(exit_entry(slots[s])) /\ Told(exit_entry(slots[s]))
      /\ \/ exit_entry(slots[s]) = NoEntry
         \/ SameSocket(exit_entry(slots[s]), slots[s]) /\ exit_entry(slots[s]).state # "INVALID"
  BY <1>1, ExitSound, ExitTold DEF SoundSlot
<1>3. NoEntry.state = "INVALID" /\ NoEntry.initialized = FALSE /\ NoEntry.external_fd = -1
  BY DEF NoEntry
<1>4. slots[s].state = "INVALID" => exit_entry(slots[s]) = NoEntry
  BY <1>1, <1>3 DEF SoundSlot, Sound, exit_entry
<1> QED
  BY <1>1, <1>2, <1>3, <1>4 DEF SoundSlot, Sound, SameSocket, Continues

\* The command EXIT closes or frees every entry.
LEMMA ProcessExitStep ==
  ASSUME RuntimeInv, ProcessExit
  PROVE  RuntimeStep
<1> DEFINE freed == {s \in Occupied : ~slots[s].initialized}
<1> USE DEF RuntimeInv, RuntimeStep
<1>1. /\ Consume({"EXIT"}) /\ exiting' = TRUE
      /\ slots' = [s \in Slot |-> exit_entry(slots[s])]
      /\ entry_count' = entry_count - Cardinality(freed)
      /\ exit_ready' = (exit_ready \/ entry_count' = 0)
      /\ UNCHANGED <<generations, next_slot, events, pump, released>>
  BY DEF ProcessExit
<1>2. Cardinality(freed) \in Nat
  <2>1. IsFiniteSet(Slot)
    BY FS_Interval, SlotCountAssumption DEF Slot
  <2>2. freed \subseteq Slot
    BY DEF Occupied
  <2> QED
    BY <2>1, <2>2, FS_Subset, FS_CardinalityType
<1> HIDE DEF freed
<1>3. entry_count' \in Int
  BY <1>1, <1>2 DEF TableInv
<1>4. exit_ready' \in BOOLEAN
  BY <1>1, Zenon DEF TableInv
<1>5. TableStep
  BY <1>1, <1>3, <1>4, ExitAll DEF TableInv, TableStep
<1>6. pump' \in Seq(Slot) /\ exiting' \in BOOLEAN
  BY <1>1, Zenon DEF ControlInv
<1>7. ControlInv'
  BY <1>1, <1>6, ConsumeStep
<1> QED
  BY <1>5, <1>7

\* Release and Teardown.
LEMMA ReleaseActions ==
  ASSUME RuntimeInv, Release \/ Teardown
  PROVE  RuntimeStep
<1> USE DEF RuntimeInv, RuntimeStep
<1>1. CASE Release
  <2>1. /\ slots' = [s \in Slot |-> exit_entry(slots[s])] /\ phase' = "release"
        /\ UNCHANGED <<queue, accepting, generations, next_slot, entry_count, exiting, exit_ready,
                       events, pump, published, released, threadVars>>
    BY <1>1 DEF Release
  <2>2. TableStep
    BY <2>1, ExitAll DEF TableInv, TableStep
  <2>3. ControlInv'
    BY <2>1, Zenon DEF ControlInv, threadVars, countVars, Phase
  <2> QED
    BY <2>2, <2>3
<1>2. CASE Teardown
  <2>1. /\ phase' = "released" /\ accepting' = FALSE /\ queue' = << >> /\ events' = << >>
        /\ release_buffers({queue[i].buf : i \in 1 .. Len(queue)})
        /\ UNCHANGED <<tableVars, exiting, exit_ready, pump, published, threadVars>>
    BY <1>2 DEF Teardown, queue_destroy
  <2>2. released' \in [Buf -> Nat] /\ events' \in Seq(Event) /\ queue' \in Seq(Command)
    BY <2>1, ReleaseTyped DEF TableInv
  <2>3. TableStep
    BY <2>1, <2>2, LastingSame DEF TableInv, TableStep, tableVars
  <2>4. ControlInv'
    BY <2>1, <2>2, Zenon DEF ControlInv, threadVars, countVars, Phase
  <2> QED
    BY <2>3, <2>4
<1> QED
  BY <1>1, <1>2
-----------------------------------------------------------------------------
\* Every step keeps the invariant and lets no socket live again.
LEMMA RuntimeSteps ==
  ASSUME RuntimeInv, [Next]_vars
  PROVE  RuntimeStep
<1>1. CASE UNCHANGED vars
  <2>1. UNCHANGED <<tableVars, exit_ready, events, released>>
        /\ UNCHANGED <<queue, accepting, loopVars, published, threadVars>>
    BY <1>1 DEF vars, tableVars, loopVars, threadVars, countVars
  <2> QED
    BY <2>1, TableSame, ControlSame DEF RuntimeInv, RuntimeStep
<1>2. CASE \E t \in Threads : OpenCall(t)
  BY <1>2, ReserveActions
<1>3. CASE \E t \in Threads : ThreadStep(t)
  BY <1>3, ClaimFdStep, SubmitOpenStep, ReturnIdStep, DiscardStep DEF ThreadStep
<1>4. CASE ReserveFails
  BY <1>4, ReserveActions
<1>5. CASE CallOnSocket \/ Exit
  BY <1>5, SubmitActions
<1>6. CASE LoopStep \/ BeginDrain
  BY <1>6, PollActions, CommandActions, ProcessExitStep, PumpNextStep DEF LoopStep, CommandStep
<1>7. CASE \E s \in Slot : PeerStep(s) \/ RequestStep(s) \/ CloseEntry(s)
  BY <1>7, CallbackActions, AcceptConnectionStep, AcceptStallsStep DEF PeerStep, RequestStep
<1>8. CASE Release \/ Teardown
  BY <1>8, ReleaseActions
<1> QED
  BY <1>1, <1>2, <1>3, <1>4, <1>5, <1>6, <1>7, <1>8 DEF Next

\* Every behaviour of the runtime satisfies the invariant.
THEOREM RuntimeInvariance == Spec => []RuntimeInv
<1>1. Init => RuntimeInv
  BY RuntimeInit
<1>2. RuntimeInv /\ [Next]_vars => RuntimeInv'
  BY RuntimeSteps DEF RuntimeInv, RuntimeStep, TableStep
<1> QED
  BY <1>1, <1>2, PTL DEF Spec

\* Every variable of the runtime keeps its type.
THEOREM RuntimeTypeCorrect == Spec => []TypeInv
<1>1. RuntimeInv => TypeInv
  BY Zenon DEF RuntimeInv, TableInv, ControlInv, CallInv, TypeInv
<1> QED
  BY <1>1, RuntimeInvariance, PTL

\* A slot of the socket table is empty or holds an entry whose id is made of the slot
\* and its current generation, so find_entry never returns the entry of another socket
\* of the same slot, and close_entry clears the slot of the entry it frees.
THEOREM TableIntegrity == Spec => []SlotIntegrity
<1>1. RuntimeInv => SlotIntegrity
  BY DEF RuntimeInv, TableInv, SoundSlot, Sound, SlotIntegrity
<1> QED
  BY <1>1, RuntimeInvariance, PTL

\* No descriptor is held by two sockets, however many threads bind it at once.
THEOREM OneSocketPerDescriptor == Spec => []DescriptorHeldOnce
<1>1. RuntimeInv => DescriptorHeldOnce
  BY DEF RuntimeInv, TableInv, OneHolder, Occupied, DescriptorHeldOnce
<1> QED
  BY <1>1, RuntimeInvariance, PTL

\* A socket that does not drain before closing reports its end at most once and reads
\* nothing after it, whatever commands, callbacks and errors meet on it.
THEOREM OneEndPerSocket == Spec => []EndReportedOnce
<1>1. RuntimeInv => EndReportedOnce
  <2> SUFFICES ASSUME RuntimeInv, NEW s \in Occupied
               PROVE  ~slots[s].close_requested =>
                        /\ slots[s].terminals <= 1
                        /\ slots[s].reading /\ slots[s].uv_closes = 0 => slots[s].terminals = 0
    BY DEF EndReportedOnce
  <2>1. s \in Slot
    BY DEF Occupied
  <2>2. Sound(slots[s]) /\ Told(slots[s])
    BY <2>1 DEF RuntimeInv, TableInv, SoundSlot
  <2> QED
    BY <2>2 DEF Sound, Told
<1> QED
  BY <1>1, RuntimeInvariance, PTL

\* A socket that its owner has seen as CLOSING is CLOSING or gone after the next step:
\* nothing reopens it, even if its id is used again later.
THEOREM ClosedForGood == Spec => NeverReopened
<1> DEFINE A == \A id \in published : runtime_state(id) = "CLOSING"
                  => runtime_state(id)' \in {"CLOSING", "INVALID"}
<1>1. RuntimeInv /\ [Next]_vars => [A]_vars
  <2> SUFFICES ASSUME RuntimeInv, [Next]_vars, NEW id \in published,
                      runtime_state(id) = "CLOSING"
               PROVE  runtime_state(id)' \in {"CLOSING", "INVALID"}
    OBVIOUS
  <2> DEFINE s == id_slot(id)
  <2>1. s \in Slot
    BY Zenon, SlotOfId DEF RuntimeInv, ControlInv
  <2>2. TableInv' /\ Lasting /\ Sound(slots[s])
    BY <2>1, RuntimeSteps DEF RuntimeStep, TableStep, RuntimeInv, TableInv, SoundSlot
  <2>3. NoEntry.state = "INVALID" /\ NoEntry.close_requested = FALSE
    BY DEF NoEntry
  <2>4. /\ slots[s].id = id /\ slots[s].state # "INVALID"
        /\ slots[s].close_requested \/ slots[s].uv_closes > 0
    BY <2>2, <2>3 DEF runtime_state, find_entry, Sound
  <2>5. CASE slots'[s] = NoEntry
    BY <2>3, <2>5 DEF runtime_state, find_entry
  <2>6. CASE Continues(slots'[s], slots[s])
    <3>1. Sound(slots'[s])
      BY Zenon, <2>1, <2>2 DEF TableInv, SoundSlot
    <3> QED
      BY <2>4, <2>6, <3>1 DEF Continues, Sound, runtime_state, find_entry
  <2> QED
    BY <2>1, <2>2, <2>4, <2>5, <2>6 DEF Lasting
<1> QED
  BY <1>1, RuntimeInvariance, PTL DEF Spec, NeverReopened

\* The state CLOSING and a call of uv_close on the handle always go together.
THEOREM ClosingMeansClosed == Spec => []ClosingIsClosed
<1>1. RuntimeInv => ClosingIsClosed
  BY DEF RuntimeInv, TableInv, SoundSlot, Sound, ClosingIsClosed
<1> QED
  BY <1>1, RuntimeInvariance, PTL

\* A buffer is only ever queued at or written to the socket it was sent to, however many
\* sockets its slot has held and however often its generation has wrapped.
THEOREM SentToAddressee == Spec => []WrittenToAddressee
<1>1. Init => AddressInv
  <2> SUFFICES ASSUME Init
               PROVE  AddressInv
    OBVIOUS
  <2>1. \A s \in Slot : HeldBuffers(slots[s]) = {}
    BY NewHeld, Zenon DEF Init
  <2>2. 1 .. Len(queue) = {}
    BY DEF Init, queue_init
  <2> QED
    BY <2>1, <2>2, Zenon DEF AddressInv
<1>2. RuntimeInv /\ AddressInv /\ [Next]_vars => AddressInv'
  BY AddressSteps
<1>3. AddressInv => WrittenToAddressee
  BY Zenon DEF AddressInv, Addressed, Occupied, WrittenToAddressee
<1> QED
  BY <1>1, <1>2, <1>3, RuntimeInvariance, PTL DEF Spec
-----------------------------------------------------------------------------
(***************************************************************************)
(* Which sockets wait for the second loop of consume_commands, and which   *)
(* accepted sockets have been announced.  A send makes a socket wait and   *)
(* accept_connection accepts one; the other steps do neither.              *)
(***************************************************************************)
\* A socket that waits to write is on the pump list, which is empty between two rounds of
\* consume_commands; an accepted socket has been announced.
OnList(list, s) == \E i \in 1 .. Len(list) : list[i] = s

PumpInv ==
  /\ phase \notin {"drain", "pump"} => pump = << >>
  /\ \A s \in Slot : Waits(slots[s]) => OnList(pump, s)

AcceptInv ==
  \/ OutOfMemory \/ phase = "released"
  \/ \A s \in Slot : slots[s].state = "ACCEPTED_PAUSED" => Announced(slots[s].id)

\* Steps that make no socket wait, that accept none, and that lose no announcement.
Steady == \A s \in Slot : Orderly(slots[s], slots'[s])

NoneAccepted ==
  \A s \in Slot : slots'[s].state = "ACCEPTED_PAUSED" => slots[s].state = "ACCEPTED_PAUSED"

NewsKept == \A id \in Int : Announced(id) => Announced(id)'

\* Steps that leave the slots alone, or free some of them.
LEMMA SteadySame ==
  ASSUME \A s \in Slot : slots'[s] = slots[s] \/ slots'[s] = NoEntry
  PROVE  Steady
BY Zenon, EndOrder DEF Steady

\* A step that puts f into slot s.
LEMMA SteadyAt ==
  ASSUME TableInv, NEW s \in Slot, NEW f, Orderly(slots[s], f), slots' = [slots EXCEPT ![s] = f]
  PROVE  Steady
<1>1. slots \in [Slot -> Entry]
  BY Zenon DEF TableInv
<1>2. slots'[s] = f /\ \A r \in Slot : r # s => slots'[r] = slots[r]
  BY ZenonT(30), <1>1
<1> QED
  BY Zenon, <1>2, EndOrder DEF Steady

\* Events are queued behind those that wait to be polled.
LEMMA PushNews ==
  ASSUME events \in Seq(Event), NEW pushed \in Seq(Event), push_events(pushed),
         published' = published
  PROVE  NewsKept
<1>1. PICK kept \in Kept(pushed) : events' = events \o kept
  BY Zenon DEF push_events
<1>2. kept \in Seq(Event)
  <2>1. << >> \in Seq(Event) /\ \A i \in 1 .. Len(pushed) : <<pushed[i]>> \in Seq(Event)
    OBVIOUS
  <2>2. kept = << >> \/ kept = pushed \/ \E i \in 1 .. Len(pushed) : kept = <<pushed[i]>>
    BY DEF Kept
  <2> QED
    BY Zenon, <2>1, <2>2
<1>3. \A i \in 1 .. Len(events) : i \in 1 .. Len(events') /\ events'[i] = events[i]
  BY <1>1, <1>2
<1> QED
  BY ZenonT(30), <1>3 DEF NewsKept, Announced

\* Steps that queue no event.
LEMMA SameNews ==
  ASSUME events' = events, published \subseteq published'
  PROVE  NewsKept
BY ZenonT(30) DEF NewsKept, Announced

\* An accepted socket stays announced.
LEMMA AcceptKept ==
  ASSUME TableInv, Lasting, AcceptInv, NoneAccepted, NewsKept,
         phase = "released" => phase' = "released"
  PROVE  AcceptInv'
<1>1. ASSUME NEW s \in Slot, slots'[s].state = "ACCEPTED_PAUSED",
             slots[s].state = "ACCEPTED_PAUSED" => Announced(slots[s].id)
      PROVE  Announced(slots[s].id)'
  <2>1. Announced(slots[s].id) /\ slots[s].state = "ACCEPTED_PAUSED"
    BY Zenon, <1>1 DEF NoneAccepted
  <2>2. slots[s].id \in Int
    BY DEF TableInv, Entry
  <2>3. slots'[s].id = slots[s].id
    <3>1. NoEntry.state = "INVALID"
      BY DEF NoEntry
    <3>2. slots'[s] # NoEntry /\ slots[s].state # "INVALID"
      BY Zenon, <1>1, <2>1, <3>1
    <3> QED
      BY Zenon, <3>2 DEF Lasting, Continues
  <2> QED
    BY Zenon, <2>1, <2>2, <2>3 DEF NewsKept, Announced
<1> QED
  BY Zenon, <1>1 DEF AcceptInv

\* The steps that leave the pump list alone.
LEMMA OrderKept ==
  ASSUME TableInv, Lasting, PumpInv, AcceptInv, Steady, pump' = pump,
         phase' \in {phase, "pump"} \/ pump = << >>,
         NewsKept, phase = "released" => phase' = "released"
  PROVE  PumpInv' /\ AcceptInv'
<1>1. PumpInv'
  BY ZenonT(30) DEF PumpInv, Steady, Orderly
<1>2. NoneAccepted
  BY Zenon DEF NoneAccepted, Steady, Orderly
<1> QED
  BY Zenon, <1>1, <1>2, AcceptKept
-----------------------------------------------------------------------------
\* The handler of a command puts the entry it returns into the socket's slot.
LEMMA HandleOrder ==
  ASSUME RuntimeInv, NEW types, Consume(types), NEW did, Handle(did),
         SoundCall(find_entry(Head(queue).id), did)
  PROVE  /\ Orderly(find_entry(Head(queue).id), did.entry) => Steady
         /\ NewsKept
         /\ \/ slots' = slots
            \/ /\ find_entry(Head(queue).id) = slots[id_slot(Head(queue).id)]
               /\ slots' = [slots EXCEPT ![id_slot(Head(queue).id)] = did.entry]
<1> DEFINE e == find_entry(Head(queue).id)
           s == id_slot(Head(queue).id)
<1>1. s \in Slot
  <2>1. queue # << >> /\ queue \in Seq(Command)
    BY Zenon DEF RuntimeInv, ControlInv, Consume
  <2>2. Head(queue) \in Command
    BY Zenon, <2>1, FoundByCommand DEF RuntimeInv
  <2> QED
    BY Zenon, <2>2, SlotOfId DEF Command
<1>2. NewsKept
  <2>1. push_events(did.events) /\ published' = published
    BY Zenon DEF Handle, Apply, ApplyToNone, Consume
  <2>2. events \in Seq(Event) /\ did.events \in Seq(Event)
    BY Zenon DEF RuntimeInv, TableInv, SoundCall
  <2> QED
    BY Zenon, <2>1, <2>2, PushNews
<1>3. slots' = slots \/ (e = slots[s] /\ slots' = [slots EXCEPT ![s] = did.entry])
  BY Zenon DEF Handle, Apply, ApplyToNone, find_entry, tableVars
<1>4. ASSUME Orderly(e, did.entry) PROVE Steady
  <2> HIDE DEF e, s
  <2>1. CASE slots' = slots
    BY Zenon, <2>1, SteadySame
  <2>2. CASE e = slots[s] /\ slots' = [slots EXCEPT ![s] = did.entry]
    BY Zenon, <1>1, <1>4, <2>2, SteadyAt DEF RuntimeInv
  <2> QED
    BY <1>3, <2>1, <2>2
<1> QED
  BY Zenon, <1>2, <1>3, <1>4

\* The commands other than the sends and EXIT make no socket wait.
LEMMA CommandOrder ==
  ASSUME RuntimeInv,
         \/ ProcessListen \/ ProcessConnect \/ ProcessBind \/ ProcessUdp
         \/ ProcessStart \/ ProcessPause \/ ProcessNodelay
         \/ ProcessUdpSend \/ ProcessUdpConnect \/ ProcessClose
  PROVE  Steady /\ NewsKept /\ UNCHANGED <<pump, phase>>
<1> DEFINE e == find_entry(Head(queue).id)
<1>1. UNCHANGED pump /\ \E types : Consume(types)
  BY ZenonT(30) DEF ProcessListen, ProcessConnect, ProcessBind, ProcessUdp, ProcessStart,
     ProcessPause, ProcessNodelay, ProcessUdpSend, ProcessUdpConnect, ProcessClose
<1>2. PICK types : Consume(types)
  BY Zenon, <1>1
<1>3. queue # << >> /\ queue \in Seq(Command) /\ phase' = phase
  BY Zenon, <1>2 DEF Consume, RuntimeInv, ControlInv
<1>4. Sound(e) /\ Head(queue) \in Command
  BY Zenon, <1>3, FoundByCommand DEF RuntimeInv
<1> HIDE DEF e
<1>5. \E did : SoundCall(e, did) /\ Handle(did) /\ Orderly(e, did.entry)
  <2>1. CASE ProcessListen \/ ProcessConnect \/ ProcessBind \/ ProcessUdp
    BY ZenonT(30), <1>4, <2>1, OpenSound, OpenOrder, ResultsTyped
       DEF ProcessListen, ProcessConnect, ProcessBind, ProcessUdp, e
  <2>2. CASE ProcessStart
    BY Zenon, <1>4, <2>2, StartSound, ControlOrder, ResultsTyped DEF ProcessStart, e
  <2>3. CASE ProcessPause
    BY Zenon, <1>4, <2>3, PauseSound, ControlOrder, ResultsTyped DEF ProcessPause, e
  <2>4. CASE ProcessNodelay
    <3>1. Unchanged(e).entry = e
      BY Zenon DEF Unchanged, Did
    <3> QED
      BY Zenon, <1>4, <2>4, <3>1, UnchangedSound, EndOrder DEF ProcessNodelay, e
  <2>5. CASE ProcessUdpSend
    <3>1. PICK ok \in SendResults(e) : Handle(process_udp_send(e, Head(queue), ok))
      BY ZenonT(30), <2>5 DEF ProcessUdpSend, e
    <3>2. ok \in BOOLEAN
      BY Zenon, ResultsTyped
    <3> QED
      BY Zenon, <1>4, <3>1, <3>2, UdpSendSound, ControlOrder
  <2>6. CASE ProcessUdpConnect
    <3> DEFINE parsed == (Head(queue).address = "good")
    <3>1. Handle(process_udp_connect(e, parsed))
      BY Zenon, <2>6 DEF ProcessUdpConnect, e
    <3>2. parsed \in BOOLEAN
      BY Zenon
    <3> HIDE DEF parsed
    <3> QED
      BY Zenon, <1>4, <3>1, <3>2, UdpConnectSound, ControlOrder
  <2>7. CASE ProcessClose
    BY Zenon, <1>4, <2>7, ProcessCloseSound, CloseOrder DEF ProcessClose, e
  <2> QED
    BY Zenon, <2>1, <2>2, <2>3, <2>4, <2>5, <2>6, <2>7
<1>6. PICK did : SoundCall(e, did) /\ Handle(did) /\ Orderly(e, did.entry)
  BY <1>5
<1>7. Steady /\ NewsKept
  BY Zenon, <1>2, <1>6, HandleOrder DEF e
<1> QED
  BY <1>1, <1>3, <1>7

\* A list that grows at its end keeps what it holds.
LEMMA Listed ==
  ASSUME NEW list \in Seq(Slot), NEW s \in Slot
  PROVE  /\ \A r \in Slot : OnList(list, r) => OnList(Append(list, s), r)
         /\ OnList(Append(list, s), s)
         /\ list # << >> => \A r \in Slot : r # Head(list) /\ OnList(list, r) => OnList(Tail(list), r)
<1>1. ASSUME NEW r \in Slot, NEW i \in 1 .. Len(list), list[i] = r
      PROVE  \E j \in 1 .. Len(Append(list, s)) : Append(list, s)[j] = r
  <2>1. i \in 1 .. Len(Append(list, s)) /\ Append(list, s)[i] = r
    BY SMTT(30), <1>1
  <2> QED
    BY Zenon, <2>1
<1>2. \E i \in 1 .. Len(Append(list, s)) : Append(list, s)[i] = s
  <2>1. Len(list) + 1 \in 1 .. Len(Append(list, s)) /\ Append(list, s)[Len(list) + 1] = s
    OBVIOUS
  <2> QED
    BY Zenon, <2>1
<1>3. ASSUME list # << >>, NEW r \in Slot, r # Head(list), NEW i \in 1 .. Len(list), list[i] = r
      PROVE  \E j \in 1 .. Len(Tail(list)) : Tail(list)[j] = r
  <2>1. i - 1 \in 1 .. Len(Tail(list)) /\ Tail(list)[i - 1] = r
    BY <1>3
  <2> QED
    BY Zenon, <2>1
<1> QED
  BY Zenon, <1>1, <1>2, <1>3 DEF OnList

\* A send puts its socket on the pump list unless a write is in flight or it is there.
LEMMA SendPumped ==
  ASSUME RuntimeInv, PumpInv, ProcessSend
  PROVE  PumpInv' /\ NoneAccepted /\ NewsKept /\ UNCHANGED phase
<1> DEFINE e == find_entry(Head(queue).id)
           s == id_slot(Head(queue).id)
<1>1. Consume({"SEND", "SEND_LOW"})
  BY Zenon DEF ProcessSend
<1>2. PICK ok \in SendResults(e) :
        LET did == process_send(e, Head(queue), ok) IN
        /\ Handle(did)
        /\ pump' = IF /\ Head(queue).buf \in Buffers(did.entry.high) \cup Buffers(did.entry.low)
                      /\ e.writing = << >>
                      /\ \A i \in 1 .. Len(pump) : pump[i] # s
                   THEN Append(pump, s) ELSE pump
  BY Zenon DEF ProcessSend
<1> DEFINE did == process_send(e, Head(queue), ok)
           Joins == /\ Head(queue).buf \in Buffers(did.entry.high) \cup Buffers(did.entry.low)
                    /\ e.writing = << >>
<1>3. queue # << >> /\ queue \in Seq(Command) /\ phase = "drain" /\ phase' = phase
  BY Zenon, <1>1 DEF Consume, RuntimeInv, ControlInv
<1>4. Sound(e) /\ Head(queue) \in Command /\ ok \in BOOLEAN
  BY Zenon, <1>3, FoundByCommand, ResultsTyped DEF RuntimeInv
<1>5. s \in Slot /\ pump \in Seq(Slot) /\ slots \in [Slot -> Entry]
  BY Zenon, <1>4, SlotOfId DEF Command, RuntimeInv, ControlInv, TableInv
<1>6. /\ did.entry.state = "ACCEPTED_PAUSED" => e.state = "ACCEPTED_PAUSED"
      /\ Waits(did.entry) => Waits(e) \/ Joins
  BY Zenon, <1>4, SendOrder
<1>7. Handle(did) /\ SoundCall(e, did)
  BY Zenon, <1>2, <1>4, SendSound
<1>8. pump' = IF Joins /\ \A i \in 1 .. Len(pump) : pump[i] # s THEN Append(pump, s) ELSE pump
  BY Zenon, <1>2
<1> HIDE DEF e, s, did, Joins
<1>9. NewsKept /\ (slots' = slots \/ (e = slots[s] /\ slots' = [slots EXCEPT ![s] = did.entry]))
  BY Zenon, <1>1, <1>7, HandleOrder DEF e, s
<1>10. \A r \in Slot : OnList(pump, r) => OnList(pump', r)
  BY Zenon, <1>5, <1>8, Listed
<1>11. Joins => OnList(pump', s)
  BY Zenon, <1>5, <1>8, Listed DEF OnList
<1>12. \A r \in Slot : slots'[r] = slots[r] \/ (r = s /\ e = slots[s] /\ slots'[r] = did.entry)
  BY Zenon, <1>5, <1>9
<1>13. NoneAccepted
  BY Zenon, <1>6, <1>12 DEF NoneAccepted
<1>14. \A r \in Slot : Waits(slots'[r]) => OnList(pump', r)
  <2> SUFFICES ASSUME NEW r \in Slot, Waits(slots'[r])
               PROVE  OnList(pump', r)
    BY Zenon
  <2>1. Waits(slots[r]) => OnList(pump, r)
    BY Zenon DEF PumpInv
  <2> QED
    BY Zenon, <1>6, <1>10, <1>11, <1>12, <2>1
<1> QED
  BY Zenon, <1>3, <1>9, <1>13, <1>14 DEF PumpInv

\* The second loop of consume_commands takes a socket off the list and starts its write.
LEMMA PumpPumped ==
  ASSUME RuntimeInv, PumpInv, PumpNext
  PROVE  PumpInv' /\ NoneAccepted /\ NewsKept /\ UNCHANGED phase
<1> DEFINE s == Head(pump)
           e == slots[s]
<1>1. /\ pump # << >> /\ pump' = Tail(pump) /\ pump \in Seq(Slot)
      /\ phase = "pump" /\ phase' = phase /\ published' = published
      /\ slots \in [Slot -> Entry] /\ events \in Seq(Event)
  BY Zenon DEF PumpNext, RuntimeInv, ControlInv, TableInv
<1>2. s \in Slot
  BY <1>1
<1>3. PICK ok \in Results :
        Apply(s, IF e.state = "CLOSING" THEN Unchanged(e) ELSE pump_write(e, ok))
  BY Zenon DEF PumpNext
<1>4. \A r \in Slot : r # s /\ OnList(pump, r) => OnList(pump', r)
  BY Zenon, <1>1, <1>2, Listed
<1> HIDE DEF s
<1>5. Sound(e) /\ ok \in BOOLEAN
  BY Zenon, <1>2, ResultsTyped DEF RuntimeInv, TableInv, SoundSlot
<1>6. \E did : Apply(s, did) /\ SoundCall(e, did) /\ ~Waits(did.entry) /\ Orderly(e, did.entry)
  <2>1. CASE e.state = "CLOSING" \/ e.state = "INVALID"
    <3>1. e.state = "INVALID" => e = NoEntry
      BY Zenon, <1>5 DEF Sound
    <3>2. pump_write(NoEntry, ok) = Unchanged(NoEntry) /\ ~Waits(NoEntry)
      BY DEF pump_write, NoEntry, Waits
    <3>3. Apply(s, Unchanged(e)) /\ Unchanged(e).entry = e
      BY Zenon, <1>3, <2>1, <3>1, <3>2 DEF Unchanged, Did
    <3>4. ~Waits(e)
      BY Zenon, <2>1, <3>1, <3>2 DEF Waits
    <3> QED
      BY Zenon, <1>5, <3>3, <3>4, UnchangedSound, EndOrder
  <2>2. CASE e.state \notin {"CLOSING", "INVALID"}
    BY Zenon, <1>3, <1>5, <2>2, PumpWriteSound, PumpOrder
  <2> QED
    BY <2>1, <2>2
<1>7. PICK did : Apply(s, did) /\ SoundCall(e, did) /\ ~Waits(did.entry) /\ Orderly(e, did.entry)
  BY <1>6
<1>8. slots' = [slots EXCEPT ![s] = did.entry] /\ push_events(did.events)
      /\ did.events \in Seq(Event)
  BY Zenon, <1>7 DEF Apply, SoundCall
<1>9. NewsKept
  BY Zenon, <1>1, <1>8, PushNews
<1>10. Steady
  BY Zenon, <1>2, <1>7, <1>8, SteadyAt DEF RuntimeInv
<1>11. slots'[s] = did.entry
  BY Zenon, <1>1, <1>2, <1>8
<1>12. \A r \in Slot : Waits(slots'[r]) => OnList(pump', r)
  <2> SUFFICES ASSUME NEW r \in Slot, Waits(slots'[r])
               PROVE  OnList(pump', r)
    BY Zenon
  <2>1. r # s
    BY Zenon, <1>7, <1>11
  <2>2. OnList(pump, r)
    BY Zenon, <1>10 DEF PumpInv, Steady, Orderly
  <2> QED
    BY Zenon, <1>4, <2>1, <2>2
<1>13. NoneAccepted
  BY Zenon, <1>10 DEF NoneAccepted, Steady, Orderly
<1> QED
  BY Zenon, <1>1, <1>9, <1>12, <1>13 DEF PumpInv
-----------------------------------------------------------------------------
\* libuv's callbacks make no socket wait: that of a write starts the next one.
LEMMA CallbackOrder ==
  ASSUME RuntimeInv, NEW s \in Slot,
         \/ ReadCompleted(s) \/ UdpReceived(s) \/ AcceptFails(s) \/ ConnectCompleted(s)
         \/ WriteCompleted(s) \/ UdpWriteCompleted(s) \/ CloseEntry(s)
  PROVE  Steady /\ NewsKept /\ UNCHANGED <<pump, phase>>
<1> DEFINE e == slots[s]
<1>1. Sound(e) /\ e \in Entry /\ events \in Seq(Event)
  BY Zenon DEF RuntimeInv, TableInv, SoundSlot
<1>2. e.state # "INVALID"
  BY Zenon, Awaiting DEF ReadCompleted, UdpReceived, AcceptFails, ConnectCompleted,
     WriteCompleted, UdpWriteCompleted, CloseEntry
<1>3. \E did : SoundCall(e, did) /\ Callback(s, did) /\ Orderly(e, did.entry)
  <2>1. CASE ReadCompleted(s)
    BY Zenon, <1>1, <1>2, <2>1, ReadCompletedSound, CallbacksOrder DEF ReadCompleted, Polled
  <2>2. CASE UdpReceived(s)
    BY Zenon, <1>1, <1>2, <2>2, UdpReceivedSound, CallbacksOrder DEF UdpReceived
  <2>3. CASE AcceptFails(s)
    <3> DEFINE did == Did(e, <<EventOf("ERROR", e, 0)>>, {})
    <3>1. EventOf("ERROR", e, 0) \in Event
      BY <1>1, EventsTyped DEF EventType
    <3>2. SoundCall(e, did)
      BY <1>1, <3>1, ReportSound
    <3>3. did.entry = e
      BY Zenon DEF Did
    <3>4. Callback(s, did)
      BY Zenon, <2>3 DEF AcceptFails
    <3> HIDE DEF did
    <3> QED
      BY Zenon, <3>2, <3>3, <3>4, EndOrder
  <2>4. CASE ConnectCompleted(s)
    BY Zenon, <1>1, <1>2, <2>4, ConnectCompletedSound, CallbacksOrder DEF ConnectCompleted
  <2>5. CASE WriteCompleted(s)
    <3>1. PICK ok \in Results, pump_ok \in Results : Callback(s, write_completed(e, ok, pump_ok))
      BY Zenon, <2>5 DEF WriteCompleted
    <3>2. ok \in BOOLEAN /\ pump_ok \in BOOLEAN /\ e.writing # << >>
      BY Zenon, <2>5, ResultsTyped DEF WriteCompleted
    <3> QED
      BY Zenon, <1>1, <1>2, <3>1, <3>2, WriteCompletedSound, WriteCompletedOrder
  <2>6. CASE UdpWriteCompleted(s)
    BY Zenon, <1>1, <1>2, <2>6, UdpWriteCompletedSound, CallbacksOrder, ResultsTyped
       DEF UdpWriteCompleted
  <2>7. CASE CloseEntry(s)
    BY Zenon, <1>1, <1>2, <2>7, ExitSound, CallbacksOrder DEF CloseEntry
  <2> QED
    BY Zenon, <2>1, <2>2, <2>3, <2>4, <2>5, <2>6, <2>7
<1>4. PICK did : SoundCall(e, did) /\ Callback(s, did) /\ Orderly(e, did.entry)
  BY Zenon, <1>3
<1>5. /\ slots' = [slots EXCEPT ![s] = did.entry] /\ push_events(did.events)
      /\ did.events \in Seq(Event) /\ published' = published /\ UNCHANGED <<pump, phase>>
  BY Zenon, <1>4 DEF Callback, Apply, SoundCall, loopVars
<1>6. Steady
  BY Zenon, <1>4, <1>5, SteadyAt DEF RuntimeInv
<1>7. NewsKept
  BY Zenon, <1>1, <1>5, PushNews
<1> QED
  BY Zenon, <1>5, <1>6, <1>7

\* Nor do the steps of the threads, a stalled accept, exit and release.
LEMMA OtherOrder ==
  ASSUME RuntimeInv,
         \/ \E t \in Threads : OpenCall(t) \/ ThreadStep(t)
         \/ \E l \in Slot : AcceptStalls(l)
         \/ ProcessExit \/ Release
  PROVE  Steady
<1>1. slots \in [Slot -> Entry] /\ TableInv
  BY Zenon DEF RuntimeInv, TableInv
<1>2. CASE \E t \in Threads : OpenCall(t)
  <2>1. PICK s \in Slot, opaque \in Owners : reserve_entry(s, ReservedEntry(NewId(s), opaque))
    BY Zenon, <1>2 DEF OpenCall, runtime_listen, runtime_connect, runtime_udp, runtime_bind, Reserve
  <2> QED
    BY Zenon, <1>1, <2>1, EndOrder, SteadyAt DEF reserve_entry
<1>3. CASE \E t \in Threads : ThreadStep(t)
  <2>1. PICK t \in Threads : ThreadStep(t)
    BY <1>3
  <2>2. calls[t].id \in Int
    <3>1. calls[t] \in Call
      BY Zenon DEF RuntimeInv, ControlInv, CallInv
    <3> QED
      BY Zenon, <3>1 DEF Call
  <2> DEFINE s == id_slot(calls[t].id)
             f == [slots[s] EXCEPT !.external_fd = calls[t].fd]
  <2>3. s \in Slot /\ slots[s] \in Entry
    BY Zenon, <1>1, <2>2, SlotOfId
  <2>4. \/ slots' = slots
        \/ slots' = [slots EXCEPT ![s] = NoEntry]
        \/ slots' = [slots EXCEPT ![s] = f]
    BY Zenon, <2>1 DEF ThreadStep, ClaimFd, SubmitOpen, ReturnId, Discard,
       discard_uninitialized_entry, Misuse, tableVars
  <2> HIDE DEF s
  <2>5. SameWrites(slots[s], f) /\ f.state = slots[s].state
    BY <2>3 DEF SameWrites, Entry
  <2> HIDE DEF f
  <2>6. Orderly(slots[s], f)
    BY Zenon, <2>5, SameOrder
  <2>7. CASE slots' = slots
    BY Zenon, <2>7, SteadySame
  <2> QED
    BY Zenon, <1>1, <2>3, <2>4, <2>6, <2>7, EndOrder, SteadyAt
<1>4. CASE \E l \in Slot : AcceptStalls(l)
  <2>1. PICK l \in Slot : slots' = [slots EXCEPT ![l].unaccepted = TRUE]
    BY Zenon, <1>4 DEF AcceptStalls
  <2> DEFINE f == [slots[l] EXCEPT !.unaccepted = TRUE]
  <2>2. slots[l] \in Entry /\ slots' = [slots EXCEPT ![l] = f]
    BY Zenon, <1>1, <2>1
  <2>3. SameWrites(slots[l], f) /\ f.state = slots[l].state
    BY <2>2 DEF SameWrites, Entry
  <2> HIDE DEF f
  <2> QED
    BY Zenon, <1>1, <2>2, <2>3, SameOrder, SteadyAt
<1>5. CASE ProcessExit \/ Release
  <2>1. \A s \in Slot : slots'[s] = exit_entry(slots[s])
    BY Zenon, <1>5 DEF ProcessExit, Release
  <2> QED
    BY Zenon, <1>1, <2>1, ExitOrder DEF Steady
<1> QED
  BY Zenon, <1>2, <1>3, <1>4, <1>5

\* accept_connection announces the socket it accepts, or closes it.
LEMMA AcceptOrder ==
  ASSUME RuntimeInv, Lasting, PumpInv, AcceptInv, NEW l \in Slot, AcceptConnection(l)
  PROVE  PumpInv' /\ AcceptInv'
<1>1. /\ slots \in [Slot -> Entry] /\ TableInv /\ events \in Seq(Event)
      /\ published' = published /\ pump' = pump /\ phase' = phase
  BY Zenon DEF RuntimeInv, TableInv, AcceptConnection, loopVars
<1>2. PICK s \in Slot :
        \/ /\ reserve_entry(s, Accepted(s, slots[l].opaque))
           /\ push_events(<<AcceptEvent(l, Accepted(s, slots[l].opaque))>>)
        \/ /\ reserve_entry(s, reject_entry(Accepted(s, slots[l].opaque)).entry)
           /\ push_events(reject_entry(Accepted(s, slots[l].opaque)).events)
  BY Zenon DEF AcceptConnection
<1> DEFINE r == ReservedEntry(NewId(s), slots[l].opaque)
           a == Accepted(s, slots[l].opaque)
           news == AcceptEvent(l, a)
<1>3. slots[l].opaque \in Nat /\ slots[l].id \in Int /\ NewId(s) \in Int
  <2>1. slots[l] \in Entry /\ NewId(s) \in Nat
    BY Zenon, <1>1, NewIdTyped
  <2> QED
    BY <2>1 DEF Entry
<1>4. r \in Entry /\ r.id = NewId(s)
  BY Zenon, <1>3, NewEntries DEF Sound
<1>5. r.high = << >> /\ r.low = << >>
  BY DEF ReservedEntry, NoEntry
<1>6. a = [r EXCEPT !.initialized = TRUE, !.state = "ACCEPTED_PAUSED"]
  BY Zenon DEF Accepted
<1> HIDE DEF r
<1>7. a \in Entry /\ a.id = NewId(s) /\ a.high = << >> /\ a.low = << >>
  <2>1. "ACCEPTED_PAUSED" \in State /\ TRUE \in BOOLEAN
    BY DEF State
  <2> QED
    BY Zenon, <1>4, <1>5, <1>6, <2>1 DEF Entry
<1> HIDE DEF a
<1>8. news \in Event /\ news.type = "ACCEPT" /\ news.value = a.id
  <2>1. "ACCEPT" \in EventType /\ a.id \in Int
    BY Zenon, <1>3, <1>7 DEF EventType
  <2>2. news = EventOf("ACCEPT", slots[l], a.id)
    BY Zenon DEF AcceptEvent
  <2> QED
    BY <1>3, <2>1, <2>2 DEF EventOf, Event
<1> HIDE DEF news
<1>9. CASE reserve_entry(s, a) /\ push_events(<<news>>)
  <2>1. <<news>> \in Seq(Event)
    BY <1>8
  <2>2. NewsKept
    BY Zenon, <1>1, <1>9, <2>1, PushNews
  <2>3. slots'[s] = a /\ \A q \in Slot : q # s => slots'[q] = slots[q]
    BY Zenon, <1>1, <1>9 DEF reserve_entry
  <2>4. PumpInv'
    <3>1. ~Waits(a)
      BY Zenon, <1>7 DEF Waits
    <3>2. \A q \in Slot : Waits(slots'[q]) => Waits(slots[q])
      BY Zenon, <2>3, <3>1
    <3> QED
      BY Zenon, <1>1, <3>2 DEF PumpInv
  <2>5. ~OutOfMemory => Announced(slots[s].id)'
    <3>1. SUFFICES ASSUME ~OutOfMemory
                   PROVE  \E i \in 1 .. Len(events') :
                             events'[i].type = "ACCEPT" /\ events'[i].value = a.id
      BY Zenon, <2>3 DEF Announced
    <3>2. events' = events \o <<news>>
      BY Zenon, <1>9, <3>1 DEF push_events, Kept
    <3>3. Len(events) + 1 \in 1 .. Len(events') /\ events'[Len(events) + 1] = news
      BY <1>1, <1>8, <3>2
    <3> QED
      BY Zenon, <1>8, <3>3
  <2>6. ASSUME NEW q \in Slot, q # s, slots[q].state = "ACCEPTED_PAUSED" => Announced(slots[q].id),
               slots'[q].state = "ACCEPTED_PAUSED"
        PROVE  Announced(slots[q].id)'
    <3>1. slots[q].id \in Int
      BY <1>1 DEF Entry
    <3>2. slots'[q] = slots[q]
      BY Zenon, <2>3, <2>6
    <3>3. Announced(slots[q].id)
      BY Zenon, <2>6, <3>2
    <3>4. \/ slots[q].id \in published'
          \/ \E i \in 1 .. Len(events') :
                events'[i].type = "ACCEPT" /\ events'[i].value = slots[q].id
      BY Zenon, <2>2, <3>1, <3>3 DEF NewsKept, Announced
    <3> QED
      BY Zenon, <3>2, <3>4 DEF Announced
  <2>7. AcceptInv'
    BY Zenon, <1>1, <2>5, <2>6 DEF AcceptInv
  <2> QED
    BY <2>4, <2>7
<1>10. CASE reserve_entry(s, reject_entry(a).entry) /\ push_events(reject_entry(a).events)
  <2>1. SoundCall(a, reject_entry(a)) /\ reject_entry(a).entry.state = "CLOSING"
    BY Zenon, <1>7, RejectSound
  <2>2. Steady
    BY Zenon, <1>1, <1>10, <2>1, EndOrder, SteadyAt DEF reserve_entry
  <2>3. NewsKept
    BY Zenon, <1>1, <1>10, <2>1, PushNews DEF SoundCall
  <2> QED
    BY Zenon, <1>1, <2>2, <2>3, OrderKept
<1> QED
  BY Zenon, <1>2, <1>9, <1>10 DEF a, news

\* Every step keeps the pump list complete and the accepted sockets announced.
LEMMA OrderSteps ==
  ASSUME RuntimeInv, PumpInv, AcceptInv, [Next]_vars
  PROVE  PumpInv' /\ AcceptInv'
<1>1. Lasting /\ TableInv
  BY Zenon, RuntimeSteps DEF RuntimeInv, RuntimeStep, TableStep
<1>2. SUFFICES ASSUME ~(PumpInv' /\ AcceptInv')
               PROVE  FALSE
  BY Zenon
\* A steady step that keeps the news keeps the invariant.
<1>3. ~(Steady /\ NewsKept /\ UNCHANGED <<pump, phase>>)
  BY Zenon, <1>1, <1>2, OrderKept
<1>4. CASE UNCHANGED vars
  <2>1. UNCHANGED <<slots, events, published, pump, phase>>
    BY Zenon, <1>4 DEF vars, tableVars
  <2> QED
    BY Zenon, <1>3, <2>1, SteadySame, SameNews
<1>5. CASE \E t \in Threads : OpenCall(t) \/ ThreadStep(t)
  <2>1. events' = events /\ published \subseteq published' /\ UNCHANGED <<pump, phase>>
    BY ZenonT(30), <1>5 DEF OpenCall, runtime_listen, runtime_connect, runtime_udp, runtime_bind,
       Reserve, ThreadStep, ClaimFd, SubmitOpen, ReturnId, Discard, Misuse, loopVars, ghostVars
  <2> QED
    BY Zenon, <1>3, <1>5, <2>1, OtherOrder, SameNews
<1>6. CASE ReserveFails \/ CallOnSocket \/ Exit
  <2>1. UNCHANGED <<slots, events, published, pump, phase>>
    BY ZenonT(30), <1>6 DEF ReserveFails, CallOnSocket, runtime_start, runtime_pause,
       runtime_nodelay, runtime_udp_connect, runtime_close, runtime_shutdown, runtime_send,
       runtime_udp_send, Request, Send, Exit, tableVars, loopVars, ghostVars
  <2> QED
    BY Zenon, <1>3, <2>1, SteadySame, SameNews
<1>7. CASE RunOnce \/ EndRun \/ BeginDrain \/ EndDrain \/ EndPump \/ PollExit
  <2>1. /\ UNCHANGED <<slots, events, published, pump>>
        /\ phase \in {"poll", "run", "drain", "pump"} /\ (phase = "drain" => phase' = "pump")
        /\ phase = "pump" => pump = << >>
    BY ZenonT(30), <1>7 DEF RunOnce, EndRun, BeginDrain, EndDrain, EndPump, PollExit, Goto, tableVars
  <2>2. phase # "released" /\ (phase' \in {phase, "pump"} \/ pump = << >>)
    BY <2>1 DEF PumpInv
  <2> QED
    BY Zenon, <1>1, <1>2, <2>1, <2>2, SteadySame, SameNews, OrderKept
<1>8. CASE PollEvent
  <2>1. /\ events \in Seq(Event) /\ events # << >> /\ events' = Tail(events)
        /\ published' = IF Head(events).type = "ACCEPT" THEN published \cup {Head(events).value}
                                                        ELSE published
        /\ UNCHANGED <<slots, pump, phase>>
    BY Zenon, <1>1, <1>8 DEF PollEvent, TableInv, tableVars, loopVars
  <2>2. NewsKept
    <3> SUFFICES ASSUME NEW id \in Int, Announced(id)
                 PROVE  Announced(id)'
      BY Zenon DEF NewsKept
    <3>1. CASE id \in published
      BY Zenon, <2>1, <3>1 DEF Announced
    <3>2. CASE \E i \in 1 .. Len(events) : events[i].type = "ACCEPT" /\ events[i].value = id
      <4>1. PICK i \in 1 .. Len(events) : events[i].type = "ACCEPT" /\ events[i].value = id
        BY Zenon, <3>2
      <4>2. CASE i = 1
        <5>1. Head(events) = events[i]
          BY <2>1, <4>2
        <5> QED
          BY Zenon, <2>1, <4>1, <5>1 DEF Announced
      <4>3. CASE i # 1
        <5>1. i - 1 \in 1 .. Len(events') /\ events'[i - 1] = events[i]
          BY <2>1, <4>3
        <5> QED
          BY Zenon, <4>1, <5>1 DEF Announced
      <4> QED
        BY Zenon, <4>2, <4>3
    <3> QED
      BY Zenon, <3>1, <3>2 DEF Announced
  <2> QED
    BY Zenon, <1>3, <2>1, <2>2, SteadySame
<1>9. CASE CommandStep
  <2>1. CASE ProcessSend
    <3>1. PumpInv' /\ NoneAccepted /\ NewsKept /\ UNCHANGED phase
      BY Zenon, <2>1, SendPumped
    <3> QED
      BY Zenon, <1>1, <1>2, <3>1, AcceptKept
  <2>2. CASE ProcessExit
    <3>1. UNCHANGED <<events, published, pump, phase>>
      BY Zenon, <2>2 DEF ProcessExit, Consume
    <3> QED
      BY Zenon, <1>3, <2>2, <3>1, OtherOrder, SameNews
  <2> QED
    BY Zenon, <1>3, <1>9, <2>1, <2>2, CommandOrder DEF CommandStep
<1>10. CASE PumpNext
  <2>1. PumpInv' /\ NoneAccepted /\ NewsKept /\ UNCHANGED phase
    BY Zenon, <1>10, PumpPumped
  <2> QED
    BY Zenon, <1>1, <1>2, <2>1, AcceptKept
<1>11. CASE \E s \in Slot : PeerStep(s) \/ RequestStep(s) \/ CloseEntry(s)
  <2>1. PICK s \in Slot : PeerStep(s) \/ RequestStep(s) \/ CloseEntry(s)
    BY <1>11
  <2>2. ~AcceptConnection(s)
    BY Zenon, <1>1, <1>2, AcceptOrder
  <2>3. ~AcceptStalls(s)
    <3> SUFFICES ASSUME AcceptStalls(s)
                 PROVE  FALSE
      BY Zenon
    <3>1. UNCHANGED <<events, published, pump, phase>>
      BY Zenon DEF AcceptStalls, loopVars
    <3> QED
      BY Zenon, <1>3, <3>1, OtherOrder, SameNews
  <2> QED
    BY Zenon, <1>3, <2>1, <2>2, <2>3, CallbackOrder DEF PeerStep, RequestStep
<1>12. CASE Release
  <2>1. UNCHANGED <<events, published, pump>> /\ phase \in {"poll", "done"}
    BY Zenon, <1>12 DEF Release
  <2>2. pump = << >> /\ phase # "released"
    BY <2>1 DEF PumpInv
  <2> QED
    BY Zenon, <1>1, <1>2, <1>12, <2>1, <2>2, OtherOrder, SameNews, OrderKept
<1>13. CASE Teardown
  <2>1. UNCHANGED <<slots, pump>> /\ phase = "release" /\ phase' = "released"
    BY Zenon, <1>13 DEF Teardown, tableVars
  <2>2. pump = << >>
    BY <2>1 DEF PumpInv
  <2> QED
    BY Zenon, <1>2, <2>1, <2>2 DEF PumpInv, AcceptInv
<1> QED
  BY Zenon, <1>4, <1>5, <1>6, <1>7, <1>8, <1>9, <1>10, <1>11, <1>12, <1>13 DEF Next, LoopStep

\* No socket waits, and none was accepted, at first.
LEMMA OrderInit == Init => PumpInv /\ AcceptInv
<1> SUFFICES ASSUME Init
             PROVE  PumpInv /\ AcceptInv
  OBVIOUS
<1>1. \A s \in Slot : slots[s] = NoEntry
  BY Zenon DEF Init
<1>2. ~Waits(NoEntry) /\ NoEntry.state # "ACCEPTED_PAUSED"
  BY DEF NoEntry, Waits
<1> QED
  BY Zenon, <1>1, <1>2 DEF Init, PumpInv, AcceptInv

\* The pump list is complete and the accepted sockets are announced in every behaviour.
LEMMA OrderInvariance == Spec => [](PumpInv /\ AcceptInv)
<1>1. Init => PumpInv /\ AcceptInv
  BY OrderInit
<1>2. RuntimeInv /\ (PumpInv /\ AcceptInv) /\ [Next]_vars => (PumpInv /\ AcceptInv)'
  BY OrderSteps
<1> QED
  BY <1>1, <1>2, RuntimeInvariance, PTL DEF Spec

\* Between two rounds of consume_commands a socket with queued writes has one in flight
\* (unless it is closing, or drains before), however many sockets send, fail, close and
\* are reused: the pump list misses none.
THEOREM WritesGoOn == Spec => []WritesMoveOn
<1>1. PumpInv => WritesMoveOn
  <2> SUFFICES ASSUME PumpInv, phase \notin {"drain", "pump"}, NEW s \in Slot, Waits(slots[s])
               PROVE  FALSE
    BY Zenon DEF WritesMoveOn, Waits, Occupied
  <2>1. pump = << >> /\ OnList(pump, s)
    BY Zenon DEF PumpInv
  <2> QED
    BY <2>1 DEF OnList
<1> QED
  BY <1>1, OrderInvariance, PTL

\* Unless memory runs out, the owner of a listening socket has been told of every accepted
\* socket it has not started, or finds its ACCEPT among the queued events.
THEOREM AcceptsAreAnnounced == Spec => []AcceptedIsAnnounced
<1>1. AcceptInv => AcceptedIsAnnounced
  BY Zenon DEF AcceptInv, AcceptedIsAnnounced, Occupied
<1> QED
  BY <1>1, OrderInvariance, PTL
=============================================================================
