--------------------------- MODULE SocketTableProofs ------------------------
(***************************************************************************)
(* The table of sockets stays consistent, for any number of slots,         *)
(* threads, owners, sizes and any bounds.  The inductive invariant         *)
(* RuntimeInv says of each slot that its entry is sound, has reported its  *)
(* end at most once and, unless the slot is empty, has the id made of the  *)
(* slot and its generation, and of any two slots that they do not hold the *)
(* same descriptor.  Here: the arithmetic of ids, what applying a handler  *)
(* to a slot and reserving a slot do to the table, the steps of the        *)
(* threads and the steps of the loop thread (poll, the commands, the pump  *)
(* list and libuv's callbacks), and last whom the buffers that a step      *)
(* moves were sent to.  The theorems are in SocketRuntimeProofs.           *)
(***************************************************************************)
EXTENDS SocketRuntime, SocketEntryProofs

\* Quotient and remainder of g * n + s by n are g and s (what masking and
\* shifting an identifier rest on).
LEMMA DivMod ==
  ASSUME NEW n \in Nat \ {0}, NEW g \in Nat, NEW s \in 0 .. n - 1
  PROVE  /\ (g * n + s) % n = s
         /\ (g * n + s) \div n = g
<1> DEFINE x == g * n + s
           q == x \div n
           r == x % n
<1>1. x \in Nat
  BY SMT
<1>2. q \in Int /\ r \in 0 .. n - 1 /\ x = n * q + r
  BY <1>1, SMT
<1>3. n * (g - q) = r - s
  BY <1>2, SMT
<1>4. g - q < 1
  BY <1>2, <1>3, SMT
<1>5. g - q > -1
  BY <1>2, <1>3, SMT
<1>6. g = q
  BY <1>2, <1>4, <1>5, SMT
<1> QED
  BY ZenonT(30), <1>2, <1>3, <1>6, SMT

\* skyuv_socket_id_next_generation stays within the 15 bits of a generation and
\* never yields 0, whatever it starts from (a fresh slot starts at 0).
THEOREM NextGenerationInRange ==
  \A g \in 0 .. GENERATION_MAX : next_generation(g) \in Generation
BY GenerationAssumption DEF next_generation, Generation

\* skyuv_socket_id_make on a slot of the table and a generation is positive (the
\* API treats every id <= 0 as invalid) and the two parts can be read back.
THEOREM IdRoundTrip ==
  \A s \in Slot, g \in Generation :
     /\ id_make(s, g) \in Nat \ {0}
     /\ id_slot(id_make(s, g)) = s
     /\ id_generation(id_make(s, g)) = g
<1> SUFFICES ASSUME NEW s \in Slot, NEW g \in Generation
             PROVE  /\ id_make(s, g) \in Nat \ {0}
                    /\ id_slot(id_make(s, g)) = s
                    /\ id_generation(id_make(s, g)) = g
  OBVIOUS
<1>1. s \in 0 .. SLOT_COUNT - 1 /\ g \in Nat \ {0} /\ g <= GENERATION_MAX
  BY GenerationAssumption DEF Slot, Generation
<1>2. id_make(s, g) = g * SLOT_COUNT + s
  BY <1>1, SlotCountAssumption, GenerationAssumption DEF id_make
<1>3. g * SLOT_COUNT + s \in Nat \ {0}
  BY <1>1, SlotCountAssumption
<1>4. (g * SLOT_COUNT + s) % SLOT_COUNT = s /\ (g * SLOT_COUNT + s) \div SLOT_COUNT = g
  BY ZenonT(30), <1>1, SlotCountAssumption, DivMod
<1>5. g % (GENERATION_MAX + 1) = g
  BY <1>1, GenerationAssumption, DivMod, 0 * (GENERATION_MAX + 1) + g = g
<1> QED
  BY <1>2, <1>3, <1>4, <1>5 DEF id_slot, id_generation
-----------------------------------------------------------------------------
SoundSlot(e, s, g) ==
  /\ Sound(e) /\ Told(e)
  /\ e.state # "INVALID" => e.id = id_make(s, g) /\ g \in Generation

\* No two slots of a table hold the same descriptor; an empty slot holds none.
OneHolder(table) ==
  \A r, s \in Slot :
     r # s /\ table[r].external_fd = table[s].external_fd => table[r].external_fd = -1

\* The state that the handlers of the loop thread and reservations change.
TableInv ==
  /\ slots \in [Slot -> Entry]
  /\ generations \in [Slot -> {0} \cup Generation]
  /\ next_slot \in Slot
  /\ entry_count \in Int
  /\ exit_ready \in BOOLEAN
  /\ events \in Seq(Event)
  /\ released \in [Buf -> Nat]
  /\ \A s \in Slot : SoundSlot(slots[s], s, generations[s])
  /\ OneHolder(slots)

\* A thread inside a call has an id.
CallInv(c) ==
  /\ c \in [Threads -> Call]
  /\ \A t \in Threads : c[t].at # "idle" => c[t].id # 0

\* The rest of the state.
ControlInv ==
  /\ queue \in Seq(Command) /\ accepting \in BOOLEAN
  /\ exiting \in BOOLEAN
  /\ pump \in Seq(Slot)
  /\ phase \in Phase
  /\ CallInv(calls)
  /\ published \subseteq Int
  /\ sent_to \in [Buf -> Int]
  /\ opens \in Nat /\ requests \in Nat /\ sends \in Nat
  /\ misuse \in {"none", "use after free", "double free"}

RuntimeInv == TableInv /\ ControlInv

\* What every step does: a slot that is occupied afterwards still holds the same
\* socket, with its end no further off, or was free.
Lasting ==
  \A s \in Slot : slots[s].state # "INVALID" =>
     slots'[s] = NoEntry \/ Continues(slots'[s], slots[s])

TableStep == TableInv' /\ Lasting

RuntimeStep == TableStep /\ ControlInv'
-----------------------------------------------------------------------------
\* Every id names a slot, and the successor of a slot is one.
LEMMA SlotOfId ==
  /\ \A id \in Int : id_slot(id) \in Slot
  /\ \A s \in Slot : (s + 1) % SLOT_COUNT \in Slot
  /\ 0 \in Slot /\ Slot \subseteq Int
BY SlotCountAssumption DEF id_slot, Slot

\* The id reserve_entry gives a slot.
LEMMA NewIdTyped ==
  ASSUME TableInv, NEW s \in Slot
  PROVE  next_generation(generations[s]) \in Generation /\ NewId(s) \in Nat \ {0}
<1>1. generations[s] \in 0 .. GENERATION_MAX
  BY GenerationAssumption DEF TableInv, Generation
<1>2. next_generation(generations[s]) \in Generation
  BY <1>1, NextGenerationInRange
<1> QED
  BY <1>2, IdRoundTrip DEF NewId

\* Events that push_event keeps are typed if the pushed ones are.
LEMMA PushTyped ==
  ASSUME events \in Seq(Event), NEW pushed \in Seq(Event), push_events(pushed)
  PROVE  events' \in Seq(Event)
<1>1. PICK kept \in Kept(pushed) : events' = events \o kept
  BY DEF push_events
<1>2. << >> \in Seq(Event) /\ \A i \in 1 .. Len(pushed) : <<pushed[i]>> \in Seq(Event)
  OBVIOUS
<1>3. kept = << >> \/ kept = pushed \/ \E i \in 1 .. Len(pushed) : kept = <<pushed[i]>>
  BY DEF Kept
<1>4. kept \in Seq(Event)
  BY <1>2, <1>3, Zenon
<1> QED
  BY <1>1, <1>4

\* Counting releases.
LEMMA ReleaseTyped ==
  ASSUME released \in [Buf -> Nat], NEW buffers, release_buffers(buffers)
  PROVE  released' \in [Buf -> Nat]
BY DEF release_buffers

\* A step after which each slot holds the descriptor it held before, or none.
LEMMA HolderKept ==
  ASSUME OneHolder(slots),
         \A s \in Slot : slots'[s].external_fd \in {slots[s].external_fd, -1}
  PROVE  OneHolder(slots')
BY DEF OneHolder

\* A step that leaves the slots alone.
LEMMA LastingSame == slots' = slots => Lasting
BY DEF Lasting, Continues

\* The initial state.
LEMMA RuntimeInit == Init => RuntimeInv
<1> SUFFICES ASSUME Init
             PROVE  RuntimeInv
  OBVIOUS
<1>1. TableInv
  <2>1. Sound(NoEntry) /\ NoEntry.state = "INVALID" /\ NoEntry \in Entry
    BY NewEntries DEF NoEntry, Sound
  <2>2. \A s \in Slot : SoundSlot(slots[s], s, generations[s])
    BY ZenonT(30), <2>1, NewTold DEF Init, SoundSlot
  <2>3. OneHolder(slots)
    BY NewEntries DEF Init, OneHolder
  <2> QED
    BY <2>1, <2>2, <2>3, SlotOfId DEF Init, TableInv
<1>2. NoCall \in Call /\ NoCall.at = "idle"
  BY DEF NoCall, Call, OpenType
<1>3. ControlInv
  <2>1. queue = << >> /\ queue \in Seq(Command) /\ pump \in Seq(Slot)
    BY DEF Init, queue_init
  <2>2. CallInv(calls) /\ sent_to \in [Buf -> Int]
    BY <1>2 DEF Init, CallInv
  <2>3. phase \in Phase /\ accepting \in BOOLEAN /\ exiting \in BOOLEAN
    BY Zenon DEF Init, queue_init, Phase
  <2> QED
    BY <2>1, <2>2, <2>3 DEF Init, ControlInv
<1> QED
  BY <1>1, <1>3 DEF RuntimeInv

\* A handler that was sound for the entry of slot s keeps the table.
LEMMA ApplyStep ==
  ASSUME TableInv, exiting \in BOOLEAN, NEW s \in Slot, NEW did,
         SoundCall(slots[s], did), Told(did.entry),
         slots[s].state # "INVALID" \/ did.entry = NoEntry,
         Apply(s, did)
  PROVE  TableStep
<1>1. Sound(did.entry) /\ did.entry \in Entry /\ did.events \in Seq(Event)
  BY DEF SoundCall, Sound
<1>2. slots' = [slots EXCEPT ![s] = did.entry] /\ generations' = generations
      /\ next_slot' = next_slot
  BY DEF Apply
<1>3. slots' \in [Slot -> Entry]
  BY ZenonT(30), <1>1, <1>2 DEF TableInv
<1>4. \A r \in Slot : SoundSlot(slots'[r], r, generations'[r])
  <2> SUFFICES ASSUME NEW r \in Slot
               PROVE  SoundSlot(slots'[r], r, generations'[r])
    OBVIOUS
  <2>1. SoundSlot(slots[r], r, generations[r])
    BY ZenonT(30) DEF TableInv
  <2>2. CASE r # s
    BY ZenonT(30), <1>2, <2>1, <2>2 DEF TableInv
  <2>3. CASE r = s
    <3>1. slots'[r] = did.entry
      BY ZenonT(30), <1>2, <2>3 DEF TableInv
    <3>2. CASE did.entry = NoEntry
      <4>1. NoEntry.state = "INVALID"
        BY Zenon DEF NoEntry
      <4> QED
        BY Zenon, <1>1, <3>1, <3>2, <4>1, NewTold DEF SoundSlot
    <3>3. CASE did.entry # NoEntry
      BY ZenonT(30), <1>1, <1>2, <2>1, <2>3, <3>1, <3>3 DEF SoundSlot, SoundCall, SameSocket, Continues
    <3> QED
      BY <3>2, <3>3
  <2> QED
    BY ZenonT(30), <2>2, <2>3
<1>5. entry_count' \in Int
  <2>1. entry_count \in Int
    BY Zenon DEF TableInv
  <2>2. entry_count' = entry_count \/ entry_count' = entry_count - 1
    BY Zenon DEF Apply
  <2> QED
    BY <2>1, <2>2
<1>6. exit_ready' \in BOOLEAN
  <2>1. exit_ready' = exit_ready \/ exit_ready' = (exit_ready \/ (exiting /\ entry_count' = 0))
    BY ZenonT(30) DEF Apply, update_exit_ready
  <2> QED
    BY <2>1, Zenon DEF TableInv
<1>7. events' \in Seq(Event)
  BY ZenonT(30), <1>1, PushTyped DEF Apply, TableInv
<1>8. released' \in [Buf -> Nat]
  BY ReleaseTyped DEF Apply, TableInv
<1>9. OneHolder(slots')
  <2>1. did.entry.external_fd \in {slots[s].external_fd, -1}
    BY NewEntries DEF SoundCall, SameSocket, Continues
  <2>2. \A r \in Slot : slots'[r].external_fd \in {slots[r].external_fd, -1}
    BY ZenonT(30), <1>2, <2>1 DEF TableInv
  <2> QED
    BY ZenonT(30), <2>2, HolderKept DEF TableInv
<1>10. Lasting
  BY ZenonT(30), <1>2 DEF TableInv, Lasting, SoundCall, SameSocket, Continues
<1> QED
  BY ZenonT(30), <1>2, <1>3, <1>4, <1>5, <1>6, <1>7, <1>8, <1>9, <1>10 DEF TableInv, TableStep

\* A handler that found no entry changes the events and the buffers only.
LEMMA ApplyToNoneStep ==
  ASSUME TableInv, NEW did, did.events \in Seq(Event), ApplyToNone(did)
  PROVE  TableStep
<1>1. events' \in Seq(Event) /\ released' \in [Buf -> Nat]
  BY PushTyped, ReleaseTyped DEF ApplyToNone, TableInv
<1> QED
  BY <1>1, LastingSame DEF ApplyToNone, TableInv, TableStep, tableVars

\* find_entry yields a sound entry: that of the id's slot, or none.
LEMMA FoundSound ==
  ASSUME TableInv, NEW id \in Int
  PROVE  /\ Sound(find_entry(id)) /\ Told(find_entry(id))
         /\ find_entry(id) # NoEntry =>
              find_entry(id) = slots[id_slot(id)] /\ find_entry(id).state # "INVALID"
BY SlotOfId, NewEntries, NewTold, Zenon DEF TableInv, SoundSlot, Sound, find_entry

\* The handler of a command keeps the table.
LEMMA HandleStep ==
  ASSUME TableInv, exiting \in BOOLEAN, queue \in Seq(Command), queue # << >>, NEW did,
         SoundCall(find_entry(Head(queue).id), did), Told(did.entry), Handle(did)
  PROVE  TableStep
<1> DEFINE id == Head(queue).id
<1>1. id \in Int /\ id_slot(id) \in Slot
  <2>1. Head(queue) \in Command
    OBVIOUS
  <2>2. id \in Int
    BY <2>1 DEF Command
  <2> QED
    BY <2>2, SlotOfId
<1> HIDE DEF id
<1>2. CASE find_entry(id) = NoEntry
  <2>1. ApplyToNone(did) /\ did.events \in Seq(Event)
    BY <1>2 DEF Handle, id, SoundCall
  <2> QED
    BY <2>1, ApplyToNoneStep
<1>3. CASE find_entry(id) # NoEntry
  <2>1. find_entry(id) = slots[id_slot(id)] /\ slots[id_slot(id)].state # "INVALID"
    BY <1>1, <1>3, FoundSound
  <2>2. Apply(id_slot(id), did) /\ SoundCall(slots[id_slot(id)], did)
    BY <1>3, <2>1 DEF Handle, id
  <2> QED
    BY ZenonT(30), <1>1, <2>1, <2>2, ApplyStep
<1> QED
  BY ZenonT(30), <1>2, <1>3
-----------------------------------------------------------------------------
\* Steps that leave the table alone.
LEMMA TableSame ==
  ASSUME TableInv, UNCHANGED <<tableVars, exit_ready, events, released>>
  PROVE  TableStep
BY LastingSame DEF TableInv, TableStep, tableVars

\* Steps that leave the rest of the state alone.
LEMMA ControlSame ==
  ASSUME ControlInv, UNCHANGED <<queue, accepting, loopVars, published, threadVars>>
  PROVE  ControlInv'
BY Zenon DEF ControlInv, loopVars, threadVars, countVars

\* A command without a buffer is a command.
LEMMA CommandTyped ==
  ASSUME NEW type \in OpenType \cup RequestType \cup {"EXIT"}, NEW id \in Int, NEW opaque \in Nat
  PROVE  Command0(type, id, opaque) \in Command
BY DEF Command0, Command

LEMMA RequestTyped ==
  ASSUME NEW type \in OpenType \cup RequestType \cup {"EXIT"}, NEW id \in Int, NEW opaque \in Nat,
         NEW address \in Hosts(type)
  PROVE  /\ RequestCommand(type, id, opaque, address) \in Command
         /\ RequestCommand(type, id, opaque, address).type = type
         /\ RequestCommand(type, id, opaque, address).buf = 0
<1>1. address \in {"none", "good", "bad"}
  BY DEF Hosts
<1> QED
  BY <1>1 DEF RequestCommand, Command0, Command

\* reserve_entry puts a sound entry with the slot's new id into a free slot.
LEMMA ReserveStep ==
  ASSUME TableInv, NEW s \in Slot, NEW entry, Sound(entry), Told(entry), entry.id = NewId(s),
         entry.external_fd = -1, reserve_entry(s, entry), events' \in Seq(Event),
         UNCHANGED <<exit_ready, released>>
  PROVE  TableStep
<1>1. /\ slots' = [slots EXCEPT ![s] = entry]
      /\ generations' = [generations EXCEPT ![s] = next_generation(generations[s])]
      /\ next_slot' = (s + 1) % SLOT_COUNT
      /\ entry_count' = entry_count + 1
  BY DEF reserve_entry, TableInv
<1>2. next_generation(generations[s]) \in Generation /\ entry \in Entry
  BY NewIdTyped DEF Sound
<1>3. \A r \in Slot : SoundSlot(slots'[r], r, generations'[r])
  <2> SUFFICES ASSUME NEW r \in Slot
               PROVE  SoundSlot(slots'[r], r, generations'[r])
    OBVIOUS
  <2>1. CASE r # s
    BY ZenonT(30), <1>1, <2>1 DEF TableInv
  <2>2. CASE r = s
    <3>1. slots'[r] = entry /\ generations'[r] = next_generation(generations[s])
      BY <1>1, <2>2 DEF TableInv
    <3> QED
      BY ZenonT(30), <1>2, <2>2, <3>1 DEF SoundSlot, NewId
  <2> QED
    BY <2>1, <2>2
<1>4. slots' \in [Slot -> Entry] /\ generations' \in [Slot -> {0} \cup Generation]
  BY <1>1, <1>2 DEF TableInv
<1>5. next_slot' \in Slot /\ entry_count' \in Int
  BY <1>1, SlotOfId DEF TableInv
<1>6. OneHolder(slots')
  <2>1. \A r \in Slot : slots'[r].external_fd \in {slots[r].external_fd, -1}
    BY ZenonT(30), <1>1 DEF TableInv
  <2> QED
    BY <2>1, HolderKept DEF TableInv
<1>7. Lasting
  BY ZenonT(30), <1>1 DEF reserve_entry, FirstFree, Occupied, TableInv, Lasting, Continues
<1> QED
  BY <1>3, <1>4, <1>5, <1>6, <1>7 DEF TableInv, TableStep

\* A change of the entry of slot s that keeps it sound, its id and its being occupied.
LEMMA EntryStep ==
  ASSUME TableInv, NEW s \in Slot, NEW entry, Sound(entry), Told(entry), Continues(entry, slots[s]),
         slots[s].state # "INVALID", slots' = [slots EXCEPT ![s] = entry], OneHolder(slots'),
         UNCHANGED <<generations, next_slot, entry_count, exit_ready, events, released>>
  PROVE  TableStep
<1>1. entry \in Entry
  BY DEF Sound
<1>2. slots' \in [Slot -> Entry]
  BY <1>1 DEF TableInv
<1>3. \A r \in Slot : SoundSlot(slots'[r], r, generations'[r])
  <2> SUFFICES ASSUME NEW r \in Slot
               PROVE  SoundSlot(slots'[r], r, generations'[r])
    OBVIOUS
  <2>1. CASE r # s
    BY ZenonT(30), <2>1 DEF TableInv
  <2>2. CASE r = s
    <3>1. slots'[r] = entry /\ SoundSlot(slots[s], s, generations[s])
      BY ZenonT(30), <2>2 DEF TableInv
    <3> QED
      BY <2>2, <3>1 DEF SoundSlot, Continues
  <2> QED
    BY <2>1, <2>2
<1>4. Lasting
  BY DEF TableInv, Lasting, Continues
<1> QED
  BY ZenonT(30), <1>2, <1>3, <1>4 DEF TableInv, TableStep

\* The use of a freed entry is only recorded.
LEMMA MisuseStep ==
  ASSUME RuntimeInv, NEW valid, NEW what \in {"use after free", "double free"},
         Misuse(valid, what)
  PROVE  RuntimeStep
<1>1. TableStep
  BY TableSame, Zenon DEF RuntimeInv, Misuse
<1>2. ControlInv'
  BY Zenon DEF RuntimeInv, ControlInv, Misuse, loopVars, countVars
<1> QED
  BY <1>1, <1>2, Zenon DEF RuntimeStep

\* Reserve and ReserveFails.
LEMMA ReserveActions ==
  ASSUME RuntimeInv, (\E t \in Threads : OpenCall(t)) \/ ReserveFails
  PROVE  RuntimeStep
<1> USE DEF RuntimeInv, RuntimeStep
<1>1. CASE \E t \in Threads : OpenCall(t)
  <2>1. PICK t \in Threads, type \in OpenType, fds \in {{-1}, Fds} : Reserve(t, type, fds)
    BY <1>1 DEF OpenCall, runtime_listen, runtime_connect, runtime_udp, runtime_bind, OpenType
  <2>2. PICK opaque \in Owners, s \in Slot, fd \in fds :
            /\ reserve_entry(s, ReservedEntry(NewId(s), opaque))
            /\ calls' = [calls EXCEPT ![t] =
                           [at |-> IF type = "BIND" THEN "reserved" ELSE "ready",
                            type |-> type, id |-> NewId(s), opaque |-> opaque, fd |-> fd]]
    BY <2>1, Zenon DEF Reserve
  <2>4. /\ UNCHANGED <<queue, accepting, exit_ready, events, loopVars, ghostVars, requests, sends>>
        /\ opens' = opens + 1
    BY <2>1 DEF Reserve
  <2>5. NewId(s) \in Nat \ {0} /\ opaque \in Nat /\ fd \in Int
    BY <2>1, NewIdTyped, RuntimeAssumption
  <2>6. /\ Sound(ReservedEntry(NewId(s), opaque)) /\ Told(ReservedEntry(NewId(s), opaque))
        /\ ReservedEntry(NewId(s), opaque).id = NewId(s)
        /\ ReservedEntry(NewId(s), opaque).external_fd = -1
    BY SMTT(30), <2>5, NewEntries, NewTold
  <2>7. TableStep
    BY Zenon, <2>2, <2>4, <2>6, ReserveStep DEF TableInv, ghostVars
  <2>8. LET call == [at |-> IF type = "BIND" THEN "reserved" ELSE "ready",
                     type |-> type, id |-> NewId(s), opaque |-> opaque, fd |-> fd]
        IN  call \in Call /\ call.id # 0
    BY <2>5 DEF Call
  <2>9. CallInv(calls')
    BY <2>2, <2>8, Zenon DEF ControlInv, CallInv
  <2>10. ControlInv'
    <3>1. opens' \in Nat
      <4>1. opens \in Nat /\ opens' = opens + 1
        BY <2>4, Zenon DEF ControlInv
      <4> QED
        BY <4>1
    <3>2. UNCHANGED <<queue, accepting, exiting, pump, phase, published, sent_to, requests,
                      sends, misuse>>
      BY <2>4 DEF loopVars, ghostVars
    <3> QED
      BY <2>9, <3>1, <3>2, Zenon DEF ControlInv
  <2> QED
    BY ZenonT(30), <2>7, <2>10
<1>2. CASE ReserveFails
  <2>1. next_slot' \in Slot
    BY ZenonT(30), <1>2, SlotOfId DEF ReserveFails
  <2>2. TableStep
    BY ZenonT(30), <1>2, <2>1, LastingSame DEF ReserveFails, TableInv, TableStep, ghostVars
  <2>3. ControlInv'
    <3>1. opens' \in Nat
      <4>1. opens \in Nat /\ opens' = opens + 1
        BY <1>2, Zenon DEF ReserveFails, ControlInv
      <4> QED
        BY <4>1
    <3>2. UNCHANGED <<queue, accepting, exiting, pump, phase, calls, published, sent_to,
                      requests, sends, misuse>>
      BY <1>2 DEF ReserveFails, loopVars, ghostVars
    <3> QED
      BY <3>1, <3>2, Zenon DEF ControlInv
  <2> QED
    BY <2>2, <2>3
<1> QED
  BY <1>1, <1>2

\* A thread moves on within its call, or out of it.
LEMMA CallTyped ==
  ASSUME CallInv(calls), NEW t \in Threads, calls[t].at # "idle",
         NEW at \in {"ready", "submitted", "refused"}
  PROVE  /\ CallInv([calls EXCEPT ![t].at = at])
         /\ CallInv([calls EXCEPT ![t] = NoCall])
         /\ calls[t] \in Call /\ calls[t].id \in Int /\ id_slot(calls[t].id) \in Slot
<1>1. calls[t] \in Call
  BY DEF CallInv
<1>2. [calls[t] EXCEPT !.at = at] \in Call /\ NoCall \in Call /\ calls[t].id \in Int
  BY <1>1 DEF Call, NoCall, OpenType
<1>3. [calls[t] EXCEPT !.at = at].id = calls[t].id /\ NoCall.at = "idle"
  BY ZenonT(30), <1>1 DEF Call, NoCall
<1> QED
  BY ZenonT(30), <1>1, <1>2, <1>3, SlotOfId DEF CallInv

\* The entry a thread still has is the occupied one of its slot.
LEMMA HeldEntry ==
  ASSUME RuntimeInv, NEW t \in Threads, calls[t].at # "idle", HasEntry(t)
  PROVE  LET s == id_slot(calls[t].id) IN s \in Slot /\ Sound(slots[s]) /\ slots[s].state # "INVALID"
<1>1. id_slot(calls[t].id) \in Slot
  BY CallTyped, Zenon DEF RuntimeInv, ControlInv
<1>2. Sound(slots[id_slot(calls[t].id)])
  BY <1>1 DEF RuntimeInv, TableInv, SoundSlot
<1> QED
  <2>1. slots[id_slot(calls[t].id)].id # 0
    BY ZenonT(30) DEF HasEntry, RuntimeInv, ControlInv, CallInv
  <2>2. NoEntry.id = 0
    BY DEF NoEntry
  <2> QED
    BY <1>1, <1>2, <2>1, <2>2 DEF Sound

\* The control state after a step of thread t's call.
LEMMA CallStep ==
  ASSUME ControlInv, CallInv(calls'), queue' \in Seq(Command),
         accepting' \in BOOLEAN, published' \subseteq Int,
         UNCHANGED <<loopVars, sent_to, countVars, misuse>>
  PROVE  ControlInv'
BY Zenon DEF ControlInv, loopVars, countVars

\* ClaimFd changes the external descriptor of the thread's entry.
LEMMA ClaimFdStep ==
  ASSUME RuntimeInv, NEW t \in Threads, ClaimFd(t)
  PROVE  RuntimeStep
<1> DEFINE mine == id_slot(calls[t].id)
           held == [slots[mine] EXCEPT !.external_fd = calls[t].fd]
<1> USE DEF RuntimeInv, RuntimeStep
<1>1. CASE Misuse(HasEntry(t), "use after free")
  BY <1>1, MisuseStep, Zenon
<1>2. CASE ~Misuse(HasEntry(t), "use after free")
  <2>1. /\ HasEntry(t)
        /\ \/ calls' = [calls EXCEPT ![t].at = "refused"] /\ UNCHANGED slots
           \/ /\ ~\E s \in Occupied \ {mine} : slots[s].external_fd = calls[t].fd
              /\ calls' = [calls EXCEPT ![t].at = "ready"]
              /\ slots' = [slots EXCEPT ![mine].external_fd = calls[t].fd]
        /\ UNCHANGED <<queue, accepting, generations, next_slot, entry_count, exit_ready,
                       events, loopVars, ghostVars, countVars>>
    BY <1>2, Zenon DEF ClaimFd
  <2>2. CallInv(calls') /\ mine \in Slot /\ calls[t].fd \in Int
    <3>1. CallInv(calls) /\ calls[t].at # "idle"
      BY Zenon DEF ClaimFd, ControlInv
    <3>2. calls[t] \in Call /\ mine \in Slot
      BY <3>1, CallTyped, Zenon
    <3> QED
      BY <2>1, <3>1, <3>2, CallTyped, Zenon DEF Call
  <2> HIDE DEF mine
  <2>3. ControlInv'
    BY <2>1, <2>2, CallStep, Zenon DEF ControlInv, ghostVars
  <2>4. slots[mine] \in Entry /\ Sound(slots[mine]) /\ Told(slots[mine])
    BY <2>2 DEF TableInv, SoundSlot
  <2>5. held \in Entry
    BY <2>2, <2>4, Zenon DEF Entry
  <2>6. held.id = slots[mine].id /\ held.state = slots[mine].state
        /\ held.uv_closes = slots[mine].uv_closes /\ held.external_fd = calls[t].fd
        /\ Told(held) /\ Continues(held, slots[mine])
    BY Zenon, <2>4, SameTold DEF Entry, Continues
  <2> HIDE DEF held
  <2>7. CASE UNCHANGED slots
    <3>1. UNCHANGED <<tableVars, exit_ready, events, released>>
      BY <2>1, <2>7 DEF tableVars, ghostVars
    <3> QED
      BY <2>3, <3>1, TableSame
  <2>8. CASE /\ slots' = [slots EXCEPT ![mine].external_fd = calls[t].fd]
             /\ ~\E s \in Occupied \ {mine} : slots[s].external_fd = calls[t].fd
    <3>1. slots' = [slots EXCEPT ![mine] = held]
      BY <2>8 DEF held
    <3>2. slots[mine].state # "INVALID"
      BY <2>1, HeldEntry, Zenon DEF ClaimFd, mine
    <3>3. Sound(held)
      BY ZenonT(30), <2>4, <2>5, <2>6, <3>2 DEF Sound
    <3>4. UNCHANGED <<generations, next_slot, entry_count, exit_ready, events, released>>
      BY ZenonT(30), <2>1 DEF ghostVars
    <3>5. ASSUME NEW s \in Slot, s # mine, slots[s].external_fd = calls[t].fd
          PROVE  slots[s].external_fd = -1
      <4>1. slots[s].state = "INVALID"
        BY ZenonT(30), <2>8, <3>5 DEF Occupied
      <4> QED
        BY ZenonT(30), <4>1, NewEntries DEF TableInv, SoundSlot, Sound
    <3>6. OneHolder(slots')
      BY <2>2, <2>6, <3>1, <3>5 DEF OneHolder, TableInv
    <3>7. TableStep
      BY <2>2, <2>6, <3>1, <3>2, <3>3, <3>4, <3>6, EntryStep, Zenon
    <3> QED
      BY <2>3, <3>7
  <2> QED
    BY ZenonT(30), <2>1, <2>3, <2>7, <2>8
<1> QED
  BY <1>1, <1>2, Zenon

\* SubmitOpen appends a command to the queue, or has it refused.
LEMMA SubmitOpenStep ==
  ASSUME RuntimeInv, NEW t \in Threads, SubmitOpen(t)
  PROVE  RuntimeStep
<1> DEFINE command == Command0(calls[t].type, calls[t].id, calls[t].opaque)
<1> USE DEF RuntimeInv, RuntimeStep
<1>1. CASE Misuse(HasEntry(t), "use after free")
  BY <1>1, MisuseStep, Zenon
<1>2. CASE ~Misuse(HasEntry(t), "use after free")
  <2>1. /\ \/ queue_push(command) /\ calls' = [calls EXCEPT ![t].at = "submitted"]
           \/ calls' = [calls EXCEPT ![t].at = "refused"] /\ UNCHANGED <<queue, accepting>>
        /\ UNCHANGED <<tableVars, exit_ready, events, loopVars, ghostVars, countVars>>
    BY <1>2, Zenon DEF SubmitOpen
  <2>2. CallInv(calls) /\ calls[t].at # "idle" /\ queue \in Seq(Command) /\ accepting \in BOOLEAN
        /\ published \subseteq Int
    BY Zenon DEF SubmitOpen, ControlInv
  <2>3. CallInv(calls') /\ calls[t] \in Call
    BY <2>1, <2>2, CallTyped, Zenon
  <2>4. command \in Command
    BY <2>3, CommandTyped DEF Call
  <2> HIDE DEF command
  <2>5. queue' \in Seq(Command) /\ accepting' \in BOOLEAN
    BY <2>1, <2>2, <2>4 DEF queue_push
  <2>6. ControlInv'
    BY ZenonT(30), <2>1, <2>2, <2>3, <2>5, CallStep DEF ghostVars
  <2>7. TableStep
    BY <2>1, TableSame DEF ghostVars
  <2> QED
    BY <2>6, <2>7
<1> QED
  BY <1>1, <1>2, Zenon

\* ReturnId publishes the id.
LEMMA ReturnIdStep ==
  ASSUME RuntimeInv, NEW t \in Threads, ReturnId(t)
  PROVE  RuntimeStep
<1> USE DEF RuntimeInv, RuntimeStep
<1>1. CASE Misuse(HasEntry(t), "use after free")
  BY <1>1, MisuseStep, Zenon
<1>2. CASE ~Misuse(HasEntry(t), "use after free")
  <2>1. /\ published' = published \cup {calls[t].id}
        /\ calls' = [calls EXCEPT ![t] = NoCall]
        /\ UNCHANGED <<queue, accepting, tableVars, exit_ready, events, loopVars, released,
                       sent_to, countVars, misuse>>
    BY <1>2, Zenon DEF ReturnId
  <2>2. CallInv(calls) /\ calls[t].at # "idle" /\ queue \in Seq(Command) /\ accepting \in BOOLEAN
        /\ published \subseteq Int
    BY Zenon DEF ReturnId, ControlInv
  <2>3. CallInv(calls') /\ calls[t].id \in Int
    BY <2>1, <2>2, CallTyped, Zenon
  <2>4. published' \subseteq Int
    BY <2>1, <2>2, <2>3, Zenon
  <2>5. ControlInv'
    BY ZenonT(30), <2>1, <2>2, <2>3, <2>4, CallStep
  <2>6. TableStep
    BY <2>1, TableSame
  <2> QED
    BY <2>5, <2>6
<1> QED
  BY <1>1, <1>2, Zenon

\* Discard empties the slot the thread reserved.
LEMMA DiscardStep ==
  ASSUME RuntimeInv, NEW t \in Threads, Discard(t)
  PROVE  RuntimeStep
<1> DEFINE s == id_slot(calls[t].id)
<1> USE DEF RuntimeInv, RuntimeStep
<1>1. CASE Misuse(OwnsEntry(t), "double free")
  BY <1>1, MisuseStep, Zenon
<1>2. CASE ~Misuse(OwnsEntry(t), "double free")
  <2>1. /\ discard_uninitialized_entry(s)
        /\ calls' = [calls EXCEPT ![t] = NoCall]
        /\ UNCHANGED <<queue, accepting, events, loopVars, ghostVars, countVars>>
    BY <1>2, Zenon DEF Discard
  <2>2. CallInv(calls) /\ calls[t].at # "idle" /\ queue \in Seq(Command) /\ accepting \in BOOLEAN
        /\ published \subseteq Int
    BY Zenon DEF Discard, ControlInv
  <2>3. CallInv(calls') /\ s \in Slot
    BY <2>1, <2>2, CallTyped, Zenon
  <2> HIDE DEF s
  <2>4. ControlInv'
    BY ZenonT(30), <2>1, <2>2, <2>3, CallStep DEF ghostVars
  <2>5. Sound(NoEntry) /\ NoEntry \in Entry /\ NoEntry.state = "INVALID"
    BY Zenon, NewEntries DEF Sound, NoEntry
  <2>6. /\ slots' = [slots EXCEPT ![s] = NoEntry] /\ entry_count' = entry_count - 1
        /\ exit_ready' = (exit_ready \/ (exiting /\ entry_count' = 0))
        /\ UNCHANGED <<generations, next_slot, events, released>>
    BY <2>1 DEF discard_uninitialized_entry, update_exit_ready, ghostVars
  <2>7. slots' \in [Slot -> Entry]
        /\ \A r \in Slot : SoundSlot(slots'[r], r, generations'[r])
    BY <2>5, <2>6, NewTold, Zenon DEF TableInv, SoundSlot
  <2>8. exit_ready' \in BOOLEAN
    BY <2>6, Zenon DEF TableInv, ControlInv
  <2>9. entry_count' \in Int
    BY <2>6 DEF TableInv
  <2>10. OneHolder(slots')
    <3>1. \A r \in Slot : slots'[r].external_fd \in {slots[r].external_fd, -1}
      BY ZenonT(30), <2>3, <2>6, NewEntries DEF TableInv
    <3> QED
      BY ZenonT(30), <3>1, HolderKept DEF TableInv
  <2>11. Lasting
    BY <2>3, <2>6 DEF TableInv, Lasting, Continues
  <2>12. TableStep
    BY <2>6, <2>7, <2>8, <2>9, <2>10, <2>11 DEF TableInv, TableStep
  <2> QED
    BY <2>4, <2>12
<1> QED
  BY <1>1, <1>2, Zenon

\* The calls that act on a socket append a command to the queue.
LEMMA RequestStepKeeps ==
  ASSUME RuntimeInv, NEW type \in RequestType, NEW opaques \in SUBSET Nat, Request(type, opaques)
  PROVE  RuntimeStep
<1> USE DEF RuntimeInv, RuntimeStep
<1>1. queue \in Seq(Command) /\ published \subseteq Int /\ requests \in Nat
  BY Zenon DEF ControlInv
<1>2. PICK id \in published, opaque \in opaques, address \in Hosts(type) :
        queue_push(RequestCommand(type, id, opaque, address))
  BY DEF Request
<1>3. RequestCommand(type, id, opaque, address) \in Command
  BY <1>1, RequestTyped
<1>4. queue' \in Seq(Command) /\ accepting' = accepting
  BY <1>1, <1>2, <1>3 DEF queue_push
<1>5. /\ UNCHANGED <<tableVars, exit_ready, events, loopVars, calls, ghostVars, opens, sends>>
      /\ requests' = requests + 1
  BY DEF Request
<1>6. requests' \in Nat
  BY <1>1, <1>5
<1>7. UNCHANGED <<accepting, exiting, pump, phase, calls, published, sent_to, opens, sends, misuse>>
  BY <1>4, <1>5 DEF loopVars, ghostVars
<1>8. ControlInv'
  BY Zenon, <1>4, <1>6, <1>7 DEF ControlInv
<1>9. TableStep
  BY <1>5, TableSame DEF ghostVars
<1> QED
  BY <1>8, <1>9

\* The calls that send append a command with a buffer.
LEMMA SendStepKeeps ==
  ASSUME RuntimeInv, NEW type \in RequestType, NEW addresses \in SUBSET {"none", "good", "bad"},
         Send(type, addresses)
  PROVE  RuntimeStep
<1> USE DEF RuntimeInv, RuntimeStep
<1>1. queue \in Seq(Command) /\ published \subseteq Int /\ sends \in Nat
  BY Zenon DEF ControlInv
<1>2. PICK id \in published, size \in Sizes, address \in addresses :
        /\ queue_push([Command0(type, id, 0) EXCEPT !.buf = sends + 1, !.size = size,
                                                    !.address = address])
        /\ sent_to' = [sent_to EXCEPT ![sends + 1] = id]
  BY Zenon DEF Send
<1>3. id \in Int /\ size \in Nat /\ address \in {"none", "good", "bad"} /\ sends + 1 \in Nat
  BY <1>1, RuntimeAssumption
<1> DEFINE command == [Command0(type, id, 0) EXCEPT !.buf = sends + 1, !.size = size,
                                                    !.address = address]
<1>4. command \in Command
  BY Zenon, <1>3 DEF Command0, Command
<1>5. queue_push(command) /\ sent_to' = [sent_to EXCEPT ![sends + 1] = id]
  BY <1>2
<1> HIDE DEF command
<1>6. queue' \in Seq(Command) /\ accepting' = accepting
  BY <1>1, <1>4, <1>5 DEF queue_push
<1>7. /\ UNCHANGED <<tableVars, exit_ready, events, loopVars, calls, published, released, opens,
                     requests, misuse>>
      /\ sends' = sends + 1
  BY DEF Send
<1>8. sent_to' \in [Buf -> Int]
  BY Zenon, <1>3, <1>5 DEF ControlInv
<1>9. UNCHANGED <<accepting, exiting, pump, phase, calls, published, opens, requests, misuse>>
  BY <1>6, <1>7 DEF loopVars
<1>10. ControlInv'
  BY ZenonT(30), <1>3, <1>6, <1>7, <1>8, <1>9 DEF ControlInv
<1>11. TableStep
  BY <1>7, TableSame
<1> QED
  BY <1>10, <1>11

\* All calls on sockets, and exit, which appends EXIT.
LEMMA SubmitActions ==
  ASSUME RuntimeInv, CallOnSocket \/ Exit
  PROVE  RuntimeStep
<1> USE DEF RuntimeInv, RuntimeStep
<1>1. CASE \E type \in RequestType, opaques \in {Owners, {0}} : Request(type, opaques)
  <2>1. Owners \in SUBSET Nat /\ {0} \in SUBSET Nat
    BY RuntimeAssumption
  <2> QED
    BY ZenonT(30), <1>1, <2>1, RequestStepKeeps
<1>2. CASE \E type \in RequestType, addresses \in {Addresses, {"none"}} : Send(type, addresses)
  <2>1. Addresses \in SUBSET {"none", "good", "bad"} /\ {"none"} \in SUBSET {"none", "good", "bad"}
    BY RuntimeAssumption
  <2> QED
    BY <1>2, <2>1, SendStepKeeps
<1>3. CASE Exit
  <2>1. /\ accepting' = FALSE /\ queue' = Append(queue, Command0("EXIT", 0, 0))
        /\ UNCHANGED <<tableVars, exit_ready, events, loopVars, calls, ghostVars, countVars>>
    BY <1>3 DEF Exit, queue_stop
  <2>2. Command0("EXIT", 0, 0) \in Command
    BY CommandTyped
  <2>3. queue \in Seq(Command)
    BY Zenon DEF ControlInv
  <2>4. queue' \in Seq(Command)
    BY <2>1, <2>2, <2>3
  <2>5. ControlInv'
    BY Zenon, <2>1, <2>4, CallStep DEF ghostVars, ControlInv
  <2>6. TableStep
    BY <2>1, TableSame DEF ghostVars
  <2> QED
    BY <2>5, <2>6
<1>4. CASE CallOnSocket
  <2>1. {"START", "PAUSE", "NODELAY", "UDP_CONNECT", "CLOSE", "SHUTDOWN", "SEND", "SEND_LOW",
         "UDP_SEND"} = RequestType
    BY DEF RequestType
  <2> QED
    BY <1>1, <1>2, <1>4, <2>1 DEF CallOnSocket, runtime_start, runtime_pause, runtime_nodelay,
       runtime_udp_connect, runtime_close, runtime_shutdown, runtime_send, runtime_udp_send
<1> QED
  BY <1>3, <1>4
-----------------------------------------------------------------------------
\* The steps of poll and of entering and leaving uv_run and consume_commands.
LEMMA PollActions ==
  ASSUME RuntimeInv,
         RunOnce \/ EndRun \/ BeginDrain \/ EndDrain \/ EndPump \/ PollEvent \/ PollExit
  PROVE  RuntimeStep
<1> USE DEF RuntimeInv, RuntimeStep
<1>1. ASSUME NEW from, NEW to \in Phase, Goto(from, to)
      PROVE  RuntimeStep
  <2>1. TableStep
    BY <1>1, TableSame DEF Goto
  <2>2. ControlInv'
    BY <1>1, Zenon DEF Goto, ControlInv, threadVars, countVars
  <2> QED
    BY <2>1, <2>2
<1>2. CASE RunOnce \/ EndRun \/ BeginDrain \/ EndDrain \/ EndPump
  <2>1. \E to \in {"run", "poll", "drain", "pump"} : \E from : Goto(from, to)
    BY <1>2 DEF RunOnce, EndRun, BeginDrain, EndDrain, EndPump
  <2> QED
    BY <1>1, <2>1 DEF Phase
<1>3. CASE PollEvent
  <2>1. events' = Tail(events) /\ events # << >> /\ events \in Seq(Event)
    BY <1>3 DEF PollEvent, TableInv
  <2>2. events' \in Seq(Event) /\ Head(events) \in Event
    BY <2>1
  <2>3. published' \subseteq Int
    BY <1>3, <2>2, Zenon DEF PollEvent, ControlInv, Event
  <2>4. UNCHANGED <<queue, accepting, tableVars, exit_ready, loopVars, released, threadVars>>
    BY <1>3 DEF PollEvent
  <2>5. TableStep
    BY ZenonT(30), <2>2, <2>4, LastingSame DEF TableInv, TableStep, tableVars
  <2>6. ControlInv'
    BY <2>3, <2>4, Zenon DEF ControlInv, loopVars, threadVars, countVars
  <2> QED
    BY ZenonT(30), <2>5, <2>6
<1>4. CASE PollExit
  <2>1. TableStep
    BY <1>4, LastingSame, Zenon DEF PollExit, TableInv, TableStep, tableVars
  <2>2. ControlInv'
    BY <1>4, Zenon DEF PollExit, ControlInv, threadVars, countVars, Phase
  <2> QED
    BY <2>1, <2>2
<1> QED
  BY <1>2, <1>3, <1>4

\* The control state after a command was popped, whatever its handler did.
LEMMA ConsumeStep ==
  ASSUME ControlInv, NEW types, Consume(types), exiting' \in BOOLEAN, pump' \in Seq(Slot)
  PROVE  /\ ControlInv'
         /\ queue \in Seq(Command) /\ queue # << >> /\ Head(queue) \in Command
         /\ exiting \in BOOLEAN
<1>1. queue \in Seq(Command) /\ queue # << >> /\ queue' = Tail(queue) /\ accepting' = accepting
  BY Zenon DEF ControlInv, Consume, queue_pop
<1>2. queue' \in Seq(Command) /\ Head(queue) \in Command
  BY <1>1
<1>3. UNCHANGED <<accepting, phase, published, calls, sent_to, opens, requests, sends, misuse>>
  BY <1>1 DEF Consume, threadVars, countVars
<1> QED
  BY <1>1, <1>2, <1>3, Zenon DEF ControlInv

\* What a command's entry is: sound, whether found or not.
LEMMA FoundByCommand ==
  ASSUME TableInv, queue \in Seq(Command), queue # << >>
  PROVE  /\ Sound(find_entry(Head(queue).id)) /\ Told(find_entry(Head(queue).id))
         /\ Head(queue) \in Command
<1>1. Head(queue) \in Command
  OBVIOUS
<1>2. Head(queue).id \in Int
  BY SMTT(30), <1>1 DEF Command
<1> QED
  BY <1>1, <1>2, FoundSound

\* The results of libuv calls are Boolean, the outcomes of opening are outcomes.
LEMMA ResultsTyped ==
  /\ Results \subseteq BOOLEAN
  /\ UvOutcomes \subseteq OpenOutcome
  /\ \A e : SendResults(e) \subseteq BOOLEAN
BY RuntimeAssumption, Zenon DEF Results, SendResults

\* The commands other than EXIT.
LEMMA CommandActions ==
  ASSUME RuntimeInv,
         \/ ProcessListen \/ ProcessConnect \/ ProcessBind \/ ProcessUdp
         \/ ProcessStart \/ ProcessPause \/ ProcessNodelay \/ ProcessSend
         \/ ProcessUdpSend \/ ProcessUdpConnect \/ ProcessClose
  PROVE  RuntimeStep
<1> DEFINE e == find_entry(Head(queue).id)
<1> USE DEF RuntimeInv, RuntimeStep
<1>1. PICK types : Consume(types)
  BY Zenon DEF ProcessListen, ProcessConnect, ProcessBind, ProcessUdp, ProcessStart,
     ProcessPause, ProcessNodelay, ProcessSend, ProcessUdpSend, ProcessUdpConnect, ProcessClose
<1>2. exiting' = exiting /\ (ProcessSend \/ pump' = pump)
  BY Zenon DEF ProcessListen, ProcessConnect, ProcessBind, ProcessUdp, ProcessStart,
     ProcessPause, ProcessNodelay, ProcessSend, ProcessUdpSend, ProcessUdpConnect, ProcessClose
<1>3. queue \in Seq(Command) /\ queue # << >> /\ exiting \in BOOLEAN /\ pump \in Seq(Slot)
  BY <1>1, Zenon DEF Consume, ControlInv
<1>4. Sound(e) /\ Told(e) /\ Head(queue) \in Command
  BY <1>3, FoundByCommand
<1>5. pump' \in Seq(Slot)
  <2>1. CASE ProcessSend
    <3>1. id_slot(Head(queue).id) \in Slot
      BY <1>4, SlotOfId DEF Command
    <3>2. pump' = Append(pump, id_slot(Head(queue).id)) \/ pump' = pump
      BY <2>1, Zenon DEF ProcessSend
    <3> QED
      BY <1>3, <3>1, <3>2
  <2> QED
    BY ZenonT(30), <1>2, <1>3, <2>1
<1>6. ControlInv'
  BY ZenonT(30), <1>1, <1>2, <1>3, <1>5, ConsumeStep
<1> HIDE DEF e
<1>7. \E did : SoundCall(e, did) /\ Told(did.entry) /\ Handle(did)
  <2>1. CASE ProcessListen \/ ProcessConnect \/ ProcessBind \/ ProcessUdp
    BY ZenonT(30), <1>4, <2>1, OpenSound, OpenTold, ResultsTyped
       DEF ProcessListen, ProcessConnect, ProcessBind, ProcessUdp, e
  <2>2. CASE ProcessStart \/ ProcessPause \/ ProcessNodelay
    BY ZenonT(30), <1>4, <2>2, StartSound, StartTold, PauseSound, PauseTold, UnchangedSound,
       ResultsTyped
       DEF ProcessStart, ProcessPause, ProcessNodelay, e, Unchanged, Did
  <2>3. CASE ProcessSend
    <3>1. PICK ok \in SendResults(e) : Handle(process_send(e, Head(queue), ok))
      BY <2>3, Zenon DEF ProcessSend, e
    <3>2. ok \in BOOLEAN
      BY SMTT(30), ResultsTyped
    <3> QED
      BY Zenon, <1>4, <3>1, <3>2, SendSound, SendTold
  <2>4. CASE ProcessUdpSend
    <3>1. PICK ok \in SendResults(e) : Handle(process_udp_send(e, Head(queue), ok))
      BY <2>4 DEF ProcessUdpSend, e
    <3>2. ok \in BOOLEAN
      BY ResultsTyped
    <3> QED
      BY ZenonT(30), <1>4, <3>1, <3>2, UdpSendSound, SendTold
  <2>5. CASE ProcessUdpConnect \/ ProcessClose
    <3>1. CASE ProcessUdpConnect
      <4> DEFINE ok == (Head(queue).address = "good")
      <4>1. Handle(process_udp_connect(e, ok))
        BY Zenon, <3>1 DEF ProcessUdpConnect, e
      <4>2. ok \in BOOLEAN
        BY Zenon
      <4> HIDE DEF ok
      <4> QED
        BY ZenonT(30), <1>4, <4>1, <4>2, UdpConnectSound, SendTold
    <3>2. CASE ProcessClose
      <4>1. Handle(process_close(e, Head(queue)))
        BY Zenon, <3>2 DEF ProcessClose, e
      <4> QED
        BY Zenon, <1>4, <4>1, ProcessCloseSound, ProcessCloseTold
    <3> QED
      BY ZenonT(30), <2>5, <3>1, <3>2
  <2> QED
    BY ZenonT(30), <2>1, <2>2, <2>3, <2>4, <2>5
<1>8. TableStep
  BY ZenonT(30), <1>3, <1>7, HandleStep DEF e
<1> QED
  BY <1>6, <1>8

\* The second loop of consume_commands.
LEMMA PumpNextStep ==
  ASSUME RuntimeInv, PumpNext
  PROVE  RuntimeStep
<1> DEFINE s == Head(pump)
<1> USE DEF RuntimeInv, RuntimeStep
<1>1. /\ pump # << >> /\ pump' = Tail(pump) /\ pump \in Seq(Slot) /\ exiting \in BOOLEAN
      /\ UNCHANGED <<queue, accepting, exiting, phase, published, threadVars>>
  BY Zenon DEF PumpNext, ControlInv
<1>2. s \in Slot /\ pump' \in Seq(Slot)
  BY <1>1
<1>3. PICK ok \in Results :
        Apply(s, IF slots[s].state = "CLOSING" THEN Unchanged(slots[s])
                                               ELSE pump_write(slots[s], ok))
  BY DEF PumpNext
<1> HIDE DEF s
<1>4. Sound(slots[s]) /\ Told(slots[s]) /\ Told(Unchanged(slots[s]).entry) /\ ok \in BOOLEAN
  BY <1>2, ResultsTyped DEF TableInv, SoundSlot, Unchanged, Did
<1>5. ControlInv'
  BY <1>1, <1>2, Zenon DEF ControlInv, threadVars, countVars
<1>6. CASE slots[s].state = "CLOSING"
  BY ZenonT(30), <1>1, <1>2, <1>3, <1>4, <1>5, <1>6, UnchangedSound, ApplyStep
<1>7. CASE slots[s].state \notin {"CLOSING", "INVALID"}
  BY ZenonT(30), <1>1, <1>2, <1>3, <1>4, <1>5, <1>7, PumpWriteSound, PumpWriteTold, ApplyStep
<1>8. CASE slots[s].state = "INVALID"
  <2>1. slots[s] = NoEntry
    BY <1>4, <1>8 DEF Sound
  <2>2. pump_write(slots[s], ok) = Unchanged(slots[s])
    BY SMTT(30), <2>1 DEF pump_write, NoEntry
  <2>3. Apply(s, Unchanged(slots[s])) /\ Unchanged(slots[s]).entry = NoEntry
    BY ZenonT(30), <1>3, <1>8, <2>1, <2>2 DEF Unchanged, Did
  <2> QED
    BY ZenonT(30), <1>1, <1>2, <1>4, <1>5, <2>3, UnchangedSound, ApplyStep
<1> QED
  BY <1>6, <1>7, <1>8
-----------------------------------------------------------------------------
\* A callback that is sound for the occupied slot it is about.
LEMMA CallbackStep ==
  ASSUME RuntimeInv, NEW s \in Slot, slots[s].state # "INVALID", NEW did,
         SoundCall(slots[s], did), Told(did.entry), Callback(s, did)
  PROVE  RuntimeStep
<1>1. TableStep
  BY ApplyStep, Zenon DEF RuntimeInv, ControlInv, Callback
<1>2. ControlInv'
  BY ZenonT(30), ControlSame DEF RuntimeInv, Callback
<1> QED
  BY <1>1, <1>2 DEF RuntimeStep

\* A slot whose entry waits for a callback is occupied.
LEMMA Awaiting ==
  ASSUME RuntimeInv, NEW s \in Slot,
         \/ slots[s].reading \/ slots[s].connecting \/ slots[s].writing # << >>
         \/ slots[s].udp_writes # {} \/ slots[s].uv_closes > 0
         \/ slots[s].state \in {"UDP", "LISTENING"}
  PROVE  slots[s].state # "INVALID"
<1>1. slots[s].state = "INVALID" => slots[s] = NoEntry
  BY Zenon DEF RuntimeInv, TableInv, SoundSlot, Sound
<1>2. /\ NoEntry.reading = FALSE /\ NoEntry.connecting = FALSE /\ NoEntry.writing = << >>
      /\ NoEntry.udp_writes = {} /\ NoEntry.state = "INVALID"
  BY Zenon DEF NoEntry
<1>3. NoEntry.uv_closes = 0 /\ ~(0 > 0)
  <2>1. NoEntry.uv_closes = 0
    BY Zenon DEF NoEntry
  <2> QED
    BY <2>1
<1> QED
  BY Zenon, <1>1, <1>2, <1>3

\* The callbacks of an entry that do not reserve another one.
LEMMA CallbackActions ==
  ASSUME RuntimeInv, NEW s \in Slot,
         \/ ReadCompleted(s) \/ UdpReceived(s) \/ AcceptFails(s) \/ ConnectCompleted(s)
         \/ WriteCompleted(s) \/ UdpWriteCompleted(s) \/ CloseEntry(s)
  PROVE  RuntimeStep
<1> DEFINE e == slots[s]
<1>1. Sound(e) /\ Told(e)
  BY SMTT(30) DEF RuntimeInv, TableInv, SoundSlot
<1>2. e.state # "INVALID"
  BY ZenonT(30), Awaiting DEF ReadCompleted, UdpReceived, AcceptFails, ConnectCompleted,
     WriteCompleted, UdpWriteCompleted, CloseEntry
<1>3. SUFFICES \E did : SoundCall(e, did) /\ Told(did.entry) /\ Callback(s, did)
  BY ZenonT(30), <1>2, CallbackStep
<1>4. CASE ReadCompleted(s)
  BY ZenonT(30), <1>1, <1>2, <1>4, ReadCompletedSound, ReadCompletedTold DEF ReadCompleted, Polled
<1>5. CASE UdpReceived(s)
  BY ZenonT(30), <1>1, <1>2, <1>5, UdpReceivedSound, UdpReceivedTold DEF UdpReceived
<1>6. CASE AcceptFails(s)
  <2>1. 0 \in Int
    OBVIOUS
  <2>2. EventOf("ERROR", e, 0) \in Event
    BY Zenon, <1>1, <2>1, EventsTyped DEF Sound, EventType
  <2> QED
    BY ZenonT(30), <1>1, <1>6, <2>2, ReportSound DEF AcceptFails, Did
<1>7. CASE ConnectCompleted(s)
  BY ZenonT(30), <1>1, <1>2, <1>7, ConnectCompletedSound, ConnectCompletedTold DEF ConnectCompleted
<1>8. CASE WriteCompleted(s)
  <2>1. PICK ok \in Results, pump_ok \in Results : Callback(s, write_completed(e, ok, pump_ok))
    BY ZenonT(30), <1>8 DEF WriteCompleted
  <2>2. ok \in BOOLEAN /\ pump_ok \in BOOLEAN /\ e.writing # << >>
    BY ZenonT(30), <1>8, ResultsTyped DEF WriteCompleted
  <2> QED
    BY ZenonT(30), <1>1, <1>2, <2>1, <2>2, WriteCompletedSound, WriteCompletedTold
<1>9. CASE UdpWriteCompleted(s)
  BY ZenonT(30), <1>1, <1>2, <1>9, UdpWriteCompletedSound, UdpWriteCompletedTold, ResultsTyped
     DEF UdpWriteCompleted
<1>10. CASE CloseEntry(s)
  BY ZenonT(30), <1>1, <1>10, ExitSound, ExitTold DEF CloseEntry
<1> QED
  BY ZenonT(30), <1>4, <1>5, <1>6, <1>7, <1>8, <1>9, <1>10

\* accept_connection reserves an entry for the connection, closed again if uv_accept fails.
LEMMA AcceptConnectionStep ==
  ASSUME RuntimeInv, NEW l \in Slot, AcceptConnection(l)
  PROVE  RuntimeStep
<1> USE DEF RuntimeInv, RuntimeStep
<1>1. /\ slots[l].state = "LISTENING"
      /\ UNCHANGED <<queue, accepting, exit_ready, loopVars, published, released, threadVars>>
  BY Zenon DEF AcceptConnection
<1>2. ControlInv'
  BY ZenonT(30), <1>1, ControlSame
<1>3. PICK s \in Slot :
        \/ /\ reserve_entry(s, Accepted(s, slots[l].opaque))
           /\ push_events(<<AcceptEvent(l, Accepted(s, slots[l].opaque))>>)
        \/ /\ reserve_entry(s, reject_entry(Accepted(s, slots[l].opaque)).entry)
           /\ push_events(reject_entry(Accepted(s, slots[l].opaque)).events)
  BY ZenonT(30) DEF AcceptConnection
<1> DEFINE a == Accepted(s, slots[l].opaque)
           r == ReservedEntry(NewId(s), slots[l].opaque)
<1>4. NewId(s) \in Int /\ slots[l] \in Entry /\ slots[l].opaque \in Nat /\ slots[l].id \in Int
  <2>1. slots[l] \in Entry
    BY DEF TableInv
  <2>2. NewId(s) \in Nat \ {0}
    BY ZenonT(30), NewIdTyped
  <2> QED
    BY <2>1, <2>2, EntryFields
<1>5. r \in Entry /\ r.id = NewId(s) /\ r.state = "RESERVED" /\ r.uv_closes = 0
      /\ r.external_fd = -1 /\ r.reading = FALSE /\ r.connecting = FALSE /\ r.terminals = 0
  <2>1. Sound(r) /\ r.id = NewId(s) /\ r.state = "RESERVED" /\ r.external_fd = -1
    BY ZenonT(30), <1>4, NewEntries
  <2>2. r.uv_closes = 0 /\ r.reading = FALSE /\ r.connecting = FALSE /\ r.terminals = 0
    BY DEF ReservedEntry, NoEntry
  <2> QED
    BY Zenon, <2>1, <2>2 DEF Sound
<1>6. a = [r EXCEPT !.initialized = TRUE, !.state = "ACCEPTED_PAUSED"]
  BY DEF Accepted
<1> HIDE DEF r
<1>7. "ACCEPTED_PAUSED" \in State
  BY DEF State
<1>8. a \in Entry
  BY <1>5, <1>6, <1>7, Zenon DEF Entry
<1>9. a.id = NewId(s) /\ a.state = "ACCEPTED_PAUSED" /\ a.uv_closes = 0
      /\ a.external_fd = -1 /\ a.reading = FALSE /\ a.connecting = FALSE /\ a.terminals = 0
  BY <1>5, <1>6 DEF Entry
<1> HIDE DEF a
<1>10. Sound(a) /\ Told(a)
  BY <1>8, <1>9 DEF Sound, Told
<1>11. SoundCall(a, reject_entry(a)) /\ reject_entry(a).entry.state = "CLOSING"
  BY <1>8, RejectSound
<1>12. Sound(reject_entry(a).entry) /\ reject_entry(a).entry.id = NewId(s)
       /\ reject_entry(a).entry.external_fd = -1 /\ Told(reject_entry(a).entry)
       /\ reject_entry(a).events \in Seq(Event)
  <2>1. NoEntry.state = "INVALID"
    BY ZenonT(30) DEF NoEntry
  <2>2. reject_entry(a).entry # NoEntry
    BY ZenonT(30), <1>11, <2>1
  <2>3. Told(reject_entry(a).entry)
    BY ZenonT(30), <1>9, <1>10, RejectTold
  <2> QED
    BY <1>9, <1>11, <2>2, <2>3, Zenon DEF SoundCall, SameSocket, Continues
<1>13. <<AcceptEvent(l, a)>> \in Seq(Event)
  <2>1. AcceptEvent(l, a) \in Event
    BY Zenon, <1>4, <1>9, EventsTyped DEF AcceptEvent, EventType
  <2> QED
    BY <2>1
<1>14. CASE reserve_entry(s, a) /\ push_events(<<AcceptEvent(l, a)>>)
  <2>1. events' \in Seq(Event)
    BY <1>13, <1>14, PushTyped, Zenon DEF TableInv
  <2> QED
    BY Zenon, <1>1, <1>2, <1>9, <1>10, <1>14, <2>1, ReserveStep
<1>15. CASE reserve_entry(s, reject_entry(a).entry) /\ push_events(reject_entry(a).events)
  <2>1. events' \in Seq(Event)
    BY Zenon, <1>12, <1>15, PushTyped DEF TableInv
  <2> QED
    BY ZenonT(30), <1>1, <1>2, <1>12, <1>15, <2>1, ReserveStep
<1> QED
  BY Zenon, <1>3, <1>14, <1>15 DEF a

\* A connection that is not accepted changes the listener, and may use up a generation
\* of a slot that stays free.
LEMMA AcceptStallsStep ==
  ASSUME RuntimeInv, NEW l \in Slot, AcceptStalls(l)
  PROVE  RuntimeStep
<1> DEFINE stalled == [slots[l] EXCEPT !.unaccepted = TRUE]
<1> USE DEF RuntimeInv, RuntimeStep
<1>1. /\ slots[l].state = "LISTENING" /\ slots' = [slots EXCEPT ![l] = stalled]
      /\ UNCHANGED <<queue, accepting, entry_count, exit_ready, events, loopVars, published,
                     released, threadVars>>
  BY DEF AcceptStalls
<1>2. ControlInv'
  BY <1>1, ControlSame
<1>3. slots[l] \in Entry /\ Sound(slots[l]) /\ Told(slots[l])
  BY DEF TableInv, SoundSlot
<1>4. stalled \in Entry
  BY <1>3, Zenon DEF Entry
<1>5. stalled.id = slots[l].id /\ stalled.state = slots[l].state
      /\ stalled.uv_closes = slots[l].uv_closes /\ stalled.external_fd = slots[l].external_fd
      /\ Told(stalled) /\ Continues(stalled, slots[l])
  BY ZenonT(30), <1>3, SameTold DEF Entry, Continues
<1> HIDE DEF stalled
<1>6. Sound(stalled)
  BY ZenonT(30), <1>1, <1>3, <1>4, <1>5 DEF Sound
<1>7. next_slot' \in Slot
  BY SMTT(30), SlotOfId DEF AcceptStalls, TableInv
<1>8. \/ generations' = generations
      \/ \E s \in Slot : /\ s \notin Occupied
                         /\ generations' = [generations EXCEPT ![s] = next_generation(@)]
  BY DEF AcceptStalls, FirstFree
<1>9. generations' \in [Slot -> {0} \cup Generation]
      /\ \A r \in Occupied : generations'[r] = generations[r]
  <2>1. CASE generations' = generations
    BY <2>1 DEF TableInv
  <2>2. CASE generations' # generations
    <3>1. PICK s \in Slot : /\ s \notin Occupied
                            /\ generations' = [generations EXCEPT ![s] = next_generation(@)]
      BY <1>8, <2>2
    <3>2. next_generation(generations[s]) \in Generation
      BY NewIdTyped
    <3>3. \A r \in Occupied : r \in Slot
      BY DEF Occupied
    <3> QED
      BY ZenonT(30), <3>1, <3>2, <3>3 DEF TableInv
  <2> QED
    BY ZenonT(30), <2>1, <2>2
<1>10. slots' \in [Slot -> Entry]
  BY <1>1, <1>4 DEF TableInv
<1>11. ASSUME NEW r \in Slot
       PROVE  SoundSlot(slots'[r], r, generations'[r])
  <2>1. SoundSlot(slots[r], r, generations[r])
    BY SMTT(30) DEF TableInv
  <2>2. CASE r \notin Occupied
    <3>1. slots[r].state = "INVALID" /\ slots'[r] = slots[r]
      BY SMTT(30), <1>1, <2>2 DEF Occupied, TableInv
    <3> QED
      BY Zenon, <2>1, <3>1 DEF SoundSlot
  <2>3. CASE r \in Occupied
    <3>1. slots'[r] = IF r = l THEN stalled ELSE slots[r]
      BY <1>1 DEF TableInv
    <3> QED
      BY ZenonT(30), <1>5, <1>6, <1>9, <2>1, <2>3, <3>1 DEF SoundSlot
  <2> QED
    BY ZenonT(30), <2>2, <2>3
<1>12. OneHolder(slots')
  <2>1. \A r \in Slot : slots'[r].external_fd \in {slots[r].external_fd, -1}
    BY ZenonT(30), <1>1, <1>5 DEF TableInv
  <2> QED
    BY ZenonT(30), <2>1, HolderKept DEF TableInv
<1>13. Lasting
  BY ZenonT(30), <1>1, <1>5 DEF TableInv, Lasting, Continues
<1>14. TableStep
  BY ZenonT(30), <1>1, <1>7, <1>9, <1>10, <1>11, <1>12, <1>13 DEF TableInv, TableStep
<1> QED
  BY ZenonT(30), <1>2, <1>14
-----------------------------------------------------------------------------
(***************************************************************************)
(* Which buffers an entry holds.  A step leaves a slot with buffers that   *)
(* its entry held before, or with that of the command it handles; the      *)
(* commands in the queue are for the sockets their buffers were sent to.   *)
(***************************************************************************)
Addressed(b, id) == b \in 1 .. sends /\ sent_to[b] = id

AddressInv ==
  /\ \A s \in Slot : \A b \in HeldBuffers(slots[s]) : Addressed(b, slots[s].id)
  /\ \A i \in 1 .. Len(queue) : queue[i].type \in SendType => Addressed(queue[i].buf, queue[i].id)

\* The buffer b of the command at the head of the queue is handed to socket id.
Delivers(b, id) ==
  queue # << >> /\ Head(queue).type \in SendType /\ b = Head(queue).buf /\ id = Head(queue).id

HeldStep ==
  \A s \in Slot : \A b \in HeldBuffers(slots'[s]) :
     \/ b \in HeldBuffers(slots[s]) /\ slots'[s].id = slots[s].id
     \/ Delivers(b, slots'[s].id)

\* A step that sends no buffer.
NothingSent ==
  /\ UNCHANGED <<sends, sent_to>>
  /\ \/ queue' = queue \/ queue' = << >>
     \/ queue # << >> /\ queue' = Tail(queue)
     \/ \E c \in Command : c.type \notin SendType /\ queue' = Append(queue, c)

\* Such a step keeps every buffer with the socket it was sent to.
LEMMA AddressKept ==
  ASSUME queue \in Seq(Command), AddressInv, HeldStep, NothingSent
  PROVE  AddressInv'
<1>1. sends' = sends /\ sent_to' = sent_to
  BY DEF NothingSent
<1>2. ASSUME NEW s \in Slot, NEW b \in HeldBuffers(slots'[s])
      PROVE  b \in 1 .. sends' /\ sent_to'[b] = slots'[s].id
  <2>1. CASE b \in HeldBuffers(slots[s]) /\ slots'[s].id = slots[s].id
    BY ZenonT(30), <1>1, <2>1 DEF AddressInv, Addressed
  <2>2. CASE Delivers(b, slots'[s].id)
    <3>1. queue # << >> /\ Head(queue) = queue[1] /\ 1 \in 1 .. Len(queue)
      BY <2>2 DEF Delivers
    <3> QED
      BY ZenonT(30), <1>1, <2>2, <3>1 DEF AddressInv, Addressed, Delivers
  <2> QED
    BY <2>1, <2>2 DEF HeldStep
<1>3. ASSUME NEW i \in 1 .. Len(queue'), queue'[i].type \in SendType
      PROVE  queue'[i].buf \in 1 .. sends' /\ sent_to'[queue'[i].buf] = queue'[i].id
  <2>1. \E j \in 1 .. Len(queue) : queue'[i] = queue[j]
    BY SMTT(30), <1>3 DEF NothingSent
  <2> QED
    BY <1>1, <1>3, <2>1 DEF AddressInv, Addressed
<1> QED
  BY Zenon, <1>2, <1>3 DEF AddressInv, Addressed

\* Steps that leave the slots alone, or free some of them.
LEMMA HeldSame ==
  ASSUME \A s \in Slot : slots'[s] = slots[s] \/ slots'[s] = NoEntry
  PROVE  HeldStep
BY ZenonT(30), NewHeld DEF HeldStep

\* A handler that is sound for the entry of slot s.
LEMMA HeldApply ==
  ASSUME TableInv, NEW s \in Slot, NEW did, SoundCall(slots[s], did), Apply(s, did),
         \A b \in HeldBuffers(did.entry) :
            b \in HeldBuffers(slots[s]) \/ Delivers(b, slots[s].id)
  PROVE  HeldStep
<1>1. slots' = [slots EXCEPT ![s] = did.entry] /\ slots \in [Slot -> Entry]
  BY SMTT(30) DEF Apply, TableInv
<1>2. did.entry = NoEntry \/ did.entry.id = slots[s].id
  BY Zenon DEF SoundCall, SameSocket, Continues
<1> QED
  BY ZenonT(30), <1>1, <1>2, NewHeld DEF HeldStep

\* A reservation.
LEMMA HeldReserve ==
  ASSUME TableInv, NEW s \in Slot, NEW entry, HeldBuffers(entry) = {}, reserve_entry(s, entry)
  PROVE  HeldStep
BY DEF reserve_entry, TableInv, HeldStep

\* The commands other than EXIT: only a send leaves its entry with another buffer.
LEMMA HeldCommands ==
  ASSUME RuntimeInv,
         \/ ProcessListen \/ ProcessConnect \/ ProcessBind \/ ProcessUdp
         \/ ProcessStart \/ ProcessPause \/ ProcessNodelay \/ ProcessSend
         \/ ProcessUdpSend \/ ProcessUdpConnect \/ ProcessClose
  PROVE  HeldStep
<1> DEFINE e == find_entry(Head(queue).id)
           s == id_slot(Head(queue).id)
           Only(did) == \A b \in HeldBuffers(did.entry) :
                           \/ b \in HeldBuffers(e)
                           \/ Head(queue).type \in SendType /\ b = Head(queue).buf
<1> USE DEF RuntimeInv
<1>1. queue # << >> /\ queue \in Seq(Command)
  BY ZenonT(30) DEF Consume, ControlInv, ProcessListen, ProcessConnect, ProcessBind, ProcessUdp,
     ProcessStart, ProcessPause, ProcessNodelay, ProcessSend, ProcessUdpSend,
     ProcessUdpConnect, ProcessClose
<1>2. Sound(e) /\ e \in Entry /\ Head(queue) \in Command /\ Head(queue).id \in Int /\ s \in Slot
  <2>1. Sound(e) /\ Head(queue) \in Command
    BY ZenonT(30), <1>1, FoundByCommand
  <2> QED
    BY ZenonT(30), <2>1, SlotOfId DEF Sound, Command
<1> HIDE DEF e
<1>3. \E did : SoundCall(e, did) /\ Handle(did) /\ Only(did)
  <2>1. CASE ProcessListen \/ ProcessConnect \/ ProcessBind \/ ProcessUdp
    BY ZenonT(30), <1>2, <2>1, OpenSound, OpenHeld, ResultsTyped
       DEF ProcessListen, ProcessConnect, ProcessBind, ProcessUdp, e
  <2>2. CASE ProcessStart \/ ProcessPause \/ ProcessNodelay
    <3>1. CASE ProcessStart
      BY Zenon, <1>2, <3>1, StartSound, StartHeld, ResultsTyped DEF ProcessStart, e
    <3>2. CASE ProcessPause
      BY Zenon, <1>2, <3>2, PauseSound, ControlHeld, ResultsTyped DEF ProcessPause, e
    <3>3. CASE ProcessNodelay
      <4>1. Unchanged(e).entry = e
        BY Zenon DEF Unchanged, Did
      <4> QED
        BY Zenon, <1>2, <3>3, <4>1, UnchangedSound DEF ProcessNodelay, e
    <3> QED
      BY <2>2, <3>1, <3>2, <3>3
  <2>3. CASE ProcessSend
    <3>1. PICK ok \in SendResults(e) : Handle(process_send(e, Head(queue), ok))
      BY <2>3, Zenon DEF ProcessSend, e
    <3>2. ok \in BOOLEAN /\ Head(queue).type \in SendType
      BY ZenonT(30), <2>3, ResultsTyped DEF ProcessSend, Consume, SendType
    <3> QED
      BY Zenon, <1>2, <3>1, <3>2, SendSound, SendHeld
  <2>4. CASE ProcessUdpSend
    <3>1. PICK ok \in SendResults(e) : Handle(process_udp_send(e, Head(queue), ok))
      BY ZenonT(30), <2>4 DEF ProcessUdpSend, e
    <3>2. ok \in BOOLEAN /\ Head(queue).type \in SendType
      BY SMTT(30), <2>4, ResultsTyped DEF ProcessUdpSend, Consume, SendType
    <3> QED
      BY ZenonT(30), <1>2, <3>1, <3>2, UdpSendSound, SendHeld
  <2>5. CASE ProcessUdpConnect
    <3> DEFINE ok == (Head(queue).address = "good")
    <3>1. Handle(process_udp_connect(e, ok))
      BY Zenon, <2>5 DEF ProcessUdpConnect, e
    <3>2. ok \in BOOLEAN
      BY Zenon
    <3> HIDE DEF ok
    <3> QED
      BY ZenonT(30), <1>2, <3>1, <3>2, UdpConnectSound, ControlHeld
  <2>6. CASE ProcessClose
    BY ZenonT(30), <1>2, <2>6, ProcessCloseSound, CloseCommandHeld DEF ProcessClose, e
  <2> QED
    BY ZenonT(30), <2>1, <2>2, <2>3, <2>4, <2>5, <2>6
<1>4. PICK did : SoundCall(e, did) /\ Handle(did) /\ Only(did)
  BY <1>3
<1>5. CASE e = NoEntry
  <2>1. slots' = slots
    BY ZenonT(30), <1>4, <1>5 DEF Handle, ApplyToNone, tableVars, e
  <2> QED
    BY SMTT(30), <2>1, HeldSame
<1>6. CASE e # NoEntry
  <2>1. e = slots[s] /\ slots[s].id = Head(queue).id
    BY ZenonT(30), <1>6 DEF e, find_entry
  <2>2. Apply(s, did)
    BY ZenonT(30), <1>4, <1>6 DEF Handle, e
  <2> QED
    BY ZenonT(30), <1>1, <1>2, <1>4, <2>1, <2>2, HeldApply DEF Delivers
<1> QED
  BY <1>5, <1>6

\* The second loop of consume_commands and the callbacks add none.
LEMMA HeldCallbacks ==
  ASSUME RuntimeInv,
         \/ PumpNext
         \/ \E s \in Slot :
              \/ ReadCompleted(s) \/ UdpReceived(s) \/ AcceptFails(s) \/ ConnectCompleted(s)
              \/ WriteCompleted(s) \/ UdpWriteCompleted(s) \/ CloseEntry(s)
  PROVE  HeldStep
<1> USE DEF RuntimeInv
<1>1. ASSUME NEW s \in Slot, NEW did, SoundCall(slots[s], did), Apply(s, did),
             HeldBuffers(did.entry) \subseteq HeldBuffers(slots[s])
      PROVE  HeldStep
  BY ZenonT(30), <1>1, HeldApply
<1>2. CASE PumpNext
  <2> DEFINE s == Head(pump)
  <2>1. s \in Slot
    <3>1. pump # << >> /\ pump \in Seq(Slot)
      BY <1>2, Zenon DEF PumpNext, ControlInv
    <3> QED
      BY <3>1
  <2>2. PICK ok \in Results :
          Apply(s, IF slots[s].state = "CLOSING" THEN Unchanged(slots[s])
                                                 ELSE pump_write(slots[s], ok))
    BY <1>2 DEF PumpNext
  <2> HIDE DEF s
  <2>3. Sound(slots[s]) /\ ok \in BOOLEAN
    BY ZenonT(30), <2>1, ResultsTyped DEF TableInv, SoundSlot
  <2>4. CASE slots[s].state = "CLOSING" \/ slots[s].state = "INVALID"
    <3>1. slots[s].state = "INVALID" => pump_write(slots[s], ok) = Unchanged(slots[s])
      BY SMTT(30), <2>3 DEF Sound, pump_write, NoEntry
    <3>2. Apply(s, Unchanged(slots[s])) /\ Unchanged(slots[s]).entry = slots[s]
      BY ZenonT(30), <2>2, <2>4, <3>1 DEF Unchanged, Did
    <3> QED
      BY ZenonT(30), <1>1, <2>1, <2>3, <3>2, UnchangedSound
  <2>5. CASE slots[s].state \notin {"CLOSING", "INVALID"}
    BY ZenonT(30), <1>1, <2>1, <2>2, <2>3, <2>5, PumpWriteSound, PumpHeld
  <2> QED
    BY <2>4, <2>5
<1>3. CASE ~PumpNext
  <2>1. PICK s \in Slot :
          \/ ReadCompleted(s) \/ UdpReceived(s) \/ AcceptFails(s) \/ ConnectCompleted(s)
          \/ WriteCompleted(s) \/ UdpWriteCompleted(s) \/ CloseEntry(s)
    BY <1>3
  <2> DEFINE e == slots[s]
  <2>2. Sound(e) /\ e \in Entry
    BY DEF TableInv, SoundSlot, Sound
  <2>3. e.state # "INVALID"
    BY Zenon, <2>1, Awaiting DEF ReadCompleted, UdpReceived, AcceptFails, ConnectCompleted,
       WriteCompleted, UdpWriteCompleted, CloseEntry
  <2>4. SUFFICES \E did : /\ SoundCall(e, did) /\ Callback(s, did)
                          /\ HeldBuffers(did.entry) \subseteq HeldBuffers(e)
    BY Zenon, <1>1 DEF Callback
  <2>5. CASE ReadCompleted(s)
    BY Zenon, <2>2, <2>3, <2>5, ReadCompletedSound, ReadHeld DEF ReadCompleted, Polled
  <2>6. CASE UdpReceived(s)
    BY ZenonT(30), <2>2, <2>3, <2>6, UdpReceivedSound, UdpHeld DEF UdpReceived
  <2>7. CASE AcceptFails(s)
    <3>1. EventOf("ERROR", e, 0) \in Event
      BY <2>2, EventsTyped DEF EventType
    <3> DEFINE did == Did(e, <<EventOf("ERROR", e, 0)>>, {})
    <3>2. SoundCall(e, did)
      BY <2>2, <3>1, ReportSound
    <3>3. Callback(s, did)
      BY <2>7, Zenon DEF AcceptFails
    <3>4. did.entry = e
      BY SMTT(30) DEF Did
    <3> HIDE DEF did
    <3> QED
      BY ZenonT(30), <3>2, <3>3, <3>4
  <2>8. CASE ConnectCompleted(s)
    BY ZenonT(30), <2>2, <2>3, <2>8, ConnectCompletedSound, ConnectHeld DEF ConnectCompleted
  <2>9. CASE WriteCompleted(s)
    <3>1. PICK ok \in Results, pump_ok \in Results : Callback(s, write_completed(e, ok, pump_ok))
      BY ZenonT(30), <2>9 DEF WriteCompleted
    <3>2. ok \in BOOLEAN /\ pump_ok \in BOOLEAN /\ e.writing # << >>
      BY Zenon, <2>9, ResultsTyped DEF WriteCompleted
    <3> QED
      BY ZenonT(30), <2>2, <2>3, <3>1, <3>2, WriteCompletedSound, WriteCompletedHeld
  <2>10. CASE UdpWriteCompleted(s)
    BY Zenon, <2>2, <2>3, <2>10, UdpWriteCompletedSound, UdpHeld, ResultsTyped DEF UdpWriteCompleted
  <2>11. CASE CloseEntry(s)
    BY Zenon, <2>2, <2>11, ExitSound, ControlHeld DEF CloseEntry
  <2> QED
    BY ZenonT(30), <2>1, <2>5, <2>6, <2>7, <2>8, <2>9, <2>10, <2>11
<1> QED
  BY ZenonT(30), <1>2, <1>3

\* Reservations: a new entry holds no buffer.
LEMMA HeldReservations ==
  ASSUME RuntimeInv,
         \/ \E t \in Threads : OpenCall(t)
         \/ \E l \in Slot : AcceptConnection(l)
  PROVE  HeldStep
<1>1. CASE \E t \in Threads : OpenCall(t)
  <2>1. \E s \in Slot, opaque \in Owners : reserve_entry(s, ReservedEntry(NewId(s), opaque))
    BY Zenon, <1>1 DEF OpenCall, runtime_listen, runtime_connect, runtime_udp, runtime_bind, Reserve
  <2> QED
    BY <2>1, NewHeld, HeldReserve DEF RuntimeInv
<1>2. CASE \E l \in Slot : AcceptConnection(l)
  <2>1. PICK l \in Slot : AcceptConnection(l)
    BY <1>2
  <2>2. PICK s \in Slot :
          \/ reserve_entry(s, Accepted(s, slots[l].opaque))
          \/ reserve_entry(s, reject_entry(Accepted(s, slots[l].opaque)).entry)
    BY ZenonT(30), <2>1 DEF AcceptConnection
  <2> DEFINE r == ReservedEntry(NewId(s), slots[l].opaque)
             a == Accepted(s, slots[l].opaque)
  <2>3. r \in Entry
    <3>1. slots[l] \in Entry /\ NewId(s) \in Nat \ {0}
      BY NewIdTyped DEF RuntimeInv, TableInv
    <3>2. slots[l].opaque \in Nat
      BY <3>1 DEF Entry
    <3>3. NewId(s) \in Int
      BY <3>1
    <3> QED
      BY Zenon, <3>2, <3>3, NewEntries DEF Sound
  <2>4. HeldBuffers(r) = {}
    BY NewHeld
  <2>5. a = [r EXCEPT !.initialized = TRUE, !.state = "ACCEPTED_PAUSED"]
    BY DEF Accepted
  <2> HIDE DEF r
  <2>6. a \in Entry
    <3>1. "ACCEPTED_PAUSED" \in State /\ TRUE \in BOOLEAN
      BY DEF State
    <3> QED
      BY <2>3, <2>5, <3>1, Zenon DEF Entry
  <2>7. HeldBuffers(a) = {}
    BY ZenonT(30), <2>3, <2>4, <2>5, SameHeld DEF Entry
  <2>8. HeldBuffers(reject_entry(a).entry) = {}
    BY <2>6, <2>7, CloseHeld
  <2> HIDE DEF a
  <2> QED
    BY <2>2, <2>7, <2>8, HeldReserve DEF RuntimeInv, a
<1> QED
  BY ZenonT(30), <1>1, <1>2

\* Steps that write one field of an entry, or close every handle.
LEMMA HeldOthers ==
  ASSUME RuntimeInv,
         \/ \E t \in Threads : ThreadStep(t)
         \/ \E l \in Slot : AcceptStalls(l)
         \/ ProcessExit \/ Release
  PROVE  HeldStep
<1> USE DEF RuntimeInv
<1>1. slots \in [Slot -> Entry]
  BY DEF TableInv
<1>2. CASE \E t \in Threads : ThreadStep(t)
  <2>1. PICK t \in Threads : ThreadStep(t)
    BY <1>2
  <2>2. id_slot(calls[t].id) \in Slot
    <3>1. calls \in [Threads -> Call]
      BY Zenon DEF ControlInv, CallInv
    <3> QED
      BY <3>1, SlotOfId DEF Call
  <2> DEFINE s == id_slot(calls[t].id)
             f == [slots[s] EXCEPT !.external_fd = calls[t].fd]
  <2>3. \/ slots' = slots
        \/ slots' = [slots EXCEPT ![s] = NoEntry]
        \/ slots' = [slots EXCEPT ![s] = f]
    BY Zenon, <2>1 DEF ThreadStep, ClaimFd, SubmitOpen, ReturnId, Discard,
       discard_uninitialized_entry, Misuse, tableVars
  <2>4. HeldBuffers(f) = HeldBuffers(slots[s]) /\ f.id = slots[s].id
    BY ZenonT(30), <1>1, <2>2, SameHeld DEF Entry
  <2> HIDE DEF f
  <2> QED
    BY <1>1, <2>2, <2>3, <2>4, NewHeld DEF HeldStep
<1>3. CASE \E l \in Slot : AcceptStalls(l)
  <2>1. PICK l \in Slot : slots' = [slots EXCEPT ![l].unaccepted = TRUE]
    BY Zenon, <1>3 DEF AcceptStalls
  <2> DEFINE f == [slots[l] EXCEPT !.unaccepted = TRUE]
  <2>2. HeldBuffers(f) = HeldBuffers(slots[l]) /\ f.id = slots[l].id
    BY ZenonT(30), <1>1, SameHeld DEF Entry
  <2>3. slots' = [slots EXCEPT ![l] = f]
    BY <2>1
  <2> HIDE DEF f
  <2> QED
    BY <1>1, <2>2, <2>3 DEF HeldStep
<1>4. CASE ProcessExit \/ Release
  <2> SUFFICES ASSUME NEW s \in Slot, NEW b \in HeldBuffers(slots'[s])
               PROVE  b \in HeldBuffers(slots[s]) /\ slots'[s].id = slots[s].id
    BY Zenon DEF HeldStep
  <2>1. slots'[s] = exit_entry(slots[s])
    BY Zenon, <1>4 DEF ProcessExit, Release
  <2>2. b \in HeldBuffers(slots[s]) /\ slots'[s] # NoEntry
    BY ZenonT(30), <1>1, <2>1, ControlHeld, NewHeld
  <2>3. SameSocket(exit_entry(slots[s]), slots[s])
    <3>1. Sound(slots[s])
      BY SMTT(30) DEF TableInv, SoundSlot
    <3> QED
      BY ZenonT(30), <2>1, <2>2, <3>1, ExitSound
  <2> QED
    BY SMTT(30), <2>1, <2>2, <2>3 DEF SameSocket, Continues
<1> QED
  BY <1>2, <1>3, <1>4

\* A buffer that is sent gets a number no other buffer has.
LEMMA SendAddressed ==
  ASSUME RuntimeInv, AddressInv, NEW type \in RequestType,
         NEW addresses \in SUBSET {"none", "good", "bad"}, Send(type, addresses)
  PROVE  AddressInv'
<1>1. PICK id \in published, size \in Sizes, address \in addresses :
        /\ queue' = Append(queue, [Command0(type, id, 0) EXCEPT !.buf = sends + 1, !.size = size,
                                                                !.address = address])
        /\ sent_to' = [sent_to EXCEPT ![sends + 1] = id]
  BY Zenon DEF Send, queue_push
<1>2. /\ sends \in Nat /\ sends < MaxSends /\ sends' = sends + 1
      /\ slots' = slots /\ queue \in Seq(Command) /\ sent_to \in [Buf -> Int] /\ MaxSends \in Nat
  BY Zenon, RuntimeAssumption DEF Send, RuntimeInv, ControlInv, tableVars
<1> DEFINE c == [Command0(type, id, 0) EXCEPT !.buf = sends + 1, !.size = size, !.address = address]
<1>3. c.buf = sends + 1 /\ c.id = id /\ c \in Command
  <2>1. published \subseteq Int /\ Sizes \subseteq Nat \ {0}
    BY RuntimeAssumption, Zenon DEF RuntimeInv, ControlInv
  <2>2. id \in Int /\ size \in Nat /\ address \in {"none", "good", "bad"} /\ sends + 1 \in Nat
    BY <1>2, <2>1
  <2> QED
    BY Zenon, <2>2 DEF c, Command0, Command
<1> HIDE DEF c
<1>4. \A b, to : Addressed(b, to) => b \in 1 .. sends' /\ sent_to'[b] = to
  BY <1>1, <1>2 DEF Addressed, Buf
<1>5. sends + 1 \in 1 .. sends' /\ sent_to'[sends + 1] = id
  BY SMTT(30), <1>1, <1>2 DEF Buf
<1>6. ASSUME NEW i \in 1 .. Len(queue'), queue'[i].type \in SendType
      PROVE  queue'[i].buf \in 1 .. sends' /\ sent_to'[queue'[i].buf] = queue'[i].id
  <2>1. queue' = Append(queue, c)
    BY SMTT(30), <1>1 DEF c
  <2>2. queue'[i] = c \/ (i \in 1 .. Len(queue) /\ queue'[i] = queue[i])
    BY SMTT(30), <1>2, <1>3, <2>1
  <2> QED
    BY Zenon, <1>3, <1>4, <1>5, <1>6, <2>2 DEF AddressInv
<1>7. \A s \in Slot : \A b \in HeldBuffers(slots'[s]) :
        b \in 1 .. sends' /\ sent_to'[b] = slots'[s].id
  BY Zenon, <1>2, <1>4 DEF AddressInv
<1> QED
  BY Zenon, <1>6, <1>7 DEF AddressInv, Addressed

\* A command that is neither a send nor EXIT, from a caller.
LEMMA RequestSendsNothing ==
  ASSUME RuntimeInv,
         \/ runtime_start \/ runtime_pause \/ runtime_nodelay \/ runtime_udp_connect
         \/ runtime_close \/ runtime_shutdown \/ Exit
  PROVE  NothingSent /\ slots' = slots
<1>1. PICK type \in {"START", "PAUSE", "NODELAY", "UDP_CONNECT", "CLOSE", "SHUTDOWN", "EXIT"},
           id \in published \cup {0}, opaque \in Owners \cup {0} :
        \/ queue' = Append(queue, Command0(type, id, opaque))
        \/ \E address \in Hosts(type) :
              queue' = Append(queue, RequestCommand(type, id, opaque, address))
  BY Zenon DEF runtime_start, runtime_pause, runtime_nodelay, runtime_udp_connect, runtime_close,
     runtime_shutdown, Request, Exit, queue_push, queue_stop
<1>2. UNCHANGED <<sends, sent_to>> /\ slots' = slots
  BY Zenon DEF runtime_start, runtime_pause, runtime_nodelay, runtime_udp_connect, runtime_close,
     runtime_shutdown, Request, Exit, tableVars, ghostVars, countVars
<1>3. /\ type \in OpenType \cup RequestType \cup {"EXIT"} /\ id \in Int /\ opaque \in Nat
      /\ type \notin SendType
  <2>1. published \subseteq Int /\ Owners \subseteq Nat
    BY RuntimeAssumption, Zenon DEF RuntimeInv, ControlInv
  <2> QED
    BY <2>1 DEF RequestType, SendType
<1>4. Command0(type, id, opaque) \in Command /\ Command0(type, id, opaque).type \notin SendType
  BY <1>3, CommandTyped DEF Command0
<1>5. ASSUME NEW address \in Hosts(type)
      PROVE  /\ RequestCommand(type, id, opaque, address) \in Command
             /\ RequestCommand(type, id, opaque, address).type \notin SendType
  BY Zenon, <1>3, RequestTyped
<1>6. PICK c \in Command : queue' = Append(queue, c) /\ c.type \notin SendType
  BY Zenon, <1>1, <1>4, <1>5
<1> QED
  BY <1>2, <1>6 DEF NothingSent

\* Every step keeps the buffers with the sockets they were sent to.
LEMMA AddressSteps ==
  ASSUME RuntimeInv, AddressInv, [Next]_vars
  PROVE  AddressInv'
<1>1. queue \in Seq(Command)
  BY Zenon DEF RuntimeInv, ControlInv
<1>2. CASE UNCHANGED vars
  <2>1. slots' = slots /\ NothingSent
    BY <1>2 DEF vars, tableVars, countVars, NothingSent
  <2> QED
    BY ZenonT(30), <1>1, <2>1, HeldSame, AddressKept
<1>3. CASE \E t \in Threads : OpenCall(t)
  <2>1. NothingSent
    BY Zenon, <1>3 DEF OpenCall, runtime_listen, runtime_connect, runtime_udp, runtime_bind,
       Reserve, ghostVars, NothingSent
  <2> QED
    BY <1>1, <1>3, <2>1, HeldReservations, AddressKept
<1>4. CASE \E t \in Threads : ThreadStep(t)
  <2>1. PICK t \in Threads : ThreadStep(t)
    BY <1>4
  <2>2. CASE SubmitOpen(t)
    <3> DEFINE c == Command0(calls[t].type, calls[t].id, calls[t].opaque)
    <3>1. UNCHANGED <<sends, sent_to>> /\ (queue' = queue \/ queue' = Append(queue, c))
      BY Zenon, <2>2 DEF SubmitOpen, queue_push, Misuse, ghostVars, countVars
    <3>2. calls[t] \in Call
      BY ZenonT(30) DEF RuntimeInv, ControlInv, CallInv
    <3>3. calls[t].type \in OpenType /\ calls[t].id \in Int /\ calls[t].opaque \in Nat
      BY Zenon, <3>2 DEF Call
    <3>4. c \in Command /\ c.type \notin SendType
      BY Zenon, <3>3, CommandTyped DEF Command0, OpenType, SendType
    <3> QED
      BY <1>1, <1>4, <3>1, <3>4, HeldOthers, AddressKept DEF NothingSent
  <2>3. CASE ClaimFd(t) \/ ReturnId(t) \/ Discard(t)
    <3>1. NothingSent
      BY ZenonT(30), <2>3 DEF ClaimFd, ReturnId, Discard, Misuse, ghostVars, countVars, NothingSent
    <3> QED
      BY <1>1, <1>4, <3>1, HeldOthers, AddressKept
  <2> QED
    BY <2>1, <2>2, <2>3 DEF ThreadStep
<1>5. CASE ReserveFails
  <2>1. slots' = slots /\ NothingSent
    BY <1>5 DEF ReserveFails, ghostVars, NothingSent
  <2> QED
    BY <1>1, <2>1, HeldSame, AddressKept
<1>6. CASE CallOnSocket \/ Exit
  <2>1. CASE runtime_send \/ runtime_udp_send
    <3>1. {"none"} \in SUBSET {"none", "good", "bad"} /\ Addresses \in SUBSET {"none", "good", "bad"}
      BY RuntimeAssumption
    <3>2. "SEND" \in RequestType /\ "SEND_LOW" \in RequestType /\ "UDP_SEND" \in RequestType
      BY DEF RequestType
    <3> QED
      BY SMTT(30), <2>1, <3>1, <3>2, SendAddressed DEF runtime_send, runtime_udp_send
  <2>2. CASE ~(runtime_send \/ runtime_udp_send)
    <3>1. NothingSent /\ slots' = slots
      BY <1>6, <2>2, RequestSendsNothing DEF CallOnSocket
    <3> QED
      BY <1>1, <3>1, HeldSame, AddressKept
  <2> QED
    BY <2>1, <2>2
<1>7. CASE RunOnce \/ EndRun \/ BeginDrain \/ EndDrain \/ EndPump \/ PollEvent \/ PollExit
  <2>1. slots' = slots /\ NothingSent
    BY Zenon, <1>7 DEF RunOnce, EndRun, BeginDrain, EndDrain, EndPump, PollEvent, PollExit, Goto,
       tableVars, threadVars, countVars, NothingSent
  <2> QED
    BY <1>1, <2>1, HeldSame, AddressKept
<1>8. CASE CommandStep
  <2>1. PICK types : Consume(types)
    BY Zenon, <1>8 DEF CommandStep, ProcessListen, ProcessConnect, ProcessBind, ProcessUdp,
       ProcessStart, ProcessPause, ProcessNodelay, ProcessSend, ProcessUdpSend, ProcessUdpConnect,
       ProcessClose, ProcessExit
  <2>2. NothingSent
    BY ZenonT(30), <2>1 DEF Consume, queue_pop, threadVars, countVars, NothingSent
  <2>3. HeldStep
    BY <1>8, HeldCommands, HeldOthers DEF CommandStep
  <2> QED
    BY <1>1, <2>2, <2>3, AddressKept
<1>9. CASE PumpNext
  <2>1. NothingSent
    BY ZenonT(30), <1>9 DEF PumpNext, threadVars, countVars, NothingSent
  <2> QED
    BY <1>1, <1>9, <2>1, HeldCallbacks, AddressKept
<1>10. CASE \E s \in Slot : PeerStep(s) \/ RequestStep(s) \/ CloseEntry(s)
  <2>1. NothingSent
    BY <1>10 DEF PeerStep, RequestStep, ReadCompleted, UdpReceived, AcceptFails, AcceptConnection,
       AcceptStalls, ConnectCompleted, WriteCompleted, UdpWriteCompleted, CloseEntry, Callback,
       threadVars, countVars, NothingSent
  <2>2. HeldStep
    BY <1>10, HeldCallbacks, HeldReservations, HeldOthers DEF PeerStep, RequestStep
  <2> QED
    BY <1>1, <2>1, <2>2, AddressKept
<1>11. CASE Release
  <2>1. NothingSent
    BY Zenon, <1>11 DEF Release, threadVars, countVars, NothingSent
  <2> QED
    BY <1>1, <1>11, <2>1, HeldOthers, AddressKept
<1>12. CASE Teardown
  <2>1. slots' = slots /\ NothingSent
    BY Zenon, <1>12 DEF Teardown, queue_destroy, tableVars, threadVars, countVars, NothingSent
  <2> QED
    BY <1>1, <2>1, HeldSame, AddressKept
<1> QED
  BY <1>2, <1>3, <1>4, <1>5, <1>6, <1>7, <1>8, <1>9, <1>10, <1>11, <1>12 DEF Next, LoopStep
=============================================================================
