---------------------------- MODULE SocketEntryProofs -----------------------
(***************************************************************************)
(* What every function of SocketEntry preserves.  An entry is Sound when   *)
(* it is well typed, is the empty entry if its state is INVALID, and is in *)
(* state CLOSING exactly when uv_close was called on its handle.  A call   *)
(* that is Sound for an entry leaves a sound entry, either empty or with   *)
(* the same id and descriptor, and pushes well-typed events.  The second   *)
(* part shows the same of Told, on which rests that an end is reported     *)
(* once; the third is about the buffers a handler may leave in an entry,   *)
(* the fourth about the writes that wait.                                  *)
(***************************************************************************)
EXTENDS SocketEntry, TLAPS

Sound(e) ==
  /\ e \in Entry
  /\ e.state = "CLOSING" <=> e.uv_closes > 0
  /\ e.state = "INVALID" => e = NoEntry

\* f is the same socket as e, and its end is no further off.
Continues(f, e) ==
  /\ f.id = e.id
  /\ e.close_requested => f.close_requested
  /\ e.uv_closes > 0 => f.uv_closes > 0

SameSocket(f, e) == Continues(f, e) /\ f.external_fd = e.external_fd

SoundCall(e, did) ==
  /\ Sound(did.entry)
  /\ did.entry = NoEntry \/ (SameSocket(did.entry, e) /\ did.entry.state # "INVALID")
  /\ did.events \in Seq(Event)

USE DEF SameSocket, Continues

\* The empty entry and a reserved entry are sound and hold no descriptor.
LEMMA NewEntries ==
  /\ Sound(NoEntry) /\ NoEntry.external_fd = -1
  /\ \A id \in Int, opaque \in Nat :
        Sound(ReservedEntry(id, opaque)) /\ ReservedEntry(id, opaque).id = id
          /\ ReservedEntry(id, opaque).state = "RESERVED"
          /\ ReservedEntry(id, opaque).external_fd = -1
<1>1. NoEntry \in Entry /\ NoEntry.state = "INVALID" /\ NoEntry.uv_closes = 0
      /\ NoEntry.external_fd = -1
  BY DEF NoEntry, Entry, State
<1>2. ASSUME NEW id \in Int, NEW opaque \in Nat
      PROVE  LET r == ReservedEntry(id, opaque) IN
             r \in Entry /\ r.id = id /\ r.state = "RESERVED" /\ r.uv_closes = 0
               /\ r.external_fd = -1
  <2>1. "RESERVED" \in State
    BY DEF State
  <2>2. ReservedEntry(id, opaque) \in Entry
    BY <1>1, <2>1, Zenon DEF ReservedEntry, Entry
  <2>3. LET r == ReservedEntry(id, opaque) IN
        r.id = id /\ r.state = "RESERVED" /\ r.uv_closes = 0 /\ r.external_fd = -1
    BY DEF ReservedEntry, NoEntry
  <2> QED
    BY <2>2, <2>3
<1> QED
  BY <1>1, <1>2 DEF Sound

\* The fields of an entry that its events copy.
LEMMA EntryFields == ASSUME NEW e \in Entry PROVE e.id \in Int /\ e.opaque \in Nat
BY DEF Entry

\* Events built from an entry or from a command are events.
LEMMA EventsTyped ==
  /\ \A e \in Entry, type \in EventType, value \in Int : EventOf(type, e, value) \in Event
  /\ \A command \in Command : ErrorTo(command) \in Event
BY DEF EventOf, ErrorTo, Event, Entry, Command, EventType

\* A call that changes nothing.
LEMMA UnchangedSound ==
  ASSUME NEW e, Sound(e)
  PROVE  SoundCall(e, Unchanged(e))
BY DEF SoundCall, Unchanged, Did, Sound

\* uv_close adds one to the closes of a handle and leaves it CLOSING; a terminal
\* event is only counted.
LEMMA CloseSound ==
  ASSUME NEW e \in Entry
  PROVE  /\ uv_close(e) \in Entry /\ Sound(uv_close(e)) /\ SameSocket(uv_close(e), e)
         /\ uv_close(e).state = "CLOSING"
         /\ Terminal(e) \in Entry /\ SameSocket(Terminal(e), e)
         /\ Terminal(e).state = e.state /\ Terminal(e).uv_closes = e.uv_closes
<1>1. uv_close(e) \in Entry
  <2>1. e.uv_closes + 1 \in Nat /\ "CLOSING" \in State
    BY DEF Entry, State
  <2> QED
    BY <2>1, Zenon DEF uv_close, Entry
<1>2. /\ SameSocket(uv_close(e), e)
      /\ uv_close(e).state = "CLOSING"
      /\ uv_close(e).uv_closes = e.uv_closes + 1
  BY DEF uv_close, Entry
<1>3. Sound(uv_close(e))
  <2>1. e.uv_closes \in Nat
    BY DEF Entry
  <2> QED
    BY <1>1, <1>2, <2>1 DEF Sound
<1>4. Terminal(e) \in Entry
  <2>1. e.terminals + 1 \in Nat
    BY DEF Entry
  <2> QED
    BY <2>1, Zenon DEF Terminal, Entry
<1>5. /\ SameSocket(Terminal(e), e)
      /\ Terminal(e).state = e.state
      /\ Terminal(e).uv_closes = e.uv_closes
  BY DEF Terminal, Entry
<1> QED
  BY <1>1, <1>2, <1>3, <1>4, <1>5

\* reject_entry closes the handle.
LEMMA RejectSound ==
  ASSUME NEW e \in Entry
  PROVE  SoundCall(e, reject_entry(e)) /\ reject_entry(e).entry.state = "CLOSING"
<1>1. EventOf("ERROR", e, 0) \in Event
  BY EventsTyped DEF EventType
<1>2. Sound(uv_close(Terminal(e))) /\ SameSocket(uv_close(Terminal(e)), e)
      /\ uv_close(Terminal(e)).state = "CLOSING"
  BY CloseSound
<1> QED
  BY <1>1, <1>2 DEF reject_entry, SoundCall, Did

\* finish_entry leaves a closing handle alone.
LEMMA FinishSound ==
  ASSUME NEW e, Sound(e), e.state # "INVALID"
  PROVE  SoundCall(e, finish_entry(e)) /\ finish_entry(e).entry.state = "CLOSING"
BY RejectSound, UnchangedSound DEF finish_entry, Sound, Unchanged, Did

\* fail_write closes the handle, with or without a report.
LEMMA FailWriteSound ==
  ASSUME NEW e, Sound(e), e.state # "INVALID"
  PROVE  SoundCall(e, fail_write(e)) /\ fail_write(e).entry.state = "CLOSING"
<1>1. CASE e.state = "HALFCLOSE_READ"
  BY <1>1, CloseSound DEF fail_write, SoundCall, Did, Sound
<1>2. CASE e.state # "HALFCLOSE_READ"
  BY <1>2, FinishSound DEF fail_write
<1> QED
  BY <1>1, <1>2

\* An entry that differs from a sound one in fields other than id and uv_closes,
\* and is in state CLOSING just when the other is, is the result of a sound call.
LEMMA SameHandle ==
  ASSUME NEW e, Sound(e), e.state # "INVALID",
         NEW f \in Entry, SameSocket(f, e), f.uv_closes = e.uv_closes, f.state # "INVALID",
         f.state = "CLOSING" <=> e.state = "CLOSING",
         NEW pushed \in Seq(Event), NEW buffers
  PROVE  Sound(f) /\ SoundCall(e, Did(f, pushed, buffers))
BY DEF Sound, SoundCall, Did

\* close_after_writes closes the handle or changes nothing.
LEMMA CloseAfterWritesSound ==
  ASSUME NEW e, Sound(e), e.state # "INVALID"
  PROVE  /\ Sound(close_after_writes(e)) /\ SameSocket(close_after_writes(e), e)
         /\ close_after_writes(e).state # "INVALID"
BY CloseSound DEF close_after_writes, Sound

\* read_completed, on a handle that is not closing.
LEMMA ReadCompletedSound ==
  ASSUME NEW e, Sound(e), e.state # "INVALID", e.uv_closes = 0,
         NEW nread \in {"data", "eof", "error"}
  PROVE  SoundCall(e, read_completed(e, nread))
<1> DEFINE half == [e EXCEPT !.reading = FALSE, !.state = "HALFCLOSE_READ"]
<1>1. e \in Entry /\ e.state # "CLOSING"
  BY DEF Sound
<1>2. <<EventOf("DATA", e, 0)>> \in Seq(Event) /\ <<EventOf("CLOSE", e, 0)>> \in Seq(Event)
  BY <1>1, EventsTyped DEF EventType
<1>3. "HALFCLOSE_READ" \in State
  BY DEF State
<1>4. half \in Entry
  BY <1>1, <1>3, Zenon DEF Entry
<1>5. SameSocket(half, e) /\ half.uv_closes = e.uv_closes /\ half.state = "HALFCLOSE_READ"
  BY <1>1 DEF Entry
<1>6. CASE nread = "data"
  BY <1>1, <1>2, <1>6, SameHandle, Zenon DEF read_completed
<1>7. CASE nread = "eof"
  <2>1. CASE e.state = "HALFCLOSE_READ"
    BY <1>7, <2>1, UnchangedSound DEF read_completed
  <2>2. CASE e.state # "HALFCLOSE_READ"
    <3> HIDE DEF half
    <3>1. /\ Terminal(half) \in Entry /\ SameSocket(Terminal(half), e)
          /\ Terminal(half).uv_closes = e.uv_closes /\ Terminal(half).state = "HALFCLOSE_READ"
      BY <1>4, <1>5, CloseSound
    <3>2. SoundCall(e, Did(Terminal(half), <<EventOf("CLOSE", e, 0)>>, {}))
      BY <1>1, <1>2, <3>1, SameHandle, Zenon
    <3> QED
      BY <1>7, <2>2, <3>2 DEF read_completed, half
  <2> QED
    BY <2>1, <2>2
<1>8. CASE nread = "error"
  BY <1>8, FinishSound DEF read_completed
<1> QED
  BY <1>6, <1>7, <1>8

\* The write pump_write takes from the queues, and the entry without it.
LEMMA TakeWrite ==
  ASSUME NEW e, Sound(e), e.state # "INVALID", e.high # << >> \/ e.low # << >>
  PROVE  LET next  == IF e.high # << >> THEN Head(e.high) ELSE Head(e.low)
             taken == IF e.high # << >> THEN [e EXCEPT !.high = Tail(@)]
                                        ELSE [e EXCEPT !.low = Tail(@)]
         IN  /\ next \in Write
             /\ taken \in Entry /\ SameSocket(taken, e) /\ taken.uv_closes = e.uv_closes
             /\ taken.state = e.state
<1>1. e \in Entry
  BY DEF Sound
<1>2. CASE e.high # << >>
  <2>1. Head(e.high) \in Write /\ Tail(e.high) \in Seq(Write)
    BY <1>1, <1>2 DEF Entry
  <2>2. [e EXCEPT !.high = Tail(e.high)] \in Entry
    BY <1>1, <2>1, Zenon DEF Entry
  <2> QED
    BY <1>1, <1>2, <2>1, <2>2, Zenon DEF Entry
<1>3. CASE e.high = << >>
  <2>1. Head(e.low) \in Write /\ Tail(e.low) \in Seq(Write)
    BY <1>1, <1>3 DEF Entry
  <2>2. [e EXCEPT !.low = Tail(e.low)] \in Entry
    BY <1>1, <2>1, Zenon DEF Entry
  <2> QED
    BY <1>1, <1>3, <2>1, <2>2, Zenon DEF Entry
<1> QED
  BY <1>2, <1>3

\* pump_write hands one write to libuv, or closes the handle.
LEMMA PumpWriteSound ==
  ASSUME NEW e, Sound(e), e.state # "INVALID", NEW ok \in BOOLEAN
  PROVE  SoundCall(e, pump_write(e, ok))
<1>1. CASE e.writing # << >> \/ (e.high = << >> /\ e.low = << >>)
  BY <1>1, UnchangedSound DEF pump_write
<1>2. CASE ~(e.writing # << >> \/ (e.high = << >> /\ e.low = << >>))
  <2> DEFINE next  == IF e.high # << >> THEN Head(e.high) ELSE Head(e.low)
             taken == IF e.high # << >> THEN [e EXCEPT !.high = Tail(@)]
                                        ELSE [e EXCEPT !.low = Tail(@)]
             less  == [taken EXCEPT !.queued_bytes = @ - next.size]
             sent  == [taken EXCEPT !.writing = <<next>>]
  <2>1. /\ next \in Write
        /\ taken \in Entry /\ SameSocket(taken, e) /\ taken.uv_closes = e.uv_closes
        /\ taken.state = e.state
    BY <1>2, TakeWrite, Zenon
  <2> HIDE DEF next, taken
  <2>2. taken.queued_bytes - next.size \in Int /\ <<next>> \in Seq(Write)
    BY <2>1 DEF Entry, Write
  <2>3. less \in Entry /\ sent \in Entry
    BY <2>1, <2>2, Zenon DEF Entry
  <2>4. /\ SameSocket(less, e) /\ less.uv_closes = e.uv_closes /\ less.state = e.state
        /\ SameSocket(sent, e) /\ sent.uv_closes = e.uv_closes /\ sent.state = e.state
    BY <2>1 DEF Entry
  <2> HIDE DEF less, sent
  <2>5. Sound(less) /\ SoundCall(e, Unchanged(sent))
    <3>1. << >> \in Seq(Event)
      OBVIOUS
    <3>2. Sound(less)
      BY <2>3, <2>4, <3>1, SameHandle, Zenon
    <3>3. SoundCall(e, Did(sent, << >>, {}))
      BY <2>3, <2>4, <3>1, SameHandle, Zenon
    <3> QED
      BY <3>2, <3>3 DEF Unchanged
  <2>6. SoundCall(less, fail_write(less))
    BY <2>4, <2>5, FailWriteSound
  <2>7. SoundCall(e, Did(fail_write(less).entry, fail_write(less).events, {next.buf}))
    BY <2>4, <2>6 DEF SoundCall, Did
  <2> QED
    BY <1>2, <2>5, <2>7 DEF pump_write, next, taken, less, sent
<1> QED
  BY <1>1, <1>2

\* write_completed accounts for the finished write, then drains, pumps or waits.
LEMMA WriteCompletedSound ==
  ASSUME NEW e, Sound(e), e.state # "INVALID", e.writing # << >>,
         NEW ok \in BOOLEAN, NEW pump_ok \in BOOLEAN
  PROVE  SoundCall(e, write_completed(e, ok, pump_ok))
<1> DEFINE write  == e.writing[1]
           first  == IF ok \/ e.state = "CLOSING" THEN Unchanged(e) ELSE fail_write(e)
           done   == [first.entry EXCEPT !.queued_bytes = @ - write.size, !.writing = << >>]
           calm   == done.queued_bytes = 0 /\ done.warn_size > 0 /\ done.state # "CLOSING"
           rest   == IF calm THEN [done EXCEPT !.warn_size = 0] ELSE done
           pushed == first.events \o (IF calm THEN <<EventOf("WARNING", done, 0)>> ELSE << >>)
           pumped == pump_write(rest, pump_ok)
<1>1. write \in Write
  BY DEF Sound, Entry
<1>2. SoundCall(e, first)
  BY UnchangedSound, FailWriteSound
<1>3. SameSocket(first.entry, e) /\ first.entry.state # "INVALID"
  BY UnchangedSound, FailWriteSound DEF SoundCall, Unchanged, Did, NoEntry
<1>4. Sound(first.entry) /\ first.entry \in Entry /\ first.events \in Seq(Event)
  BY <1>2 DEF SoundCall, Sound
<1> HIDE DEF write, first
<1>5. first.entry.queued_bytes - write.size \in Int /\ << >> \in Seq(Write)
  BY <1>1, <1>4 DEF Entry, Write
<1>6. done \in Entry
  BY <1>4, <1>5, Zenon DEF Entry
<1>7. SameSocket(done, first.entry) /\ done.uv_closes = first.entry.uv_closes
      /\ done.state = first.entry.state
  BY <1>4 DEF Entry
<1> HIDE DEF done
<1>8. Sound(done)
  BY <1>3, <1>4, <1>6, <1>7 DEF Sound
<1>9. 0 \in Nat
  OBVIOUS
<1>10. [done EXCEPT !.warn_size = 0] \in Entry
  BY <1>6, <1>9, Zenon DEF Entry
<1>11. rest \in Entry /\ SameSocket(rest, e) /\ rest.uv_closes = done.uv_closes
       /\ rest.state = done.state
  <2>1. /\ SameSocket([done EXCEPT !.warn_size = 0], done)
        /\ [done EXCEPT !.warn_size = 0].uv_closes = done.uv_closes
        /\ [done EXCEPT !.warn_size = 0].state = done.state
    BY <1>6 DEF Entry
  <2>2. CASE calm
    BY <1>3, <1>7, <1>10, <2>1, <2>2
  <2>3. CASE ~calm
    BY <1>3, <1>6, <1>7, <2>3
  <2> QED
    BY <2>2, <2>3
<1>12. EventOf("WARNING", done, 0) \in Event
  BY <1>6, EventsTyped DEF EventType
<1>13. pushed \in Seq(Event)
  BY <1>4, <1>12
<1> HIDE DEF rest, pushed
<1>14. Sound(rest) /\ rest.state # "INVALID"
  BY <1>3, <1>7, <1>8, <1>11 DEF Sound
<1>15. ASSUME NEW buffers PROVE SoundCall(e, Did(rest, pushed, buffers))
  BY <1>11, <1>13, <1>14 DEF SoundCall, Did
<1>16. ASSUME NEW buffers PROVE SoundCall(e, Did(close_after_writes(rest), pushed, buffers))
  BY <1>11, <1>13, <1>14, CloseAfterWritesSound DEF SoundCall, Did
<1>17. ASSUME NEW buffers PROVE SoundCall(e, Did(pumped.entry, pushed \o pumped.events, buffers))
  <2>1. SoundCall(rest, pumped)
    BY <1>14, PumpWriteSound
  <2> QED
    BY <1>11, <1>13, <2>1 DEF SoundCall, Did
<1> HIDE DEF pumped
<1>18. \/ write_completed(e, ok, pump_ok) = Did(close_after_writes(rest), pushed, {write.buf})
       \/ write_completed(e, ok, pump_ok) =
            Did(pumped.entry, pushed \o pumped.events, {write.buf} \cup pumped.buffers)
       \/ write_completed(e, ok, pump_ok) = Did(rest, pushed, {write.buf})
  BY Zenon DEF write_completed, pumped, pushed, rest, calm, done, first, write
<1> QED
  BY <1>15, <1>16, <1>17, <1>18

\* connect_completed starts reading, closes the handle, or does nothing after uv_close.
LEMMA ConnectCompletedSound ==
  ASSUME NEW e, Sound(e), e.state # "INVALID", NEW ok \in BOOLEAN
  PROVE  SoundCall(e, connect_completed(e, ok))
<1> DEFINE connected == [e EXCEPT !.connecting = FALSE]
           open      == [start_reading(connected) EXCEPT !.state = "CONNECTED"]
<1>1. e \in Entry /\ << >> \in Seq(Event) /\ <<EventOf("OPEN", e, 0)>> \in Seq(Event)
  BY EventsTyped DEF Sound, EventType
<1>2. connected \in Entry
  BY <1>1, Zenon DEF Entry
<1>3. SameSocket(connected, e) /\ connected.uv_closes = e.uv_closes /\ connected.state = e.state
  BY <1>1 DEF Entry
<1> HIDE DEF connected
<1>4. "CONNECTED" \in State
  BY DEF State
<1>5. open \in Entry
  BY <1>2, <1>4, Zenon DEF start_reading, Entry
<1>6. SameSocket(open, e) /\ open.uv_closes = e.uv_closes /\ open.state = "CONNECTED"
  BY <1>2, <1>3 DEF start_reading, Entry
<1> HIDE DEF open
<1>7. SoundCall(e, Did(connected, << >>, {}))
  BY <1>1, <1>2, <1>3, SameHandle, Zenon
<1>8. e.state # "CLOSING" => SoundCall(e, Did(open, <<EventOf("OPEN", e, 0)>>, {}))
  BY <1>1, <1>5, <1>6, SameHandle, Zenon
<1>9. SoundCall(e, reject_entry(connected))
  BY <1>2, <1>3, RejectSound DEF SoundCall
<1> QED
  BY <1>7, <1>8, <1>9 DEF connect_completed, connected, open, Unchanged

\* udp_received closes the handle or leaves the entry as it is.
LEMMA UdpReceivedSound ==
  ASSUME NEW e, Sound(e), e.state # "INVALID", NEW nread \in {"data", "error"}
  PROVE  SoundCall(e, udp_received(e, nread))
<1>1. e \in Entry /\ <<EventOf("UDP", e, 0)>> \in Seq(Event)
  BY EventsTyped DEF Sound, EventType
<1>2. SoundCall(e, Did(e, <<EventOf("UDP", e, 0)>>, {}))
  BY <1>1, SameHandle, Zenon
<1> QED
  BY <1>2, FinishSound DEF udp_received

\* udp_write_completed forgets one datagram.
LEMMA UdpWriteCompletedSound ==
  ASSUME NEW e, Sound(e), e.state # "INVALID", NEW buf, NEW ok \in BOOLEAN
  PROVE  SoundCall(e, udp_write_completed(e, buf, ok))
<1> DEFINE left == [e EXCEPT !.udp_writes = @ \ {buf}]
<1>1. e \in Entry /\ << >> \in Seq(Event) /\ <<EventOf("ERROR", e, 0)>> \in Seq(Event)
  BY EventsTyped DEF Sound, EventType
<1>2. e.udp_writes \ {buf} \in SUBSET Nat
  BY <1>1 DEF Entry
<1>3. left \in Entry
  BY <1>1, <1>2, Zenon DEF Entry
<1>4. SameSocket(left, e) /\ left.uv_closes = e.uv_closes /\ left.state = e.state
  BY <1>1 DEF Entry
<1> HIDE DEF left
<1>5. \A pushed \in Seq(Event) : SoundCall(e, Did(left, pushed, {buf}))
  BY <1>3, <1>4, SameHandle
<1> QED
  BY <1>1, <1>5, Zenon DEF udp_write_completed, left

\* open_entry discards the reservation, closes the handle, or leaves it open.
LEMMA OpenEntrySound ==
  ASSUME NEW e, Sound(e), NEW outcome \in OpenOutcome, NEW opened \in Entry,
         e.state = "RESERVED" =>
            /\ SameSocket(opened, e) /\ opened.uv_closes = e.uv_closes
            /\ opened.state \notin {"INVALID", "CLOSING"},
         NEW pushed \in Seq(Event)
  PROVE  SoundCall(e, open_entry(e, outcome, opened, pushed))
<1>1. e \in Entry /\ <<EventOf("ERROR", e, 0)>> \in Seq(Event)
  BY EventsTyped DEF Sound, EventType
<1>2. CASE e.state # "RESERVED"
  BY <1>2, UnchangedSound DEF open_entry
<1>3. CASE e.state = "RESERVED"
  <2>1. SoundCall(e, Did(NoEntry, <<EventOf("ERROR", e, 0)>>, {}))
    BY <1>1, NewEntries DEF SoundCall, Did
  <2>2. SoundCall(e, reject_entry(opened))
    BY <1>3, RejectSound DEF SoundCall
  <2>3. SoundCall(e, Did(opened, pushed, {}))
    BY <1>3, SameHandle
  <2> QED
    BY <1>3, <2>1, <2>2, <2>3 DEF open_entry, OpenOutcome
<1> QED
  BY <1>2, <1>3

\* The four commands that open a socket.
LEMMA OpenSound ==
  ASSUME NEW e, Sound(e), NEW outcome \in OpenOutcome
  PROVE  /\ SoundCall(e, process_listen(e, outcome))
         /\ SoundCall(e, process_connect(e, outcome))
         /\ SoundCall(e, process_bind(e, outcome))
         /\ SoundCall(e, process_udp(e, outcome))
<1> DEFINE listening  == [e EXCEPT !.initialized = TRUE, !.state = "LISTENING"]
           connecting == [e EXCEPT !.initialized = TRUE, !.state = "CONNECTING",
                                   !.connecting = (outcome = "ok")]
           connected  == [e EXCEPT !.initialized = TRUE, !.state = "CONNECTED",
                                   !.reading = (outcome = "ok")]
           udp        == [e EXCEPT !.initialized = TRUE, !.is_udp = TRUE, !.state = "UDP"]
<1>1. e \in Entry /\ << >> \in Seq(Event) /\ <<EventOf("OPEN", e, 0)>> \in Seq(Event)
  BY EventsTyped DEF Sound, EventType
<1>2. "LISTENING" \in State /\ "CONNECTING" \in State /\ "CONNECTED" \in State
      /\ "UDP" \in State /\ (outcome = "ok") \in BOOLEAN
  BY DEF State
<1>3. listening \in Entry
  BY <1>1, <1>2, Zenon DEF Entry
<1>4. connecting \in Entry
  BY <1>1, <1>2, Zenon DEF Entry
<1>5. connected \in Entry
  BY <1>1, <1>2, Zenon DEF Entry
<1>6. udp \in Entry
  BY <1>1, <1>2, Zenon DEF Entry
<1>7. \A o \in {listening, connecting, connected, udp} :
         SameSocket(o, e) /\ o.uv_closes = e.uv_closes
           /\ o.state \in {"LISTENING", "CONNECTING", "CONNECTED", "UDP"}
  BY <1>1, ZenonT(60) DEF Entry
<1> HIDE DEF listening, connecting, connected, udp
<1>8. \A o \in {listening, connecting, connected, udp}, pushed \in Seq(Event) :
         SoundCall(e, open_entry(e, outcome, o, pushed))
  BY <1>3, <1>4, <1>5, <1>6, <1>7, OpenEntrySound
<1> QED
  BY <1>1, <1>8, Zenon DEF process_listen, process_connect, process_bind, process_udp,
     listening, connecting, connected, udp

\* A socket that takes a new owner.
LEMMA OwnedSound ==
  ASSUME NEW e \in Entry, NEW command \in Command
  PROVE  /\ Owned(e, command) \in Entry /\ SameSocket(Owned(e, command), e)
         /\ Owned(e, command).uv_closes = e.uv_closes /\ Owned(e, command).state = e.state
<1>1. command.opaque \in Nat
  BY DEF Command
<1>2. Owned(e, command) \in Entry
  BY <1>1, Zenon DEF Owned, Entry
<1> QED
  BY <1>2, Zenon DEF Owned, Entry

\* A call that leaves the entry as it is and pushes an event.
LEMMA ReportSound ==
  ASSUME NEW e, Sound(e), NEW event \in Event, NEW buffers
  PROVE  SoundCall(e, Did(e, <<event>>, buffers))
BY DEF SoundCall, Did, Sound

\* process_start: the new owner is told, and a paused socket reads again.
LEMMA StartSound ==
  ASSUME NEW e, Sound(e), NEW command \in Command, NEW ok \in BOOLEAN
  PROVE  SoundCall(e, process_start(e, command, ok))
<1> DEFINE owned   == Owned(e, command)
           reading == [start_reading(owned) EXCEPT !.state = "CONNECTED"]
<1>1. e \in Entry
  BY DEF Sound
<1>2. owned \in Entry /\ SameSocket(owned, e) /\ owned.uv_closes = e.uv_closes /\ owned.state = e.state
  BY <1>1, OwnedSound
<1> HIDE DEF owned
<1>3. <<EventOf("OPEN", owned, 0)>> \in Seq(Event) /\ ErrorTo(command) \in Event
  BY <1>2, EventsTyped DEF EventType
<1>4. "CONNECTED" \in State
  BY DEF State
<1>5. reading \in Entry
  BY <1>2, <1>4, Zenon DEF start_reading, Entry
<1>6. SameSocket(reading, e) /\ reading.uv_closes = e.uv_closes /\ reading.state = "CONNECTED"
  BY <1>2 DEF start_reading, Entry
<1> HIDE DEF reading
<1>7. CASE e.state \in {"LISTENING", "CONNECTED"}
  <2>1. SoundCall(e, Did(owned, <<EventOf("OPEN", owned, 0)>>, {}))
    BY <1>2, <1>3, <1>7, SameHandle, Zenon
  <2> QED
    BY <1>7, <2>1 DEF process_start, owned
<1>8. CASE e.state \in {"ACCEPTED_PAUSED", "CONNECTED_PAUSED"}
  <2>1. SoundCall(e, Did(reading, <<EventOf("OPEN", owned, 0)>>, {}))
    BY <1>3, <1>5, <1>6, <1>8, SameHandle, Zenon
  <2>2. SoundCall(e, reject_entry(owned))
    BY <1>2, RejectSound DEF SoundCall
  <2> QED
    BY <1>8, <2>1, <2>2 DEF process_start, owned, reading
<1>9. CASE e.state \notin {"LISTENING", "CONNECTED", "ACCEPTED_PAUSED", "CONNECTED_PAUSED"}
  BY <1>3, <1>9, ReportSound DEF process_start
<1> QED
  BY <1>7, <1>8, <1>9

\* process_pause stops reading.
LEMMA PauseSound ==
  ASSUME NEW e, Sound(e), NEW ok \in BOOLEAN
  PROVE  SoundCall(e, process_pause(e, ok))
<1> DEFINE paused == [e EXCEPT !.reading = FALSE, !.state = "CONNECTED_PAUSED"]
<1>1. e \in Entry /\ EventOf("ERROR", e, 0) \in Event /\ << >> \in Seq(Event)
  BY EventsTyped DEF Sound, EventType
<1>2. "CONNECTED_PAUSED" \in State
  BY DEF State
<1>3. paused \in Entry
  BY <1>1, <1>2, Zenon DEF Entry
<1>4. SameSocket(paused, e) /\ paused.uv_closes = e.uv_closes /\ paused.state = "CONNECTED_PAUSED"
  BY <1>1 DEF Entry
<1> HIDE DEF paused
<1>5. e.state = "CONNECTED" => SoundCall(e, Did(paused, << >>, {}))
  BY <1>1, <1>3, <1>4, SameHandle, Zenon
<1> QED
  BY <1>1, <1>5, UnchangedSound, ReportSound DEF process_pause, paused, Unchanged

\* The backlog in KiB is an integer.
LEMMA WarningTyped ==
  ASSUME NEW bytes \in Int
  PROVE  warning_kb(bytes) \in Int
BY DEF warning_kb

\* enqueue_write appends a write and may report the backlog.
LEMMA EnqueueSound ==
  ASSUME NEW e, Sound(e), e.state # "INVALID", NEW command \in Command
  PROVE  SoundCall(e, enqueue_write(e, command))
<1> DEFINE write  == [buf |-> command.buf, size |-> command.size]
           low    == [e EXCEPT !.low = Append(@, write), !.queued_bytes = @ + command.size]
           high   == [e EXCEPT !.high = Append(@, write), !.queued_bytes = @ + command.size]
           queued == IF command.type = "SEND_LOW" THEN low ELSE high
           warned == [queued EXCEPT !.warn_size = IF @ = 0 THEN WARNING_SIZE * 2 ELSE @ * 2]
           event  == EventOf("WARNING", e, warning_kb(queued.queued_bytes))
<1>1. e \in Entry /\ << >> \in Seq(Event)
  BY DEF Sound
<1>2. write \in Write /\ command.size \in Nat
  BY DEF Command, Write
<1> HIDE DEF write
<1>3. /\ Append(e.low, write) \in Seq(Write) /\ Append(e.high, write) \in Seq(Write)
      /\ e.queued_bytes + command.size \in Int
  BY <1>1, <1>2 DEF Entry
<1>4. low \in Entry /\ high \in Entry
  BY <1>1, <1>3, Zenon DEF Entry
<1>5. /\ SameSocket(low, e) /\ low.uv_closes = e.uv_closes /\ low.state = e.state
      /\ SameSocket(high, e) /\ high.uv_closes = e.uv_closes /\ high.state = e.state
  BY <1>1 DEF Entry
<1> HIDE DEF low, high
<1>6. queued \in Entry /\ SameSocket(queued, e) /\ queued.uv_closes = e.uv_closes
      /\ queued.state = e.state
  BY <1>4, <1>5
<1> HIDE DEF queued
<1>7. queued.warn_size \in Nat /\ queued.queued_bytes \in Int
  BY <1>6 DEF Entry
<1>8. (IF queued.warn_size = 0 THEN WARNING_SIZE * 2 ELSE queued.warn_size * 2) \in Nat
  BY <1>7, WarningSizeAssumption
<1>9. warned \in Entry
  BY <1>6, <1>8, Zenon DEF Entry
<1>10. SameSocket(warned, e) /\ warned.uv_closes = e.uv_closes /\ warned.state = e.state
  BY <1>6 DEF Entry
<1>11. <<event>> \in Seq(Event)
  <2>1. warning_kb(queued.queued_bytes) \in Int /\ "WARNING" \in EventType
    BY <1>7, WarningTyped DEF EventType
  <2>2. event \in Event
    BY <1>1, <2>1, EventsTyped
  <2> QED
    BY <2>2
<1> HIDE DEF warned, event
<1>12. SoundCall(e, Did(warned, <<event>>, {}))
  BY <1>9, <1>10, <1>11, SameHandle, Zenon
<1>13. SoundCall(e, Did(queued, << >>, {}))
  BY <1>1, <1>6, SameHandle, Zenon
<1> QED
  BY <1>12, <1>13 DEF enqueue_write, write, low, high, queued, warned, event, Unchanged

\* process_udp_send hands a datagram to libuv or releases it.
LEMMA UdpSendSound ==
  ASSUME NEW e, Sound(e), NEW command \in Command, NEW ok \in BOOLEAN
  PROVE  SoundCall(e, process_udp_send(e, command, ok))
<1> DEFINE more == [e EXCEPT !.udp_writes = @ \cup {command.buf}]
<1>1. e \in Entry /\ EventOf("ERROR", e, 0) \in Event /\ ErrorTo(command) \in Event
      /\ << >> \in Seq(Event)
  BY EventsTyped DEF Sound, EventType
<1>2. e.udp_writes \cup {command.buf} \in SUBSET Nat
  BY <1>1 DEF Entry, Command
<1>3. more \in Entry
  BY <1>1, <1>2, Zenon DEF Entry
<1>4. SameSocket(more, e) /\ more.uv_closes = e.uv_closes /\ more.state = e.state
  BY <1>1 DEF Entry
<1> HIDE DEF more
<1>5. e.state = "UDP" => SoundCall(e, Did(more, << >>, {}))
  BY <1>1, <1>3, <1>4, SameHandle, Zenon
<1>6. \A event \in {EventOf("ERROR", e, 0), ErrorTo(command)} : \A buffers :
         SoundCall(e, Did(e, <<event>>, buffers))
  BY <1>1, ReportSound, Zenon
<1> QED
  BY <1>5, <1>6 DEF process_udp_send, more, Unchanged

\* process_send queues the buffer, hands it to process_udp_send, or releases it.
LEMMA SendSound ==
  ASSUME NEW e, Sound(e), NEW command \in Command, NEW ok \in BOOLEAN
  PROVE  SoundCall(e, process_send(e, command, ok))
<1>1. EventOf("ERROR", e, 0) \in Event /\ ErrorTo(command) \in Event
  BY EventsTyped DEF Sound, EventType
<1>2. \A event \in {EventOf("ERROR", e, 0), ErrorTo(command)} : \A buffers :
         SoundCall(e, Did(e, <<event>>, buffers))
  BY <1>1, ReportSound, Zenon
<1>3. e.state \in Writable => SoundCall(e, enqueue_write(e, command))
  BY EnqueueSound DEF Writable
<1>4. SoundCall(e, process_udp_send(e, command, ok))
  BY UdpSendSound
<1> QED
  BY <1>2, <1>3, <1>4 DEF process_send

\* process_udp_connect sets the default target.
LEMMA UdpConnectSound ==
  ASSUME NEW e, Sound(e), NEW ok \in BOOLEAN
  PROVE  SoundCall(e, process_udp_connect(e, ok))
<1> DEFINE targeted == [e EXCEPT !.has_udp_target = TRUE]
<1>1. e \in Entry /\ << >> \in Seq(Event)
  BY DEF Sound
<1>2. targeted \in Entry
  BY <1>1, Zenon DEF Entry
<1>3. SameSocket(targeted, e) /\ targeted.uv_closes = e.uv_closes /\ targeted.state = e.state
  BY <1>1 DEF Entry
<1> HIDE DEF targeted
<1>4. e.state = "UDP" => SoundCall(e, Did(targeted, << >>, {}))
  BY <1>1, <1>2, <1>3, SameHandle, Zenon
<1> QED
  BY <1>4, UnchangedSound DEF process_udp_connect, targeted, Unchanged

\* process_close frees a reservation, closes the handle, or lets the writes drain first.
LEMMA ProcessCloseSound ==
  ASSUME NEW e, Sound(e), NEW command \in Command
  PROVE  SoundCall(e, process_close(e, command))
<1> DEFINE owned    == Owned(e, command)
           told     == e.state # "HALFCLOSE_READ"
           pushed   == IF told THEN <<EventOf("CLOSE", owned, 0)>> ELSE << >>
           closed   == IF told THEN Terminal(owned) ELSE owned
           draining == [closed EXCEPT !.reading = FALSE, !.close_requested = TRUE]
<1>1. CASE e.state \in {"INVALID", "CLOSING"}
  BY <1>1, UnchangedSound DEF process_close
<1>2. CASE e.state \notin {"INVALID", "CLOSING"}
  <2>1. e \in Entry
    BY DEF Sound
  <2>2. owned \in Entry /\ SameSocket(owned, e) /\ owned.uv_closes = e.uv_closes
        /\ owned.state = e.state
    BY <2>1, OwnedSound
  <2> HIDE DEF owned
  <2>3. pushed \in Seq(Event)
    BY <2>2, EventsTyped DEF EventType
  <2>4. closed \in Entry /\ SameSocket(closed, e) /\ closed.uv_closes = e.uv_closes
        /\ closed.state = e.state
    BY <2>2, CloseSound
  <2> HIDE DEF pushed, closed
  <2>5. draining \in Entry
    BY <2>4, Zenon DEF Entry
  <2>6. SameSocket(draining, e) /\ draining.uv_closes = e.uv_closes /\ draining.state = e.state
    BY <2>4 DEF Entry
  <2> HIDE DEF draining
  <2>7. Sound(draining)
    BY <1>2, <2>3, <2>5, <2>6, SameHandle, Zenon
  <2>8. SoundCall(e, Did(NoEntry, pushed, {}))
    BY <2>3, NewEntries DEF SoundCall, Did
  <2>9. SoundCall(e, Did(close_after_writes(draining), pushed, {}))
    BY <1>2, <2>3, <2>6, <2>7, CloseAfterWritesSound DEF SoundCall, Did
  <2>10. SoundCall(e, Did(uv_close(closed), pushed, {}))
    BY <2>3, <2>4, CloseSound DEF SoundCall, Did
  <2> QED
    BY <1>2, <2>8, <2>9, <2>10 DEF process_close, owned, pushed, closed, draining
<1> QED
  BY <1>1, <1>2

\* What exit, release and the close callback leave of an entry.
LEMMA ExitSound ==
  ASSUME NEW e, Sound(e)
  PROVE  /\ Sound(exit_entry(e))
         /\ exit_entry(e) = NoEntry \/ (SameSocket(exit_entry(e), e) /\ exit_entry(e).state # "INVALID")
         /\ SoundCall(e, close_entry(e))
<1>1. SoundCall(e, close_entry(e))
  BY NewEntries DEF close_entry, SoundCall, Did
<1>2. e \in Entry
  BY DEF Sound
<1> QED
  BY <1>1, <1>2, CloseSound, NewEntries DEF exit_entry, Sound
-----------------------------------------------------------------------------
\* Why a socket reports its end once.  Unless it drains before closing, a socket that
\* has reported an end is closing or past the peer's end of file; it reads only while
\* it is connected, and libuv holds a connect request only until it is.
Told(e) ==
  /\ ~e.close_requested => e.terminals <= 1
  /\ ~e.close_requested /\ e.uv_closes = 0 /\ e.state # "HALFCLOSE_READ" => e.terminals = 0
  /\ e.reading => e.state \in {"CONNECTED", "CLOSING"}
  /\ e.connecting => e.state \in {"CONNECTING", "CLOSING"}

\* The empty entry and a reserved one have reported nothing.
LEMMA NewTold ==
  /\ Told(NoEntry)
  /\ \A id, opaque : Told(ReservedEntry(id, opaque))
BY DEF Told, NoEntry, ReservedEntry

\* uv_close by itself reports nothing.
LEMMA CloseTold ==
  ASSUME NEW e, Sound(e), Told(e)
  PROVE  Told(uv_close(e))
BY DEF Told, uv_close, Sound, Entry

\* reject_entry reports the end of a socket that has not reported it.
LEMMA RejectTold ==
  ASSUME NEW e, Sound(e), Told(e), e.state \notin {"CLOSING", "HALFCLOSE_READ"}
  PROVE  Told(reject_entry(e).entry)
<1>1. e \in Entry /\ e.uv_closes \in Nat /\ e.uv_closes = 0
  BY DEF Sound, Entry
<1> DEFINE r == uv_close(Terminal(e))
<1>2. /\ r.terminals = e.terminals + 1 /\ r.uv_closes = 1 /\ r.state = "CLOSING"
      /\ r.close_requested = e.close_requested
  BY <1>1 DEF uv_close, Terminal, Entry
<1>3. reject_entry(e).entry = r
  BY Zenon DEF reject_entry, Did
<1> HIDE DEF r
<1>4. ~e.close_requested => e.terminals = 0
  BY Zenon, <1>1 DEF Told
<1>5. Told(r)
  BY <1>2, <1>4 DEF Told
<1> QED
  BY Zenon, <1>3, <1>5

\* fail_write reports an end only if none was reported.
LEMMA FailWriteTold ==
  ASSUME NEW e, Sound(e), Told(e)
  PROVE  Told(fail_write(e).entry)
BY CloseTold, RejectTold DEF fail_write, finish_entry, Unchanged, Did

\* close_after_writes reports nothing.
LEMMA CloseAfterWritesTold ==
  ASSUME NEW e, Sound(e), Told(e)
  PROVE  Told(close_after_writes(e))
BY CloseTold DEF close_after_writes

\* read_completed, which libuv calls only while the handle reads and is not closing.
LEMMA ReadCompletedTold ==
  ASSUME NEW e, Sound(e), Told(e), e.reading, e.uv_closes = 0,
         NEW nread \in {"data", "eof", "error"}
  PROVE  Told(read_completed(e, nread).entry)
<1>1. e.state = "CONNECTED"
  BY DEF Told, Sound
<1>2. CASE nread = "eof"
  <2> DEFINE half == Terminal([e EXCEPT !.reading = FALSE, !.state = "HALFCLOSE_READ"])
  <2>1. /\ half.state = "HALFCLOSE_READ" /\ half.reading = FALSE
        /\ half.connecting = e.connecting /\ half.close_requested = e.close_requested
        /\ half.terminals = e.terminals + 1
    BY DEF Terminal, Sound, Entry
  <2>2. e.terminals \in Nat
    BY DEF Sound, Entry
  <2>3. read_completed(e, nread).entry = half
    BY <1>1, <1>2 DEF read_completed, Did
  <2> HIDE DEF half
  <2> QED
    BY <1>1, <2>1, <2>2, <2>3 DEF Told
<1>3. CASE nread = "data"
  BY <1>3 DEF read_completed, Did
<1>4. CASE nread = "error"
  BY <1>1, <1>4, RejectTold DEF read_completed, finish_entry
<1> QED
  BY <1>2, <1>3, <1>4

\* Fields other than these do not matter.
LEMMA SameTold ==
  ASSUME NEW e, Told(e), NEW f, f.state = e.state, f.uv_closes = e.uv_closes,
         f.terminals = e.terminals, f.close_requested = e.close_requested,
         f.reading = e.reading, f.connecting = e.connecting
  PROVE  Told(f)
BY DEF Told

\* connect_completed, which libuv calls only for a pending connect.
LEMMA ConnectCompletedTold ==
  ASSUME NEW e, Sound(e), Told(e), e.connecting, NEW ok \in BOOLEAN
  PROVE  Told(connect_completed(e, ok).entry)
BY DEF connect_completed, Unchanged, Did, Told, Sound, Entry, reject_entry, uv_close, Terminal,
   start_reading

\* process_start reads again only a socket that has not ended.
LEMMA StartTold ==
  ASSUME NEW e, Sound(e), Told(e), NEW command \in Command, NEW ok \in BOOLEAN
  PROVE  Told(process_start(e, command, ok).entry)
BY DEF process_start, Owned, Did, Told, Sound, Entry, reject_entry, uv_close, Terminal,
   start_reading

\* process_pause reports no end.
LEMMA PauseTold ==
  ASSUME NEW e, Sound(e), Told(e), NEW ok \in BOOLEAN
  PROVE  Told(process_pause(e, ok).entry)
BY DEF process_pause, Unchanged, Did, Told, Sound, Entry

\* process_close reports CLOSE unless the peer's end was reported.
LEMMA ProcessCloseTold ==
  ASSUME NEW e, Sound(e), Told(e), NEW command \in Command
  PROVE  Told(process_close(e, command).entry)
BY NewTold DEF process_close, close_after_writes, Owned, Unchanged, Did, Told, Sound, Entry,
   uv_close, Terminal

\* exit, release and the close callback report nothing.
LEMMA ExitTold ==
  ASSUME NEW e, Sound(e), Told(e)
  PROVE  Told(exit_entry(e)) /\ Told(close_entry(e).entry)
BY NewTold, CloseTold DEF exit_entry, close_entry, Did

\* pump_write reports an end only through fail_write.
LEMMA PumpWriteTold ==
  ASSUME NEW e, Sound(e), e.state # "INVALID", Told(e), NEW ok \in BOOLEAN
  PROVE  Told(pump_write(e, ok).entry)
<1>1. CASE e.writing # << >> \/ (e.high = << >> /\ e.low = << >>)
  BY <1>1 DEF pump_write, Unchanged, Did
<1>2. CASE ~(e.writing # << >> \/ (e.high = << >> /\ e.low = << >>))
  <2> DEFINE next  == IF e.high # << >> THEN Head(e.high) ELSE Head(e.low)
             taken == IF e.high # << >> THEN [e EXCEPT !.high = Tail(@)]
                                        ELSE [e EXCEPT !.low = Tail(@)]
             less  == [taken EXCEPT !.queued_bytes = @ - next.size]
             sent  == [taken EXCEPT !.writing = <<next>>]
  <2>1. /\ next \in Write
        /\ taken \in Entry /\ SameSocket(taken, e) /\ taken.uv_closes = e.uv_closes
        /\ taken.state = e.state
    BY <1>2, TakeWrite, Zenon
  <2>2. Told(taken)
    BY Zenon, SameTold DEF Sound, Entry
  <2> HIDE DEF next, taken
  <2>3. Told(less) /\ Told(sent)
    BY Zenon, <2>1, <2>2, SameTold DEF Entry
  <2>4. Sound(less)
    <3>1. taken.queued_bytes - next.size \in Int
      BY <2>1 DEF Entry, Write
    <3>2. less \in Entry
      BY <2>1, <3>1, Zenon DEF Entry
    <3>3. less.uv_closes = e.uv_closes /\ less.state = e.state
      BY <2>1 DEF Entry
    <3> QED
      BY <3>2, <3>3 DEF Sound
  <2> HIDE DEF less, sent
  <2>5. Told(fail_write(less).entry)
    BY <2>3, <2>4, FailWriteTold
  <2> QED
    BY <1>2, <2>3, <2>5 DEF pump_write, next, taken, less, sent, Unchanged, Did
<1> QED
  BY <1>1, <1>2

\* write_completed reports an end only through fail_write and pump_write.
LEMMA WriteCompletedTold ==
  ASSUME NEW e, Sound(e), e.state # "INVALID", Told(e), e.writing # << >>,
         NEW ok \in BOOLEAN, NEW pump_ok \in BOOLEAN
  PROVE  Told(write_completed(e, ok, pump_ok).entry)
<1> DEFINE write  == e.writing[1]
           first  == IF ok \/ e.state = "CLOSING" THEN Unchanged(e) ELSE fail_write(e)
           done   == [first.entry EXCEPT !.queued_bytes = @ - write.size, !.writing = << >>]
           calm   == done.queued_bytes = 0 /\ done.warn_size > 0 /\ done.state # "CLOSING"
           rest   == IF calm THEN [done EXCEPT !.warn_size = 0] ELSE done
           pumped == pump_write(rest, pump_ok)
<1>1. Sound(first.entry) /\ first.entry.state # "INVALID" /\ Told(first.entry)
  BY UnchangedSound, FailWriteSound, FailWriteTold DEF SoundCall, Unchanged, Did
<1>2. write \in Write
  BY DEF Sound, Entry
<1> HIDE DEF write, first
<1>3. first.entry.queued_bytes - write.size \in Int /\ << >> \in Seq(Write) /\ 0 \in Nat
  <2>1. first.entry.queued_bytes \in Int
    BY Zenon, <1>1 DEF Sound, Entry
  <2>2. write.size \in Nat
    BY Zenon, <1>2 DEF Write
  <2> QED
    BY <2>1, <2>2
<1>4. done \in Entry
  BY <1>1, <1>3, Zenon DEF Sound, Entry
<1>5. Told(done) /\ done.state = first.entry.state /\ done.uv_closes = first.entry.uv_closes
  BY Zenon, <1>1, SameTold DEF Sound, Entry
<1> HIDE DEF done
<1>6. [done EXCEPT !.warn_size = 0] \in Entry
  BY <1>3, <1>4, Zenon DEF Entry
<1>7. Told(rest) /\ rest.state = done.state /\ rest.uv_closes = done.uv_closes
  BY Zenon, <1>4, <1>5, SameTold DEF Entry
<1>8. Sound(rest) /\ rest.state # "INVALID"
  BY <1>1, <1>4, <1>5, <1>6, <1>7 DEF Sound
<1> HIDE DEF rest
<1>9. Told(close_after_writes(rest)) /\ Told(pumped.entry)
  BY <1>7, <1>8, CloseAfterWritesTold, PumpWriteTold
<1> HIDE DEF pumped
<1>10. write_completed(e, ok, pump_ok).entry \in {close_after_writes(rest), pumped.entry, rest}
  BY Zenon DEF write_completed, Did, pumped, rest, calm, done, first, write
<1> QED
  BY <1>7, <1>9, <1>10

\* udp_received ends a UDP socket on an error.
LEMMA UdpReceivedTold ==
  ASSUME NEW e, Sound(e), Told(e), e.state = "UDP", NEW nread \in {"data", "error"}
  PROVE  Told(udp_received(e, nread).entry)
BY RejectTold DEF udp_received, finish_entry, Did

\* udp_write_completed reports an error that is no end.
LEMMA UdpWriteCompletedTold ==
  ASSUME NEW e, Sound(e), Told(e), NEW buf, NEW ok \in BOOLEAN
  PROVE  Told(udp_write_completed(e, buf, ok).entry)
BY Zenon, SameTold DEF udp_write_completed, Did, Sound, Entry

\* The commands that open a socket report its end when they reject it.
LEMMA OpenTold ==
  ASSUME NEW e, Sound(e), Told(e), NEW outcome \in OpenOutcome
  PROVE  /\ Told(process_listen(e, outcome).entry)
         /\ Told(process_connect(e, outcome).entry)
         /\ Told(process_bind(e, outcome).entry)
         /\ Told(process_udp(e, outcome).entry)
BY NewTold DEF process_listen, process_connect, process_bind, process_udp, open_entry,
   reject_entry, uv_close, Terminal, Unchanged, Did, Told, Sound, Entry, OpenOutcome

\* The sends and process_udp_connect report no end.
LEMMA SendTold ==
  ASSUME NEW e, Sound(e), Told(e), NEW command \in Command, NEW ok \in BOOLEAN
  PROVE  /\ Told(process_udp_send(e, command, ok).entry)
         /\ Told(process_send(e, command, ok).entry)
         /\ Told(process_udp_connect(e, ok).entry)
<1>1. Told(enqueue_write(e, command).entry)
  BY Zenon, SameTold DEF enqueue_write, Unchanged, Did, Sound, Entry
<1>2. Told(process_udp_send(e, command, ok).entry)
  BY Zenon, SameTold DEF process_udp_send, Unchanged, Did, Sound, Entry
<1>3. Told(process_send(e, command, ok).entry)
  BY <1>1, <1>2 DEF process_send, Did
<1>4. Told(process_udp_connect(e, ok).entry)
  BY SameTold DEF process_udp_connect, Unchanged, Did, Sound, Entry
<1> QED
  BY <1>2, <1>3, <1>4
-----------------------------------------------------------------------------
(***************************************************************************)
(* The third part: a handler leaves an entry with no buffer it did not     *)
(* hold before, but for the buffer of the command that is being handled.   *)
(***************************************************************************)
\* The buffers of a list after a write was appended to it or taken from it.
LEMMA BuffersOf ==
  ASSUME NEW list \in Seq(Write)
  PROVE  /\ Buffers(<< >>) = {}
         /\ \A w \in Write : Buffers(<<w>>) = {w.buf}
         /\ \A w \in Write : Buffers(Append(list, w)) = Buffers(list) \cup {w.buf}
         /\ list # << >> => Head(list).buf \in Buffers(list) /\ Buffers(Tail(list)) \subseteq Buffers(list)
<1>1. Buffers(<< >>) = {}
  BY DEF Buffers
<1>2. ASSUME NEW w \in Write PROVE Buffers(<<w>>) = {w.buf}
  BY DEF Buffers
<1>3. ASSUME NEW w \in Write PROVE Buffers(Append(list, w)) = Buffers(list) \cup {w.buf}
  BY DEF Buffers
<1>4. ASSUME list # << >>
      PROVE  Head(list).buf \in Buffers(list) /\ Buffers(Tail(list)) \subseteq Buffers(list)
  BY <1>4 DEF Buffers
<1> QED
  BY <1>1, <1>2, <1>3, <1>4

\* An entry with the same lists holds the same buffers.
LEMMA SameHeld ==
  ASSUME NEW e, NEW f, f.writing = e.writing, f.high = e.high, f.low = e.low,
         f.udp_writes = e.udp_writes
  PROVE  HeldBuffers(f) = HeldBuffers(e)
BY DEF HeldBuffers

\* An empty slot and a new entry hold none.
LEMMA NewHeld ==
  /\ HeldBuffers(NoEntry) = {}
  /\ \A id, opaque : HeldBuffers(ReservedEntry(id, opaque)) = {}
<1>1. Buffers(<< >>) = {}
  BY DEF Buffers
<1>2. \A r : r.writing = << >> /\ r.high = << >> /\ r.low = << >> /\ r.udp_writes = {} => HeldBuffers(r) = {}
  BY <1>1 DEF HeldBuffers
<1>3. NoEntry.writing = << >> /\ NoEntry.high = << >> /\ NoEntry.low = << >> /\ NoEntry.udp_writes = {}
  BY DEF NoEntry
<1>4. ASSUME NEW id, NEW opaque 
      PROVE  LET r == ReservedEntry(id, opaque)
             IN  r.writing = << >> /\ r.high = << >> /\ r.low = << >> /\ r.udp_writes = {}
  BY DEF ReservedEntry, NoEntry
<1> QED
  BY <1>2, <1>3, <1>4

\* Closing the handle leaves the lists to close_entry.
LEMMA CloseHeld ==
  ASSUME NEW e \in Entry
  PROVE  /\ HeldBuffers(uv_close(e)) = HeldBuffers(e)
         /\ HeldBuffers(Terminal(e)) = HeldBuffers(e)
         /\ HeldBuffers(reject_entry(e).entry) = HeldBuffers(e)
<1>1. HeldBuffers(uv_close(e)) = HeldBuffers(e) /\ HeldBuffers(Terminal(e)) = HeldBuffers(e)
  BY Zenon, SameHeld DEF uv_close, Terminal, Entry
<1>2. HeldBuffers(uv_close(Terminal(e))) = HeldBuffers(e)
  BY Zenon, SameHeld DEF uv_close, Terminal, Entry
<1> QED
  BY <1>1, <1>2 DEF reject_entry, Did

\* So does every way in which a socket ends.
LEMMA FailWriteHeld ==
  ASSUME NEW e \in Entry
  PROVE  /\ HeldBuffers(fail_write(e).entry) = HeldBuffers(e)
         /\ HeldBuffers(finish_entry(e).entry) = HeldBuffers(e)
         /\ HeldBuffers(close_after_writes(e)) = HeldBuffers(e)
BY CloseHeld DEF fail_write, finish_entry, close_after_writes, Unchanged, Did

\* No callback but those of writes touches the lists.
LEMMA ReadHeld ==
  ASSUME NEW e \in Entry, NEW nread \in {"data", "eof", "error"}
  PROVE  HeldBuffers(read_completed(e, nread).entry) = HeldBuffers(e)
<1>1. CASE nread = "data"
  BY <1>1 DEF read_completed, Did
<1>2. CASE nread = "eof"
  BY Zenon, <1>2, SameHeld DEF read_completed, Terminal, Unchanged, Did, Entry
<1>3. CASE nread = "error"
  BY <1>3, FailWriteHeld DEF read_completed
<1> QED
  BY <1>1, <1>2, <1>3

\* The same for connect_completed,
LEMMA ConnectHeld ==
  ASSUME NEW e \in Entry, NEW ok \in BOOLEAN
  PROVE  HeldBuffers(connect_completed(e, ok).entry) = HeldBuffers(e)
BY Zenon, SameHeld DEF connect_completed, reject_entry, uv_close, Terminal, start_reading,
   Unchanged, Did, Entry

\* for START,
LEMMA StartHeld ==
  ASSUME NEW e \in Entry, NEW command \in Command, NEW ok \in BOOLEAN
  PROVE  HeldBuffers(process_start(e, command, ok).entry) = HeldBuffers(e)
BY Zenon, SameHeld DEF process_start, Owned, reject_entry, uv_close, Terminal, start_reading,
   Did, Entry

\* for PAUSE and UDP_CONNECT; exit_entry and close_entry may free the entry,
LEMMA ControlHeld ==
  ASSUME NEW e \in Entry, NEW ok \in BOOLEAN
  PROVE  /\ HeldBuffers(process_pause(e, ok).entry) = HeldBuffers(e)
         /\ HeldBuffers(process_udp_connect(e, ok).entry) = HeldBuffers(e)
         /\ HeldBuffers(exit_entry(e)) \subseteq HeldBuffers(e)
         /\ HeldBuffers(close_entry(e).entry) \subseteq HeldBuffers(e)
<1>1. HeldBuffers(process_pause(e, ok).entry) = HeldBuffers(e)
  BY Zenon, SameHeld DEF process_pause, Unchanged, Did, Entry
<1>2. HeldBuffers(process_udp_connect(e, ok).entry) = HeldBuffers(e)
  BY Zenon, SameHeld DEF process_udp_connect, Unchanged, Did, Entry
<1> QED
  BY <1>1, <1>2, NewHeld, CloseHeld DEF exit_entry, close_entry, Did

\* and so may process_close
LEMMA CloseCommandHeld ==
  ASSUME NEW e \in Entry, NEW command \in Command
  PROVE  HeldBuffers(process_close(e, command).entry) \subseteq HeldBuffers(e)
<1> DEFINE owned   == Owned(e, command)
           closed  == IF e.state # "HALFCLOSE_READ" THEN Terminal(owned) ELSE owned
           drained == [closed EXCEPT !.reading = FALSE, !.close_requested = TRUE]
<1>1. command.opaque \in Nat
  BY DEF Command
<1>2. owned \in Entry
  BY <1>1, Zenon DEF Owned, Entry
<1>3. HeldBuffers(owned) = HeldBuffers(e)
  BY SameHeld, Zenon DEF Owned, Entry
<1> HIDE DEF owned
<1>4. owned.terminals + 1 \in Nat
  <2>1. owned.terminals \in Nat
    BY <1>2, Zenon DEF Entry
  <2> QED
    BY <2>1
<1>5. Terminal(owned) \in Entry
  BY <1>2, <1>4, Zenon DEF Terminal, Entry
<1>6. closed \in Entry /\ HeldBuffers(closed) = HeldBuffers(e)
  BY <1>2, <1>3, <1>5, CloseHeld
<1> HIDE DEF closed
<1>7. TRUE \in BOOLEAN /\ FALSE \in BOOLEAN
  OBVIOUS
<1>8. drained \in Entry
  BY <1>6, <1>7, Zenon DEF Entry
<1>9. HeldBuffers(drained) = HeldBuffers(e)
  BY <1>6, SameHeld, Zenon DEF Entry
<1> HIDE DEF drained
<1>10. HeldBuffers(close_after_writes(drained)) = HeldBuffers(e) /\ HeldBuffers(uv_close(closed)) = HeldBuffers(e)
  BY <1>6, <1>8, <1>9, FailWriteHeld, CloseHeld
<1>11. process_close(e, command).entry \in {e, NoEntry, close_after_writes(drained), uv_close(closed)}
  BY Zenon DEF process_close, Unchanged, Did, owned, closed, drained
<1> QED
  BY <1>10, <1>11, NewHeld

\* and the commands that open a socket.
LEMMA OpenHeld ==
  ASSUME NEW e \in Entry, NEW outcome \in OpenOutcome
  PROVE  /\ HeldBuffers(process_listen(e, outcome).entry) \subseteq HeldBuffers(e)
         /\ HeldBuffers(process_connect(e, outcome).entry) \subseteq HeldBuffers(e)
         /\ HeldBuffers(process_bind(e, outcome).entry) \subseteq HeldBuffers(e)
         /\ HeldBuffers(process_udp(e, outcome).entry) \subseteq HeldBuffers(e)
<1>1. ASSUME NEW opened \in Entry, NEW told, HeldBuffers(opened) = HeldBuffers(e)
      PROVE  HeldBuffers(open_entry(e, outcome, opened, told).entry) \subseteq HeldBuffers(e)
  BY <1>1, NewHeld, CloseHeld DEF open_entry, Unchanged, Did, OpenOutcome
<1>2. /\ "LISTENING" \in State /\ "CONNECTING" \in State /\ "CONNECTED" \in State /\ "UDP" \in State
      /\ (outcome = "ok") \in BOOLEAN /\ TRUE \in BOOLEAN
  BY DEF State
<1>3. LET f == [e EXCEPT !.initialized = TRUE, !.state = "LISTENING"]
      IN  f \in Entry /\ HeldBuffers(f) = HeldBuffers(e)
  <2>1. [e EXCEPT !.initialized = TRUE, !.state = "LISTENING"] \in Entry
    BY <1>2, Zenon DEF Entry
  <2> QED
    BY Zenon, <2>1, SameHeld DEF Entry
<1>4. LET f == [e EXCEPT !.initialized = TRUE, !.state = "CONNECTING", !.connecting = (outcome = "ok")]
      IN  f \in Entry /\ HeldBuffers(f) = HeldBuffers(e)
  <2> DEFINE f == [e EXCEPT !.initialized = TRUE, !.state = "CONNECTING", !.connecting = (outcome = "ok")]
  <2>1. f \in Entry
    BY <1>2, Zenon DEF Entry
  <2>2. f.writing = e.writing /\ f.high = e.high /\ f.low = e.low /\ f.udp_writes = e.udp_writes
    BY Zenon DEF Entry
  <2> HIDE DEF f
  <2>3. f \in Entry /\ HeldBuffers(f) = HeldBuffers(e)
    BY <2>1, <2>2, SameHeld
  <2> QED
    BY <2>3 DEF f
<1>5. LET f == [e EXCEPT !.initialized = TRUE, !.state = "CONNECTED", !.reading = (outcome = "ok")]
      IN  f \in Entry /\ HeldBuffers(f) = HeldBuffers(e)
  <2> DEFINE f == [e EXCEPT !.initialized = TRUE, !.state = "CONNECTED", !.reading = (outcome = "ok")]
  <2>1. f \in Entry
    BY <1>2, Zenon DEF Entry
  <2>2. f.writing = e.writing /\ f.high = e.high /\ f.low = e.low /\ f.udp_writes = e.udp_writes
    BY Zenon DEF Entry
  <2> HIDE DEF f
  <2>3. f \in Entry /\ HeldBuffers(f) = HeldBuffers(e)
    BY <2>1, <2>2, SameHeld
  <2> QED
    BY <2>3 DEF f
<1>6. LET f == [e EXCEPT !.initialized = TRUE, !.is_udp = TRUE, !.state = "UDP"]
      IN  f \in Entry /\ HeldBuffers(f) = HeldBuffers(e)
  <2>1. [e EXCEPT !.initialized = TRUE, !.is_udp = TRUE, !.state = "UDP"] \in Entry
    BY <1>2, Zenon DEF Entry
  <2> QED
    BY Zenon, <2>1, SameHeld DEF Entry
<1> QED
  BY <1>1, <1>3, <1>4, <1>5, <1>6 DEF process_listen, process_connect, process_bind, process_udp

\* A datagram that has been sent leaves udp_writes.
LEMMA UdpHeld ==
  ASSUME NEW e \in Entry, NEW nread \in {"data", "error"}, NEW buf, NEW ok \in BOOLEAN
  PROVE  /\ HeldBuffers(udp_received(e, nread).entry) = HeldBuffers(e)
         /\ HeldBuffers(udp_write_completed(e, buf, ok).entry) \subseteq HeldBuffers(e)
<1>1. HeldBuffers(udp_received(e, nread).entry) = HeldBuffers(e)
  BY FailWriteHeld DEF udp_received, Did
<1>2. HeldBuffers([e EXCEPT !.udp_writes = @ \ {buf}]) \subseteq HeldBuffers(e)
  BY DEF HeldBuffers, Entry
<1> QED
  BY <1>1, <1>2 DEF udp_write_completed, Did

\* pump_write takes a write from a list and puts it in flight or drops it.
LEMMA PumpHeld ==
  ASSUME NEW e, Sound(e), e.state # "INVALID", NEW ok \in BOOLEAN
  PROVE  HeldBuffers(pump_write(e, ok).entry) \subseteq HeldBuffers(e)
<1>1. CASE e.writing # << >> \/ (e.high = << >> /\ e.low = << >>)
  BY <1>1 DEF pump_write, Unchanged, Did
<1>2. CASE ~(e.writing # << >> \/ (e.high = << >> /\ e.low = << >>))
  <2> DEFINE next  == IF e.high # << >> THEN Head(e.high) ELSE Head(e.low)
             taken == IF e.high # << >> THEN [e EXCEPT !.high = Tail(@)]
                                        ELSE [e EXCEPT !.low = Tail(@)]
             less  == [taken EXCEPT !.queued_bytes = @ - next.size]
             sent  == [taken EXCEPT !.writing = <<next>>]
  <2>1. /\ next \in Write
        /\ taken \in Entry /\ SameSocket(taken, e) /\ taken.uv_closes = e.uv_closes
        /\ taken.state = e.state
    BY <1>2, TakeWrite, Zenon
  <2>2. e \in Entry /\ e.high \in Seq(Write) /\ e.low \in Seq(Write)
    BY DEF Sound, Entry
  <2>3. /\ taken.writing = e.writing /\ taken.udp_writes = e.udp_writes
        /\ Buffers(taken.high) \subseteq Buffers(e.high) /\ Buffers(taken.low) \subseteq Buffers(e.low)
        /\ next.buf \in Buffers(e.high) \cup Buffers(e.low)
    BY Zenon, <1>2, <2>2, BuffersOf DEF Entry
  <2> HIDE DEF next, taken
  <2>4. /\ less.writing = taken.writing /\ less.udp_writes = taken.udp_writes
        /\ less.high = taken.high /\ less.low = taken.low
        /\ sent.writing = <<next>> /\ sent.udp_writes = taken.udp_writes
        /\ sent.high = taken.high /\ sent.low = taken.low
    BY <2>1 DEF Entry
  <2>5. less \in Entry
    <3>1. taken.queued_bytes - next.size \in Int
      BY <2>1 DEF Entry, Write
    <3> QED
      BY <2>1, <3>1, Zenon DEF Entry
  <2> HIDE DEF less, sent
  <2>6. HeldBuffers(less) \subseteq HeldBuffers(e)
    BY <2>3, <2>4 DEF HeldBuffers
  <2>7. HeldBuffers(sent) \subseteq HeldBuffers(e)
    <3>1. Buffers(<<next>>) = {next.buf}
      BY <2>1, <2>2, BuffersOf
    <3> QED
      BY <2>3, <2>4, <3>1 DEF HeldBuffers
  <2>8. HeldBuffers(fail_write(less).entry) \subseteq HeldBuffers(e)
    BY <2>5, <2>6, FailWriteHeld
  <2> QED
    BY Zenon, <1>2, <2>7, <2>8 DEF pump_write, next, taken, less, sent, Unchanged, Did
<1> QED
  BY <1>1, <1>2

\* write_completed drops the write in flight and may pump the next.
LEMMA WriteCompletedHeld ==
  ASSUME NEW e, Sound(e), e.state # "INVALID", e.writing # << >>,
         NEW ok \in BOOLEAN, NEW pump_ok \in BOOLEAN
  PROVE  HeldBuffers(write_completed(e, ok, pump_ok).entry) \subseteq HeldBuffers(e)
<1> DEFINE write  == e.writing[1]
           first  == IF ok \/ e.state = "CLOSING" THEN Unchanged(e) ELSE fail_write(e)
           done   == [first.entry EXCEPT !.queued_bytes = @ - write.size, !.writing = << >>]
           calm   == done.queued_bytes = 0 /\ done.warn_size > 0 /\ done.state # "CLOSING"
           rest   == IF calm THEN [done EXCEPT !.warn_size = 0] ELSE done
           pumped == pump_write(rest, pump_ok)
<1>1. Sound(first.entry) /\ first.entry.state # "INVALID" /\ HeldBuffers(first.entry) = HeldBuffers(e)
  BY UnchangedSound, FailWriteSound, FailWriteHeld DEF SoundCall, Unchanged, Did, Sound
<1>2. write \in Write
  BY DEF Sound, Entry
<1> HIDE DEF write, first
<1>3. first.entry.queued_bytes - write.size \in Int /\ << >> \in Seq(Write) /\ 0 \in Nat
      /\ first.entry \in Entry
  <2>1. first.entry \in Entry
    BY <1>1 DEF Sound
  <2>2. first.entry.queued_bytes \in Int
    BY <2>1, Zenon DEF Entry
  <2>3. write.size \in Int
    BY <1>2 DEF Write
  <2> QED
    BY <2>1, <2>2, <2>3
<1>4. done \in Entry
  BY <1>3, Zenon DEF Entry
<1>5. /\ done.state = first.entry.state /\ done.uv_closes = first.entry.uv_closes
      /\ HeldBuffers(done) \subseteq HeldBuffers(e)
  <2>1. /\ done.writing = << >> /\ done.high = first.entry.high /\ done.low = first.entry.low
        /\ done.udp_writes = first.entry.udp_writes
        /\ done.state = first.entry.state /\ done.uv_closes = first.entry.uv_closes
    BY <1>3 DEF Entry
  <2>2. Buffers(<< >>) = {}
    BY DEF Buffers
  <2> HIDE DEF done
  <2> QED
    BY <1>1, <2>1, <2>2 DEF HeldBuffers
<1> HIDE DEF done
<1>6. [done EXCEPT !.warn_size = 0] \in Entry
  BY <1>3, <1>4, Zenon DEF Entry
<1>7. HeldBuffers(rest) = HeldBuffers(done) /\ rest.state = done.state /\ rest.uv_closes = done.uv_closes
  BY <1>4, SameHeld DEF Entry
<1>8. Sound(rest) /\ rest.state # "INVALID" /\ rest \in Entry
  BY <1>1, <1>4, <1>5, <1>6, <1>7 DEF Sound
<1> HIDE DEF rest
<1>9. HeldBuffers(close_after_writes(rest)) = HeldBuffers(rest)
      /\ HeldBuffers(pumped.entry) \subseteq HeldBuffers(rest)
  BY <1>8, FailWriteHeld, PumpHeld
<1> HIDE DEF pumped
<1>10. write_completed(e, ok, pump_ok).entry \in {close_after_writes(rest), pumped.entry, rest}
  BY Zenon DEF write_completed, Did, pumped, rest, calm, done, first, write
<1> QED
  BY <1>5, <1>7, <1>9, <1>10

\* A send adds the buffer of its own command and no other.
LEMMA SendHeld ==
  ASSUME NEW e \in Entry, NEW command \in Command, NEW ok \in BOOLEAN
  PROVE  /\ HeldBuffers(process_udp_send(e, command, ok).entry) \subseteq HeldBuffers(e) \cup {command.buf}
         /\ HeldBuffers(process_send(e, command, ok).entry) \subseteq HeldBuffers(e) \cup {command.buf}
<1> DEFINE write  == [buf |-> command.buf, size |-> command.size]
           low    == [e EXCEPT !.low = Append(@, write), !.queued_bytes = @ + command.size]
           high   == [e EXCEPT !.high = Append(@, write), !.queued_bytes = @ + command.size]
           queued == IF command.type = "SEND_LOW" THEN low ELSE high
           warned == [queued EXCEPT !.warn_size = IF @ = 0 THEN WARNING_SIZE * 2 ELSE @ * 2]
<1>1. write \in Write /\ write.buf = command.buf
  BY DEF Command, Write
<1> HIDE DEF write
<1>2. e.low \in Seq(Write) /\ e.high \in Seq(Write)
  BY DEF Entry
<1>3. /\ Buffers(Append(e.low, write)) = Buffers(e.low) \cup {command.buf}
      /\ Buffers(Append(e.high, write)) = Buffers(e.high) \cup {command.buf}
  BY <1>1, <1>2, BuffersOf
<1>4. HeldBuffers(low) \subseteq HeldBuffers(e) \cup {command.buf}
  BY <1>3 DEF HeldBuffers, Entry
<1>5. HeldBuffers(high) \subseteq HeldBuffers(e) \cup {command.buf}
  BY <1>3 DEF HeldBuffers, Entry
<1>6. HeldBuffers(warned) = HeldBuffers(queued)
  BY Zenon, SameHeld DEF Entry
<1> HIDE DEF low, high, warned
<1>7. HeldBuffers(enqueue_write(e, command).entry) \subseteq HeldBuffers(e) \cup {command.buf}
  <2>1. enqueue_write(e, command).entry \in {queued, warned}
    BY DEF enqueue_write, Unchanged, Did, warned, low, high, write
  <2> QED
    BY <1>4, <1>5, <1>6, <2>1
<1>8. HeldBuffers([e EXCEPT !.udp_writes = @ \cup {command.buf}]) \subseteq HeldBuffers(e) \cup {command.buf}
  BY DEF HeldBuffers, Entry
<1>9. HeldBuffers(process_udp_send(e, command, ok).entry) \subseteq HeldBuffers(e) \cup {command.buf}
  BY <1>8 DEF process_udp_send, Unchanged, Did
<1>10. HeldBuffers(process_send(e, command, ok).entry) \subseteq HeldBuffers(e) \cup {command.buf}
  BY <1>7, <1>9 DEF process_send, Did
<1> QED
  BY <1>9, <1>10
-----------------------------------------------------------------------------
(***************************************************************************)
(* The fourth part: only a send leaves a socket with writes that wait and  *)
(* none in flight, and no handler makes an accepted socket of another.     *)
(***************************************************************************)
Waits(e) ==
  /\ e.high # << >> \/ e.low # << >>
  /\ e.writing = << >> /\ e.state # "CLOSING" /\ ~e.close_requested

Orderly(e, f) ==
  /\ f.state = "ACCEPTED_PAUSED" => e.state = "ACCEPTED_PAUSED"
  /\ Waits(f) => Waits(e)

SameWrites(e, f) ==
  /\ f.high = e.high /\ f.low = e.low /\ f.writing = e.writing
  /\ e.close_requested => f.close_requested

\* Where the lists stay as they are only the state matters.
LEMMA SameOrder ==
  ASSUME NEW e, NEW f, SameWrites(e, f)
  PROVE  /\ f.state = e.state => Orderly(e, f)
         /\ e.state # "CLOSING" /\ f.state # "ACCEPTED_PAUSED" => Orderly(e, f)
BY Zenon DEF SameWrites, Orderly, Waits

\* A closing socket and an empty slot wait for nothing, nor does a new entry.
LEMMA EndOrder ==
  /\ \A e, f : f.state = "CLOSING" => Orderly(e, f)
  /\ \A e : Orderly(e, e) /\ Orderly(e, NoEntry)
  /\ \A e, id, opaque : Orderly(e, ReservedEntry(id, opaque))
<1>1. \A e, f : f.state = "CLOSING" => Orderly(e, f)
  BY Zenon DEF Orderly, Waits
<1>2. \A e : Orderly(e, e)
  BY Zenon DEF Orderly
<1>3. \A e, f : f.high = << >> /\ f.low = << >> /\ f.state # "ACCEPTED_PAUSED" => Orderly(e, f)
  BY Zenon DEF Orderly, Waits
<1>4. NoEntry.high = << >> /\ NoEntry.low = << >> /\ NoEntry.state # "ACCEPTED_PAUSED"
  BY DEF NoEntry
<1>5. \A id, opaque : LET r == ReservedEntry(id, opaque) IN
         r.high = << >> /\ r.low = << >> /\ r.state # "ACCEPTED_PAUSED"
  BY DEF ReservedEntry, NoEntry
<1> QED
  BY Zenon, <1>1, <1>2, <1>3, <1>4, <1>5

\* The callbacks other than that of a write.
LEMMA CallbacksOrder ==
  ASSUME NEW e, Sound(e), e.state # "INVALID", NEW ok \in BOOLEAN, NEW buf,
         NEW nread \in {"data", "eof", "error"}
  PROVE  /\ e.uv_closes = 0 => Orderly(e, read_completed(e, nread).entry)
         /\ Orderly(e, connect_completed(e, ok).entry)
         /\ Orderly(e, udp_received(e, nread).entry)
         /\ Orderly(e, udp_write_completed(e, buf, ok).entry)
         /\ Orderly(e, close_entry(e).entry)
<1>1. e \in Entry
  BY Zenon DEF Sound
<1>2. Orderly(e, finish_entry(e).entry)
  BY Zenon, FinishSound, EndOrder
<1>3. ASSUME e.uv_closes = 0 PROVE Orderly(e, read_completed(e, nread).entry)
  <2>1. e.state # "CLOSING"
    BY <1>3 DEF Sound
  <2>2. CASE nread = "eof"
    <3> DEFINE half == Terminal([e EXCEPT !.reading = FALSE, !.state = "HALFCLOSE_READ"])
    <3>1. SameWrites(e, half) /\ half.state = "HALFCLOSE_READ"
      BY <1>1 DEF SameWrites, Terminal, Entry
    <3> HIDE DEF half
    <3>2. Orderly(e, half)
      BY Zenon, <2>1, <3>1, SameOrder
    <3> QED
      BY Zenon, <2>2, <3>2, EndOrder DEF read_completed, Unchanged, Did, half
  <2>3. CASE nread = "data"
    BY Zenon, <2>3, EndOrder DEF read_completed, Did
  <2>4. CASE nread = "error"
    BY Zenon, <1>2, <2>4 DEF read_completed
  <2> QED
    BY Zenon, <2>2, <2>3, <2>4
<1>4. Orderly(e, connect_completed(e, ok).entry)
  <2> DEFINE connected == [e EXCEPT !.connecting = FALSE]
             open      == [start_reading(connected) EXCEPT !.state = "CONNECTED"]
  <2>1. connected \in Entry
    BY Zenon, <1>1 DEF Entry
  <2>2. /\ SameWrites(e, connected) /\ connected.state = e.state
        /\ SameWrites(e, open) /\ open.state = "CONNECTED"
    BY <1>1 DEF SameWrites, start_reading, Entry
  <2> HIDE DEF connected, open
  <2>3. Orderly(e, connected) /\ (e.state # "CLOSING" => Orderly(e, open))
    BY Zenon, <2>2, SameOrder
  <2>4. Orderly(e, reject_entry(connected).entry)
    BY Zenon, <2>1, RejectSound, EndOrder
  <2> QED
    BY <2>3, <2>4 DEF connect_completed, Unchanged, Did, connected, open
<1>5. Orderly(e, udp_received(e, nread).entry)
  BY Zenon, <1>2, EndOrder DEF udp_received, Did
<1>6. Orderly(e, udp_write_completed(e, buf, ok).entry)
  <2> DEFINE left == [e EXCEPT !.udp_writes = @ \ {buf}]
  <2>1. SameWrites(e, left) /\ left.state = e.state
    BY <1>1 DEF SameWrites, Entry
  <2> HIDE DEF left
  <2> QED
    BY Zenon, <2>1, SameOrder DEF udp_write_completed, Did, left
<1>7. Orderly(e, close_entry(e).entry)
  BY Zenon, EndOrder DEF close_entry, Did
<1> QED
  BY Zenon, <1>3, <1>4, <1>5, <1>6, <1>7

\* After pump_write no write waits: one is in flight, none is left, or the handle closes.
LEMMA PumpOrder ==
  ASSUME NEW e, Sound(e), e.state # "INVALID", NEW ok \in BOOLEAN
  PROVE  ~Waits(pump_write(e, ok).entry) /\ Orderly(e, pump_write(e, ok).entry)
<1>1. CASE e.writing # << >> \/ (e.high = << >> /\ e.low = << >>)
  BY Zenon, <1>1 DEF pump_write, Unchanged, Did, Waits, Orderly
<1>2. CASE ~(e.writing # << >> \/ (e.high = << >> /\ e.low = << >>))
  <2> DEFINE next  == IF e.high # << >> THEN Head(e.high) ELSE Head(e.low)
             taken == IF e.high # << >> THEN [e EXCEPT !.high = Tail(@)]
                                        ELSE [e EXCEPT !.low = Tail(@)]
             less  == [taken EXCEPT !.queued_bytes = @ - next.size]
             sent  == [taken EXCEPT !.writing = <<next>>]
  <2>1. /\ next \in Write
        /\ taken \in Entry /\ SameSocket(taken, e) /\ taken.uv_closes = e.uv_closes
        /\ taken.state = e.state
    BY <1>2, TakeWrite, Zenon
  <2> HIDE DEF next, taken
  <2>2. taken.queued_bytes - next.size \in Int
    BY <2>1 DEF Entry, Write
  <2>3. less \in Entry
    BY <2>1, <2>2, Zenon DEF Entry
  <2>4. /\ less.uv_closes = e.uv_closes /\ less.state = e.state
        /\ sent.writing = <<next>> /\ sent.state = e.state
    BY <2>1 DEF Entry
  <2>5. <<next>> # << >>
    OBVIOUS
  <2> HIDE DEF less, sent
  <2>6. Sound(less)
    BY <2>3, <2>4 DEF Sound
  <2>7. ~Waits(sent) /\ Orderly(e, sent)
    BY Zenon, <2>4, <2>5 DEF Waits, Orderly
  <2>8. fail_write(less).entry.state = "CLOSING"
    BY Zenon, <2>4, <2>6, FailWriteSound
  <2>9. ~Waits(fail_write(less).entry) /\ Orderly(e, fail_write(less).entry)
    BY Zenon, <2>8 DEF Waits, Orderly
  <2> QED
    BY Zenon, <1>2, <2>7, <2>9 DEF pump_write, next, taken, less, sent, Unchanged, Did
<1> QED
  BY <1>1, <1>2

\* Nor does one wait after write_completed, which pumps unless the socket ends.
LEMMA WriteCompletedOrder ==
  ASSUME NEW e, Sound(e), e.state # "INVALID", e.writing # << >>,
         NEW ok \in BOOLEAN, NEW pump_ok \in BOOLEAN
  PROVE  Orderly(e, write_completed(e, ok, pump_ok).entry)
<1> DEFINE write  == e.writing[1]
           first  == IF ok \/ e.state = "CLOSING" THEN Unchanged(e) ELSE fail_write(e)
           done   == [first.entry EXCEPT !.queued_bytes = @ - write.size, !.writing = << >>]
           calm   == done.queued_bytes = 0 /\ done.warn_size > 0 /\ done.state # "CLOSING"
           rest   == IF calm THEN [done EXCEPT !.warn_size = 0] ELSE done
           pumped == pump_write(rest, pump_ok)
           final  == write_completed(e, ok, pump_ok).entry
<1>1. /\ Sound(first.entry) /\ first.entry.state # "INVALID"
      /\ first.entry.state = e.state \/ first.entry.state = "CLOSING"
  BY UnchangedSound, FailWriteSound DEF SoundCall, Unchanged, Did, Sound
<1>2. write \in Write
  BY DEF Sound, Entry
<1> HIDE DEF write, first
<1>3. first.entry.queued_bytes - write.size \in Int /\ << >> \in Seq(Write) /\ 0 \in Nat
      /\ first.entry \in Entry
  <2>1. first.entry \in Entry
    BY <1>1 DEF Sound
  <2>2. first.entry.queued_bytes \in Int
    BY <2>1, Zenon DEF Entry
  <2>3. write.size \in Int
    BY <1>2 DEF Write
  <2> QED
    BY <2>1, <2>2, <2>3
<1>4. done \in Entry
  BY <1>3, Zenon DEF Entry
<1>5. done.state = first.entry.state /\ done.uv_closes = first.entry.uv_closes
  BY <1>3 DEF Entry
<1> HIDE DEF done
<1>6. [done EXCEPT !.warn_size = 0] \in Entry
  BY <1>3, <1>4, Zenon DEF Entry
<1>7. rest.state = done.state /\ rest.uv_closes = done.uv_closes
  BY <1>4 DEF Entry
<1>8. Sound(rest) /\ rest.state # "INVALID"
  BY <1>1, <1>4, <1>5, <1>6, <1>7 DEF Sound
<1> HIDE DEF rest
<1>9. SameSocket(close_after_writes(rest), rest) /\ close_after_writes(rest).state \in {"CLOSING", rest.state}
  BY <1>8, CloseAfterWritesSound, CloseSound DEF close_after_writes, Sound
<1>10. ~Waits(pumped.entry) /\ Orderly(rest, pumped.entry)
  BY Zenon, <1>8, PumpOrder
<1> HIDE DEF pumped
<1>11. \/ rest.close_requested /\ final = close_after_writes(rest)
       \/ final = pumped.entry
       \/ rest.state = "CLOSING" /\ final = rest
  BY Zenon DEF write_completed, Did, pumped, rest, calm, done, first, write
<1> HIDE DEF final
<1>12. ~Waits(final)
  BY Zenon, <1>9, <1>10, <1>11 DEF Waits, SameSocket, Continues
<1>13. final.state = "ACCEPTED_PAUSED" => e.state = "ACCEPTED_PAUSED"
  BY <1>1, <1>5, <1>7, <1>9, <1>10, <1>11 DEF Orderly
<1> QED
  BY Zenon, <1>12, <1>13 DEF Orderly, final

\* The commands that open a socket act on a reservation.
LEMMA OpenOrder ==
  ASSUME NEW e, Sound(e), NEW outcome \in OpenOutcome
  PROVE  /\ Orderly(e, process_listen(e, outcome).entry)
         /\ Orderly(e, process_connect(e, outcome).entry)
         /\ Orderly(e, process_bind(e, outcome).entry)
         /\ Orderly(e, process_udp(e, outcome).entry)
<1> DEFINE listening  == [e EXCEPT !.initialized = TRUE, !.state = "LISTENING"]
           connecting == [e EXCEPT !.initialized = TRUE, !.state = "CONNECTING",
                                   !.connecting = (outcome = "ok")]
           connected  == [e EXCEPT !.initialized = TRUE, !.state = "CONNECTED",
                                   !.reading = (outcome = "ok")]
           udp        == [e EXCEPT !.initialized = TRUE, !.is_udp = TRUE, !.state = "UDP"]
<1>1. e \in Entry
  BY Zenon DEF Sound
<1>2. ASSUME NEW f \in Entry, SameWrites(e, f), f.state # "ACCEPTED_PAUSED", NEW told
      PROVE  Orderly(e, open_entry(e, outcome, f, told).entry)
  <2>1. Orderly(e, reject_entry(f).entry)
    BY Zenon, <1>2, RejectSound, EndOrder
  <2>2. e.state = "RESERVED" => Orderly(e, f)
    BY Zenon, <1>2, SameOrder
  <2> QED
    BY <2>1, <2>2, EndOrder DEF open_entry, Unchanged, Did, OpenOutcome
<1>3. /\ "LISTENING" \in State /\ "CONNECTING" \in State /\ "CONNECTED" \in State /\ "UDP" \in State
      /\ (outcome = "ok") \in BOOLEAN /\ TRUE \in BOOLEAN
  BY DEF State
<1>4. listening \in Entry /\ udp \in Entry
  BY Zenon, <1>1, <1>3 DEF Entry
<1>5. connecting \in Entry
  BY Zenon, <1>1, <1>3 DEF Entry
<1>6. connected \in Entry
  BY Zenon, <1>1, <1>3 DEF Entry
<1>7. /\ SameWrites(e, listening) /\ listening.state = "LISTENING"
      /\ SameWrites(e, connecting) /\ connecting.state = "CONNECTING"
  BY <1>1 DEF SameWrites, Entry
<1>8. /\ SameWrites(e, connected) /\ connected.state = "CONNECTED"
      /\ SameWrites(e, udp) /\ udp.state = "UDP"
  BY <1>1 DEF SameWrites, Entry
<1> HIDE DEF listening, connecting, connected, udp
<1>9. \A f \in {listening, connecting, connected, udp} : \A told :
         Orderly(e, open_entry(e, outcome, f, told).entry)
  BY <1>2, <1>4, <1>5, <1>6, <1>7, <1>8
<1> QED
  BY Zenon, <1>9 DEF process_listen, process_connect, process_bind, process_udp,
     listening, connecting, connected, udp

\* The commands on an open socket other than sends.
LEMMA ControlOrder ==
  ASSUME NEW e, Sound(e), NEW command \in Command, NEW ok \in BOOLEAN
  PROVE  /\ Orderly(e, process_start(e, command, ok).entry)
         /\ Orderly(e, process_pause(e, ok).entry)
         /\ Orderly(e, process_udp_connect(e, ok).entry)
         /\ Orderly(e, process_udp_send(e, command, ok).entry)
<1>1. e \in Entry
  BY Zenon DEF Sound
<1>2. Orderly(e, process_start(e, command, ok).entry)
  <2> DEFINE owned   == Owned(e, command)
             reading == [start_reading(owned) EXCEPT !.state = "CONNECTED"]
  <2>1. owned \in Entry
    BY Zenon, <1>1, OwnedSound
  <2>2. /\ SameWrites(e, owned) /\ owned.state = e.state
        /\ SameWrites(e, reading) /\ reading.state = "CONNECTED"
    BY <1>1 DEF SameWrites, start_reading, Owned, Entry
  <2> HIDE DEF owned, reading
  <2>3. Orderly(e, owned) /\ (e.state # "CLOSING" => Orderly(e, reading))
    BY Zenon, <2>2, SameOrder
  <2>4. Orderly(e, reject_entry(owned).entry)
    BY Zenon, <2>1, RejectSound, EndOrder
  <2> QED
    BY <2>3, <2>4, EndOrder DEF process_start, Did, owned, reading
<1>3. Orderly(e, process_pause(e, ok).entry)
  <2> DEFINE paused == [e EXCEPT !.reading = FALSE, !.state = "CONNECTED_PAUSED"]
  <2>1. SameWrites(e, paused) /\ paused.state = "CONNECTED_PAUSED"
    BY <1>1 DEF SameWrites, Entry
  <2> HIDE DEF paused
  <2>2. e.state # "CLOSING" => Orderly(e, paused)
    BY Zenon, <2>1, SameOrder
  <2> QED
    BY <2>2, EndOrder DEF process_pause, Unchanged, Did, paused
<1>4. Orderly(e, process_udp_connect(e, ok).entry)
  <2> DEFINE targeted == [e EXCEPT !.has_udp_target = TRUE]
  <2>1. SameWrites(e, targeted) /\ targeted.state = e.state
    BY <1>1 DEF SameWrites, Entry
  <2> HIDE DEF targeted
  <2>2. Orderly(e, targeted)
    BY Zenon, <2>1, SameOrder
  <2> QED
    BY Zenon, <2>2, EndOrder DEF process_udp_connect, Unchanged, Did, targeted
<1>5. Orderly(e, process_udp_send(e, command, ok).entry)
  <2> DEFINE more == [e EXCEPT !.udp_writes = @ \cup {command.buf}]
  <2>1. SameWrites(e, more) /\ more.state = e.state
    BY <1>1 DEF SameWrites, Entry
  <2> HIDE DEF more
  <2>2. Orderly(e, more)
    BY Zenon, <2>1, SameOrder
  <2> QED
    BY <2>2, EndOrder DEF process_udp_send, Unchanged, Did, more
<1> QED
  BY Zenon, <1>2, <1>3, <1>4, <1>5

\* A socket that is being closed waits for nothing that could be pumped.
LEMMA CloseOrder ==
  ASSUME NEW e, Sound(e), NEW command \in Command
  PROVE  Orderly(e, process_close(e, command).entry)
<1> DEFINE owned    == Owned(e, command)
           closed   == IF e.state # "HALFCLOSE_READ" THEN Terminal(owned) ELSE owned
           draining == [closed EXCEPT !.reading = FALSE, !.close_requested = TRUE]
<1>1. e \in Entry
  BY Zenon DEF Sound
<1>2. owned \in Entry /\ owned.state = e.state
  BY Zenon, <1>1, OwnedSound
<1> HIDE DEF owned
<1>3. closed \in Entry /\ closed.state = e.state
  BY Zenon, <1>2, CloseSound
<1> HIDE DEF closed
<1>4. uv_close(closed).state = "CLOSING"
  BY Zenon, <1>3, CloseSound
<1>5. draining \in Entry
  BY Zenon, <1>3 DEF Entry
<1>6. draining.state = e.state /\ draining.close_requested
  BY Zenon, <1>3 DEF Entry
<1> HIDE DEF draining
<1>7. Orderly(e, close_after_writes(draining))
  <2>1. Orderly(e, draining)
    BY Zenon, <1>6 DEF Orderly, Waits
  <2>2. Orderly(e, uv_close(draining))
    BY Zenon, <1>5, CloseSound, EndOrder
  <2> QED
    BY Zenon, <2>1, <2>2 DEF close_after_writes
<1>8. process_close(e, command).entry \in {e, NoEntry, close_after_writes(draining), uv_close(closed)}
  BY Zenon DEF process_close, Unchanged, Did, owned, closed, draining
<1> QED
  BY <1>4, <1>7, <1>8, EndOrder

\* exit and release close or free what they find.
LEMMA ExitOrder ==
  ASSUME NEW e \in Entry
  PROVE  Orderly(e, exit_entry(e))
<1>1. exit_entry(e) \in {NoEntry, e, uv_close(e)}
  BY Zenon DEF exit_entry
<1>2. Orderly(e, uv_close(e))
  BY Zenon, CloseSound, EndOrder
<1> QED
  BY <1>1, <1>2, EndOrder

\* A send on a socket without a write in flight leaves its buffer in one of the lists,
\* which is how ProcessSend knows that the socket belongs on the pump list.
LEMMA SendOrder ==
  ASSUME NEW e, Sound(e), NEW command \in Command, NEW ok \in BOOLEAN
  PROVE  LET f == process_send(e, command, ok).entry IN
         /\ f.state = "ACCEPTED_PAUSED" => e.state = "ACCEPTED_PAUSED"
         /\ Waits(f) => \/ Waits(e)
                        \/ /\ e.writing = << >>
                           /\ command.buf \in Buffers(f.high) \cup Buffers(f.low)
<1> DEFINE write  == [buf |-> command.buf, size |-> command.size]
           low    == [e EXCEPT !.low = Append(@, write), !.queued_bytes = @ + command.size]
           high   == [e EXCEPT !.high = Append(@, write), !.queued_bytes = @ + command.size]
           queued == IF command.type = "SEND_LOW" THEN low ELSE high
           warned == [queued EXCEPT !.warn_size = IF @ = 0 THEN WARNING_SIZE * 2 ELSE @ * 2]
           final  == process_send(e, command, ok).entry
           Queued(f) == /\ f.state = e.state /\ f.writing = e.writing
                        /\ command.buf \in Buffers(f.high) \cup Buffers(f.low)
<1>1. e \in Entry /\ write \in Write /\ write.buf = command.buf
  BY DEF Sound, Command, Write
<1> HIDE DEF write
<1>2. e.low \in Seq(Write) /\ e.high \in Seq(Write)
  BY <1>1 DEF Entry
<1>3. command.buf \in Buffers(Append(e.low, write)) /\ command.buf \in Buffers(Append(e.high, write))
  <2>1. /\ Buffers(Append(e.low, write)) = Buffers(e.low) \cup {command.buf}
        /\ Buffers(Append(e.high, write)) = Buffers(e.high) \cup {command.buf}
    BY <1>1, <1>2, BuffersOf
  <2> QED
    BY <2>1
<1>4. Queued(low)
  <2>1. low.low = Append(e.low, write) /\ low.state = e.state /\ low.writing = e.writing
    BY Zenon, <1>1 DEF Entry
  <2> QED
    BY Zenon, <1>3, <2>1
<1>5. Queued(high)
  <2>1. high.high = Append(e.high, write) /\ high.state = e.state /\ high.writing = e.writing
    BY Zenon, <1>1 DEF Entry
  <2> QED
    BY Zenon, <1>3, <2>1
<1>6. queued.high = warned.high /\ queued.low = warned.low /\ queued.writing = warned.writing
      /\ queued.state = warned.state
  BY Zenon, <1>1 DEF Entry
<1> HIDE DEF low, high, warned
<1>7. Queued(queued)
  BY <1>4, <1>5
<1>8. Queued(warned)
  BY Zenon, <1>6, <1>7
<1>9. final \in {e, queued, warned} \/ final = process_udp_send(e, command, ok).entry
  <2>1. \/ process_send(e, command, ok) = process_udp_send(e, command, ok)
        \/ process_send(e, command, ok).entry = e
        \/ process_send(e, command, ok) = enqueue_write(e, command)
    BY DEF process_send, Did
  <2>2. enqueue_write(e, command).entry \in {queued, warned}
    BY Zenon DEF enqueue_write, Unchanged, Did, warned, low, high, write
  <2> QED
    BY Zenon, <2>1, <2>2
<1>10. Orderly(e, process_udp_send(e, command, ok).entry)
  BY Zenon, ControlOrder
<1> HIDE DEF final, queued
<1>11. /\ final.state = "ACCEPTED_PAUSED" => e.state = "ACCEPTED_PAUSED"
       /\ Waits(final) => \/ Waits(e)
                          \/ /\ e.writing = << >>
                             /\ command.buf \in Buffers(final.high) \cup Buffers(final.low)
  <2>1. CASE final \in {queued, warned}
    BY Zenon, <1>7, <1>8, <2>1 DEF Waits
  <2>2. CASE final = e \/ final = process_udp_send(e, command, ok).entry
    BY Zenon, <1>10, <2>2 DEF Orderly
  <2> QED
    BY <1>9, <2>1, <2>2
<1> QED
  BY Zenon, <1>11 DEF final
=============================================================================
