--------------------------- MODULE CommandChannel ---------------------------
(***************************************************************************)
(* How a command travels from a thread to the loop thread: the command     *)
(* queue, the uv_async_t that wakes the loop, and consume_commands, which  *)
(* drains the queue.  Appending a command and waking the loop are two      *)
(* steps of the submitting thread (skyuv_socket_runtime_submit and _exit); *)
(* the loop pops one command at a time while threads keep appending.       *)
(* What a command does is abstracted away: a command is its type and its   *)
(* sender, with a number that tells a sender's commands apart.             *)
(*                                                                         *)
(* uv_async_send and the async callback are libuv's: sending sets a flag,  *)
(* any number of sends before the callback make one callback, and the loop *)
(* clears the flag before it calls consume_commands.                       *)
(***************************************************************************)
EXTENDS CommandQueue

CONSTANTS Threads,      \* the threads that submit commands
          MaxSubmits    \* bound on the commands one thread submits

ASSUME MaxSubmitsAssumption == MaxSubmits \in Nat

VARIABLES pc,             \* "idle", or "wake" between the append and the wake-up
          submits,        \* number of commands a thread has submitted
          async_pending,  \* uv_async_send was called, the callback has not run
          async_closing,  \* process_exit has called uv_close on the async
          loop,           \* "popping" and "pumping" are the two loops of consume_commands
          log,            \* all commands accepted, in order
          consumed        \* all commands popped, in order

vars == <<queue, accepting, pc, submits, async_pending, async_closing, loop,
          log, consumed>>

Command == [type : {"REQUEST", "EXIT"}, from : Threads, number : Nat]

Init ==
  /\ queue_init
  /\ pc = [t \in Threads |-> "idle"]
  /\ submits = [t \in Threads |-> 0]
  /\ async_pending = FALSE
  /\ async_closing = FALSE
  /\ loop = "outside"
  /\ log = << >>
  /\ consumed = << >>

\* A thread takes its next number; a refused submission stays with the caller.
Begin(t) ==
  /\ pc[t] = "idle"
  /\ submits[t] < MaxSubmits
  /\ submits' = [submits EXCEPT ![t] = @ + 1]

NewCommand(t, type) == [type |-> type, from |-> t, number |-> submits[t]]

Submit(t) ==
  /\ Begin(t)
  /\ LET command == NewCommand(t, "REQUEST") IN
     \/ /\ queue_push(command)
        /\ pc' = [pc EXCEPT ![t] = "wake"]
        /\ log' = Append(log, command)
     \/ /\ queue_refuses(command)
        /\ UNCHANGED <<queue, accepting, pc, log>>
  /\ UNCHANGED <<async_pending, async_closing, loop, consumed>>

Exit(t) ==
  /\ Begin(t)
  /\ LET command == NewCommand(t, "EXIT") IN
     \/ /\ queue_stop(command)
        /\ pc' = [pc EXCEPT ![t] = "wake"]
        /\ log' = Append(log, command)
     \/ /\ ~accepting
        /\ UNCHANGED <<queue, accepting, pc, log>>
  /\ UNCHANGED <<async_pending, async_closing, loop, consumed>>

Wake_only_outside(t) ==
  /\ pc[t] = "wake"
  /\ pc' = [pc EXCEPT ![t] = "idle"]
  /\ async_pending' = (async_pending \/ loop = "outside")
  /\ UNCHANGED <<queue, accepting, submits, async_closing, loop, log, consumed>>

Wake(t) ==
  /\ pc[t] = "wake"
  /\ pc' = [pc EXCEPT ![t] = "idle"]
  /\ async_pending' = TRUE
  /\ UNCHANGED <<queue, accepting, submits, async_closing, loop, log, consumed>>

\* The loop runs the async callback; a closing async is never called back.
AsyncCallback ==
  /\ loop = "outside"
  /\ async_pending
  /\ ~async_closing
  /\ async_pending' = FALSE
  /\ loop' = "popping"
  /\ UNCHANGED <<queue, accepting, pc, submits, async_closing, log, consumed>>

\* One turn of the first loop of consume_commands; EXIT closes the async.
Consume ==
  /\ loop = "popping"
  /\ queue_pop
  /\ consumed' = Append(consumed, Head(queue))
  /\ async_closing' = (async_closing \/ Head(queue).type = "EXIT")
  /\ UNCHANGED <<pc, submits, async_pending, loop, log>>

\* The pop that returns NULL ends the first loop; the second one starts writes,
\* and commands that arrive meanwhile wait for the next callback.
StopPopping ==
  /\ loop = "popping"
  /\ queue = << >>
  /\ loop' = "pumping"
  /\ UNCHANGED <<queue, accepting, pc, submits, async_pending, async_closing, log,
                 consumed>>

Return ==
  /\ loop = "pumping"
  /\ loop' = "outside"
  /\ UNCHANGED <<queue, accepting, pc, submits, async_pending, async_closing, log,
                 consumed>>

Loop == AsyncCallback \/ Consume \/ StopPopping \/ Return

Next ==
  \/ \E t \in Threads : Submit(t) \/ Exit(t) \/ Wake(t)
  \/ Loop

\* The loop thread keeps running the loop and a thread that has appended its
\* command goes on to the next line; nobody has to submit anything.
Fairness ==
  /\ WF_vars(Loop)
  /\ \A t \in Threads : WF_vars(Wake(t))

Spec == Init /\ [][Next]_vars /\ Fairness
-----------------------------------------------------------------------------
\* Types of the channel's state.
ChannelTypeInv ==
  /\ queue \in Seq(Command)
  /\ accepting \in BOOLEAN
  /\ pc \in [Threads -> {"idle", "wake"}]
  /\ submits \in [Threads -> 0 .. MaxSubmits]
  /\ async_pending \in BOOLEAN
  /\ async_closing \in BOOLEAN
  /\ loop \in {"outside", "popping", "pumping"}
  /\ log \in Seq(Command)
  /\ consumed \in Seq(Command)

\* Commands are consumed in the order in which they were accepted, none is lost
\* and none is consumed twice.
Fifo == consumed \o queue = log

\* EXIT is the last command ever accepted: the queue accepts exactly until then,
\* so every command accepted earlier is consumed before the loop starts to exit.
ExitIsLast ==
  \A i \in 1 .. Len(log) : log[i].type = "EXIT" <=> (i = Len(log) /\ ~accepting)

\* A wake-up is never lost: while commands are waiting and the loop is not popping
\* them, the async is pending or some thread is about to send it.
NoLostWakeup ==
  (queue # << >> /\ loop # "popping") => (async_pending \/ \E t \in Threads : pc[t] = "wake")

\* After consuming EXIT nothing is left to be consumed.
NothingAfterExit == async_closing => queue = << >>

\* Every accepted command is eventually consumed.
AcceptedIsConsumed ==
  \A t \in Threads, n \in 0 .. MaxSubmits - 1 :
     (\E i \in 1 .. Len(log) : log[i].from = t /\ log[i].number = n)
       ~> (\E i \in 1 .. Len(consumed) : consumed[i].from = t /\ consumed[i].number = n)
=============================================================================
