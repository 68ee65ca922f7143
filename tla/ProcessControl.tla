--------------------------- MODULE ProcessControl ---------------------------
(***************************************************************************)
(* How a running node hears of signals and stops.  The loop of the socket  *)
(* runtime watches SIGHUP, SIGINT and SIGTERM (socket_internal.c); the     *)
(* socket thread learns of a hang-up from poll and has the logger reopen   *)
(* its file (socket_server_compat.c, skyuv_control.c, logger.c); a request *)
(* to terminate is a flag that the timer thread takes.  Skynet's own       *)
(* threads are not in this repository and are modelled from how they use   *)
(* these functions.                                                        *)
(*                                                                         *)
(* Each definition is what a function makes of the control state c of a    *)
(* process.  push_event loses the event when memory runs out: kept.        *)
(***************************************************************************)
EXTENDS Sequences, Naturals

Event == {"REOPEN_LOG", "PROCESS_SHUTDOWN"}

Control ==
  [signals : {"default", "on", "failed", "closed"},
   process_shutdown_requested : BOOLEAN,
   events : Seq(Event),
   services : {"up", "retiring", "gone"},      \* Skynet's services, the logger among them
   timer : {"running", "ended"},               \* Skynet's timer thread
   socket : {"running", "ended"},              \* Skynet's socket thread
   exit : {"no", "asked", "lost", "ready"},    \* the EXIT command of the runtime
   mail : Nat,                                 \* reopen messages in the logger's queue
   hangups : Nat]                              \* SIGHUPs whose reopening is still due

NewControl ==
  [signals |-> "default", process_shutdown_requested |-> FALSE, events |-> << >>,
   services |-> "up", timer |-> "running", socket |-> "running", exit |-> "no",
   mail |-> 0, hangups |-> 0]

\* The first poll watches the signals, all three or none.
initialize_process_signals(c, ok) == [c EXCEPT !.signals = IF ok THEN "on" ELSE "failed"]

push_event(c, event, kept) == IF kept THEN [c EXCEPT !.events = Append(@, event)] ELSE c

on_hangup_signal(c, kept) ==
  [push_event(c, "REOPEN_LOG", kept) EXCEPT !.hangups = IF kept THEN @ + 1 ELSE @]

on_termination_signal_event_only(c, kept) == push_event(c, "PROCESS_SHUTDOWN", kept)

on_termination_signal(c, kept) ==
  [push_event(c, "PROCESS_SHUTDOWN", kept) EXCEPT !.process_shutdown_requested = TRUE]

\* The signal part of process_exit: the handles are closed on the loop's thread,
\* after which a signal has its default effect again.
process_exit(c) ==
  [c EXCEPT !.signals = IF @ = "on" THEN "closed" ELSE @, !.exit = "ready"]

\* skyuv_skynet_reopen_log finds the logger by its name.
reopen_log(c) == IF c.services = "up" THEN [c EXCEPT !.mail = @ + 1] ELSE c

socket_server_poll_discards(c) == [c EXCEPT !.events = Tail(@)]

\* A turn of the loop of socket_server_poll: neither event is shown to Skynet.
socket_server_poll(c) ==
  LET taken == [c EXCEPT !.events = Tail(@)] IN
  IF Head(c.events) = "REOPEN_LOG" THEN reopen_log(taken) ELSE taken

\* socket_server_updatetime: taking the flag and skyuv_skynet_shutdown.
socket_server_updatetime(c) ==
  IF c.process_shutdown_requested
  THEN [c EXCEPT !.process_shutdown_requested = FALSE,
                 !.services = IF @ = "up" THEN "retiring" ELSE @]
  ELSE c

\* skyuv_logger_reopen: whether the new file can be opened or not, a log stays open.
logger_reopen(c) == [c EXCEPT !.mail = @ - 1, !.hangups = @ - 1]

\* Skynet: the last service is gone, with what is in its queue.
services_gone(c) == [c EXCEPT !.services = "gone", !.mail = 0, !.hangups = 0]

\* socket_server_exit does not look at the result: without memory for the command,
\* nobody asks the runtime again.
socket_server_exit(c, ok) == [c EXCEPT !.exit = IF ok THEN "asked" ELSE "lost"]

\* Skynet: the timer thread ends after that call.
timer_ends(c) == [c EXCEPT !.timer = "ended"]

\* poll has returned EXIT.
socket_ends(c) == [c EXCEPT !.socket = "ended"]
=============================================================================
