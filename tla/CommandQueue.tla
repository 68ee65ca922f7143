---------------------------- MODULE CommandQueue ----------------------------
(***************************************************************************)
(* struct skyuv_socket_command_queue: the FIFO through which every thread  *)
(* hands commands to the loop thread.  Each operation is one critical      *)
(* section of queue->mutex, so each is one atomic step here.  The caller   *)
(* of an operation that returns SKYUV_ERROR_INVALID_STATE keeps its        *)
(* command; queue_refuses is that condition.                               *)
(***************************************************************************)
EXTENDS Integers, Sequences

VARIABLES queue,       \* the linked list from head to tail
          accepting    \* FALSE once stopped or destroyed

queue_init ==
  /\ queue = << >>
  /\ accepting = TRUE

queue_refuses(command) == ~accepting \/ command.type = "EXIT"

queue_push(command) ==
  /\ ~queue_refuses(command)
  /\ queue' = Append(queue, command)
  /\ UNCHANGED accepting

queue_stop_keeps_accepting(command) ==
  /\ accepting
  /\ queue' = Append(queue, command)
  /\ UNCHANGED accepting

\* Refusing further commands and appending EXIT is one critical section.
queue_stop(command) ==
  /\ accepting
  /\ accepting' = FALSE
  /\ queue' = Append(queue, command)

queue_pop_newest ==
  /\ queue # << >>
  /\ queue' = SubSeq(queue, 1, Len(queue) - 1)
  /\ UNCHANGED accepting

queue_pop ==
  /\ queue # << >>
  /\ queue' = Tail(queue)
  /\ UNCHANGED accepting

queue_destroy ==
  /\ accepting' = FALSE
  /\ queue' = << >>
=============================================================================
