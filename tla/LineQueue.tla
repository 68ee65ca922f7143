----------------------------- MODULE LineQueue ------------------------------
(***************************************************************************)
(* What the queue behind client.socket.readstdin promises: lines leave in  *)
(* the order in which they came, one is turned away only when CAPACITY     *)
(* lines are waiting (which is remembered) or after a failure (which is    *)
(* remembered as well), and nothing comes after the end of the input.      *)
(***************************************************************************)
EXTENDS Naturals, Sequences

CONSTANTS Line,        \* the lines
          CAPACITY     \* the number of lines that may wait

VARIABLES pending,     \* the lines that wait
          overflow,    \* a line was turned away because the queue was full
          failed,      \* a line was lost, or the input ended with a failure
          ended        \* no line will follow

vars == <<pending, overflow, failed, ended>>

Init ==
  /\ pending = << >>
  /\ overflow = FALSE
  /\ failed = FALSE
  /\ ended = FALSE

Put(line) ==
  /\ ~ended
  /\ Len(pending) < CAPACITY
  /\ pending' = Append(pending, line)
  /\ UNCHANGED <<overflow, failed, ended>>

TurnAway ==
  /\ ~ended
  /\ Len(pending) = CAPACITY
  /\ overflow' = TRUE
  /\ UNCHANGED <<pending, failed, ended>>

Fail ==
  /\ ~ended
  /\ failed' = TRUE
  /\ UNCHANGED <<pending, overflow, ended>>

Get ==
  /\ pending # << >>
  /\ pending' = Tail(pending)
  /\ UNCHANGED <<overflow, failed, ended>>

End ==
  /\ ~ended
  /\ ended' = TRUE
  /\ failed' \in {failed, TRUE}
  /\ UNCHANGED <<pending, overflow>>

Next == (\E line \in Line : Put(line)) \/ TurnAway \/ Fail \/ Get \/ End

Spec == Init /\ [][Next]_vars
=============================================================================
