----------------------------- MODULE SocketLife -----------------------------
(***************************************************************************)
(* What the socket runtime promises about the life of a socket, leaving    *)
(* out everything it does with one.  A slot holds one socket after the     *)
(* other; each has its own generation, is opened at most once, and when it *)
(* was open is gone only after it has been closed.                         *)
(***************************************************************************)
CONSTANTS Slot, next_generation(_)

VARIABLES stage, generation

Stage == {"free", "reserved", "live", "draining", "closing"}

Init ==
  /\ stage = [s \in Slot |-> "free"]
  /\ generation = [s \in Slot |-> 0]

\* A call reserves a slot, or a connection arrives (and may fail at once).
Begin(s) ==
  /\ stage[s] = "free"
  /\ stage' \in {[stage EXCEPT ![s] = to] : to \in {"reserved", "live", "closing"}}
  /\ generation' = [generation EXCEPT ![s] = next_generation(@)]

\* A connection that could not be taken uses up a generation.
Skip(s) ==
  /\ stage[s] = "free"
  /\ generation' = [generation EXCEPT ![s] = next_generation(@)]
  /\ UNCHANGED stage

After(from) ==
  CASE from = "reserved" -> {"live", "closing", "free"}
    [] from = "live"     -> {"draining", "closing"}
    [] from = "draining" -> {"closing"}
    [] from = "closing"  -> {"free"}
    [] OTHER             -> {}

Move(s) ==
  /\ \E to \in After(stage[s]) : stage' = [stage EXCEPT ![s] = to]
  /\ UNCHANGED generation

\* exit and release close every socket at once.
CloseAll ==
  /\ stage' = [s \in Slot |-> CASE stage[s] = "reserved" -> "free"
                                [] stage[s] \in {"live", "draining"} -> "closing"
                                [] OTHER -> stage[s]]
  /\ UNCHANGED generation

Next == (\E s \in Slot : Begin(s) \/ Skip(s) \/ Move(s)) \/ CloseAll

Spec == Init /\ [][Next]_<<stage, generation>>
=============================================================================
