---------------------------- MODULE InstanceLock ----------------------------
(***************************************************************************)
(* What a PID file is for: of all processes that want to be the instance   *)
(* behind a name, one at a time is, and it stays so until it gives up or   *)
(* is killed.                                                              *)
(***************************************************************************)
CONSTANTS Process, Path

VARIABLE owners     \* the processes that own a name

Init == owners = [f \in Path |-> {}]

Take(p, f) ==
  /\ owners[f] = {}
  /\ owners' = [owners EXCEPT ![f] = {p}]

Drop(p, f) ==
  /\ p \in owners[f]
  /\ owners' = [owners EXCEPT ![f] = @ \ {p}]

Next == \E p \in Process, f \in Path : Take(p, f) \/ Drop(p, f)

Spec == Init /\ [][Next]_owners
=============================================================================
