------------------------------ MODULE MCClient ------------------------------
(***************************************************************************)
(* ClientRuntime with two connections: the peer of the first sends more    *)
(* bytes than its buffer holds, the second can only end, which gives       *)
(* select another socket to ask about and to be notified of.               *)
(***************************************************************************)
EXTENDS ClientRuntime

MCMaxBytes == <<3, 0>>
=============================================================================
