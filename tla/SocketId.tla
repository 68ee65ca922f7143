------------------------------ MODULE SocketId ------------------------------
(***************************************************************************)
(* Socket identifiers of socket_internal.c: an int whose low               *)
(* SKYUV_SOCKET_SLOT_BITS bits are the index of a slot of the socket table *)
(* and whose next 15 bits are the generation of that slot.  Only the       *)
(* number of slots, 2^SLOT_BITS, matters to the arithmetic: masking with   *)
(* SLOT_COUNT - 1 is the remainder, shifting by SLOT_BITS the quotient,    *)
(* and the bitwise or of a shifted generation and a slot is their sum.     *)
(***************************************************************************)
EXTENDS Integers

CONSTANTS SLOT_COUNT,        \* SKYUV_SOCKET_SLOT_COUNT
          GENERATION_MAX     \* SKYUV_SOCKET_GENERATION_MAX, 0x7fff in the code

ASSUME SlotCountAssumption == SLOT_COUNT \in Nat \ {0}

ASSUME GenerationAssumption == GENERATION_MAX \in Nat \ {0}

Slot == 0 .. SLOT_COUNT - 1

Generation == 1 .. GENERATION_MAX

id_slot(id) == id % SLOT_COUNT

id_generation(id) == (id \div SLOT_COUNT) % (GENERATION_MAX + 1)

\* A generation is never 0, so that an identifier is never 0.
next_generation_no_skip(generation) ==
  (generation + 1) % (GENERATION_MAX + 1)

next_generation(generation) ==
  IF generation + 1 > GENERATION_MAX THEN 1 ELSE generation + 1

id_make(slot, generation) ==
  IF generation = 0 \/ generation > GENERATION_MAX \/ slot >= SLOT_COUNT
  THEN -1
  ELSE generation * SLOT_COUNT + slot
=============================================================================
