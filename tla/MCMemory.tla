------------------------------ MODULE MCMemory ------------------------------
(***************************************************************************)
(* Small instances of Memory for TLC: 96 bytes, 16 of them data and 32     *)
(* stack, room for four 8-byte slots.  Three frames, blocks and stores     *)
(* fill and exceed the stack; the break moves in steps that stop inside a  *)
(* page and at a boundary, and by the extreme increments.  The program is  *)
(* followed past an overrun, until the damage becomes a fault.  The limit  *)
(* instance moves the break once, to the bottom of the stack.              *)
(***************************************************************************)
EXTENDS Memory

MCIncrements == {-INT_MAX - 1, -24, 0, 24, INT_MAX}
MCStoreWords == {8, 36, 60, 72, 80, 84}

LimitIncrements == {48}
LimitStoreWords == {60, 80, 84}
=============================================================================
