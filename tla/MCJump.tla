------------------------------- MODULE MCJump -------------------------------
(***************************************************************************)
(* Small instances of Jump: f has two setjmp sites, g has none; two        *)
(* jmp_bufs, so that a site can fill both and both can be stale.           *)
(***************************************************************************)
EXTENDS Jump

MCSites == [f |-> {1, 2}, g |-> {}]
=============================================================================
