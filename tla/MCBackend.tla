------------------------------ MODULE MCBackend ------------------------------
(***************************************************************************)
(* Types of 1, 2, 3, 4 and 6 bits, with all their values; the constants at *)
(* the ends of each range; all PHIs of up to two values, in either order.  *)
(***************************************************************************)
EXTENDS Backend

MCWidth == [i1 |-> 1, i8 |-> 2, i16 |-> 3, i32 |-> 4, i64 |-> 6]
MCConstants ==
    [ty \in DOMAIN MCWidth |->
        LET w == MCWidth[ty] IN {0, 1, 2^(w - 1) - 1, 2^(w - 1), 2^w - 1}]

Phi(dest, src) == [dest |-> dest, src |-> src]
Incoming == {"x", "y", "undef"}
MCEdgePhis ==
    {<< >>}
    \cup {<<Phi(d, s)>> : d \in {"x", "y"}, s \in Incoming}
    \cup {<<Phi("x", s), Phi("y", t)>> : s, t \in Incoming}
    \cup {<<Phi("y", s), Phi("x", t)>> : s, t \in Incoming}
=============================================================================
