----------------------------- MODULE MCCallArgs -----------------------------
(***************************************************************************)
(* The calls of CallArgs for TLC: all with up to four arguments, and       *)
(* longer ones that descend from doubles to ints, with the sizes of their  *)
(* blocks on both sides of what bipush and sipush can push.                *)
(***************************************************************************)
EXTENDS CallArgs

Lists(sizes, n) == UNION {[1 .. m -> sizes] : m \in 0 .. n}

ShortCalls ==
  {c \in [pointer : BOOLEAN, fixed : Lists({1, 2, 4, 8}, 4),
          variadic : Lists({4, 8}, 4), reader : {"unpack", "VAArg"}] :
     /\ Len(c.fixed) + Len(c.variadic) <= 4
     /\ ~c.pointer \/ c.variadic # <<>> => c.fixed # <<>>}

Doubles(n) == [i \in 1 .. n |-> 8]

(* Blocks of 120, 124, 128, 248 and 256 bytes. *)
LongLists ==
  {Doubles(15), Doubles(15) \o <<4>>, Doubles(16), Doubles(31), Doubles(32)}

LongCalls ==
  {[pointer |-> TRUE, fixed |-> list, variadic |-> <<>>, reader |-> "unpack"] :
     list \in LongLists}
  \cup {[pointer |-> FALSE, fixed |-> <<4>>, variadic |-> list, reader |-> "unpack"] :
           list \in LongLists}

AllCalls == ShortCalls \cup LongCalls
=============================================================================
