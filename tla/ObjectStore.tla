---------------------------- MODULE ObjectStore ----------------------------
(***************************************************************************)
(* What llxvm.runtime.Memory promises to the program it runs: storage made *)
(* of objects.  static holds the words of data and heap, stack[i] those of *)
(* the i-th frame (the first is the host's).  A new object never shares a  *)
(* word with a live one, and the contents of an object change only by a    *)
(* store to it, until it is given up: by sbrk for the heap, by return or   *)
(* longjmp for a frame.  The promise ends when the program needs more than *)
(* the data and stack segments hold.                                       *)
(***************************************************************************)
EXTENDS Integers, Sequences

VARIABLES
  static,   \* a function from words to their contents
  stack,    \* a sequence of such functions
  limits    \* "kept" or "exceeded"

NoWords == [a \in {} |-> 0]

Kept == limits = "kept" /\ limits' = "kept"

Agree(f, g) == \A a \in DOMAIN f \cap DOMAIN g : f[a] = g[a]

Disjoint == \* in the next state
  /\ \A i \in 1 .. Len(stack') : DOMAIN stack'[i] \cap DOMAIN static' = {}
  /\ \A i, j \in 1 .. Len(stack') :
       i # j => DOMAIN stack'[i] \cap DOMAIN stack'[j] = {}

Init ==
  /\ static = NoWords
  /\ stack = <<NoWords>>
  /\ limits = "kept"

Call ==
  /\ Kept
  /\ stack' = Append(stack, NoWords)
  /\ UNCHANGED static

Return ==
  /\ Kept
  /\ Len(stack) > 1
  /\ stack' = SubSeq(stack, 1, Len(stack) - 1)
  /\ UNCHANGED static

(* Objects are added to the frame on top; what is already there stays. *)
AllocateInFrame ==
  /\ Kept
  /\ Len(stack') = Len(stack)
  /\ \A i \in 1 .. Len(stack) - 1 : stack'[i] = stack[i]
  /\ DOMAIN stack[Len(stack)] \subseteq DOMAIN stack'[Len(stack)]
  /\ Agree(stack[Len(stack)], stack'[Len(stack)])
  /\ Disjoint
  /\ UNCHANGED static

(* Data grows, the heap grows or shrinks. *)
ResizeStatic ==
  /\ Kept
  /\ Agree(static, static')
  /\ Disjoint
  /\ UNCHANGED stack

(* A store changes one word of one object. *)
WriteStatic ==
  /\ Kept
  /\ \E a \in DOMAIN static : static' = [static EXCEPT ![a] = static'[a]]
  /\ UNCHANGED stack

WriteFrame ==
  /\ Kept
  /\ \E i \in 1 .. Len(stack) : \E a \in DOMAIN stack[i] :
        stack' = [stack EXCEPT ![i][a] = stack'[i][a]]
  /\ UNCHANGED static

Exceed == limits' = "exceeded" /\ static' = NoWords /\ stack' = <<NoWords>>

Next ==
  \/ Call \/ Return \/ AllocateInFrame \/ ResizeStatic
  \/ WriteStatic \/ WriteFrame \/ Exceed

Spec == Init /\ [][Next]_<<static, stack, limits>>
=============================================================================
