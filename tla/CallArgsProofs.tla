--------------------------- MODULE CallArgsProofs ---------------------------
(***************************************************************************)
(* Proofs about CallArgs, for any sizes and any number of arguments: what  *)
(* the caller packs is what the callee unpacks, and packing in descending  *)
(* order of size leaves the caller's locals alone.                         *)
(***************************************************************************)
EXTENDS CallArgs, FiniteRecursion, SequenceTheorems, TLAPS

-----------------------------------------------------------------------------
(* Sums *)

(* The sizes of arguments. *)
Sizes == {1, 2, 4, 8}

(* The partial sums of Sum. *)
UpTo(sizes) ==
  LET upTo[i \in 0 .. Len(sizes)] ==
        IF i = 0 THEN 0 ELSE upTo[i - 1] + sizes[i]
  IN upTo

(* Sum is the last of the partial sums. *)
LEMMA SumIsUpTo ==
  ASSUME NEW sizes
  PROVE  Sum(sizes) = UpTo(sizes)[Len(sizes)]
  BY DEF Sum, UpTo

(* The recursion of UpTo has a solution, so that it can be unfolded. *)
LEMMA PartialSums ==
  ASSUME NEW sizes \in Seq(Sizes)
  PROVE  /\ UpTo(sizes) \in [0 .. Len(sizes) -> Nat]
         /\ UpTo(sizes)[0] = 0
         /\ \A i \in 1 .. Len(sizes) : UpTo(sizes)[i] = UpTo(sizes)[i - 1] + sizes[i]
  <1> DEFINE n == Len(sizes)
             step == [p \in (1 .. n) \X Nat |-> p[2] + sizes[p[1]]]
  <1>1. n \in Nat /\ \A i \in 1 .. n : sizes[i] \in Nat
    BY ElementOfSeq, LenProperties DEF Sizes
  <1>2. step \in [(1 .. n) \X Nat -> Nat]
    BY <1>1
  <1>3. \A i \in 1 .. n : \A v \in Nat : step[<<i, v>>] = v + sizes[i]
    OBVIOUS
  <1> HIDE DEF step, n
  <1>4. PICK f \in [0 .. n -> Nat] : IsIteration(f, n, 0, step)
    BY <1>1, <1>2, Iteration
  <1>5. \A i \in 1 .. n : f[i] = f[i - 1] + sizes[i]
    <2> SUFFICES ASSUME NEW i \in 1 .. n PROVE f[i] = f[i - 1] + sizes[i]
      OBVIOUS
    <2>1. i - 1 \in 0 .. n
      BY <1>1
    <2>2. f[i - 1] \in Nat
      BY <2>1
    <2>3. QED
      BY <1>3, <1>4, <2>2 DEF IsIteration
  <1>6. f = [i \in 0 .. n |-> IF i = 0 THEN 0 ELSE f[i - 1] + sizes[i]]
    BY <1>1, <1>4, <1>5 DEF IsIteration
  <1>7. UpTo(sizes) = [i \in 0 .. n |-> IF i = 0 THEN 0 ELSE UpTo(sizes)[i - 1] + sizes[i]]
    BY <1>6 DEF UpTo, n
  <1> DEFINE u == UpTo(sizes)
  <1> HIDE DEF u
  <1>8. u = [i \in 0 .. n |-> IF i = 0 THEN 0 ELSE u[i - 1] + sizes[i]]
    BY <1>7 DEF u
  <1>9. u[0] = 0 /\ \A i \in 1 .. n : u[i] = u[i - 1] + sizes[i]
    BY <1>1, <1>8
  <1>10. u \in [0 .. n -> Nat]
    <2> DEFINE S == {k \in 0 .. n : u[k] \in Nat}
    <2>1. 0 \in S
      BY <1>1, <1>9
    <2>2. ASSUME NEW k \in 1 .. n, k - 1 \in S PROVE k \in S
      <3>1. u[k - 1] \in Nat /\ sizes[k] \in Nat /\ u[k] = u[k - 1] + sizes[k]
        BY <1>1, <1>9, <2>2
      <3>2. QED
        BY <1>1, <3>1
    <2>3. \A k \in 0 .. n : k \in S
      <3> HIDE DEF S
      <3>1. QED
        BY <1>1, <2>1, <2>2, InductUpTo
    <2>5. \A k \in 0 .. n : u[k] \in Nat
      BY <2>3
    <2>6. QED
      BY <1>8, <2>5
  <1>11. QED
    BY <1>9, <1>10 DEF u, n

(* An argument takes one to eight bytes, so do the sums. *)
LEMMA SumBounds ==
  ASSUME NEW sizes \in Seq(Sizes)
  PROVE  /\ \A i \in 0 .. Len(sizes) : UpTo(sizes)[i] <= 8 * i
         /\ \A i \in 0 .. Len(sizes) : UpTo(sizes)[i] <= Sum(sizes)
         /\ Sum(sizes) \in Nat /\ Sum(sizes) <= 8 * Len(sizes)
  <1> DEFINE n == Len(sizes)
             u == UpTo(sizes)
  <1>1. n \in Nat /\ \A i \in 1 .. n : sizes[i] \in Sizes
    BY ElementOfSeq, LenProperties
  <1>2. /\ u \in [0 .. n -> Nat] /\ u[0] = 0
        /\ \A i \in 1 .. n : u[i] = u[i - 1] + sizes[i]
    BY PartialSums
  <1>3. Sum(sizes) = u[n]
    BY SumIsUpTo
  <1> HIDE DEF n, u
  <1>4. \A i \in 0 .. n : u[i] <= 8 * i
    <2> DEFINE S == {i \in 0 .. n : u[i] <= 8 * i}
    <2>1. 0 \in S
      BY <1>1, <1>2
    <2>2. ASSUME NEW k \in 1 .. n, k - 1 \in S PROVE k \in S
      <3>1. u[k - 1] \in Nat /\ u[k - 1] <= 8 * (k - 1) /\ sizes[k] \in Sizes
        BY <1>1, <1>2, <2>2
      <3>2. u[k] = u[k - 1] + sizes[k]
        BY <1>2
      <3>3. QED
        BY <1>1, <3>1, <3>2 DEF Sizes
    <2>3. \A k \in 0 .. n : k \in S
      <3> HIDE DEF S
      <3>1. QED
        BY <1>1, <2>1, <2>2, InductUpTo
    <2>4. QED
      BY <2>3
  <1>5. \A i \in 0 .. n : u[n - i] <= u[n]
    <2> DEFINE S == {i \in 0 .. n : u[n - i] <= u[n]}
    <2>1. 0 \in S
      BY <1>1, <1>2
    <2>2. ASSUME NEW k \in 1 .. n, k - 1 \in S PROVE k \in S
      <3> DEFINE j == n - (k - 1)
      <3>1. j \in 1 .. n /\ j - 1 = n - k
        BY <1>1
      <3> HIDE DEF j
      <3>2. u[j] = u[j - 1] + sizes[j] /\ u[j - 1] \in Nat /\ u[j] <= u[n] /\ u[n] \in Nat
        <4>1. u[j] <= u[n]
          BY <2>2 DEF j
        <4>2. QED
          BY <1>1, <1>2, <3>1, <4>1
      <3>3. sizes[j] \in Nat
        BY <1>1, <3>1 DEF Sizes
      <3>4. u[n - k] <= u[n]
        <4>1. u[j - 1] <= u[n]
          BY <3>2, <3>3
        <4>2. QED
          BY <3>1, <4>1
      <3>5. QED
        BY <1>1, <3>4
    <2>3. \A k \in 0 .. n : k \in S
      <3> HIDE DEF S
      <3>1. QED
        BY <1>1, <2>1, <2>2, InductUpTo
    <2>4. QED
      BY <2>3
  <1>6. ASSUME NEW i \in 0 .. n PROVE u[i] <= u[n]
    <2>1. n - i \in 0 .. n /\ n - (n - i) = i
      BY <1>1
    <2>2. u[n - (n - i)] <= u[n]
      BY <1>5, <2>1
    <2>3. QED
      BY <2>1, <2>2
  <1>7. u[n] \in Nat /\ u[n] <= 8 * n
    BY <1>1, <1>2, <1>4
  <1>8. QED
    BY <1>3, <1>4, <1>6, <1>7 DEF n, u

-----------------------------------------------------------------------------
(* The layout of the block *)

(* Where argument i ends, if the arguments from first on are packed from   *)
(* address start.                                                          *)
Ends(sizes, first, start) ==
  LET end[i \in 0 .. Len(sizes)] ==
        IF i < first THEN start ELSE alignOffsetUp(end[i - 1], sizes[i]) + sizes[i]
  IN end

(* The layout of the block of the current call. *)
End == Ends(args, FirstPacked, block)

(* The sizes of the arguments that are packed. *)
Packed == IF call.pointer THEN args ELSE call.variadic

(* The last argument stored so far. *)
LastPacked ==
  CASE pc = "refused" -> FirstPacked - 1
    [] pc = "pack" -> next - 1
    [] OTHER -> Len(args)

(* The block begins at an aligned address, far enough below the locals for *)
(* the sum of the sizes.                                                   *)
BlockInv ==
  /\ call \in Calls /\ block \in Nat /\ block % ALIGNMENT = 0
  /\ block + Sum(Packed) <= StackPointer

(* Every packed argument is where the layout puts it. *)
MemInv ==
  /\ mem \in [Bytes -> Tags]
  /\ \A i \in FirstPacked .. LastPacked : \A b \in 0 .. args[i] - 1 :
       mem[End[i] - args[i] + b] = [arg |-> i, byte |-> b]

(* The positions of the two sides. *)
CursorInv ==
  /\ next \in 1 .. Len(args) + 1
  /\ got \in Seq(0 .. MaxArgs)
  /\ pc \in {"refused", "pack", "params", "va_arg"}
  /\ pc = "refused" => cursor = block /\ got = <<>>
  /\ pc = "pack" =>
       /\ next >= FirstPacked /\ cursor = End[next - 1] /\ got = <<>>
       /\ \A i \in FirstPacked .. next - 1 : End[i] <= cursor
  /\ pc \in {"params", "va_arg"} => Len(got) = next - 1
  /\ pc = "params" =>
       call.pointer /\ next <= Len(call.fixed) + 1 /\ cursor = End[next - 1] /\ AllArguments
  /\ pc = "va_arg" /\ call.pointer =>
       /\ cursor = NoAddress /\ next >= Len(call.fixed) + 1
       /\ call.variadic = <<>> => AllArguments
  /\ pc = "va_arg" /\ ~call.pointer =>
       /\ next >= FirstPacked /\ cursor \in block .. block + 8 * (next - FirstPacked)
       /\ call.reader = "unpack" => cursor = End[next - 1] /\ AllArguments

(* No packed argument is wider than one before it. *)
Descending == \A i, j \in FirstPacked .. Len(args) : i <= j => args[i] >= args[j]

(* Without padding, the layout is that of the sums. *)
LocalsInv ==
  Descending =>
    /\ LocalsKept
    /\ pc = "pack" =>
         /\ cursor = block + UpTo(Packed)[next - FirstPacked]
         /\ next > FirstPacked => cursor % args[next - 1] = 0

(* The inductive invariant. *)
ArgsInv == BlockInv /\ MemInv /\ CursorInv /\ LocalsInv

(* Alignment, for the sizes there are. *)
LEMMA AlignUp ==
  ASSUME NEW x \in Nat, NEW s \in Sizes
  PROVE  LET at == alignOffsetUp(x, s) IN
         /\ at \in Nat /\ x <= at /\ at % s = 0
         /\ x % s = 0 => at = x
         /\ \A y \in Nat : x <= y /\ y % 8 = 0 => at <= y
  <1>1. CASE s = 1
    BY <1>1 DEF alignOffsetUp, alignOffsetDown
  <1>2. CASE s = 2
    BY <1>2 DEF alignOffsetUp, alignOffsetDown
  <1>3. CASE s = 4
    BY <1>3 DEF alignOffsetUp, alignOffsetDown
  <1>4. CASE s = 8
    BY <1>4 DEF alignOffsetUp, alignOffsetDown
  <1>5. QED
    BY <1>1, <1>2, <1>3, <1>4 DEF Sizes

(* What the layout is, and that an argument takes at most eight bytes of   *)
(* it with its padding.                                                    *)
LEMMA Layout ==
  ASSUME NEW sizes \in Seq(Sizes), NEW first \in 1 .. Len(sizes) + 1,
         NEW start \in Nat, start % 8 = 0
  PROVE  LET end == Ends(sizes, first, start) IN
         /\ \A i \in 0 .. first - 1 : end[i] = start
         /\ \A i \in first .. Len(sizes) :
              end[i] = alignOffsetUp(end[i - 1], sizes[i]) + sizes[i]
         /\ \A i \in first - 1 .. Len(sizes) :
              end[i] \in Nat /\ start <= end[i] /\ end[i] <= start + 8 * (i - first + 1)
  <1> DEFINE n == Len(sizes)
             Rule(i, v) == IF i < first THEN start ELSE alignOffsetUp(v, sizes[i]) + sizes[i]
             step == [p \in (1 .. n) \X Nat |-> Rule(p[1], p[2])]
  <1>1. n \in Nat /\ \A i \in 1 .. n : sizes[i] \in Sizes
    BY ElementOfSeq, LenProperties
  <1>2. ASSUME NEW i \in 1 .. n, NEW v \in Nat
        PROVE  Rule(i, v) \in Nat
    <2>1. sizes[i] \in Sizes /\ sizes[i] \in Nat
      BY <1>1 DEF Sizes
    <2>2. alignOffsetUp(v, sizes[i]) \in Nat
      BY <2>1, AlignUp
    <2>3. QED
      BY <2>1, <2>2
  <1>3. step \in [(1 .. n) \X Nat -> Nat]
    <2> HIDE DEF Rule
    <2>1. QED
      BY <1>2
  <1>4. \A i \in 1 .. n : \A v \in Nat : step[<<i, v>>] = Rule(i, v)
    OBVIOUS
  <1> HIDE DEF step, n
  <1>5. PICK f \in [0 .. n -> Nat] : IsIteration(f, n, start, step)
    BY <1>1, <1>3, Iteration
  <1>6. \A i \in 1 .. n : f[i] = Rule(i, f[i - 1])
    <2> SUFFICES ASSUME NEW i \in 1 .. n PROVE f[i] = Rule(i, f[i - 1])
      OBVIOUS
    <2>1. f[i - 1] \in Nat
      BY <1>1
    <2> HIDE DEF Rule
    <2>2. QED
      BY <1>4, <1>5, <2>1 DEF IsIteration
  <1>7. f = [i \in 0 .. n |-> IF i < first THEN start
                              ELSE alignOffsetUp(f[i - 1], sizes[i]) + sizes[i]]
    BY <1>1, <1>5, <1>6 DEF IsIteration
  <1> DEFINE u == Ends(sizes, first, start)
  <1>8. u = [i \in 0 .. n |-> IF i < first THEN start
                              ELSE alignOffsetUp(u[i - 1], sizes[i]) + sizes[i]]
    BY <1>7 DEF Ends, n
  <1> HIDE DEF u
  <1>9. /\ \A i \in 0 .. first - 1 : u[i] = start
        /\ \A i \in first .. n : u[i] = alignOffsetUp(u[i - 1], sizes[i]) + sizes[i]
    <2>1. n \in Nat /\ first \in 1 .. n + 1
      BY <1>1 DEF n
    <2>2. ASSUME NEW i \in 0 .. first - 1 PROVE u[i] = start
      <3>1. i \in 0 .. n /\ i < first
        BY <2>1
      <3>2. QED
        BY <1>8, <3>1
    <2>3. ASSUME NEW i \in first .. n
          PROVE  u[i] = alignOffsetUp(u[i - 1], sizes[i]) + sizes[i]
      <3>1. i \in 0 .. n /\ ~(i < first)
        BY <2>1
      <3>2. QED
        BY <1>8, <3>1
    <2>4. QED
      BY <2>2, <2>3
  <1> DEFINE Good(i) == u[i] \in Nat /\ start <= u[i] /\ u[i] <= start + 8 * (i - first + 1)
             S == {i \in 0 .. n : i >= first - 1 => Good(i)}
  <1>10. 0 \in S
    BY <1>1, <1>9
  <1>11. ASSUME NEW k \in 1 .. n, k - 1 \in S PROVE k \in S
    <2>1. CASE k < first
      <3>1. k >= first - 1 => k = first - 1 /\ k \in 0 .. first - 1
        BY <2>1
      <3>2. k >= first - 1 => Good(k)
        BY <1>9, <3>1
      <3>3. QED
        BY <1>1, <3>2
    <2>2. CASE k >= first
      <3>1. k \in first .. n /\ sizes[k] \in Sizes /\ k - 1 >= first - 1
        BY <1>1, <2>2
      <3>2. Good(k - 1)
        BY <1>11, <3>1
      <3> DEFINE at == alignOffsetUp(u[k - 1], sizes[k])
                 y == start + 8 * ((k - 1) - first + 1)
      <3>3. y \in Nat /\ y % 8 = 0 /\ u[k - 1] <= y
        <4>1. y \in Nat /\ u[k - 1] <= y
          BY <3>1, <3>2
        <4>2. y % 8 = 0
          BY <3>1
        <4>3. QED
          BY <4>1, <4>2
      <3>4. at \in Nat /\ u[k - 1] <= at /\ at <= y
        <4> HIDE DEF y
        <4>1. QED
          BY <3>1, <3>2, <3>3, AlignUp
      <3>5. u[k] = at + sizes[k]
        BY <1>9, <3>1
      <3> HIDE DEF at
      <3>6. Good(k)
        <4>1. sizes[k] \in Nat /\ sizes[k] <= 8
          BY <3>1 DEF Sizes
        <4>2. y + 8 = start + 8 * (k - first + 1)
          BY <3>1
        <4>3. u[k - 1] \in Nat /\ start <= u[k - 1]
          BY <3>2
        <4> HIDE DEF y
        <4>4. at + sizes[k] \in Nat /\ start <= at + sizes[k] /\ at + sizes[k] <= y + 8
          <5>1. ASSUME NEW v \in Nat, NEW a \in Nat, NEW z \in Nat, NEW s \in Nat,
                       start <= v, v <= a, a <= z, s <= 8
                PROVE  a + s \in Nat /\ start <= a + s /\ a + s <= z + 8
            BY <5>1
          <5> HIDE DEF Good, S
          <5>2. QED
            BY <3>3, <3>4, <4>1, <4>3, <5>1
        <4>5. QED
          BY <3>5, <4>2, <4>4
      <3>7. QED
        BY <3>6
    <2>3. QED
      BY <1>1, <2>1, <2>2
  <1>12. \A k \in 0 .. n : k \in S
    <2> HIDE DEF S
    <2>1. QED
      BY <1>1, <1>10, <1>11, InductUpTo
  <1>13. \A i \in first - 1 .. n : Good(i)
    BY <1>12
  <1>14. QED
    BY <1>9, <1>13 DEF u, n

-----------------------------------------------------------------------------
(* The invariant *)

(* The arguments of a call, and those of them that are packed. *)
CallFacts ==
  /\ args \in Seq(Sizes) /\ Packed \in Seq(Sizes)
  /\ Len(call.fixed) \in Nat /\ Len(call.variadic) \in Nat /\ MaxArgs \in Nat
  /\ Len(args) = Len(call.fixed) + Len(call.variadic)
  /\ Len(args) \in Nat /\ Len(args) <= MaxArgs
  /\ FirstPacked \in 1 .. Len(args) + 1
  /\ Len(Packed) = Len(args) - FirstPacked + 1
  /\ \A i \in FirstPacked .. Len(args) : args[i] = Packed[i - FirstPacked + 1]
  /\ \A i \in 1 .. Len(args) : args[i] \in Sizes
  /\ PackSize(call) = Sum(Packed)
  /\ call.pointer \in BOOLEAN
  /\ call.variadic = <<>> => Len(args) = Len(call.fixed)

(* What a call of Calls is made of. *)
LEMMA CallsHaveArguments ==
  ASSUME call \in Calls
  PROVE  CallFacts
  <1>1. /\ call.fixed \in Seq({1, 2, 4, 8}) /\ call.variadic \in Seq({4, 8})
        /\ Len(call.fixed) + Len(call.variadic) <= MaxArgs
        /\ call.pointer \in BOOLEAN
    BY CallAssumption
  <1>2. MaxArgs \in Nat
    BY SizeAssumption
  <1>3. /\ call.fixed \in Seq(Sizes) /\ Len(call.fixed) \in Nat
        /\ call.variadic \in Seq(Sizes) /\ Len(call.variadic) \in Nat
    <2>1. call.variadic \in Seq(Sizes)
      BY <1>1 DEF Sizes
    <2>2. QED
      BY <1>1, <2>1, LenProperties DEF Sizes
  <1>4. /\ args \in Seq(Sizes) /\ Len(args) = Len(call.fixed) + Len(call.variadic)
        /\ \A i \in 1 .. Len(args) :
             args[i] = IF i <= Len(call.fixed) THEN call.fixed[i]
                       ELSE call.variadic[i - Len(call.fixed)]
    BY <1>3, ConcatProperties DEF args
  <1>5. args \in Seq(Sizes) /\ Len(args) = Len(call.fixed) + Len(call.variadic)
    BY <1>4
  <1>6. Len(args) \in Nat
    BY <1>5, LenProperties
  <1> DEFINE PackedFacts ==
        /\ FirstPacked \in 1 .. Len(args) + 1
        /\ Packed \in Seq(Sizes) /\ Len(Packed) = Len(args) - FirstPacked + 1
        /\ \A i \in FirstPacked .. Len(args) : args[i] = Packed[i - FirstPacked + 1]
  <1>7. PackedFacts
    <2>1. CASE call.pointer
      <3>1. FirstPacked = 1 /\ Packed = args
        BY <2>1, Zenon DEF FirstPacked, Packed
      <3>2. \A i \in FirstPacked .. Len(args) : args[i] = Packed[i - FirstPacked + 1]
        <4>1. \A i \in 1 .. Len(args) : i - 1 + 1 = i
          OBVIOUS
        <4>2. QED
          BY <3>1, <4>1
      <3>3. 1 \in 1 .. Len(args) + 1 /\ Len(args) = Len(args) - 1 + 1
        BY <1>6
      <3>4. QED
        BY <1>5, <3>1, <3>2, <3>3
    <2>2. CASE ~call.pointer
      <3>1. FirstPacked = Len(call.fixed) + 1 /\ Packed = call.variadic
        BY <2>2, Zenon DEF FirstPacked, Packed
      <3>2. ASSUME NEW i \in FirstPacked .. Len(args)
            PROVE  args[i] = Packed[i - FirstPacked + 1]
        <4>1. /\ i \in 1 .. Len(args) /\ ~(i <= Len(call.fixed))
              /\ i - FirstPacked + 1 = i - Len(call.fixed)
          BY <1>3, <1>6, <3>1
        <4>2. QED
          BY <1>4, <3>1, <4>1
      <3>3. FirstPacked \in 1 .. Len(args) + 1
        <4>1. \A m, n \in Nat : m + 1 \in 1 .. (m + n) + 1
          OBVIOUS
        <4>2. QED
          BY <1>3, <1>5, <3>1, <4>1
      <3>4. Len(Packed) = Len(args) - FirstPacked + 1
        BY <1>3, <1>5, <3>1
      <3>5. QED
        BY <1>3, <3>1, <3>2, <3>3, <3>4
    <2>3. QED
      BY <2>1, <2>2
  <1>8. \A i \in 1 .. Len(args) : args[i] \in Sizes
    BY <1>4, ElementOfSeq
  <1>9. PackSize(call) = Sum(Packed)
    BY DEF PackSize, Packed, args
  <1>10. call.variadic = <<>> => Len(args) = Len(call.fixed)
    BY <1>3, <1>4
  <1>11. QED
    BY <1>1, <1>2, <1>3, <1>4, <1>5, <1>6, <1>7, <1>8, <1>9, <1>10 DEF CallFacts

(* Their numbers. *)
LEMMA Counts ==
  ASSUME CallFacts
  PROVE  /\ Len(args) \in Nat /\ MaxArgs \in Nat /\ Len(args) <= MaxArgs
         /\ Len(call.fixed) \in Nat /\ Len(call.variadic) \in Nat
         /\ Len(args) = Len(call.fixed) + Len(call.variadic)
         /\ FirstPacked \in 1 .. Len(args) + 1
         /\ Len(call.fixed) <= Len(args) /\ Len(call.fixed) <= MaxArgs
  <1>1. /\ Len(args) \in Nat /\ MaxArgs \in Nat /\ Len(args) <= MaxArgs
        /\ Len(call.fixed) \in Nat /\ Len(call.variadic) \in Nat
        /\ Len(args) = Len(call.fixed) + Len(call.variadic)
    BY DEF CallFacts
  <1>2. \A f, v, m \in Nat : f + v <= m => f <= f + v /\ f <= m
    OBVIOUS
  <1>3. Len(call.fixed) <= Len(args) /\ Len(call.fixed) <= MaxArgs
    BY <1>1, <1>2
  <1>4. QED
    BY <1>1, <1>3 DEF CallFacts

(* The layout of a block. *)
EndFacts ==
  /\ End[FirstPacked - 1] = block
  /\ \A i \in FirstPacked .. Len(args) :
       LET at == alignOffsetUp(End[i - 1], args[i]) IN
       /\ End[i] = at + args[i] /\ at \in Nat /\ End[i - 1] <= at
       /\ End[i - 1] % args[i] = 0 => at = End[i - 1]
       /\ args[i] \in Sizes
  /\ \A i \in FirstPacked - 1 .. Len(args) :
       /\ End[i] \in Nat /\ block <= End[i]
       /\ End[i] <= block + 8 * (i - FirstPacked + 1)
       /\ End[i] <= StackPointer + LocalSize

(* The layout of the block, where its start is aligned and low enough. *)
LEMMA BlockHasLayout ==
  ASSUME BlockInv
  PROVE  EndFacts
  <1> DEFINE n == Len(args)
             first == FirstPacked
  <1>1. CallFacts /\ block \in Nat /\ block % 8 = 0
    BY CallsHaveArguments DEF BlockInv, ALIGNMENT
  <1>2. /\ args \in Seq(Sizes) /\ n \in Nat /\ first \in 1 .. n + 1 /\ n <= MaxArgs
        /\ \A i \in 1 .. n : args[i] \in Sizes
    BY <1>1 DEF CallFacts
  <1>3. /\ \A i \in 0 .. first - 1 : End[i] = block
        /\ \A i \in first .. n : End[i] = alignOffsetUp(End[i - 1], args[i]) + args[i]
        /\ \A i \in first - 1 .. n :
              End[i] \in Nat /\ block <= End[i] /\ End[i] <= block + 8 * (i - first + 1)
    BY <1>1, <1>2, Layout DEF End
  <1>4. End[first - 1] = block
    BY <1>2, <1>3
  <1>5. ASSUME NEW i \in first .. n
        PROVE  LET at == alignOffsetUp(End[i - 1], args[i]) IN
               /\ End[i] = at + args[i] /\ at \in Nat /\ End[i - 1] <= at
               /\ End[i - 1] % args[i] = 0 => at = End[i - 1]
               /\ args[i] \in Sizes
    <2>1. i - 1 \in first - 1 .. n /\ i \in 1 .. n
      BY <1>2
    <2>2. End[i - 1] \in Nat /\ args[i] \in Sizes
      BY <1>2, <1>3, <2>1
    <2>3. QED
      BY <1>3, <2>2, AlignUp
  <1>6. ASSUME NEW i \in first - 1 .. n
        PROVE  End[i] <= StackPointer + LocalSize
    <2>1. /\ StackPointer \in Nat /\ MaxArgs \in Nat /\ LocalSize \in Nat
          /\ LocalSize >= 8 * MaxArgs
      BY SizeAssumption, StackAssumption
    <2>2. block <= StackPointer
      <3>1. Sum(Packed) \in Nat
        BY <1>1, SumBounds DEF CallFacts
      <3>2. QED
        BY <1>1, <2>1, <3>1 DEF BlockInv
    <2>3. End[i] \in Nat /\ End[i] <= block + 8 * (i - first + 1)
      BY <1>3
    <2>4. i - first + 1 <= MaxArgs /\ i - first + 1 \in Nat
      BY <1>2, <2>1
    <2>5. QED
      BY <1>1, <2>1, <2>2, <2>3, <2>4
  <1>7. QED
    BY <1>3, <1>4, <1>5, <1>6 DEF EndFacts

(* printOperandPack's allocation makes room for the sum of the sizes. *)
LEMMA InitInv == Init => ArgsInv
  <1> SUFFICES ASSUME Init PROVE ArgsInv
    OBVIOUS
  <1>1. CallFacts
    BY CallsHaveArguments DEF Init
  <1>2. /\ Packed \in Seq(Sizes) /\ Len(Packed) = Len(args) - FirstPacked + 1
        /\ PackSize(call) = Sum(Packed) /\ MaxArgs \in Nat
        /\ Len(args) \in Nat /\ Len(args) <= MaxArgs /\ FirstPacked \in 1 .. Len(args) + 1
    BY <1>1 DEF CallFacts
  <1>3. Sum(Packed) \in Nat /\ Sum(Packed) <= StackPointer /\ StackPointer \in Nat
    <2>1. Sum(Packed) \in Nat /\ Sum(Packed) <= 8 * Len(Packed)
      BY <1>2, SumBounds
    <2>2. Len(Packed) \in Nat /\ Len(Packed) <= MaxArgs
      BY <1>2
    <2>3. QED
      BY <1>2, <2>1, <2>2, StackAssumption
  <1>4. BlockInv
    <2>1. block = alignOffsetDown(StackPointer - Sum(Packed), 8) /\ call \in Calls
      BY <1>2 DEF Init, ALIGNMENT
    <2>2. \A x \in Nat : /\ alignOffsetDown(x, 8) \in Nat /\ alignOffsetDown(x, 8) <= x
                         /\ alignOffsetDown(x, 8) % 8 = 0
      BY DEF alignOffsetDown
    <2>3. StackPointer - Sum(Packed) \in Nat
      BY <1>3
    <2>4. block \in Nat /\ block % 8 = 0 /\ block <= StackPointer - Sum(Packed)
      BY <2>1, <2>2, <2>3
    <2>5. QED
      BY <1>3, <2>1, <2>4 DEF BlockInv, ALIGNMENT
  <1>5. EndFacts
    BY <1>4, BlockHasLayout
  <1>6. MemInv
    <2>1. FirstPacked .. LastPacked = {}
      BY <1>2 DEF Init, LastPacked
    <2>2. mem \in [Bytes -> Tags]
      BY DEF Init, Tags
    <2>3. QED
      BY <2>1, <2>2 DEF MemInv
  <1>7. CursorInv
    <2>1. FirstPacked .. FirstPacked - 1 = {}
      BY <1>2
    <2>2. /\ next = FirstPacked /\ pc \in {"refused", "pack"} /\ got = <<>>
          /\ cursor = block /\ cursor = End[next - 1]
      BY <1>5 DEF Init, EndFacts
    <2>3. QED
      BY <1>2, <2>1, <2>2 DEF CursorInv
  <1>8. LocalsInv
    <2>1. LocalsKept
      BY DEF Init, LocalsKept
    <2>2. UpTo(Packed)[0] = 0
      BY <1>2, PartialSums
    <2>3. cursor = block + UpTo(Packed)[next - FirstPacked] /\ ~(next > FirstPacked)
      <3>1. next = FirstPacked /\ cursor = block
        BY DEF Init
      <3>2. next - FirstPacked = 0 /\ block + 0 = block
        BY <1>2, <1>4, <3>1 DEF BlockInv
      <3>3. QED
        BY <1>2, <2>2, <3>1, <3>2
    <2>4. QED
      BY <2>1, <2>3 DEF LocalsInv
  <1>9. QED
    BY <1>4, <1>6, <1>7, <1>8 DEF ArgsInv

(* No step changes what call is made, or where its block lies. *)
LEMMA SameCall ==
  ASSUME BlockInv, UNCHANGED <<call, block>>
  PROVE  /\ BlockInv' /\ args' = args /\ FirstPacked' = FirstPacked
         /\ End' = End /\ Packed' = Packed /\ Descending' = Descending
  <1>1. args' = args /\ FirstPacked' = FirstPacked /\ Packed' = Packed
    BY DEF args, FirstPacked, Packed
  <1>2. End' = End /\ Descending' = Descending
    BY <1>1 DEF End, Descending
  <1>3. BlockInv'
    BY <1>1 DEF BlockInv
  <1>4. QED
    BY <1>1, <1>2, <1>3

(* pack stores an argument at the place the layout gives it, behind those  *)
(* already stored.                                                         *)
LEMMA PackInv ==
  ASSUME ArgsInv, PackNext
  PROVE  ArgsInv'
  <1> DEFINE at == alignOffsetUp(cursor, args[next])
             size == args[next]
             first == FirstPacked
             n == Len(args)
  <1>1. BlockInv /\ CallFacts /\ EndFacts
    BY CallsHaveArguments, BlockHasLayout DEF ArgsInv, BlockInv
  <1>2. /\ pc = "pack" /\ next <= n /\ cursor' = at + size /\ next' = next + 1
        /\ mem' = [a \in Bytes |-> IF at <= a /\ a < at + size
                                   THEN [arg |-> next, byte |-> a - at] ELSE mem[a]]
        /\ UNCHANGED <<call, pc, block, got>>
    BY DEF PackNext
  <1>3. /\ BlockInv' /\ args' = args /\ FirstPacked' = FirstPacked
        /\ End' = End /\ Packed' = Packed /\ Descending' = Descending
    BY <1>1, <1>2, SameCall
  <1>4. /\ next \in first .. n /\ next \in 1 .. n /\ n \in Nat /\ first \in 1 .. n + 1
        /\ cursor = End[next - 1] /\ n <= MaxArgs /\ MaxArgs \in Nat
        /\ \A i \in first .. next - 1 : End[i] <= cursor
    <2>1. /\ next \in 1 .. n + 1 /\ next >= first /\ cursor = End[next - 1]
          /\ \A i \in first .. next - 1 : End[i] <= cursor
      BY <1>2 DEF ArgsInv, CursorInv
    <2>2. n \in Nat /\ first \in 1 .. n + 1 /\ n <= MaxArgs /\ MaxArgs \in Nat
      BY <1>1 DEF CallFacts
    <2>3. next \in first .. n /\ next \in 1 .. n
      BY <1>2, <2>1, <2>2
    <2>4. QED
      BY <2>1, <2>2, <2>3
  <1>5. /\ End[next] = at + size /\ at \in Nat /\ cursor <= at /\ cursor \in Nat
        /\ size \in Sizes /\ size \in 1 .. 8 /\ at + size <= StackPointer + LocalSize
        /\ cursor % size = 0 => at = cursor
    <2>1. next - 1 \in first - 1 .. n /\ next \in first - 1 .. n
      BY <1>4
    <2>2. size \in Sizes /\ size \in 1 .. 8
      BY <1>1, <1>4 DEF EndFacts, Sizes
    <2>3. QED
      BY <1>1, <1>4, <2>1, <2>2 DEF EndFacts
  <1>6. StackPointer \in Nat /\ LocalSize \in Nat
    BY SizeAssumption, StackAssumption
  <1> HIDE DEF at, size
  <1>7. MemInv'
    <2>1. mem' \in [Bytes -> Tags]
      <3>1. ASSUME NEW a \in Bytes, at <= a, a < at + size
            PROVE  [arg |-> next, byte |-> a - at] \in Tags
        <4>1. a - at \in 0 .. 7 /\ next \in 1 .. MaxArgs
          BY <1>4, <1>5, <1>6, <3>1 DEF Bytes
        <4>2. QED
          BY <4>1 DEF Tags
      <3>2. mem \in [Bytes -> Tags]
        BY DEF ArgsInv, MemInv
      <3>3. QED
        BY <1>2, <3>1, <3>2
    <2>2. ASSUME NEW i \in first .. next, NEW b \in 0 .. args[i] - 1
          PROVE  mem'[End[i] - args[i] + b] = [arg |-> i, byte |-> b]
      <3>1. CASE i = next
        <4>1. End[i] - args[i] + b = at + b /\ b \in Nat /\ b < size
          BY <1>5, <3>1 DEF size
        <4>2. at + b \in Bytes /\ at <= at + b /\ at + b < at + size /\ (at + b) - at = b
          BY <1>5, <1>6, <4>1 DEF Bytes
        <4>3. QED
          BY <1>2, <3>1, <4>1, <4>2
      <3>2. CASE i \in first .. next - 1
        <4> DEFINE x == End[i] - args[i] + b
        <4>1. i \in first .. n /\ i \in first - 1 .. n /\ args[i] \in 1 .. 8
          <5>1. i \in first .. n /\ i \in first - 1 .. n
            BY <1>4, <3>2
          <5>2. QED
            BY <1>1, <5>1 DEF EndFacts, Sizes
        <4>2. End[i] - args[i] \in Nat /\ End[i] \in Nat /\ End[i] <= cursor
          <5>1. PICK place \in Nat : End[i] = place + args[i]
            BY <1>1, <4>1 DEF EndFacts
          <5>2. End[i] <= cursor
            BY <1>4, <3>2
          <5>3. \A p \in Nat : \A s \in 1 .. 8 : (p + s) - s \in Nat /\ p + s \in Nat
            OBVIOUS
          <5>4. QED
            BY <4>1, <5>1, <5>2, <5>3
        <4>3. x \in Nat /\ x < cursor /\ x < at
          <5>1. x \in Nat /\ x < End[i]
            <6>1. \A e \in Nat : \A s \in 1 .. 8 : \A c \in 0 .. s - 1 :
                    e - s \in Nat => e - s + c \in Nat /\ e - s + c < e
              OBVIOUS
            <6>2. QED
              BY <4>1, <4>2, <6>1
          <5> HIDE DEF x
          <5>2. QED
            BY <1>5, <4>2, <5>1
        <4>4. x \in Bytes
          BY <1>5, <1>6, <4>3 DEF Bytes
        <4>5. mem[x] = [arg |-> i, byte |-> b]
          BY <1>2, <3>2 DEF ArgsInv, MemInv, LastPacked
        <4> HIDE DEF x
        <4>6. mem'[x] = mem[x]
          BY <1>2, <1>5, <4>3, <4>4
        <4>7. QED
          BY <4>5, <4>6 DEF x
      <3>3. QED
        BY <1>4, <3>1, <3>2
    <2>3. LastPacked' = next
      BY <1>2, <1>4 DEF LastPacked
    <2>4. QED
      BY <1>3, <2>1, <2>2, <2>3 DEF MemInv
  <1>8. CursorInv'
    <2>1. next' \in 1 .. n + 1 /\ next' >= first /\ next' - 1 = next
      BY <1>2, <1>4
    <2>2. \A i \in first .. next : End[i] <= End[next]
      <3>1. ASSUME NEW i \in first .. next, i # next PROVE End[i] <= End[next]
        <4>1. i \in first .. next - 1 /\ i \in first - 1 .. n
          BY <1>4, <3>1
        <4>2. End[i] \in Nat /\ End[i] <= cursor
          BY <1>1, <1>4, <4>1 DEF EndFacts
        <4>3. QED
          BY <1>5, <4>2
      <3>2. End[next] <= End[next]
        BY <1>5
      <3>3. QED
        BY <3>1, <3>2
    <2>3. cursor' = End[next]
      BY <1>2, <1>5
    <2>4. QED
      BY <1>2, <1>3, <2>1, <2>2, <2>3 DEF ArgsInv, CursorInv
  <1>9. LocalsInv'
    <2> SUFFICES ASSUME Descending
                 PROVE  /\ LocalsKept'
                        /\ cursor' = block + UpTo(Packed)[next' - first]
                        /\ cursor' % args[next] = 0
      <3>1. next' - 1 = next
        BY <1>2, <1>4
      <3>2. QED
        BY <1>2, <1>3, <3>1 DEF LocalsInv
    <2>1. /\ LocalsKept /\ cursor = block + UpTo(Packed)[next - first]
          /\ next > first => cursor % args[next - 1] = 0
      BY <1>2 DEF ArgsInv, LocalsInv
    <2>2. cursor % size = 0
      <3>1. CASE next = first
        <4>1. cursor = block /\ block \in Nat /\ block % 8 = 0
          BY <1>1, <1>4, <3>1 DEF EndFacts, BlockInv, ALIGNMENT
        <4>2. QED
          BY <1>5, <4>1 DEF Sizes
      <3>2. CASE next > first
        <4>1. next - 1 \in first .. n /\ next - 1 <= next
          BY <1>4, <3>2
        <4>2. args[next - 1] >= size /\ args[next - 1] \in Sizes
          BY <1>1, <1>4, <4>1 DEF Descending, size, EndFacts
        <4>3. cursor % args[next - 1] = 0
          BY <2>1, <3>2
        <4>4. ASSUME NEW big \in Sizes, NEW small \in Sizes, NEW c \in Nat,
                     big >= small, c % big = 0
              PROVE  c % small = 0
          BY <4>4 DEF Sizes
        <4>5. QED
          BY <1>5, <4>2, <4>3, <4>4
      <3>3. QED
        BY <1>4, <3>1, <3>2
    <2>3. at = cursor
      BY <1>5, <2>2
    <2> DEFINE k == next - first + 1
               u == UpTo(Packed)
    <2>4. /\ k \in 1 .. Len(Packed) /\ k - 1 = next - first /\ k = next' - first
          /\ Packed \in Seq(Sizes) /\ size = Packed[k]
      <3>1. Len(Packed) = n - first + 1 /\ size = Packed[k]
        BY <1>1, <1>4 DEF CallFacts, size
      <3>2. k \in 1 .. n - first + 1 /\ k - 1 = next - first /\ k = (next + 1) - first
        BY <1>4
      <3>3. QED
        BY <1>1, <1>2, <3>1, <3>2 DEF CallFacts
    <2>5. /\ u[k] = u[k - 1] + size /\ u[k - 1] \in Nat /\ u[k] \in Nat
          /\ u[k] <= Sum(Packed) /\ Sum(Packed) \in Nat
      <3> HIDE DEF k
      <3>1. k \in 0 .. Len(Packed) /\ k - 1 \in 0 .. Len(Packed)
        BY <2>4
      <3>2. QED
        BY <2>4, <3>1, PartialSums, SumBounds
    <2>6. block \in Nat /\ cursor = block + u[k - 1]
      BY <1>1, <2>1, <2>4 DEF BlockInv
    <2> HIDE DEF u, k
    <2>7. cursor' = block + u[k]
      BY <1>2, <1>5, <2>3, <2>5, <2>6
    <2>8. at + size <= StackPointer
      <3>1. block + Sum(Packed) <= StackPointer
        BY <1>1 DEF BlockInv
      <3>2. at + size = block + u[k]
        BY <1>2, <2>7
      <3>3. QED
        BY <1>6, <2>5, <2>6, <3>1, <3>2
    <2>9. LocalsKept'
      <3> SUFFICES ASSUME NEW a \in Bytes, a >= StackPointer PROVE mem'[a] = Local
        BY DEF LocalsKept
      <3>1. ~(a < at + size)
        BY <1>5, <1>6, <2>8 DEF Bytes
      <3>2. mem[a] = Local
        BY <2>1 DEF LocalsKept
      <3>3. QED
        BY <1>2, <3>1, <3>2
    <2>10. cursor' % size = 0
      <3>1. \A c \in Nat : c % size = 0 => (c + size) % size = 0
        BY <1>5 DEF Sizes
      <3>2. QED
        BY <1>2, <1>5, <2>2, <2>3, <3>1
    <2>11. QED
      BY <2>4, <2>7, <2>9, <2>10 DEF u, size
  <1>10. QED
    BY <1>3, <1>7, <1>8, <1>9 DEF ArgsInv

(* The callee's steps leave the memory as the caller packed it. *)
LEMMA MemKept ==
  ASSUME ArgsInv, UNCHANGED <<call, block, mem>>, pc' \in {"params", "va_arg"},
         pc \in {"params", "va_arg"} \/ (pc = "pack" /\ next = Len(args) + 1)
  PROVE  /\ MemInv' /\ LocalsInv' /\ BlockInv' /\ args' = args /\ End' = End
         /\ FirstPacked' = FirstPacked
  <1>1. /\ BlockInv' /\ args' = args /\ FirstPacked' = FirstPacked
        /\ End' = End /\ Packed' = Packed /\ Descending' = Descending
    BY SameCall DEF ArgsInv
  <1>2. Len(args) \in Nat
    BY CallsHaveArguments DEF ArgsInv, BlockInv, CallFacts
  <1>3. LastPacked = Len(args) /\ LastPacked' = Len(args)
    BY <1>1, <1>2 DEF LastPacked
  <1>4. MemInv'
    BY <1>1, <1>3 DEF ArgsInv, MemInv
  <1>5. LocalsInv'
    BY <1>1 DEF ArgsInv, LocalsInv, LocalsKept
  <1>6. QED
    BY <1>1, <1>4, <1>5

(* The caller begins: for a variadic or pointer call a block is reserved. *)
LEMMA InvokeInv ==
  ASSUME ArgsInv, Invoke
  PROVE  ArgsInv'
  <1>1. CallFacts /\ EndFacts
    BY CallsHaveArguments, BlockHasLayout DEF ArgsInv, BlockInv
  <1>2. /\ pc = "pack" /\ next > Len(args) /\ cursor' = block /\ next' = Len(got') + 1
        /\ UNCHANGED <<call, block, mem>> /\ pc' \in {"params", "va_arg"}
    BY DEF Invoke
  <1>3. next = Len(args) + 1
    <2>1. next \in 1 .. Len(args) + 1
      BY DEF ArgsInv, CursorInv
    <2>2. QED
      BY <1>1, <1>2, <2>1, Counts
  <1>4. /\ MemInv' /\ LocalsInv' /\ BlockInv' /\ args' = args /\ End' = End
        /\ FirstPacked' = FirstPacked
    BY <1>2, <1>3, MemKept
  <1>5. End[FirstPacked - 1] = block /\ block \in Nat
    BY <1>1 DEF EndFacts, ArgsInv, BlockInv
  <1>6. CASE call.pointer
    <2>1. pc' = "params" /\ got' = <<>> /\ FirstPacked = 1 /\ next' = 1
      BY <1>2, <1>6 DEF Invoke, FirstPacked
    <2>2. AllArguments'
      BY <2>1 DEF AllArguments
    <2>3. /\ 1 \in 1 .. Len(args) + 1 /\ 1 <= Len(call.fixed) + 1
          /\ <<>> \in Seq(0 .. MaxArgs) /\ Len(<<>>) = 1 - 1
      BY <1>1, Counts
    <2>4. call'.pointer /\ call' = call
      BY <1>2, <1>6
    <2>5. cursor' = End[1 - 1]
      BY <1>2, <1>5, <2>1
    <2>6. CursorInv'
      BY <1>4, <2>1, <2>2, <2>3, <2>4, <2>5 DEF CursorInv
    <2>7. QED
      BY <1>4, <2>6 DEF ArgsInv
  <1>7. CASE ~call.pointer
    <2> DEFINE m == Len(call.fixed)
    <2>1. /\ pc' = "va_arg" /\ got' = [i \in 1 .. m |-> i] /\ FirstPacked = m + 1
          /\ m \in Nat /\ m <= MaxArgs /\ MaxArgs \in Nat
          /\ Len(args) \in Nat /\ FirstPacked \in 1 .. Len(args) + 1
      <3>1. m \in Nat /\ m <= MaxArgs /\ MaxArgs \in Nat
        BY <1>1, Counts
      <3>2. pc' = "va_arg" /\ got' = [i \in 1 .. m |-> i] /\ FirstPacked = m + 1
        BY <1>7, Zenon DEF Invoke, FirstPacked
      <3>3. QED
        BY <1>1, <3>1, <3>2 DEF CallFacts
    <2>2. got' \in Seq(0 .. MaxArgs) /\ Len(got') = m /\ \A i \in 1 .. m : got'[i] = i
      BY <2>1
    <2>3. AllArguments'
      BY <2>2 DEF AllArguments
    <2>4. next' = m + 1 /\ next' \in 1 .. Len(args) + 1 /\ next' >= FirstPacked
      BY <1>2, <2>1, <2>2
    <2>5. cursor' \in block .. block + 8 * (next' - FirstPacked) /\ cursor' = End[next' - 1]
      BY <1>2, <1>5, <2>1, <2>4
    <2>6. ~call'.pointer /\ call' = call /\ Len(got') = next' - 1
      BY <1>2, <1>7, <2>1, <2>2, <2>4
    <2>7. block' = block
      BY <1>2
    <2>8. CursorInv'
      BY <1>4, <2>1, <2>2, <2>3, <2>4, <2>5, <2>6, <2>7 DEF CursorInv
    <2>9. QED
      BY <1>4, <2>8 DEF ArgsInv
  <1>8. QED
    BY <1>6, <1>7

(* A load from where the layout puts an argument finds it. *)
LEMMA LoadedPacked ==
  ASSUME ArgsInv, pc \in {"params", "va_arg"}, NEW i \in FirstPacked .. Len(args)
  PROVE  Loaded(alignOffsetUp(End[i - 1], args[i]), args[i]) = i
  <1> DEFINE size == args[i]
             at == alignOffsetUp(End[i - 1], size)
             found == {j \in 1 .. Len(args) :
                         \A b \in 0 .. size - 1 :
                           at + b \in Bytes /\ mem[at + b] = [arg |-> j, byte |-> b]}
  <1>1. CallFacts /\ EndFacts
    BY CallsHaveArguments, BlockHasLayout DEF ArgsInv, BlockInv
  <1>2. Len(args) \in Nat /\ FirstPacked \in 1 .. Len(args) + 1
    BY <1>1 DEF CallFacts
  <1>3. i \in 1 .. Len(args) /\ i \in FirstPacked - 1 .. Len(args)
    BY <1>2
  <1>4. size \in 1 .. 8 /\ End[i] = at + size /\ at \in Nat /\ End[i] <= StackPointer + LocalSize
    BY <1>1, <1>3 DEF EndFacts, Sizes
  <1>5. StackPointer \in Nat /\ LocalSize \in Nat
    BY SizeAssumption, StackAssumption
  <1>6. \A b \in 0 .. args[i] - 1 : mem[End[i] - args[i] + b] = [arg |-> i, byte |-> b]
    BY DEF ArgsInv, MemInv, LastPacked
  <1> HIDE DEF at
  <1>7. ASSUME NEW b \in 0 .. size - 1
        PROVE  at + b \in Bytes /\ mem[at + b] = [arg |-> i, byte |-> b]
    <2>1. End[i] - size + b = at + b /\ at + b \in Bytes
      BY <1>4, <1>5 DEF Bytes
    <2>2. QED
      BY <1>6, <2>1
  <1>8. i \in found
    BY <1>3, <1>7
  <1>9. ASSUME NEW j \in found PROVE j = i
    <2>1. 0 \in 0 .. size - 1
      BY <1>4
    <2>2. [arg |-> j, byte |-> 0] = [arg |-> i, byte |-> 0]
      BY <1>7, <2>1
    <2>3. [arg |-> j, byte |-> 0].arg = [arg |-> i, byte |-> 0].arg
      BY <2>2
    <2>4. QED
      BY <2>3
  <1>10. Loaded(at, size) = IF found = {} THEN 0 ELSE CHOOSE j \in found : TRUE
    BY DEF Loaded
  <1> HIDE DEF found
  <1>11. Loaded(at, size) = i
    BY <1>8, <1>9, <1>10
  <1>12. QED
    BY <1>11 DEF at

(* What any load finds. *)
LEMMA LoadedType ==
  ASSUME CallFacts, NEW at, NEW size
  PROVE  Loaded(at, size) \in 0 .. MaxArgs
  <1> DEFINE found == {j \in 1 .. Len(args) :
                         \A b \in 0 .. size - 1 :
                           at + b \in Bytes /\ mem[at + b] = [arg |-> j, byte |-> b]}
  <1>1. found \subseteq 0 .. MaxArgs /\ 0 \in 0 .. MaxArgs
    <2>1. 1 .. Len(args) \subseteq 0 .. MaxArgs /\ 0 \in 0 .. MaxArgs
      BY Counts
    <2>2. QED
      BY <2>1
  <1>2. Loaded(at, size) = IF found = {} THEN 0 ELSE CHOOSE j \in found : TRUE
    BY DEF Loaded
  <1> HIDE DEF found
  <1>3. QED
    BY <1>1, <1>2

(* One more argument is got, the right one. *)
LEMMA GotNext ==
  ASSUME NEW g \in Seq(0 .. MaxArgs), NEW v \in 0 .. MaxArgs
  PROVE  /\ Append(g, v) \in Seq(0 .. MaxArgs) /\ Len(Append(g, v)) = Len(g) + 1
         /\ (\A i \in 1 .. Len(g) : g[i] = i) /\ v = Len(g) + 1
              => \A i \in 1 .. Len(Append(g, v)) : Append(g, v)[i] = i
  OBVIOUS

(* unpack for the parameters of the method. *)
LEMMA UnpackInv ==
  ASSUME ArgsInv, UnpackParam
  PROVE  ArgsInv'
  <1>1. CallFacts /\ EndFacts
    BY CallsHaveArguments, BlockHasLayout DEF ArgsInv, BlockInv
  <1>2. /\ pc = "params" /\ pc' = "params" /\ next <= Len(call.fixed)
        /\ cursor' = alignOffsetUp(cursor, args[next]) + args[next]
        /\ got' = Append(got, Loaded(alignOffsetUp(cursor, args[next]), args[next]))
        /\ next' = next + 1 /\ UNCHANGED <<call, block, mem>>
    BY DEF UnpackParam
  <1>3. /\ MemInv' /\ LocalsInv' /\ BlockInv' /\ args' = args /\ End' = End
        /\ FirstPacked' = FirstPacked
    BY <1>2, MemKept
  <1>4. /\ next \in 1 .. Len(args) + 1 /\ call.pointer /\ cursor = End[next - 1]
        /\ AllArguments /\ got \in Seq(0 .. MaxArgs) /\ Len(got) = next - 1
    BY <1>2 DEF ArgsInv, CursorInv
  <1>5. FirstPacked = 1
    BY <1>4, Zenon DEF FirstPacked
  <1>6. next \in FirstPacked .. Len(args) /\ next' \in 1 .. Len(args) + 1
    BY <1>1, <1>2, <1>4, <1>5, Counts
  <1>7. got' = Append(got, next)
    BY <1>2, <1>4, <1>6, LoadedPacked
  <1>8. cursor' = End[next]
    BY <1>1, <1>2, <1>4, <1>6 DEF EndFacts
  <1>9. next \in 0 .. MaxArgs /\ next = Len(got) + 1 /\ next' - 1 = next
        /\ next' <= Len(call.fixed) + 1
    BY <1>1, <1>2, <1>4, <1>6, Counts
  <1>10. got' \in Seq(0 .. MaxArgs) /\ Len(got') = next' - 1 /\ AllArguments'
    <2>1. /\ got' \in Seq(0 .. MaxArgs) /\ Len(got') = Len(got) + 1
          /\ \A i \in 1 .. Len(got') : got'[i] = i
      BY <1>4, <1>7, <1>9, GotNext DEF AllArguments
    <2>2. QED
      BY <1>9, <2>1 DEF AllArguments
  <1>11. call' = call /\ call'.pointer
    BY <1>2, <1>4
  <1>12. CursorInv'
    BY <1>2, <1>3, <1>6, <1>8, <1>9, <1>10, <1>11 DEF CursorInv
  <1>13. QED
    BY <1>3, <1>12 DEF ArgsInv

(* A variadic function called through a pointer starts without its         *)
(* variadic arguments.                                                     *)
LEMMA EnterInv ==
  ASSUME ArgsInv, EnterCallee
  PROVE  ArgsInv'
  <1>1. CallFacts
    BY CallsHaveArguments DEF ArgsInv, BlockInv
  <1>2. /\ pc = "params" /\ next > Len(call.fixed) /\ pc' = "va_arg"
        /\ cursor' = NoAddress /\ UNCHANGED <<call, block, next, mem, got>>
    BY DEF EnterCallee
  <1>3. /\ MemInv' /\ LocalsInv' /\ BlockInv' /\ args' = args /\ End' = End
        /\ FirstPacked' = FirstPacked
    BY <1>2, MemKept
  <1>4. /\ next \in 1 .. Len(args) + 1 /\ call.pointer /\ next <= Len(call.fixed) + 1
        /\ AllArguments /\ got \in Seq(0 .. MaxArgs) /\ Len(got) = next - 1
    BY <1>2 DEF ArgsInv, CursorInv
  <1>5. next >= Len(call.fixed) + 1
    BY <1>1, <1>2, <1>4, Counts
  <1>6. AllArguments'
    BY <1>2, <1>4 DEF AllArguments
  <1>7. CursorInv'
    BY <1>2, <1>3, <1>4, <1>5, <1>6 DEF CursorInv
  <1>8. QED
    BY <1>3, <1>7 DEF ArgsInv

(* va_arg, in both forms. *)
LEMMA VaArgInv ==
  ASSUME ArgsInv, VaArg
  PROVE  ArgsInv'
  <1>1. CallFacts /\ EndFacts /\ block \in Nat /\ block % 8 = 0
    BY CallsHaveArguments, BlockHasLayout DEF ArgsInv, BlockInv, ALIGNMENT
  <1>2. /\ pc = "va_arg" /\ pc' = "va_arg" /\ next <= Len(args)
        /\ next' = next + 1 /\ UNCHANGED <<call, block, mem>>
    BY DEF VaArg
  <1>3. /\ MemInv' /\ LocalsInv' /\ BlockInv' /\ args' = args /\ End' = End
        /\ FirstPacked' = FirstPacked
    BY <1>2, MemKept
  <1>4. next \in 1 .. Len(args) + 1 /\ got \in Seq(0 .. MaxArgs) /\ Len(got) = next - 1
    BY <1>2 DEF ArgsInv, CursorInv
  <1>5. /\ next' \in 1 .. Len(args) + 1 /\ next' - 1 = next /\ next \in 0 .. MaxArgs
        /\ next = Len(got) + 1 /\ next \in 1 .. Len(args)
    BY <1>1, <1>2, <1>4, Counts
  <1>6. CASE call.pointer
    <2>1. /\ cursor = NoAddress /\ next >= Len(call.fixed) + 1
      BY <1>2, <1>6 DEF ArgsInv, CursorInv
    <2>2. got' = Append(got, 0) /\ cursor' = NoAddress
      BY <2>1 DEF VaArg
    <2>3. 0 \in 0 .. MaxArgs
      BY <1>1, Counts
    <2>4. got' \in Seq(0 .. MaxArgs) /\ Len(got') = next' - 1
      BY <1>4, <1>5, <2>2, <2>3, GotNext
    <2>5. call.variadic # <<>>
      <3>1. Len(args) # Len(call.fixed)
        BY <1>1, <1>5, <2>1, Counts
      <3>2. QED
        BY <1>1, <3>1 DEF CallFacts
    <2>6. next' >= Len(call.fixed) + 1
      BY <1>1, <1>2, <1>4, <2>1, Counts
    <2>7. call' = call /\ call'.pointer
      BY <1>2, <1>6
    <2>8. CursorInv'
      BY <1>2, <1>3, <1>5, <2>2, <2>4, <2>5, <2>6, <2>7 DEF CursorInv
    <2>9. QED
      BY <1>3, <2>8 DEF ArgsInv
  <1>7. CASE ~call.pointer
    <2> DEFINE at == ReadAt(args[next])
               y == block + 8 * (next - FirstPacked)
    <2>1. /\ next >= FirstPacked /\ cursor \in block .. y
          /\ call.reader = "unpack" => cursor = End[next - 1] /\ AllArguments
      BY <1>2, <1>7 DEF ArgsInv, CursorInv
    <2>2. next \in FirstPacked .. Len(args) /\ FirstPacked \in Nat
      BY <1>1, <1>5, <2>1, Counts
    <2>3. args[next] \in Sizes
      BY <1>1, <1>5 DEF CallFacts
    <2>4. y \in Nat /\ y % 8 = 0 /\ cursor \in Nat
      <3>1. next - FirstPacked \in Nat
        BY <2>2
      <3>2. QED
        BY <1>1, <2>1, <3>1
    <2>5. cursor # NoAddress
      BY <2>4 DEF NoAddress
    <2>6. got' = Append(got, Loaded(at, args[next])) /\ cursor' = at + args[next]
      BY <2>5 DEF VaArg
    <2>7. at \in Nat /\ block <= at /\ at <= y
      <3>1. /\ alignOffsetUp(cursor, args[next]) \in Nat
            /\ cursor <= alignOffsetUp(cursor, args[next])
            /\ alignOffsetUp(cursor, args[next]) <= y
        <4> HIDE DEF y
        <4>1. cursor <= y
          BY <1>1, <2>1, <2>4
        <4>2. QED
          BY <2>3, <2>4, <4>1, AlignUp
      <3> HIDE DEF y
      <3>2. at = alignOffsetUp(cursor, args[next]) \/ at = cursor
        BY DEF ReadAt
      <3> HIDE DEF at
      <3>3. QED
        BY <1>1, <2>1, <2>4, <3>1, <3>2
    <2>8. cursor' \in block .. block + 8 * (next' - FirstPacked)
      <3>1. y + 8 = block + 8 * (next' - FirstPacked)
        BY <1>1, <1>2, <2>2
      <3>2. args[next] \in Nat /\ args[next] <= 8
        BY <2>3 DEF Sizes
      <3> HIDE DEF y, at
      <3>3. cursor' \in block .. y + 8
        BY <1>1, <2>4, <2>6, <2>7, <3>2
      <3>4. QED
        BY <3>1, <3>3
    <2>9. got' \in Seq(0 .. MaxArgs) /\ Len(got') = next' - 1
      BY <1>1, <1>4, <1>5, <2>6, GotNext, LoadedType
    <2>10. call.reader = "unpack" => cursor' = End[next' - 1] /\ AllArguments'
      <3> SUFFICES ASSUME call.reader = "unpack"
                   PROVE  cursor' = End[next] /\ AllArguments'
        BY <1>5
      <3>1. at = alignOffsetUp(End[next - 1], args[next]) /\ AllArguments
        BY <2>1 DEF ReadAt
      <3>2. got' = Append(got, next)
        BY <1>2, <2>2, <2>6, <3>1, LoadedPacked
      <3>3. cursor' = End[next]
        BY <1>1, <2>2, <2>6, <3>1 DEF EndFacts
      <3>4. AllArguments'
        BY <1>4, <1>5, <3>1, <3>2, GotNext DEF AllArguments
      <3>5. QED
        BY <3>3, <3>4
    <2>11. next' >= FirstPacked
      BY <1>2, <1>4, <2>2
    <2>12. call' = call /\ ~call'.pointer /\ block' = block
      BY <1>2, <1>7
    <2>13. CursorInv'
      BY <1>2, <1>3, <1>5, <2>8, <2>9, <2>10, <2>11, <2>12 DEF CursorInv
    <2>14. QED
      BY <1>3, <2>13 DEF ArgsInv
  <1>8. QED
    BY <1>6, <1>7

(* Every step keeps the invariant. *)
LEMMA StepInv == ArgsInv /\ [Next]_vars => ArgsInv'
  <1> SUFFICES ASSUME ArgsInv, [Next]_vars PROVE ArgsInv'
    OBVIOUS
  <1>1. CASE UNCHANGED vars
    <2>1. /\ BlockInv' /\ args' = args /\ FirstPacked' = FirstPacked
          /\ End' = End /\ Packed' = Packed /\ Descending' = Descending
      BY <1>1, SameCall DEF vars, ArgsInv
    <2>2. MemInv' /\ CursorInv' /\ LocalsInv'
      BY <1>1, <2>1 DEF vars, ArgsInv, MemInv, LastPacked, CursorInv, AllArguments,
         LocalsInv, LocalsKept
    <2>3. QED
      BY <2>1, <2>2 DEF ArgsInv
  <1>2. QED
    BY <1>1, PackInv, InvokeInv, UnpackInv, EnterInv, VaArgInv DEF Next

(* The inductive invariant holds of every call. *)
THEOREM ArgsInvariant == Spec => []ArgsInv
  BY InitInv, StepInv, PTL DEF Spec

(* Types; the cursor of pack, of unpack and of va_arg never leaves the     *)
(* eight bytes an argument may take.                                       *)
THEOREM TypeCorrect == Spec => []TypeOK
  <1>1. ASSUME ArgsInv PROVE TypeOK
    <2>1. CallFacts /\ EndFacts
      BY <1>1, CallsHaveArguments, BlockHasLayout DEF ArgsInv, BlockInv
    <2>2. /\ call \in Calls /\ block \in Nat /\ block + Sum(Packed) <= StackPointer
          /\ mem \in [Bytes -> Tags] /\ pc \in {"refused", "pack", "params", "va_arg"}
          /\ next \in 1 .. Len(args) + 1 /\ got \in Seq(0 .. MaxArgs)
      BY <1>1 DEF ArgsInv, BlockInv, MemInv, CursorInv
    <2>3. block \in 0 .. StackPointer
      <3>1. Sum(Packed) \in Nat /\ StackPointer \in Nat
        BY <2>1, SumBounds, StackAssumption DEF CallFacts
      <3>2. QED
        BY <2>2, <3>1
    <2>4. next \in 1 .. MaxArgs + 1
      BY <2>1, <2>2, Counts
    <2>5. \A k \in Nat : k <= MaxArgs =>
            \A c \in block .. block + 8 * k : c \in block .. block + 8 * MaxArgs
      BY <2>1, <2>2, Counts
    <2>6. ASSUME NEW i \in FirstPacked - 1 .. Len(args)
          PROVE  End[i] \in block .. block + 8 * MaxArgs
      <3>1. i - FirstPacked + 1 \in Nat /\ i - FirstPacked + 1 <= MaxArgs
        BY <2>1, Counts
      <3>2. End[i] \in block .. block + 8 * (i - FirstPacked + 1)
        BY <2>1, <2>2 DEF EndFacts
      <3>3. QED
        BY <2>5, <3>1, <3>2
    <2>7. cursor \in {NoAddress} \cup block .. block + 8 * MaxArgs
      <3>1. CASE pc = "pack"
        <4>1. cursor = End[next - 1] /\ next >= FirstPacked
          BY <1>1, <3>1 DEF ArgsInv, CursorInv
        <4>2. next - 1 \in FirstPacked - 1 .. Len(args)
          BY <2>1, <2>2, <4>1, Counts
        <4>3. QED
          BY <2>6, <4>1, <4>2
      <3>2. CASE pc = "params"
        <4>1. cursor = End[next - 1] /\ call.pointer
          BY <1>1, <3>2 DEF ArgsInv, CursorInv
        <4>2. FirstPacked = 1
          BY <4>1, Zenon DEF FirstPacked
        <4>3. next - 1 \in FirstPacked - 1 .. Len(args)
          BY <2>1, <2>2, <4>2, Counts
        <4>4. QED
          BY <2>6, <4>1, <4>3
      <3>3. CASE pc = "va_arg" /\ call.pointer
        BY <1>1, <3>3 DEF ArgsInv, CursorInv
      <3>4. CASE pc = "va_arg" /\ ~call.pointer
        <4>1. next >= FirstPacked /\ cursor \in block .. block + 8 * (next - FirstPacked)
          BY <1>1, <3>4 DEF ArgsInv, CursorInv
        <4>2. next - FirstPacked \in Nat /\ next - FirstPacked <= MaxArgs
          BY <2>1, <2>2, <4>1, Counts
        <4>3. QED
          BY <2>5, <4>1, <4>2
      <3>5. CASE pc = "refused"
        <4>1. cursor = block
          BY <1>1, <3>5 DEF ArgsInv, CursorInv
        <4>2. block \in block .. block + 8 * MaxArgs
          BY <2>1, <2>2, Counts
        <4>3. QED
          BY <4>1, <4>2
      <3>6. QED
        BY <2>2, <3>1, <3>2, <3>3, <3>4, <3>5
    <2>8. QED
      BY <2>2, <2>3, <2>4, <2>7 DEF TypeOK
  <1>2. QED
    BY <1>1, ArgsInvariant, PTL

(* What Memory.pack stores is what Memory.unpack and va_arg read, for any  *)
(* number and any mixture of sizes, but not for the variadic arguments of  *)
(* a call through a pointer, nor for a va_arg instruction.                 *)
THEOREM UnpackingInvertsPacking == Spec => []UnpackedAsPacked
  <1>1. ASSUME ArgsInv PROVE UnpackedAsPacked
    <2>1. pc \in {"refused", "pack"} => AllArguments
      BY <1>1 DEF ArgsInv, CursorInv, AllArguments
    <2>2. pc \in {"refused", "pack", "params", "va_arg"}
      BY <1>1 DEF ArgsInv, CursorInv
    <2>3. call.pointer /\ call.variadic = <<>> => AllArguments
      BY <1>1, <2>1, <2>2 DEF ArgsInv, CursorInv
    <2>4. ~call.pointer /\ call.reader = "unpack" => AllArguments
      BY <1>1, <2>1, <2>2 DEF ArgsInv, CursorInv
    <2>5. QED
      BY <2>3, <2>4 DEF UnpackedAsPacked
  <1>2. QED
    BY <1>1, ArgsInvariant, PTL

(* Arguments of descending size never reach the caller's locals, although  *)
(* printOperandPack leaves the padding out of the size it allocates.       *)
THEOREM DescendingIsSafe == Spec => []DescendingKeepsLocals
  <1>1. ArgsInv => DescendingKeepsLocals
    BY DEF ArgsInv, LocalsInv, Descending, DescendingKeepsLocals
  <1>2. QED
    BY <1>1, ArgsInvariant, PTL
=============================================================================
