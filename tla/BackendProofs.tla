---------------------------- MODULE BackendProofs ----------------------------
(***************************************************************************)
(* The properties of Backend, for all widths of the integer types, all     *)
(* constants and all PHIs.  First come lemmas on the arithmetic of bits,   *)
(* then each instruction, then the emitted sequences.                      *)
(***************************************************************************)
EXTENDS Backend, FiniteRecursion

(* The widest type. *)
N == Width["i64"]

-----------------------------------------------------------------------------
(* Division *)

(* A multiple is no smaller than what it is a multiple of. *)
LEMMA Scaled ==
  ASSUME NEW m \in Nat, NEW k \in Int, m > 0
  PROVE  /\ k >= 1 => k * m >= m
         /\ k <= -1 => k * m <= -m
  <1>1. k >= 1 => (k - 1) * m >= 0
    OBVIOUS
  <1>2. k <= -1 => (-1 - k) * m >= 0
    OBVIOUS
  <1>3. QED
    BY <1>1, <1>2

(* Quotient and remainder. *)
LEMMA Division ==
  ASSUME NEW a \in Int, NEW m \in Nat, m > 0
  PROVE  /\ a \div m \in Int /\ (a % m) \in 0 .. m - 1
         /\ a = (a \div m) * m + (a % m)
  OBVIOUS

(* There is only one of each. *)
LEMMA DivisionUnique ==
  ASSUME NEW m \in Nat, m > 0, NEW a \in Int, NEW q \in Int, NEW r \in 0 .. m - 1, a = q * m + r
  PROVE  a % m = r /\ a \div m = q
  <1> DEFINE p == a \div m
             s == a % m
  <1>1. p \in Int /\ s \in 0 .. m - 1 /\ a = p * m + s
    BY Division
  <1>2. (p - q) * m = r - s
    BY <1>1
  <1>3. r - s < m /\ r - s > -m
    BY <1>1
  <1>4. ~ p - q >= 1 /\ ~ p - q <= -1
    <2> HIDE DEF p, s
    <2>1. p - q \in Int
      BY <1>1
    <2>2. QED
      BY <1>1, <1>2, <1>3, <2>1, Scaled
  <1>5. p = q
    BY <1>1, <1>4
  <1>6. QED
    BY <1>1, <1>2, <1>5

-----------------------------------------------------------------------------
(* Powers of two *)

(* The types, in order of their widths. *)
LEMMA Widths ==
  /\ N \in Nat /\ Width["i1"] = 1 /\ 1 < Width["i8"] /\ Width["i8"] < Width["i16"]
  /\ Width["i16"] < Width["i32"] /\ Width["i32"] < N
  /\ \A ty \in Types : Width[ty] \in 1 .. N
  BY WidthAssumption DEF N, Types

(* What the recursion computes. *)
LEMMA Pow2Facts ==
  /\ Pow2 \in [0 .. N -> Nat] /\ Pow2[0] = 1
  /\ \A i \in 1 .. N : Pow2[i] = 2 * Pow2[i - 1]
  /\ \A i \in 0 .. N : Pow2[i] > 0
  <1> DEFINE step == [p \in (1 .. N) \X Nat |-> 2 * p[2]]
  <1>1. N \in Nat
    BY Widths
  <1>2. step \in [(1 .. N) \X Nat -> Nat]
    OBVIOUS
  <1>3. \A i \in 1 .. N : \A v \in Nat : step[<<i, v>>] = 2 * v
    OBVIOUS
  <1> HIDE DEF step
  <1>4. PICK f \in [0 .. N -> Nat] : IsIteration(f, N, 1, step)
    BY <1>1, <1>2, Iteration
  <1>5. \A i \in 1 .. N : f[i] = 2 * f[i - 1]
    <2> SUFFICES ASSUME NEW i \in 1 .. N PROVE f[i] = 2 * f[i - 1]
      OBVIOUS
    <2>1. f[i - 1] \in Nat
      BY <1>1
    <2>2. QED
      BY <1>3, <1>4, <2>1 DEF IsIteration
  <1>6. f = [i \in 0 .. N |-> IF i = 0 THEN 1 ELSE 2 * f[i - 1]]
    BY <1>1, <1>4, <1>5 DEF IsIteration
  <1>7. Pow2 = [i \in 0 .. N |-> IF i = 0 THEN 1 ELSE 2 * Pow2[i - 1]]
    BY <1>6 DEF Pow2, N
  <1>8. Pow2[0] = 1 /\ \A i \in 1 .. N : Pow2[i] = 2 * Pow2[i - 1]
    BY <1>1, <1>7
  <1> DEFINE S == {i \in 0 .. N : Pow2[i] \in Nat /\ Pow2[i] > 0}
  <1>9. \A i \in 0 .. N : i \in S
    <2>1. 0 \in S
      BY <1>1, <1>8
    <2>2. ASSUME NEW i \in 1 .. N, i - 1 \in S PROVE i \in S
      BY <1>1, <1>8, <2>2
    <2> HIDE DEF S
    <2>3. QED
      BY <1>1, <2>1, <2>2, InductUpTo
  <1>10. QED
    BY <1>7, <1>8, <1>9

(* A power of a sum is a product. *)
LEMMA PowSum ==
  ASSUME NEW i \in 0 .. N, NEW j \in 0 .. N, i + j <= N
  PROVE  Pow2[i + j] = Pow2[i] * Pow2[j]
  <1> DEFINE S == {k \in 0 .. j : Pow2[i + k] = Pow2[i] * Pow2[k]}
  <1>1. 0 \in S
    BY Pow2Facts, Widths
  <1>2. ASSUME NEW k \in 1 .. j, k - 1 \in S PROVE k \in S
    <2>1. i + k \in 1 .. N /\ k \in 1 .. N /\ (i + k) - 1 = i + (k - 1)
      BY Widths
    <2>2. Pow2[i + k] = 2 * Pow2[i + (k - 1)] /\ Pow2[k] = 2 * Pow2[k - 1]
      BY <2>1, Pow2Facts
    <2>3. Pow2[i + (k - 1)] = Pow2[i] * Pow2[k - 1] /\ Pow2[i] \in Nat /\ Pow2[k - 1] \in Nat
      BY <1>2, <2>1, Pow2Facts, Widths
    <2>4. QED
      BY <2>2, <2>3
  <1>3. \A k \in 0 .. j : k \in S
    <2> HIDE DEF S
    <2>1. QED
      BY <1>1, <1>2, InductUpTo
  <1>4. QED
    BY <1>3

(* Powers grow, faster than their exponents. *)
LEMMA PowGrows ==
  /\ \A i, j \in 0 .. N : i < j => 2 * Pow2[i] <= Pow2[j]
  /\ \A i \in 1 .. N : i <= Pow2[i - 1]
  <1>1. ASSUME NEW i \in 0 .. N, NEW j \in 0 .. N, i < j PROVE 2 * Pow2[i] <= Pow2[j]
    <2>1. j - i \in 1 .. N /\ j = i + (j - i) /\ j - i - 1 \in 0 .. N
      BY <1>1, Widths
    <2>2. Pow2[j] = Pow2[i] * Pow2[j - i] /\ Pow2[j - i] = 2 * Pow2[j - i - 1]
      BY <2>1, PowSum, Pow2Facts
    <2>3. Pow2[j - i - 1] \in Nat /\ Pow2[j - i - 1] >= 1 /\ Pow2[i] \in Nat /\ Pow2[i] > 0
      BY <2>1, Pow2Facts
    <2>4. Pow2[j - i - 1] * Pow2[i] >= Pow2[i]
      BY <2>3, Scaled
    <2>5. QED
      BY <2>2, <2>3, <2>4
  <1> DEFINE S == {i \in 0 .. N : i > 0 => i <= Pow2[i - 1]}
  <1>2. \A i \in 0 .. N : i \in S
    <2>1. 0 \in S
      BY Widths
    <2>2. ASSUME NEW i \in 1 .. N, i - 1 \in S PROVE i \in S
      <3>1. CASE i = 1
        BY <3>1, Pow2Facts
      <3>2. CASE i > 1
        <4>1. i - 1 \in 1 .. N /\ Pow2[i - 1] = 2 * Pow2[(i - 1) - 1] /\ i - 1 <= Pow2[(i - 1) - 1]
          BY <2>2, <3>2, Pow2Facts, Widths
        <4>2. (i - 1) - 1 \in 0 .. N /\ Pow2[(i - 1) - 1] \in Nat
          BY <3>2, Pow2Facts, Widths
        <4>3. QED
          BY <3>2, <4>1, <4>2
      <3>3. QED
        BY <3>1, <3>2
    <2> HIDE DEF S
    <2>3. QED
      BY <2>1, <2>2, InductUpTo, Widths
  <1>3. QED
    BY <1>1, <1>2

-----------------------------------------------------------------------------
(* Numbers with the same lowest bits *)

(* They differ by a multiple of the power of two. *)
SameBits(a, b, w) == \E k \in Int : a = b + k * Pow2[w]

(* An equivalence. *)
LEMMA SameBitsEq ==
  ASSUME NEW w \in 0 .. N, NEW a \in Int, NEW b \in Int, NEW c \in Int
  PROVE  /\ SameBits(a, a, w)
         /\ SameBits(a, b, w) => SameBits(b, a, w)
         /\ SameBits(a, b, w) /\ SameBits(b, c, w) => SameBits(a, c, w)
  <1> DEFINE P == Pow2[w]
  <1>1. P \in Nat
    BY Pow2Facts
  <1> HIDE DEF P
  <1>2. a = a + 0 * P
    BY <1>1
  <1>3. ASSUME NEW k \in Int, a = b + k * P PROVE -k \in Int /\ b = a + (-k) * P
    BY <1>1, <1>3
  <1>4. ASSUME NEW k \in Int, NEW l \in Int, a = b + k * P, b = c + l * P
        PROVE  k + l \in Int /\ a = c + (k + l) * P
    BY <1>1, <1>4
  <1>5. SameBits(a, a, w)
    BY <1>2 DEF SameBits, P
  <1>6. SameBits(a, b, w) => SameBits(b, a, w)
    BY <1>3 DEF SameBits, P
  <1>7. SameBits(a, b, w) /\ SameBits(b, c, w) => SameBits(a, c, w)
    BY <1>4 DEF SameBits, P
  <1>8. QED
    BY <1>5, <1>6, <1>7

(* Sums, differences and products keep it. *)
LEMMA SameBitsOps ==
  ASSUME NEW w \in 0 .. N, NEW a \in Int, NEW b \in Int, NEW c \in Int, NEW d \in Int,
         SameBits(a, b, w), SameBits(c, d, w)
  PROVE  SameBits(a + c, b + d, w) /\ SameBits(a - c, b - d, w) /\ SameBits(a * c, b * d, w)
  <1> DEFINE P == Pow2[w]
  <1>1. P \in Nat
    BY Pow2Facts
  <1>2. PICK k \in Int : a = b + k * P
    BY DEF SameBits
  <1>3. PICK l \in Int : c = d + l * P
    BY DEF SameBits
  <1> HIDE DEF P
  <1>4. a + c = b + d + (k + l) * P /\ a - c = b - d + (k - l) * P
    BY <1>1, <1>2, <1>3
  <1>5. a * c = b * d + (k * d + b * l + k * l * P) * P
    <2>1. a * c = (b + k * P) * (d + l * P)
      BY <1>2, <1>3
    <2>2. (b + k * P) * (d + l * P) = b * d + (k * d + b * l + k * l * P) * P
      BY <1>1
    <2>3. QED
      BY <2>1, <2>2
  <1>6. k + l \in Int /\ k - l \in Int /\ k * d + b * l + k * l * P \in Int
    BY <1>1
  <1>7. SameBits(a + c, b + d, w)
    BY <1>4, <1>6 DEF SameBits, P
  <1>8. SameBits(a - c, b - d, w)
    BY <1>4, <1>6 DEF SameBits, P
  <1>9. SameBits(a * c, b * d, w)
    BY <1>5, <1>6, Zenon DEF SameBits, P
  <1>10. QED
    BY <1>7, <1>8, <1>9

(* More bits the same, fewer bits the same. *)
LEMMA FewerBits ==
  ASSUME NEW w \in 0 .. N, NEW v \in 0 .. w, NEW a \in Int, NEW b \in Int, SameBits(a, b, w)
  PROVE  SameBits(a, b, v)
  <1>1. PICK k \in Int : a = b + k * Pow2[w]
    BY DEF SameBits
  <1>2. w - v \in 0 .. N /\ v \in 0 .. N /\ v + (w - v) = w
    BY Widths
  <1>3. Pow2[w] = Pow2[v] * Pow2[w - v] /\ Pow2[v] \in Nat /\ Pow2[w - v] \in Nat
    <2>1. v + (w - v) <= N
      BY <1>2
    <2>2. Pow2[v + (w - v)] = Pow2[v] * Pow2[w - v]
      BY <1>2, <2>1, PowSum, Zenon
    <2>3. QED
      BY <1>2, <2>2, Pow2Facts
  <1>4. a = b + (k * Pow2[w - v]) * Pow2[v] /\ k * Pow2[w - v] \in Int
    BY <1>1, <1>3
  <1>5. QED
    BY <1>4 DEF SameBits

(* Numbers less than the power apart that have the same bits are equal. *)
LEMMA SameBitsEqual ==
  ASSUME NEW w \in 0 .. N, NEW a \in Int, NEW b \in Int, SameBits(a, b, w),
         a - b < Pow2[w], b - a < Pow2[w]
  PROVE  a = b
  <1>1. PICK k \in Int : a = b + k * Pow2[w]
    BY DEF SameBits
  <1>2. Pow2[w] \in Nat /\ Pow2[w] > 0
    BY Pow2Facts
  <1>3. ~ k >= 1 /\ ~ k <= -1
    BY <1>1, <1>2, Scaled
  <1>4. k = 0
    BY <1>3
  <1>5. QED
    BY <1>1, <1>2, <1>4

(* n as w bits. *)
LEMMA BitsFacts ==
  ASSUME NEW w \in 0 .. N, NEW n \in Int
  PROVE  /\ Bits(n, w) \in 0 .. Pow2[w] - 1 /\ SameBits(Bits(n, w), n, w)
         /\ n \in 0 .. Pow2[w] - 1 => Bits(n, w) = n
  <1>1. Pow2[w] \in Nat /\ Pow2[w] > 0
    BY Pow2Facts
  <1>2. /\ n \div Pow2[w] \in Int /\ Bits(n, w) \in 0 .. Pow2[w] - 1
        /\ n = (n \div Pow2[w]) * Pow2[w] + Bits(n, w)
    BY <1>1, Division DEF Bits
  <1>3. Bits(n, w) = n + (-(n \div Pow2[w])) * Pow2[w] /\ -(n \div Pow2[w]) \in Int
    BY <1>1, <1>2
  <1>4. SameBits(Bits(n, w), n, w)
    BY <1>3 DEF SameBits
  <1>5. ASSUME n \in 0 .. Pow2[w] - 1 PROVE Bits(n, w) = n
    BY <1>1, <1>2, <1>4, <1>5, SameBitsEqual
  <1>6. QED
    BY <1>2, <1>4, <1>5

(* Bits are the same whatever number they are taken from. *)
LEMMA BitsSame ==
  ASSUME NEW w \in 0 .. N, NEW a \in Int, NEW b \in Int, SameBits(a, b, w)
  PROVE  Bits(a, w) = Bits(b, w)
  <1>1. /\ Bits(a, w) \in 0 .. Pow2[w] - 1 /\ SameBits(Bits(a, w), a, w)
        /\ Bits(b, w) \in 0 .. Pow2[w] - 1 /\ SameBits(Bits(b, w), b, w)
    BY BitsFacts
  <1>2. Pow2[w] \in Nat /\ Bits(a, w) \in Int /\ Bits(b, w) \in Int
    BY <1>1, Pow2Facts
  <1>3. SameBits(Bits(a, w), b, w) /\ SameBits(b, Bits(b, w), w)
    BY <1>1, <1>2, SameBitsEq
  <1>4. SameBits(Bits(a, w), Bits(b, w), w)
    BY <1>2, <1>3, SameBitsEq
  <1>5. Bits(a, w) - Bits(b, w) < Pow2[w] /\ Bits(b, w) - Bits(a, w) < Pow2[w]
    BY <1>1, <1>2
  <1>6. QED
    BY <1>2, <1>4, <1>5, SameBitsEqual

(* The signed numbers of w bits. *)
SignedRange(w) == -Pow2[w - 1] .. Pow2[w - 1] - 1

(* n as w bits, signed. *)
LEMMA WrapFacts ==
  ASSUME NEW w \in 1 .. N, NEW n \in Int
  PROVE  /\ Wrap(n, w) \in SignedRange(w) /\ Wrap(n, w) \in Int /\ SameBits(Wrap(n, w), n, w)
         /\ n \in SignedRange(w) => Wrap(n, w) = n
  <1> DEFINE H == Pow2[w - 1]
             m == n + H
  <1>1. w - 1 \in 0 .. N /\ w \in 0 .. N
    BY Widths
  <1>2. H \in Nat /\ H > 0 /\ Pow2[w] = 2 * H /\ m \in Int
    BY <1>1, Pow2Facts
  <1>3. Bits(m, w) \in 0 .. Pow2[w] - 1 /\ SameBits(Bits(m, w), m, w) /\ Wrap(n, w) = Bits(m, w) - H
    BY <1>1, <1>2, BitsFacts DEF Wrap, Bits
  <1> HIDE DEF H
  <1>4. Wrap(n, w) \in -H .. H - 1 /\ Wrap(n, w) \in Int
    BY <1>2, <1>3
  <1>5. SameBits(Wrap(n, w), n, w)
    <2>1. Bits(m, w) \in Int /\ SameBits(H, H, w)
      BY <1>1, <1>2, <1>3, SameBitsEq
    <2>2. SameBits(Bits(m, w) - H, m - H, w)
      BY <1>1, <1>2, <1>3, <2>1, SameBitsOps
    <2>3. QED
      BY <1>2, <1>3, <2>2
  <1>6. ASSUME n \in SignedRange(w) PROVE Wrap(n, w) = n
    <2>1. Wrap(n, w) - n < Pow2[w] /\ n - Wrap(n, w) < Pow2[w]
      BY <1>2, <1>4, <1>6 DEF SignedRange, H
    <2>2. QED
      BY <1>1, <1>4, <1>5, <2>1, SameBitsEqual
  <1>7. QED
    BY <1>4, <1>5, <1>6 DEF SignedRange, H

(* Wrapped numbers with the same bits are the same. *)
LEMMA WrapSame ==
  ASSUME NEW w \in 1 .. N, NEW a \in Int, NEW b \in Int, SameBits(a, b, w)
  PROVE  Wrap(a, w) = Wrap(b, w)
  <1>1. w - 1 \in 0 .. N /\ w \in 0 .. N /\ Pow2[w - 1] \in Nat /\ Pow2[w] = 2 * Pow2[w - 1]
    BY Pow2Facts, Widths
  <1>2. /\ Wrap(a, w) \in SignedRange(w) /\ Wrap(a, w) \in Int /\ SameBits(Wrap(a, w), a, w)
        /\ Wrap(b, w) \in SignedRange(w) /\ Wrap(b, w) \in Int /\ SameBits(Wrap(b, w), b, w)
    BY WrapFacts
  <1>3. SameBits(Wrap(a, w), b, w) /\ SameBits(b, Wrap(b, w), w)
    BY <1>1, <1>2, SameBitsEq
  <1>4. SameBits(Wrap(a, w), Wrap(b, w), w)
    BY <1>1, <1>2, <1>3, SameBitsEq
  <1>5. Wrap(a, w) - Wrap(b, w) < Pow2[w] /\ Wrap(b, w) - Wrap(a, w) < Pow2[w]
    BY <1>1, <1>2 DEF SignedRange
  <1>6. QED
    BY <1>1, <1>2, <1>4, <1>5, SameBitsEqual

-----------------------------------------------------------------------------
(* Values and their representation *)

(* A variable of the JVM that holds the value a of type ty. *)
Repr(ty, a) == IF ty = "i1" THEN a ELSE Signed(ty, a)

(* n on the operand stack stands for a; a true i1 that is a constant is -1. *)
Stands(ty, a, n) ==
  /\ a \in Values(ty) /\ n \in Int /\ SameBits(n, a, Width[ty])
  /\ IF ty = "i1" THEN n \in {-1, 0, 1} ELSE n = Signed(ty, a)

(* y is what the operand stack should have for the result x modulo the width. *)
Right(ty, x, y) ==
  /\ x \in Int /\ y \in Int /\ SameBits(y, x, Width[ty])
  /\ ty \in {"i32", "i64"} => y \in SignedRange(Width[ty])

(* Widths of types and of the computations with them. *)
LEMMA TypeFacts ==
  ASSUME NEW ty \in Types
  PROVE  /\ Width[ty] \in 1 .. N /\ expanded(ty) \in 1 .. N
         /\ Width[ty] \in 0 .. N /\ expanded(ty) \in 0 .. N
         /\ ty \in {"i32", "i64"} => expanded(ty) = Width[ty]
         /\ ty \notin {"i32", "i64"} => Width[ty] < expanded(ty) /\ expanded(ty) = Width["i32"]
         /\ Width[ty] <= expanded(ty) /\ Width["i32"] <= expanded(ty)
  BY Widths DEF Types, expanded, N

(* The halves of a power. *)
LEMMA Halves ==
  ASSUME NEW w \in 1 .. N
  PROVE  /\ Pow2[w - 1] \in Nat /\ Pow2[w - 1] >= 1 /\ Pow2[w] \in Nat
         /\ Pow2[w] = 2 * Pow2[w - 1]
         /\ w > 1 => Pow2[w - 1] >= 2
  <1>1. w - 1 \in 0 .. N /\ w \in 0 .. N
    BY Widths
  <1>2. Pow2[w - 1] \in Nat /\ Pow2[w - 1] >= 1 /\ Pow2[w] \in Nat /\ Pow2[w] = 2 * Pow2[w - 1]
    BY <1>1, Pow2Facts
  <1>3. w > 1 => w <= Pow2[w - 1]
    BY PowGrows
  <1>4. QED
    BY <1>2, <1>3

(* A range of fewer bits is inside one of more. *)
LEMMA RangeGrows ==
  ASSUME NEW w \in 1 .. N, NEW v \in 1 .. w
  PROVE  SignedRange(v) \subseteq SignedRange(w) /\ SignedRange(v) \subseteq Int
  <1>1. v \in 1 .. N /\ v - 1 \in 0 .. N /\ w - 1 \in 0 .. N /\ (v - 1 < w - 1 \/ v = w)
    BY Widths
  <1>2. Pow2[v - 1] \in Nat /\ Pow2[w - 1] \in Nat
    BY <1>1, Pow2Facts
  <1>3. Pow2[v - 1] <= Pow2[w - 1]
    BY <1>1, <1>2, PowGrows
  <1>4. QED
    BY <1>2, <1>3 DEF SignedRange

(* A value, signed. *)
LEMMA SignedFacts ==
  ASSUME NEW ty \in Types, NEW a \in Values(ty)
  PROVE  /\ a \in Nat /\ a < Pow2[Width[ty]]
         /\ Signed(ty, a) \in SignedRange(Width[ty]) /\ Signed(ty, a) \in Int
         /\ SameBits(Signed(ty, a), a, Width[ty])
         /\ Signed(ty, a) = IF a < Pow2[Width[ty] - 1] THEN a ELSE a - Pow2[Width[ty]]
  <1> DEFINE w == Width[ty]
             z == IF a < Pow2[w - 1] THEN a ELSE a - Pow2[w]
  <1>1. w \in 1 .. N /\ w \in 0 .. N
    BY TypeFacts
  <1>2. Pow2[w - 1] \in Nat /\ Pow2[w] \in Nat /\ Pow2[w] = 2 * Pow2[w - 1]
    BY <1>1, Halves
  <1>3. a \in Nat /\ a < Pow2[w]
    BY <1>2 DEF Values
  <1>4. Signed(ty, a) \in SignedRange(w) /\ Signed(ty, a) \in Int /\ SameBits(Signed(ty, a), a, w)
    BY <1>1, <1>3, WrapFacts DEF Signed
  <1>5. z \in SignedRange(w) /\ z \in Int
    BY <1>2, <1>3 DEF SignedRange
  <1>6. SameBits(a, z, w)
    <2>1. CASE a < Pow2[w - 1]
      BY <1>1, <1>3, <2>1, SameBitsEq
    <2>2. CASE ~(a < Pow2[w - 1])
      <3>1. a = z + 1 * Pow2[w]
        BY <1>2, <1>3, <2>2
      <3>2. QED
        BY <3>1 DEF SameBits
    <2>3. QED
      BY <2>1, <2>2
  <1>7. Wrap(a, w) = Wrap(z, w) /\ Wrap(z, w) = z
    <2> HIDE DEF z, w
    <2>1. a \in Int
      BY <1>3
    <2>2. QED
      BY <1>1, <1>5, <1>6, <2>1, WrapSame, WrapFacts
  <1>8. QED
    BY <1>3, <1>4, <1>7 DEF Signed

(* Operands fit the type they are computed with. *)
LEMMA StandsFacts ==
  ASSUME NEW ty \in Types, NEW a, NEW n, Stands(ty, a, n)
  PROVE  /\ a \in Nat /\ a < Pow2[Width[ty]] /\ n \in Int
         /\ n \in SignedRange(expanded(ty))
         /\ a = 0 <=> n = 0
         /\ ty # "i1" => /\ n \in SignedRange(Width[ty])
                         /\ n = IF a < Pow2[Width[ty] - 1] THEN a ELSE a - Pow2[Width[ty]]
         /\ ty = "i1" => a \in {0, 1}
  <1>1. a \in Values(ty) /\ n \in Int
    BY DEF Stands
  <1>2. /\ a \in Nat /\ a < Pow2[Width[ty]] /\ Signed(ty, a) \in SignedRange(Width[ty])
        /\ Signed(ty, a) = IF a < Pow2[Width[ty] - 1] THEN a ELSE a - Pow2[Width[ty]]
    BY <1>1, SignedFacts
  <1>3. Width[ty] \in 1 .. N /\ expanded(ty) \in 1 .. N /\ Width[ty] \in 1 .. expanded(ty)
    BY TypeFacts, Widths
  <1>4. /\ Pow2[Width[ty] - 1] \in Nat /\ Pow2[Width[ty] - 1] >= 1
        /\ Pow2[Width[ty]] = 2 * Pow2[Width[ty] - 1]
    BY <1>3, Halves
  <1>5. CASE ty # "i1"
    <2>1. n = Signed(ty, a)
      BY <1>5 DEF Stands
    <2>2. n \in SignedRange(expanded(ty))
      BY <1>2, <1>3, <2>1, RangeGrows
    <2>3. a = 0 <=> n = 0
      BY <1>2, <1>4, <2>1
    <2>4. QED
      BY <1>1, <1>2, <1>5, <2>1, <2>2, <2>3
  <1>6. CASE ty = "i1"
    <2>1. n \in {-1, 0, 1} /\ SameBits(n, a, 1) /\ Width[ty] = 1 /\ expanded(ty) > 1
      <3>1. Width[ty] = 1
        BY <1>6, Widths
      <3>2. expanded(ty) > 1
        BY <1>6, <3>1, TypeFacts
      <3>3. QED
        BY <1>6, <3>1, <3>2 DEF Stands
    <2>2. Pow2[1] = 2 /\ Pow2[expanded(ty) - 1] >= 2 /\ Pow2[expanded(ty) - 1] \in Nat
      <3>1. Pow2[1] = 2
        BY Pow2Facts, Widths
      <3>2. QED
        BY <1>3, <2>1, <3>1, Halves
    <2>3. n \in SignedRange(expanded(ty))
      BY <2>1, <2>2 DEF SignedRange
    <2>4. a \in {0, 1}
      BY <1>2, <2>1, <2>2
    <2>5. \E k \in Int : n = a + k * 2
      BY <2>1, <2>2 DEF SameBits
    <2>6. a = 0 <=> n = 0
      BY <2>1, <2>4, <2>5
    <2>7. QED
      BY <1>1, <1>2, <1>6, <2>3, <2>4, <2>6
  <1>7. QED
    BY <1>5, <1>6

(* What is stored of a right result is the representation of LLVM's. *)
LEMMA RightStored ==
  ASSUME NEW ty \in Types, NEW x, NEW y, Right(ty, x, y)
  PROVE  /\ printValueStore(ty, y) = Repr(ty, Bits(x, Width[ty]))
         /\ Bits(x, Width[ty]) \in Values(ty)
  <1> DEFINE w == Width[ty]
  <1>1. w \in 1 .. N /\ w \in 0 .. N /\ x \in Int /\ y \in Int /\ SameBits(y, x, w)
    BY TypeFacts DEF Right
  <1>2. Bits(x, w) \in 0 .. Pow2[w] - 1 /\ SameBits(Bits(x, w), x, w) /\ Pow2[w] \in Nat
    BY <1>1, BitsFacts, Pow2Facts
  <1>3. Bits(x, w) \in Int
    BY <1>2
  <1>4. SameBits(x, Bits(x, w), w)
    BY <1>1, <1>2, <1>3, SameBitsEq
  <1>5. SameBits(y, Bits(x, w), w)
    BY <1>1, <1>3, <1>4, SameBitsEq
  <1>6. Wrap(y, w) = Signed(ty, Bits(x, w))
    BY <1>1, <1>3, <1>5, WrapSame DEF Signed
  <1>7. CASE ty = "i1"
    <2>1. w = 1 /\ Pow2[1] = 2
      BY <1>7, Widths, Pow2Facts
    <2>2. Bits(y, w) = Bits(x, w)
      BY <1>1, BitsSame
    <2>3. QED
      BY <1>2, <1>7, <2>1, <2>2 DEF Bits, Values, printValueStore, Repr
  <1>8. CASE ty \in Narrow
    BY <1>2, <1>6, <1>8 DEF printValueStore, Repr, Values, Signed, Narrow
  <1>9. CASE ty \in {"i32", "i64"}
    <2>1. Wrap(y, w) = y
      BY <1>1, <1>9, WrapFacts DEF Right
    <2>2. QED
      BY <1>2, <1>6, <1>9, <2>1 DEF printValueStore, Repr, Values, Narrow
  <1>10. QED
    BY <1>7, <1>8, <1>9 DEF Types, Narrow

(* Wrapping to the width of the computation is right. *)
LEMMA WrapRight ==
  ASSUME NEW ty \in Types, NEW x \in Int, NEW z \in Int, SameBits(z, x, Width[ty])
  PROVE  Right(ty, x, Wrap(z, expanded(ty)))
  <1> DEFINE w == Width[ty]
             e == expanded(ty)
             y == Wrap(z, e)
  <1>1. w \in 1 .. N /\ w \in 0 .. N /\ e \in 1 .. N /\ e \in 0 .. N /\ w \in 0 .. e
        /\ (ty \in {"i32", "i64"} => e = w)
    BY TypeFacts, Widths
  <1>2. y \in SignedRange(e) /\ y \in Int /\ SameBits(y, z, e)
    BY <1>1, WrapFacts
  <1>3. SameBits(y, z, w)
    BY <1>1, <1>2, FewerBits
  <1>4. SameBits(y, x, w)
    BY <1>1, <1>2, <1>3, SameBitsEq
  <1>5. QED
    BY <1>1, <1>2, <1>4 DEF Right

-----------------------------------------------------------------------------
(* Binary instructions *)

(* The code for each instruction. *)
LEMMA Emitted ==
  ASSUME NEW ty, NEW m, NEW n
  PROVE  LET e == expanded(ty)
             d == Bits(n, Width["i32"]) % e
         IN  /\ printArithmeticInstruction("add", ty, m, n) = Wrap(m + n, e)
             /\ printArithmeticInstruction("sub", ty, m, n) = Wrap(m - n, e)
             /\ printArithmeticInstruction("mul", ty, m, n) = Wrap(m * n, e)
             /\ printArithmeticInstruction("sdiv", ty, m, n) = Wrap(Quot(m, n), e)
             /\ printArithmeticInstruction("srem", ty, m, n) = Rem(m, n)
             /\ printArithmeticInstruction("udiv", ty, m, n) = udiv(ty, m, n)
             /\ printArithmeticInstruction("urem", ty, m, n) = urem(ty, m, n)
             /\ printArithmeticInstruction("shl", ty, m, n) = Wrap(m * Pow2[d], e)
             /\ printArithmeticInstruction("lshr", ty, m, n) = Wrap(Bits(m, e) \div Pow2[d], e)
             /\ printArithmeticInstruction("ashr", ty, m, n) = m \div Pow2[d]
             /\ printArithmeticInstruction("smax", ty, m, n) = IF m > n THEN m ELSE n
             /\ \A op \in BitwiseOps :
                  printArithmeticInstruction(op, ty, m, n) = Wrap(Bitwise(op, Bits(m, e), Bits(n, e), e), e)
  BY DEF printArithmeticInstruction, BitwiseOps

(* The meaning of each. *)
LEMMA Meaning ==
  ASSUME NEW ty, NEW a, NEW b
  PROVE  LET w == Width[ty]
             s == Signed(ty, a)
             t == Signed(ty, b)
         IN  /\ LlvmBinary("add", ty, a, b) = Bits(a + b, w)
             /\ LlvmBinary("sub", ty, a, b) = Bits(a - b, w)
             /\ LlvmBinary("mul", ty, a, b) = Bits(a * b, w)
             /\ LlvmBinary("sdiv", ty, a, b) = Bits(Quot(s, t), w)
             /\ LlvmBinary("srem", ty, a, b) = Bits(Rem(s, t), w)
             /\ LlvmBinary("udiv", ty, a, b) = Bits(a \div b, w)
             /\ LlvmBinary("urem", ty, a, b) = Bits(a % b, w)
             /\ LlvmBinary("shl", ty, a, b) = Bits(a * Pow2[b], w)
             /\ LlvmBinary("lshr", ty, a, b) = Bits(a \div Pow2[b], w)
             /\ LlvmBinary("ashr", ty, a, b) = Bits(s \div Pow2[b], w)
             /\ LlvmBinary("smax", ty, a, b) = Bits(IF s > t THEN a ELSE b, w)
             /\ \A op \in BitwiseOps : LlvmBinary(op, ty, a, b) = Bits(Bitwise(op, a, b, w), w)
  BY DEF LlvmBinary, BitwiseOps

(* add, sub, mul: wrapped twice is wrapped once. *)
LEMMA SumRight ==
  ASSUME NEW ty \in Types, NEW a, NEW b, NEW m, NEW n, Stands(ty, a, m), Stands(ty, b, n)
  PROVE  /\ Right(ty, a + b, printArithmeticInstruction("add", ty, m, n))
         /\ Right(ty, a - b, printArithmeticInstruction("sub", ty, m, n))
         /\ Right(ty, a * b, printArithmeticInstruction("mul", ty, m, n))
  <1>1. a \in Int /\ b \in Int /\ m \in Int /\ n \in Int /\ Width[ty] \in 0 .. N
    BY StandsFacts, TypeFacts
  <1>2. SameBits(m, a, Width[ty]) /\ SameBits(n, b, Width[ty])
    BY DEF Stands
  <1>3. /\ SameBits(m + n, a + b, Width[ty]) /\ SameBits(m - n, a - b, Width[ty])
        /\ SameBits(m * n, a * b, Width[ty])
    BY <1>1, <1>2, SameBitsOps
  <1>4. /\ a + b \in Int /\ a - b \in Int /\ a * b \in Int
        /\ m + n \in Int /\ m - n \in Int /\ m * n \in Int
    BY <1>1
  <1>5. QED
    BY <1>3, <1>4, WrapRight, Emitted

(* Division that rounds towards zero. *)
LEMMA QuotFacts ==
  ASSUME NEW a \in Int, NEW b \in Int, b # 0
  PROVE  /\ Quot(a, b) \in Int /\ Rem(a, b) \in Int
         /\ a >= 0 /\ b > 0 => Quot(a, b) = a \div b /\ Rem(a, b) = a % b
         /\ a = 0 => Quot(a, b) = 0 /\ Rem(a, b) = 0
         /\ IF b < 0 THEN Rem(a, b) \in b + 1 .. -b - 1 ELSE Rem(a, b) \in -b + 1 .. b - 1
  <1> DEFINE Abs(k) == IF k < 0 THEN -k ELSE k
             q == Abs(a) \div Abs(b)
             r == Abs(a) % Abs(b)
  <1>1. Abs(a) \in Int /\ Abs(b) \in Nat /\ Abs(b) > 0 /\ Abs(a) >= 0
    OBVIOUS
  <1>2. q \in Int /\ r \in 0 .. Abs(b) - 1 /\ Abs(a) = q * Abs(b) + r
    <2> HIDE DEF Abs
    <2>1. QED
      BY <1>1, Division
  <1>3. Quot(a, b) = IF (a < 0) = (b < 0) THEN q ELSE -q
    BY DEF Quot
  <1>4. a = 0 => q = 0
    <2>1. ASSUME a = 0 PROVE q = 0
      <3>1. Abs(a) = 0 /\ 0 = 0 * Abs(b) + 0 /\ 0 \in 0 .. Abs(b) - 1
        BY <1>1, <2>1
      <3> HIDE DEF Abs
      <3>2. QED
        BY <1>1, <3>1, DivisionUnique
    <2>2. QED
      BY <2>1
  <1>5. Rem(a, b) = IF a < 0 THEN -r ELSE r
    <2>1. CASE a < 0 /\ b < 0
      <3>1. Rem(a, b) = a - b * q /\ -a = q * (-b) + r /\ q \in Int /\ r \in Int
        BY <1>2, <1>3, <2>1 DEF Rem
      <3> HIDE DEF q, r
      <3>2. QED
        BY <2>1, <3>1
    <2>2. CASE a < 0 /\ ~(b < 0)
      <3>1. Rem(a, b) = a - b * (-q) /\ -a = q * b + r /\ q \in Int /\ r \in Int
        BY <1>2, <1>3, <2>2 DEF Rem
      <3> HIDE DEF q, r
      <3>2. QED
        BY <2>2, <3>1
    <2>3. CASE ~(a < 0) /\ b < 0
      <3>1. Rem(a, b) = a - b * (-q) /\ a = q * (-b) + r /\ q \in Int /\ r \in Int
        BY <1>2, <1>3, <2>3 DEF Rem
      <3> HIDE DEF q, r
      <3>2. QED
        BY <2>3, <3>1
    <2>4. CASE ~(a < 0) /\ ~(b < 0)
      <3>1. Rem(a, b) = a - b * q /\ a = q * b + r /\ q \in Int /\ r \in Int
        BY <1>2, <1>3, <2>4 DEF Rem
      <3> HIDE DEF q, r
      <3>2. QED
        BY <2>4, <3>1
    <2>5. QED
      BY <2>1, <2>2, <2>3, <2>4
  <1>6. a >= 0 /\ b > 0 => q = a \div b /\ r = a % b
    OBVIOUS
  <1>7. a = 0 => r = 0
    <2>1. a = 0 => Abs(a) = 0 /\ q * Abs(b) = 0
      BY <1>1, <1>4
    <2> HIDE DEF q, r, Abs
    <2>2. QED
      BY <1>1, <1>2, <2>1
  <1>8. QED
    <2>1. Quot(a, b) \in Int /\ Rem(a, b) \in Int
      BY <1>2, <1>3, <1>5
    <2>2. a >= 0 /\ b > 0 => Quot(a, b) = a \div b /\ Rem(a, b) = a % b
      BY <1>3, <1>5, <1>6
    <2>3. a = 0 => Quot(a, b) = 0 /\ Rem(a, b) = 0
      BY <1>3, <1>4, <1>5, <1>7
    <2>4. IF b < 0 THEN Rem(a, b) \in b + 1 .. -b - 1 ELSE Rem(a, b) \in -b + 1 .. b - 1
      BY <1>2, <1>5
    <2>5. QED
      BY <2>1, <2>2, <2>3, <2>4

(* A value and its signed form are zero together. *)
LEMMA SignedZero ==
  ASSUME NEW ty \in Types, NEW a \in Values(ty)
  PROVE  Signed(ty, a) = 0 <=> a = 0
  <1>1. Width[ty] \in 1 .. N
    BY TypeFacts
  <1>2. Pow2[Width[ty] - 1] \in Nat /\ Pow2[Width[ty] - 1] >= 1 /\ Pow2[Width[ty]] = 2 * Pow2[Width[ty] - 1]
    BY <1>1, Halves
  <1>3. QED
    BY <1>2, SignedFacts

(* sdiv, srem: both divide the signed values; of i1 only 0 can be divided. *)
LEMMA SignedDivisionRight ==
  ASSUME NEW ty \in Types, NEW a, NEW b, NEW m, NEW n, Stands(ty, a, m), Stands(ty, b, n), b # 0,
         ~(Signed(ty, a) = -Pow2[Width[ty] - 1] /\ Signed(ty, b) = -1)
  PROVE  /\ Right(ty, Quot(Signed(ty, a), Signed(ty, b)), printArithmeticInstruction("sdiv", ty, m, n))
         /\ Right(ty, Rem(Signed(ty, a), Signed(ty, b)), printArithmeticInstruction("srem", ty, m, n))
  <1> DEFINE w == Width[ty]
             s == Signed(ty, a)
             t == Signed(ty, b)
  <1>1. /\ a \in Values(ty) /\ b \in Values(ty) /\ w \in 1 .. N /\ w \in 0 .. N
        /\ m \in Int /\ n \in Int /\ n # 0
    BY StandsFacts, TypeFacts DEF Stands
  <1>2. s \in Int /\ t \in Int /\ s \in SignedRange(w) /\ t \in SignedRange(w) /\ t # 0
    BY <1>1, SignedFacts, SignedZero
  <1>3. Quot(s, t) \in Int /\ Rem(s, t) \in Int /\ Quot(m, n) \in Int /\ Rem(m, n) \in Int
    BY <1>1, <1>2, QuotFacts
  <1>4. Quot(m, n) = Quot(s, t) /\ Rem(m, n) = Rem(s, t)
    <2>1. CASE ty # "i1"
      BY <2>1 DEF Stands
    <2>2. CASE ty = "i1"
      <3>1. a \in {0, 1} /\ b = 1 /\ w = 1 /\ Pow2[0] = 1 /\ Pow2[1] = 2
        BY <2>2, StandsFacts, Widths, Pow2Facts
      <3>2. t = -1 /\ (a = 1 => s = -1)
        BY <1>1, <3>1, SignedFacts
      <3>3. a = 0
        BY <3>1, <3>2
      <3>4. s = 0 /\ m = 0
        BY <1>1, <3>3, SignedZero, StandsFacts
      <3>5. QED
        BY <1>1, <1>2, <3>4, QuotFacts
    <2>3. QED
      BY <2>1, <2>2
  <1>5. Right(ty, Quot(s, t), printArithmeticInstruction("sdiv", ty, m, n))
    <2>1. SameBits(Quot(m, n), Quot(s, t), w)
      BY <1>1, <1>3, <1>4, SameBitsEq
    <2> HIDE DEF s, t, w
    <2>2. QED
      BY <1>3, <2>1, WrapRight, Emitted DEF w
  <1>6. Right(ty, Rem(s, t), printArithmeticInstruction("srem", ty, m, n))
    <2>1. SameBits(Rem(m, n), Rem(s, t), w)
      BY <1>1, <1>3, <1>4, SameBitsEq
    <2>2. Pow2[w - 1] \in Nat
      BY <1>1, Halves
    <2>3. Rem(s, t) \in SignedRange(w)
      <3>1. IF t < 0 THEN Rem(s, t) \in t + 1 .. -t - 1 ELSE Rem(s, t) \in -t + 1 .. t - 1
        BY <1>2, QuotFacts
      <3> HIDE DEF s, t
      <3>2. QED
        BY <1>2, <1>3, <2>2, <3>1 DEF SignedRange
    <2> HIDE DEF s, t
    <2>4. QED
      BY <1>3, <1>4, <2>1, <2>3, Emitted DEF Right
  <1>7. QED
    BY <1>5, <1>6

(* smax: both compare the signed values. *)
LEMMA MaxRight ==
  ASSUME NEW ty \in Types, NEW a, NEW b, NEW m, NEW n, Stands(ty, a, m), Stands(ty, b, n), ty # "i1"
  PROVE  Right(ty, IF Signed(ty, a) > Signed(ty, b) THEN a ELSE b,
               printArithmeticInstruction("smax", ty, m, n))
  <1>1. /\ m = Signed(ty, a) /\ n = Signed(ty, b) /\ a \in Int /\ b \in Int /\ m \in Int /\ n \in Int
        /\ SameBits(m, a, Width[ty]) /\ SameBits(n, b, Width[ty])
        /\ m \in SignedRange(Width[ty]) /\ n \in SignedRange(Width[ty])
    BY StandsFacts DEF Stands
  <1>2. printArithmeticInstruction("smax", ty, m, n) = IF m > n THEN m ELSE n
    BY Emitted
  <1>3. QED
    BY <1>1, <1>2 DEF Right

(* Division of a number above the signed range through its half. *)
LEMMA LongDivision ==
  ASSUME NEW H \in Nat, NEW a \in H .. 2 * H - 1, NEW b \in 1 .. H - 1
  PROVE  LET half == a \div 2
             hr == half \div b
             r == 2 * (half - b * hr) + (a % 2)
         IN  /\ hr \in Nat /\ r \in Nat
             /\ hr = 0 => a \div b = 1 /\ a % b = a - b
             /\ hr # 0 => /\ r < H
                          /\ a \div b = 2 * hr + Bool(r >= b)
                          /\ a % b = IF r >= b THEN r - b ELSE r
  <1> DEFINE half == a \div 2
             bit == a % 2
             hr == half \div b
             s == half % b
             p == b * hr
             r == 2 * (half - p) + bit
  <1>1. a \in Nat /\ b \in Nat /\ b > 0 /\ half \in Nat /\ bit \in 0 .. 1 /\ a = 2 * half + bit /\ half < H
    OBVIOUS
  <1>2. hr \in Int /\ s \in 0 .. b - 1 /\ half = hr * b + s
    <2> HIDE DEF half
    <2>1. QED
      BY <1>1, Division
  <1> HIDE DEF half, bit, hr, s
  <1>3. hr \in Nat
    <2>1. hr <= -1 => hr * b <= -b
      BY <1>1, <1>2, Scaled
    <2>2. QED
      BY <1>1, <1>2, <2>1
  <1>4. half = p + s /\ p \in Int /\ r = 2 * s + bit
    BY <1>1, <1>2
  <1>5. ASSUME hr = 0 PROVE a \div b = 1 /\ a % b = a - b
    <2>1. half < b
      BY <1>1, <1>2, <1>5
    <2>2. a = 1 * b + (a - b) /\ a - b \in 0 .. b - 1
      BY <1>1, <2>1
    <2>3. QED
      BY <1>1, <2>2, DivisionUnique
  <1>6. ASSUME hr # 0
        PROVE  /\ r < H /\ a \div b = 2 * hr + Bool(r >= b)
               /\ a % b = IF r >= b THEN r - b ELSE r
    <2>1. p >= b
      BY <1>1, <1>3, <1>6, Scaled
    <2> HIDE DEF p, r
    <2>2. r < H /\ r \in 0 .. 2 * b - 1
      BY <1>1, <1>2, <1>4, <2>1
    <2>3. a = (2 * hr) * b + r
      <3>1. a = 2 * p + r
        BY <1>1, <1>2, <1>4
      <3>2. QED
        BY <1>1, <1>3, <2>2, <3>1 DEF p
    <2>4. CASE r >= b
      <3>1. a = (2 * hr + 1) * b + (r - b) /\ r - b \in 0 .. b - 1 /\ 2 * hr + 1 \in Int
        BY <1>1, <1>3, <2>2, <2>3, <2>4
      <3>2. a \div b = 2 * hr + 1 /\ a % b = r - b
        BY <1>1, <3>1, DivisionUnique
      <3>3. QED
        BY <2>2, <2>4, <3>2 DEF Bool
    <2>5. CASE ~(r >= b)
      <3>1. r \in 0 .. b - 1 /\ 2 * hr \in Int
        BY <1>1, <1>3, <2>2, <2>5
      <3>2. a \div b = 2 * hr /\ a % b = r
        BY <1>1, <2>3, <3>1, DivisionUnique
      <3>3. QED
        BY <1>3, <2>2, <2>5, <3>2 DEF Bool
    <2>6. QED
      BY <2>4, <2>5
  <1>7. r \in Nat
    BY <1>1, <1>2, <1>4
  <1>8. QED
    BY <1>3, <1>5, <1>6, <1>7 DEF half, bit, hr

(* Instruction.udiv and urem of long. *)
LEMMA LongDivisionRight ==
  ASSUME NEW a, NEW b, NEW m, NEW n, Stands("i64", a, m), Stands("i64", b, n), b # 0
  PROVE  Right("i64", a \div b, UDivLong(m, n)) /\ Right("i64", a % b, URemLong(m, n))
  <1> DEFINE w == N
             H == Pow2[w - 1]
  <1>1. "i64" \in Types /\ w \in 1 .. N /\ w \in 0 .. N /\ Width["i64"] = w
    BY Widths DEF Types, N
  <1>2. H \in Nat /\ H >= 2 /\ Pow2[w] = 2 * H
    <2>1. w > 1
      BY TypeFacts, Widths DEF Types
    <2>2. QED
      BY <1>1, <2>1, Halves
  <1>3. /\ a \in 0 .. 2 * H - 1 /\ m = IF a < H THEN a ELSE a - 2 * H
        /\ b \in 1 .. 2 * H - 1 /\ n = IF b < H THEN b ELSE b - 2 * H
    BY <1>1, <1>2, StandsFacts
  <1>4. SameBits(m, a, w) /\ m \in Int /\ n \in Int
    BY <1>1, <1>2, <1>3 DEF Stands
  <1>5. a \div b \in 0 .. a /\ (a % b) \in 0 .. b - 1 /\ a \in Int /\ b \in Nat /\ b > 0
    BY <1>2, <1>3
  <1>6. \A z \in Int : z \in -H .. H - 1 => Right("i64", z, z)
    BY <1>1, <1>2, SameBitsEq DEF Right, SignedRange
  <1>7. \A z \in Int : Right("i64", z, Wrap(z, w))
    <2>1. expanded("i64") = w
      BY <1>1 DEF expanded
    <2>2. QED
      BY <1>1, <2>1, SameBitsEq, WrapRight
  <1> HIDE DEF w, H
  <1>8. CASE m >= 0 /\ n >= 0
    <2>1. m = a /\ n = b /\ UDivLong(m, n) = m \div n /\ URemLong(m, n) = m % n
      BY <1>2, <1>3, <1>8 DEF UDivLong, URemLong
    <2>2. a \div b \in -H .. H - 1 /\ a % b \in -H .. H - 1
      BY <1>2, <1>3, <1>5, <1>8
    <2>3. QED
      BY <1>5, <1>6, <2>1, <2>2
  <1>9. CASE m >= 0 /\ n < 0
    <2>1. m = a /\ UDivLong(m, n) = 0 /\ URemLong(m, n) = m
      BY <1>2, <1>3, <1>4, <1>9 DEF UDivLong, URemLong
    <2>2. a = 0 * b + a /\ a \in 0 .. b - 1 /\ a \in -H .. H - 1
      BY <1>2, <1>3, <1>9
    <2>3. a \div b = 0 /\ a % b = a
      BY <1>5, <2>2, DivisionUnique
    <2>4. QED
      BY <1>2, <1>5, <1>6, <2>1, <2>2, <2>3
  <1>10. CASE m < 0 /\ n < 0
    <2>1. a >= H /\ b >= H /\ m - n = a - b
      BY <1>2, <1>3, <1>10
    <2>2. UDivLong(m, n) = Bool(m >= n) /\ URemLong(m, n) = IF m >= n THEN m - n ELSE m
      BY <1>4, <1>10 DEF UDivLong, URemLong
    <2>3. CASE m >= n
      <3>1. a = 1 * b + (a - b) /\ a - b \in 0 .. b - 1 /\ a - b \in -H .. H - 1
        BY <1>2, <1>3, <1>4, <2>1, <2>3
      <3>2. a \div b = 1 /\ a % b = a - b
        BY <1>5, <3>1, DivisionUnique
      <3>3. 1 \in -H .. H - 1
        BY <1>2, <1>3, <1>10
      <3>4. QED
        BY <1>2, <1>5, <1>6, <2>1, <2>2, <2>3, <3>1, <3>2, <3>3 DEF Bool
    <2>4. CASE ~(m >= n)
      <3>1. a = 0 * b + a /\ a \in 0 .. b - 1 /\ 0 \in -H .. H - 1
        BY <1>2, <1>3, <1>4, <2>1, <2>4
      <3>2. a \div b = 0 /\ a % b = a
        BY <1>5, <3>1, DivisionUnique
      <3>3. Right("i64", a, m)
        BY <1>1, <1>2, <1>3, <1>4, <1>5 DEF Right, SignedRange, H
      <3>4. QED
        BY <1>6, <2>2, <2>4, <3>1, <3>2, <3>3 DEF Bool
    <2>5. QED
      BY <2>3, <2>4
  <1>11. CASE m < 0 /\ n >= 0
    <2>1. n = b /\ a \in H .. 2 * H - 1 /\ b \in 1 .. H - 1
      BY <1>2, <1>3, <1>11
    <2>2. Bits(m, w) = a
      <3>1. a \in 0 .. Pow2[w] - 1
        BY <1>2, <1>3
      <3>2. Bits(m, w) = Bits(a, w) /\ Bits(a, w) = a
        BY <1>1, <1>4, <1>5, <3>1, BitsSame, BitsFacts
      <3>3. QED
        BY <3>2
    <2>3. Bits(m, 1) = a % 2
      <3>1. 1 \in 0 .. N /\ 1 \in 0 .. w /\ Pow2[1] = 2
        BY <1>1, Pow2Facts, Widths
      <3>2. SameBits(m, a, 1)
        BY <1>1, <1>4, <1>5, <3>1, FewerBits
      <3>3. QED
        BY <1>4, <1>5, <3>1, <3>2, BitsSame DEF Bits
    <2> DEFINE half == a \div 2
               hr == half \div b
               r == 2 * (half - b * hr) + (a % 2)
    <2>4. /\ hr \in Nat /\ r \in Nat
          /\ hr = 0 => a \div b = 1 /\ a % b = a - b
          /\ hr # 0 => /\ r < H
                       /\ a \div b = 2 * hr + Bool(r >= b)
                       /\ a % b = IF r >= b THEN r - b ELSE r
      BY <1>2, <2>1, LongDivision
    <2>5. /\ UDivLong(m, n) = IF hr = 0 THEN 1 ELSE Wrap(2 * hr + Bool(Wrap(r, w) >= b), w)
          /\ URemLong(m, n) = IF hr = 0 THEN Wrap(m - n, w)
                              ELSE IF Wrap(r, w) >= b THEN Wrap(r, w) - b ELSE Wrap(r, w)
      BY <1>1, <1>4, <1>11, <2>1, <2>2, <2>3 DEF UDivLong, URemLong
    <2> HIDE DEF half, hr, r
    <2>6. CASE hr = 0
      <3>1. a \div b = 1 /\ a % b = a - b /\ UDivLong(m, n) = 1 /\ URemLong(m, n) = Wrap(m - n, w)
        BY <2>4, <2>5, <2>6
      <3>2. 1 \in -H .. H - 1
        BY <1>2, <2>1
      <3>3. Right("i64", a - b, Wrap(m - n, w))
        <4>1. SameBits(n, b, w)
          BY <1>1 DEF Stands
        <4>2. b \in Int /\ m - n \in Int /\ a - b \in Int
          BY <1>4, <1>5
        <4>5. SameBits(m - n, a - b, w)
          BY <1>1, <1>4, <1>5, <4>1, <4>2, SameBitsOps
        <4>3. expanded("i64") = w
          BY <1>1 DEF expanded
        <4>4. QED
          BY <1>1, <4>2, <4>3, <4>5, WrapRight
      <3>4. QED
        BY <1>6, <3>1, <3>2, <3>3
    <2>7. CASE hr # 0
      <3>1. r \in SignedRange(w)
        BY <1>2, <2>4, <2>7 DEF SignedRange, H
      <3>2. Wrap(r, w) = r
        BY <1>1, <2>4, <3>1, WrapFacts
      <3>3. UDivLong(m, n) = Wrap(a \div b, w) /\ URemLong(m, n) = a % b
        BY <2>4, <2>5, <2>7, <3>2
      <3>4. a % b \in -H .. H - 1 /\ a % b \in Int /\ a \div b \in Int
        BY <1>2, <1>5, <2>1
      <3>5. QED
        BY <1>6, <1>7, <3>3, <3>4
    <2>8. QED
      BY <2>6, <2>7
  <1>12. QED
    BY <1>4, <1>8, <1>9, <1>10, <1>11

(* udiv, urem: narrower types are divided in a wider one. *)
LEMMA UnsignedDivisionRight ==
  ASSUME NEW ty \in Types, NEW a, NEW b, NEW m, NEW n, Stands(ty, a, m), Stands(ty, b, n), b # 0,
         ty # "i1"
  PROVE  /\ Right(ty, a \div b, printArithmeticInstruction("udiv", ty, m, n))
         /\ Right(ty, a % b, printArithmeticInstruction("urem", ty, m, n))
  <1> DEFINE w == Width[ty]
  <1>1. CASE ty = "i64"
    BY <1>1, LongDivisionRight, Emitted DEF udiv, urem
  <1>2. CASE ty # "i64"
    <2>1. w \in 1 .. N /\ w \in 0 .. N /\ Pow2[w] \in Nat /\ Pow2[w] = 2 * Pow2[w - 1] /\ Pow2[w - 1] \in Nat
      BY TypeFacts, Halves
    <2>2. /\ a \in 0 .. Pow2[w] - 1 /\ b \in 0 .. Pow2[w] - 1 /\ m \in Int /\ n \in Int
          /\ SameBits(m, a, w) /\ SameBits(n, b, w)
          /\ m = IF a < Pow2[w - 1] THEN a ELSE a - Pow2[w]
          /\ n = IF b < Pow2[w - 1] THEN b ELSE b - Pow2[w]
      BY <2>1, StandsFacts DEF Stands
    <2>3. a \in Int /\ b \in Int /\ a >= 0 /\ b > 0 /\ b \in Nat
      BY <2>1, <2>2
    <2>4. zext(ty, m) = a /\ zext(ty, n) = b
      BY <2>1, <2>2, <2>3, BitsSame, BitsFacts DEF zext
    <2>5. m >= 0 /\ n >= 0 => m = a /\ n = b
      BY <2>1, <2>2
    <2>6. Quot(a, b) = a \div b /\ Rem(a, b) = a % b /\ a \div b \in Int /\ a % b \in Int
      BY <2>3, QuotFacts
    <2>7. udiv(ty, m, n) = Wrap(a \div b, w) /\ urem(ty, m, n) = Wrap(a % b, w)
      BY <1>2, <2>4, <2>5, <2>6 DEF udiv, urem, Signed
    <2>8. \A z \in Int : Right(ty, z, Wrap(z, w))
      BY <2>1, WrapFacts DEF Right
    <2>9. QED
      BY <2>6, <2>7, <2>8, Emitted
  <1>3. QED
    BY <1>1, <1>2

(* The distance of a shift survives l2i and the JVM's mask. *)
LEMMA Distance ==
  ASSUME NEW ty \in Types, NEW b, NEW n, Stands(ty, b, n), b < Width[ty]
  PROVE  /\ Bits(n, Width["i32"]) % expanded(ty) = b
         /\ b \in 0 .. Width[ty] - 1 /\ b \in 0 .. N
  <1> DEFINE w == Width[ty]
             e == expanded(ty)
             i == Width["i32"]
  <1>1. w \in 1 .. N /\ e \in 1 .. N /\ w <= e /\ i \in 0 .. N /\ N \in Nat
    BY TypeFacts, Widths DEF Types
  <1>2. b \in Nat /\ n \in Int
    BY StandsFacts
  <1>3. n = b
    <2>1. CASE ty = "i1"
      <3>1. w = 1
        BY <2>1, Widths
      <3>2. b = 0
        BY <1>2, <3>1
      <3>3. QED
        BY <3>2, StandsFacts
    <2>2. CASE ty # "i1"
      <3>1. b < Pow2[w - 1]
        BY <1>1, <1>2, PowGrows, Halves
      <3>2. QED
        BY <2>2, <3>1, StandsFacts
    <2>3. QED
      BY <2>1, <2>2
  <1>4. b \in 0 .. Pow2[i] - 1
    <2>1. N <= Pow2[i] /\ Pow2[i] \in Nat
      BY <1>1, WidthAssumption, Pow2Facts DEF N
    <2>2. QED
      BY <1>1, <1>2, <2>1
  <1>5. Bits(n, i) = b
    BY <1>1, <1>2, <1>3, <1>4, BitsFacts
  <1>6. b = 0 * e + b /\ b \in 0 .. e - 1 /\ e \in Nat /\ e > 0
    BY <1>1, <1>2
  <1>7. b % e = b
    <2> HIDE DEF e
    <2>1. QED
      BY <1>2, <1>6, DivisionUnique
  <1>8. QED
    BY <1>1, <1>2, <1>5, <1>7

(* shl, ashr; and lshr, where the wider register does not show. *)
LEMMA ShiftRight ==
  ASSUME NEW ty \in Types, NEW a, NEW b, NEW m, NEW n, Stands(ty, a, m), Stands(ty, b, n),
         b < Width[ty]
  PROVE  /\ Right(ty, a * Pow2[b], printArithmeticInstruction("shl", ty, m, n))
         /\ Right(ty, Signed(ty, a) \div Pow2[b], printArithmeticInstruction("ashr", ty, m, n))
         /\ (ty \in Narrow /\ m < 0 => b = 0)
            => Right(ty, a \div Pow2[b], printArithmeticInstruction("lshr", ty, m, n))
  <1> DEFINE w == Width[ty]
             e == expanded(ty)
             P == Pow2[b]
             s == Signed(ty, a)
  <1>1. /\ w \in 1 .. N /\ w \in 0 .. N /\ e \in 1 .. N /\ e \in 0 .. N /\ w \in 0 .. e
        /\ b \in 0 .. N /\ b \in 0 .. w - 1
    BY TypeFacts, Distance, Widths
  <1>2. P \in Nat /\ P > 0 /\ Pow2[w] \in Nat /\ Pow2[e] \in Nat
    BY <1>1, Pow2Facts
  <1>3. a \in Nat /\ a < Pow2[w] /\ m \in Int /\ SameBits(m, a, w) /\ a \in Values(ty)
    BY StandsFacts DEF Stands
  <1>4. s \in Int /\ s \in SignedRange(w) /\ SameBits(s, a, w)
    BY <1>3, SignedFacts
  <1>5. /\ printArithmeticInstruction("shl", ty, m, n) = Wrap(m * P, e)
        /\ printArithmeticInstruction("lshr", ty, m, n) = Wrap(Bits(m, e) \div P, e)
        /\ printArithmeticInstruction("ashr", ty, m, n) = m \div P
    BY Distance, Emitted
  <1>6. b = 0 => P = 1
    BY Pow2Facts
  <1>7. ty = "i1" => b = 0
    BY <1>1, Widths
  <1> HIDE DEF w, e, P, s
  <1>8. Right(ty, a * P, Wrap(m * P, e))
    <2>1. SameBits(P, P, w) /\ a \in Int /\ P \in Int
      BY <1>1, <1>2, <1>3, SameBitsEq
    <2>2. SameBits(m * P, a * P, w) /\ m * P \in Int /\ a * P \in Int
      BY <1>1, <1>2, <1>3, <2>1, SameBitsOps
    <2>3. QED
      BY <2>2, WrapRight DEF w, e
  <1>9. Right(ty, s \div P, m \div P)
    <2>1. CASE ty # "i1"
      <3>1. m = s
        BY <2>1 DEF Stands, s
      <3>2. m \div P \in Int /\ m \div P >= -Pow2[w - 1] /\ m \div P < Pow2[w - 1]
        <4>1. /\ m \div P \in Int /\ m % P \in 0 .. P - 1 /\ m = (m \div P) * P + (m % P)
          BY <1>2, <1>3, Division
        <4> DEFINE q == m \div P
        <4>2. q \in Int /\ m - P < q * P /\ q * P <= m
          BY <1>2, <1>3, <4>1
        <4> HIDE DEF q
        <4>3. q >= 1 => q * P >= q
          <5>1. (P - 1) * q >= 0 \/ ~(q >= 1)
            BY <1>2, <4>2
          <5>2. QED
            BY <1>2, <4>2, <5>1
        <4>4. q <= -2 => (q + 1) * P <= q + 1
          <5>1. (P - 1) * (-1 - q) >= 0 \/ ~(q <= -2)
            BY <1>2, <4>2
          <5>2. QED
            BY <1>2, <4>2, <5>1
        <4>5. Pow2[w - 1] \in Nat /\ Pow2[w - 1] >= 1 /\ m >= -Pow2[w - 1] /\ m < Pow2[w - 1]
          BY <1>1, <1>4, <3>1, Halves DEF SignedRange
        <4>6. q < Pow2[w - 1]
          BY <1>2, <1>3, <4>2, <4>3, <4>5
        <4>7. q >= -Pow2[w - 1]
          <5>1. q <= -2 => m < (q + 1) * P /\ (q + 1) * P = q * P + P
            BY <1>2, <1>3, <4>2
          <5>2. q <= -2 => m < q + 1
            BY <1>2, <1>3, <4>2, <4>4, <5>1
          <5>3. QED
            BY <1>3, <4>2, <4>5, <5>2
        <4>8. QED
          BY <4>2, <4>6, <4>7 DEF q
      <3>3. m \div P \in SignedRange(w)
        BY <1>1, <3>2, Halves DEF SignedRange
      <3>4. SameBits(m \div P, m \div P, w)
        BY <1>1, <3>2, SameBitsEq
      <3>5. QED
        BY <3>1, <3>2, <3>3, <3>4 DEF Right, w
    <2>2. CASE ty = "i1"
      <3>1. m \div P = m /\ s \div P = s
        BY <1>3, <1>4, <1>6, <1>7, <2>2
      <3>2. SameBits(a, s, w) /\ a \in Int
        BY <1>1, <1>3, <1>4, SameBitsEq
      <3>3. SameBits(m, s, w)
        BY <1>1, <1>3, <1>4, <3>2, SameBitsEq
      <3>4. QED
        BY <1>3, <1>4, <2>2, <3>1, <3>3 DEF Right, w
    <2>3. QED
      BY <2>1, <2>2
  <1>10. ASSUME ty \in Narrow /\ m < 0 => b = 0
         PROVE  Right(ty, a \div P, Wrap(Bits(m, e) \div P, e))
    <2>1. Bits(m, e) \in Int /\ SameBits(Bits(m, e), m, e) /\ a \in Int
      BY <1>1, <1>2, <1>3, BitsFacts
    <2>2. a \div P \in Int /\ Bits(m, e) \div P \in Int
      BY <1>2, <2>1, Division
    <2>3. SameBits(Bits(m, e) \div P, a \div P, w)
      <3>1. CASE b = 0
        <4>1. Bits(m, e) \div P = Bits(m, e) /\ a \div P = a
          BY <1>6, <2>1, <3>1
        <4>2. SameBits(Bits(m, e), m, w)
          BY <1>1, <1>3, <2>1, FewerBits
        <4>3. SameBits(Bits(m, e), a, w)
          BY <1>1, <1>3, <2>1, <4>2, SameBitsEq
        <4>4. QED
          BY <4>1, <4>3
      <3>2. CASE b # 0
        <4>1. ty \in {"i32", "i64"} \/ (ty \in Narrow /\ m >= 0)
          BY <1>3, <1>7, <1>10, <3>2 DEF Types, Narrow
        <4>2. Bits(m, e) = a
          <5>1. CASE ty \in {"i32", "i64"}
            <6>1. e = w
              BY <5>1, TypeFacts DEF e, w
            <6>2. a \in 0 .. Pow2[w] - 1
              BY <1>2, <1>3
            <6>3. Bits(m, w) = Bits(a, w) /\ Bits(a, w) = a
              BY <1>1, <1>3, <2>1, <6>2, BitsSame, BitsFacts
            <6>4. QED
              BY <6>1, <6>3
          <5>2. CASE ty \in Narrow /\ m >= 0
            <6>1. m = a
              <7>1. ty # "i1"
                BY <5>2 DEF Narrow
              <7>2. m = IF a < Pow2[w - 1] THEN a ELSE a - Pow2[w]
                BY <7>1, StandsFacts DEF w
              <7>3. QED
                BY <1>2, <1>3, <5>2, <7>2
            <6>2. w < e
              BY <5>2, TypeFacts DEF w, e, Narrow
            <6>3. a \in 0 .. Pow2[e] - 1
              BY <1>1, <1>2, <1>3, <6>2, PowGrows
            <6>4. QED
              BY <1>1, <2>1, <6>1, <6>3, BitsFacts
          <5>3. QED
            BY <4>1, <5>1, <5>2
        <4>3. QED
          BY <1>1, <2>2, <4>2, SameBitsEq
      <3>3. QED
        BY <3>1, <3>2
    <2>4. QED
      BY <2>2, <2>3, WrapRight DEF w, e
  <1>11. QED
    BY <1>5, <1>8, <1>9, <1>10 DEF P, s

-----------------------------------------------------------------------------
(* Bit by bit *)

(* A bit, and what is made of two. *)
LEMMA BitFacts ==
  ASSUME NEW n \in Int, NEW i \in 0 .. N
  PROVE  Bit(n, i) \in {0, 1}
  <1>1. Pow2[i] \in Nat /\ Pow2[i] > 0
    BY Pow2Facts
  <1>2. n \div Pow2[i] \in Int
    BY <1>1, Division
  <1>3. QED
    BY <1>2 DEF Bit

(* and, or and xor of bits are bits. *)
LEMMA OfBitsFacts ==
  ASSUME NEW op \in BitwiseOps, NEW x \in {0, 1}, NEW y \in {0, 1}
  PROVE  OfBits(op, x, y) \in {0, 1}
  <1>1. CASE op = "and"
    BY <1>1 DEF OfBits
  <1>2. CASE op = "or"
    BY <1>2 DEF OfBits
  <1>3. CASE op = "xor"
    BY <1>3 DEF OfBits
  <1>4. QED
    BY <1>1, <1>2, <1>3 DEF BitwiseOps

(* Numbers with the same lowest bits, bit by bit. *)
LEMMA BitSame ==
  ASSUME NEW w \in 0 .. N, NEW i \in 0 .. w - 1, NEW a \in Int, NEW b \in Int, SameBits(a, b, w)
  PROVE  Bit(a, i) = Bit(b, i)
  <1> DEFINE P == Pow2[i]
             R == Pow2[w - i - 1]
             q == b \div P
             r == b % P
  <1>1. PICK k \in Int : a = b + k * Pow2[w]
    BY DEF SameBits
  <1>2. i \in 0 .. N /\ i + 1 \in 1 .. N /\ w - i - 1 \in 0 .. N /\ (i + 1) + (w - i - 1) = w /\ w <= N
    BY Widths
  <1>3. P \in Nat /\ P > 0 /\ R \in Nat /\ Pow2[i + 1] = 2 * P
    BY <1>2, Pow2Facts
  <1>4. Pow2[w] = (2 * P) * R
    <2>1. Pow2[(i + 1) + (w - i - 1)] = Pow2[i + 1] * Pow2[w - i - 1]
      <3>1. i + 1 \in 0 .. N /\ (i + 1) + (w - i - 1) <= N
        BY <1>2
      <3>2. QED
        BY <1>2, <3>1, PowSum, Zenon
    <2>2. QED
      BY <1>2, <1>3, <2>1
  <1>5. q \in Int /\ r \in 0 .. P - 1 /\ b = q * P + r
    BY <1>3, Division
  <1> HIDE DEF P, R, q, r
  <1>6. a = (q + (k * R) * 2) * P + r /\ q + (k * R) * 2 \in Int /\ k * R \in Int
    <2>1. k * ((2 * P) * R) = ((k * R) * 2) * P /\ k * R \in Int
      BY <1>3
    <2>2. a = q * P + r + ((k * R) * 2) * P
      BY <1>1, <1>4, <1>5, <2>1
    <2> DEFINE c == (k * R) * 2
    <2>3. c \in Int
      BY <2>1
    <2> HIDE DEF c
    <2>4. q * P + c * P = (q + c) * P
      BY <1>3, <1>5, <2>3
    <2>5. a = (q + c) * P + r
      BY <1>3, <1>5, <2>2, <2>3, <2>4 DEF c
    <2>6. QED
      BY <1>5, <2>1, <2>5 DEF c
  <1>7. a \div P = q + (k * R) * 2
    BY <1>3, <1>5, <1>6, DivisionUnique
  <1> DEFINE c == k * R
  <1>8. (q + c * 2) % 2 = q % 2
    <2> HIDE DEF c
    <2>1. c \in Int
      BY <1>6 DEF c
    <2>2. QED
      BY <1>5, <2>1
  <1>9. QED
    BY <1>7, <1>8 DEF Bit, P, q

(* What the recursion computes. *)
LEMMA LowBitsFacts ==
  ASSUME NEW op \in BitwiseOps, NEW a \in Int, NEW b \in Int, NEW w \in 0 .. N
  PROVE  LET low == LowBits(op, a, b, w)
         IN  /\ low[0] = 0
             /\ \A i \in 1 .. w : low[i] = low[i - 1] + Pow2[i - 1] * OfBits(op, Bit(a, i - 1), Bit(b, i - 1))
             /\ \A i \in 0 .. w : low[i] \in Nat /\ low[i] < Pow2[i]
  <1> DEFINE x(i) == Pow2[i - 1] * OfBits(op, Bit(a, i - 1), Bit(b, i - 1))
             step == [p \in (1 .. w) \X Nat |-> p[2] + x(p[1])]
             u == LowBits(op, a, b, w)
  <1>1. w \in Nat /\ \A i \in 1 .. w : i - 1 \in 0 .. N /\ i \in 1 .. N
    BY Widths
  <1>2. \A i \in 1 .. w : x(i) \in Nat /\ (x(i) = 0 \/ x(i) = Pow2[i - 1])
    <2> SUFFICES ASSUME NEW i \in 1 .. w PROVE x(i) \in Nat /\ (x(i) = 0 \/ x(i) = Pow2[i - 1])
      OBVIOUS
    <2>1. OfBits(op, Bit(a, i - 1), Bit(b, i - 1)) \in {0, 1} /\ Pow2[i - 1] \in Nat
      BY <1>1, BitFacts, OfBitsFacts, Pow2Facts
    <2>2. QED
      BY <2>1
  <1>3. u = CHOOSE f : f = [i \in 0 .. w |-> IF i = 0 THEN 0 ELSE f[i - 1] + x(i)]
    BY DEF LowBits
  <1> HIDE DEF x, u
  <1>4. step \in [(1 .. w) \X Nat -> Nat]
    BY <1>2
  <1>5. \A i \in 1 .. w : \A v \in Nat : step[<<i, v>>] = v + x(i)
    OBVIOUS
  <1> HIDE DEF step
  <1>6. PICK f \in [0 .. w -> Nat] : IsIteration(f, w, 0, step)
    BY <1>1, <1>4, Iteration
  <1>7. \A i \in 1 .. w : f[i] = f[i - 1] + x(i)
    <2> SUFFICES ASSUME NEW i \in 1 .. w PROVE f[i] = f[i - 1] + x(i)
      OBVIOUS
    <2>1. f[i - 1] \in Nat
      BY <1>1
    <2>2. QED
      BY <1>5, <1>6, <2>1 DEF IsIteration
  <1>8. f = [i \in 0 .. w |-> IF i = 0 THEN 0 ELSE f[i - 1] + x(i)]
    BY <1>1, <1>6, <1>7 DEF IsIteration
  <1>9. u = [i \in 0 .. w |-> IF i = 0 THEN 0 ELSE u[i - 1] + x(i)]
    BY <1>3, <1>8
  <1>10. u[0] = 0 /\ \A i \in 1 .. w : u[i] = u[i - 1] + x(i)
    BY <1>1, <1>9
  <1> DEFINE S == {i \in 0 .. w : u[i] \in Nat /\ u[i] < Pow2[i]}
  <1>11. \A i \in 0 .. w : i \in S
    <2>1. 0 \in S
      BY <1>1, <1>10, Pow2Facts, Widths
    <2>2. ASSUME NEW i \in 1 .. w, i - 1 \in S PROVE i \in S
      <3>1. u[i - 1] \in Nat /\ u[i - 1] < Pow2[i - 1] /\ u[i] = u[i - 1] + x(i)
        BY <1>10, <2>2
      <3>2. Pow2[i] = 2 * Pow2[i - 1] /\ Pow2[i - 1] \in Nat
        BY <1>1, Pow2Facts
      <3>3. x(i) \in Nat /\ x(i) <= Pow2[i - 1]
        BY <1>2, <3>2
      <3>4. QED
        BY <1>1, <3>1, <3>2, <3>3
    <2> HIDE DEF S
    <2>3. QED
      BY <1>1, <2>1, <2>2, InductUpTo
  <1>12. QED
    BY <1>10, <1>11 DEF x, u

(* The lowest bits of the result depend on the lowest bits of the operands. *)
LEMMA BitwiseSame ==
  ASSUME NEW op \in BitwiseOps, NEW w \in 0 .. N, NEW e \in w .. N,
         NEW a \in Int, NEW b \in Int, NEW c \in Int, NEW d \in Int,
         SameBits(c, a, w), SameBits(d, b, w)
  PROVE  /\ Bitwise(op, a, b, w) \in Nat /\ Bitwise(op, a, b, w) < Pow2[w]
         /\ Bitwise(op, c, d, e) \in Nat
         /\ SameBits(Bitwise(op, c, d, e), Bitwise(op, a, b, w), w)
  <1> DEFINE f == LowBits(op, a, b, w)
             g == LowBits(op, c, d, e)
             x(i) == OfBits(op, Bit(a, i - 1), Bit(b, i - 1))
             y(i) == OfBits(op, Bit(c, i - 1), Bit(d, i - 1))
  <1>1. e \in 0 .. N /\ w \in 0 .. e /\ N \in Nat /\ e \in Nat /\ w \in Nat
    BY Widths
  <1>2. /\ f[0] = 0 /\ \A i \in 1 .. w : f[i] = f[i - 1] + Pow2[i - 1] * x(i)
        /\ \A i \in 0 .. w : f[i] \in Nat /\ f[i] < Pow2[i]
    BY LowBitsFacts
  <1>3. /\ g[0] = 0 /\ \A i \in 1 .. e : g[i] = g[i - 1] + Pow2[i - 1] * y(i)
        /\ \A i \in 0 .. e : g[i] \in Nat
    BY <1>1, LowBitsFacts
  <1>4. \A i \in 1 .. w : x(i) = y(i)
    <2> SUFFICES ASSUME NEW i \in 1 .. w PROVE x(i) = y(i)
      OBVIOUS
    <2>1. i - 1 \in 0 .. w - 1
      BY <1>1
    <2>2. Bit(c, i - 1) = Bit(a, i - 1) /\ Bit(d, i - 1) = Bit(b, i - 1)
      BY <2>1, BitSame
    <2>3. QED
      BY <2>2
  <1>5. \A i \in 1 .. e : y(i) \in {0, 1} /\ Pow2[i - 1] \in Nat
    <2> SUFFICES ASSUME NEW i \in 1 .. e PROVE y(i) \in {0, 1} /\ Pow2[i - 1] \in Nat
      OBVIOUS
    <2>1. i - 1 \in 0 .. N
      BY <1>1
    <2>2. QED
      BY <2>1, BitFacts, OfBitsFacts, Pow2Facts
  <1> HIDE DEF f, g, x, y
  <1> DEFINE S == {i \in 0 .. e : IF i <= w THEN g[i] = f[i] ELSE SameBits(g[i], f[w], w)}
  <1>6. \A i \in 0 .. e : i \in S
    <2>1. 0 \in S
      BY <1>1, <1>2, <1>3
    <2>2. ASSUME NEW i \in 1 .. e, i - 1 \in S PROVE i \in S
      <3>1. g[i] = g[i - 1] + Pow2[i - 1] * y(i)
        BY <1>3
      <3>2. CASE i <= w
        <4>1. i \in 1 .. w /\ i - 1 <= w
          BY <1>1, <3>2
        <4>2. f[i] = f[i - 1] + Pow2[i - 1] * x(i) /\ x(i) = y(i) /\ g[i - 1] = f[i - 1]
          BY <1>2, <1>4, <2>2, <4>1
        <4>3. QED
          BY <3>1, <3>2, <4>2
      <3>3. CASE ~(i <= w)
        <4>1. i - 1 \in 0 .. e /\ i - 1 >= w /\ i \in 0 .. e /\ w \in 0 .. w
          BY <1>1, <3>3
        <4>2. g[i - 1] \in Int /\ f[w] \in Int
          BY <1>2, <1>3, <4>1
        <4>3. SameBits(g[i - 1], f[w], w)
          <5>1. CASE i - 1 = w
            <6>1. g[i - 1] = f[w]
              BY <2>2, <5>1
            <6>2. QED
              BY <4>2, <6>1, SameBitsEq
          <5>2. CASE i - 1 # w
            BY <1>1, <2>2, <4>1, <5>2
          <5>3. QED
            BY <5>1, <5>2
        <4>4. SameBits(Pow2[i - 1] * y(i), 0, w) /\ Pow2[i - 1] * y(i) \in Int
          <5>1. w \in 0 .. N /\ i - 1 - w \in 0 .. N /\ w + (i - 1 - w) = i - 1 /\ i - 1 <= N
            BY <1>1, <4>1
          <5>2. Pow2[w + (i - 1 - w)] = Pow2[w] * Pow2[i - 1 - w]
            <6>1. w + (i - 1 - w) <= N
              BY <5>1
            <6>2. QED
              BY <5>1, <6>1, PowSum, Zenon
          <5>3. Pow2[w] \in Nat /\ Pow2[i - 1 - w] \in Nat /\ y(i) \in Int
            <6>1. Pow2[w] \in Nat /\ Pow2[i - 1 - w] \in Nat
              BY <5>1, Pow2Facts
            <6>2. y(i) \in {0, 1}
              BY <1>5
            <6>3. QED
              BY <6>1, <6>2
          <5>4. /\ Pow2[i - 1] * y(i) = 0 + (Pow2[i - 1 - w] * y(i)) * Pow2[w]
                /\ Pow2[i - 1 - w] * y(i) \in Int /\ Pow2[i - 1] * y(i) \in Int
            BY <5>1, <5>2, <5>3
          <5>5. QED
            BY <5>4 DEF SameBits
        <4>5. SameBits(g[i - 1] + Pow2[i - 1] * y(i), f[w] + 0, w)
          <5> DEFINE z == Pow2[i - 1] * y(i)
          <5> HIDE DEF z
          <5>1. z \in Int /\ 0 \in Int /\ SameBits(z, 0, w)
            BY <4>4 DEF z
          <5>2. SameBits(g[i - 1] + z, f[w] + 0, w)
            BY <4>2, <4>3, <5>1, SameBitsOps
          <5>3. QED
            BY <5>2 DEF z
        <4>6. SameBits(g[i], f[w], w)
          BY <3>1, <4>2, <4>5
        <4>7. QED
          BY <3>3, <4>1, <4>6
      <3>4. QED
        BY <3>2, <3>3
    <2> HIDE DEF S
    <2>3. QED
      BY <1>1, <2>1, <2>2, InductUpTo
  <1>7. g[e] \in Nat /\ f[w] \in Nat /\ f[w] < Pow2[w]
    BY <1>1, <1>2, <1>3
  <1>8. SameBits(g[e], f[w], w)
    <2>1. e \in S
      BY <1>1, <1>6
    <2>2. CASE e <= w
      <3>1. g[e] = f[w]
        BY <1>1, <2>1, <2>2
      <3>2. QED
        BY <1>7, <3>1, SameBitsEq
    <2>3. CASE ~(e <= w)
      BY <2>1, <2>3
    <2>4. QED
      BY <2>2, <2>3
  <1>9. QED
    BY <1>7, <1>8 DEF Bitwise, f, g

(* and, or, xor: the bits above the type do not matter. *)
LEMMA BitwiseRight ==
  ASSUME NEW op \in BitwiseOps, NEW ty \in Types, NEW a, NEW b, NEW m, NEW n,
         Stands(ty, a, m), Stands(ty, b, n)
  PROVE  Right(ty, Bitwise(op, a, b, Width[ty]), printArithmeticInstruction(op, ty, m, n))
  <1> DEFINE w == Width[ty]
             e == expanded(ty)
  <1>1. w \in 0 .. N /\ e \in 0 .. N /\ e \in w .. N /\ w \in 0 .. e
    BY TypeFacts, Widths
  <1>2. a \in Int /\ b \in Int /\ m \in Int /\ n \in Int /\ SameBits(m, a, w) /\ SameBits(n, b, w)
    <2>1. a \in Nat /\ b \in Nat /\ m \in Int /\ n \in Int
      BY StandsFacts
    <2>2. SameBits(m, a, w) /\ SameBits(n, b, w)
      BY DEF Stands
    <2>3. QED
      BY <2>1, <2>2
  <1>3. /\ Bits(m, e) \in 0 .. Pow2[e] - 1 /\ SameBits(Bits(m, e), m, e)
        /\ Bits(n, e) \in 0 .. Pow2[e] - 1 /\ SameBits(Bits(n, e), n, e)
    BY <1>1, <1>2, BitsFacts
  <1>4. Bits(m, e) \in Int /\ Bits(n, e) \in Int
    BY <1>1, <1>3, Pow2Facts
  <1> HIDE DEF w, e
  <1>5. SameBits(Bits(m, e), m, w) /\ SameBits(Bits(n, e), n, w)
    BY <1>1, <1>2, <1>3, <1>4, FewerBits
  <1>6. SameBits(Bits(m, e), a, w) /\ SameBits(Bits(n, e), b, w)
    BY <1>1, <1>2, <1>4, <1>5, SameBitsEq
  <1>7. /\ Bitwise(op, a, b, w) \in Nat /\ Bitwise(op, Bits(m, e), Bits(n, e), e) \in Nat
        /\ SameBits(Bitwise(op, Bits(m, e), Bits(n, e), e), Bitwise(op, a, b, w), w)
    BY <1>1, <1>2, <1>4, <1>6, BitwiseSame
  <1>8. Right(ty, Bitwise(op, a, b, w), Wrap(Bitwise(op, Bits(m, e), Bits(n, e), e), e))
    BY <1>7, WrapRight DEF w, e
  <1>9. QED
    BY <1>8, Emitted DEF w, e


-----------------------------------------------------------------------------
(* What is stored, right or wrong *)

(* Numbers that wrap to the same number have the same bits. *)
LEMMA WrapOnly ==
  ASSUME NEW w \in 1 .. N, NEW a \in Int, NEW b \in Int, Wrap(a, w) = Wrap(b, w)
  PROVE  SameBits(a, b, w)
  <1>1. w \in 0 .. N /\ Wrap(a, w) \in Int /\ SameBits(Wrap(a, w), a, w) /\ SameBits(Wrap(a, w), b, w)
    BY WrapFacts
  <1>2. SameBits(a, Wrap(a, w), w)
    BY <1>1, SameBitsEq
  <1>3. QED
    BY <1>1, <1>2, SameBitsEq

(* lshr of a negative i8 or i16: the sign bits of the int are shifted in. *)
LEMMA ShiftWrong ==
  ASSUME NEW ty \in Narrow, NEW a, NEW b, NEW m, NEW n, Stands(ty, a, m), Stands(ty, b, n),
         b < Width[ty], m < 0, b > 0
  PROVE  printValueStore(ty, printArithmeticInstruction("lshr", ty, m, n)) # Repr(ty, Bits(a \div Pow2[b], Width[ty]))
  <1> DEFINE w == Width[ty]
             e == expanded(ty)
             P == Pow2[b]
             A == Pow2[w - b]
             B == Pow2[e - w]
             q == a \div P
  <1>1. ty \in Types /\ ty # "i1" /\ ty \notin {"i32", "i64"}
    BY DEF Narrow, Types
  <1>2. /\ w \in 1 .. N /\ w \in 0 .. N /\ e \in 1 .. N /\ e \in 0 .. N /\ w < e
        /\ b \in 1 .. w - 1 /\ b \in 0 .. N /\ w \in 0 .. e
    BY <1>1, TypeFacts, Distance, Widths
  <1>3. printArithmeticInstruction("lshr", ty, m, n) = Wrap(Bits(m, e) \div P, e)
    BY <1>1, Distance, Emitted
  <1>4. m \in Int /\ a \in Nat /\ a < Pow2[w] /\ m = IF a < Pow2[w - 1] THEN a ELSE a - Pow2[w]
    BY <1>1, StandsFacts
  <1>5. w - b \in 1 .. N /\ w - b \in 0 .. N /\ e - w \in 1 .. N /\ e - w \in 0 .. N
    BY <1>2, Widths
  <1>6. /\ P \in Nat /\ P = 2 * Pow2[b - 1] /\ Pow2[b - 1] \in Nat /\ Pow2[b - 1] >= 1
        /\ A \in Nat /\ A >= 1 /\ B \in Nat /\ B = 2 * Pow2[e - w - 1] /\ Pow2[e - w - 1] \in Nat
        /\ Pow2[w] \in Nat /\ Pow2[e] \in Nat
    <2>1. b \in 1 .. N
      BY <1>2
    <2>2. P \in Nat /\ P = 2 * Pow2[b - 1] /\ Pow2[b - 1] \in Nat /\ Pow2[b - 1] >= 1
      BY <2>1, Halves
    <2>3. A \in Nat /\ A >= 1
      BY <1>5, Pow2Facts
    <2>4. B \in Nat /\ B = 2 * Pow2[e - w - 1] /\ Pow2[e - w - 1] \in Nat
      BY <1>5, Halves
    <2>5. Pow2[w] \in Nat /\ Pow2[e] \in Nat
      BY <1>2, Pow2Facts
    <2>6. QED
      BY <2>2, <2>3, <2>4, <2>5
  <1>7. Pow2[w] = P * A /\ Pow2[e] = (P * A) * B
    <2>1. b + (w - b) = w /\ w + (e - w) = e /\ b + (w - b) <= N /\ w + (e - w) <= N
      BY <1>2
    <2>2. Pow2[b + (w - b)] = Pow2[b] * Pow2[w - b]
      BY <1>2, <1>5, <2>1, PowSum, Zenon
    <2>3. Pow2[w + (e - w)] = Pow2[w] * Pow2[e - w]
      BY <1>2, <1>5, <2>1, PowSum, Zenon
    <2>4. QED
      BY <2>1, <2>2, <2>3
  <1>8. a >= Pow2[w - 1] /\ m = a - Pow2[w]
    BY <1>2, <1>4, Halves
  <1>9. q \in Int /\ a % P \in 0 .. P - 1 /\ a = q * P + (a % P)
    <2>1. a \in Int /\ P > 0 /\ P \in Nat
      BY <1>4, <1>6
    <2> HIDE DEF P
    <2>2. QED
      BY <2>1, Division
  <1>10. Bits(m, e) = m + Pow2[e]
    <2>1. SameBits(m + Pow2[e], m, e) /\ m + Pow2[e] \in Int
      <3>1. m + Pow2[e] = m + 1 * Pow2[e]
        BY <1>6
      <3>2. QED
        BY <1>4, <1>6, <3>1 DEF SameBits
    <2>2. Pow2[w] <= Pow2[e]
      BY <1>2, <1>6, PowGrows
    <2>3. m + Pow2[e] \in 0 .. Pow2[e] - 1
      BY <1>4, <1>6, <1>8, <2>2
    <2>4. Bits(m + Pow2[e], e) = Bits(m, e) /\ Bits(m + Pow2[e], e) = m + Pow2[e]
      BY <1>2, <1>4, <2>1, <2>3, BitsSame, BitsFacts
    <2>5. QED
      BY <2>4
  <1> HIDE DEF w, e, P, A, B, q
  <1> DEFINE D == A * B - A
  <1>11. Bits(m, e) = (q + D) * P + (a % P) /\ D \in Int
    <2>1. (P * A) * B - P * A = D * P /\ D \in Int
      BY <1>6
    <2>2. Bits(m, e) = a + ((P * A) * B - P * A)
      <3> DEFINE X == P * A
                 Y == (P * A) * B
      <3>1. X \in Int /\ Y \in Int
        BY <1>6
      <3>2. Bits(m, e) = a - X + Y
        BY <1>7, <1>8, <1>10
      <3> HIDE DEF X, Y
      <3>3. Bits(m, e) = a + (Y - X)
        BY <1>4, <3>1, <3>2
      <3>4. QED
        BY <3>3 DEF X, Y
    <2> HIDE DEF D
    <2>3. Bits(m, e) = q * P + (a % P) + D * P
      BY <1>9, <2>1, <2>2
    <2>4. q * P + D * P = (q + D) * P
      BY <1>6, <1>9, <2>1
    <2>5. QED
      BY <1>6, <1>9, <2>1, <2>3, <2>4
  <1>12. Bits(m, e) \div P = q + D
    <2> HIDE DEF D
    <2>1. q + D \in Int /\ P > 0 /\ Bits(m, e) \in Int
      BY <1>4, <1>6, <1>9, <1>10, <1>11
    <2> DEFINE z == Bits(m, e)
               r == a % P
               s == q + D
    <2>2. s \in Int /\ z \in Int /\ r \in 0 .. P - 1 /\ z = s * P + r /\ P \in Nat /\ P > 0
      BY <1>6, <1>9, <1>11, <2>1
    <2> HIDE DEF z, r, s
    <2>3. z \div P = s
      BY <2>2, DivisionUnique
    <2>4. QED
      BY <2>3 DEF z, s
  <1>13. ~SameBits(q + D, q, w)
    <2> SUFFICES ASSUME SameBits(q + D, q, w) PROVE FALSE
      OBVIOUS
    <2>1. PICK k \in Int : q + D = q + k * Pow2[w]
      BY DEF SameBits
    <2>2. D = k * (P * A)
      <3> DEFINE X == k * (P * A)
      <3>1. X \in Int /\ q + D = q + X
        BY <1>6, <1>7, <2>1
      <3> HIDE DEF D, X
      <3>2. D = X
        BY <1>9, <1>11, <3>1
      <3>3. QED
        BY <3>2 DEF X
    <2>3. A * (B - 1) = A * (k * P)
      BY <1>6, <2>2
    <2>4. B - 1 = k * P
      <3> DEFINE u == B - 1
                 v == k * P
      <3>1. u \in Int /\ v \in Int /\ A * u = A * v
        BY <1>6, <2>3
      <3> HIDE DEF u, v
      <3>2. u = v
        BY <1>6, <3>1
      <3>3. QED
        BY <3>2 DEF u, v
    <2> DEFINE z == k * Pow2[b - 1]
    <2>5. z \in Int /\ k * P = 2 * z
      BY <1>6
    <2> HIDE DEF z
    <2>6. 2 * Pow2[e - w - 1] - 1 = 2 * z
      BY <1>6, <2>4, <2>5
    <2>7. QED
      BY <1>6, <2>5, <2>6
  <1> DEFINE y == Wrap(q + D, e)
  <1>14. Wrap(y, w) # Wrap(q, w)
    <2> HIDE DEF D
    <2>1. q + D \in Int
      BY <1>9, <1>11
    <2>2. y \in Int /\ SameBits(y, q + D, e)
      BY <1>2, <2>1, WrapFacts
    <2>3. SameBits(y, q + D, w)
      BY <1>2, <2>1, <2>2, FewerBits
    <2>4. Wrap(y, w) = Wrap(q + D, w)
      BY <1>2, <2>1, <2>2, <2>3, WrapSame
    <2>5. QED
      BY <1>2, <1>9, <1>13, <2>1, <2>4, WrapOnly
  <1>15. Wrap(Bits(q, w), w) = Wrap(q, w)
    <2>1. Bits(q, w) \in 0 .. Pow2[w] - 1 /\ SameBits(Bits(q, w), q, w)
      BY <1>2, <1>9, BitsFacts
    <2>2. Bits(q, w) \in Int
      BY <1>6, <2>1
    <2>3. QED
      BY <1>2, <1>9, <2>1, <2>2, WrapSame
  <1>16. printValueStore(ty, y) = Wrap(y, w) /\ Repr(ty, Bits(q, w)) = Wrap(Bits(q, w), w)
    BY <1>1 DEF printValueStore, Repr, Signed, w
  <1>17. QED
    BY <1>3, <1>12, <1>14, <1>15, <1>16 DEF w, q, P


(* What the recursion computes. *)
LEMMA ReversedFacts ==
  ASSUME NEW a \in Int, NEW w \in 0 .. N
  PROVE  LET rev == Reversed(a, w)
         IN  /\ rev[0] = 0
             /\ \A i \in 1 .. w : rev[i] = 2 * rev[i - 1] + Bit(a, i - 1)
             /\ \A i \in 0 .. w : rev[i] \in Nat /\ rev[i] < Pow2[i]
  <1> DEFINE x(i) == Bit(a, i - 1)
             step == [p \in (1 .. w) \X Nat |-> 2 * p[2] + x(p[1])]
             u == Reversed(a, w)
  <1>1. w \in Nat /\ \A i \in 1 .. w : i - 1 \in 0 .. N /\ i \in 1 .. N
    BY Widths
  <1>2. \A i \in 1 .. w : x(i) \in {0, 1}
    BY <1>1, BitFacts
  <1>3. u = CHOOSE f : f = [i \in 0 .. w |-> IF i = 0 THEN 0 ELSE 2 * f[i - 1] + x(i)]
    BY DEF Reversed
  <1> HIDE DEF x, u
  <1>4. step \in [(1 .. w) \X Nat -> Nat]
    BY <1>2
  <1>5. \A i \in 1 .. w : \A v \in Nat : step[<<i, v>>] = 2 * v + x(i)
    OBVIOUS
  <1> HIDE DEF step
  <1>6. PICK f \in [0 .. w -> Nat] : IsIteration(f, w, 0, step)
    BY <1>1, <1>4, Iteration
  <1>7. \A i \in 1 .. w : f[i] = 2 * f[i - 1] + x(i)
    <2> SUFFICES ASSUME NEW i \in 1 .. w PROVE f[i] = 2 * f[i - 1] + x(i)
      OBVIOUS
    <2>1. f[i - 1] \in Nat
      BY <1>1
    <2>2. QED
      BY <1>5, <1>6, <2>1 DEF IsIteration
  <1>8. f = [i \in 0 .. w |-> IF i = 0 THEN 0 ELSE 2 * f[i - 1] + x(i)]
    BY <1>1, <1>6, <1>7 DEF IsIteration
  <1>9. u = [i \in 0 .. w |-> IF i = 0 THEN 0 ELSE 2 * u[i - 1] + x(i)]
    BY <1>3, <1>8
  <1>10. u[0] = 0 /\ \A i \in 1 .. w : u[i] = 2 * u[i - 1] + x(i)
    BY <1>1, <1>9
  <1> DEFINE S == {i \in 0 .. w : u[i] \in Nat /\ u[i] < Pow2[i]}
  <1>11. \A i \in 0 .. w : i \in S
    <2>1. 0 \in S
      BY <1>1, <1>10, Pow2Facts, Widths
    <2>2. ASSUME NEW i \in 1 .. w, i - 1 \in S PROVE i \in S
      <3>1. u[i - 1] \in Nat /\ u[i - 1] < Pow2[i - 1] /\ u[i] = 2 * u[i - 1] + x(i)
        BY <1>10, <2>2
      <3>2. Pow2[i] = 2 * Pow2[i - 1] /\ Pow2[i - 1] \in Nat
        BY <1>1, Pow2Facts
      <3>3. x(i) \in {0, 1}
        BY <1>2
      <3>4. 2 * u[i - 1] + x(i) \in Nat /\ 2 * u[i - 1] + x(i) < 2 * Pow2[i - 1]
        BY <3>1, <3>2, <3>3
      <3>5. QED
        BY <1>1, <3>1, <3>2, <3>4
    <2> HIDE DEF S
    <2>3. QED
      BY <1>1, <2>1, <2>2, InductUpTo
  <1>12. QED
    BY <1>10, <1>11 DEF x, u

(* bswap is 0 for 0 only. *)
LEMMA SwappedZero ==
  ASSUME NEW ty \in Types, NEW a \in Values(ty)
  PROVE  LlvmBswap(ty, a) \in Values(ty) /\ (LlvmBswap(ty, a) = 0 <=> a = 0)
  <1> DEFINE w == Width[ty]
             u == Reversed(a, w)
  <1>1. w \in 0 .. N /\ w \in Nat /\ a \in Nat /\ a < Pow2[w] /\ a \in Int
    BY TypeFacts, SignedFacts
  <1>2. /\ u[0] = 0 /\ \A i \in 1 .. w : u[i] = 2 * u[i - 1] + Bit(a, i - 1)
        /\ \A i \in 0 .. w : u[i] \in Nat /\ u[i] < Pow2[i]
    BY <1>1, ReversedFacts
  <1>3. LlvmBswap(ty, a) = u[w]
    BY DEF LlvmBswap
  <1>4. \A i \in 1 .. w : i - 1 \in 0 .. N /\ i \in 1 .. N /\ i - 1 \in 0 .. w /\ Bit(a, i - 1) \in {0, 1}
    <2>1. \A i \in 1 .. w : i - 1 \in 0 .. N /\ i \in 1 .. N /\ i - 1 \in 0 .. w
      BY <1>1, Widths
    <2>2. QED
      BY <1>1, <2>1, BitFacts
  <1> HIDE DEF w, u
  <1> DEFINE S == {i \in 0 .. w : u[i] = 0 => SameBits(a, 0, i)}
             T == {i \in 0 .. w : a = 0 => u[i] = 0}
  <1>5. \A i \in 0 .. w : i \in S
    <2>1. 0 \in S
      <3>1. 0 \in 0 .. N /\ Pow2[0] = 1 /\ a = 0 + a * Pow2[0]
        BY <1>1, Pow2Facts, Widths
      <3>2. QED
        BY <1>1, <3>1 DEF SameBits
    <2>2. ASSUME NEW i \in 1 .. w, i - 1 \in S PROVE i \in S
      <3> SUFFICES ASSUME u[i] = 0 PROVE SameBits(a, 0, i)
        BY <1>1
      <3>1. u[i - 1] \in Nat /\ Bit(a, i - 1) \in {0, 1} /\ u[i] = 2 * u[i - 1] + Bit(a, i - 1)
        BY <1>2, <1>4
      <3>2. u[i - 1] = 0 /\ Bit(a, i - 1) = 0
        BY <3>1
      <3>3. PICK q \in Int : a = 0 + q * Pow2[i - 1]
        BY <2>2, <3>2 DEF SameBits
      <3>4. Pow2[i] = 2 * Pow2[i - 1] /\ Pow2[i - 1] \in Nat /\ Pow2[i - 1] > 0
        BY <1>4, Pow2Facts
      <3>5. a \div Pow2[i - 1] = q
        <4> DEFINE P == Pow2[i - 1]
        <4>1. a = q * P + 0 /\ 0 \in 0 .. P - 1 /\ P \in Nat /\ P > 0
          BY <1>1, <3>3, <3>4
        <4> HIDE DEF P
        <4>2. a \div P = q
          BY <1>1, <4>1, DivisionUnique
        <4>3. QED
          BY <4>2 DEF P
      <3>6. q % 2 = 0
        BY <3>2, <3>5 DEF Bit
      <3>7. q \div 2 \in Int /\ q = 2 * (q \div 2)
        BY <3>6
      <3>8. a = 0 + (q \div 2) * Pow2[i]
        BY <3>3, <3>4, <3>7
      <3>9. QED
        BY <3>7, <3>8 DEF SameBits
    <2> HIDE DEF S
    <2>3. QED
      BY <1>1, <2>1, <2>2, InductUpTo
  <1>6. \A i \in 0 .. w : i \in T
    <2>1. 0 \in T
      BY <1>1, <1>2
    <2>2. ASSUME NEW i \in 1 .. w, i - 1 \in T PROVE i \in T
      <3> SUFFICES ASSUME a = 0 PROVE u[i] = 0
        BY <1>1
      <3>1. u[i - 1] = 0 /\ u[i] = 2 * u[i - 1] + Bit(a, i - 1)
        BY <1>2, <2>2
      <3>2. Bit(a, i - 1) = 0
        <4>1. Pow2[i - 1] \in Nat /\ Pow2[i - 1] > 0
          BY <1>4, Pow2Facts
        <4>2. 0 \div Pow2[i - 1] = 0
          BY <4>1
        <4>3. QED
          BY <4>2 DEF Bit
      <3>3. QED
        BY <3>1, <3>2
    <2> HIDE DEF T
    <2>3. QED
      BY <1>1, <2>1, <2>2, InductUpTo
  <1>7. w \in 0 .. w /\ u[w] \in Nat /\ u[w] < Pow2[w] /\ Pow2[w] \in Nat
    BY <1>1, <1>2, Pow2Facts
  <1>8. u[w] = 0 => a = 0
    <2> SUFFICES ASSUME u[w] = 0 PROVE a = 0
      OBVIOUS
    <2>1. SameBits(a, 0, w)
      BY <1>5, <1>7
    <2>2. a - 0 < Pow2[w] /\ 0 - a < Pow2[w] /\ 0 \in Int
      BY <1>1, <1>7
    <2>3. QED
      BY <1>1, <2>1, <2>2, SameBitsEqual, Zenon
  <1>9. a = 0 => u[w] = 0
    BY <1>6, <1>7
  <1>10. u[w] \in Values(ty)
    BY <1>7 DEF Values, w
  <1>11. QED
    BY <1>3, <1>8, <1>9, <1>10


-----------------------------------------------------------------------------
(* Instructions *)

(* A representation stands for its value, fits, and is stored as it is. *)
LEMMA ReprFacts ==
  ASSUME NEW ty \in Types, NEW a \in Values(ty)
  PROVE  /\ Stands(ty, a, Repr(ty, a)) /\ Repr(ty, a) \in Int
         /\ Repr(ty, a) \in SignedRange(expanded(ty))
         /\ printValueStore(ty, Repr(ty, a)) = Repr(ty, a)
  <1> DEFINE w == Width[ty]
             n == Repr(ty, a)
  <1>1. w \in 1 .. N /\ w \in 0 .. N /\ a \in Nat /\ a < Pow2[w] /\ a \in Int
    BY TypeFacts, SignedFacts
  <1>2. Stands(ty, a, n)
    <2>1. CASE ty = "i1"
      <3>1. w = 1 /\ Pow2[1] = 2
        BY <2>1, Widths, Pow2Facts
      <3>2. a \in {0, 1} /\ SameBits(a, a, w)
        BY <1>1, <3>1, SameBitsEq
      <3>3. QED
        BY <1>1, <2>1, <3>2 DEF Stands, Repr
    <2>2. CASE ty # "i1"
      BY <1>1, <2>2, SignedFacts DEF Stands, Repr
    <2>3. QED
      BY <2>1, <2>2
  <1>3. n \in Int /\ n \in SignedRange(expanded(ty)) /\ (ty # "i1" => n \in SignedRange(w))
    BY <1>2, StandsFacts
  <1>4. printValueStore(ty, n) = n
    <2>1. CASE ty = "i1"
      BY <1>2, <2>1, StandsFacts DEF printValueStore, Repr
    <2>2. CASE ty # "i1"
      BY <1>1, <1>3, <2>2, WrapFacts DEF printValueStore, Signed
    <2>3. QED
      BY <2>1, <2>2
  <1>5. QED
    BY <1>2, <1>3, <1>4

(* So does a constant that the code loads. *)
LEMMA ConstantFacts ==
  ASSUME NEW ty \in Types, NEW a \in Values(ty)
  PROVE  Stands(ty, a, printConstLoad(ty, a))
  <1>1. CASE ty # "i1"
    BY <1>1, SignedFacts DEF Stands, printConstLoad
  <1>2. CASE ty = "i1"
    <2>1. Width[ty] = 1 /\ Pow2[1] = 2 /\ Pow2[0] = 1
      BY <1>2, Widths, Pow2Facts
    <2>2. Signed(ty, a) \in {-1, 0, 1}
      BY <2>1, SignedFacts
    <2>3. QED
      BY <1>2, <2>2, SignedFacts DEF Stands, printConstLoad
  <1>3. QED
    BY <1>1, <1>2

(* What is stored to a narrow type fits, whatever it is. *)
LEMMA NarrowFits ==
  ASSUME NEW ty \in Narrow, NEW n \in Int
  PROVE  /\ printValueStore(ty, n) \in Int
         /\ printValueStore(ty, n) \in SignedRange(expanded(ty))
  <1>1. ty \in Types /\ ty # "i1"
    BY DEF Narrow, Types
  <1>2. Width[ty] \in 1 .. N /\ expanded(ty) \in 1 .. N /\ Width[ty] \in 1 .. expanded(ty)
    BY <1>1, TypeFacts, Widths
  <1>3. Wrap(n, Width[ty]) \in SignedRange(Width[ty])
    BY <1>2, WrapFacts
  <1>4. QED
    BY <1>1, <1>2, <1>3, RangeGrows DEF printValueStore, Signed

(* The arithmetic instructions, all but the shift that goes wrong. *)
LEMMA BinaryRight ==
  ASSUME NEW op \in BinaryOps, NEW ty \in Types, NEW a, NEW b, NEW m, NEW n,
         Stands(ty, a, m), Stands(ty, b, n), Defined(op, ty, a, b),
         ty = "i1" => op \notin NoMethod,
         ~(op = "lshr" /\ ty \in Narrow /\ m < 0 /\ b > 0)
  PROVE  \E x : Right(ty, x, printArithmeticInstruction(op, ty, m, n)) /\ LlvmBinary(op, ty, a, b) = Bits(x, Width[ty])
  <1> DEFINE j == printArithmeticInstruction(op, ty, m, n)
             l == LlvmBinary(op, ty, a, b)
             w == Width[ty]
             s == Signed(ty, a)
             t == Signed(ty, b)
  <1>1. CASE op = "add"
    <2>1. Right(ty, a + b, j) /\ l = Bits(a + b, w)
      BY <1>1, SumRight, Meaning
    <2>2. QED
      BY <2>1
  <1>2. CASE op = "sub"
    <2>1. Right(ty, a - b, j) /\ l = Bits(a - b, w)
      BY <1>2, SumRight, Meaning
    <2>2. QED
      BY <2>1
  <1>3. CASE op = "mul"
    <2>1. Right(ty, a * b, j) /\ l = Bits(a * b, w)
      BY <1>3, SumRight, Meaning
    <2>2. QED
      BY <2>1
  <1>4. CASE op = "sdiv"
    <2>1. Right(ty, Quot(s, t), j) /\ l = Bits(Quot(s, t), w)
      BY <1>4, SignedDivisionRight, Meaning DEF Defined
    <2>2. QED
      BY <2>1
  <1>5. CASE op = "srem"
    <2>1. Right(ty, Rem(s, t), j) /\ l = Bits(Rem(s, t), w)
      BY <1>5, SignedDivisionRight, Meaning DEF Defined
    <2>2. QED
      BY <2>1
  <1>6. CASE op = "udiv"
    <2>1. Right(ty, a \div b, j) /\ l = Bits(a \div b, w)
      BY <1>6, UnsignedDivisionRight, Meaning DEF Defined, NoMethod
    <2>2. QED
      BY <2>1
  <1>7. CASE op = "urem"
    <2>1. Right(ty, a % b, j) /\ l = Bits(a % b, w)
      BY <1>7, UnsignedDivisionRight, Meaning DEF Defined, NoMethod
    <2>2. QED
      BY <2>1
  <1>8. CASE op = "smax"
    <2>1. Right(ty, IF s > t THEN a ELSE b, j) /\ l = Bits(IF s > t THEN a ELSE b, w)
      BY <1>8, MaxRight, Meaning DEF NoMethod
    <2>2. QED
      BY <2>1
  <1>9. CASE op = "shl"
    <2>1. Right(ty, a * Pow2[b], j) /\ l = Bits(a * Pow2[b], w)
      BY <1>9, ShiftRight, Meaning DEF Defined
    <2>2. QED
      BY <2>1
  <1>10. CASE op = "ashr"
    <2>1. Right(ty, s \div Pow2[b], j) /\ l = Bits(s \div Pow2[b], w)
      BY <1>10, ShiftRight, Meaning DEF Defined
    <2>2. QED
      BY <2>1
  <1>11. CASE op = "lshr"
    <2>1. b \in Nat
      BY StandsFacts
    <2>2. ty \in Narrow /\ m < 0 => b = 0
      BY <1>11, <2>1
    <2>3. Right(ty, a \div Pow2[b], j) /\ l = Bits(a \div Pow2[b], w)
      BY <1>11, <2>2, ShiftRight, Meaning DEF Defined
    <2>4. QED
      BY <2>3
  <1>12. CASE op \in BitwiseOps
    <2>1. Right(ty, Bitwise(op, a, b, w), j)
      BY <1>12, BitwiseRight
    <2>2. l = Bits(Bitwise(op, a, b, w), w)
      BY <1>12 DEF LlvmBinary, BitwiseOps
    <2>3. QED
      BY <2>1, <2>2
  <1>13. QED
    BY <1>1, <1>2, <1>3, <1>4, <1>5, <1>6, <1>7, <1>8, <1>9, <1>10, <1>11, <1>12 DEF BinaryOps

(* What they store: LLVM's value, but for that shift, and always one that fits. *)
LEMMA BinaryStored ==
  ASSUME NEW op \in BinaryOps, NEW ty \in Types, NEW a, NEW b, NEW m, NEW n,
         Stands(ty, a, m), Stands(ty, b, n), Defined(op, ty, a, b),
         ty = "i1" => op \notin NoMethod
  PROVE  LET l == LlvmBinary(op, ty, a, b)
             j == printValueStore(ty, printArithmeticInstruction(op, ty, m, n))
         IN  /\ l \in Values(ty) /\ j \in Int /\ j \in SignedRange(expanded(ty))
             /\ j = Repr(ty, l) <=> ~(op = "lshr" /\ ty \in Narrow /\ m < 0 /\ b > 0)
  <1> DEFINE wrong == op = "lshr" /\ ty \in Narrow /\ m < 0 /\ b > 0
             j == printValueStore(ty, printArithmeticInstruction(op, ty, m, n))
             l == LlvmBinary(op, ty, a, b)
  <1>1. CASE ~wrong
    <2>1. PICK x : Right(ty, x, printArithmeticInstruction(op, ty, m, n)) /\ l = Bits(x, Width[ty])
      BY <1>1, BinaryRight
    <2>2. j = Repr(ty, l) /\ l \in Values(ty)
      BY <2>1, RightStored
    <2>3. QED
      BY <1>1, <2>2, ReprFacts
  <1>2. CASE wrong
    <2>1. b < Width[ty] /\ l = Bits(a \div Pow2[b], Width[ty])
      BY <1>2, Meaning DEF Defined
    <2>2. j # Repr(ty, l)
      BY <1>2, <2>1, ShiftWrong
    <2>3. /\ Width[ty] \in 0 .. N /\ expanded(ty) \in 1 .. N /\ expanded(ty) \in 0 .. N
          /\ b \in 0 .. N /\ a \in Nat /\ m \in Int
      BY <2>1, TypeFacts, Distance, StandsFacts
    <2>4. Pow2[b] \in Nat /\ Pow2[b] > 0 /\ Pow2[expanded(ty)] \in Nat
      BY <2>3, Pow2Facts
    <2>5. a \div Pow2[b] \in Int
      <3>1. a \in Int
        BY <2>3
      <3>2. QED
        BY <2>4, <3>1, Division
    <2>6. l \in Values(ty)
      BY <2>1, <2>3, <2>5, BitsFacts DEF Values
    <2>7. printArithmeticInstruction(op, ty, m, n) = Wrap(Bits(m, expanded(ty)) \div Pow2[b], expanded(ty))
      BY <1>2, <2>1, Distance, Emitted
    <2>8. Bits(m, expanded(ty)) \in Int
      <3>1. Bits(m, expanded(ty)) \in 0 .. Pow2[expanded(ty)] - 1
        BY <2>3, BitsFacts
      <3>2. QED
        BY <2>4, <3>1
    <2>9. printArithmeticInstruction(op, ty, m, n) \in Int
      <3> DEFINE z == Bits(m, expanded(ty))
      <3> HIDE DEF z
      <3>1. z \div Pow2[b] \in Int
        BY <2>4, <2>8, Division DEF z
      <3>2. QED
        BY <2>3, <2>7, <3>1, WrapFacts DEF z
    <2>10. j \in Int /\ j \in SignedRange(expanded(ty))
      BY <1>2, <2>9, NarrowFits
    <2>11. QED
      BY <1>2, <2>2, <2>6, <2>10
  <1>3. QED
    BY <1>1, <1>2


(* Comparisons, but for the i1 ones that see a sign. *)
LEMMA CompareRight ==
  ASSUME NEW p \in Predicates, NEW ty \in Types, NEW a, NEW b, NEW m, NEW n,
         Stands(ty, a, m), Stands(ty, b, n),
         ~(ty = "i1" /\ (p \in SignedPredicates \/ -1 \in {m, n}))
  PROVE  icmp(p, m, n) = LlvmCompare(p, ty, a, b)
  <1> DEFINE w == Width[ty]
             H == Pow2[w - 1]
  <1>1. a \in Nat /\ b \in Nat /\ m \in Int /\ n \in Int
    BY StandsFacts
  <1>2. p \in SignedPredicates <=> p \notin {"eq", "ne", "ugt", "uge", "ult", "ule"}
    BY DEF Predicates, SignedPredicates
  <1>3. CASE ty = "i1"
    <2>1. m = a /\ n = b
      <3>1. a \in {0, 1} /\ b \in {0, 1} /\ (a = 0 <=> m = 0) /\ (b = 0 <=> n = 0)
        BY <1>3, StandsFacts
      <3>2. m \in {0, 1} /\ n \in {0, 1}
        BY <1>3 DEF Stands
      <3>3. QED
        BY <3>1, <3>2
    <2>2. p \notin SignedPredicates
      BY <1>3
    <2>3. QED
      BY <1>1, <2>1, <2>2 DEF icmp, LlvmCompare
  <1>4. CASE ty # "i1"
    <2>1. m = Signed(ty, a) /\ n = Signed(ty, b)
      BY <1>4 DEF Stands
    <2>2. /\ m = IF a < H THEN a ELSE a - Pow2[w]
          /\ n = IF b < H THEN b ELSE b - Pow2[w]
          /\ a < Pow2[w] /\ b < Pow2[w]
      BY <1>4, StandsFacts
    <2>3. H \in Nat /\ H >= 1 /\ Pow2[w] = 2 * H
      BY TypeFacts, Halves
    <2>4. CASE p \in SignedPredicates
      BY <1>2, <2>1, <2>4 DEF icmp, LlvmCompare
    <2>5. CASE p \notin SignedPredicates
      <3>1. LlvmCompare(p, ty, a, b) = Holds(p, a, b)
        BY <2>5 DEF LlvmCompare
      <3> HIDE DEF H, w
      <3>2. CASE p = "eq"
        BY <1>1, <2>2, <2>3, <3>1, <3>2 DEF icmp, Holds
      <3>3. CASE p = "ne"
        BY <1>1, <2>2, <2>3, <3>1, <3>3 DEF icmp, Holds
      <3>4. CASE p = "ugt"
        BY <1>1, <2>2, <2>3, <3>1, <3>4 DEF icmp, Holds
      <3>5. CASE p = "uge"
        BY <1>1, <2>2, <2>3, <3>1, <3>5 DEF icmp, Holds
      <3>6. CASE p = "ult"
        BY <1>1, <2>2, <2>3, <3>1, <3>6 DEF icmp, Holds
      <3>7. CASE p = "ule"
        BY <1>1, <2>2, <2>3, <3>1, <3>7 DEF icmp, Holds
      <3>8. QED
        BY <1>2, <2>5, <3>2, <3>3, <3>4, <3>5, <3>6, <3>7
    <2>6. QED
      BY <2>4, <2>5
  <1>5. QED
    BY <1>3, <1>4

(* A truth value is stored as it is. *)
LEMMA BoolFacts ==
  ASSUME NEW b
  PROVE  /\ Bool(b) \in Values("i1") /\ printValueStore("i1", Bool(b)) = Bool(b)
         /\ Repr("i1", Bool(b)) = Bool(b) /\ Bool(b) \in SignedRange(expanded("i1"))
         /\ Bool(b) \in Int
  <1>1. Width["i1"] = 1 /\ Pow2[1] = 2 /\ "i1" \in Types
    BY Widths, Pow2Facts DEF Types
  <1>2. Bool(b) \in {0, 1}
    BY DEF Bool
  <1>3. Bool(b) \in Values("i1")
    BY <1>1, <1>2 DEF Values
  <1>4. Repr("i1", Bool(b)) = Bool(b)
    BY DEF Repr
  <1>5. QED
    BY <1>1, <1>3, <1>4, ReprFacts

(* What a comparison stores. *)
LEMMA CompareStored ==
  ASSUME NEW p \in Predicates, NEW ty \in Types, NEW a, NEW b, NEW m, NEW n,
         Stands(ty, a, m), Stands(ty, b, n)
  PROVE  LET l == Bool(LlvmCompare(p, ty, a, b))
             j == printValueStore("i1", Bool(icmp(p, m, n)))
         IN  /\ l \in Values("i1") /\ j \in Int /\ j \in SignedRange(expanded("i1"))
             /\ ~(ty = "i1" /\ (p \in SignedPredicates \/ -1 \in {m, n})) => j = Repr("i1", l)
  <1>1. ~(ty = "i1" /\ (p \in SignedPredicates \/ -1 \in {m, n})) => icmp(p, m, n) = LlvmCompare(p, ty, a, b)
    BY CompareRight
  <1>2. QED
    BY <1>1, BoolFacts

(* What bswap stores. *)
LEMMA SwapStored ==
  ASSUME NEW ty \in Types, NEW a \in Values(ty), NEW m, ty # "i1"
  PROVE  LET l == LlvmBswap(ty, a)
             j == printValueStore(ty, printBitIntrinsic(m))
         IN  /\ l \in Values(ty) /\ j \in Int /\ j \in SignedRange(expanded(ty))
             /\ j = Repr(ty, l) <=> a = 0
  <1>1. 0 \in Values(ty)
    <2>1. Width[ty] \in 0 .. N
      BY TypeFacts
    <2>2. Pow2[Width[ty]] \in Nat /\ Pow2[Width[ty]] > 0
      BY <2>1, Pow2Facts
    <2>3. QED
      BY <2>2 DEF Values
  <1>2. Repr(ty, 0) = 0
    BY <1>1, SignedZero DEF Repr
  <1>3. printValueStore(ty, printBitIntrinsic(m)) = 0 /\ 0 \in SignedRange(expanded(ty))
    BY <1>1, <1>2, ReprFacts DEF printBitIntrinsic
  <1>4. LlvmBswap(ty, a) \in Values(ty) /\ (LlvmBswap(ty, a) = 0 <=> a = 0)
    BY SwappedZero
  <1>5. Repr(ty, LlvmBswap(ty, a)) = 0 <=> LlvmBswap(ty, a) = 0
    BY <1>4, SignedZero DEF Repr
  <1>6. QED
    BY <1>3, <1>4, <1>5


(* zext: the value is in the signed range of the wider type. *)
LEMMA ZextRight ==
  ASSUME NEW ty \in Types, NEW src \in Types, Width[src] < Width[ty], NEW a, NEW m, Stands(src, a, m)
  PROVE  Right(ty, a, printCastInstruction("zext", ty, src, m))
  <1> DEFINE v == Width[src]
             w == Width[ty]
  <1>1. v \in 0 .. N /\ w \in 0 .. N /\ w \in 1 .. N /\ w - 1 \in 0 .. N /\ v <= w - 1
    BY TypeFacts, Widths
  <1>2. a \in Nat /\ a < Pow2[v] /\ m \in Int /\ SameBits(m, a, v) /\ Pow2[v] \in Nat /\ Pow2[w - 1] \in Nat
    <2>1. Pow2[v] \in Nat /\ Pow2[w - 1] \in Nat
      BY <1>1, Pow2Facts
    <2>2. a \in Nat /\ a < Pow2[v] /\ m \in Int
      BY StandsFacts
    <2>3. QED
      BY <2>1, <2>2 DEF Stands
  <1>3. a \in Int /\ a \in 0 .. Pow2[v] - 1
    BY <1>2
  <1>4. Bits(m, v) = a
    BY <1>1, <1>2, <1>3, BitsSame, BitsFacts
  <1>5. Pow2[v] <= Pow2[w - 1]
    <2>1. v < w - 1 \/ v = w - 1
      BY <1>1
    <2>2. v < w - 1 => 2 * Pow2[v] <= Pow2[w - 1]
      BY <1>1, PowGrows
    <2>3. QED
      BY <1>2, <2>1, <2>2
  <1>6. a \in SignedRange(w) /\ SameBits(a, a, w)
    BY <1>1, <1>2, <1>3, <1>5, SameBitsEq DEF SignedRange
  <1>7. printCastInstruction("zext", ty, src, m) = a
    BY <1>4 DEF printCastInstruction, zext
  <1>8. QED
    BY <1>3, <1>6, <1>7 DEF Right

(* sext leaves an operand as it is. *)
LEMMA SextSame ==
  ASSUME NEW ty, NEW src \in Types, NEW a, NEW m, Stands(src, a, m)
  PROVE  printCastInstruction("sext", ty, src, m) = m
  <1>1. printCastInstruction("sext", ty, src, m) = narrowed(src, m)
    BY DEF printCastInstruction
  <1>2. m \in Int /\ (src # "i1" => m \in SignedRange(Width[src]))
    BY StandsFacts
  <1>3. CASE src = "i1"
    <2>1. Width["i8"] \in 1 .. N /\ Width["i8"] > 1
      BY Widths DEF Types
    <2>2. Pow2[Width["i8"] - 1] >= 2 /\ Pow2[Width["i8"] - 1] \in Nat /\ m \in {-1, 0, 1}
      BY <1>3, <2>1, Halves DEF Stands
    <2>3. m \in SignedRange(Width["i8"])
      BY <2>2 DEF SignedRange
    <2>4. QED
      BY <1>1, <1>2, <1>3, <2>1, <2>3, WrapFacts DEF narrowed
  <1>4. CASE src \in Narrow
    <2>1. src # "i1" /\ Width[src] \in 1 .. N
      BY <1>4, TypeFacts DEF Narrow
    <2>2. Wrap(m, Width[src]) = m
      BY <1>2, <2>1, WrapFacts
    <2>3. QED
      BY <1>1, <1>4, <2>2 DEF narrowed, Narrow
  <1>5. CASE src \notin {"i1", "i8", "i16"}
    BY <1>1, <1>5 DEF narrowed
  <1>6. QED
    BY <1>3, <1>4, <1>5 DEF Narrow

(* That is right for any type but i1. *)
LEMMA SextRight ==
  ASSUME NEW ty \in Types, NEW src \in Types, Width[src] < Width[ty], NEW a, NEW m, Stands(src, a, m),
         ~(src = "i1" /\ a = 1)
  PROVE  Right(ty, Signed(src, a), printCastInstruction("sext", ty, src, m))
  <1>1. Width[src] \in 1 .. Width[ty] /\ Width[ty] \in 1 .. N /\ Width[ty] \in 0 .. N
    BY TypeFacts, Widths
  <1>2. /\ a \in Values(src) /\ m \in Int /\ Signed(src, a) \in Int
        /\ Signed(src, a) \in SignedRange(Width[src])
    BY SignedFacts DEF Stands
  <1>3. m = Signed(src, a)
    <2>1. CASE src # "i1"
      BY <2>1 DEF Stands
    <2>2. CASE src = "i1"
      <3>1. a = 0
        BY <2>2, StandsFacts
      <3>2. QED
        BY <1>2, <3>1, StandsFacts, SignedZero
    <2>3. QED
      BY <2>1, <2>2
  <1>4. m \in SignedRange(Width[ty]) /\ SameBits(m, m, Width[ty])
    BY <1>1, <1>2, <1>3, RangeGrows, SameBitsEq
  <1>5. QED
    BY <1>2, <1>3, <1>4, SextSame DEF Right

(* A true i1 is -1 in any wider type, and 1 is stored. *)
LEMMA SextWrong ==
  ASSUME NEW ty \in Types, 1 < Width[ty]
  PROVE  /\ Bits(Signed("i1", 1), Width[ty]) \in Values(ty)
         /\ printValueStore(ty, 1) = 1 /\ 1 \in SignedRange(expanded(ty))
         /\ Repr(ty, Bits(Signed("i1", 1), Width[ty])) = -1
  <1> DEFINE w == Width[ty]
  <1>1. w \in 1 .. N /\ w \in 0 .. N /\ ty # "i1" /\ expanded(ty) \in 1 .. N /\ w \in 1 .. expanded(ty)
    BY TypeFacts, Widths
  <1>2. Pow2[w - 1] \in Nat /\ Pow2[w - 1] >= 2
    BY <1>1, Halves
  <1>3. 1 \in SignedRange(w) /\ -1 \in SignedRange(w) /\ -1 \in Int
    BY <1>2 DEF SignedRange
  <1>4. Signed("i1", 1) = -1
    <2>1. "i1" \in Types /\ Width["i1"] = 1 /\ Pow2[1] = 2 /\ Pow2[0] = 1
      BY Widths, Pow2Facts DEF Types
    <2>2. 1 \in Values("i1")
      BY <2>1 DEF Values
    <2>3. QED
      BY <2>1, <2>2, SignedFacts
  <1>5. /\ Bits(-1, w) \in 0 .. Pow2[w] - 1 /\ SameBits(Bits(-1, w), -1, w)
    BY <1>1, <1>3, BitsFacts
  <1>6. Bits(-1, w) \in Int
    BY <1>1, <1>5, Pow2Facts
  <1>7. Wrap(Bits(-1, w), w) = -1
    BY <1>1, <1>3, <1>5, <1>6, WrapSame, WrapFacts
  <1>8. Wrap(1, w) = 1 /\ 1 \in SignedRange(expanded(ty))
    BY <1>1, <1>3, WrapFacts, RangeGrows
  <1>9. QED
    BY <1>1, <1>4, <1>5, <1>7, <1>8 DEF Values, Repr, Signed, printValueStore

(* trunc: a long is cut to an int first, and the int to the rest. *)
LEMMA TruncRight ==
  ASSUME NEW ty \in Types, NEW src \in Types, Width[ty] < Width[src], NEW a, NEW m, Stands(src, a, m)
  PROVE  Right(ty, a, printCastInstruction("trunc", ty, src, m))
  <1> DEFINE v == Width[src]
             w == Width[ty]
             i == Width["i32"]
             b == Width["i8"]
             y == Wrap(m, i)
  <1>1. /\ v \in 0 .. N /\ w \in 0 .. N /\ w \in 1 .. N /\ i \in 0 .. N /\ i \in 1 .. N /\ w \in 0 .. v
        /\ b \in 0 .. N /\ b \in 1 .. N
    BY TypeFacts, Widths DEF Types
  <1>2. ty # "i64" /\ w \in 0 .. i
    BY <1>1, Widths DEF Types, N
  <1>3. a \in Nat /\ a \in Int /\ m \in Int /\ SameBits(m, a, v)
    BY StandsFacts DEF Stands
  <1>4. SameBits(m, a, w)
    BY <1>1, <1>3, FewerBits
  <1>5. y \in Int /\ y \in SignedRange(i) /\ SameBits(y, m, i)
    BY <1>1, <1>3, WrapFacts
  <1>6. SameBits(y, m, w)
    BY <1>1, <1>2, <1>3, <1>5, FewerBits
  <1>7. SameBits(y, a, w)
    BY <1>1, <1>3, <1>4, <1>5, <1>6, SameBitsEq
  <1>8. printCastInstruction("trunc", ty, src, m) = narrowed(ty, y)
    BY DEF printCastInstruction
  <1>9. CASE ty = "i32"
    <2>1. narrowed(ty, y) = y
      BY <1>9 DEF narrowed
    <2>2. QED
      BY <1>3, <1>5, <1>7, <1>8, <1>9, <2>1 DEF Right
  <1>10. CASE ty \in {"i1", "i8", "i16"}
    <2> DEFINE z == narrowed(ty, y)
    <2>1. PICK u \in w .. N : z = Wrap(y, u)
      <3>1. ty \in {"i1", "i8"} => z = Wrap(y, b) /\ b \in w .. N
        <4>1. ty \in {"i1", "i8"} => w = 1 \/ w = b
          BY Widths
        <4>2. QED
          BY <1>1, <4>1 DEF narrowed
      <3>2. ty = "i16" => z = Wrap(y, w) /\ w \in w .. N
        BY <1>1 DEF narrowed
      <3>3. QED
        BY <1>10, <3>1, <3>2
    <2>2. u \in 1 .. N /\ u \in 0 .. N /\ w \in 0 .. u
      BY <1>1
    <2> HIDE DEF y
    <2>3. z \in Int /\ SameBits(z, y, u)
      BY <1>5, <2>1, <2>2, WrapFacts
    <2> HIDE DEF z
    <2>4. SameBits(z, y, w)
      BY <1>5, <2>2, <2>3, FewerBits
    <2>5. SameBits(z, a, w)
      BY <1>1, <1>3, <1>5, <1>7, <2>3, <2>4, SameBitsEq
    <2>6. QED
      BY <1>3, <1>8, <1>10, <2>3, <2>5 DEF Right, y, z
  <1>11. QED
    BY <1>2, <1>9, <1>10 DEF Types

(* What a cast stores: LLVM's value, but for sext of a true i1. *)
LEMMA CastStored ==
  ASSUME NEW op \in {"sext", "zext", "trunc"}, NEW ty \in Types, NEW src \in Types,
         IF op = "trunc" THEN Width[ty] < Width[src] ELSE Width[ty] > Width[src],
         NEW a \in Values(src)
  PROVE  LET l == LlvmCast(op, ty, src, a)
             j == printValueStore(ty, printCastInstruction(op, ty, src, Repr(src, a)))
         IN  /\ l \in Values(ty) /\ j \in Int /\ j \in SignedRange(expanded(ty))
             /\ j = Repr(ty, l) <=> ~(op = "sext" /\ src = "i1" /\ a = 1)
  <1> DEFINE m == Repr(src, a)
             l == LlvmCast(op, ty, src, a)
             j == printValueStore(ty, printCastInstruction(op, ty, src, m))
             wrong == op = "sext" /\ src = "i1" /\ a = 1
  <1>1. Stands(src, a, m) /\ Width[src] \in Int /\ Width[ty] \in Int
    BY ReprFacts, TypeFacts
  <1>2. CASE ~wrong
    <2>1. PICK x : Right(ty, x, printCastInstruction(op, ty, src, m)) /\ l = Bits(x, Width[ty])
      <3>1. CASE op = "zext"
        <4>1. Right(ty, a, printCastInstruction(op, ty, src, m))
          BY <1>1, <3>1, ZextRight
        <4>2. QED
          BY <3>1, <4>1 DEF LlvmCast
      <3>2. CASE op = "trunc"
        <4>1. Right(ty, a, printCastInstruction(op, ty, src, m))
          BY <1>1, <3>2, TruncRight
        <4>2. QED
          BY <3>2, <4>1 DEF LlvmCast
      <3>3. CASE op = "sext"
        <4>1. Right(ty, Signed(src, a), printCastInstruction(op, ty, src, m))
          BY <1>1, <1>2, <3>3, SextRight
        <4>2. QED
          BY <3>3, <4>1 DEF LlvmCast
      <3>4. QED
        BY <3>1, <3>2, <3>3
    <2>2. j = Repr(ty, l) /\ l \in Values(ty)
      BY <2>1, RightStored
    <2>3. QED
      BY <1>2, <2>2, ReprFacts
  <1>3. CASE wrong
    <2>1. m = 1 /\ printCastInstruction(op, ty, src, m) = 1 /\ l = Bits(Signed("i1", 1), Width[ty])
      BY <1>1, <1>3, SextSame DEF Repr, LlvmCast
    <2>2. 1 < Width[ty]
      BY <1>3, Widths
    <2>3. QED
      BY <1>3, <2>1, <2>2, SextWrong
  <1>4. QED
    BY <1>2, <1>3


-----------------------------------------------------------------------------
(* The inductive invariant *)

(* What the variables of the JVM hold, and what they should. *)
Held == [r \in Reg |-> reg[r].jvm]
Wanted == [r \in Reg |-> Encoded(reg[r])]

(* The representations of the values of a type. *)
Reprs(ty) == {Repr(ty, a) : a \in Values(ty)}

(* The types, LLVM's values, and what each variable of the JVM may hold. *)
RegOK ==
  /\ reg \in [Reg -> [ty : Types, llvm : Nat, jvm : Int]]
  /\ \A r \in Reg : reg[r].llvm \in Values(reg[r].ty)
HeldOK == \A r \in Reg : reg[r].jvm \in Reprs(reg[r].ty)

(* The copies that are emitted for an edge, no more than there are variables, *)
(* and what the variables hold when those from the k-th on are done.          *)
Copies == UNION {[1 .. n -> [dest : Reg, src : Reg]] : n \in 0 .. 2}
Copied(h, p) == [h EXCEPT ![p.dest] = h[p.src]]
Final(h, c, k) ==
  IF k > Len(c) THEN h
  ELSE IF k = Len(c) THEN Copied(h, c[k]) ELSE Copied(Copied(h, c[k]), c[k + 1])

(* The values arrive exactly when the instruction is not known to lose them. *)
Arrived(h) == h = Wanted <=> fault = "none"

(* After position o: the copies of an edge to block b, and the jump there. *)
GotoAt(o, c, b) ==
  /\ o \in Nat /\ o + 2 * Len(c) + 1 <= Len(code)
  /\ \A j \in 1 .. Len(c) :
        /\ code[o + 2 * j - 1] = load(c[j].src)
        /\ code[o + 2 * j] = store(c[j].dest, reg[c[j].dest].ty)
        /\ reg[c[j].src].ty = reg[c[j].dest].ty
  /\ code[o + 2 * Len(c) + 1] = jump("goto", BlockLabel(b))

(* After position o: the edge that LLVM takes. *)
Edge(o) == \E c \in Copies : GotoAt(o, c, target) /\ Arrived(Final(Held, c, 1))

(* A jump to l takes that edge. *)
LabelAt(l, i) == code[i] = label(l) /\ \A k \in DOMAIN code : code[k] = label(l) => k = i
Arrives(l) ==
  \/ l = BlockLabel(target) /\ Arrived(Held)
  \/ l[1] # "block" /\ \E i \in DOMAIN code : LabelAt(l, i) /\ Edge(i)

(* Where a branch may jump to. *)
Labels == {BlockLabel(b) : b \in Block} \cup {Local("phi")}

(* The condition v, just loaded, leads to that edge. *)
Decides(v) ==
  /\ 2 \in DOMAIN code
  /\ \/ code[2] = pop /\ Edge(2)
     \/ \E l \in Labels : code[2] = jump("ifne", l) /\ IF v # 0 THEN Arrives(l) ELSE Edge(2)
     \/ /\ code[2] = jump("ifeq", Local("skip")) /\ 4 \in DOMAIN code /\ LabelAt(Local("skip"), 4)
        /\ \E l \in Labels : code[3] = jump("goto", l) /\ IF v # 0 THEN Arrives(l) ELSE Edge(4)

(* Between instructions. *)
Idle ==
  /\ code = << >> /\ ip = 1 /\ stack = << >>
  /\ \A r \in Reg : reg[r].jvm \in SignedRange(expanded(reg[r].ty))
  /\ fault = "none" => Held = Wanted
  /\ fault = "value" => Held # Wanted
  /\ block = target <=> fault # "block"

(* In a branch: before the edge, and on it. *)
Testing ==
  \/ ip = 1 /\ stack = << >> /\ \E r \in Reg : code[1] = load(r) /\ reg[r].jvm \in {0, 1} /\ Decides(reg[r].jvm)
  \/ ip = 2 /\ \E v \in {0, 1} : stack = <<v>> /\ Decides(v)
  \/ stack = << >> /\ \E l \in Labels : code[ip] = jump("goto", l) /\ Arrives(l)
  \/ stack = << >> /\ \E l \in {Local("skip"), Local("phi")} : code[ip] = label(l) /\ Edge(ip)
Copying ==
  \E o \in 0 .. Len(code) : \E c \in Copies :
    /\ GotoAt(o, c, target)
    /\ \E k \in 1 .. Len(c) :
          /\ Arrived(Final(Held, c, k))
          /\ \/ ip = o + 2 * k - 1 /\ stack = << >>
             \/ ip = o + 2 * k /\ stack = <<Held[c[k].src]>>
InBranch ==
  /\ DOMAIN code = 1 .. Len(code) /\ Len(code) \in Nat /\ ip \in DOMAIN code
  /\ HeldOK /\ fault \in {"none", "value"}
  /\ Testing \/ Copying

(* In a select: the chosen value on its way to x. *)
InSelect ==
  \E c, p, q \in Reg :
    LET want == Encoded(reg["x"])
    IN  /\ code = Select(c, p, q, reg["x"].ty) /\ ip \in 1 .. 8
        /\ Agrees("y") /\ fault = "none" /\ block = target
        /\ CASE ip = 1 -> /\ stack = << >> /\ reg[c].jvm \in {0, 1}
                          /\ reg[IF reg[c].jvm # 0 THEN p ELSE q].jvm = want
             [] ip = 2 -> \E v \in {0, 1} : stack = <<v>> /\ reg[IF v # 0 THEN p ELSE q].jvm = want
             [] ip = 3 -> stack = << >> /\ reg[p].jvm = want
             [] ip \in {5, 6} -> stack = << >> /\ reg[q].jvm = want
             [] ip \in {4, 7, 8} -> stack = <<want>>

(* In a switch: no values move. *)
InSwitch ==
  \E named \in BOOLEAN :
    /\ code = IndirectBr(target, named) /\ HeldOK /\ fault # "perhaps"
    /\ fault = "none" => Held = Wanted
    /\ fault = "value" => Held # Wanted
    /\ basicblock_map(target, named).block = target <=> fault # "block"
    /\ \/ ip = 1 /\ stack = << >>
       \/ ip = 2 /\ stack = <<basicblock_map(target, named).id>>

(* The inductive invariant. *)
IInv ==
  /\ RegOK /\ block \in Block /\ target \in Block /\ fault \in {"none", "perhaps", "value", "block"}
  /\ Idle \/ InBranch \/ InSelect \/ InSwitch


-----------------------------------------------------------------------------
(* The invariant implies the properties *)

(* The variables hold what they should exactly when each of them does. *)
LEMMA HeldAgrees == Held = Wanted <=> \A r \in Reg : Agrees(r)
  BY DEF Held, Wanted, Agrees

(* What a variable should hold is the representation of a value of its type. *)
LEMMA EncodedRepr ==
  ASSUME NEW v
  PROVE  Encoded(v) = Repr(v.ty, v.llvm)
  BY DEF Encoded, Repr

(* Between two instructions the machine is idle. *)
LEMMA OnlyIdle == IInv /\ code = << >> => Idle
  <1> SUFFICES ASSUME IInv, code = << >> PROVE Idle
    OBVIOUS
  <1>1. ~InBranch
    <2> SUFFICES ASSUME InBranch PROVE FALSE
      OBVIOUS
    <2>1. ip \in 1 .. Len(code) /\ Len(code) = 0
      BY DEF InBranch
    <2>2. QED
      BY <2>1
  <1>2. ~InSelect
    <2> SUFFICES ASSUME NEW c \in Reg, NEW p \in Reg, NEW q \in Reg, code = Select(c, p, q, reg["x"].ty)
                 PROVE  FALSE
      BY DEF InSelect
    <2>1. Len(code) = 8
      BY DEF Select
    <2>2. QED
      BY <2>1
  <1>3. ~InSwitch
    <2> SUFFICES ASSUME NEW named \in BOOLEAN, code = IndirectBr(target, named) PROVE FALSE
      BY DEF InSwitch
    <2>1. Len(code) = 2
      BY DEF IndirectBr
    <2>2. QED
      BY <2>1
  <1>4. QED
    BY <1>1, <1>2, <1>3 DEF IInv

(* Types, values, control and stack. *)
LEMMA InvariantImplies == IInv => TypeOK /\ ValuesAgree /\ ControlAgrees /\ StackEmpty
  <1> SUFFICES ASSUME IInv PROVE TypeOK /\ ValuesAgree /\ ControlAgrees /\ StackEmpty
    OBVIOUS
  <1>1. \A r \in Reg : reg[r].ty \in Types /\ reg[r].llvm \in Values(reg[r].ty) /\ reg[r].jvm \in Int
    BY DEF IInv, RegOK
  <1>2. ASSUME code = << >> PROVE \A r \in Reg : reg[r].jvm = Wrap(reg[r].jvm, expanded(reg[r].ty))
    <2>1. Idle
      BY <1>2, OnlyIdle
    <2> SUFFICES ASSUME NEW r \in Reg PROVE reg[r].jvm = Wrap(reg[r].jvm, expanded(reg[r].ty))
      OBVIOUS
    <2>2. reg[r].jvm \in SignedRange(expanded(reg[r].ty)) /\ expanded(reg[r].ty) \in 1 .. N
      BY <1>1, <2>1, TypeFacts DEF Idle
    <2>3. QED
      BY <1>1, <2>2, WrapFacts
  <1>3. ASSUME code # << >> PROVE ip \in DOMAIN code
    <2>1. CASE InBranch
      BY <2>1 DEF InBranch
    <2>2. CASE InSelect
      BY <2>2 DEF InSelect, Select
    <2>3. CASE InSwitch
      BY <2>3 DEF InSwitch, IndirectBr
    <2>4. QED
      BY <1>3, <2>1, <2>2, <2>3 DEF IInv, Idle
  <1>4. TypeOK
    BY <1>1, <1>2, <1>3 DEF TypeOK, IInv
  <1>5. ASSUME code = << >>
        PROVE  /\ fault = "none" => \A r \in Reg : Agrees(r)
               /\ fault = "value" => \E r \in Reg : ~Agrees(r)
               /\ block = target <=> fault # "block"
               /\ stack = << >>
    BY <1>5, OnlyIdle, HeldAgrees DEF Idle
  <1>6. QED
    BY <1>4, <1>5 DEF ValuesAgree, ControlAgrees, StackEmpty

(* The initial states. *)
LEMMA InitInvariant == Init => IInv
  <1> SUFFICES ASSUME Init PROVE IInv
    OBVIOUS
  <1>1. \A r \in Reg : \E ty \in Types : \E a \in Values(ty) : reg[r] = [ty |-> ty, llvm |-> a, jvm |-> Repr(ty, a)]
    BY DEF Init, ValuesOf, Repr
  <1>2. ASSUME NEW r \in Reg
        PROVE  /\ reg[r] \in [ty : Types, llvm : Nat, jvm : Int] /\ reg[r].llvm \in Values(reg[r].ty)
               /\ reg[r].jvm \in SignedRange(expanded(reg[r].ty)) /\ Agrees(r)
    <2>1. PICK ty \in Types : \E a \in Values(ty) : reg[r] = [ty |-> ty, llvm |-> a, jvm |-> Repr(ty, a)]
      BY <1>1
    <2>2. PICK a \in Values(ty) : reg[r] = [ty |-> ty, llvm |-> a, jvm |-> Repr(ty, a)]
      BY <2>1
    <2>3. a \in Nat /\ Repr(ty, a) \in Int /\ Repr(ty, a) \in SignedRange(expanded(ty))
      BY ReprFacts, SignedFacts
    <2>4. reg[r].ty = ty /\ reg[r].llvm = a /\ reg[r].jvm = Repr(ty, a)
      BY <2>2
    <2>5. reg[r] \in [ty : Types, llvm : Nat, jvm : Int]
      BY <2>2, <2>3
    <2>6. QED
      BY <2>3, <2>4, <2>5, EncodedRepr DEF Agrees
  <1>3. RegOK
    <2>1. \E f : reg = [r \in Reg |-> f[r]]
      BY DEF Init
    <2>2. QED
      BY <1>2, <2>1 DEF RegOK
  <1>4. Idle
    BY <1>2, HeldAgrees DEF Init, Idle
  <1>5. QED
    BY <1>3, <1>4 DEF Init, IInv, Block

-----------------------------------------------------------------------------
(* Instructions that are one step *)

(* What a variable holds stands for its value. *)
LEMMA RegisterStands ==
  ASSUME RegOK, NEW r \in Reg, Agrees(r)
  PROVE  /\ Stands(reg[r].ty, reg[r].llvm, reg[r].jvm)
         /\ reg[r].ty \in Types /\ reg[r].llvm \in Values(reg[r].ty)
         /\ reg[r].jvm = Repr(reg[r].ty, reg[r].llvm)
  <1>1. reg[r].ty \in Types /\ reg[r].llvm \in Values(reg[r].ty)
    BY DEF RegOK
  <1>2. reg[r].jvm = Repr(reg[r].ty, reg[r].llvm)
    BY EncodedRepr DEF Agrees
  <1>3. QED
    BY <1>1, <1>2, ReprFacts

(* Operands stand for their values, in a variable or constant. *)
LEMMA OperandStands ==
  ASSUME RegOK, \A r \in Reg : Agrees(r), NEW ty \in Types, NEW v \in Operands(ty)
  PROVE  Stands(ty, v.llvm, v.jvm)
  <1>1. CASE v \in Registers(ty)
    <2>1. PICK r \in Reg : reg[r].ty = ty /\ v = reg[r]
      BY <1>1 DEF Registers
    <2>2. QED
      BY <2>1, RegisterStands
  <1>2. CASE v \in {Constant(ty, a) : a \in Constants[ty]}
    <2>1. PICK a \in Constants[ty] : v = Constant(ty, a)
      BY <1>2
    <2>2. a \in Values(ty) /\ v.llvm = a /\ v.jvm = printConstLoad(ty, a)
      BY <2>1, OperandAssumption DEF Constant
    <2>3. QED
      BY <2>2, ConstantFacts
  <1>3. QED
    BY <1>1, <1>2 DEF Operands

(* Storing a result that fits, and is right or not as the fault says. *)
LEMMA ResultInvariant ==
  ASSUME IInv, Between, NEW ty \in Types, NEW l, NEW j, Result(ty, l, j),
         l \in Values(ty), printValueStore(ty, j) \in Int,
         printValueStore(ty, j) \in SignedRange(expanded(ty)),
         fault' \in {"none", "perhaps", "value"},
         fault' = "none" => printValueStore(ty, j) = Repr(ty, l),
         fault' = "value" => printValueStore(ty, j) # Repr(ty, l)
  PROVE  IInv'
  <1> DEFINE s == printValueStore(ty, j)
             v == [ty |-> ty, llvm |-> l, jvm |-> s]
  <1>1. Idle /\ block = target
    BY OnlyIdle DEF Between, Reg
  <1>2. reg' = [reg EXCEPT !["x"] = v] /\ code' = << >> /\ ip' = 1 /\ stack' = << >>
        /\ block' = block /\ target' = target
    BY <1>1 DEF Result, machine, Idle
  <1>3. l \in Nat
    BY SignedFacts
  <1>4. v \in [ty : Types, llvm : Nat, jvm : Int] /\ v.ty = ty /\ v.llvm = l /\ v.jvm = s
    BY <1>3
  <1> HIDE DEF v, s
  <1>5. reg'["x"] = v /\ reg'["y"] = reg["y"] /\ reg' \in [Reg -> [ty : Types, llvm : Nat, jvm : Int]]
    BY <1>2, <1>4 DEF IInv, RegOK, Reg
  <1>6. RegOK'
    BY <1>4, <1>5 DEF IInv, RegOK, Reg
  <1>7. Agrees("x")' <=> s = Repr(ty, l)
    BY <1>4, <1>5 DEF Agrees, Encoded, Repr
  <1>8. Agrees("y")'
    BY <1>5 DEF Agrees, Encoded, Between, Reg
  <1>9. (Held = Wanted)' <=> s = Repr(ty, l)
    <2>1. (Held = Wanted)' <=> \A r \in Reg : Agrees(r)'
      BY DEF Held, Wanted, Agrees
    <2>2. QED
      BY <1>7, <1>8, <2>1 DEF Reg
  <1>10. Idle'
    <2>1. \A r \in Reg : reg'[r].jvm \in SignedRange(expanded(reg'[r].ty))
      BY <1>1, <1>4, <1>5 DEF Idle, Reg, s
    <2>2. QED
      BY <1>1, <1>2, <1>9, <2>1 DEF Idle, s
  <1>11. QED
    BY <1>2, <1>6, <1>10 DEF IInv


(* Arithmetic. *)
LEMMA BinaryInvariant == IInv /\ Binary => IInv'
  <1> SUFFICES ASSUME IInv, Binary PROVE IInv'
    OBVIOUS
  <1> DEFINE step(op, ty, a, b) ==
          /\ Defined(op, ty, a.llvm, b.llvm)
          /\ ty = "i1" => op \notin NoMethod
          /\ Result(ty, LlvmBinary(op, ty, a.llvm, b.llvm), printArithmeticInstruction(op, ty, a.jvm, b.jvm))
          /\ fault' = IF op = "lshr" /\ ty \in Narrow /\ a.jvm < 0 /\ b.llvm > 0 THEN "value" ELSE "none"
  <1>0. PICK op \in BinaryOps, ty \in Types : \E a, b \in Operands(ty) : step(op, ty, a, b)
    BY DEF Binary
  <1>1. PICK a \in Operands(ty), b \in Operands(ty) : step(op, ty, a, b)
    BY <1>0
  <1>2. Between /\ RegOK /\ \A r \in Reg : Agrees(r)
    BY DEF Binary, Between, IInv
  <1>3. Stands(ty, a.llvm, a.jvm) /\ Stands(ty, b.llvm, b.jvm)
    BY <1>2, OperandStands
  <1> DEFINE l == LlvmBinary(op, ty, a.llvm, b.llvm)
             j == printArithmeticInstruction(op, ty, a.jvm, b.jvm)
             s == printValueStore(ty, j)
             wrong == op = "lshr" /\ ty \in Narrow /\ a.jvm < 0 /\ b.llvm > 0
  <1>4. /\ l \in Values(ty) /\ s \in Int /\ s \in SignedRange(expanded(ty))
        /\ s = Repr(ty, l) <=> ~wrong
    BY <1>1, <1>3, BinaryStored
  <1>5. Result(ty, l, j) /\ fault' = IF wrong THEN "value" ELSE "none"
    BY <1>1
  <1> HIDE DEF l, j, wrong
  <1>6. QED
    BY <1>2, <1>4, <1>5, ResultInvariant

(* Comparison. *)
LEMMA CompareInvariant == IInv /\ Compare => IInv'
  <1> SUFFICES ASSUME IInv, Compare PROVE IInv'
    OBVIOUS
  <1> DEFINE step(p, ty, a, b) ==
          /\ Result("i1", Bool(LlvmCompare(p, ty, a.llvm, b.llvm)), Bool(icmp(p, a.jvm, b.jvm)))
          /\ fault' = IF ty = "i1" /\ (p \in SignedPredicates \/ -1 \in {a.jvm, b.jvm})
                      THEN "perhaps" ELSE "none"
  <1>0. PICK p \in Predicates, ty \in Types : \E a, b \in Operands(ty) : step(p, ty, a, b)
    BY DEF Compare
  <1>1. PICK a \in Operands(ty), b \in Operands(ty) : step(p, ty, a, b)
    BY <1>0
  <1>2. Between /\ RegOK /\ \A r \in Reg : Agrees(r)
    BY DEF Compare, Between, IInv
  <1>3. Stands(ty, a.llvm, a.jvm) /\ Stands(ty, b.llvm, b.jvm) /\ "i1" \in Types
    BY <1>2, OperandStands DEF Types
  <1> DEFINE l == Bool(LlvmCompare(p, ty, a.llvm, b.llvm))
             j == Bool(icmp(p, a.jvm, b.jvm))
             s == printValueStore("i1", j)
             wrong == ty = "i1" /\ (p \in SignedPredicates \/ -1 \in {a.jvm, b.jvm})
  <1>4. /\ l \in Values("i1") /\ s \in Int /\ s \in SignedRange(expanded("i1"))
        /\ ~wrong => s = Repr("i1", l)
    BY <1>3, CompareStored
  <1>5. Result("i1", l, j) /\ fault' = IF wrong THEN "perhaps" ELSE "none"
    BY <1>1
  <1> HIDE DEF l, j, wrong
  <1>6. QED
    BY <1>2, <1>3, <1>4, <1>5, ResultInvariant

(* Casts. *)
LEMMA CastInvariant == IInv /\ Cast => IInv'
  <1> SUFFICES ASSUME IInv, Cast PROVE IInv'
    OBVIOUS
  <1> DEFINE v == reg["x"]
  <1>1. PICK op \in {"sext", "zext", "trunc"}, ty \in Types :
          /\ IF op = "trunc" THEN Width[ty] < Width[v.ty] ELSE Width[ty] > Width[v.ty]
          /\ Result(ty, LlvmCast(op, ty, v.ty, v.llvm), printCastInstruction(op, ty, v.ty, v.jvm))
          /\ fault' = IF op = "sext" /\ v.ty = "i1" /\ v.llvm = 1 THEN "value" ELSE "none"
    BY DEF Cast
  <1>2. Between /\ RegOK /\ Agrees("x") /\ "x" \in Reg
    BY DEF Cast, Between, IInv, Reg
  <1>3. v.ty \in Types /\ v.llvm \in Values(v.ty) /\ v.jvm = Repr(v.ty, v.llvm)
    BY <1>2, RegisterStands
  <1> DEFINE l == LlvmCast(op, ty, v.ty, v.llvm)
             j == printCastInstruction(op, ty, v.ty, v.jvm)
             s == printValueStore(ty, j)
             wrong == op = "sext" /\ v.ty = "i1" /\ v.llvm = 1
  <1> HIDE DEF v
  <1>4. /\ l \in Values(ty) /\ s \in Int /\ s \in SignedRange(expanded(ty))
        /\ s = Repr(ty, l) <=> ~wrong
    BY <1>1, <1>3, CastStored
  <1>5. Result(ty, l, j) /\ fault' = IF wrong THEN "value" ELSE "none"
    BY <1>1
  <1> HIDE DEF l, j, wrong
  <1>6. QED
    BY <1>2, <1>4, <1>5, ResultInvariant

(* bswap. *)
LEMMA BswapInvariant == IInv /\ Bswap => IInv'
  <1> SUFFICES ASSUME IInv, Bswap PROVE IInv'
    OBVIOUS
  <1> DEFINE v == reg["x"]
             l == LlvmBswap(v.ty, v.llvm)
             j == printBitIntrinsic(v.jvm)
             s == printValueStore(v.ty, j)
  <1>1. v.ty # "i1" /\ Result(v.ty, l, j) /\ fault' = IF v.llvm # 0 THEN "value" ELSE "none"
    BY DEF Bswap
  <1>2. Between /\ RegOK /\ Agrees("x") /\ "x" \in Reg
    BY DEF Bswap, Between, IInv, Reg
  <1>3. v.ty \in Types /\ v.llvm \in Values(v.ty)
    BY <1>2, RegisterStands
  <1> HIDE DEF v
  <1>4. /\ l \in Values(v.ty) /\ s \in Int /\ s \in SignedRange(expanded(v.ty))
        /\ s = Repr(v.ty, l) <=> v.llvm = 0
    BY <1>1, <1>3, SwapStored
  <1> HIDE DEF l, j
  <1>5. QED
    BY <1>1, <1>2, <1>3, <1>4, ResultInvariant


-----------------------------------------------------------------------------
(* The steps of the emitted sequences *)

(* Code, values, target and fault as they were: the edge is where it was. *)
LEMMA SameEdge ==
  ASSUME UNCHANGED <<code, reg, target, fault>>
  PROVE  /\ \A o : Edge(o)' <=> Edge(o)
         /\ \A l : Arrives(l)' <=> Arrives(l)
         /\ \A v : Decides(v)' <=> Decides(v)
         /\ \A h : Arrived(h)' <=> Arrived(h)
         /\ \A o, c, b : GotoAt(o, c, b)' <=> GotoAt(o, c, b)
         /\ Held' = Held /\ Wanted' = Wanted /\ HeldOK' = HeldOK /\ RegOK' = RegOK
  <1>1. Held' = Held /\ Wanted' = Wanted /\ HeldOK' = HeldOK /\ RegOK' = RegOK
    BY DEF Held, Wanted, HeldOK, RegOK
  <1>2. \A h : Arrived(h)' <=> Arrived(h)
    BY <1>1 DEF Arrived
  <1>3. \A o, c, b : GotoAt(o, c, b)' <=> GotoAt(o, c, b)
    BY DEF GotoAt
  <1>4. \A o : Edge(o)' <=> Edge(o)
    BY <1>1, <1>2, <1>3 DEF Edge
  <1>5. \A l : Arrives(l)' <=> Arrives(l)
    BY <1>1, <1>2, <1>4 DEF Arrives, LabelAt
  <1>6. \A v : Decides(v)' <=> Decides(v)
    BY <1>4, <1>5 DEF Decides, LabelAt
  <1>7. QED
    BY <1>1, <1>2, <1>3, <1>4, <1>5, <1>6

(* The top of a stack of one. *)
LEMMA OneOnStack ==
  ASSUME NEW v, stack = <<v>>
  PROVE  Top = v /\ Rest = << >>
  BY DEF Top, Rest

(* An edge about to be run. *)
LEMMA EdgeRuns ==
  ASSUME NEW o \in Nat, Edge(o)', (ip = o + 1 /\ stack = << >>)',
         (DOMAIN code = 1 .. Len(code) /\ Len(code) \in Nat)', HeldOK', (fault \in {"none", "value"})',
         target' \in Block
  PROVE  InBranch'
  <1>1. PICK c \in Copies : GotoAt(o, c, target)' /\ Arrived(Final(Held, c, 1))'
    BY DEF Edge
  <1>2. Len(c) \in 0 .. 2
    BY DEF Copies
  <1>3. o + 2 * Len(c) + 1 <= Len(code') /\ code'[o + 2 * Len(c) + 1] = jump("goto", BlockLabel(target'))
    BY <1>1 DEF GotoAt
  <1>4. (ip \in DOMAIN code)' /\ o \in 0 .. Len(code')
    BY <1>2, <1>3
  <1>5. CASE Len(c) = 0
    <2>1. code'[ip'] = jump("goto", BlockLabel(target'))
      BY <1>3, <1>5
    <2>2. Arrived(Held)'
      BY <1>1, <1>5 DEF Final
    <2>3. Arrives(BlockLabel(target))' /\ BlockLabel(target') \in Labels
      BY <2>2 DEF Arrives, Labels
    <2>4. Testing'
      BY <2>1, <2>3 DEF Testing
    <2>5. QED
      BY <1>4, <2>4 DEF InBranch
  <1>6. CASE Len(c) # 0
    <2>1. 1 \in 1 .. Len(c) /\ ip' = o + 2 * 1 - 1
      BY <1>2, <1>6
    <2>2. Copying'
      BY <1>1, <1>4, <2>1 DEF Copying
    <2>3. QED
      BY <1>4, <2>2 DEF InBranch
  <1>7. QED
    BY <1>5, <1>6


(* The next instruction of a sequence that is not at its end. *)
LEMMA AdvanceFacts ==
  ASSUME Advance, ip # Len(code)
  PROVE  code' = code /\ ip' = ip + 1
  BY DEF Advance

(* What an instruction is called. *)
LEMMA OpNames ==
  /\ \A r : load(r).op = "load"
  /\ \A r, ty : store(r, ty).op = "store"
  /\ \A n : push(n).op = "push"
  /\ \A op, l : jump(op, l).op = op
  /\ \A l : label(l).op = "label"
  /\ \A table : lookupswitch(table).op = "lookupswitch"
  /\ pop.op = "pop"
  BY DEF load, store, push, jump, label, lookupswitch, pop

(* At the k-th copy of an edge, before its load or its store. *)
AtCopy(o, c, k) ==
  /\ GotoAt(o, c, target) /\ Arrived(Final(Held, c, k))
  /\ \/ ip = o + 2 * k - 1 /\ stack = << >> /\ code[ip] = load(c[k].src)
     \/ ip = o + 2 * k /\ stack = <<Held[c[k].src]>> /\ code[ip] = store(c[k].dest, reg[c[k].dest].ty)

(* Which instruction is next in a branch. *)
LEMMA BranchOps ==
  ASSUME InBranch
  PROVE  /\ ip \in 1 .. Len(code) /\ DOMAIN code = 1 .. Len(code) /\ Len(code) \in Nat
         /\ \/ /\ ip = 1 /\ stack = << >>
               /\ \E r \in Reg : code[ip] = load(r) /\ reg[r].jvm \in {0, 1} /\ Decides(reg[r].jvm)
            \/ ip = 2 /\ \E v \in {0, 1} : stack = <<v>> /\ Decides(v)
            \/ stack = << >> /\ \E l \in Labels : code[ip] = jump("goto", l) /\ Arrives(l)
            \/ stack = << >> /\ \E l \in {Local("skip"), Local("phi")} : code[ip] = label(l) /\ Edge(ip)
            \/ \E o \in 0 .. Len(code) : \E c \in Copies : \E k \in 1 .. Len(c) : AtCopy(o, c, k)
  <1>1. ip \in 1 .. Len(code) /\ DOMAIN code = 1 .. Len(code) /\ Len(code) \in Nat
    BY DEF InBranch
  <1>2. CASE Testing
    BY <1>1, <1>2 DEF Testing
  <1>3. CASE Copying
    <2>1. PICK o \in 0 .. Len(code), c \in Copies :
            /\ GotoAt(o, c, target)
            /\ \E k \in 1 .. Len(c) :
                  /\ Arrived(Final(Held, c, k))
                  /\ \/ ip = o + 2 * k - 1 /\ stack = << >>
                     \/ ip = o + 2 * k /\ stack = <<Held[c[k].src]>>
      BY <1>3 DEF Copying
    <2>2. \A k \in 1 .. Len(c) :
            code[o + 2 * k - 1] = load(c[k].src) /\ code[o + 2 * k] = store(c[k].dest, reg[c[k].dest].ty)
      BY <2>1 DEF GotoAt
    <2>3. QED
      BY <1>1, <2>1, <2>2 DEF AtCopy
  <1>4. QED
    BY <1>2, <1>3 DEF InBranch

(* The instruction after a decision. *)
LEMMA DecidesOps ==
  ASSUME NEW v, Decides(v)
  PROVE  code[2].op \in {"pop", "ifne", "ifeq"} /\ 2 \in DOMAIN code
  BY DEF Decides, pop, jump

(* Pushing in a branch. *)
LEMMA PushBranch ==
  ASSUME IInv, InBranch, Push
  PROVE  IInv'
  <1>1. UNCHANGED <<reg, block, target, fault>> /\ Advance /\ code # << >>
    BY DEF Push, At
  <1>2. \/ code[ip].op = "load" /\ stack' = Append(stack, reg[code[ip].reg].jvm)
        \/ code[ip].op = "push"
    BY DEF Push, At
  <1>3. ip \in 1 .. Len(code) /\ DOMAIN code = 1 .. Len(code) /\ Len(code) \in Nat
    BY BranchOps
  <1>4. CASE /\ ip = 1 /\ stack = << >>
             /\ \E r \in Reg : code[ip] = load(r) /\ reg[r].jvm \in {0, 1} /\ Decides(reg[r].jvm)
    <2>1. PICK r \in Reg : code[ip] = load(r) /\ reg[r].jvm \in {0, 1} /\ Decides(reg[r].jvm)
      BY <1>4
    <2>2. 2 \in 1 .. Len(code)
      BY <1>3, <2>1, DecidesOps
    <2>3. code' = code /\ ip' = 2
      BY <1>1, <1>3, <1>4, <2>2, AdvanceFacts
    <2>4. stack' = <<reg[r].jvm>>
      BY <1>2, <1>4, <2>1 DEF load
    <2>5. Decides(reg[r].jvm)' /\ HeldOK' /\ RegOK'
      <3>1. UNCHANGED <<code, reg, target, fault>>
        BY <1>1, <2>3
      <3>2. \A v : Decides(v)' <=> Decides(v)
        BY <3>1, SameEdge
      <3>3. HeldOK' /\ RegOK'
        BY <3>1, SameEdge DEF IInv, InBranch
      <3>4. QED
        BY <1>1, <2>1, <3>2, <3>3
    <2>6. Testing'
      BY <1>1, <2>1, <2>3, <2>4, <2>5 DEF Testing
    <2>7. InBranch'
      BY <1>1, <2>2, <2>3, <2>5, <2>6 DEF InBranch
    <2>8. QED
      BY <1>1, <2>5, <2>7 DEF IInv
  <1>5. CASE ip = 2 /\ \E v \in {0, 1} : stack = <<v>> /\ Decides(v)
    BY <1>2, <1>5, DecidesOps
  <1>6. CASE \E l \in Labels : code[ip] = jump("goto", l)
    BY <1>2, <1>6 DEF jump
  <1>7. CASE \E l \in {Local("skip"), Local("phi")} : code[ip] = label(l)
    BY <1>2, <1>7 DEF label
  <1>8. CASE \E o \in 0 .. Len(code) : \E c \in Copies : \E k \in 1 .. Len(c) : AtCopy(o, c, k)
    <2>1. PICK o \in 0 .. Len(code), c \in Copies : \E k \in 1 .. Len(c) : AtCopy(o, c, k)
      BY <1>8
    <2>2. PICK k \in 1 .. Len(c) : AtCopy(o, c, k)
      BY <2>1
    <2>3. ip = o + 2 * k - 1 /\ stack = << >> /\ code[ip] = load(c[k].src)
      BY <1>2, <2>2 DEF AtCopy, store
    <2>4. Len(c) \in 0 .. 2 /\ c[k].src \in Reg
      BY DEF Copies
    <2>5. o + 2 * Len(c) + 1 <= Len(code)
      BY <2>2 DEF AtCopy, GotoAt
    <2>6. code' = code /\ ip' = o + 2 * k /\ ip' \in 1 .. Len(code)
      BY <1>1, <1>3, <2>3, <2>4, <2>5, AdvanceFacts
    <2>7. stack' = <<Held[c[k].src]>>
      BY <1>2, <2>3, <2>4 DEF load, Held
    <2>8. UNCHANGED <<code, reg, target, fault>>
      BY <1>1, <2>6
    <2>9. Held' = Held /\ HeldOK' /\ RegOK'
      BY <2>8, SameEdge DEF IInv, InBranch
    <2>10. GotoAt(o, c, target)' /\ Arrived(Final(Held, c, k))'
      <3>1. Final(Held, c, k)' = Final(Held, c, k)
        BY <2>9 DEF Final, Copied
      <3>3. GotoAt(o, c, target)'
        BY <2>2, <2>8 DEF AtCopy, GotoAt
      <3>4. Arrived(Final(Held, c, k))'
        BY <2>2, <2>8, <2>9, <3>1 DEF AtCopy, Arrived, Wanted
      <3>5. QED
        BY <3>3, <3>4
    <2>11. Copying'
      BY <2>6, <2>7, <2>9, <2>10 DEF Copying
    <2>12. InBranch'
      BY <1>1, <1>3, <2>6, <2>9, <2>11 DEF InBranch
    <2>13. QED
      BY <1>1, <2>9, <2>12 DEF IInv
  <1>9. QED
    BY <1>4, <1>5, <1>6, <1>7, <1>8, BranchOps


(* A representation is stored as it is. *)
LEMMA ReprsStored ==
  ASSUME NEW ty \in Types, NEW n \in Reprs(ty)
  PROVE  printValueStore(ty, n) = n /\ n \in Int /\ n \in SignedRange(expanded(ty))
  <1>1. PICK a \in Values(ty) : n = Repr(ty, a)
    BY DEF Reprs
  <1>2. QED
    BY <1>1, ReprFacts

(* The copies left after the k-th. *)
LEMMA FinalStep ==
  ASSUME NEW h, NEW c \in Copies, NEW k \in 1 .. Len(c)
  PROVE  Final(Copied(h, c[k]), c, k + 1) = Final(h, c, k)
  <1>1. Len(c) \in 0 .. 2
    BY DEF Copies
  <1>2. CASE k = Len(c)
    BY <1>1, <1>2 DEF Final
  <1>3. CASE k # Len(c)
    <2> DEFINE n == Len(c)
    <2>1. n \in 0 .. 2 /\ k \in 1 .. n /\ k # n
      BY <1>1, <1>3
    <2> HIDE DEF n
    <2>2. k = 1 /\ n = 2
      BY <2>1
    <2>3. QED
      BY <2>2 DEF Final, n
  <1>4. QED
    BY <1>2, <1>3

(* Storing in a branch: the k-th copy is done. *)
LEMMA StoreBranch ==
  ASSUME IInv, InBranch, Store
  PROVE  IInv'
  <1>1. /\ UNCHANGED <<block, target, fault>> /\ Advance /\ code # << >> /\ code[ip].op = "store"
        /\ reg' = [reg EXCEPT ![code[ip].reg].jvm = printValueStore(code[ip].ty, Top)] /\ stack' = Rest
    BY DEF Store, At
  <1>2. ip \in 1 .. Len(code) /\ DOMAIN code = 1 .. Len(code) /\ Len(code) \in Nat
    BY BranchOps
  <1>0. code[ip].op = "store"
    BY <1>1
  <1>3. ~ \E r \in Reg : code[ip] = load(r)
    BY <1>0, OpNames
  <1>4. ~(ip = 2 /\ \E v \in {0, 1} : stack = <<v>> /\ Decides(v))
    BY <1>0, DecidesOps
  <1>5. ~ \E l \in Labels : code[ip] = jump("goto", l)
    BY <1>0, OpNames
  <1>6. ~ \E l \in {Local("skip"), Local("phi")} : code[ip] = label(l)
    BY <1>0, OpNames
  <1>7. PICK o \in 0 .. Len(code), c \in Copies : \E k \in 1 .. Len(c) : AtCopy(o, c, k)
    BY <1>3, <1>4, <1>5, <1>6, BranchOps
  <1>8. PICK k \in 1 .. Len(c) : AtCopy(o, c, k)
    BY <1>7
  <1> DEFINE d == c[k].dest
             s == c[k].src
  <1>9. ip = o + 2 * k /\ stack = <<Held[s]>> /\ code[ip] = store(d, reg[d].ty)
    BY <1>1, <1>8 DEF AtCopy, load
  <1>10. d \in Reg /\ s \in Reg /\ Len(c) \in 0 .. 2
    BY DEF Copies
  <1>11. o + 2 * Len(c) + 1 <= Len(code) /\ reg[s].ty = reg[d].ty /\ GotoAt(o, c, target)
    BY <1>8 DEF AtCopy, GotoAt
  <1>12. code' = code /\ ip' = o + 2 * k + 1 /\ ip' \in 1 .. Len(code)
    BY <1>1, <1>2, <1>9, <1>10, <1>11, AdvanceFacts
  <1>13. Top = Held[s] /\ Rest = << >>
    BY <1>9, OneOnStack
  <1>14. RegOK /\ HeldOK
    BY DEF IInv, InBranch
  <1>15. reg[s].jvm \in Reprs(reg[d].ty) /\ reg[d].ty \in Types /\ Held[s] = reg[s].jvm
    BY <1>10, <1>11, <1>14 DEF HeldOK, RegOK, Held
  <1>16. reg' = [reg EXCEPT ![d].jvm = reg[s].jvm] /\ reg[s].jvm \in Int
    <2>1. printValueStore(reg[d].ty, reg[s].jvm) = reg[s].jvm /\ reg[s].jvm \in Int
      BY <1>15, ReprsStored
    <2>2. code[ip].reg = d /\ code[ip].ty = reg[d].ty
      BY <1>9 DEF store
    <2>3. reg' = [reg EXCEPT ![d].jvm = printValueStore(reg[d].ty, reg[s].jvm)]
      BY <1>1, <1>13, <1>15, <2>2
    <2>4. QED
      BY <2>1, <2>3
  <1> HIDE DEF d, s
  <1>17. /\ \A r \in Reg : /\ reg'[r].ty = reg[r].ty /\ reg'[r].llvm = reg[r].llvm
                           /\ reg'[r].jvm = IF r = d THEN reg[s].jvm ELSE reg[r].jvm
         /\ reg' \in [Reg -> [ty : Types, llvm : Nat, jvm : Int]]
    BY <1>10, <1>14, <1>16 DEF RegOK
  <1>18. RegOK' /\ HeldOK'
    BY <1>14, <1>15, <1>17 DEF RegOK, HeldOK
  <1>19. Wanted' = Wanted
    BY <1>17 DEF Wanted, Encoded
  <1>20. Held' = Copied(Held, c[k])
    BY <1>10, <1>17 DEF Held, Copied, d, s
  <1>21. Arrived(Final(Held, c, k + 1))'
    <2>1. Final(Held, c, k + 1)' = Final(Held, c, k)
      <3>1. Final(Held', c, k + 1) = Final(Held, c, k)
        BY <1>20, FinalStep
      <3>2. QED
        BY <3>1 DEF Final, Copied
    <2>2. QED
      BY <1>1, <1>8, <1>19, <2>1 DEF AtCopy, Arrived
  <1>22. GotoAt(o, c, target)'
    <2>1. \A j \in 1 .. Len(c) : c[j].dest \in Reg /\ c[j].src \in Reg
      BY DEF Copies
    <2>2. target' = target /\ code' = code
      BY <1>1, <1>12
    <2>3. \A j \in 1 .. Len(c) : reg'[c[j].dest].ty = reg[c[j].dest].ty /\ reg'[c[j].src].ty = reg[c[j].src].ty
      BY <1>17, <2>1
    <2>4. QED
      BY <1>11, <2>2, <2>3 DEF GotoAt
  <1>23. InBranch'
    <2>1. CASE k = Len(c)
      <3>1. code'[ip'] = jump("goto", BlockLabel(target'))
        BY <1>12, <1>22, <2>1 DEF GotoAt
      <3>2. Arrived(Held)'
        BY <1>10, <1>21, <2>1 DEF Final
      <3>3. Arrives(BlockLabel(target))' /\ BlockLabel(target') \in Labels
        BY <1>1, <3>2 DEF Arrives, Labels, IInv
      <3>4. Testing'
        BY <1>1, <1>13, <3>1, <3>3 DEF Testing
      <3>5. QED
        BY <1>1, <1>2, <1>12, <1>18, <3>4 DEF InBranch
    <2>2. CASE k # Len(c)
      <3>1. k + 1 \in 1 .. Len(c) /\ ip' = o + 2 * (k + 1) - 1 /\ o \in 0 .. Len(code')
        BY <1>10, <1>12, <2>2
      <3>2. Copying'
        BY <1>1, <1>13, <1>21, <1>22, <3>1 DEF Copying
      <3>3. QED
        BY <1>1, <1>2, <1>12, <1>18, <3>2 DEF InBranch
    <2>3. QED
      BY <2>1, <2>2
  <1>24. QED
    BY <1>1, <1>18, <1>23 DEF IInv


(* Where a branch is, from its next instruction. *)
LEMMA BranchAt ==
  ASSUME InBranch
  PROVE  /\ code[ip].op \in {"pop", "ifne", "ifeq"} => ip = 2 /\ \E v \in {0, 1} : stack = <<v>> /\ Decides(v)
         /\ code[ip].op = "goto" => stack = << >> /\ \E l \in Labels : code[ip] = jump("goto", l) /\ Arrives(l)
         /\ code[ip].op = "label" => stack = << >> /\ Edge(ip)
         /\ code[ip].op # "lookupswitch"
  <1>1. CASE \E r \in Reg : code[ip] = load(r)
    <2>1. code[ip].op = "load"
      BY <1>1, OpNames
    <2>2. QED
      BY <2>1
  <1>2. CASE ip = 2 /\ \E v \in {0, 1} : stack = <<v>> /\ Decides(v)
    <2>1. code[ip].op \in {"pop", "ifne", "ifeq"}
      BY <1>2, DecidesOps
    <2>2. QED
      BY <1>2, <2>1
  <1>3. CASE stack = << >> /\ \E l \in Labels : code[ip] = jump("goto", l) /\ Arrives(l)
    <2>1. code[ip].op = "goto"
      BY <1>3, OpNames
    <2>2. QED
      BY <1>3, <2>1
  <1>4. CASE stack = << >> /\ \E l \in {Local("skip"), Local("phi")} : code[ip] = label(l) /\ Edge(ip)
    <2>1. code[ip].op = "label"
      BY <1>4, OpNames
    <2>2. QED
      BY <1>4, <2>1
  <1>5. CASE \E o \in 0 .. Len(code) : \E c \in Copies : \E k \in 1 .. Len(c) : AtCopy(o, c, k)
    <2>1. code[ip].op \in {"load", "store"}
      BY <1>5, OpNames DEF AtCopy
    <2>2. QED
      BY <2>1
  <1>6. QED
    BY <1>1, <1>2, <1>3, <1>4, <1>5, BranchOps

(* An edge reached by the next instruction, or through a label. *)
LEMMA EdgeNext ==
  ASSUME IInv, InBranch, UNCHANGED <<reg, block, target, fault>>, code' = code, stack' = << >>,
         NEW o \in 1 .. Len(code), Edge(o), ip' = o + 1
  PROVE  IInv'
  <1>1. UNCHANGED <<code, reg, target, fault>>
    OBVIOUS
  <1>2. Edge(o)' /\ RegOK' /\ HeldOK'
    <2>1. \A u : Edge(u)' <=> Edge(u)
      BY <1>1, SameEdge
    <2>2. HeldOK' = HeldOK /\ RegOK' = RegOK
      BY <1>1, SameEdge
    <2>3. QED
      BY <2>1, <2>2 DEF IInv, InBranch
  <1>3. /\ (DOMAIN code = 1 .. Len(code) /\ Len(code) \in Nat)' /\ (fault \in {"none", "value"})'
        /\ target' \in Block
    BY <1>1 DEF InBranch, IInv
  <1>4. o \in Nat
    BY DEF InBranch
  <1>5. InBranch'
    BY <1>2, <1>3, <1>4, EdgeRuns
  <1>6. QED
    BY <1>2, <1>5 DEF IInv

(* A jump to where LLVM's edge is. *)
LEMMA JumpArrives ==
  ASSUME IInv, InBranch, UNCHANGED <<reg, target, fault>>, stack' = << >>,
         NEW l \in Labels, Arrives(l), JumpTo(l)
  PROVE  IInv'
  <1>1. CASE l = BlockLabel(target) /\ Arrived(Held)
    <2>1. block' = target /\ code' = << >> /\ ip' = 1
      BY <1>1 DEF JumpTo, BlockLabel
    <2>2. RegOK /\ HeldOK /\ fault \in {"none", "value"} /\ target \in Block
      BY DEF IInv, InBranch
    <2>3. RegOK'
      BY <2>2 DEF RegOK
    <2>4. Held' = Held /\ Wanted' = Wanted
      BY DEF Held, Wanted
    <2>5. \A r \in Reg : reg'[r].jvm \in SignedRange(expanded(reg'[r].ty))
      BY <2>2, ReprsStored DEF RegOK, HeldOK
    <2>6. (Held = Wanted)' <=> fault' = "none"
      BY <1>1, <2>4 DEF Arrived
    <2>7. Idle'
      BY <2>1, <2>2, <2>5, <2>6 DEF Idle
    <2>8. QED
      BY <2>1, <2>2, <2>3, <2>7 DEF IInv
  <1>2. CASE l[1] # "block" /\ \E i \in DOMAIN code : LabelAt(l, i) /\ Edge(i)
    <2>1. PICK i \in DOMAIN code : LabelAt(l, i) /\ Edge(i)
      BY <1>2
    <2>2. l = Local("phi")
      BY <1>2 DEF Labels, BlockLabel, Local
    <2>3. /\ ip' = (CHOOSE k \in DOMAIN code : code[k] = label(l)) /\ block' = block /\ code' = code
      BY <1>2 DEF JumpTo
    <2>4. ip' = i
      BY <2>1, <2>3 DEF LabelAt
    <2>5. UNCHANGED <<code, reg, target, fault>>
      BY <2>3
    <2>6. Edge(i)' /\ RegOK' /\ HeldOK'
      <3>1. \A u : Edge(u)' <=> Edge(u)
        BY <2>5, SameEdge
      <3>2. HeldOK' = HeldOK /\ RegOK' = RegOK
        BY <2>5, SameEdge
      <3>3. QED
        BY <2>1, <3>1, <3>2 DEF IInv, InBranch
    <2>7. code'[ip'] = label(Local("phi"))
      BY <2>1, <2>2, <2>3, <2>4 DEF LabelAt
    <2>8. Edge(ip)'
      BY <2>4, <2>6 DEF Edge
    <2>9. Testing'
      BY <2>7, <2>8 DEF Testing
    <2>10. InBranch'
      BY <2>3, <2>4, <2>6, <2>9 DEF InBranch
    <2>11. QED
      BY <2>3, <2>6, <2>10 DEF IInv
  <1>3. QED
    BY <1>1, <1>2 DEF Arrives


(* The instructions of a select. *)
LEMMA SelectOps ==
  ASSUME InSelect
  PROVE  code[ip].op \in {"load", "store", "ifeq", "goto", "label"} /\ code # << >>
  <1>1. PICK c \in Reg, p \in Reg, q \in Reg : code = Select(c, p, q, reg["x"].ty) /\ ip \in 1 .. 8
    BY DEF InSelect
  <1>2. /\ code[1] = load(c) /\ code[2] = jump("ifeq", Local("a")) /\ code[3] = load(p)
        /\ code[4] = jump("goto", Local("b")) /\ code[5] = label(Local("a")) /\ code[6] = load(q)
        /\ code[7] = label(Local("b")) /\ code[8] = store("x", reg["x"].ty) /\ Len(code) = 8
    BY <1>1 DEF Select
  <1>3. \A i \in 1 .. 8 : code[i].op \in {"load", "store", "ifeq", "goto", "label"}
    BY <1>2, OpNames
  <1>4. QED
    BY <1>1, <1>2, <1>3

(* The instructions of a switch. *)
LEMMA SwitchOps ==
  ASSUME InSwitch
  PROVE  /\ ip \in {1, 2} /\ Len(code) = 2 /\ code # << >>
         /\ code[ip].op = IF ip = 1 THEN "push" ELSE "lookupswitch"
  <1>1. PICK named \in BOOLEAN : code = IndirectBr(target, named) /\ ip \in {1, 2}
    BY DEF InSwitch
  <1>2. Len(code) = 2 /\ code[1].op = "push" /\ code[2].op = "lookupswitch"
    BY <1>1 DEF IndirectBr, push, lookupswitch
  <1>3. QED
    BY <1>1, <1>2


(* There is code after an edge's start. *)
LEMMA EdgeInside ==
  ASSUME NEW o, Edge(o), Len(code) \in Nat
  PROVE  o \in Nat /\ o + 1 <= Len(code)
  <1>1. PICK c \in Copies : o \in Nat /\ o + 2 * Len(c) + 1 <= Len(code)
    BY DEF Edge, GotoAt
  <1>2. Len(c) \in 0 .. 2
    BY DEF Copies
  <1>3. QED
    BY <1>1, <1>2

(* Popping the condition of a branch to one block. *)
LEMMA PopInvariant == IInv /\ Pop => IInv'
  <1> SUFFICES ASSUME IInv, Pop PROVE IInv'
    OBVIOUS
  <1>1. UNCHANGED <<reg, block, target, fault>> /\ Advance /\ code # << >> /\ stack' = Rest
    BY DEF Pop, At
  <1>2. code[ip].op = "pop"
    BY DEF Pop, At
  <1>3. CASE InBranch
    <2>1. ip = 2 /\ \E v \in {0, 1} : stack = <<v>> /\ Decides(v)
      BY <1>2, <1>3, BranchAt
    <2>2. PICK v \in {0, 1} : stack = <<v>> /\ Decides(v)
      BY <2>1
    <2>3. Edge(2)
      <3>1. code[2].op = "pop"
        BY <1>2, <2>1
      <3>2. \A l : code[2] # jump("ifne", l) /\ code[2] # jump("ifeq", l)
        BY <3>1, OpNames
      <3>3. QED
        BY <2>2, <3>2 DEF Decides
    <2>4. Len(code) \in Nat /\ 2 \in 1 .. Len(code) /\ 3 <= Len(code)
      BY <1>3, <2>1, <2>3, EdgeInside, BranchOps
    <2>5. code' = code /\ ip' = 2 + 1
      <3>1. ip # Len(code) /\ Advance
        BY <1>1, <2>1, <2>4
      <3>2. code' = code /\ ip' = ip + 1
        BY <3>1, AdvanceFacts
      <3>3. QED
        BY <2>1, <3>2
    <2>6. stack' = << >>
      BY <1>1, <2>2, OneOnStack
    <2>7. QED
      BY <1>1, <1>3, <2>3, <2>4, <2>5, <2>6, EdgeNext
  <1>4. CASE InSelect
    BY <1>2, <1>4, SelectOps
  <1>5. CASE InSwitch
    BY <1>2, <1>5, SwitchOps
  <1>6. QED
    BY <1>1, <1>3, <1>4, <1>5 DEF IInv, Idle

(* Testing the condition of a branch. *)
LEMMA IfBranch ==
  ASSUME IInv, InBranch, If
  PROVE  IInv'
  <1>1. UNCHANGED <<reg, target, fault>> /\ stack' = Rest
    BY DEF If
  <1>2. code[ip].op \in {"ifne", "ifeq"}
    BY DEF If, At
  <1>3. IF (Top # 0) = (code[ip].op = "ifne") THEN JumpTo(code[ip].to) ELSE Advance /\ UNCHANGED block
    BY DEF If
  <1>4. ip = 2 /\ \E v \in {0, 1} : stack = <<v>> /\ Decides(v)
    BY <1>2, BranchAt
  <1>5. PICK v \in {0, 1} : stack = <<v>> /\ Decides(v)
    BY <1>4
  <1>6. Top = v /\ stack' = << >>
    BY <1>1, <1>5, OneOnStack
  <1>7. Len(code) \in Nat /\ DOMAIN code = 1 .. Len(code) /\ 2 \in 1 .. Len(code)
    BY <1>4, BranchOps
  <1>8. CASE \E l \in Labels : code[2] = jump("ifne", l) /\ IF v # 0 THEN Arrives(l) ELSE Edge(2)
    <2>1. PICK l \in Labels : code[2] = jump("ifne", l) /\ IF v # 0 THEN Arrives(l) ELSE Edge(2)
      BY <1>8
    <2>2. code[ip].op = "ifne" /\ code[ip].to = l
      BY <1>4, <2>1 DEF jump
    <2>3. CASE v # 0
      <3>1. JumpTo(l) /\ Arrives(l)
        BY <1>3, <1>6, <2>1, <2>2, <2>3
      <3>2. QED
        BY <1>1, <1>6, <3>1, JumpArrives
    <2>4. CASE v = 0
      <3>1. Edge(2) /\ Advance /\ UNCHANGED block
        BY <1>3, <1>6, <2>1, <2>2, <2>4
      <3>2. 3 <= Len(code)
        BY <1>7, <3>1, EdgeInside
      <3>3. code' = code /\ ip' = 2 + 1
        BY <1>4, <1>7, <3>1, <3>2, AdvanceFacts
      <3>4. QED
        BY <1>1, <1>6, <1>7, <3>1, <3>3, EdgeNext
    <2>5. QED
      BY <2>3, <2>4
  <1>9. CASE /\ code[2] = jump("ifeq", Local("skip")) /\ 4 \in DOMAIN code /\ LabelAt(Local("skip"), 4)
             /\ \E l \in Labels : code[3] = jump("goto", l) /\ IF v # 0 THEN Arrives(l) ELSE Edge(4)
    <2>1. PICK l \in Labels : code[3] = jump("goto", l) /\ IF v # 0 THEN Arrives(l) ELSE Edge(4)
      BY <1>9
    <2>2. code[ip].op = "ifeq" /\ code[ip].to = Local("skip")
      BY <1>4, <1>9 DEF jump
    <2>3. CASE v # 0
      <3>1. Arrives(l) /\ Advance /\ UNCHANGED block
        BY <1>3, <1>6, <2>1, <2>2, <2>3
      <3>2. code' = code /\ ip' = 3 /\ 3 \in DOMAIN code
        BY <1>4, <1>7, <1>9, <3>1, AdvanceFacts
      <3>3. UNCHANGED <<code, reg, target, fault>>
        BY <1>1, <3>2
      <3>4. HeldOK' /\ RegOK'
        BY <3>3, SameEdge DEF IInv, InBranch
      <3>5. Arrives(l)'
        <4>1. \A k : Arrives(k)' <=> Arrives(k)
          BY <3>3, SameEdge
        <4>2. QED
          BY <3>1, <4>1
      <3>6. code'[ip'] = jump("goto", l)
        BY <2>1, <3>2
      <3>7. Testing'
        BY <1>6, <3>5, <3>6 DEF Testing
      <3>8. InBranch'
        BY <1>1, <1>7, <3>2, <3>4, <3>7 DEF InBranch
      <3>9. QED
        BY <1>1, <3>1, <3>4, <3>8 DEF IInv
    <2>4. CASE v = 0
      <3>1. Edge(4) /\ JumpTo(Local("skip"))
        BY <1>3, <1>6, <2>1, <2>2, <2>4
      <3>2. ip' = (CHOOSE k \in DOMAIN code : code[k] = label(Local("skip"))) /\ block' = block /\ code' = code
        BY <3>1 DEF JumpTo, Local
      <3>3. ip' = 4
        BY <1>9, <3>2 DEF LabelAt
      <3>4. UNCHANGED <<code, reg, target, fault>>
        BY <1>1, <3>2
      <3>5. HeldOK' /\ RegOK'
        BY <3>4, SameEdge DEF IInv, InBranch
      <3>6. Edge(4)'
        <4>1. \A k : Edge(k)' <=> Edge(k)
          BY <3>4, SameEdge
        <4>2. QED
          BY <3>1, <4>1
      <3>7. Edge(ip)' /\ code'[ip'] = label(Local("skip"))
        BY <1>9, <3>2, <3>3, <3>6 DEF Edge, LabelAt
      <3>8. Testing'
        BY <1>6, <3>7 DEF Testing
      <3>9. InBranch'
        BY <1>1, <1>7, <1>9, <3>2, <3>3, <3>5, <3>8 DEF InBranch
      <3>10. QED
        BY <1>1, <3>2, <3>5, <3>9 DEF IInv
    <2>5. QED
      BY <2>3, <2>4
  <1>10. code[2] # pop
    BY <1>2, <1>4, OpNames
  <1>11. QED
    BY <1>5, <1>8, <1>9, <1>10 DEF Decides

(* A label of a branch. *)
LEMMA LabelBranch ==
  ASSUME IInv, InBranch, Label
  PROVE  IInv'
  <1>1. UNCHANGED <<reg, stack, block, target, fault>> /\ Advance /\ code[ip].op = "label"
    BY DEF Label, At
  <1>2. stack = << >> /\ Edge(ip)
    BY <1>1, BranchAt
  <1>3. Len(code) \in Nat /\ ip \in 1 .. Len(code) /\ ip + 1 <= Len(code)
    BY <1>2, EdgeInside, BranchOps
  <1>4. code' = code /\ ip' = ip + 1
    BY <1>1, <1>3, AdvanceFacts
  <1>5. QED
    BY <1>1, <1>2, <1>3, <1>4, EdgeNext

(* A goto of a branch. *)
LEMMA GotoBranch ==
  ASSUME IInv, InBranch, GotoLabel
  PROVE  IInv'
  <1>1. UNCHANGED <<reg, stack, target, fault>> /\ JumpTo(code[ip].to) /\ code[ip].op = "goto"
    BY DEF GotoLabel, At
  <1>2. stack = << >> /\ \E l \in Labels : code[ip] = jump("goto", l) /\ Arrives(l)
    BY <1>1, BranchAt
  <1>3. PICK l \in Labels : code[ip] = jump("goto", l) /\ Arrives(l)
    BY <1>2
  <1>4. JumpTo(l)
    BY <1>1, <1>3 DEF jump
  <1>5. QED
    BY <1>1, <1>2, <1>3, <1>4, JumpArrives


(* A step of a select that does not leave its code. *)
LEMMA SelectStep ==
  ASSUME IInv, NEW c \in Reg, NEW p \in Reg, NEW q \in Reg, code = Select(c, p, q, reg["x"].ty),
         Agrees("y"), fault = "none", block = target,
         UNCHANGED <<reg, block, target, fault>>, code' = code, NEW i \in 1 .. 8, ip' = i,
         LET want == Encoded(reg["x"])
         IN  CASE i = 1 -> /\ stack' = << >> /\ reg[c].jvm \in {0, 1}
                           /\ reg[IF reg[c].jvm # 0 THEN p ELSE q].jvm = want
               [] i = 2 -> \E v \in {0, 1} : stack' = <<v>> /\ reg[IF v # 0 THEN p ELSE q].jvm = want
               [] i = 3 -> stack' = << >> /\ reg[p].jvm = want
               [] i \in {5, 6} -> stack' = << >> /\ reg[q].jvm = want
               [] i \in {4, 7, 8} -> stack' = <<want>>
  PROVE  IInv'
  <1>1. RegOK'
    BY DEF IInv, RegOK
  <1>2. Agrees("y")' /\ Encoded(reg["x"])' = Encoded(reg["x"])
    BY DEF Agrees, Encoded
  <1>3. InSelect'
    <2>1. (code = Select(c, p, q, reg["x"].ty))' /\ ip' \in 1 .. 8 /\ fault' = "none" /\ block' = target'
      BY DEF Select, load, jump, label, store, Local
    <2> DEFINE want == Encoded(reg["x"])
    <2>2. (CASE ip = 1 -> /\ stack = << >> /\ reg[c].jvm \in {0, 1}
                          /\ reg[IF reg[c].jvm # 0 THEN p ELSE q].jvm = want
             [] ip = 2 -> \E v \in {0, 1} : stack = <<v>> /\ reg[IF v # 0 THEN p ELSE q].jvm = want
             [] ip = 3 -> stack = << >> /\ reg[p].jvm = want
             [] ip \in {5, 6} -> stack = << >> /\ reg[q].jvm = want
             [] ip \in {4, 7, 8} -> stack = <<want>>)'
      BY <1>2
    <2>3. QED
      BY <1>2, <2>1, <2>2 DEF InSelect
  <1>4. QED
    BY <1>1, <1>3 DEF IInv

(* The steps of a select. *)
LEMMA SelectSteps ==
  ASSUME IInv, InSelect, Push \/ Store \/ Label \/ If \/ GotoLabel
  PROVE  IInv'
  <1> DEFINE want == Encoded(reg["x"])
             ty == reg["x"].ty
  <1>1. PICK c \in Reg, p \in Reg, q \in Reg :
          /\ code = Select(c, p, q, reg["x"].ty) /\ ip \in 1 .. 8
          /\ Agrees("y") /\ fault = "none" /\ block = target
          /\ CASE ip = 1 -> /\ stack = << >> /\ reg[c].jvm \in {0, 1}
                            /\ reg[IF reg[c].jvm # 0 THEN p ELSE q].jvm = want
               [] ip = 2 -> \E v \in {0, 1} : stack = <<v>> /\ reg[IF v # 0 THEN p ELSE q].jvm = want
               [] ip = 3 -> stack = << >> /\ reg[p].jvm = want
               [] ip \in {5, 6} -> stack = << >> /\ reg[q].jvm = want
               [] ip \in {4, 7, 8} -> stack = <<want>>
    BY DEF InSelect
  <1>2. /\ code[1] = load(c) /\ code[2] = jump("ifeq", Local("a")) /\ code[3] = load(p)
        /\ code[4] = jump("goto", Local("b")) /\ code[5] = label(Local("a")) /\ code[6] = load(q)
        /\ code[7] = label(Local("b")) /\ code[8] = store("x", ty)
        /\ Len(code) = 8 /\ DOMAIN code = 1 .. 8
    BY <1>1 DEF Select
  <1>3. /\ code[1].op = "load" /\ code[2].op = "ifeq" /\ code[3].op = "load" /\ code[4].op = "goto"
        /\ code[5].op = "label" /\ code[6].op = "load" /\ code[7].op = "label" /\ code[8].op = "store"
    BY <1>2, OpNames
  <1>4. /\ Push => /\ UNCHANGED <<reg, block, target, fault>> /\ Advance
                   /\ code[ip].op = "load" => stack' = Append(stack, reg[code[ip].reg].jvm)
        /\ Push => code[ip].op \in {"load", "push"}
        /\ Store => code[ip].op = "store"
        /\ Label => code[ip].op = "label" /\ UNCHANGED <<reg, stack, block, target, fault>> /\ Advance
        /\ If => /\ code[ip].op \in {"ifne", "ifeq"} /\ stack' = Rest /\ UNCHANGED <<reg, target, fault>>
                 /\ IF (Top # 0) = (code[ip].op = "ifne") THEN JumpTo(code[ip].to) ELSE Advance /\ UNCHANGED block
        /\ GotoLabel => /\ code[ip].op = "goto" /\ JumpTo(code[ip].to)
                        /\ UNCHANGED <<reg, stack, target, fault>>
    BY DEF Push, Store, Label, If, GotoLabel, At
  <1>5. \A k \in DOMAIN code : (code[k] = label(Local("a")) => k = 5) /\ (code[k] = label(Local("b")) => k = 7)
    <2>1. label(Local("a")).op = "label" /\ label(Local("b")).op = "label" /\ label(Local("a")) # label(Local("b"))
      BY DEF label, Local
    <2>2. QED
      BY <1>2, <1>3, <2>1
  <1>6. /\ JumpTo(Local("a")) => ip' = 5 /\ code' = code /\ block' = block
        /\ JumpTo(Local("b")) => ip' = 7 /\ code' = code /\ block' = block
    <2>1. (CHOOSE k \in DOMAIN code : code[k] = label(Local("a"))) = 5
      BY <1>2, <1>5
    <2>2. (CHOOSE k \in DOMAIN code : code[k] = label(Local("b"))) = 7
      BY <1>2, <1>5
    <2>3. Local("a")[1] # "block" /\ Local("b")[1] # "block"
      BY DEF Local
    <2>4. QED
      BY <2>1, <2>2, <2>3 DEF JumpTo
  <1>7. ip # 8 /\ Advance => ip' = ip + 1 /\ code' = code
    BY <1>2, AdvanceFacts
  <1>8. CASE ip = 1
    <2>1. Push
      BY <1>3, <1>4, <1>8
    <2>2. stack' = <<reg[c].jvm>> /\ ip' = 2 /\ code' = code /\ UNCHANGED <<reg, block, target, fault>>
      BY <1>1, <1>2, <1>3, <1>4, <1>7, <1>8, <2>1 DEF load
    <2>3. reg[c].jvm \in {0, 1} /\ reg[IF reg[c].jvm # 0 THEN p ELSE q].jvm = want
      BY <1>1, <1>8
    <2>4. QED
      BY <1>1, <2>2, <2>3, SelectStep
  <1>9. CASE ip = 2
    <2>1. If
      BY <1>3, <1>4, <1>9
    <2>2. PICK v \in {0, 1} : stack = <<v>> /\ reg[IF v # 0 THEN p ELSE q].jvm = want
      BY <1>1, <1>9
    <2>3. Top = v /\ stack' = << >> /\ UNCHANGED <<reg, target, fault>>
      BY <1>4, <2>1, <2>2, OneOnStack
    <2>4. code[ip].to = Local("a") /\ code[ip].op = "ifeq"
      BY <1>2, <1>9 DEF jump
    <2>5. CASE v = 0
      <3>1. JumpTo(Local("a"))
        BY <1>4, <2>1, <2>3, <2>4, <2>5
      <3>2. ip' = 5 /\ code' = code /\ UNCHANGED block /\ reg[q].jvm = want
        BY <1>6, <2>2, <2>5, <3>1
      <3>3. QED
        BY <1>1, <2>3, <3>2, SelectStep
    <2>6. CASE v # 0
      <3>1. Advance /\ UNCHANGED block
        BY <1>4, <2>1, <2>3, <2>4, <2>6
      <3>2. ip' = 3 /\ code' = code /\ reg[p].jvm = want
        BY <1>7, <1>9, <2>2, <2>6, <3>1
      <3>3. QED
        BY <1>1, <2>3, <3>1, <3>2, SelectStep
    <2>7. QED
      BY <2>5, <2>6
  <1>10. CASE ip = 3
    <2>1. Push
      BY <1>3, <1>4, <1>10
    <2>2. stack' = <<want>> /\ ip' = 4 /\ code' = code /\ UNCHANGED <<reg, block, target, fault>>
      BY <1>1, <1>2, <1>3, <1>4, <1>7, <1>10, <2>1 DEF load
    <2>3. QED
      BY <1>1, <2>2, SelectStep
  <1>11. CASE ip = 4
    <2>1. GotoLabel
      BY <1>3, <1>4, <1>11
    <2>2. code[ip].to = Local("b") /\ stack = <<want>>
      BY <1>1, <1>2, <1>11 DEF jump
    <2>3. stack' = <<want>> /\ ip' = 7 /\ code' = code /\ UNCHANGED <<reg, block, target, fault>>
      BY <1>4, <1>6, <2>1, <2>2
    <2>4. QED
      BY <1>1, <2>3, SelectStep
  <1>12. CASE ip = 5
    <2>1. Label
      BY <1>3, <1>4, <1>12
    <2>2. stack = << >> /\ reg[q].jvm = want
      BY <1>1, <1>12
    <2>3. stack' = << >> /\ ip' = 6 /\ code' = code /\ UNCHANGED <<reg, block, target, fault>>
      BY <1>4, <1>7, <1>12, <2>1, <2>2
    <2>4. QED
      BY <1>1, <2>2, <2>3, SelectStep
  <1>13. CASE ip = 6
    <2>1. Push
      BY <1>3, <1>4, <1>13
    <2>2. stack' = <<want>> /\ ip' = 7 /\ code' = code /\ UNCHANGED <<reg, block, target, fault>>
      BY <1>1, <1>2, <1>3, <1>4, <1>7, <1>13, <2>1 DEF load
    <2>3. QED
      BY <1>1, <2>2, SelectStep
  <1>14. CASE ip = 7
    <2>1. Label
      BY <1>3, <1>4, <1>14
    <2>2. stack = <<want>>
      BY <1>1, <1>14
    <2>3. stack' = <<want>> /\ ip' = 8 /\ code' = code /\ UNCHANGED <<reg, block, target, fault>>
      BY <1>4, <1>7, <1>14, <2>1, <2>2
    <2>4. QED
      BY <1>1, <2>3, SelectStep
  <1>15. CASE ip = 8
    <2>1. Store
      BY <1>3, <1>4, <1>15
    <2>2. /\ UNCHANGED <<block, target, fault>> /\ Advance /\ stack' = Rest
          /\ reg' = [reg EXCEPT ![code[ip].reg].jvm = printValueStore(code[ip].ty, Top)]
      BY <2>1 DEF Store
    <2>3. stack = <<want>> /\ code[ip].reg = "x" /\ code[ip].ty = ty
      BY <1>1, <1>2, <1>15 DEF store
    <2>4. Top = want /\ stack' = << >>
      BY <2>2, <2>3, OneOnStack
    <2>5. RegOK /\ "x" \in Reg /\ "y" \in Reg
      BY DEF IInv, Reg
    <2>6. ty \in Types /\ want \in Reprs(ty)
      <3>1. ty \in Types /\ reg["x"].llvm \in Values(ty)
        BY <2>5 DEF RegOK
      <3>2. QED
        BY <3>1, EncodedRepr DEF Reprs
    <2>7. printValueStore(ty, want) = want /\ want \in Int /\ want \in SignedRange(expanded(ty))
      BY <2>6, ReprsStored
    <2>8. reg' = [reg EXCEPT !["x"].jvm = want]
      BY <2>2, <2>3, <2>4, <2>7
    <2>9. code' = << >> /\ ip' = 1
      BY <1>2, <1>15, <2>2 DEF Advance
    <2>10. /\ \A r \in Reg : /\ reg'[r].ty = reg[r].ty /\ reg'[r].llvm = reg[r].llvm
                             /\ reg'[r].jvm = IF r = "x" THEN want ELSE reg[r].jvm
           /\ reg' \in [Reg -> [ty : Types, llvm : Nat, jvm : Int]]
      <3> HIDE DEF want
      <3>1. QED
        BY <2>5, <2>7, <2>8 DEF RegOK
    <2>11. RegOK'
      BY <2>5, <2>10 DEF RegOK
    <2>12. Agrees("x")' /\ Agrees("y")'
      <3>1. Encoded(reg'["x"]) = want /\ Encoded(reg'["y"]) = Encoded(reg["y"])
        BY <2>5, <2>10 DEF Encoded
      <3>2. QED
        BY <1>1, <2>5, <2>10, <3>1 DEF Agrees, Reg
    <2>13. (Held = Wanted)'
      BY <2>12 DEF Held, Wanted, Agrees, Reg
    <2>14. reg["y"].jvm \in SignedRange(expanded(reg["y"].ty))
      BY <1>1, <2>5, RegisterStands, ReprFacts
    <2>15. \A r \in Reg : reg'[r].jvm \in SignedRange(expanded(reg'[r].ty))
      BY <2>7, <2>10, <2>14 DEF Reg
    <2>16. Idle'
      BY <1>1, <2>2, <2>4, <2>9, <2>13, <2>15 DEF Idle
    <2>17. QED
      BY <2>2, <2>11, <2>16 DEF IInv
  <1>16. QED
    BY <1>1, <1>8, <1>9, <1>10, <1>11, <1>12, <1>13, <1>14, <1>15


(* What the table of a switch has for the number of a block. *)
LEMMA SwitchTable ==
  ASSUME NEW b \in Block, NEW named \in BOOLEAN
  PROVE  LET s == IndirectBr(b, named)
         IN  /\ s[1] = push(basicblock_map(b, named).id) /\ s[2].op = "lookupswitch"
             /\ Len(s) = 2 /\ DOMAIN s = 1 .. 2
             /\ s[2].table[basicblock_map(b, named).id] = basicblock_map(b, named).block
             /\ basicblock_map(b, named).block \in Block
  <1> DEFINE entry(d) == basicblock_map(d, named)
             E == {entry(d) : d \in Block}
             table == [n \in {entry(d).id : d \in Block} |-> (CHOOSE e \in E : e.id = n).block]
  <1>1. IndirectBr(b, named) = <<push(entry(b).id), lookupswitch(table)>>
    BY DEF IndirectBr
  <1>2. lookupswitch(table).table = table /\ lookupswitch(table).op = "lookupswitch"
    BY DEF lookupswitch
  <1>3. \A e \in E : e.id = entry(b).id => e.block = entry(b).block
    BY DEF basicblock_map, Block
  <1>4. entry(b) \in E /\ entry(b).block \in Block
    BY DEF basicblock_map, Block
  <1>5. (CHOOSE e \in E : e.id = entry(b).id).block = entry(b).block
    <2> HIDE DEF entry, E
    <2>1. QED
      BY <1>3, <1>4
  <1>6. table[entry(b).id] = entry(b).block
    <2>1. entry(b).id \in {entry(d).id : d \in Block}
      OBVIOUS
    <2> HIDE DEF entry, E
    <2>2. QED
      BY <1>5, <2>1
  <1> HIDE DEF table
  <1>7. QED
    BY <1>1, <1>2, <1>4, <1>6

(* Pushing the number of the block. *)
LEMMA PushSwitch ==
  ASSUME IInv, InSwitch, Push
  PROVE  IInv'
  <1>1. UNCHANGED <<reg, block, target, fault>> /\ Advance /\ code[ip].op \in {"load", "push"}
        /\ (code[ip].op = "push" => stack' = Append(stack, code[ip].n))
    BY DEF Push, At
  <1>2. PICK named \in BOOLEAN :
          /\ code = IndirectBr(target, named) /\ HeldOK /\ fault # "perhaps"
          /\ fault = "none" => Held = Wanted
          /\ fault = "value" => Held # Wanted
          /\ basicblock_map(target, named).block = target <=> fault # "block"
          /\ \/ ip = 1 /\ stack = << >>
             \/ ip = 2 /\ stack = <<basicblock_map(target, named).id>>
    BY DEF InSwitch
  <1>3. target \in Block
    BY DEF IInv
  <1>4. /\ code[1] = push(basicblock_map(target, named).id) /\ code[2].op = "lookupswitch" /\ Len(code) = 2
    BY <1>2, <1>3, SwitchTable
  <1>5. ip = 1 /\ stack = << >>
    BY <1>1, <1>2, <1>4
  <1>6. stack' = <<basicblock_map(target, named).id>>
    BY <1>1, <1>4, <1>5 DEF push
  <1>7. code' = code /\ ip' = 2
    BY <1>1, <1>4, <1>5, AdvanceFacts
  <1>8. UNCHANGED <<code, reg, target, fault>>
    BY <1>1, <1>7
  <1>9. Held' = Held /\ Wanted' = Wanted /\ HeldOK' /\ RegOK'
    BY <1>2, <1>8, SameEdge DEF IInv
  <1>10. (code = IndirectBr(target, named))' /\ (stack = <<basicblock_map(target, named).id>>)'
    BY <1>2, <1>6, <1>8 DEF IndirectBr, basicblock_map, push, lookupswitch
  <1>11. (basicblock_map(target, named).block = target <=> fault # "block")'
    BY <1>2, <1>8 DEF basicblock_map
  <1>12. InSwitch'
    BY <1>2, <1>7, <1>8, <1>9, <1>10, <1>11 DEF InSwitch
  <1>13. QED
    BY <1>1, <1>9, <1>12 DEF IInv

(* The switch. *)
LEMMA SwitchInvariant == IInv /\ Switch => IInv'
  <1> SUFFICES ASSUME IInv, Switch PROVE IInv'
    OBVIOUS
  <1>1. /\ code # << >> /\ code[ip].op = "lookupswitch" /\ JumpTo(BlockLabel(code[ip].table[Top]))
        /\ stack' = Rest /\ UNCHANGED <<reg, target, fault>>
    BY DEF Switch, At
  <1>2. ~InBranch /\ ~InSelect
    BY <1>1, BranchAt, SelectOps
  <1>3. InSwitch
    BY <1>1, <1>2 DEF IInv, Idle
  <1>4. PICK named \in BOOLEAN :
          /\ code = IndirectBr(target, named) /\ HeldOK /\ fault # "perhaps"
          /\ fault = "none" => Held = Wanted
          /\ fault = "value" => Held # Wanted
          /\ basicblock_map(target, named).block = target <=> fault # "block"
          /\ \/ ip = 1 /\ stack = << >>
             \/ ip = 2 /\ stack = <<basicblock_map(target, named).id>>
    BY <1>3 DEF InSwitch
  <1> DEFINE entry == basicblock_map(target, named)
  <1>5. target \in Block /\ RegOK
    BY DEF IInv
  <1>6. code[1] = push(entry.id) /\ code[2].table[entry.id] = entry.block /\ entry.block \in Block
    BY <1>4, <1>5, SwitchTable
  <1>7. ip = 2 /\ stack = <<entry.id>>
    <2>1. code[1].op = "push"
      BY <1>6, OpNames
    <2>2. QED
      BY <1>1, <1>4, <2>1
  <1>8. Top = entry.id /\ stack' = << >>
    BY <1>1, <1>7, OneOnStack
  <1>9. block' = entry.block /\ code' = << >> /\ ip' = 1
    BY <1>1, <1>6, <1>7, <1>8 DEF JumpTo, BlockLabel
  <1>10. RegOK' /\ Held' = Held /\ Wanted' = Wanted
    BY <1>1, <1>5 DEF RegOK, Held, Wanted
  <1>11. \A r \in Reg : reg'[r].jvm \in SignedRange(expanded(reg'[r].ty))
    BY <1>1, <1>4, <1>5, ReprsStored DEF RegOK, HeldOK
  <1>12. Idle'
    BY <1>1, <1>4, <1>8, <1>9, <1>10, <1>11 DEF Idle
  <1>13. QED
    BY <1>1, <1>5, <1>6, <1>9, <1>10, <1>12 DEF IInv

(* The other instructions, in any sequence. *)
LEMMA PushInvariant == IInv /\ Push => IInv'
  <1> SUFFICES ASSUME IInv, Push PROVE IInv'
    OBVIOUS
  <1>1. ~Idle
    BY DEF Push, At, Idle
  <1>2. QED
    BY <1>1, PushBranch, SelectSteps, PushSwitch DEF IInv

(* Store. *)
LEMMA StoreInvariant == IInv /\ Store => IInv'
  <1> SUFFICES ASSUME IInv, Store PROVE IInv'
    OBVIOUS
  <1>1. ~Idle /\ code[ip].op = "store"
    BY DEF Store, At, Idle
  <1>2. ~InSwitch
    BY <1>1, SwitchOps
  <1>3. QED
    BY <1>1, <1>2, StoreBranch, SelectSteps DEF IInv

(* Labels. *)
LEMMA LabelInvariant == IInv /\ Label => IInv'
  <1> SUFFICES ASSUME IInv, Label PROVE IInv'
    OBVIOUS
  <1>1. ~Idle /\ code[ip].op = "label"
    BY DEF Label, At, Idle
  <1>2. ~InSwitch
    BY <1>1, SwitchOps
  <1>3. QED
    BY <1>1, <1>2, LabelBranch, SelectSteps DEF IInv

(* Conditional jumps. *)
LEMMA IfInvariant == IInv /\ If => IInv'
  <1> SUFFICES ASSUME IInv, If PROVE IInv'
    OBVIOUS
  <1>1. ~Idle /\ code[ip].op \in {"ifne", "ifeq"}
    BY DEF If, At, Idle
  <1>2. ~InSwitch
    BY <1>1, SwitchOps
  <1>3. QED
    BY <1>1, <1>2, IfBranch, SelectSteps DEF IInv

(* Jumps. *)
LEMMA GotoInvariant == IInv /\ GotoLabel => IInv'
  <1> SUFFICES ASSUME IInv, GotoLabel PROVE IInv'
    OBVIOUS
  <1>1. ~Idle /\ code[ip].op = "goto"
    BY DEF GotoLabel, At, Idle
  <1>2. ~InSwitch
    BY <1>1, SwitchOps
  <1>3. QED
    BY <1>1, <1>2, GotoBranch, SelectSteps DEF IInv


-----------------------------------------------------------------------------
(* Starting a sequence *)

(* The PHIs of an edge. *)
LEMMA PhiFacts ==
  ASSUME NEW phis \in EdgePhis
  PROVE  /\ Len(phis) \in 0 .. 2 /\ DOMAIN phis = 1 .. Len(phis)
         /\ \A i \in 1 .. Len(phis) : /\ phis[i] \in [dest : Reg, src : Reg \cup {"undef"}]
                                      /\ phis[i].dest \in Reg /\ phis[i].src \in Reg \cup {"undef"}
         /\ Len(phis) = 2 => phis[1].dest # phis[2].dest
  <1>1. /\ phis \in Seq([dest : Reg, src : Reg \cup {"undef"}])
        /\ \A i, j \in DOMAIN phis : phis[i].dest = phis[j].dest => i = j
    BY PhiAssumption
  <1>2. /\ Len(phis) \in Nat /\ DOMAIN phis = 1 .. Len(phis)
        /\ \A i \in 1 .. Len(phis) : phis[i] \in [dest : Reg, src : Reg \cup {"undef"}]
    <2> DEFINE S == [dest : Reg, src : Reg \cup {"undef"}]
    <2>1. phis \in Seq(S)
      BY <1>1
    <2> HIDE DEF S
    <2>2. Len(phis) \in Nat /\ DOMAIN phis = 1 .. Len(phis) /\ \A i \in 1 .. Len(phis) : phis[i] \in S
      BY <2>1
    <2>3. QED
      BY <2>2 DEF S
  <1>3. \A i \in 1 .. Len(phis) : phis[i].dest \in Reg /\ phis[i].src \in Reg \cup {"undef"}
    BY <1>2
  <1>4. ~(Len(phis) > 2)
    <2> SUFFICES ASSUME Len(phis) > 2 PROVE FALSE
      OBVIOUS
    <2>1. 1 \in DOMAIN phis /\ 2 \in DOMAIN phis /\ 3 \in DOMAIN phis
      BY <1>2
    <2>2. phis[1].dest \in Reg /\ phis[2].dest \in Reg /\ phis[3].dest \in Reg
      BY <1>2, <1>3, <2>1
    <2>3. phis[1].dest # phis[2].dest /\ phis[1].dest # phis[3].dest /\ phis[2].dest # phis[3].dest
      BY <1>1, <2>1
    <2>4. QED
      BY <2>2, <2>3 DEF Reg
  <1>5. Len(phis) = 2 => phis[1].dest # phis[2].dest
    BY <1>1, <1>2
  <1>6. QED
    BY <1>2, <1>3, <1>4, <1>5

(* The instructions of branches. *)
Instructions ==
  {load(r) : r \in Reg} \cup {store(r, ty) : r \in Reg, ty \in Types} \cup {pop}
  \cup {jump(op, l) : op \in {"goto", "ifne", "ifeq"}, l \in Labels \cup {Local("skip")}}
  \cup {label(l) : l \in {Local("phi"), Local("skip")}}

(* A load and a store for each PHI that is defined, in their order. *)
LEMMA CopyCode ==
  ASSUME NEW phis \in EdgePhis, RegOK
  PROVE  LET x(i) == IF phis[i].src = "undef" THEN << >>
                     ELSE <<load(phis[i].src), store(phis[i].dest, reg[phis[i].src].ty)>>
         IN  /\ Len(phis) = 0 => printPHICopy(phis) = << >>
             /\ Len(phis) = 1 => printPHICopy(phis) = x(1)
             /\ Len(phis) = 2 => printPHICopy(phis) = x(1) \o x(2)
  <1> DEFINE x(i) == IF phis[i].src = "undef" THEN << >>
                     ELSE <<load(phis[i].src), store(phis[i].dest, reg[phis[i].src].ty)>>
             n == Len(phis)
             V == Seq(Instructions)
             step == [p \in (1 .. n) \X V |-> p[2] \o x(p[1])]
             u == CHOOSE f : f = [i \in 0 .. n |-> IF i = 0 THEN << >> ELSE f[i - 1] \o x(i)]
  <1>1. n \in 0 .. 2 /\ n \in Nat
    BY PhiFacts
  <1>2. \A i \in 1 .. n : x(i) \in V
    <2> SUFFICES ASSUME NEW i \in 1 .. n PROVE x(i) \in V
      OBVIOUS
    <2>1. phis[i].dest \in Reg /\ phis[i].src \in Reg \cup {"undef"}
      BY PhiFacts
    <2>2. CASE phis[i].src = "undef"
      BY <2>2
    <2>3. CASE phis[i].src \in Reg
      <3>1. reg[phis[i].src].ty \in Types
        BY <2>3 DEF RegOK
      <3>2. load(phis[i].src) \in Instructions
        BY <2>3 DEF Instructions
      <3>3. store(phis[i].dest, reg[phis[i].src].ty) \in Instructions
        BY <2>1, <3>1 DEF Instructions
      <3> HIDE DEF V
      <3>4. <<load(phis[i].src), store(phis[i].dest, reg[phis[i].src].ty)>> \in V
        BY <3>2, <3>3 DEF V
      <3>5. QED
        BY <2>3, <3>4 DEF Reg
    <2>4. QED
      BY <2>1, <2>2, <2>3
  <1>3. printPHICopy(phis) = u[n]
    BY DEF printPHICopy
  <1> HIDE DEF x, u
  <1>4. step \in [(1 .. n) \X V -> V] /\ << >> \in V
    <2>1. \A i \in 1 .. n : \A v \in V : v \o x(i) \in V
      BY <1>2
    <2> HIDE DEF V
    <2>2. step \in [(1 .. n) \X V -> V]
      BY <2>1
    <2>3. << >> \in V
      BY DEF V
    <2>4. QED
      BY <2>2, <2>3
  <1> HIDE DEF V
  <1>5. \A i \in 1 .. n : \A v \in V : step[<<i, v>>] = v \o x(i)
    OBVIOUS
  <1> HIDE DEF step, n
  <1>6. PICK f \in [0 .. n -> V] : IsIteration(f, n, << >>, step)
    BY <1>1, <1>4, Iteration
  <1>7. \A i \in 1 .. n : f[i] = f[i - 1] \o x(i)
    <2> SUFFICES ASSUME NEW i \in 1 .. n PROVE f[i] = f[i - 1] \o x(i)
      OBVIOUS
    <2>1. f[i - 1] \in V
      BY <1>1
    <2>2. QED
      BY <1>5, <1>6, <2>1 DEF IsIteration
  <1>8. f = [i \in 0 .. n |-> IF i = 0 THEN << >> ELSE f[i - 1] \o x(i)]
    <2> DEFINE g(i) == f[i - 1] \o x(i)
    <2>1. f[0] = << >> /\ \A i \in 1 .. n : f[i] = g(i)
      BY <1>6, <1>7 DEF IsIteration
    <2> HIDE DEF g
    <2>2. f = [i \in 0 .. n |-> IF i = 0 THEN << >> ELSE g(i)]
      BY <1>1, <2>1
    <2>3. QED
      BY <2>2 DEF g
  <1>9. u = [i \in 0 .. n |-> IF i = 0 THEN << >> ELSE u[i - 1] \o x(i)]
    BY <1>8 DEF u
  <1>10. u[0] = << >> /\ (n >= 1 => u[1] = u[0] \o x(1)) /\ (n = 2 => u[2] = u[1] \o x(2))
    <2> DEFINE g(i) == u[i - 1] \o x(i)
    <2>1. u = [i \in 0 .. n |-> IF i = 0 THEN << >> ELSE g(i)]
      BY <1>9
    <2>2. 1 - 1 = 0 /\ 2 - 1 = 1
      OBVIOUS
    <2>3. g(1) = u[0] \o x(1) /\ g(2) = u[1] \o x(2)
      BY <2>2
    <2> HIDE DEF g
    <2>4. u[0] = << >> /\ (n >= 1 => u[1] = g(1)) /\ (n = 2 => u[2] = g(2))
      BY <1>1, <2>1
    <2>5. QED
      BY <1>1, <2>3, <2>4
  <1>11. n >= 1 => << >> \o x(1) = x(1)
    <2> SUFFICES ASSUME n >= 1 PROVE << >> \o x(1) = x(1)
      OBVIOUS
    <2>1. x(1) \in Seq(Instructions)
      BY <1>1, <1>2 DEF V
    <2>2. QED
      BY <2>1
  <1>12. /\ n = 0 => printPHICopy(phis) = << >>
         /\ n = 1 => printPHICopy(phis) = x(1)
         /\ n = 2 => printPHICopy(phis) = x(1) \o x(2)
    <2>1. CASE n = 0
      BY <1>3, <1>10, <2>1
    <2>2. CASE n = 1
      BY <1>3, <1>10, <1>11, <2>2
    <2>3. CASE n = 2
      <3>1. u[1] = x(1)
        BY <1>10, <1>11, <2>3
      <3>2. u[2] = x(1) \o x(2)
        BY <1>10, <2>3, <3>1
      <3>3. QED
        BY <1>3, <2>3, <3>2
    <2>4. QED
      BY <1>1, <2>1, <2>2, <2>3
  <1>13. QED
    BY <1>12 DEF n, x

(* The values after the PHIs, if all are done at once. *)
LEMMA AfterFacts ==
  ASSUME NEW phis \in EdgePhis, RegOK, \A r \in Reg : Agrees(r), Legal(phis), reg' = AfterPhis(phis)
  PROVE  /\ RegOK' /\ HeldOK' /\ Held' = Held
         /\ \A r \in Reg : reg'[r].ty = reg[r].ty /\ reg'[r].jvm = reg[r].jvm
         /\ \A i \in 1 .. Len(phis) : phis[i].src # "undef" => Wanted'[phis[i].dest] = Held[phis[i].src]
         /\ \A r \in Reg : (\A i \in 1 .. Len(phis) : phis[i].dest = r => phis[i].src = "undef")
                           => Wanted'[r] = Held[r]
  <1>1. /\ DOMAIN phis = 1 .. Len(phis)
        /\ \A i \in 1 .. Len(phis) : phis[i].dest \in Reg /\ phis[i].src \in Reg \cup {"undef"}
        /\ \A i, j \in DOMAIN phis : phis[i].dest = phis[j].dest => i = j
    BY PhiFacts, PhiAssumption
  <1>2. ASSUME NEW i \in 1 .. Len(phis), phis[i].src # "undef"
        PROVE  /\ reg'[phis[i].dest] = [reg[phis[i].src] EXCEPT !.jvm = reg[phis[i].dest].jvm]
               /\ phis[i].src \in Reg /\ reg[phis[i].src].ty = reg[phis[i].dest].ty
    <2> DEFINE r == phis[i].dest
    <2>1. (CHOOSE k \in DOMAIN phis : phis[k].dest = r) = i
      BY <1>1
    <2>2. r \in Reg /\ \E k \in DOMAIN phis : phis[k].dest = r /\ phis[k].src # "undef"
      BY <1>1, <1>2
    <2>3. reg'[r] = [reg[phis[i].src] EXCEPT !.jvm = reg[r].jvm]
      BY <2>1, <2>2 DEF AfterPhis
    <2>4. phis[i].src \in Reg /\ reg[phis[i].src].ty = reg[r].ty
      BY <1>1, <1>2 DEF Legal
    <2>5. QED
      BY <2>3, <2>4
  <1>3. ASSUME NEW r \in Reg, \A i \in 1 .. Len(phis) : phis[i].dest = r => phis[i].src = "undef"
        PROVE  reg'[r] = reg[r]
    BY <1>1, <1>3 DEF AfterPhis
  <1>4. ASSUME NEW r \in Reg
        PROVE  /\ reg'[r] \in [ty : Types, llvm : Nat, jvm : Int]
               /\ reg'[r].ty = reg[r].ty /\ reg'[r].jvm = reg[r].jvm /\ reg'[r].llvm \in Values(reg'[r].ty)
    <2>1. CASE \E i \in 1 .. Len(phis) : phis[i].dest = r /\ phis[i].src # "undef"
      <3>1. PICK i \in 1 .. Len(phis) : phis[i].dest = r /\ phis[i].src # "undef"
        BY <2>1
      <3>2. /\ reg'[r] = [reg[phis[i].src] EXCEPT !.jvm = reg[r].jvm]
            /\ phis[i].src \in Reg /\ reg[phis[i].src].ty = reg[r].ty
        BY <1>2, <3>1
      <3>3. /\ reg[phis[i].src] \in [ty : Types, llvm : Nat, jvm : Int] /\ reg[r].jvm \in Int
            /\ reg[phis[i].src].llvm \in Values(reg[phis[i].src].ty)
        BY <3>2 DEF RegOK
      <3>4. QED
        BY <3>2, <3>3
    <2>2. CASE ~ \E i \in 1 .. Len(phis) : phis[i].dest = r /\ phis[i].src # "undef"
      <3>1. reg'[r] = reg[r]
        BY <1>3, <2>2
      <3>2. QED
        BY <3>1 DEF RegOK
    <2>3. QED
      BY <2>1, <2>2
  <1>5. RegOK'
    <2>1. reg' = [r \in Reg |-> reg'[r]]
      BY DEF AfterPhis
    <2>2. QED
      BY <1>4, <2>1 DEF RegOK
  <1>6. HeldOK'
    <2>1. \A r \in Reg : reg[r].jvm \in Reprs(reg[r].ty)
      BY RegisterStands DEF Reprs
    <2>2. QED
      BY <1>4, <2>1 DEF HeldOK
  <1>7. Held' = Held
    BY <1>4 DEF Held
  <1>8. ASSUME NEW i \in 1 .. Len(phis), phis[i].src # "undef"
        PROVE  Wanted'[phis[i].dest] = Held[phis[i].src]
    <2>1. /\ reg'[phis[i].dest] = [reg[phis[i].src] EXCEPT !.jvm = reg[phis[i].dest].jvm]
          /\ phis[i].src \in Reg /\ phis[i].dest \in Reg
      BY <1>1, <1>2, <1>8
    <2>2. reg[phis[i].src] \in [ty : Types, llvm : Nat, jvm : Int]
      BY <2>1 DEF RegOK
    <2>3. Encoded(reg'[phis[i].dest]) = Encoded(reg[phis[i].src])
      BY <2>1, <2>2 DEF Encoded
    <2>4. Encoded(reg[phis[i].src]) = reg[phis[i].src].jvm
      BY <2>1 DEF Agrees
    <2>5. QED
      BY <2>1, <2>3, <2>4 DEF Wanted, Held
  <1>9. ASSUME NEW r \in Reg, \A i \in 1 .. Len(phis) : phis[i].dest = r => phis[i].src = "undef"
        PROVE  Wanted'[r] = Held[r]
    <2>1. reg'[r] = reg[r]
      BY <1>3, <1>9
    <2>2. QED
      BY <2>1 DEF Wanted, Held, Agrees
  <1>10. QED
    BY <1>4, <1>5, <1>6, <1>7, <1>8, <1>9


(* The code s for the copies c. *)
CodeOf(c, s) ==
  /\ c \in Copies /\ s \in Seq(Instructions) /\ Len(s) = 2 * Len(c)
  /\ \A j \in 1 .. Len(c) :
        /\ s[2 * j - 1] = load(c[j].src) /\ s[2 * j] = store(c[j].dest, reg[c[j].dest].ty)
        /\ reg[c[j].src].ty = reg[c[j].dest].ty

(* Two sequences, one after the other. *)
LEMMA Concatenated ==
  ASSUME NEW S, NEW s \in Seq(S), NEW t \in Seq(S)
  PROVE  /\ s \o t \in Seq(S) /\ Len(s \o t) = Len(s) + Len(t) /\ Len(s) \in Nat /\ Len(t) \in Nat
         /\ \A i \in 1 .. Len(s) : (s \o t)[i] = s[i]
         /\ \A i \in 1 .. Len(t) : (s \o t)[Len(s) + i] = t[i]
  OBVIOUS

(* None, one or two of them. *)
LEMMA CodeShapes ==
  ASSUME RegOK
  PROVE  /\ CodeOf(<< >>, << >>)
         /\ \A p \in [dest : Reg, src : Reg] : reg[p.src].ty = reg[p.dest].ty =>
              CodeOf(<<p>>, <<load(p.src), store(p.dest, reg[p.src].ty)>>)
         /\ \A p, q \in [dest : Reg, src : Reg] : reg[p.src].ty = reg[p.dest].ty /\ reg[q.src].ty = reg[q.dest].ty =>
              CodeOf(<<p, q>>, <<load(p.src), store(p.dest, reg[p.src].ty)>> \o <<load(q.src), store(q.dest, reg[q.src].ty)>>)
  <1> DEFINE Pair == [dest : Reg, src : Reg]
  <1>1. \A p \in Pair : /\ load(p.src) \in Instructions /\ store(p.dest, reg[p.src].ty) \in Instructions
                        /\ p.dest \in Reg /\ p.src \in Reg
    BY DEF Instructions, RegOK
  <1>2. /\ << >> \in [1 .. 0 -> Pair] /\ \A p \in Pair : <<p>> \in [1 .. 1 -> Pair]
        /\ \A p, q \in Pair : <<p, q>> \in [1 .. 2 -> Pair]
    <2> HIDE DEF Pair
    <2>1. QED
      OBVIOUS
  <1>3. /\ << >> \in Copies /\ \A p \in Pair : <<p>> \in Copies
        /\ \A p, q \in Pair : <<p, q>> \in Copies
    <2> HIDE DEF Pair
    <2>1. \A n \in 0 .. 2 : [1 .. n -> Pair] \subseteq Copies
      BY DEF Copies, Pair
    <2>2. /\ [1 .. 0 -> Pair] \subseteq Copies /\ [1 .. 1 -> Pair] \subseteq Copies
          /\ [1 .. 2 -> Pair] \subseteq Copies
      BY <2>1
    <2>3. << >> \in Copies
      BY <1>2, <2>2
    <2>4. \A p \in Pair : <<p>> \in Copies
      BY <1>2, <2>2
    <2>5. \A p, q \in Pair : <<p, q>> \in Copies
      BY <1>2, <2>2
    <2>6. QED
      BY <2>3, <2>4, <2>5
  <1>4. CodeOf(<< >>, << >>)
    <2>1. << >> \in Seq(Instructions) /\ Len(<< >>) = 0
      OBVIOUS
    <2>2. QED
      BY <1>3, <2>1 DEF CodeOf
  <1>5. ASSUME NEW p \in Pair, reg[p.src].ty = reg[p.dest].ty
        PROVE  CodeOf(<<p>>, <<load(p.src), store(p.dest, reg[p.src].ty)>>)
    <2> DEFINE a == load(p.src)
               b == store(p.dest, reg[p.src].ty)
    <2>1. a \in Instructions /\ b \in Instructions
      BY <1>1
    <2>2. b = store(p.dest, reg[p.dest].ty)
      BY <1>5
    <2> HIDE DEF a, b, Pair
    <2>3. <<a, b>> \in Seq(Instructions) /\ Len(<<a, b>>) = 2 /\ Len(<<p>>) = 1
      BY <2>1
    <2>4. \A j \in 1 .. 1 : <<p>>[j] = p /\ <<a, b>>[2 * j - 1] = a /\ <<a, b>>[2 * j] = b
      OBVIOUS
    <2>5. <<p>> \in Copies
      BY <1>3
    <2>6. CodeOf(<<p>>, <<a, b>>)
      BY <1>5, <2>2, <2>3, <2>4, <2>5 DEF CodeOf, a
    <2>7. QED
      BY <2>6 DEF a, b
  <1>6. ASSUME NEW p \in Pair, NEW q \in Pair, reg[p.src].ty = reg[p.dest].ty, reg[q.src].ty = reg[q.dest].ty
        PROVE  CodeOf(<<p, q>>, <<load(p.src), store(p.dest, reg[p.src].ty)>> \o <<load(q.src), store(q.dest, reg[q.src].ty)>>)
    <2> DEFINE a == load(p.src)
               b == store(p.dest, reg[p.src].ty)
               c == load(q.src)
               d == store(q.dest, reg[q.src].ty)
    <2>1. a \in Instructions /\ b \in Instructions /\ c \in Instructions /\ d \in Instructions
      BY <1>1
    <2>2. b = store(p.dest, reg[p.dest].ty) /\ d = store(q.dest, reg[q.dest].ty)
      BY <1>6
    <2> HIDE DEF a, b, c, d, Pair
    <2> DEFINE u == <<a, b>>
               v == <<c, d>>
               s == u \o v
               e == <<p, q>>
    <2>3. /\ u \in Seq(Instructions) /\ v \in Seq(Instructions) /\ Len(u) = 2 /\ Len(v) = 2
          /\ u[1] = a /\ u[2] = b /\ v[1] = c /\ v[2] = d
      BY <2>1
    <2>4. Len(e) = 2 /\ e[1] = p /\ e[2] = q /\ \A j \in 1 .. 2 : j = 1 \/ j = 2
      OBVIOUS
    <2>5. e \in Copies
      BY <1>3
    <2> HIDE DEF u, v, e
    <2>6. /\ s \in Seq(Instructions) /\ Len(s) = 2 + 2
          /\ \A j \in 1 .. 2 : s[j] = u[j] /\ s[2 + j] = v[j]
      <3>1. /\ u \o v \in Seq(Instructions) /\ Len(u \o v) = Len(u) + Len(v)
            /\ \A i \in 1 .. Len(u) : (u \o v)[i] = u[i]
            /\ \A i \in 1 .. Len(v) : (u \o v)[Len(u) + i] = v[i]
        <4> HIDE DEF s
        <4>1. u \in Seq(Instructions) /\ v \in Seq(Instructions)
          BY <2>3
        <4>2. QED
          BY <4>1, Concatenated
      <3>2. QED
        BY <2>3, <3>1
    <2>7. s[2 * 1 - 1] = a /\ s[2 * 1] = b /\ s[2 * 2 - 1] = c /\ s[2 * 2] = d
      <3>1. s[1] = u[1] /\ s[2] = u[2] /\ s[2 + 1] = v[1] /\ s[2 + 2] = v[2]
        BY <2>6
      <3>2. 2 * 1 - 1 = 1 /\ 2 * 1 = 2 /\ 2 * 2 - 1 = 2 + 1 /\ 2 * 2 = 2 + 2
        OBVIOUS
      <3>3. QED
        BY <2>3, <3>1, <3>2
    <2> HIDE DEF s
    <2>8. CodeOf(e, s)
      BY <1>6, <2>2, <2>4, <2>5, <2>6, <2>7 DEF CodeOf, a, c
    <2>9. QED
      BY <2>8 DEF a, b, c, d, e, s, u, v
  <1>7. QED
    BY <1>4, <1>5, <1>6


(* The code of an edge copies the values one after the other; they arrive    *)
(* unless a PHI reads one that another has changed before.                   *)
LEMMA EdgeCopies ==
  ASSUME NEW phis \in EdgePhis, RegOK, \A r \in Reg : Agrees(r), Legal(phis), reg' = AfterPhis(phis),
         fault' = IF ReadsEarlier(phis) THEN "value" ELSE "none"
  PROVE  \E c : CodeOf(c, printPHICopy(phis)) /\ Arrived(Final(Held, c, 1))'
  <1> DEFINE Pair == [dest : Reg, src : Reg]
             x(i) == IF phis[i].src = "undef" THEN << >>
                     ELSE <<load(phis[i].src), store(phis[i].dest, reg[phis[i].src].ty)>>
  <1>1. /\ Len(phis) \in 0 .. 2 /\ DOMAIN phis = 1 .. Len(phis)
        /\ \A i \in 1 .. Len(phis) : /\ phis[i] \in [dest : Reg, src : Reg \cup {"undef"}]
                                     /\ phis[i].dest \in Reg /\ phis[i].src \in Reg \cup {"undef"}
        /\ Len(phis) = 2 => phis[1].dest # phis[2].dest
    BY PhiFacts
  <1>2. /\ Held' = Held
        /\ \A i \in 1 .. Len(phis) : phis[i].src # "undef" => Wanted'[phis[i].dest] = Held[phis[i].src]
        /\ \A r \in Reg : (\A i \in 1 .. Len(phis) : phis[i].dest = r => phis[i].src = "undef")
                          => Wanted'[r] = Held[r]
    BY AfterFacts
  <1>3. /\ Held = [r \in Reg |-> Held[r]] /\ Wanted' = [r \in Reg |-> Wanted'[r]]
        /\ \A r \in Reg : Held[r] = reg[r].jvm
    BY DEF Held, Wanted
  <1>4. /\ Len(phis) = 0 => printPHICopy(phis) = << >>
        /\ Len(phis) = 1 => printPHICopy(phis) = x(1)
        /\ Len(phis) = 2 => printPHICopy(phis) = x(1) \o x(2)
    BY CopyCode
  <1>5. \A i \in 1 .. Len(phis) : phis[i].src # "undef" =>
          /\ phis[i] \in Pair /\ reg[phis[i].src].ty = reg[phis[i].dest].ty
          /\ x(i) = <<load(phis[i].src), store(phis[i].dest, reg[phis[i].src].ty)>>
          /\ x(i) \in Seq(Instructions)
    <2> SUFFICES ASSUME NEW i \in 1 .. Len(phis), phis[i].src # "undef"
                 PROVE  /\ phis[i] \in Pair /\ reg[phis[i].src].ty = reg[phis[i].dest].ty
                        /\ x(i) = <<load(phis[i].src), store(phis[i].dest, reg[phis[i].src].ty)>>
                        /\ x(i) \in Seq(Instructions)
      OBVIOUS
    <2>1. phis[i] \in Pair
      BY <1>1
    <2>2. reg[phis[i].src].ty = reg[phis[i].dest].ty
      BY <1>1 DEF Legal
    <2>3. x(i) = <<load(phis[i].src), store(phis[i].dest, reg[phis[i].src].ty)>>
      OBVIOUS
    <2>4. CodeOf(<<phis[i]>>, x(i))
      BY <2>1, <2>2, <2>3, CodeShapes
    <2>5. QED
      BY <2>1, <2>2, <2>3, <2>4 DEF CodeOf
  <1>6. << >> \o << >> = << >> /\ \A s \in Seq(Instructions) : << >> \o s = s /\ s \o << >> = s
    OBVIOUS
  <1>7. CASE \A i \in 1 .. Len(phis) : phis[i].src = "undef"
    <2>1. printPHICopy(phis) = << >>
      <3>1. \A i \in 1 .. Len(phis) : x(i) = << >>
        BY <1>7
      <3>2. CASE Len(phis) = 0
        BY <1>4, <3>2
      <3>3. CASE Len(phis) = 1
        BY <1>4, <3>1, <3>3
      <3>4. CASE Len(phis) = 2
        <4>1. x(1) = << >> /\ x(2) = << >>
          BY <3>1, <3>4
        <4> HIDE DEF x
        <4>2. QED
          BY <1>4, <1>6, <3>4, <4>1
      <3>5. QED
        BY <1>1, <3>2, <3>3, <3>4
    <2>2. CodeOf(<< >>, printPHICopy(phis))
      BY <2>1, CodeShapes
    <2>3. Wanted' = Held
      BY <1>2, <1>3, <1>7
    <2>4. ~ReadsEarlier(phis)
      BY <1>1, <1>7 DEF ReadsEarlier, Moves
    <2>5. Final(Held', << >>, 1) = Held'
      BY DEF Final
    <2>6. Arrived(Final(Held, << >>, 1))'
      BY <1>2, <2>3, <2>4, <2>5 DEF Arrived
    <2>7. QED
      BY <2>2, <2>6
  <1>8. CASE \E i \in 1 .. Len(phis) : phis[i].src # "undef" /\ \A j \in 1 .. Len(phis) : j # i => phis[j].src = "undef"
    <2>1. PICK i \in 1 .. Len(phis) : phis[i].src # "undef" /\ \A j \in 1 .. Len(phis) : j # i => phis[j].src = "undef"
      BY <1>8
    <2> DEFINE p == phis[i]
    <2>2. printPHICopy(phis) = x(i)
      <3>1. \A j \in 1 .. Len(phis) : j # i => x(j) = << >>
        BY <2>1
      <3>2. x(i) \in Seq(Instructions)
        BY <1>5, <2>1
      <3> HIDE DEF x
      <3>3. CASE Len(phis) = 1
        BY <1>4, <3>3
      <3>4. CASE Len(phis) = 2
        <4>1. CASE i = 1
          <5>1. x(2) = << >>
            BY <3>1, <3>4, <4>1
          <5>2. QED
            BY <1>4, <1>6, <3>2, <3>4, <4>1, <5>1
        <4>2. CASE i = 2
          <5>1. x(1) = << >>
            BY <3>1, <3>4, <4>2
          <5>2. QED
            BY <1>4, <1>6, <3>2, <3>4, <4>2, <5>1
        <4>3. QED
          BY <3>4, <4>1, <4>2
      <3>5. QED
        BY <1>1, <3>3, <3>4
    <2>3. p \in Pair /\ reg[p.src].ty = reg[p.dest].ty /\ p.dest \in Reg /\ p.src \in Reg
      BY <1>5, <2>1
    <2>4. x(i) = <<load(p.src), store(p.dest, reg[p.src].ty)>>
      BY <1>5, <2>1
    <2>5. CodeOf(<<p>>, printPHICopy(phis))
      BY <2>2, <2>3, <2>4, CodeShapes
    <2>6. Final(Held', <<p>>, 1) = Copied(Held, p)
      <3>1. Len(<<p>>) = 1 /\ <<p>>[1] = p
        OBVIOUS
      <3>2. QED
        BY <1>2, <3>1 DEF Final
    <2>7. Wanted'[p.dest] = Held[p.src] /\ \A r \in Reg : r # p.dest => Wanted'[r] = Held[r]
      BY <1>1, <1>2, <2>1
    <2>8. Wanted' = Copied(Held, p)
      BY <1>3, <2>3, <2>7 DEF Copied
    <2>9. ~ReadsEarlier(phis)
      <3>1. SUFFICES ASSUME NEW k \in DOMAIN phis, NEW j \in DOMAIN phis,
                            k < j, phis[j].src = phis[k].dest, Moves(phis[k])
                     PROVE  FALSE
        BY DEF ReadsEarlier
      <3>2. phis[k].src # "undef" /\ phis[j].src \in Reg
        BY <1>1, <3>1 DEF Moves
      <3>3. k = i /\ phis[j].src # "undef"
        BY <1>1, <2>1, <3>2 DEF Reg
      <3>4. QED
        BY <1>1, <2>1, <3>1, <3>3
    <2>10. Arrived(Final(Held, <<p>>, 1))'
      BY <2>6, <2>8, <2>9 DEF Arrived
    <2>11. QED
      BY <2>5, <2>10
  <1>9. CASE Len(phis) = 2 /\ phis[1].src # "undef" /\ phis[2].src # "undef"
    <2> DEFINE p == phis[1]
               q == phis[2]
    <2>1. /\ 1 \in 1 .. Len(phis) /\ 2 \in 1 .. Len(phis) /\ p.dest # q.dest
          /\ p.dest \in Reg /\ q.dest \in Reg /\ p.src \in Reg /\ q.src \in Reg
      BY <1>1, <1>9
    <2>2. /\ p \in Pair /\ reg[p.src].ty = reg[p.dest].ty
          /\ q \in Pair /\ reg[q.src].ty = reg[q.dest].ty
          /\ x(1) = <<load(p.src), store(p.dest, reg[p.src].ty)>>
          /\ x(2) = <<load(q.src), store(q.dest, reg[q.src].ty)>>
      BY <1>5, <1>9, <2>1
    <2>3. CodeOf(<<p, q>>, printPHICopy(phis))
      <3>1. printPHICopy(phis) = <<load(p.src), store(p.dest, reg[p.src].ty)>> \o <<load(q.src), store(q.dest, reg[q.src].ty)>>
        BY <1>4, <1>9, <2>2
      <3>2. QED
        BY <2>2, <3>1, CodeShapes
    <2>4. Final(Held', <<p, q>>, 1) = Copied(Copied(Held, p), q)
      <3>1. Len(<<p, q>>) = 2 /\ <<p, q>>[1] = p /\ <<p, q>>[1 + 1] = q
        OBVIOUS
      <3>2. QED
        BY <1>2, <3>1 DEF Final
    <2> DEFINE h == Copied(Copied(Held, p), q)
    <2>5. Wanted'[p.dest] = Held[p.src] /\ Wanted'[q.dest] = Held[q.src]
      BY <1>2, <1>9, <2>1
    <2>6. /\ h = [r \in Reg |-> h[r]] /\ h[p.dest] = Held[p.src]
          /\ h[q.dest] = IF q.src = p.dest THEN Held[p.src] ELSE Held[q.src]
      <3> HIDE DEF p, q
      <3>1. QED
        BY <1>3, <2>1 DEF Copied
    <2>7. \A r \in Reg : r = p.dest \/ r = q.dest
      BY <2>1 DEF Reg
    <2>8. h = Wanted' <=> (q.src = p.dest => Held[p.src] = Held[p.dest])
      <3> HIDE DEF h, p, q
      <3>1. h = Wanted' <=> h[p.dest] = Wanted'[p.dest] /\ h[q.dest] = Wanted'[q.dest]
        BY <1>3, <2>1, <2>6, <2>7
      <3>2. QED
        BY <2>5, <2>6, <3>1
    <2>9. ReadsEarlier(phis) <=> q.src = p.dest /\ Moves(p)
      <3>1. \A i, j \in DOMAIN phis : i < j => i = 1 /\ j = 2
        BY <1>1, <1>9
      <3>2. 1 \in DOMAIN phis /\ 2 \in DOMAIN phis /\ 1 < 2
        BY <1>1, <1>9
      <3>3. QED
        BY <3>1, <3>2 DEF ReadsEarlier
    <2>10. Moves(p) <=> Held[p.src] # Held[p.dest]
      BY <1>3, <1>9, <2>1 DEF Moves
    <2>11. h = Wanted' <=> ~ReadsEarlier(phis)
      BY <2>8, <2>9, <2>10
    <2>12. Arrived(Final(Held, <<p, q>>, 1))'
      <3>1. Final(Held', <<p, q>>, 1) = h
        BY <2>4
      <3> HIDE DEF h
      <3>2. QED
        BY <2>11, <3>1 DEF Arrived
    <2>13. QED
      BY <2>3, <2>12
  <1>10. QED
    BY <1>1, <1>7, <1>8, <1>9


(* The code s after position o of the code q. *)
HasAt(q, o, s) == o \in Nat /\ o + Len(s) <= Len(q) /\ \A i \in 1 .. Len(s) : q[o + i] = s[i]

(* The code of an edge to block b. *)
GotoCode(phis, b) == printPHICopy(phis) \o <<jump("goto", BlockLabel(b))>>

(* One part of the code after another. *)
LEMMA HasParts ==
  ASSUME NEW S, NEW q, Len(q) \in Nat, NEW s \in Seq(S), NEW t \in Seq(S), NEW o, HasAt(q, o, s \o t)
  PROVE  HasAt(q, o, s) /\ HasAt(q, o + Len(s), t) /\ o + Len(s) + Len(t) <= Len(q)
  <1> DEFINE u == s \o t
  <1>1. /\ Len(u) = Len(s) + Len(t) /\ Len(s) \in Nat /\ Len(t) \in Nat
        /\ \A i \in 1 .. Len(s) : u[i] = s[i]
        /\ \A i \in 1 .. Len(t) : u[Len(s) + i] = t[i]
    BY Concatenated
  <1>2. HasAt(q, o, u)
    OBVIOUS
  <1> HIDE DEF u
  <1>3. o \in Nat /\ o + Len(u) <= Len(q) /\ \A i \in 1 .. Len(u) : q[o + i] = u[i]
    BY <1>2 DEF HasAt
  <1>4. \A i \in 1 .. Len(s) : q[o + i] = s[i]
    BY <1>1, <1>3
  <1>5. \A i \in 1 .. Len(t) : q[(o + Len(s)) + i] = t[i]
    <2> SUFFICES ASSUME NEW i \in 1 .. Len(t) PROVE q[(o + Len(s)) + i] = t[i]
      OBVIOUS
    <2>1. Len(s) + i \in 1 .. Len(u) /\ (o + Len(s)) + i = o + (Len(s) + i)
      BY <1>1, <1>3
    <2>2. q[o + (Len(s) + i)] = u[Len(s) + i]
      BY <1>3, <2>1
    <2>3. QED
      BY <1>1, <2>1, <2>2
  <1>6. QED
    BY <1>1, <1>3, <1>4, <1>5 DEF HasAt

(* The code of an edge has no label. *)
LEMMA GotoPlain ==
  ASSUME NEW phis \in EdgePhis, RegOK, NEW b \in Block
  PROVE  /\ printPHICopy(phis) \in Seq(Instructions) /\ <<jump("goto", BlockLabel(b))>> \in Seq(Instructions)
         /\ GotoCode(phis, b) \in Seq(Instructions) /\ Len(GotoCode(phis, b)) \in Nat
         /\ \A i \in 1 .. Len(GotoCode(phis, b)) : GotoCode(phis, b)[i].op # "label"
  <1> DEFINE x(i) == IF phis[i].src = "undef" THEN << >>
                     ELSE <<load(phis[i].src), store(phis[i].dest, reg[phis[i].src].ty)>>
             Plain == {e \in Instructions : e.op # "label"}
             s == printPHICopy(phis)
             j == jump("goto", BlockLabel(b))
  <1>1. \A i \in 1 .. Len(phis) : x(i) \in Seq(Plain)
    <2> SUFFICES ASSUME NEW i \in 1 .. Len(phis) PROVE x(i) \in Seq(Plain)
      OBVIOUS
    <2>1. CASE phis[i].src = "undef"
      <3> HIDE DEF Plain
      <3>1. QED
        BY <2>1
    <2>2. CASE phis[i].src # "undef"
      <3>1. phis[i].dest \in Reg /\ phis[i].src \in Reg
        BY <2>2, PhiFacts
      <3>2. reg[phis[i].src].ty \in Types
        BY <3>1 DEF RegOK
      <3>3. load(phis[i].src) \in Instructions /\ store(phis[i].dest, reg[phis[i].src].ty) \in Instructions
        BY <3>1, <3>2 DEF Instructions
      <3>4. load(phis[i].src) \in Plain /\ store(phis[i].dest, reg[phis[i].src].ty) \in Plain
        BY <3>3, OpNames
      <3>5. x(i) = <<load(phis[i].src), store(phis[i].dest, reg[phis[i].src].ty)>>
        BY <2>2
      <3> HIDE DEF Plain, x
      <3>6. QED
        BY <3>4, <3>5
    <2>3. QED
      BY <2>1, <2>2
  <1>2. j \in Plain
    <2>1. BlockLabel(b) \in Labels
      BY DEF Labels
    <2>2. j \in Instructions
      BY <2>1 DEF Instructions
    <2>3. QED
      BY <2>2, OpNames
  <1>3. /\ Len(phis) = 0 => s = << >>
        /\ Len(phis) = 1 => s = x(1)
        /\ Len(phis) = 2 => s = x(1) \o x(2)
    BY CopyCode
  <1>4. Len(phis) \in 0 .. 2
    BY PhiFacts
  <1>5. \A e \in Plain : e \in Instructions /\ e.op # "label"
    OBVIOUS
  <1> HIDE DEF Plain, x, s, j
  <1>6. s \in Seq(Plain)
    <2>1. CASE Len(phis) = 0
      BY <1>3, <2>1
    <2>2. CASE Len(phis) = 1
      BY <1>1, <1>3, <2>2
    <2>3. CASE Len(phis) = 2
      <3>1. x(1) \in Seq(Plain) /\ x(2) \in Seq(Plain) /\ s = x(1) \o x(2)
        BY <1>1, <1>3, <2>3
      <3>2. QED
        BY <3>1, Concatenated
    <2>4. QED
      BY <1>4, <2>1, <2>2, <2>3
  <1> DEFINE g == s \o <<j>>
  <1>7. <<j>> \in Seq(Plain) /\ g \in Seq(Plain)
    BY <1>2, <1>6
  <1>8. \A u \in Seq(Plain) : /\ u \in Seq(Instructions) /\ Len(u) \in Nat
                              /\ \A i \in 1 .. Len(u) : u[i].op # "label"
    <2> SUFFICES ASSUME NEW u \in Seq(Plain)
                 PROVE  /\ u \in Seq(Instructions) /\ Len(u) \in Nat
                        /\ \A i \in 1 .. Len(u) : u[i].op # "label"
      OBVIOUS
    <2>1. Len(u) \in Nat /\ \A i \in 1 .. Len(u) : u[i] \in Plain
      OBVIOUS
    <2>2. u \in Seq(Instructions)
      BY <1>5
    <2>3. QED
      BY <1>5, <2>1, <2>2
  <1> HIDE DEF g
  <1>9. /\ s \in Seq(Instructions) /\ <<j>> \in Seq(Instructions) /\ g \in Seq(Instructions)
        /\ Len(g) \in Nat /\ \A i \in 1 .. Len(g) : g[i].op # "label"
    BY <1>6, <1>7, <1>8
  <1>10. g = GotoCode(phis, b)
    BY DEF g, s, j, GotoCode
  <1>11. QED
    BY <1>9, <1>10 DEF s, j

(* That is where LLVM goes. *)
LEMMA EdgeStarted ==
  ASSUME NEW phis \in EdgePhis, RegOK, \A r \in Reg : Agrees(r), Legal(phis), reg' = AfterPhis(phis),
         fault' = IF ReadsEarlier(phis) THEN "value" ELSE "none",
         target' \in Block, NEW o, Len(code') \in Nat, HasAt(code', o, GotoCode(phis, target'))
  PROVE  Edge(o)'
  <1> DEFINE s == printPHICopy(phis)
             j == jump("goto", BlockLabel(target'))
             q == code'
             n == Len(s)
  <1>1. PICK c : CodeOf(c, s) /\ Arrived(Final(Held, c, 1))'
    BY EdgeCopies
  <1>2. s \in Seq(Instructions) /\ <<j>> \in Seq(Instructions)
    BY GotoPlain
  <1>3. HasAt(q, o, s \o <<j>>)
    BY DEF GotoCode
  <1>4. Len(<<j>>) = 1 /\ <<j>>[1] = j /\ 1 \in 1 .. 1
    OBVIOUS
  <1>5. /\ c \in Copies /\ n = 2 * Len(c)
        /\ \A k \in 1 .. Len(c) :
              /\ s[2 * k - 1] = load(c[k].src) /\ s[2 * k] = store(c[k].dest, reg[c[k].dest].ty)
              /\ reg[c[k].src].ty = reg[c[k].dest].ty
    BY <1>1 DEF CodeOf
  <1>6. Len(c) \in 0 .. 2 /\ \A k \in 1 .. Len(c) : c[k].src \in Reg /\ c[k].dest \in Reg
    BY <1>5 DEF Copies
  <1>7. \A r \in Reg : reg'[r].ty = reg[r].ty
    BY AfterFacts
  <1> HIDE DEF s, j, q, n
  <1>8. HasAt(q, o, s) /\ HasAt(q, o + n, <<j>>)
    <2>1. Len(q) \in Nat
      BY DEF q
    <2>2. QED
      BY <1>2, <1>3, <2>1, HasParts DEF n
  <1>9. o \in Nat /\ \A i \in 1 .. n : q[o + i] = s[i]
    BY <1>8 DEF HasAt, n
  <1>10. q[o + n + 1] = j /\ o + n + 1 <= Len(q)
    BY <1>4, <1>8 DEF HasAt
  <1>11. ASSUME NEW k \in 1 .. Len(c)
         PROVE  /\ q[o + 2 * k - 1] = load(c[k].src) /\ q[o + 2 * k] = store(c[k].dest, reg'[c[k].dest].ty)
                /\ reg'[c[k].src].ty = reg'[c[k].dest].ty
    <2>1. 2 * k - 1 \in 1 .. n /\ 2 * k \in 1 .. n /\ o + (2 * k - 1) = o + 2 * k - 1
      BY <1>5, <1>6, <1>9
    <2>2. q[o + (2 * k - 1)] = s[2 * k - 1] /\ q[o + 2 * k] = s[2 * k]
      BY <1>9, <2>1
    <2>3. reg'[c[k].src].ty = reg[c[k].src].ty /\ reg'[c[k].dest].ty = reg[c[k].dest].ty
      BY <1>6, <1>7
    <2>4. QED
      BY <1>5, <2>1, <2>2, <2>3
  <1>12. GotoAt(o, c, target)'
    BY <1>5, <1>9, <1>10, <1>11 DEF GotoAt, q, j
  <1>13. QED
    BY <1>1, <1>5, <1>12 DEF Edge


(* Where an instruction starts. *)
LEMMA BetweenFacts ==
  ASSUME IInv, Between
  PROVE  /\ RegOK /\ (\A r \in Reg : Agrees(r)) /\ stack = << >> /\ block = target
         /\ block \in Block /\ target \in Block
  <1>1. code = << >> /\ \A r \in Reg : Agrees(r) /\ block = target
    BY DEF Between
  <1>2. "x" \in Reg
    BY DEF Reg
  <1>3. Idle
    BY <1>1, OnlyIdle
  <1>4. QED
    BY <1>1, <1>2, <1>3 DEF IInv, Idle

(* A sequence of the code of branches. *)
LEMMA CodeFacts ==
  ASSUME NEW q \in Seq(Instructions)
  PROVE  /\ Len(q) \in Nat /\ DOMAIN q = 1 .. Len(q) /\ HasAt(q, 0, q)
         /\ \A i \in 1 .. Len(q) : q[i] \in Instructions
  <1>1. Len(q) \in Nat /\ DOMAIN q = 1 .. Len(q) /\ \A i \in 1 .. Len(q) : q[i] \in Instructions
    OBVIOUS
  <1>2. QED
    BY <1>1 DEF HasAt

(* A branch. *)
LEMMA BrInvariant == IInv /\ Br => IInv'
  <1> SUFFICES ASSUME IInv, Br PROVE IInv'
    OBVIOUS
  <1>1. RegOK /\ (\A r \in Reg : Agrees(r)) /\ stack = << >> /\ block \in Block
    BY BetweenFacts DEF Br
  <1>2. PICK b \in Block, phis \in EdgePhis :
          /\ Legal(phis) /\ Emit(Goto(b, [d \in Block |-> phis]))
          /\ reg' = AfterPhis(phis) /\ target' = b
          /\ fault' = IF ReadsEarlier(phis) THEN "value" ELSE "none"
    BY DEF Br
  <1>3. code' = GotoCode(phis, b) /\ ip' = 1 /\ stack' = stack /\ block' = block
    BY <1>2 DEF Emit, Goto, GotoCode
  <1>4. code' \in Seq(Instructions)
    BY <1>1, <1>3, GotoPlain
  <1>5. Len(code') \in Nat /\ DOMAIN code' = 1 .. Len(code') /\ HasAt(code', 0, GotoCode(phis, target'))
    BY <1>2, <1>3, <1>4, CodeFacts
  <1>6. RegOK' /\ HeldOK'
    BY <1>1, <1>2, AfterFacts
  <1>7. Edge(0)'
    BY <1>1, <1>2, <1>5, EdgeStarted
  <1>8. fault' \in {"none", "value"} /\ target' \in Block
    BY <1>2
  <1>9. InBranch'
    BY <1>1, <1>3, <1>5, <1>6, <1>7, <1>8, EdgeRuns
  <1>10. QED
    BY <1>1, <1>3, <1>6, <1>8, <1>9 DEF IInv


(* An edge without PHIs has nothing to copy. *)
LEMMA EmptyEdge ==
  ASSUME NEW phis \in EdgePhis, phis = << >>, RegOK, \A r \in Reg : Agrees(r), Legal(phis), reg' = AfterPhis(phis),
         fault' = IF ReadsEarlier(phis) THEN "value" ELSE "none"
  PROVE  Arrived(Held)'
  <1>1. PICK c : CodeOf(c, printPHICopy(phis)) /\ Arrived(Final(Held, c, 1))'
    BY EdgeCopies
  <1>2. Len(phis) = 0
    OBVIOUS
  <1>3. printPHICopy(phis) = << >>
    BY <1>2, CopyCode
  <1>4. c \in Copies /\ Len(<< >>) = 2 * Len(c)
    BY <1>1, <1>3 DEF CodeOf
  <1>5. Len(c) \in 0 .. 2
    BY <1>4 DEF Copies
  <1>6. Len(c) = 0
    BY <1>4, <1>5
  <1>7. Final(Held', c, 1) = Held'
    BY <1>6 DEF Final
  <1>8. QED
    BY <1>1, <1>7 DEF Arrived

(* The places of a branch with one edge after its test. *)
LEMMA OneEdge ==
  ASSUME NEW S, NEW a \in S, NEW I \in Seq(S), NEW G \in Seq(S)
  PROVE  LET q == <<a>> \o (I \o G)
         IN  /\ q \in Seq(S) /\ Len(q) = 1 + Len(I) + Len(G) /\ Len(I) \in Nat /\ Len(G) \in Nat
             /\ q[1] = a /\ HasAt(q, 1, I) /\ HasAt(q, 1 + Len(I), G)
             /\ \A k \in 1 .. Len(q) : \/ k = 1
                                       \/ \E i \in 1 .. Len(I) : k = 1 + i
                                       \/ \E i \in 1 .. Len(G) : k = 1 + Len(I) + i
  <1> DEFINE u == I \o G
             q == <<a>> \o u
             w == <<a>>
  <1>1. u \in Seq(S) /\ Len(u) = Len(I) + Len(G) /\ Len(I) \in Nat /\ Len(G) \in Nat
    BY Concatenated
  <1>2. w \in Seq(S) /\ Len(w) = 1 /\ w[1] = a
    OBVIOUS
  <1> HIDE DEF w
  <1>3. /\ w \o u \in Seq(S) /\ Len(w \o u) = Len(w) + Len(u)
        /\ \A i \in 1 .. Len(w) : (w \o u)[i] = w[i]
    <2> HIDE DEF u
    <2>1. w \in Seq(S) /\ u \in Seq(S)
      BY <1>1, <1>2
    <2>2. QED
      BY <2>1, Concatenated
  <1>4. q = w \o u
    BY DEF w
  <1>5. q \in Seq(S) /\ Len(q) = 1 + Len(u) /\ q[1] = a
    <2> HIDE DEF q, u
    <2>1. QED
      BY <1>2, <1>3, <1>4
  <1>6. HasAt(q, 0, w \o u)
    <2> HIDE DEF u
    <2>1. HasAt(q, 0, q)
      <3> HIDE DEF q
      <3>1. Len(q) \in Nat
        BY <1>5
      <3>2. QED
        BY <3>1 DEF HasAt
    <2>2. QED
      BY <1>4, <2>1
  <1>7. HasAt(q, 1, u)
    <2> HIDE DEF q, u
    <2>1. Len(q) \in Nat /\ 0 + Len(w) = 1
      BY <1>2, <1>5
    <2>2. HasAt(q, 0 + Len(w), u)
      BY <1>1, <1>2, <1>6, <2>1, HasParts
    <2>3. QED
      BY <2>1, <2>2
  <1>8. HasAt(q, 1, I) /\ HasAt(q, 1 + Len(I), G)
    <2>1. HasAt(q, 1, I \o G) /\ Len(q) \in Nat
      BY <1>5, <1>7
    <2> HIDE DEF q
    <2>2. QED
      BY <2>1, HasParts
  <1> HIDE DEF q, u
  <1>9. Len(q) = 1 + Len(I) + Len(G)
    BY <1>1, <1>5
  <1>10. ASSUME NEW k \in 1 .. Len(q)
         PROVE  \/ k = 1
                \/ \E i \in 1 .. Len(I) : k = 1 + i
                \/ \E i \in 1 .. Len(G) : k = 1 + Len(I) + i
    <2>1. CASE k = 1
      BY <2>1
    <2>2. CASE k # 1 /\ k <= 1 + Len(I)
      <3>1. k - 1 \in 1 .. Len(I) /\ k = 1 + (k - 1)
        BY <1>1, <1>9, <2>2
      <3>2. QED
        BY <3>1
    <2>3. CASE k > 1 + Len(I)
      <3>1. k - 1 - Len(I) \in 1 .. Len(G) /\ k = 1 + Len(I) + (k - 1 - Len(I))
        BY <1>1, <1>9, <2>3
      <3>2. QED
        BY <3>1
    <2>4. QED
      BY <1>1, <1>9, <2>1, <2>2, <2>3
  <1>11. QED
    BY <1>1, <1>5, <1>8, <1>9, <1>10 DEF q, u

(* The places of a branch with two edges after its test. *)
Placed(q, m, a, I, G, e, H) ==
  /\ q \in Seq(Instructions) /\ m = 2 + Len(I) + Len(G)
  /\ Len(q) = m + Len(H) /\ Len(I) \in Nat /\ Len(G) \in Nat /\ Len(H) \in Nat
  /\ q[1] = a /\ HasAt(q, 1, I) /\ HasAt(q, 1 + Len(I), G) /\ q[m] = e /\ HasAt(q, m, H)
  /\ \A k \in 1 .. Len(q) : \/ k = 1 \/ k = m
                            \/ \E i \in 1 .. Len(I) : k = 1 + i
                            \/ \E i \in 1 .. Len(G) : k = 1 + Len(I) + i
                            \/ \E i \in 1 .. Len(H) : k = m + i

(* Concatenation puts them there. *)
LEMMA TwoEdges ==
  ASSUME NEW a \in Instructions, NEW I \in Seq(Instructions), NEW G \in Seq(Instructions),
         NEW e \in Instructions, NEW H \in Seq(Instructions)
  PROVE  Placed(<<a>> \o (((I \o G) \o <<e>>) \o H), 2 + Len(I) + Len(G), a, I, G, e, H)
  <1> DEFINE S == Instructions
             u == I \o G
             w == <<e>>
             v == u \o w
             q == <<a>> \o (v \o H)
             m == 2 + Len(I) + Len(G)
  <1>1. u \in Seq(S) /\ Len(u) = Len(I) + Len(G) /\ Len(I) \in Nat /\ Len(G) \in Nat
    BY Concatenated
  <1>2. w \in Seq(S) /\ Len(w) = 1 /\ w[1] = e
    OBVIOUS
  <1>3. v \in Seq(S) /\ Len(v) = Len(u) + Len(w)
    <2> HIDE DEF u, w
    <2>1. QED
      BY <1>1, <1>2, Concatenated
  <1>4. /\ q \in Seq(S) /\ Len(q) = 1 + Len(v) + Len(H) /\ Len(v) \in Nat /\ Len(H) \in Nat
        /\ q[1] = a /\ HasAt(q, 1, v) /\ HasAt(q, 1 + Len(v), H)
        /\ \A k \in 1 .. Len(q) : \/ k = 1
                                  \/ \E i \in 1 .. Len(v) : k = 1 + i
                                  \/ \E i \in 1 .. Len(H) : k = 1 + Len(v) + i
    <2> HIDE DEF v
    <2>1. v \in Seq(S)
      BY <1>3
    <2>2. QED
      BY <2>1, OneEdge
  <1> HIDE DEF q
  <1>5. HasAt(q, 1, u) /\ HasAt(q, 1 + Len(u), w)
    <2>1. HasAt(q, 1, u \o w) /\ Len(q) \in Nat
      BY <1>3, <1>4
    <2> HIDE DEF u, v, w
    <2>2. QED
      BY <1>1, <1>2, <2>1, HasParts
  <1>6. HasAt(q, 1, I) /\ HasAt(q, 1 + Len(I), G)
    <2>1. HasAt(q, 1, I \o G) /\ Len(q) \in Nat
      BY <1>3, <1>4, <1>5
    <2>2. QED
      BY <2>1, HasParts
  <1> HIDE DEF u, v, w
  <1>7. 1 + Len(v) = m /\ 1 + Len(u) + 1 = m
    BY <1>1, <1>2, <1>3
  <1>8. q[m] = e
    BY <1>2, <1>5, <1>7 DEF HasAt
  <1>9. Len(q) = m + Len(H) /\ HasAt(q, m, H)
    BY <1>4, <1>7
  <1>10. ASSUME NEW k \in 1 .. Len(q)
         PROVE  \/ k = 1 \/ k = m
                \/ \E i \in 1 .. Len(I) : k = 1 + i
                \/ \E i \in 1 .. Len(G) : k = 1 + Len(I) + i
                \/ \E i \in 1 .. Len(H) : k = m + i
    <2>1. CASE k = 1
      BY <2>1
    <2>2. CASE k = m
      BY <2>2
    <2>3. CASE k # 1 /\ k <= 1 + Len(I)
      <3>1. k - 1 \in 1 .. Len(I) /\ k = 1 + (k - 1)
        BY <1>1, <2>3
      <3>2. QED
        BY <3>1
    <2>4. CASE k > 1 + Len(I) /\ k < m
      <3>1. k - 1 - Len(I) \in 1 .. Len(G) /\ k = 1 + Len(I) + (k - 1 - Len(I))
        BY <1>1, <2>4
      <3>2. QED
        BY <3>1
    <2>5. CASE k > m
      <3>1. k - m \in 1 .. Len(H) /\ k = m + (k - m)
        BY <1>1, <1>4, <1>9, <2>5
      <3>2. QED
        BY <3>1
    <2>6. k \in Nat /\ k >= 1 /\ m \in Nat
      BY <1>1, <1>4, <1>9
    <2> HIDE DEF m
    <2>7. k = 1 \/ k = m \/ (k # 1 /\ k <= 1 + Len(I)) \/ (k > 1 + Len(I) /\ k < m) \/ k > m
      <3>1. Len(I) \in Nat
        BY <1>1
      <3>2. QED
        BY <2>6, <3>1
    <2>8. QED
      BY <2>1, <2>2, <2>3, <2>4, <2>5, <2>7
  <1>11. QED
    <2>1. Placed(q, m, a, I, G, e, H)
      BY <1>1, <1>4, <1>6, <1>8, <1>9, <1>10 DEF Placed
    <2>2. QED
      BY <2>1 DEF q, u, v, w


(* The test of a branch. *)
LEMMA IfneShape ==
  ASSUME NEW l \in Labels, NEW rewrite \in BOOLEAN
  PROVE  /\ Ifne(l, rewrite) \in Seq(Instructions)
         /\ rewrite => /\ Len(Ifne(l, rewrite)) = 3 /\ Ifne(l, rewrite)[1] = jump("ifeq", Local("skip"))
                       /\ Ifne(l, rewrite)[2] = jump("goto", l) /\ Ifne(l, rewrite)[3] = label(Local("skip"))
         /\ ~rewrite => Len(Ifne(l, rewrite)) = 1 /\ Ifne(l, rewrite)[1] = jump("ifne", l)
         /\ \A i \in 1 .. Len(Ifne(l, rewrite)) : Ifne(l, rewrite)[i].op = "label" =>
              rewrite /\ i = 3
  <1> DEFINE a == jump("ifeq", Local("skip"))
             b == jump("goto", l)
             c == label(Local("skip"))
             d == jump("ifne", l)
  <1>1. a \in Instructions /\ b \in Instructions /\ c \in Instructions /\ d \in Instructions
    <2>1. l \in Labels \cup {Local("skip")} /\ Local("skip") \in Labels \cup {Local("skip")}
          /\ Local("skip") \in {Local("phi"), Local("skip")}
      OBVIOUS
    <2>2. a \in {jump(op, k) : op \in {"goto", "ifne", "ifeq"}, k \in Labels \cup {Local("skip")}}
      BY <2>1
    <2>3. b \in {jump(op, k) : op \in {"goto", "ifne", "ifeq"}, k \in Labels \cup {Local("skip")}}
      BY <2>1
    <2>4. d \in {jump(op, k) : op \in {"goto", "ifne", "ifeq"}, k \in Labels \cup {Local("skip")}}
      BY <2>1
    <2>5. c \in {label(k) : k \in {Local("phi"), Local("skip")}}
      BY <2>1
    <2>6. QED
      BY <2>2, <2>3, <2>4, <2>5 DEF Instructions
  <1>2. a.op = "ifeq" /\ b.op = "goto" /\ d.op = "ifne"
    BY OpNames
  <1>3. Ifne(l, rewrite) = IF rewrite THEN <<a, b, c>> ELSE <<d>>
    BY DEF Ifne
  <1> HIDE DEF a, b, c, d
  <1>4. CASE rewrite
    <2>1. Ifne(l, rewrite) = <<a, b, c>>
      BY <1>3, <1>4
    <2>2. /\ <<a, b, c>> \in Seq(Instructions) /\ Len(<<a, b, c>>) = 3
          /\ <<a, b, c>>[1] = a /\ <<a, b, c>>[2] = b /\ <<a, b, c>>[3] = c
      BY <1>1
    <2>3. \A i \in 1 .. 3 : <<a, b, c>>[i].op = "label" => i = 3
      BY <1>2, <2>2
    <2>4. QED
      BY <1>4, <2>1, <2>2, <2>3 DEF a, b, c
  <1>5. CASE ~rewrite
    <2>1. Ifne(l, rewrite) = <<d>>
      BY <1>3, <1>5
    <2>2. <<d>> \in Seq(Instructions) /\ Len(<<d>>) = 1 /\ <<d>>[1] = d
      BY <1>1
    <2>3. \A i \in 1 .. 1 : <<d>>[i].op # "label"
      BY <1>2, <2>2
    <2>4. QED
      BY <1>5, <2>1, <2>2, <2>3 DEF d
  <1>6. QED
    BY <1>4, <1>5

(* The test decides which edge is run. *)
LEMMA TestDecides ==
  ASSUME NEW l \in Labels, NEW rewrite \in BOOLEAN, code' \in Seq(Instructions),
         HasAt(code', 1, Ifne(l, rewrite)), NEW v,
         v # 0 => Arrives(l)', v = 0 => Edge(1 + Len(Ifne(l, rewrite)))',
         rewrite => \A k \in DOMAIN code' : code'[k] = label(Local("skip")) => k = 4
  PROVE  Decides(v)'
  <1> DEFINE I == Ifne(l, rewrite)
  <1>1. /\ rewrite => /\ Len(I) = 3 /\ I[1] = jump("ifeq", Local("skip"))
                      /\ I[2] = jump("goto", l) /\ I[3] = label(Local("skip"))
        /\ ~rewrite => Len(I) = 1 /\ I[1] = jump("ifne", l)
    BY IfneShape
  <1>2. 1 + Len(I) <= Len(code') /\ \A i \in 1 .. Len(I) : code'[1 + i] = I[i]
    BY DEF HasAt
  <1>3. Len(code') \in Nat /\ DOMAIN code' = 1 .. Len(code')
    BY CodeFacts
  <1> HIDE DEF I
  <1>4. CASE rewrite
    <2>1. Len(I) = 3 /\ 1 + 1 = 2 /\ 1 + 2 = 3 /\ 1 + 3 = 4
      BY <1>1, <1>4
    <2>2. code'[1 + 1] = I[1] /\ code'[1 + 2] = I[2] /\ code'[1 + 3] = I[3] /\ 1 + 3 <= Len(code')
      BY <1>2, <2>1
    <2>3. code'[2] = jump("ifeq", Local("skip")) /\ code'[3] = jump("goto", l) /\ code'[4] = label(Local("skip"))
      BY <1>1, <1>4, <2>1, <2>2
    <2>4. 2 \in DOMAIN code' /\ 4 \in DOMAIN code'
      BY <1>3, <2>2
    <2>5. LabelAt(Local("skip"), 4)'
      BY <1>4, <2>3 DEF LabelAt
    <2>6. IF v # 0 THEN Arrives(l)' ELSE Edge(4)'
      <3>1. 1 + Len(I) = 4
        BY <2>1
      <3>2. v = 0 => Edge(4)'
        BY <3>1 DEF I, Edge
      <3>3. QED
        BY <3>2
    <2>7. QED
      BY <2>3, <2>4, <2>5, <2>6 DEF Decides
  <1>5. CASE ~rewrite
    <2>1. Len(I) = 1 /\ 1 + 1 = 2
      BY <1>1, <1>5
    <2>2. code'[1 + 1] = I[1] /\ 1 + 1 <= Len(code')
      BY <1>2, <2>1
    <2>3. code'[2] = jump("ifne", l) /\ 2 \in DOMAIN code'
      BY <1>1, <1>3, <1>5, <2>1, <2>2
    <2>4. IF v # 0 THEN Arrives(l)' ELSE Edge(2)'
      <3>1. 1 + Len(I) = 2
        BY <2>1
      <3>2. v = 0 => Edge(2)'
        BY <3>1 DEF I, Edge
      <3>3. QED
        BY <3>2
    <2>5. QED
      BY <2>3, <2>4 DEF Decides
  <1>6. QED
    BY <1>4, <1>5


(* The code of a conditional branch leads to the edge that LLVM takes. *)
LEMMA BranchDecides ==
  ASSUME RegOK, \A r \in Reg : Agrees(r), NEW c \in Reg, NEW t \in Block, NEW f \in Block,
         NEW phis \in [Block -> EdgePhis], NEW rewrite \in BOOLEAN, NEW v \in {0, 1},
         target' = (IF v # 0 THEN t ELSE f), Legal(phis[target']), reg' = AfterPhis(phis[target']),
         fault' = IF ReadsEarlier(phis[target']) THEN "value" ELSE "none",
         code' = Branch(c, t, f, phis, rewrite)
  PROVE  code' \in Seq(Instructions) /\ code'[1] = load(c) /\ Decides(v)'
  <1> DEFINE G(b) == GotoCode(phis[b], b)
             a == load(c)
             e == label(Local("phi"))
  <1>1. \A b \in Block : /\ phis[b] \in EdgePhis /\ Goto(b, phis) = G(b)
                         /\ G(b) \in Seq(Instructions) /\ \A i \in 1 .. Len(G(b)) : G(b)[i].op # "label"
    BY GotoPlain DEF Goto, GotoCode
  <1>2. target' \in Block
    OBVIOUS
  <1>3. Len(code') \in Nat => \A o : HasAt(code', o, G(target')) => Edge(o)'
    <2> SUFFICES ASSUME Len(code') \in Nat, NEW o, HasAt(code', o, G(target')) PROVE Edge(o)'
      OBVIOUS
    <2>1. phis[target'] \in EdgePhis
      BY <1>1, <1>2
    <2>2. QED
      BY <1>2, <2>1, EdgeStarted
  <1>4. a \in Instructions /\ pop \in Instructions /\ e \in Instructions /\ a.op = "load" /\ e.op = "label"
    BY OpNames DEF Instructions
  <1>5. label(Local("skip")).op = "label" /\ e # label(Local("skip"))
    <2>1. label(Local("skip")).at = <<"skip", 0>> /\ e.at = <<"phi", 0>>
      BY DEF label, Local
    <2>2. <<"skip", 0>> # <<"phi", 0>>
      <3>1. <<"skip", 0>>[1] = "skip" /\ <<"phi", 0>>[1] = "phi"
        OBVIOUS
      <3>2. QED
        BY <3>1
    <2>3. QED
      BY <2>1, <2>2, OpNames
  <1>6. BlockLabel(t) \in Labels /\ Local("phi") \in Labels /\ Local("phi")[1] # "block"
    BY DEF Labels, Local
  <1> HIDE DEF a, e, G
  <1>7. CASE t = f
    <2> DEFINE w == <<pop>>
    <2>1. code' = <<a>> \o (w \o G(t)) /\ target' = t
      BY <1>1, <1>7 DEF Branch, a
    <2>2. w \in Seq(Instructions) /\ Len(w) = 1 /\ w[1] = pop
      BY <1>4
    <2> HIDE DEF w
    <2>3. /\ code' \in Seq(Instructions) /\ Len(code') = 1 + Len(w) + Len(G(t)) /\ Len(G(t)) \in Nat
          /\ code'[1] = a /\ HasAt(code', 1, w) /\ HasAt(code', 1 + Len(w), G(t))
      <3>1. G(t) \in Seq(Instructions) /\ w \in Seq(Instructions) /\ a \in Instructions
        BY <1>1, <1>4, <2>2
      <3>2. QED
        BY <2>1, <3>1, OneEdge
    <2>4. Len(code') \in Nat /\ DOMAIN code' = 1 .. Len(code')
      BY <2>3, CodeFacts
    <2>5. Edge(2)'
      BY <1>3, <2>1, <2>2, <2>3, <2>4
    <2>6. code'[2] = pop /\ 2 \in DOMAIN code'
      BY <2>2, <2>3, <2>4 DEF HasAt
    <2>7. Decides(v)'
      BY <2>5, <2>6 DEF Decides
    <2>8. QED
      BY <2>3, <2>7 DEF a
  <1>8. CASE t # f /\ phis[t] = << >>
    <2> DEFINE I == Ifne(BlockLabel(t), rewrite)
    <2>1. code' = <<a>> \o (I \o G(f))
      BY <1>1, <1>8 DEF Branch, a
    <2>2. I \in Seq(Instructions) /\ \A i \in 1 .. Len(I) : I[i].op = "label" => rewrite /\ i = 3
      BY <1>6, IfneShape
    <2> HIDE DEF I
    <2>3. /\ code' \in Seq(Instructions) /\ Len(I) \in Nat /\ Len(G(f)) \in Nat
          /\ code'[1] = a /\ HasAt(code', 1, I) /\ HasAt(code', 1 + Len(I), G(f))
          /\ \A k \in 1 .. Len(code') : \/ k = 1
                                        \/ \E i \in 1 .. Len(I) : k = 1 + i
                                        \/ \E i \in 1 .. Len(G(f)) : k = 1 + Len(I) + i
      <3>1. G(f) \in Seq(Instructions) /\ I \in Seq(Instructions) /\ a \in Instructions
        BY <1>1, <1>4, <2>2
      <3>2. QED
        BY <2>1, <3>1, OneEdge
    <2>4. Len(code') \in Nat /\ DOMAIN code' = 1 .. Len(code')
      BY <2>3, CodeFacts
    <2>5. v = 0 => Edge(1 + Len(I))'
      BY <1>3, <2>3, <2>4
    <2>6. v # 0 => Arrives(BlockLabel(t))'
      <3> SUFFICES ASSUME v # 0 PROVE Arrives(BlockLabel(t))'
        OBVIOUS
      <3>1. target' = t /\ phis[t] \in EdgePhis
        BY <1>1
      <3>2. Arrived(Held)'
        BY <1>8, <3>1, EmptyEdge
      <3>3. QED
        BY <3>1, <3>2 DEF Arrives
    <2>7. ASSUME NEW k \in DOMAIN code', code'[k] = label(Local("skip")) PROVE k = 4
      <3>1. code'[k].op = "label"
        BY <1>5, <2>7
      <3>2. k # 1
        BY <1>4, <2>3, <3>1
      <3>3. ~ \E i \in 1 .. Len(G(f)) : k = 1 + Len(I) + i
        BY <1>1, <2>3, <3>1 DEF HasAt
      <3>4. PICK i \in 1 .. Len(I) : k = 1 + i
        BY <2>3, <2>4, <3>2, <3>3
      <3>5. code'[k] = I[i]
        BY <2>3, <3>4 DEF HasAt
      <3>6. i = 3
        BY <2>2, <3>1, <3>4, <3>5
      <3>7. QED
        BY <3>4, <3>6
    <2>8. Decides(v)'
      BY <1>6, <2>3, <2>5, <2>6, <2>7, TestDecides DEF I
    <2>9. QED
      BY <2>3, <2>8 DEF a
  <1>9. CASE t # f /\ phis[t] # << >>
    <2> DEFINE I == Ifne(Local("phi"), rewrite)
    <2>1. code' = <<a>> \o (((I \o G(f)) \o <<e>>) \o G(t))
      BY <1>1, <1>9 DEF Branch, a, e
    <2>2. I \in Seq(Instructions) /\ \A i \in 1 .. Len(I) : I[i].op = "label" => rewrite /\ i = 3
      BY <1>6, IfneShape
    <2>3. rewrite => Len(I) = 3 /\ I[3] = label(Local("skip"))
      BY <1>6, IfneShape
    <2> HIDE DEF I
    <2>4. PICK m :
          /\ code' \in Seq(Instructions) /\ m = 2 + Len(I) + Len(G(f)) /\ Len(code') = m + Len(G(t))
          /\ Len(I) \in Nat /\ Len(G(f)) \in Nat /\ Len(G(t)) \in Nat
          /\ code'[1] = a /\ HasAt(code', 1, I) /\ HasAt(code', 1 + Len(I), G(f))
          /\ code'[m] = e /\ HasAt(code', m, G(t))
          /\ \A k \in 1 .. Len(code') : \/ k = 1 \/ k = m
                                        \/ \E i \in 1 .. Len(I) : k = 1 + i
                                        \/ \E i \in 1 .. Len(G(f)) : k = 1 + Len(I) + i
                                        \/ \E i \in 1 .. Len(G(t)) : k = m + i
      <3>1. G(f) \in Seq(Instructions) /\ G(t) \in Seq(Instructions) /\ I \in Seq(Instructions)
            /\ a \in Instructions /\ e \in Instructions
        BY <1>1, <1>4, <2>2
      <3>2. Placed(code', 2 + Len(I) + Len(G(f)), a, I, G(f), e, G(t))
        BY <2>1, <3>1, TwoEdges
      <3>3. QED
        BY <3>2 DEF Placed
    <2>5. m \in Nat /\ m >= 2
      BY <2>4
    <2>6. Len(code') \in Nat /\ DOMAIN code' = 1 .. Len(code') /\ m \in DOMAIN code'
      <3>1. Len(code') \in Nat /\ DOMAIN code' = 1 .. Len(code')
        BY <2>4, CodeFacts
      <3>2. QED
        BY <2>4, <2>5, <3>1
    <2>7. v = 0 => Edge(1 + Len(I))'
      BY <1>3, <2>4, <2>6
    <2>8. ASSUME NEW k \in DOMAIN code', code'[k].op = "label"
          PROVE  k = m \/ (rewrite /\ k = 4)
      <3>1. k # 1
        BY <1>4, <2>4, <2>8
      <3>2. ~ \E i \in 1 .. Len(G(f)) : k = 1 + Len(I) + i
        BY <1>1, <2>4, <2>8 DEF HasAt
      <3>3. ~ \E i \in 1 .. Len(G(t)) : k = m + i
        <4> SUFFICES ASSUME NEW i \in 1 .. Len(G(t)), k = m + i PROVE FALSE
          OBVIOUS
        <4>1. code'[m + i] = G(t)[i]
          BY <2>4 DEF HasAt
        <4>2. QED
          BY <1>1, <2>8, <4>1
      <3>4. k = m \/ \E i \in 1 .. Len(I) : k = 1 + i
        BY <2>4, <2>6, <3>1, <3>2, <3>3
      <3>5. CASE \E i \in 1 .. Len(I) : k = 1 + i
        <4>1. PICK i \in 1 .. Len(I) : k = 1 + i
          BY <3>5
        <4>2. code'[k] = I[i]
          BY <2>4, <4>1 DEF HasAt
        <4>3. rewrite /\ i = 3
          BY <2>2, <2>8, <4>1, <4>2
        <4>4. QED
          BY <4>1, <4>3
      <3>6. QED
        BY <3>4, <3>5
    <2>9. rewrite => code'[4] = label(Local("skip"))
      <3> SUFFICES ASSUME rewrite PROVE code'[4] = label(Local("skip"))
        OBVIOUS
      <3>1. 3 \in 1 .. Len(I) /\ 1 + 3 = 4
        <4>1. Len(I) = 3
          BY <2>3
        <4>2. QED
          BY <4>1
      <3>2. code'[1 + 3] = I[3]
        BY <2>4, <3>1 DEF HasAt
      <3>3. QED
        BY <2>3, <3>1, <3>2
    <2>10. LabelAt(Local("phi"), m)'
      <3>1. ASSUME NEW k \in DOMAIN code', code'[k] = e PROVE k = m
        BY <1>4, <1>5, <2>8, <2>9, <3>1
      <3>2. QED
        BY <2>4, <3>1 DEF LabelAt, e
    <2>11. v # 0 => Arrives(Local("phi"))'
      <3> SUFFICES ASSUME v # 0 PROVE Arrives(Local("phi"))'
        OBVIOUS
      <3>1. target' = t
        OBVIOUS
      <3>2. Edge(m)'
        BY <1>3, <2>4, <2>6, <3>1
      <3>3. QED
        BY <1>6, <2>6, <2>10, <3>2 DEF Arrives
    <2>12. ASSUME NEW k \in DOMAIN code', code'[k] = label(Local("skip")) PROVE k = 4
      BY <1>5, <2>4, <2>8, <2>12
    <2>13. Decides(v)'
      BY <1>6, <2>4, <2>7, <2>11, <2>12, TestDecides DEF I
    <2>14. QED
      BY <2>4, <2>13 DEF a
  <1>10. QED
    BY <1>7, <1>8, <1>9


(* The condition of a branch or a select. *)
LEMMA Condition ==
  ASSUME RegOK, NEW c \in Reg, Agrees(c), reg[c].ty = "i1"
  PROVE  reg[c].jvm = reg[c].llvm /\ reg[c].llvm \in {0, 1}
  <1>1. Width["i1"] = 1 /\ Pow2[1] = 2 /\ "i1" \in Types
    BY Widths, Pow2Facts DEF Types
  <1>2. reg[c].llvm \in 0 .. 2 - 1
    BY <1>1 DEF RegOK, Values
  <1>3. QED
    BY <1>2 DEF Agrees, Encoded

(* A conditional branch. *)
LEMMA CondBrInvariant == IInv /\ CondBr => IInv'
  <1> SUFFICES ASSUME IInv, CondBr PROVE IInv'
    OBVIOUS
  <1>1. RegOK /\ (\A r \in Reg : Agrees(r)) /\ stack = << >> /\ block \in Block
    BY BetweenFacts DEF CondBr
  <1>2. PICK c \in Reg, t \in Block, f \in Block, here \in EdgePhis, there \in EdgePhis :
          LET phis == [b \in Block |-> IF b = t THEN here ELSE there]
              b == IF reg[c].llvm = 1 THEN t ELSE f
          IN  /\ reg[c].ty = "i1" /\ Legal(here) /\ Legal(there)
              /\ \E rewrite \in BOOLEAN : Emit(Branch(c, t, f, phis, rewrite))
              /\ reg' = AfterPhis(phis[b]) /\ target' = b
              /\ fault' = IF ReadsEarlier(phis[b]) THEN "value" ELSE "none"
    BY DEF CondBr
  <1>3. PICK phis : phis = [b \in Block |-> IF b = t THEN here ELSE there]
    OBVIOUS
  <1>4. PICK v : v = reg[c].jvm
    OBVIOUS
  <1>5. v = reg[c].llvm /\ v \in {0, 1} /\ reg[c].ty = "i1"
    BY <1>1, <1>2, <1>4, Condition
  <1>6. /\ target' = (IF v # 0 THEN t ELSE f) /\ reg' = AfterPhis(phis[target']) /\ target' \in Block
        /\ fault' = IF ReadsEarlier(phis[target']) THEN "value" ELSE "none"
    BY <1>2, <1>3, <1>5
  <1>7. phis \in [Block -> EdgePhis] /\ Legal(phis[target'])
    BY <1>2, <1>3, <1>6
  <1>8. PICK rewrite \in BOOLEAN : Emit(Branch(c, t, f, phis, rewrite))
    BY <1>2, <1>3
  <1>9. code' = Branch(c, t, f, phis, rewrite) /\ ip' = 1 /\ stack' = stack /\ block' = block
    BY <1>8 DEF Emit
  <1>10. code' \in Seq(Instructions) /\ code'[1] = load(c) /\ Decides(v)'
    BY <1>1, <1>5, <1>6, <1>7, <1>9, BranchDecides
  <1>11. /\ RegOK' /\ HeldOK' /\ reg'[c].jvm = v
    <2>1. phis[target'] \in EdgePhis
      BY <1>6, <1>7
    <2>2. QED
      BY <1>1, <1>4, <1>6, <1>7, <2>1, AfterFacts
  <1>12. Len(code') \in Nat /\ DOMAIN code' = 1 .. Len(code')
    BY <1>10, CodeFacts
  <1>13. Testing'
    <2>1. Decides(reg[c].jvm)'
      BY <1>10, <1>11 DEF Decides
    <2>2. (ip = 1 /\ stack = << >> /\ code[1] = load(c) /\ reg[c].jvm \in {0, 1})'
      BY <1>1, <1>5, <1>9, <1>10, <1>11 DEF load
    <2>3. QED
      BY <2>1, <2>2 DEF Testing
  <1>14. ip' \in DOMAIN code'
    <2>1. 2 \in DOMAIN code'
      BY <1>10 DEF Decides
    <2>2. QED
      BY <1>9, <1>12, <2>1
  <1>15. fault' \in {"none", "value"}
    BY <1>6
  <1>16. InBranch'
    BY <1>11, <1>12, <1>13, <1>14, <1>15 DEF InBranch
  <1>17. QED
    BY <1>1, <1>6, <1>9, <1>11, <1>15, <1>16 DEF IInv

(* A select. *)
LEMMA StartSelectInvariant == IInv /\ StartSelect => IInv'
  <1> SUFFICES ASSUME IInv, StartSelect PROVE IInv'
    OBVIOUS
  <1>1. RegOK /\ (\A r \in Reg : Agrees(r)) /\ stack = << >> /\ block \in Block /\ block = target
    BY BetweenFacts DEF StartSelect
  <1>2. PICK c \in Reg, p \in Reg, q \in Reg :
          /\ reg[c].ty = "i1" /\ reg[p].ty = reg[q].ty
          /\ Emit(Select(c, p, q, reg[p].ty))
          /\ reg' = [reg EXCEPT !["x"] = [reg[IF reg[c].llvm = 1 THEN p ELSE q] EXCEPT !.jvm = reg["x"].jvm]]
    BY DEF StartSelect
  <1>3. fault' = "none" /\ target' = target
    BY DEF StartSelect
  <1>4. PICK s \in Reg : s = IF reg[c].llvm = 1 THEN p ELSE q
    OBVIOUS
  <1>5. reg[c].jvm = reg[c].llvm /\ reg[c].llvm \in {0, 1}
    BY <1>1, <1>2, Condition
  <1>6. /\ reg' = [reg EXCEPT !["x"] = [reg[s] EXCEPT !.jvm = reg["x"].jvm]] /\ reg[s].ty = reg[p].ty
        /\ s = IF reg[c].jvm # 0 THEN p ELSE q
    BY <1>2, <1>4, <1>5
  <1>7. /\ reg \in [Reg -> [ty : Types, llvm : Nat, jvm : Int]]
        /\ \A r \in Reg : reg[r].llvm \in Values(reg[r].ty)
        /\ "x" \in Reg /\ "y" \in Reg /\ \A r \in Reg : r = "x" \/ r = "y"
    BY <1>1 DEF RegOK, Reg
  <1>8. /\ reg'["x"] = [reg[s] EXCEPT !.jvm = reg["x"].jvm] /\ reg'["y"] = reg["y"]
        /\ reg' = [r \in Reg |-> reg'[r]]
    BY <1>6, <1>7
  <1>9. reg'["x"].ty = reg[s].ty /\ reg'["x"].llvm = reg[s].llvm /\ reg'["x"].jvm = reg["x"].jvm
        /\ reg'["x"] \in [ty : Types, llvm : Nat, jvm : Int]
    BY <1>7, <1>8
  <1>10. RegOK'
    BY <1>7, <1>8, <1>9 DEF RegOK
  <1>11. \A r \in Reg : reg'[r].jvm = reg[r].jvm
    BY <1>7, <1>8, <1>9
  <1>12. Agrees("y")'
    BY <1>1, <1>7, <1>8 DEF Agrees, Encoded
  <1>13. Encoded(reg["x"])' = reg[s].jvm
    BY <1>1, <1>9 DEF Agrees, Encoded
  <1>14. code' = Select(c, p, q, reg'["x"].ty) /\ ip' = 1 /\ stack' = stack /\ block' = block
    BY <1>2, <1>6, <1>9 DEF Emit
  <1>15. InSelect'
    <2> DEFINE want == Encoded(reg["x"])
    <2>1. (code = Select(c, p, q, reg["x"].ty))' /\ ip' \in 1 .. 8 /\ fault' = "none" /\ block' = target'
      BY <1>1, <1>3, <1>14 DEF Select, load, jump, label, store, Local
    <2>2. /\ stack' = << >> /\ reg'[c].jvm \in {0, 1}
          /\ reg'[IF reg'[c].jvm # 0 THEN p ELSE q].jvm = want'
      BY <1>1, <1>5, <1>6, <1>11, <1>13, <1>14
    <2>3. (CASE ip = 1 -> /\ stack = << >> /\ reg[c].jvm \in {0, 1}
                          /\ reg[IF reg[c].jvm # 0 THEN p ELSE q].jvm = want
             [] ip = 2 -> \E v \in {0, 1} : stack = <<v>> /\ reg[IF v # 0 THEN p ELSE q].jvm = want
             [] ip = 3 -> stack = << >> /\ reg[p].jvm = want
             [] ip \in {5, 6} -> stack = << >> /\ reg[q].jvm = want
             [] ip \in {4, 7, 8} -> stack = <<want>>)'
      BY <1>14, <2>2
    <2>4. QED
      BY <1>12, <2>1, <2>3 DEF InSelect
  <1>16. QED
    BY <1>1, <1>3, <1>10, <1>14, <1>15 DEF IInv

(* The values behind an indirect branch, which has no copies: they are right *)
(* when no PHI changes one.                                                  *)
LEMMA NoCopies ==
  ASSUME NEW phis \in EdgePhis, RegOK, \A r \in Reg : Agrees(r), Legal(phis), reg' = AfterPhis(phis)
  PROVE  (Held = Wanted)' <=> ~ \E i \in DOMAIN phis : Moves(phis[i])
  <1>1. /\ Held' = Held
        /\ \A i \in 1 .. Len(phis) : phis[i].src # "undef" => Wanted'[phis[i].dest] = Held[phis[i].src]
        /\ \A r \in Reg : (\A i \in 1 .. Len(phis) : phis[i].dest = r => phis[i].src = "undef")
                          => Wanted'[r] = Held[r]
    BY AfterFacts
  <1>2. /\ DOMAIN phis = 1 .. Len(phis)
        /\ \A i \in 1 .. Len(phis) : phis[i].dest \in Reg /\ phis[i].src \in Reg \cup {"undef"}
    BY PhiFacts
  <1>3. /\ Held = [r \in Reg |-> Held[r]] /\ Wanted' = [r \in Reg |-> Wanted'[r]]
        /\ \A r \in Reg : Held[r] = reg[r].jvm
    BY DEF Held, Wanted
  <1>4. ASSUME NEW i \in DOMAIN phis, Moves(phis[i]) PROVE Held' # Wanted'
    <2>1. phis[i].dest \in Reg /\ phis[i].src \in Reg /\ reg[phis[i].src].jvm # reg[phis[i].dest].jvm
          /\ phis[i].src # "undef"
      BY <1>2, <1>4 DEF Moves
    <2>2. Wanted'[phis[i].dest] = Held[phis[i].src]
      BY <1>1, <1>2, <2>1
    <2>3. QED
      BY <1>1, <1>3, <2>1, <2>2
  <1>5. ASSUME \A i \in DOMAIN phis : ~Moves(phis[i]) PROVE Held' = Wanted'
    <2>1. ASSUME NEW r \in Reg PROVE Wanted'[r] = Held[r]
      <3>1. CASE \E i \in 1 .. Len(phis) : phis[i].dest = r /\ phis[i].src # "undef"
        <4>1. PICK i \in 1 .. Len(phis) : phis[i].dest = r /\ phis[i].src # "undef"
          BY <3>1
        <4>2. phis[i].src \in Reg /\ Wanted'[r] = Held[phis[i].src]
          BY <1>1, <1>2, <4>1
        <4>3. phis[i].src = r \/ reg[phis[i].src].jvm = reg[r].jvm
          BY <1>2, <1>5, <4>1 DEF Moves
        <4>4. QED
          BY <1>3, <4>2, <4>3
      <3>2. QED
        BY <1>1, <3>1
    <2>2. QED
      BY <1>1, <1>3, <2>1
  <1>6. QED
    BY <1>4, <1>5

(* An indirect branch. *)
LEMMA StartIndirectBrInvariant == IInv /\ StartIndirectBr => IInv'
  <1> SUFFICES ASSUME IInv, StartIndirectBr PROVE IInv'
    OBVIOUS
  <1>1. RegOK /\ (\A r \in Reg : Agrees(r)) /\ stack = << >> /\ block \in Block
    BY BetweenFacts DEF StartIndirectBr
  <1>2. PICK b \in Block, phis \in EdgePhis, named \in BOOLEAN :
          /\ Legal(phis) /\ Emit(IndirectBr(b, named))
          /\ reg' = AfterPhis(phis) /\ target' = b
          /\ fault' = IF basicblock_map(b, named).block # b THEN "block"
                      ELSE IF \E i \in DOMAIN phis : Moves(phis[i]) THEN "value" ELSE "none"
    BY DEF StartIndirectBr
  <1>3. code' = IndirectBr(b, named) /\ ip' = 1 /\ stack' = stack /\ block' = block
    BY <1>2 DEF Emit
  <1>4. RegOK' /\ HeldOK'
    BY <1>1, <1>2, AfterFacts
  <1>5. (Held = Wanted)' <=> ~ \E i \in DOMAIN phis : Moves(phis[i])
    BY <1>1, <1>2, NoCopies
  <1>6. /\ fault' \in {"none", "value", "block"}
        /\ fault' = "none" => (Held = Wanted)'
        /\ fault' = "value" => (Held # Wanted)'
        /\ basicblock_map(b, named).block = b <=> fault' # "block"
    BY <1>2, <1>5
  <1>7. (code = IndirectBr(target, named))' /\ (basicblock_map(target, named).block = target <=> fault # "block")'
    BY <1>2, <1>3, <1>6 DEF IndirectBr, basicblock_map, push, lookupswitch
  <1>8. InSwitch'
    BY <1>1, <1>3, <1>4, <1>6, <1>7 DEF InSwitch
  <1>9. QED
    BY <1>1, <1>2, <1>3, <1>4, <1>6, <1>8 DEF IInv



-----------------------------------------------------------------------------
(* The theorems *)

(* Every step keeps the invariant. *)
LEMMA NextInvariant == IInv /\ [Next]_vars => IInv'
  <1> SUFFICES ASSUME IInv, [Next]_vars PROVE IInv'
    OBVIOUS
  <1>1. CASE Binary
    BY <1>1, BinaryInvariant
  <1>2. CASE Compare
    BY <1>2, CompareInvariant
  <1>3. CASE Cast
    BY <1>3, CastInvariant
  <1>4. CASE Bswap
    BY <1>4, BswapInvariant
  <1>5. CASE Br
    BY <1>5, BrInvariant
  <1>6. CASE CondBr
    BY <1>6, CondBrInvariant
  <1>7. CASE StartSelect
    BY <1>7, StartSelectInvariant
  <1>8. CASE StartIndirectBr
    BY <1>8, StartIndirectBrInvariant
  <1>9. CASE Push
    BY <1>9, PushInvariant
  <1>10. CASE Store
    BY <1>10, StoreInvariant
  <1>11. CASE Pop
    BY <1>11, PopInvariant
  <1>12. CASE Label
    BY <1>12, LabelInvariant
  <1>13. CASE If
    BY <1>13, IfInvariant
  <1>14. CASE GotoLabel
    BY <1>14, GotoInvariant
  <1>15. CASE Switch
    BY <1>15, SwitchInvariant
  <1>16. CASE UNCHANGED vars
    <2>1. UNCHANGED <<reg, code, ip, stack, block, target, fault>>
      BY <1>16 DEF vars
    <2>2. UNCHANGED <<code, reg, target, fault>>
      BY <2>1
    <2>3. /\ \A o : Edge(o)' <=> Edge(o)
          /\ \A l : Arrives(l)' <=> Arrives(l)
          /\ \A v : Decides(v)' <=> Decides(v)
          /\ \A h : Arrived(h)' <=> Arrived(h)
          /\ \A o, c, b : GotoAt(o, c, b)' <=> GotoAt(o, c, b)
          /\ Held' = Held /\ Wanted' = Wanted /\ HeldOK' = HeldOK /\ RegOK' = RegOK
      BY <2>2, SameEdge
    <2>4. Idle' <=> Idle
      BY <2>1, <2>3 DEF Idle
    <2>5. Testing' <=> Testing
      BY <2>1, <2>3 DEF Testing
    <2>6. Copying' <=> Copying
      BY <2>1, <2>3 DEF Copying
    <2>7. InBranch' <=> InBranch
      BY <2>1, <2>3, <2>5, <2>6 DEF InBranch
    <2>8. InSelect' <=> InSelect
      BY <2>1 DEF InSelect, Select, Agrees, Encoded
    <2>9. InSwitch' <=> InSwitch
      BY <2>1, <2>3 DEF InSwitch, IndirectBr, basicblock_map
    <2>10. QED
      BY <2>1, <2>3, <2>4, <2>7, <2>8, <2>9 DEF IInv
  <1>17. QED
    BY <1>1, <1>2, <1>3, <1>4, <1>5, <1>6, <1>7, <1>8, <1>9, <1>10, <1>11, <1>12, <1>13, <1>14, <1>15, <1>16
       DEF Next

(* Every reachable state of the emitted code satisfies the invariant. *)
THEOREM InvariantAlways == Spec => []IInv
  <1>1. QED
    BY InitInvariant, NextInvariant, PTL DEF Spec

(* printBasicBlock and what it calls: the values have the types and widths   *)
(* that the JVM computes with.                                               *)
THEOREM TypeCorrect == Spec => []TypeOK
  <1>1. QED
    BY InvariantAlways, InvariantImplies, PTL

(* For every choice of the widths, the constants and the PHIs, the JVM has   *)
(* LLVM's values after every instruction but the ones named in ValuesAgree,  *)
(* and after those it never has.                                             *)
THEOREM ValuesAreRight == Spec => []ValuesAgree
  <1>1. QED
    BY InvariantAlways, InvariantImplies, PTL

(* printBranchInstruction, rewriteBranch and printIndirectBr:                *)
(* control gets where LLVM's goes, but for an indirectbr among blocks        *)
(* without names.                                                            *)
THEOREM ControlIsRight == Spec => []ControlAgrees
  <1>1. QED
    BY InvariantAlways, InvariantImplies, PTL

(* Every block and instruction starts with an empty operand stack.           *)
THEOREM StackIsEmpty == Spec => []StackEmpty
  <1>1. QED
    BY InvariantAlways, InvariantImplies, PTL
=============================================================================
