----------------------------- MODULE Arithmetic -----------------------------
(***************************************************************************)
(* Integer arithmetic: what LLVM means by an instruction, and what the     *)
(* code emitted for it computes, with the methods of                       *)
(* llxvm.runtime.Instruction that it calls.                                *)
(*                                                                         *)
(* LLVM values are natural numbers below 2^width.  The JVM computes with   *)
(* signed int and long; a local variable holds the signed value, or 0 or 1 *)
(* for i1.  Widths are a parameter: only their order matters, and that the *)
(* distance of a 64-bit shift fits an int.                                 *)
(***************************************************************************)
EXTENDS Integers

CONSTANT Width   \* the bits of i1, i8, i16, i32, i64

Types == {"i1", "i8", "i16", "i32", "i64"}
Narrow == {"i8", "i16"}

Pow2[n \in 0 .. Width["i64"]] == IF n = 0 THEN 1 ELSE 2 * Pow2[n - 1]

ASSUME WidthAssumption ==
    /\ Width \in [Types -> Nat]
    /\ Width["i1"] = 1 /\ Width["i8"] > 1
    /\ Width["i8"] < Width["i16"] /\ Width["i16"] < Width["i32"] /\ Width["i32"] < Width["i64"]
    /\ Width["i64"] <= Pow2[Width["i32"]]

Values(ty) == 0 .. Pow2[Width[ty]] - 1

Bits(n, w) == n % Pow2[w]                                      \* n as w bits, unsigned
Wrap(n, w) == ((n + Pow2[w - 1]) % Pow2[w]) - Pow2[w - 1]      \* n as w bits, signed
Signed(ty, n) == Wrap(n, Width[ty])
Bool(b) == IF b THEN 1 ELSE 0

\* Division that rounds towards zero, with its remainder.
Quot(a, b) ==
    LET abs(n) == IF n < 0 THEN -n ELSE n
        q == abs(a) \div abs(b)
    IN  IF (a < 0) = (b < 0) THEN q ELSE -q
Rem(a, b) == a - b * Quot(a, b)

\* and, or, xor: bit by bit, over the lowest w bits.
BitwiseOps == {"and", "or", "xor"}
Bit(n, i) == (n \div Pow2[i]) % 2
OfBits(op, x, y) ==
    CASE op = "and" -> x * y
      [] op = "or" -> x + y - x * y
      [] op = "xor" -> (x + y) % 2
LowBits(op, a, b, w) ==
    LET low[n \in 0 .. w] ==
            IF n = 0 THEN 0 ELSE low[n - 1] + Pow2[n - 1] * OfBits(op, Bit(a, n - 1), Bit(b, n - 1))
    IN  low
Bitwise(op, a, b, w) == LowBits(op, a, b, w)[w]

-----------------------------------------------------------------------------
(* LLVM's meaning (external), over unsigned values of one type. *)

BinaryOps == {"add", "sub", "mul", "sdiv", "srem", "udiv", "urem",
              "shl", "lshr", "ashr", "smax"} \cup BitwiseOps

\* Neither undefined behaviour nor poison.
Defined(op, ty, a, b) ==
    /\ op \in {"sdiv", "srem", "udiv", "urem"} => b # 0
    /\ op \in {"sdiv", "srem"} => ~(Signed(ty, a) = -Pow2[Width[ty] - 1] /\ Signed(ty, b) = -1)
    /\ op \in {"shl", "lshr", "ashr"} => b < Width[ty]

LlvmBinary(op, ty, a, b) ==
    LET s(n) == Signed(ty, n)
    IN  Bits(CASE op = "add" -> a + b
               [] op = "sub" -> a - b
               [] op = "mul" -> a * b
               [] op = "sdiv" -> Quot(s(a), s(b))
               [] op = "srem" -> Rem(s(a), s(b))
               [] op = "udiv" -> a \div b
               [] op = "urem" -> a % b
               [] op \in BitwiseOps -> Bitwise(op, a, b, Width[ty])
               [] op = "shl" -> a * Pow2[b]
               [] op = "lshr" -> a \div Pow2[b]
               [] op = "ashr" -> s(a) \div Pow2[b]
               [] op = "smax" -> IF s(a) > s(b) THEN a ELSE b, Width[ty])

SignedPredicates == {"sgt", "sge", "slt", "sle"}
Predicates == {"eq", "ne", "ugt", "uge", "ult", "ule"} \cup SignedPredicates

Holds(p, a, b) ==
    CASE p = "eq" -> a = b
      [] p = "ne" -> a # b
      [] p \in {"sgt", "ugt"} -> a > b
      [] p \in {"sge", "uge"} -> a >= b
      [] p \in {"slt", "ult"} -> a < b
      [] p \in {"sle", "ule"} -> a <= b

LlvmCompare(p, ty, a, b) ==
    IF p \in SignedPredicates THEN Holds(p, Signed(ty, a), Signed(ty, b)) ELSE Holds(p, a, b)

LlvmCast(op, ty, src, a) ==
    IF op = "sext" THEN Bits(Signed(src, a), Width[ty]) ELSE Bits(a, Width[ty])

\* bswap, with bits for the bytes.
Reversed(a, w) ==
    LET rev[n \in 0 .. w] == IF n = 0 THEN 0 ELSE 2 * rev[n - 1] + Bit(a, n - 1)
    IN  rev
LlvmBswap(ty, a) == Reversed(a, Width[ty])[Width[ty]]

-----------------------------------------------------------------------------
(* The emitted code, over the values on the JVM's operand stack. *)

\* getBitWidth(ty, true): narrow types are computed with as int.
expanded(ty) == Width[IF ty = "i64" THEN "i64" ELSE "i32"]

\* printConstLoad, of an integer
printConstLoad(ty, a) == Signed(ty, a)

\* zext_i32 and zext_i64 of boolean, byte, short and int
zext(src, n) == Bits(n, Width[src])

\* Instruction.udiv and urem of byte, short and int, and of long, which has
\* no wider type to divide in.
UDivLong_NoShortcut(a, b) ==
    LET w == Width["i64"]
        half == Bits(a, w) \div 2
        hr == half \div b
        rem == Wrap(2 * (half - b * hr) + Bits(a, 1), w)
    IN  IF a >= 0 THEN IF b >= 0 THEN a \div b ELSE 0
        ELSE IF b < 0 THEN Bool(a >= b)
        ELSE Wrap(2 * hr + Bool(rem >= b), w)

UDivLong(a, b) ==
    LET w == Width["i64"]
        half == Bits(a, w) \div 2
        hr == half \div b
        rem == Wrap(2 * (half - b * hr) + Bits(a, 1), w)
    IN  IF a >= 0 THEN IF b >= 0 THEN a \div b ELSE 0
        ELSE IF b < 0 THEN Bool(a >= b)
        ELSE IF hr = 0 THEN 1
        ELSE Wrap(2 * hr + Bool(rem >= b), w)

URemLong(a, b) ==
    LET w == Width["i64"]
        half == Bits(a, w) \div 2
        hr == half \div b
        rem == Wrap(2 * (half - b * hr) + Bits(a, 1), w)
    IN  IF a >= 0 THEN IF b >= 0 THEN a % b ELSE a
        ELSE IF b < 0 THEN IF a >= b THEN a - b ELSE a
        ELSE IF hr = 0 THEN Wrap(a - b, w)
        ELSE IF rem >= b THEN rem - b ELSE rem

udiv(ty, a, b) ==
    IF ty = "i64" THEN UDivLong(a, b)
    ELSE Signed(ty, IF a >= 0 /\ b >= 0 THEN Quot(a, b) ELSE Quot(zext(ty, a), zext(ty, b)))

urem(ty, a, b) ==
    IF ty = "i64" THEN URemLong(a, b)
    ELSE Signed(ty, IF a >= 0 /\ b >= 0 THEN Rem(a, b) ELSE Rem(zext(ty, a), zext(ty, b)))

\* The JVM masks the distance of a shift; 64-bit distances go through l2i.
printArithmeticInstruction(op, ty, a, b) ==
    LET w == expanded(ty)
        d == Bits(b, Width["i32"]) % w
    IN  CASE op = "add" -> Wrap(a + b, w)
          [] op = "sub" -> Wrap(a - b, w)
          [] op = "mul" -> Wrap(a * b, w)
          [] op = "sdiv" -> Wrap(Quot(a, b), w)
          [] op = "srem" -> Rem(a, b)
          [] op = "udiv" -> udiv(ty, a, b)
          [] op = "urem" -> urem(ty, a, b)
          [] op \in BitwiseOps -> Wrap(Bitwise(op, Bits(a, w), Bits(b, w), w), w)
          [] op = "shl" -> Wrap(a * Pow2[d], w)
          [] op = "lshr" -> Wrap(Bits(a, w) \div Pow2[d], w)
          [] op = "ashr" -> a \div Pow2[d]
          [] op = "smax" -> IF a > b THEN a ELSE b

\* Instruction.icmp_*: unsigned, operands of different signs compare the other way.
icmp(p, a, b) ==
    IF p \in {"ugt", "uge", "ult", "ule"} /\ (a < 0) # (b < 0) THEN Holds(p, b, a) ELSE Holds(p, a, b)

\* i2b and i2s.  The type prefix of i1 is that of i8.
narrowed(ty, n) == IF ty \in {"i1", "i8"} THEN Wrap(n, Width["i8"])
                   ELSE IF ty = "i16" THEN Wrap(n, Width["i16"]) ELSE n

printCastInstruction_NoL2i(op, ty, src, n) ==
    CASE op = "sext" -> narrowed(src, n)
      [] op = "trunc" -> narrowed(ty, n)
      [] op = "zext" -> zext(src, n)

printCastInstruction(op, ty, src, n) ==
    CASE op = "sext" -> narrowed(src, n)
      [] op = "trunc" -> narrowed(ty, Wrap(n, Width["i32"]))
      [] op = "zext" -> zext(src, n)

\* printBitIntrinsic: the operand loaded is the parameter in the declaration of
\* llvm.bswap, whose variable printFunction sets to 0 and nothing else sets.
printBitIntrinsic(n) == 0

\* printValueStore: what is left of the value in the local variable.
printValueStore(ty, n) ==
    IF ty = "i1" THEN n % 2 ELSE IF ty \in Narrow THEN Signed(ty, n) ELSE n
=============================================================================
