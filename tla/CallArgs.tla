------------------------------ MODULE CallArgs ------------------------------
(***************************************************************************)
(* Arguments that travel through memory: the variadic arguments of a       *)
(* direct call, and all arguments of a call through a function pointer.    *)
(* The caller's side is emitted by JVMWriter.printOperandPack and runs     *)
(* Memory.pack once per argument; the callee's side is Memory.unpack, in   *)
(* the form Function.invoke uses for parameters and in the form va_arg of  *)
(* stdarg.h uses, or the code printVAArgInstruction emits for a va_arg     *)
(* instruction of the bitcode.                                             *)
(*                                                                         *)
(* An argument is known by its position and has a size; the bytes it is    *)
(* stored in are tagged with both.  Above the caller's stack pointer lie   *)
(* its locals.                                                             *)
(***************************************************************************)
EXTENDS Integers, Sequences

CONSTANTS
  Calls,          \* the calls of the program: [pointer, fixed, variadic, reader]
  MaxArgs,        \* bound on the arguments of a call
  StackPointer,   \* the caller's stack pointer
  LocalSize       \* bytes of the caller's locals above it

ALIGNMENT == 8
PointerSize == 4

ASSUME SizeAssumption ==
  MaxArgs \in Nat /\ LocalSize \in Nat /\ LocalSize >= 8 * MaxArgs

(* Whether through a pointer, the sizes of parameters, the sizes of        *)
(* variadic arguments after C's promotions, and how the callee reads them. *)
(* A direct call of a function without ... passes nothing in memory; a     *)
(* function with ... declares a parameter before it.                       *)
ASSUME CallAssumption ==
  /\ Calls \subseteq [pointer : BOOLEAN, fixed : Seq({1, 2, 4, 8}),
                      variadic : Seq({4, 8}), reader : {"unpack", "VAArg"}]
  /\ \A c \in Calls :
       /\ Len(c.fixed) + Len(c.variadic) <= MaxArgs
       /\ ~c.pointer \/ c.variadic # <<>> => c.fixed # <<>>

ASSUME StackAssumption ==
  StackPointer \in Nat /\ StackPointer % ALIGNMENT = 0
    /\ StackPointer >= 8 * MaxArgs

VARIABLES
  call,    \* the call that is made
  pc,      \* "pack", "params", "va_arg"; "refused" by the assembler
  block,   \* address of the block of packed arguments
  cursor,  \* next address: of pack, of unpack, or the va_list
  next,    \* position of the next argument
  mem,     \* tags of the bytes: [arg, byte]
  got      \* the arguments as the callee sees them; 0 is none of them

vars == <<call, pc, block, cursor, next, mem, got>>

Local == [arg |-> -1, byte |-> 0]
Unused == [arg |-> 0, byte |-> 0]
NoAddress == -1

Bytes == 0 .. StackPointer + LocalSize - 1

alignOffsetDown(offset, align) == offset - (offset % align)
alignOffsetUp_Next(offset, align) == alignOffsetDown(offset, align) + align
alignOffsetUp(offset, align) == alignOffsetDown(offset - 1, align) + align

args == call.fixed \o call.variadic

(* The first operand that is packed: a direct call passes its parameters   *)
(* as JVM operands.                                                        *)
FirstPacked == IF call.pointer THEN 1 ELSE Len(call.fixed) + 1

Sum(sizes) ==
  LET upTo[i \in 0 .. Len(sizes)] ==
        IF i = 0 THEN 0 ELSE upTo[i - 1] + sizes[i]
  IN upTo[Len(sizes)]

(* The size printOperandPack passes to allocateStack: no padding. *)
PackSize_ParamsOnly(c) == Sum(c.fixed)
PackSize(c) ==
  IF c.pointer THEN Sum(c.fixed \o c.variadic) ELSE Sum(c.variadic)

(* The instruction printOperandPack emits to push the size. *)
PushInstruction(size) == IF size < 256 THEN "bipush" ELSE "sipush"

(* The operands are a signed byte and a signed short: Jasmin refuses a     *)
(* larger one ("bipush value exceed size of byte"), and with it the class. *)
Assembles(size) ==
  CASE PushInstruction(size) = "bipush" -> size <= 127
    [] PushInstruction(size) = "sipush" -> size <= 32767

(* printOperandPack allocates the block; its address is the first the      *)
(* emitted code passes to pack.  A call whose code is refused never runs.  *)
Init ==
  /\ call \in Calls
  /\ pc = IF Assembles(PackSize(call)) THEN "pack" ELSE "refused"
  /\ block = alignOffsetDown(StackPointer - PackSize(call), ALIGNMENT)
  /\ cursor = block
  /\ next = FirstPacked
  /\ mem = [a \in Bytes |-> IF a >= StackPointer THEN Local ELSE Unused]
  /\ got = <<>>

(* pack: pad, store, return the address that follows. *)
PackNext ==
  LET at == alignOffsetUp(cursor, args[next]) IN
  /\ pc = "pack" /\ next <= Len(args)
  /\ mem' = [a \in Bytes |->
               IF at <= a /\ a < at + args[next]
               THEN [arg |-> next, byte |-> a - at] ELSE mem[a]]
  /\ cursor' = at + args[next]
  /\ next' = next + 1
  /\ UNCHANGED <<call, pc, block, got>>

(* The call.  Directly, the parameters are operands and the block is the   *)
(* last operand; through a pointer, the block is all invoke gets.          *)
Invoke ==
  /\ pc = "pack" /\ next > Len(args)
  /\ cursor' = block
  /\ IF call.pointer
     THEN pc' = "params" /\ got' = <<>>
     ELSE pc' = "va_arg" /\ got' = [i \in 1 .. Len(call.fixed) |-> i]
  /\ next' = Len(got') + 1
  /\ UNCHANGED <<call, block, mem>>

(* The argument a typed load finds at an address. *)
Loaded(at, size) ==
  LET found == {i \in 1 .. Len(args) :
                  \A b \in 0 .. size - 1 :
                    at + b \in Bytes /\ mem[at + b] = [arg |-> i, byte |-> b]}
  IN IF found = {} THEN 0 ELSE CHOOSE i \in found : TRUE

(* unpack for a list of types: one parameter of the method. *)
UnpackParam ==
  LET at == alignOffsetUp(cursor, args[next]) IN
  /\ pc = "params" /\ next <= Len(call.fixed)
  /\ got' = Append(got, Loaded(at, args[next]))
  /\ cursor' = at + args[next]
  /\ next' = next + 1
  /\ UNCHANGED <<call, pc, block, mem>>

(* The method starts.  That of a variadic function has one more parameter, *)
(* the address of its variadic arguments: unpack takes it from the block,  *)
(* where the caller has stored the first of these arguments itself.        *)
EnterCallee ==
  /\ pc = "params" /\ next > Len(call.fixed)
  /\ pc' = "va_arg"
  /\ cursor' = NoAddress
  /\ UNCHANGED <<call, block, next, mem, got>>

(* Where the next variadic argument is read: va_arg of stdarg.h aligns     *)
(* the va_list, a va_arg instruction takes it as it is.                    *)
ReadAt_AsIs(size) == cursor
ReadAt(size) ==
  IF call.reader = "unpack" THEN alignOffsetUp(cursor, size) ELSE cursor

VaArg ==
  /\ pc = "va_arg" /\ next <= Len(args)
  /\ IF cursor = NoAddress
     THEN got' = Append(got, 0) /\ UNCHANGED cursor
     ELSE LET at == ReadAt(args[next]) IN
          /\ got' = Append(got, Loaded(at, args[next]))
          /\ cursor' = at + args[next]
  /\ next' = next + 1
  /\ UNCHANGED <<call, pc, block, mem>>

Next == PackNext \/ Invoke \/ UnpackParam \/ EnterCallee \/ VaArg

Spec == Init /\ [][Next]_vars

-----------------------------------------------------------------------------
(* Properties *)

Tags == {Local, Unused} \cup [arg : 1 .. MaxArgs, byte : 0 .. 7]

(* Types; with its padding, an argument takes at most 8 bytes of the block. *)
TypeOK ==
  /\ call \in Calls
  /\ pc \in {"refused", "pack", "params", "va_arg"}
  /\ block \in 0 .. StackPointer
  /\ cursor \in {NoAddress} \cup block .. block + 8 * MaxArgs
  /\ next \in 1 .. MaxArgs + 1
  /\ mem \in [Bytes -> Tags]
  /\ got \in Seq(0 .. MaxArgs)

AllArguments == \A i \in 1 .. Len(got) : got[i] = i

(* The callee reads the arguments the caller packed, in their order, for   *)
(* every mixture of sizes: the padding printOperandPack's calls of pack    *)
(* insert is the padding that both forms of unpack skip.                   *)
UnpackedAsPacked ==
  /\ call.pointer /\ call.variadic = <<>> => AllArguments
  /\ ~call.pointer /\ call.reader = "unpack" => AllArguments

(* Packing writes only into the block allocated for it, so that no call    *)
(* changes the caller's locals.  (Not an invariant: the size of the block  *)
(* leaves out the padding.)                                                *)
LocalsKept == \A a \in Bytes : a >= StackPointer => mem[a] = Local

(* Packing larger arguments before smaller ones stays inside the block     *)
(* that was allocated for the sum of their sizes, however many they are,   *)
(* if the code is assembled at all: a sum from 128 to 255 is refused.      *)
DescendingKeepsLocals ==
  (\A i, j \in FirstPacked .. Len(args) : i <= j => args[i] >= args[j])
    => LocalsKept
=============================================================================
