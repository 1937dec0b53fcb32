----------------------------- MODULE StaticInit -----------------------------
(***************************************************************************)
(* Static data: the class initialiser that printClInit emits for every     *)
(* module, the function pointers of llxvm.runtime.Function, and the data   *)
(* segment they share, under the JVM's rules for initialising classes.     *)
(*                                                                         *)
(* A program gives each class the sequence of its globals.  A global is a  *)
(* sequence of fields and a field a sequence of scalars, so that a scalar, *)
(* a flat structure and a structure of structures can all be written.  A   *)
(* scalar has a size, its alignment, and an initialiser: null, a number,   *)
(* the address of a global or of a function.  A structure of either level  *)
(* may be packed.                                                          *)
(***************************************************************************)
EXTENDS Naturals, Sequences, FiniteSets, SequencesExt, FiniteSetsExt

CONSTANTS
    Programs,       \* the programs: class -> sequence of globals
    PackedGlobals,  \* the globals whose type is a packed structure
    PackedFields,   \* the fields whose type is one
    Methods         \* the static methods of a class

VARIABLES
    program,
    dataEnd,           \* Memory.dataEnd
    field,             \* class -> its static fields, 0 where not yet assigned
    status,            \* class -> "no", "running", "done": the JVM's record
    frames,            \* the initialisers being run, innermost last
    registeredClasses, functionPointers, functionObjects,
    stored             \* scalar -> [addr, value] written by an initialiser

vars == <<program, dataEnd, field, status, frames, registeredClasses,
          functionPointers, functionObjects, stored>>
registry == <<registeredClasses, functionPointers, functionObjects>>

ALIGNMENT == 8   \* Memory.ALIGNMENT

Classes == DOMAIN program

\* Map.put and Map.putAll: the entries of new replace those of map.
Put(map, new) ==
    [x \in DOMAIN map \cup DOMAIN new |-> IF x \in DOMAIN new THEN new[x] ELSE map[x]]

-----------------------------------------------------------------------------
(* Layout *)

\* An offset and an alignment are unsigned.
alignOffset == [p \in Nat \X Nat |-> LET n == p[1]
                                        align == p[2]
                                    IN  n + ((align - (n % align)) % align)]

\* LLVM's data layout: the parts of a structure, each with its size and
\* alignment, follow each other with padding in between, and the size of the
\* whole is a multiple of the strictest alignment.
StructAlign(parts) == Max({1} \cup {parts[i].align : i \in DOMAIN parts})
Ends(parts) == \* the end of each part
    LET end[i \in 0 .. Len(parts)] ==
            IF i = 0 THEN 0 ELSE alignOffset[end[i - 1], parts[i].align] + parts[i].size
    IN  end
StructSize(parts) == alignOffset[Ends(parts)[Len(parts)], StructAlign(parts)]

\* In a packed structure no part is aligned.
Packed(packed, parts) ==
    IF packed
    THEN [i \in DOMAIN parts |-> [size |-> parts[i].size, align |-> 1]]
    ELSE parts

\* A scalar is aligned to its size.
Scalars(f) == [l \in DOMAIN f |-> [size |-> f[l].size, align |-> f[l].size]]
Align(f) == StructAlign(Packed(f \in PackedFields, Scalars(f)))
SizeOf(f) == StructSize(Packed(f \in PackedFields, Scalars(f)))

Fields(g) == [k \in DOMAIN g |-> [size |-> SizeOf(g[k]), align |-> Align(g[k])]]
AllocSize(g) == StructSize(Packed(g \in PackedGlobals, Fields(g)))

\* printGepInstruction: the offset of part k, of field k, of scalar l of a
\* field, each aligned as its own type asks, in a packed structure too.
StructOffset_Packed(parts, k) ==
    LET offset[i \in 1 .. k] == IF i = 1 THEN 0 ELSE offset[i - 1] + parts[i - 1].size
    IN  offset[k]
StructOffset(parts, k) ==
    LET offset[i \in 1 .. k] ==
            IF i = 1 THEN 0 ELSE alignOffset[offset[i - 1] + parts[i - 1].size, parts[i].align]
    IN  offset[k]
FieldOffset(g, k) == StructOffset(Fields(g), k)
LeafOffset(f, l) == StructOffset(Scalars(f), l)

ASSUME MethodAssumption == IsFiniteSet(Methods)

IsSequence(s) == s \in Seq(Range(s))

\* Scalars have the sizes of Java's primitive types; an initialiser names
\* globals and functions of the program.
ASSUME ProgramAssumption ==
    \A p \in Programs : \A c \in DOMAIN p :
        /\ IsSequence(p[c])
        /\ \A g \in DOMAIN p[c] :
              /\ IsSequence(p[c][g])
              /\ \A k \in DOMAIN p[c][g] :
                    /\ IsSequence(p[c][g][k])
                    /\ \A l \in DOMAIN p[c][g][k] :
                          LET i == p[c][g][k][l].init
                          IN  /\ p[c][g][k][l].size \in {1, 2, 4, 8}
                              /\ i.is = "global" => i.class \in DOMAIN p /\ i.at \in DOMAIN p[i.class]
                              /\ i.is = "function" => i.class \in DOMAIN p /\ i.at \in Methods

-----------------------------------------------------------------------------
(***************************************************************************)
(* printStaticConstant: what is emitted for a constant.  A null value of   *)
(* any type is zeroed where the address stands; any other scalar is        *)
(* packed, which aligns it first.  The operations are grouped by field.    *)
(***************************************************************************)
IsNull(leaves) == \A l \in DOMAIN leaves : leaves[l].init.is = "null"

Zero(n) == [op |-> "zero", size |-> n]
Pack(k, l, s) == [op |-> "pack", size |-> s.size, init |-> s.init, at |-> <<k, l>>]

EmitField_Padded(k, f) ==
    IF IsNull(f) THEN <<Zero(SizeOf(f) + 4)>>
    ELSE [l \in DOMAIN f |-> IF f[l].init.is = "null" THEN Zero(f[l].size) ELSE Pack(k, l, f[l])]

EmitField(k, f) ==
    IF IsNull(f) THEN <<Zero(SizeOf(f))>>
    ELSE [l \in DOMAIN f |-> IF f[l].init.is = "null" THEN Zero(f[l].size) ELSE Pack(k, l, f[l])]

printStaticConstant(g) ==
    IF \A k \in DOMAIN g : IsNull(g[k]) THEN << <<Zero(AllocSize(g))>> >>
    ELSE [k \in DOMAIN g |-> EmitField(k, g[k])]

-----------------------------------------------------------------------------
(* A class with its initialiser's progress: first all globals are          *)
(* allocated, then all are initialised.                                    *)
Frame(c) == [class |-> c, phase |-> "allocate", global |-> 1,
             part |-> 1, op |-> 1, addr |-> 0]

Init ==
    /\ program \in Programs
    /\ dataEnd = ALIGNMENT           \* Memory.NULL takes the first block
    /\ field = [c \in Classes |-> [g \in DOMAIN program[c] |-> 0]]
    /\ status = [c \in Classes |-> "no"]
    /\ frames = << >>
    /\ registeredClasses = {}
    /\ functionPointers = << >>
    /\ functionObjects = << >>
    /\ stored = << >>

Top == frames[Len(frames)]
SetTop(fr) == frames' = [frames EXCEPT ![Len(frames)] = fr]

\* The first use of a class runs its initialiser (external: the JVM).  A
\* class whose initialiser is running in the same thread is used as it is.
Usable(c) == status[c] # "no"
Enter(c) ==
    /\ status[c] = "no"
    /\ status' = [status EXCEPT ![c] = "running"]
    /\ frames' = Append(frames, Frame(c))

\* main, or a call, a getstatic or a call through a pointer made by the program.
Use(c) ==
    /\ frames = << >> /\ Enter(c)
    /\ UNCHANGED <<program, dataEnd, field, registry, stored>>

\* Memory.allocateData: the end of the data segment after a block.
DataEndAfter_Unaligned(size) == dataEnd + size
DataEndAfter_RoundedDown(size) == ((dataEnd + size) \div ALIGNMENT) * ALIGNMENT
DataEndAfter(size) == alignOffset[dataEnd + size, ALIGNMENT]

AllocateGlobal ==
    /\ frames # << >> /\ Top.phase = "allocate" /\ Top.global <= Len(program[Top.class])
    /\ field' = [field EXCEPT ![Top.class][Top.global] = dataEnd]
    /\ dataEnd' = DataEndAfter(AllocSize(program[Top.class][Top.global]))
    /\ SetTop([Top EXCEPT !.global = @ + 1])
    /\ UNCHANGED <<program, status, registry, stored>>

StartInitialising_AfterFirst ==
    /\ frames # << >> /\ Top.phase = "allocate" /\ Top.global > 1
    /\ SetTop([Top EXCEPT !.phase = "initialise", !.global = 0])
    /\ UNCHANGED <<program, dataEnd, field, status, registry, stored>>

StartInitialising ==
    /\ frames # << >> /\ Top.phase = "allocate" /\ Top.global > Len(program[Top.class])
    /\ SetTop([Top EXCEPT !.phase = "initialise", !.global = 0])
    /\ UNCHANGED <<program, dataEnd, field, status, registry, stored>>

-----------------------------------------------------------------------------
(***************************************************************************)
(* Function.registerClass and getFunctionPointer.  Loading the class does  *)
(* not initialise it.  Java gives its methods in any order.                *)
(***************************************************************************)
Registered(c) == c \in registeredClasses

registerClass(c) ==
    IF Registered(c)
    THEN UNCHANGED <<dataEnd, registry>>
    ELSE \E order \in SetToSeqs(Methods) :
            LET addr(i) == dataEnd + (i - 1) * alignOffset[1, ALIGNMENT]
                pointers == [m \in {<<c, f>> : f \in Methods} |->
                                addr(CHOOSE i \in DOMAIN order : order[i] = m[2])]
            IN  /\ functionPointers' = Put(functionPointers, pointers)
                /\ functionObjects' =
                      Put(functionObjects, [a \in {pointers[m] : m \in DOMAIN pointers} |->
                                               CHOOSE m \in DOMAIN pointers : pointers[m] = a])
                /\ dataEnd' = addr(Len(order) + 1)
                /\ registeredClasses' = registeredClasses \cup {c}

\* The program takes the address of a function.
GetFunctionPointer(c) ==
    /\ frames = << >>
    /\ registerClass(c)
    /\ UNCHANGED <<program, field, status, frames, stored>>

-----------------------------------------------------------------------------
(* One operation of an initialiser. *)

Code == printStaticConstant(program[Top.class][Top.global])
Operation == Code[Top.part][Top.op]
BetweenGlobals ==
    frames # << >> /\ Top.phase = "initialise" /\ (Top.global > 0 => Top.part > Len(Code))

\* pop, and getstatic of the next global's own field.
StartGlobal ==
    /\ BetweenGlobals /\ Top.global < Len(program[Top.class])
    /\ SetTop([Top EXCEPT !.global = @ + 1, !.part = 1, !.op = 1,
                          !.addr = field[Top.class][Top.global + 1]])
    /\ UNCHANGED <<program, dataEnd, field, status, registry, stored>>

Running == frames # << >> /\ Top.phase = "initialise" /\ ~BetweenGlobals

\* The operation is done and leaves addr on the stack.
Advance(addr) ==
    SetTop(IF Top.op < Len(Code[Top.part])
           THEN [Top EXCEPT !.op = @ + 1, !.addr = addr]
           ELSE [Top EXCEPT !.part = @ + 1, !.op = 1, !.addr = addr])

\* Memory.zero: the data segment is already zero there, unless a packed
\* structure was written past its block; the address moves on.
ZeroBytes ==
    /\ Running /\ Operation.op = "zero"
    /\ Advance(Top.addr + Operation.size)
    /\ UNCHANGED <<program, dataEnd, field, status, registry, stored>>

\* Memory.pack
PackValue(value) ==
    LET addr == alignOffset[Top.addr, Operation.size]
        scalar == <<Top.class, Top.global>> \o Operation.at
    IN  /\ stored' = Put(stored, [x \in {scalar} |-> [addr |-> addr, value |-> value]])
        /\ Advance(addr + Operation.size)

PackNumber ==
    /\ Running /\ Operation.op = "pack" /\ Operation.init.is = "number"
    /\ PackValue(1)
    /\ UNCHANGED <<program, dataEnd, field, status, registry>>

PackGlobal ==
    /\ Running /\ Operation.op = "pack" /\ Operation.init.is = "global"
    /\ LET c == Operation.init.class
       IN  \/ /\ Usable(c)
              /\ PackValue(field[c][Operation.init.at])
              /\ UNCHANGED <<status, field>>
           \/ Enter(c) /\ UNCHANGED <<field, stored>>
    /\ UNCHANGED <<program, dataEnd, registry>>

PackFunction ==
    /\ Running /\ Operation.op = "pack" /\ Operation.init.is = "function"
    /\ LET i == Operation.init
       IN  /\ registerClass(i.class)
           /\ PackValue(functionPointers'[<<i.class, i.at>>])
    /\ UNCHANGED <<program, field, status>>

Return ==
    /\ BetweenGlobals /\ Top.global = Len(program[Top.class])
    /\ status' = [status EXCEPT ![Top.class] = "done"]
    /\ frames' = Front(frames)
    /\ UNCHANGED <<program, dataEnd, field, registry, stored>>

Step ==
    \/ AllocateGlobal \/ StartInitialising \/ StartGlobal
    \/ ZeroBytes \/ PackNumber \/ PackGlobal \/ PackFunction
    \/ Return

Next == Step \/ \E c \in Classes : Use(c) \/ GetFunctionPointer(c)

Spec == Init /\ [][Next]_vars

-----------------------------------------------------------------------------
\* The initialisers' progress and the records of the runtime are well formed.
TypeOK ==
    /\ dataEnd \in Nat /\ dataEnd % ALIGNMENT = 0
    /\ \A c \in Classes : field[c] \in [DOMAIN program[c] -> 0 .. dataEnd]
    /\ status \in [Classes -> {"no", "running", "done"}]
    /\ ToSet([i \in DOMAIN frames |-> frames[i].class]) = {c \in Classes : status[c] = "running"}
    /\ DOMAIN functionPointers = registeredClasses \X Methods
    /\ \A a \in DOMAIN functionObjects : a < dataEnd

InitOf(scalar) == program[scalar[1]][scalar[2]][scalar[3]][scalar[4]].init

(***************************************************************************)
(* Every address an initialiser has stored is the address its target has   *)
(* ever after: classes whose globals point at each other find each other's *)
(* fields assigned, whichever is used first, and a function has the one    *)
(* pointer, through which it is found again.                               *)
(***************************************************************************)
PointersResolved ==
    \A x \in DOMAIN stored :
        LET i == InitOf(x)
            v == stored[x].value
        IN  /\ i.is = "global" => v = field[i.class][i.at] /\ v # 0
            /\ i.is = "function" => v = functionPointers[<<i.class, i.at>>] /\ functionObjects[v] = <<i.class, i.at>>

Allocated == {p \in UNION {{c} \X DOMAIN program[c] : c \in Classes} : field[p[1]][p[2]] # 0}
Blocks ==
    {<<field[p[1]][p[2]], AllocSize(program[p[1]][p[2]])>> : p \in Allocated}
    \cup {<<a, 1>> : a \in DOMAIN functionObjects}

(***************************************************************************)
(* Globals that occupy bytes and functions never share an address, however *)
(* the allocations of nested initialisers and of registrations interleave  *)
(* in the one data segment, and none of them is at the null pointer.       *)
(***************************************************************************)
AddressesApart ==
    /\ \A b, d \in {x \in Blocks : x[2] > 0} :
          b # d => b[1] + b[2] <= d[1] \/ d[1] + d[2] <= b[1]
    /\ \A b \in Blocks : b[1] >= ALIGNMENT /\ b[1] + b[2] <= dataEnd
    /\ Cardinality(DOMAIN functionObjects) = Cardinality(DOMAIN functionPointers)

\* No structure of the global is packed.
Natural(g) == g \notin PackedGlobals /\ \A k \in DOMAIN g : g[k] \notin PackedFields

BlockEnd(c, g) == field[c][g] + AllocSize(program[c][g])

(***************************************************************************)
(* An initialiser writes only into the block of its own global, although   *)
(* it moves from scalar to scalar by other rules than those by which the   *)
(* block was sized, unless a structure in it is packed.                    *)
(***************************************************************************)
StaysInBlock ==
    \A i \in DOMAIN frames :
        LET fr == frames[i]
        IN  fr.phase = "initialise" /\ fr.global > 0 /\ Natural(program[fr.class][fr.global]) =>
                fr.addr <= BlockEnd(fr.class, fr.global)

Flat(g) == \A k \in DOMAIN g : Len(g[k]) = 1
Dense(parts) == \* no padding before a part
    \A i \in DOMAIN parts : alignOffset[Ends(parts)[i - 1], parts[i].align] = Ends(parts)[i - 1]
NoPadding(g) == \* none before a scalar or behind the last one of a field
    /\ Dense(Fields(g))
    /\ \A k \in DOMAIN g : Dense(Scalars(g[k])) /\ SizeOf(g[k]) = Ends(Scalars(g[k]))[Len(g[k])]
NoNull(g) == \A k \in DOMAIN g : \A l \in DOMAIN g[k] : g[k][l].init.is # "null"

AddressOf(c, g, k, l) ==
    field[c][g] + FieldOffset(program[c][g], k) + LeafOffset(program[c][g][k], l)

\* The program reads a scalar at the address getelementptr computes: what
\* was stored for it is there, and nothing else over it.
ReadsAsWritten(c, g, k, l) ==
    LET s == program[c][g][k][l]
        a == AddressOf(c, g, k, l)
        mine == <<c, g, k, l>>
    IN  /\ s.init.is # "null" => mine \in DOMAIN stored /\ stored[mine].addr = a
        /\ \A x \in DOMAIN stored \ {mine} :
              LET size == program[x[1]][x[2]][x[3]][x[4]].size
              IN  stored[x].addr + size <= a \/ a + s.size <= stored[x].addr

(***************************************************************************)
(* Static data is found where it was put, in a program without packed      *)
(* structures, in these cases: the global has no padding inside, or is a   *)
(* flat structure (or array) with no null scalar.                          *)
(* Elsewhere it may not be: null values are stored without alignment and   *)
(* the padding at the end of an inner structure is not skipped, so that    *)
(* {1, 0, 7} of types char, int, char has its 7 at offset 5, not 8.        *)
(***************************************************************************)
PlainDataReadable ==
    (\A c \in Classes : \A g \in DOMAIN program[c] : Natural(program[c][g])) =>
    \A c \in Classes : \A g \in DOMAIN program[c] :
        LET v == program[c][g]
        IN  status[c] = "done" /\ (NoPadding(v) \/ (Flat(v) /\ NoNull(v))) =>
                \A k \in DOMAIN v : \A l \in DOMAIN v[k] : ReadsAsWritten(c, g, k, l)
=============================================================================
