# LLXVM in TLA+

LLXVM translates LLVM bitcode to JVM (and, experimentally, CIL) classes and
supplies the runtime those classes call: a byte-addressed memory on top of
Java buffers, setjmp/longjmp, a registry of function pointers, POSIX file
descriptors.  This directory holds TLA+ models of its core logic, TLC
configurations that check them on small instances, and TLAPS proofs of the
main results for every value of the constants.

Paths are relative to `src/`; `RT` is `runtime/java/src/llxvm`, `CC` is
`llxvm-cc`.

## 1. The system and its parts

| Part | State it keeps | Operations | What makes it correct |
|---|---|---|---|
| Memory (`RT/runtime/Memory.java`) | page table, `dataEnd`, `heapEnd`, `framePointer`, `stackPointer`, `stackDepth`, contents | create/destroy stack frames, allocate in stack and data, `sbrk`, load/store, pack/unpack, block copies | live objects never overlap, each frame finds its caller's frame pointer, no fault inside what the program owns |
| Jump (`RT/runtime/Jump.java`) with the compiled function protocol (`CC/backend-jvm/jvm_function.cpp`, `jvm_block.cpp`) | `numJumps`, jmp_buf contents, a register per setjmp site, the exception in flight | setjmp, longjmp, catch or pass on, return, exit | a jump resumes where the C program asked, with exactly the frames of that activation |
| Variable arguments (`printOperandPack`, `Memory.pack`, `Memory.unpack`) | the argument block | pack at the call, unpack in `va_arg` or `Function.invoke` | the callee reads what the caller wrote; the block is large enough |
| IO (`RT/runtime/IO.java`, `RT/io/*`) | descriptor table, file handles, positions | open, close, read, write, lseek | a descriptor names one open handle until closed |
| Function (`RT/runtime/Function.java`) | two maps name <-> pointer, registered classes | register, get pointer, invoke | one pointer per function, a pointer always invokes the function it was made for |
| System, Posix, Error (`RT/runtime`) | environment, errno, exit mode | exit, getenv, errno, time | |
| Static data (`printClInit`, `printStaticConstant`, `printGepInstruction`) | the static fields of each class, the data segment | allocate, initialise, read | each class finds the others' addresses final, data is read where it was written |
| Instruction, Math | none | arithmetic the JVM lacks (unsigned, shifts, bit counts) | agrees with LLVM's definition at every width |
| JVM backend (`CC/backend-jvm`) | register numbering, labels, names | one emitter per LLVM construct | the emitted code computes what the bitcode means |
| CIL backend (`CC/backend-cil`), .NET runtime | as the JVM backend | as the JVM backend | pre-alpha |
| Jasmin linker (`CC/jlinker`) | class, method and field maps | scan, resolve externals, rewrite | every external reference is replaced by the class that defines it |
| Class reader (`CC/jreflect`) | | read jar and class files | |
| Driver (`CC/main.cpp`, `JvmAsmDriver.cpp`, `CILAsmDriver.cpp`) | list of files between stages, temporaries | compile, link, assemble | each stage consumes what the one before produced |
| newlib (`runtime/libc`), `zip`, `dotnetpelib`, `popl` | | | vendored |

How they interact.  A compiled C function is one static Java method.  It calls
`Memory.createStackFrame` on entry, `Memory.destroyStackFrame` before each
return, and `Memory.allocateStack` for locals and argument blocks.  `malloc`
of newlib sits on `sbrk`.  `longjmp` shortens the frame stack of `Memory` and
throws a Java exception, so that two stacks, the JVM's and Memory's, must be
brought back into step by code in two languages.  `_exit` may throw instead of
ending the JVM, and leaves Memory's stack as it is.  All of this runs in one
Java thread; what is hard is not concurrency but long legal sequences of
calls, limits nobody checks, 32-bit wrap-around, and two-sided protocols (the
emitting compiler and the runtime) each half of which looks right alone.

A compiled module is one Java class.  Its initialiser allocates its globals and
stores addresses of other classes' globals and functions, which makes the JVM
run the other initialisers in the middle of it.  The compiler is a pipeline of
stages that hand each other files in the current directory, under names that
other runs use as well; each may fail, and one of them is the linker, which
chooses the class behind every external name.

## 2. Modules

Each module describes one component; its comments give the abstraction, and
`map` in `PROJECT.json` gives the source lines of each definition.  Operators
whose name continues another one's after an underscore or with a few words
(`Close_Forgets`, `SavedSlotMidWord`) are plausible mistakes in that
definition.  They take no part in any specification; they show that the
properties notice such a mistake.

### Memory, ObjectStore (proofs: MemoryProofs)

`Memory` models `llxvm.runtime.Memory` with the fields' own names.  Addresses
are byte addresses, so that alignment, padding, pages and limits are those of
the code; contents are kept per 32-bit word, because the only values the
runtime itself keeps in memory are the saved frame pointers.  One action per
method: `CreateStackFrame`, `ReturnFromFunction` (`destroyStackFrame` in the
epilogue of a compiled function), `DestroyStackFrames` and `DestroyNext` (the
loop of `destroyStackFrames`, one iteration a step), `AllocateStack`,
`AllocateData`, `Sbrk`, `Store`.  A refused `sbrk` sets `errno` and changes
nothing else, hence it is a stuttering step.  A `SegmentationFault` leaves
`status = "segv"` with whatever the method had assigned before it was thrown.

Two variables are history: `frames` (what the program was given, frame by
frame) and `overrun` (whether data or stack ever exceeded its reserved space).
The compiled program is the environment.  It may do anything a C program may:
call, return, jump over frames, allocate, move the break, and store into
words it owns.

`ObjectStore` is the abstract specification: separate objects, a sequence of
frames, contents that change only by a store to the object.  `Memory` maps to
it by taking the contents of what the program owns; the promise ends with
`overrun`.

### Jump (proofs: JumpProofs)

`Jump` composes `llxvm.runtime.Jump` with the two stacks it has to keep in
step: the Java stack (`acts`: a record per method with its setjmp registers)
and Memory's (`frames`).  Frames are the sequence that `ObjectStore` shows
Memory to provide.  `Call` and `Return` are the prologue and epilogue that
`printFunction` and `printInstruction` emit, `Setjmp` the call with the code
around it that keeps the ID in the site's register, `Longjmp` the Java method,
`CatchJump`, `PropagateJump` the emitted handler, `LeaveMain` the Java main
method, `Exit` `_exit` with `throwExit`, which ends all methods, destroys no
frame and lets the host call main again.  `numActs`, `base`, `setter` and two
fields of `jump` are history.

### CallArgs (proofs: CallArgsProofs)

One call, from `printOperandPack` to the last `va_arg`.  The initial state
chooses the call from the constant `Calls`: direct or through a pointer, the
sizes of parameters and of variadic arguments, the way the callee reads.
`PushInstruction` is the instruction that pushes the block's size; where its
signed operand cannot hold the size (`Assembles`), Jasmin refuses the class and
the call is never made.  `PackNext` is one emitted
`Memory.pack`, `Invoke` the call, `UnpackParam` one step of `unpack(int,
Class[])` in `Function.invoke`, `EnterCallee` its last parameter, `VaArg` either
`unpack(int, int)` behind `stdarg.h` or the code of a `va_arg` instruction.  A
value is a tag on each byte it occupies, so that a load finds the argument only
if it reads exactly those bytes.

### IO (proofs: IOProofs)

The descriptor table of `llxvm.runtime.IO`, the handles of `llxvm.io`, and the
files behind `java.io` (external: `NewFile`, `Permitted`, `Written`).  `Open`
with its branches follows `IO.open`, `NativeFileSystem.open` and the
constructor of `RandomAccessFileHandle`; `ReadFile`, `WriteFile`, `Seek`,
`Close`, `Exit`, `Rename` and `Unsupported` (link, unlink) are the other
calls; `Refuse...` are their early returns.  `Escape` is a call with a
descriptor that names no handle, which ends in a Java exception.  `Failures`
says which calls of `java.io` may throw; a read or write may throw after any
number of bytes.  `TruncateThrows` is an open whose `truncate(0)` throws when
the `RandomAccessFile` is open already: `NativeFileSystem` makes an `EACCES` of
it, no handle is returned and nothing closes the file.  The bytes of a file are
tagged with the handle that wrote them; `trunc` and `returned` are history.

### StaticInit (proofs: StaticInitProofs)

The class initialisers that `printClInit` emits, with `Function.registerClass`
and `Memory.allocateData`, under the JVM's rule that the first use of a class
runs its initialiser and a class already being initialised by the same thread
is used as it is (`Usable`, `Enter`, `Use`: external).  `frames` are the
initialisers in progress, each with the position in its emitted code: the
global, the field of it (`part`) and the operation in that field (`op`), which
`Advance` moves on. `AllocateGlobal`, `StartInitialising`, `StartGlobal`,
`ZeroBytes`, `PackNumber`, `PackGlobal`, `PackFunction` and `Return` are the
steps of that code; `GetFunctionPointer` is the call by the running program.  A
global is a structure of structures of scalars, each packed or not
(`PackedGlobals`, `PackedFields`).  Its size is LLVM's (`AllocSize`), which for
a packed structure has no padding (`Packed`); its contents are placed by
`printStaticConstant` and `Memory.pack`, which do not ask whether a structure
is packed, and it is read at the offsets of `printGepInstruction`
(`StructOffset`, used for the fields of a global and for the scalars of a
field): the three rules are kept apart, as in the code.

### Arithmetic, Backend (proofs: BackendProofs)

`Arithmetic` has, for each integer instruction, LLVM's meaning (`Llvm...`,
external) and what the emitted code computes with `llxvm.runtime.Instruction`.
The bit widths of the five types are a constant; only their order is assumed,
and that the distance of a 64-bit shift fits an int.
`Backend` runs both side by side on two live values.  `Binary`, `Compare`,
`Cast` and `Bswap` are single steps.  `Br`, `CondBr`, `StartSelect` and
`StartIndirectBr` take LLVM's step at once and put the emitted sequence in
`code`, which `Push`, `Store`, `Pop`, `Label`, `If`, `GotoLabel` and `Switch`
then run with an operand stack.  `fault` names what the last instruction is known to
compute wrongly ("value", "block"), or may ("perhaps"); a run is followed to the
first difference.  The properties say "wrong if and only if", so that neither
a new fault nor a mended one goes unnoticed.  `printSwitchInstruction` is not
modelled because `createLowerSwitchPass` runs before the backend.

### Linker, Driver (proofs: DriverProofs)

`Linker` is `JasminLinker` as functions: the orders in which libraries are
read, the map from symbols to classes, what a link resolves.  The maps that the
code fills entry by entry, later entries over earlier ones, are given in closed
form: the entry of the last library, or the last class by name, that has the
symbol.

`Driver` models `main.cpp` and the two assembler drivers over the files of one
directory.  A user runs the driver again and again, with any of a set of
command lines, and edits sources in between.  `PERFORM_OPT_STEP` is `Skip`,
`AfterStep` and `FailStep`; the stages are `CompileNext`/`CompileDone` (one
file a step), `Merge`, `CheckOptions`, `GenerateAsm`, `LinkAsm`, `BuildObject`,
`Clean`, each with its failures: a refused argument, a tool that fails, a
backend that ends the process half way through its output (`Unfinished`).
Contents of files are reduced to the source versions they were made from, the
class and the resolved references.

## 3. Runs

| Run | Instance | Checks | Result |
|---|---|---|---|
| `memory` | 96 bytes: 16 data, 32 stack; pages of 16; 3 frames; blocks of 12 bytes; increments -2^(w-1), -24, 0, 24, 2^(w-1)-1; followed past the limits | `TypeOK`, `FrameChain`, `FrameLayout`, `FaultMeansOverrun`, `HeapMapped`, `ImplementsObjectStore`, `SbrkExact` | pass |
| `memory_limits` | the same memory, the break moved at once | `SegmentsApart` | violated |
| `jump` | 2 functions (2 setjmp sites and none), 2 jmp_bufs | `TypeOK`, `FramesMatch`, `ResumesAtTarget`, `HeldJumpNotLost`, `UnwindingEnds` | pass |
| `jump_live` | the same | `LiveJumpNotLost` | violated |
| `call_args` | all calls with up to 4 arguments, and calls with 15 to 33 | `TypeOK`, `UnpackedAsPacked`, `DescendingKeepsLocals` | pass |
| `call_locals` | the same | `LocalsKept` | violated |
| `io_table` | table of 5, 2 paths, opens, truncations and closes that fail | `TypeOK`, `OpenHandlesReachable`, `ExitClosesAll`, `DescriptorNeverReused`, `FailedOpenLeavesFiles` | pass |
| `io_transfer` | 2 handles, 2 files, truncations, reads, writes, seeks that fail | `BytesChangeUnderOffset` | pass |
| `driver` | 2 sources, 3 jars, 2 directories of jars, 34 command lines, 4 runs, 1 edit | `TypeOK`, `OutputFromInputs`, `OnlyLeftovers`, `InputsKept`, `JFilesLinked`, `LinkOrderIrrelevant`, `LinkFailureExplained` | pass |
| `driver_dry` | as `driver`, 3 runs | `DryRunPrintsOnly` | violated |
| `static_init` | 1 class with any structure, packed or not, or 2 classes that point at each other | `TypeOK`, `PointersResolved`, `AddressesApart`, `StaysInBlock`, `PlainDataReadable` | pass |
| `backend` | widths 1, 2, 3, 4, 6, all values; PHIs of two values | `TypeOK`, `ValuesAgree`, `ControlAgrees`, `StackEmpty` | pass |

What the violated ones show (details under `findings` in `PROJECT.json`):

- `memory_limits`: neither `allocateStack` nor `allocateData` compares with the
  space reserved for its segment; the block lies in the heap, silently.
- `jump_live`: a setjmp call site remembers the ID of its latest call only.  A
  `longjmp` with a jmp_buf filled earlier at the same site leaves main as an
  uncaught exception, though the function is still running.
- `call_locals`: the argument block is as large as the sum of the sizes, while
  `pack` pads.  `int, double, int` needs 20 bytes of a 16-byte block.
- `driver_dry`: a dry run "only prints commands", but the link and the
  assembler are carried out on what earlier runs left.

What the passing runs of the larger modules show:

- `driver`: a run that exits with 0 has made its output from its own inputs,
  whatever earlier runs left or failed at, apart from dry runs, links of `.j`
  files and CIL links.  No `.j` file with open references is ever left.  No run
  loses an input or a `.j` library, except where its own link writes that file.
  Which class a symbol is resolved to depends on the order of libraries only
  where two jars hold a class of the same name, or two `.j`
  libraries define the same symbol for different classes: then the one read
  last counts.  A link fails only for reasons the property names.
- `io_table`: a file that is open has a descriptor, and is closed by exit,
  unless the table was full when it was opened or its `truncate(0)` threw.
- `static_init`: circular references between classes are resolved, since each
  initialiser allocates everything before it stores anything.  Data is read
  back as written where the structure has no padding before a scalar or behind
  the last one of a field, or is flat without null parts; nothing but packed
  structures is ever written outside its block.
- `backend`: the emitted integer code agrees with LLVM but for the cases that
  `ValuesAgree` and `ControlAgrees` list.

Bounds.  `memory`: the stack of 32 bytes holds four 8-byte slots, so two
frames and a block of 12 bytes, which needs padding, fill it and anything more
exceeds it; the words stored to lie in data, heap and blocks, beside the slots
of saved frame pointers. `INT_MAX` is 2 * `MEM_SIZE` - 1, as with 1 GiB and 32
bits. The heap has three pages, so that the break stops inside a page, on a
boundary, goes down and up again. `MaxDepth`, `DataLimit`, `StackLimit` and
`FollowOverrun` cut the exploration only. `jump`: three methods are the least
in which a jump passes one method and stops in another; `MaxActs` 4 allows a
second activation of a function at the depth of one that has ended, `MaxJumps`
3 allows a site to fill two buffers and a third call. `call_args`: four
arguments give every order of the four sizes; padding depends only on sizes
before it, modulo 8; the long calls have blocks on both sides of 128 and of 256
bytes, where the pushing instruction and what it can push change.
`io_*`: two free entries suffice for a closed one below an open one; `INT_MAX`
is 2 so that an offset can pass it; `MaxHandles` exceeds the table by one,
`MaxFiles`, `MaxLength` and `MaxOps` keep the run finite.  The paths are
interchangeable, which both runs use as a symmetry.
`driver`: four runs suffice for a build, a single step on its leftovers, a
failure of it, and a build after that; a version bump in between tells an old
file from a new one; the jars give one symbol from two classes and one class
from two jars; four runs also suffice to build two classes that keep their `.j`
files and link a third program against both.  `static_init`: three scalars of
sizes 1, 4 and 8 give every padding between two and after the last; two classes
with two globals each give every circle of length one and two.  `backend`: five
distinct widths make every extension, truncation and masked distance differ; 2
bits is the least with a negative value beside its minimum; all values of all
types are tried, and two PHIs are the least that can read each other.

Deadlock is not checked: a program may stop at any point, by a fault, by exit,
by a Jump that leaves main, or by returning, and the bounds stop the rest.

Fairness.  `Jump` assumes weak fairness of `Unwind`, the dispatch of
an exception that has been thrown: the JVM carries it on until a handler
takes it or the thread ends; the program has no say in it.  Nothing is assumed
of the program, which may stop calling.  No other module assumes fairness.

## 4. Proofs

TLAPS proves the following for every value of the constants that satisfies
the assumptions of the module.  Each module of proofs extends the module it is
about; the properties are the ones the runs check on small instances, and each
inductive invariant was checked by TLC on those instances before it was proved.

| Module | Theorem | States |
|---|---|---|
| `MemoryProofs` | `TypeCorrect` | `TypeOK` |
| | `HeapAlwaysMapped` | `HeapMapped` |
| | `SbrkIsExact` | `SbrkExact`, an action property |
| | `FrameChainHolds` | `FrameChain` |
| | `FrameLayoutHolds` | `FrameLayout` |
| | `FaultsNeedOverrun` | `FaultMeansOverrun` |
| | `MemoryImplementsObjects` | `ImplementsObjectStore`, the refinement |
| `JumpProofs` | `TypeCorrect` | `TypeOK` |
| | `FramesAlwaysMatch` | `FramesMatch` |
| | `JumpsResumeAtTarget` | `ResumesAtTarget` |
| | `HeldJumpsAreCaught` | `HeldJumpNotLost` |
| `IOProofs` | `TypeCorrect` | `TypeOK` |
| | `HandlesStayReachable` | `OpenHandlesReachable` |
| | `ExitLeavesNothingOpen` | `ExitClosesAll` |
| | `StaleDescriptorStaysStale` | `DescriptorNeverReused`, an action property |
| | `FailedOpenIsClean` | `FailedOpenLeavesFiles`, an action property |
| | `WritesStayUnderOffset` | `BytesChangeUnderOffset`, an action property |
| `CallArgsProofs` | `TypeCorrect` | `TypeOK` |
| | `UnpackingInvertsPacking` | `UnpackedAsPacked` |
| | `DescendingIsSafe` | `DescendingKeepsLocals` |
| `StaticInitProofs` | `TypeCorrect` | `TypeOK` |
| | `PointersAlwaysResolved` | `PointersResolved` |
| | `AddressesStayApart` | `AddressesApart` |
| | `InitialisersStayInBlock` | `StaysInBlock` |
| | `PlainDataIsReadable` | `PlainDataReadable` |
| `BackendProofs` | `TypeCorrect` | `TypeOK` |
| | `ValuesAreRight` | `ValuesAgree` |
| | `ControlIsRight` | `ControlAgrees` |
| | `StackIsEmpty` | `StackEmpty` |
| `DriverProofs` | `TypeCorrect` | `TypeOK` |
| | `OutputsFromInputs` | `OutputFromInputs` |
| | `Leftovers` | `OnlyLeftovers` |
| | `InputsStay` | `InputsKept`, given `InputsApart` |
| | `FilesLinked` | `JFilesLinked`, given `BitcodeNamed` |
| | `OrderIrrelevant` | `LinkOrderIrrelevant` |
| | `FailuresExplained` | `LinkFailureExplained` |

`HeapInvariant`, `StackInvariant`, `JumpInvariant`, `IOInvariant`,
`ArgsInvariant`, `StaticInvariant`, `LayoutInvariant`, `InvariantAlways` (of
`Backend`) and `FilesInvariant` state the inductive invariants these theorems
follow from.  Every invariant and every action property of the passing runs is
in the table; what is missing is the liveness property.

### Assumptions

- `Memory`: `SizeAssumption` (the segments fit in memory and are multiples of
  the alignment), `IntAssumption` (twice the memory size is representable: this
  is what makes the wrapped sum of `sbrk` fail its comparisons, and the code's
  1 GiB satisfies it with nothing to spare), `InputAssumption` (inputs are
  of the type the Java signatures demand) and `NoWrapAssumption` (a program is
  followed until `dataEnd` or `stackPointer` has left its segment by as much as
  the limits say, and no block is so large that the next sum would wrap).
- `Jump`: there is a function, each function has its set of setjmp sites, and
  the bounds are natural numbers.
- `IO`: the table has room for the three standard descriptors; counts, offsets
  and modes have the types the calls demand.
- `CallArgs`: sizes are those of Java's types (1, 2, 4 and 8 bytes), the stack
  pointer is aligned, and there is room for the largest call below it, and
  above it as many bytes of locals as a block that is too small can reach;
  a direct call that packs anything, and any call of a variadic function, has a
  declared parameter.
- `StaticInit`: a class has finitely many methods, programs are sequences of
  sequences of sequences of scalars of 1, 2, 4 or 8 bytes (the sizes of Java's
  types, to which LLVM's scalars are translated), and an initialiser names a
  global or a function of the program (`llvm-link` has merged the modules, and
  the Jasmin linker has refused unresolved references).
- `Arithmetic`: `WidthAssumption` orders the widths and lets the distance of a
  64-bit shift fit an int; 1, 8, 16, 32, 64 satisfy it.
- `Backend`: `OperandAssumption` (a constant operand is a value of its type) and
  `PhiAssumption` (a block has at most one PHI for a value, as LLVM's single
  assignment demands).
- `Linker`: `ClassOrder` lists the class names of all jars (it is the order of
  `std::map`), and a directory has finitely many jars, each readable.
- `Driver`: `SourceAssumption` and `InvocationAssumption` give sources and
  command lines their types.  Two theorems have a hypothesis on the command
  lines, which is the user's part, since the driver does not check it.
  `InputsApart`: `-o` of a compilation or merge names none of its inputs and
  libraries, and no bitcode is given beside the source it would be compiled
  from.  `BitcodeNamed`: `-o` of those two stages names no `.j` file.  `MCDriver`
  asserts that the command lines of the run satisfy both.

### Arguments

*Memory.*  `HeapInv` is `TypeOK`, the break between data segment and stack
(`HeapInBounds`), and `PagesPresent`.  The last is needed because pages are
created for a range of page numbers while `HeapMapped` speaks of addresses, and
because shrinking keeps pages: the initial pages are never lost and each
address below the break has one. `StackInv` adds `FrameLayout`, `FrameChain`
and `FaultMeansOverrun`.  They are only inductive together: a store keeps the
chain because the layout separates owned words from slots (`OwnedIsNoSlot`), a
return keeps the layout because the chain gives back the right frame pointer,
and a fault inside the limits is impossible because the layout keeps every slot
and owned word in the stack segment, whose pages `HeapInv` has (`StackMapped`,
`OwnedIsMapped`).

*The refinement.*  From `StackInv` the objects of a state are pairwise disjoint
(`LayoutSeparates`), so that a store changes the contents of one object, and
the saved frame pointers, which are written by calls, lie in none.  One lemma
per action of `Memory` shows which action of `ObjectStore` it is; the loop of
`destroyStackFrames` is one `Return` per iteration, and a step that exceeds a
segment is `Exceed`, after which nothing is promised.

*Jump.*  `JumpInv` adds two facts to the properties.  `IdsIdentify`: a register
of a live method that agrees with a jmp_buf on the ID belongs to the very
activation and site of the last setjmp with it, and the depth saved is that
activation's.  It is what rules out that an ID is taken for another's when a
function is called again at the same depth, and it is kept because IDs are
never given out twice.  `HeldIsBelow`: a Jump thrown while its register held
its ID still has that register below it on the Java stack.

*IO.*  `IOInv` is the types of handles and files with `OpenHandlesReachable`
and `ExitClosesAll`.  All calls that transfer data have one lemma in common
(`TransferStep`: handles stay at their files and stay open or closed, files
neither come nor go).  A file whose `truncate(0)` threw is a handle that was
not `returned`, which both properties leave out.  The three action properties
follow from the invariant and the same lemmas.

*CallArgs.*  The block's layout is `Ends`, the end of each argument, a
recursion over the list of arguments.  `ArgsInv` says that the block is aligned
and below the locals (`BlockInv`), that each packed argument occupies the bytes
`Ends` gives it, with its tag (`MemInv`), that the cursor of the reader is at
`Ends` of the arguments read so far (`CursorInv`), and that nothing above `Ends`
of the last packed one has been written (`LocalsInv`).  Descending sizes need
no padding, so that `Ends` is the sum of the sizes and stays below the locals.

*StaticInit.*  `StaticInv` describes the stack of initialisers: each of them
has allocated the globals before its current one and no others, and only the
innermost may still be allocating, because the first use of another class comes
after the last allocation.  So a class that is in use is either done or has an
initialiser past its allocations, and its fields are assigned (`PackGlobalInv`).
`ApartInv` says that blocks follow each other below `dataEnd`; `RegistryInv`
that `functionObjects` is the inverse of `functionPointers`, which needs that
the methods of a class get distinct addresses in whichever order Java lists
them (`NewPointers`).

`LayoutInv`, on top of it, compares the three rules for places.  The address an
initialiser has reached never overtakes the place of the next scalar in LLVM's
layout (`PlaceInv`): `zero` does not align, so it can only lag behind
(`ZeroPlace`), and `pack` aligns to the size of the scalar, which is what the
layout does, since blocks, fields and scalars start at multiples of their
alignments (`PackPlace`, from `AlignShift` and `AlignMonotone`).  A packed
structure has no such alignments, so that all this is said of globals without
one (`Natural`).  Hence `StaysInBlock`.  Where the global is plain the two are
in step, not merely ordered, so that each packed scalar is where the layout has
it (`PackedInv`), and the loop of `printGepInstruction` computes the same
layout (`GepAgrees`). `PlainDataReadable` also needs that no scalar has been
forgotten (`CompleteInv`), and that no other store reaches the bytes of a null
scalar, which nothing is stored to: scalars of one global are in order
(`ScalarsInOrder`), and those of different globals are in disjoint blocks
(`ApartInv`).

*Backend.*  The arithmetic rests on one relation: `SameBits`, two integers
with the same lowest bits.  `Stands` says that a JVM number stands for an LLVM
value, `Right` that the result on the JVM's side, stored, stands for LLVM's.
Sums, products and shifts to the left keep `SameBits`; the rest needs the value
itself.  Unsigned division of long goes through half the dividend; that is
right because twice the remainder of the half stays below 2^63 unless the
quotient of the half is 0, and for that case the code has a shortcut
(`LongDivision`).  The
bitwise instructions are compared bit by bit (`BitwiseSame`).  Where
`ValuesAgree` says that a result is wrong, this is proved as well: a logical
shift of a negative i8 or i16 differs because agreement would make the sign
bits of the int, 2^k - 1, an even number (`ShiftWrong`).

For the emitted sequences `IInv` says where in the code of an instruction
execution can be, and what is still to come.  `Idle` is between instructions.
In a branch, `Decides` says that the condition leads to the edge LLVM takes,
`Edge` and `Arrives` that the copies on it, which `Final` carries out, end in
LLVM's values exactly if the model has recorded no fault; `Copying` is the same
in the middle of the copies.  There are at most as many copies as values,
because the PHIs of a block have distinct destinations.  `InSelect` and
`InSwitch` do this for the other two sequences.  `EdgeCopies`
shows, when the branch starts, that the copies in the order they are emitted
lose a value if and only if a PHI reads one that an earlier copy has changed.

*Driver.*  `RunsInv` relates the files to those at the start of the run
(`before`).  `RunInv` and `SingleInv` say which stages a run can be in and with
which lists, so that a single stage starts with the inputs of the command line.
`CompileInv` says that each input compiled so far has its bitcode, made from
that input, and that the others are untouched; `BuildInv` carries this through
a full build, one fact per stage (`AtMerge`, `AtAsm`, `AtLink`, `AtBuild`,
`AtClean`): the list of inputs is the one file the stage before has made, its
content comes from all inputs, and the list of temporary files holds exactly the
intermediate ones.  `FrameInv` says that a run changes no files but those
`MayChange` lists for its command line.  The first form of `MayChange` was
refuted by the proof attempt: a dry full build that goes on from a leftover
`.plj` writes the class file of whatever class that file names, not of its own
`-C`.  `InputsStay` compares `MayChange` with the files of the command line
(`InputsSafe`).

*Linker.*  `MapFacts` says what `method_map` gives for each symbol, from
`ClassFacts` (the class of a name is that of the last jar that has it) and
`ScanFrom` (the class of a symbol is that of a `.j` library that defines it).
If no two jars share a class name there is only one jar to be the last
(`SameClasses`), and if no two `.j` libraries give a symbol different classes it
does not matter which is the last (`SameUnits`), whence `OrderIrrelevant`;
`UnfoundFacts` turns a symbol outside the map into the two reasons
`LinkFailureExplained` names.

*Recursion.*  What a recursive definition computes is proved by induction over
sets of numbers: `FiniteRecursion` states induction with a set instead of a
predicate, so that no lemma has an operator as its parameter, and shows that
the functions these recursions define exist (`Iteration`).

### Only model-checked

- `UnwindingEnds`: liveness under fairness is out of the prover's reach.

## 5. Not modelled

Of the modelled components:

- Memory: accesses of other widths than 32 bits (they differ in width only) and
  accesses that straddle two pages; `memcpy`, `memmove` and `memset`, which are
  loops of one-byte accesses; the string helpers.  Pages are never shared or
  remapped in the code, so `getPage` needs no more than `Mapped`.
- Jump: the wrap of `numJumps` after 2^32 calls; threads (the runtime has
  one); the value that `setjmp` returns the second time, a field of the
  exception that the handler copies.
- IO: `chdir` and relative paths, `stat`, `fstat`, `isatty`, directories.
- StaticInit: strings (a global without padding) and constant expressions;
  several levels of nesting beyond two.
- Backend: floating point, vectors, integers of other widths than 1, 8, 16, 32
  and 64 (the backend warns about them and computes with a wider one), loads and
  stores, the two assembler syntaxes, the 64 KiB limit of methods that branch
  rewriting is for.
- Linker: references without a prototype, which are linked to a stub that
  throws; a jar inside a directory that cannot be read; `-r`.  A `.class` file
  in a directory counts as a jar with one class.
- Driver: `-T`, `-O`, `-k` in CIL mode, environment variables, sources
  in other directories.

Components left out, with reasons, are in `PROJECT.json`.  Most of the
repository's lines are among them: of some 391,000 lines of C, C++ and Java
more than 95% are vendored (newlib with its iconv tables under `runtime/libc`,
`miniz`, `popl`, `dotnetpelib`), and neither these nor the CIL backend, whose
runtime the README calls stubs, carry logic of this program.  What remains of
the program's own code outside the models is floating point, the parsers of
class files and jars, pure I/O, and text.

Things the models show without a run of their own:

- CallArgs: a variadic function called through a pointer takes its first
  variadic argument for the address of all of them (`EnterCallee`); a `va_arg`
  instruction skips no padding (`ReadAt`).  `printOperandPack` pushes every size
  below 256 with `bipush`, whose operand is a signed byte, and larger ones with
  `sipush`: Jasmin refuses a `bipush` of 128 to 255, so that a call that packs 16
  to 31 doubles cannot be assembled (`Assembles`).
- IO: descriptors are never reused, so that `ENFILE` comes after `OPEN_MAX`
  opens however many files have been closed (the same fact is what makes
  `DescriptorNeverReused` hold); `read`, `write` and `lseek` with a bad
  descriptor throw instead of returning -1 (`Escape`); `O_APPEND` is ignored and
  a missing file is created without `O_CREAT` when opened for writing
  (`Creates`).
- Memory: `alignOffsetUp` and `alignOffsetDown` return an aligned offset
  unchanged, where their Javadoc says greater and less.
- StaticInit: `{1, 0, 7}` of types char, int, char has its 7 at offset 5, not
  8; an inner structure's tail padding is not skipped.  A packed structure is
  sized without padding and written with it: `{ <{ i8, i64 }>, i32 }` has a block
  of 16 bytes and is written up to offset 20, over the next global; `StaysInBlock`
  is about the other structures only.
- Backend: wrong are a logical shift of a negative i8 or i16, the sign
  extension of a true i1, some comparisons of i1, any bswap of a value other
  than 0, PHIs of one block that read each other, PHIs behind an indirectbr, and
  an indirectbr among blocks without names.
- Driver: a dry run may write the class file of another class than its own, from
  a leftover; a `-l` library with the name of the link's output is overwritten,
  and not read; the output of the link of a `.j` file is the file itself, which
  is emptied before it is read, and the run exits with 0 (`Text`, `InPlace`),
  though `-a` is to "link and resolve .j files"; the merged `.bc` of a full
  build is left behind, and a failed build leaves all its temporary files; `-o` is
  ignored by the assembler stages; a full build in CIL mode always fails at the
  link, which refuses `.plil`; `-l` refuses the `.plj` and `.class` files
  that the repository's README allows.

## 6. Plan

The invariants and action properties of all passing runs are proved; the
liveness property stays with TLC.  What could be modelled next is memory
accesses that straddle two pages, which needs contents per byte, and integers
of other widths than those of Java's types; both are hazards in `PROJECT.json`
that no property covers yet.
