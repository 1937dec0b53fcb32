------------------------------- MODULE Memory -------------------------------
(***************************************************************************)
(* llxvm.runtime.Memory: the 1 GiB virtual memory of a compiled program,   *)
(* split into data segment, heap and call stack.  Addresses are byte       *)
(* addresses; contents are kept per 32-bit word, the unit in which the     *)
(* runtime saves frame pointers (32-bit accesses of compiled C are aligned *)
(* to 4).  One Java thread runs the program: every operation below is one  *)
(* step, except destroyStackFrames, whose loop iterates one step at a time *)
(* while nothing else runs.                                                *)
(*                                                                         *)
(* The program is the environment.  It calls the operations with sizes     *)
(* and increments from the sets below and stores only into objects it      *)
(* owns: a data object, the heap below the break, a block of a live frame. *)
(***************************************************************************)
EXTENDS Integers, Sequences

CONSTANTS
  PAGE_SIZE,   \* bytes per page
  MEM_SIZE,    \* bytes of virtual memory
  DATA_SIZE,   \* bytes reserved for Data+BSS
  STACK_SIZE,  \* bytes reserved for the stack
  INT_MAX,     \* largest Java int
  AllocSizes,  \* sizes passed to allocateStack and allocateData
  Increments,  \* increments passed to sbrk
  StoreWords,  \* words the program may write, when it owns them
  Values,      \* 32-bit values the program writes
  MaxDepth,    \* bound on the number of frames
  DataLimit,   \* bound: data objects start at or below this address
  StackLimit,  \* bound: stack blocks start at or above this address
  FollowOverrun \* bound: whether a program is followed past an overrun

ALIGNMENT == 8
I32 == 4

ASSUME SizeAssumption ==
  /\ PAGE_SIZE \in Nat /\ PAGE_SIZE > 0
  /\ MEM_SIZE \in Nat /\ DATA_SIZE \in Nat /\ STACK_SIZE \in Nat
  /\ DATA_SIZE >= ALIGNMENT /\ STACK_SIZE >= ALIGNMENT
  /\ DATA_SIZE + STACK_SIZE <= MEM_SIZE
  /\ MEM_SIZE % ALIGNMENT = 0 /\ STACK_SIZE % ALIGNMENT = 0

ASSUME IntAssumption == INT_MAX \in Nat /\ 2 * MEM_SIZE - 1 <= INT_MAX

ASSUME InputAssumption ==
  /\ AllocSizes \subseteq Nat
  /\ Increments \subseteq -INT_MAX - 1 .. INT_MAX
  /\ StoreWords \subseteq Int
  /\ Values \subseteq {v \in Int : v % I32 = 0}
  /\ MaxDepth \in Nat /\ DataLimit \in Int /\ StackLimit \in Int
  /\ FollowOverrun \in BOOLEAN

(* dataEnd and stackPointer are Java ints.  A program is followed until    *)
(* they pass the two bounds, and up to there no sum or difference of the   *)
(* allocations wraps around.                                               *)
ASSUME NoWrapAssumption ==
  \A size \in AllocSizes :
    /\ DataLimit + size + ALIGNMENT <= INT_MAX
    /\ -INT_MAX - 1 <= StackLimit - size - (MaxDepth + 1) * ALIGNMENT

VARIABLES
  pages,         \* numbers of the pages that exist
  dataEnd,       \* end of Data+BSS
  heapEnd,       \* end of the heap
  framePointer,
  stackPointer,
  stackDepth,
  mem,           \* the 32-bit words of all pages, zero before the first store
  toDestroy,     \* iterations left of the loop in destroyStackFrames
  status,        \* "running", or "segv" after a SegmentationFault
  frames,        \* history: the host's frame and the live frames above it,
                 \* each [fp |-> address, own |-> words]
  overrun        \* history: data or stack has left its segment

vars == <<pages, dataEnd, heapEnd, framePointer, stackPointer, stackDepth,
          mem, toDestroy, status, frames, overrun>>

-----------------------------------------------------------------------------
(* Addresses *)

STACK_BOTTOM == MEM_SIZE - STACK_SIZE

Words == {a \in 0 .. MEM_SIZE - 1 : a % I32 = 0}

alignOffsetDown_RoundsUp(offset, align) == offset + ((-offset) % align)
alignOffsetDown(offset, align) == offset - (offset % align)

alignOffsetUp(offset, align) == alignOffsetDown(offset - 1, align) + align

Page(addr) == addr \div PAGE_SIZE

(* getPage finds a page: the index is inside the array and the entry set. *)
Mapped(addr) == addr \in 0 .. MEM_SIZE - 1 /\ Page(addr) \in pages

BlockWords(lo, size) == {a \in Words : lo <= a /\ a < lo + size}

(* A Java int sum of two ints. *)
IntSum(a, b) ==
  IF a + b > INT_MAX THEN a + b - 2 * (INT_MAX + 1)
  ELSE IF a + b < -INT_MAX - 1 THEN a + b + 2 * (INT_MAX + 1)
  ELSE a + b

(* The word below the frame pointer, where a frame keeps its caller's.     *)
SavedSlotMidWord(fp) == fp - I32
SavedSlot(fp) == fp - ALIGNMENT

-----------------------------------------------------------------------------
(* The static initialiser: the pages of the data segment and of the stack; *)
(* the null pointer is the first object of the data segment.               *)
InitialPages_StackShort ==
  (0 .. Page(DATA_SIZE - 1)) \cup (Page(STACK_BOTTOM) + 1 .. Page(MEM_SIZE - 1))
InitialPages ==
  (0 .. Page(DATA_SIZE - 1)) \cup (Page(STACK_BOTTOM) .. Page(MEM_SIZE - 1))

Init ==
  /\ pages = InitialPages
  /\ dataEnd = alignOffsetUp(0 + 1, ALIGNMENT)
  /\ heapEnd = DATA_SIZE
  /\ framePointer = MEM_SIZE
  /\ stackPointer = MEM_SIZE
  /\ stackDepth = 0
  /\ mem = [a \in Words |-> 0]
  /\ toDestroy = 0
  /\ status = "running"
  /\ frames = <<[fp |-> MEM_SIZE, own |-> {}]>>
  /\ overrun = FALSE

Idle == status = "running" /\ toDestroy = 0 /\ (overrun => FollowOverrun)

(* Keeps the history of the two segments that have no limit check.         *)
NoteOverrun(dEnd, sp) ==
  overrun' = (overrun \/ dEnd > DATA_SIZE \/ sp < STACK_BOTTOM)

(* createStackFrame: the new frame starts at the stack pointer; the        *)
(* previous frame pointer is pushed with storeStack.  A push into a page   *)
(* that does not exist throws after both pointers have moved.              *)
CreateStackFrame ==
  LET slot == alignOffsetDown(stackPointer - I32, ALIGNMENT) IN
  /\ Idle /\ stackDepth < MaxDepth
  /\ framePointer' = stackPointer
  /\ stackPointer' = slot
  /\ NoteOverrun(dataEnd, stackPointer')
  /\ IF Mapped(slot)
     THEN /\ mem' = [mem EXCEPT ![slot] = framePointer]
          /\ stackDepth' = stackDepth + 1
          /\ frames' = Append(frames, [fp |-> stackPointer, own |-> {}])
          /\ UNCHANGED status
     ELSE /\ status' = "segv"
          /\ UNCHANGED <<mem, stackDepth, frames>>
  /\ UNCHANGED <<pages, dataEnd, heapEnd, toDestroy>>

(* destroyStackFrame: the stack pointer returns to the frame pointer, the  *)
(* saved frame pointer is loaded from the word below.                      *)
DestroyStackFrame ==
  LET slot == SavedSlot(framePointer) IN
  /\ stackDepth > 0
  /\ stackPointer' = framePointer
  /\ NoteOverrun(dataEnd, stackPointer')
  /\ IF Mapped(slot)
     THEN /\ framePointer' = mem[slot]
          /\ stackDepth' = stackDepth - 1
          /\ frames' = SubSeq(frames, 1, Len(frames) - 1)
          /\ UNCHANGED status
     ELSE /\ status' = "segv"
          /\ UNCHANGED <<framePointer, stackDepth, frames>>
  /\ UNCHANGED <<pages, dataEnd, heapEnd, mem>>

(* A compiled function returns. *)
ReturnFromFunction == Idle /\ DestroyStackFrame /\ UNCHANGED toDestroy

(* destroyStackFrames(n): longjmp starts the loop ... *)
DestroyStackFrames_Inclusive(n) ==
  /\ Idle /\ n <= stackDepth
  /\ toDestroy' = n + 1
  /\ UNCHANGED <<pages, dataEnd, heapEnd, framePointer, stackPointer,
                 stackDepth, mem, status, frames, overrun>>
DestroyStackFrames(n) ==
  /\ Idle /\ n <= stackDepth
  /\ toDestroy' = n
  /\ UNCHANGED <<pages, dataEnd, heapEnd, framePointer, stackPointer,
                 stackDepth, mem, status, frames, overrun>>

(* ... and each iteration destroys one frame. *)
DestroyNext ==
  /\ status = "running" /\ toDestroy > 0
  /\ DestroyStackFrame
  /\ toDestroy' = toDestroy - 1

(* The block allocateStack returns starts at the new stack pointer. *)
StackBlock_FromOld(prev, next, size) == BlockWords(prev, size)
StackBlock(prev, next, size) == BlockWords(next, size)

(* allocateStack: no check against the bottom of the stack.  The frame on  *)
(* top owns the block; before main is called that is the host, which       *)
(* stores argv there.                                                      *)
AllocateStack(size) ==
  /\ Idle
  /\ stackPointer >= StackLimit
  /\ stackPointer' = alignOffsetDown(stackPointer - size, ALIGNMENT)
  /\ frames' = [frames EXCEPT ![Len(frames)].own =
                  @ \cup StackBlock(stackPointer, stackPointer', size)]
  /\ NoteOverrun(dataEnd, stackPointer')
  /\ UNCHANGED <<pages, dataEnd, heapEnd, framePointer, stackDepth, mem,
                 toDestroy, status>>

(* allocateData: no check against the end of the data segment.  The sum is *)
(* an int; NoWrapAssumption keeps it one.                                  *)
AllocateData(size) ==
  /\ Idle
  /\ dataEnd <= DataLimit
  /\ dataEnd' = alignOffsetUp(dataEnd + size, ALIGNMENT)
  /\ NoteOverrun(dataEnd', stackPointer)
  /\ UNCHANGED <<pages, heapEnd, framePointer, stackPointer, stackDepth, mem,
                 toDestroy, status, frames>>

(* The pages sbrk creates when the heap moves from prev to end. *)
NewHeapPages_SkipsFirst(prev, end) == Page(prev) + 1 .. Page(end - 1)
NewHeapPages(prev, end) == Page(prev) .. Page(end - 1)

(* The test with which sbrk refuses an increment. *)
BreakRefused_NoLowerBound(increment) ==
  IntSum(heapEnd, increment) > MEM_SIZE - STACK_SIZE
BreakRefused(increment) ==
  \/ IntSum(heapEnd, increment) > MEM_SIZE - STACK_SIZE
  \/ IntSum(heapEnd, increment) < DATA_SIZE

(* sbrk: ENOMEM leaves everything as it was; shrinking keeps the pages and *)
(* their contents.                                                         *)
Sbrk(increment) ==
  /\ Idle
  /\ ~BreakRefused(increment)
  /\ heapEnd' = IntSum(heapEnd, increment)
  /\ pages' = pages \cup NewHeapPages(heapEnd, heapEnd')
  /\ UNCHANGED <<dataEnd, framePointer, stackPointer, stackDepth, mem,
                 toDestroy, status, frames, overrun>>

(* The words the program owns: data above NULL, heap, blocks of frames. *)
HeapWords == {a \in Words : DATA_SIZE <= a /\ a < heapEnd}
OwnedStatic == {a \in Words : ALIGNMENT <= a /\ a < dataEnd} \cup HeapWords
OwnedStack == UNION {frames[i].own : i \in 1 .. Len(frames)}

(* A 32-bit store of the program to a word it owns. *)
Store(addr, value) ==
  /\ Idle
  /\ addr \in OwnedStatic \cup OwnedStack
  /\ IF Mapped(addr)
     THEN mem' = [mem EXCEPT ![addr] = value] /\ UNCHANGED status
     ELSE status' = "segv" /\ UNCHANGED mem
  /\ UNCHANGED <<pages, dataEnd, heapEnd, framePointer, stackPointer,
                 stackDepth, toDestroy, frames, overrun>>

Next ==
  \/ CreateStackFrame
  \/ ReturnFromFunction
  \/ \E n \in 1 .. MaxDepth : DestroyStackFrames(n)
  \/ DestroyNext
  \/ \E size \in AllocSizes : AllocateStack(size) \/ AllocateData(size)
  \/ \E increment \in Increments : Sbrk(increment)
  \/ \E addr \in StoreWords, value \in Values : Store(addr, value)

Spec == Init /\ [][Next]_vars

-----------------------------------------------------------------------------
(* Properties *)

Aligned32 == {a \in Int : a % I32 = 0}

(* Types; the history of frames has one entry more than stackDepth counts. *)
TypeOK ==
  /\ pages \subseteq Int
  /\ dataEnd \in Nat /\ heapEnd \in Nat
  /\ framePointer \in Aligned32 /\ stackPointer \in Aligned32
  /\ stackDepth \in Nat
  /\ mem \in [Words -> Aligned32]
  /\ toDestroy \in Nat /\ toDestroy <= stackDepth
  /\ status \in {"running", "segv"}
  /\ frames \in Seq([fp : Aligned32, own : SUBSET Words])
  /\ Len(frames) = stackDepth + 1
  /\ overrun \in BOOLEAN

(* While both segments suffice, each live frame still holds its caller's   *)
(* frame pointer where destroyStackFrame will look for it, and the frame   *)
(* pointer is the one of the frame on top: no store of the program, no     *)
(* block of a callee and no longjmp through several frames breaks the      *)
(* chain createStackFrame builds.                                          *)
FrameChain ==
  ~overrun =>
    /\ framePointer = frames[Len(frames)].fp
    /\ \A i \in 2 .. Len(frames) :
         mem[SavedSlot(frames[i].fp)] = frames[i - 1].fp

(* The first address above the blocks of a frame: the slot that holds its  *)
(* caller's frame pointer; the host has none.                              *)
BlocksEnd(i) == IF i = 1 THEN frames[1].fp ELSE SavedSlot(frames[i].fp)

(* While both segments suffice, frames and blocks are nested: above the    *)
(* stack pointer, each frame's blocks lie below its own slot and above     *)
(* every later frame, and all of them above the heap.  So a callee's       *)
(* blocks never share a word with a live block or slot of a caller.        *)
FrameLayout ==
  ~overrun =>
    /\ dataEnd <= DATA_SIZE
    /\ STACK_BOTTOM <= stackPointer /\ stackPointer % ALIGNMENT = 0
    /\ frames[1].fp = MEM_SIZE
    /\ \A i \in 1 .. Len(frames) :
         /\ frames[i].fp % ALIGNMENT = 0
         /\ stackPointer <= BlocksEnd(i) /\ frames[i].fp <= MEM_SIZE
         /\ \A a \in frames[i].own : stackPointer <= a /\ a < BlocksEnd(i)
    /\ \A i, j \in 1 .. Len(frames) :
         i < j => /\ frames[j].fp <= BlocksEnd(i)
                  /\ \A a \in frames[i].own : frames[j].fp <= a

(* A request sbrk grants moves the break by exactly the increment: the     *)
(* wrapped sum never passes the two comparisons.                           *)
SbrkExact ==
  [][\A increment \in Increments :
       Sbrk(increment) => heapEnd' = heapEnd + increment]_vars

(* Every byte below the break has a page, however the break moved there:   *)
(* a program that stays inside its heap never gets a SegmentationFault.    *)
HeapMapped == \A a \in DATA_SIZE .. heapEnd - 1 : Mapped(a)

(* A program that stores only into what it owns faults only after it has   *)
(* exceeded the data segment or the stack.                                 *)
FaultMeansOverrun == status = "segv" => overrun

(* What the comments on the sizes promise: the data segment and the stack  *)
(* stay within the space reserved for them, so that no data object and no  *)
(* stack block lies in the heap.  (Not an invariant: neither allocateData  *)
(* nor allocateStack checks.)                                              *)
SegmentsApart ==
  ({a \in Words : a < dataEnd} \cup OwnedStack) \cap HeapWords = {}

Contents(own) == [a \in own |-> mem[a]]

Objects == INSTANCE ObjectStore WITH
  static <- IF overrun THEN [a \in {} |-> 0] ELSE Contents(OwnedStatic),
  stack  <- IF overrun THEN <<[a \in {} |-> 0]>>
            ELSE [i \in 1 .. Len(frames) |-> Contents(frames[i].own)],
  limits <- IF overrun THEN "exceeded" ELSE "kept"

(* The byte-addressed memory with its bump pointers implements a store of  *)
(* separate objects, as long as the segments suffice.                      *)
ImplementsObjectStore == Objects!Spec
=============================================================================
