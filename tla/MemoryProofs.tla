---------------------------- MODULE MemoryProofs ----------------------------
(***************************************************************************)
(* Theorems about Memory, for all sizes of memory, segments and pages and  *)
(* for all inputs of the program: what its runs check, and, from StackInv, *)
(* that it implements ObjectStore by the mapping of Memory!Objects.        *)
(***************************************************************************)
EXTENDS Memory, TLAPS, SequenceTheorems

-----------------------------------------------------------------------------
(* Arithmetic of addresses *)

(* alignOffsetDown by 8 lands on a multiple of 8 at most 7 bytes below.    *)
LEMMA AlignDown8 ==
  ASSUME NEW x \in Int
  PROVE  /\ alignOffsetDown(x, ALIGNMENT) \in Int
         /\ alignOffsetDown(x, ALIGNMENT) <= x
         /\ x - ALIGNMENT < alignOffsetDown(x, ALIGNMENT)
         /\ alignOffsetDown(x, ALIGNMENT) % ALIGNMENT = 0
         /\ alignOffsetDown(x, ALIGNMENT) % I32 = 0
  BY SMT DEF alignOffsetDown, ALIGNMENT, I32

(* Pushing a 32-bit value on an 8-aligned stack takes one aligned slot.    *)
LEMMA PushSlot ==
  ASSUME NEW sp \in Int, sp % ALIGNMENT = 0
  PROVE  alignOffsetDown(sp - I32, ALIGNMENT) = SavedSlot(sp)
  BY SMT DEF alignOffsetDown, ALIGNMENT, I32, SavedSlot

(* Page numbers grow with addresses. *)
LEMMA PageMonotone ==
  ASSUME NEW a \in Nat, NEW b \in Nat, a <= b
  PROVE  /\ Page(a) \in Nat /\ Page(b) \in Nat
         /\ Page(a) <= Page(b)
  BY SMT, SizeAssumption DEF Page

(* The pages of all bytes between two breaks are created by sbrk. *)
LEMMA PagesBetween ==
  ASSUME NEW prev \in Nat, NEW end \in Nat, NEW a \in Nat,
         prev <= a, a <= end - 1
  PROVE  Page(a) \in NewHeapPages(prev, end)
  <1>1. end - 1 \in Nat
    OBVIOUS
  <1>2. Page(prev) <= Page(a) /\ Page(prev) \in Nat /\ Page(a) \in Nat
    BY PageMonotone
  <1>3. Page(a) <= Page(end - 1) /\ Page(end - 1) \in Nat
    BY <1>1, PageMonotone
  <1>4. QED
    BY <1>2, <1>3 DEF NewHeapPages

(* An 8-aligned address is 4-aligned. *)
LEMMA Aligned8Is32 ==
  ASSUME NEW x \in Int, x % ALIGNMENT = 0
  PROVE  x \in Aligned32 /\ SavedSlot(x) \in Aligned32
                         /\ SavedSlot(x) % ALIGNMENT = 0
  BY SMT DEF ALIGNMENT, I32, Aligned32, SavedSlot

(* alignOffsetUp by 8 never goes down, and stays below a multiple of 8.    *)
LEMMA AlignUp8 ==
  ASSUME NEW x \in Nat
  PROVE  /\ alignOffsetUp(x, ALIGNMENT) \in Nat
         /\ x <= alignOffsetUp(x, ALIGNMENT)
         /\ alignOffsetUp(1, ALIGNMENT) = ALIGNMENT
  BY SMT DEF alignOffsetUp, alignOffsetDown, ALIGNMENT

-----------------------------------------------------------------------------
(* Type correctness *)

(* The static initialiser establishes the types. *)
LEMMA InitTypeOK == Init => TypeOK
  <1> SUFFICES ASSUME Init PROVE TypeOK
    OBVIOUS
  <1>1. MEM_SIZE \in Aligned32 /\ 0 \in Aligned32
    BY SizeAssumption, Aligned8Is32, SMT DEF Aligned32, I32
  <1>2. pages \subseteq Int
    <2>1. Page(DATA_SIZE - 1) \in Int /\ Page(STACK_BOTTOM) \in Int
          /\ Page(MEM_SIZE - 1) \in Int
      BY SizeAssumption, SMT DEF Page, STACK_BOTTOM, ALIGNMENT
    <2>2. QED
      BY <2>1 DEF Init, InitialPages
  <1>3. dataEnd \in Nat /\ heapEnd \in Nat
    BY AlignUp8, SizeAssumption DEF Init
  <1>4. mem \in [Words -> Aligned32]
    BY <1>1 DEF Init
  <1>5. frames \in Seq([fp : Aligned32, own : SUBSET Words]) /\ Len(frames) = 1
    BY <1>1 DEF Init
  <1>6. /\ framePointer \in Aligned32 /\ stackPointer \in Aligned32
        /\ stackDepth = 0 /\ toDestroy = 0 /\ status = "running"
        /\ overrun \in BOOLEAN
    BY <1>1 DEF Init
  <1>7. QED
    BY <1>2, <1>3, <1>4, <1>5, <1>6 DEF TypeOK

(* A mapped 4-aligned address is a word. *)
LEMMA MappedWord ==
  ASSUME NEW a \in Aligned32, Mapped(a)
  PROVE  a \in Words
  BY DEF Mapped, Words, Aligned32

(* createStackFrame keeps the types: the pushed slot is a word. *)
LEMMA CreateTypeOK ==
  ASSUME TypeOK, CreateStackFrame
  PROVE  TypeOK'
  <1> DEFINE slot == alignOffsetDown(stackPointer - I32, ALIGNMENT)
  <1>1. stackPointer \in Int /\ stackPointer - I32 \in Int
    BY SMT DEF TypeOK, Aligned32, I32
  <1>2. slot \in Aligned32
    BY <1>1, AlignDown8 DEF Aligned32
  <1> HIDE DEF slot
  <1>3. overrun' \in BOOLEAN
    BY DEF CreateStackFrame, NoteOverrun
  <1>4. CASE Mapped(slot)
    <2>1. slot \in Words
      BY <1>2, <1>4, MappedWord
    <2>2. mem' \in [Words -> Aligned32]
      BY <1>4, <2>1 DEF TypeOK, CreateStackFrame, slot
    <2>3. /\ frames' \in Seq([fp : Aligned32, own : SUBSET Words])
          /\ Len(frames') = Len(frames) + 1
      BY <1>4 DEF TypeOK, CreateStackFrame, slot
    <2>4. stackDepth' = stackDepth + 1
      BY <1>4 DEF CreateStackFrame, slot
    <2>5. QED
      BY <1>2, <1>3, <1>4, <2>2, <2>3, <2>4
      DEF TypeOK, CreateStackFrame, slot, Idle
  <1>5. CASE ~Mapped(slot)
    BY <1>2, <1>3, <1>5 DEF TypeOK, CreateStackFrame, slot, Idle
  <1>6. QED
    BY <1>4, <1>5

(* destroyStackFrame keeps the types: what it loads is a word. *)
LEMMA DestroyTypeOK ==
  ASSUME TypeOK, DestroyStackFrame,
         toDestroy' \in Nat, toDestroy' < stackDepth
  PROVE  TypeOK'
  <1> DEFINE slot == SavedSlot(framePointer)
  <1>1. slot \in Aligned32
    BY SMT DEF TypeOK, Aligned32, I32, SavedSlot, ALIGNMENT
  <1> HIDE DEF slot
  <1>2. overrun' \in BOOLEAN
    BY DEF DestroyStackFrame, NoteOverrun
  <1>3. CASE Mapped(slot)
    <2>1. framePointer' \in Aligned32
      BY <1>1, <1>3, MappedWord DEF TypeOK, DestroyStackFrame, slot
    <2>2. /\ frames' \in Seq([fp : Aligned32, own : SUBSET Words])
          /\ Len(frames') = Len(frames) - 1
      BY <1>3 DEF TypeOK, DestroyStackFrame, slot
    <2>3. stackDepth' = stackDepth - 1 /\ stackDepth > 0
      BY <1>3 DEF DestroyStackFrame, slot
    <2>4. QED
      BY <1>2, <1>3, <2>1, <2>2, <2>3 DEF TypeOK, DestroyStackFrame, slot
  <1>4. CASE ~Mapped(slot)
    BY <1>2, <1>4 DEF TypeOK, DestroyStackFrame, slot
  <1>5. QED
    BY <1>3, <1>4

(* allocateStack keeps the types: the block consists of words. *)
LEMMA AllocateStackTypeOK ==
  ASSUME TypeOK, NEW size \in AllocSizes, AllocateStack(size)
  PROVE  TypeOK'
  <1>1. stackPointer' \in Aligned32
    <2>1. stackPointer - size \in Int
      BY InputAssumption, SMT DEF TypeOK, Aligned32
    <2>2. QED
      BY <2>1, AlignDown8 DEF AllocateStack, Aligned32
  <1>2. BlockWords(stackPointer', size) \subseteq Words
    BY DEF BlockWords
  <1>3. /\ frames' \in Seq([fp : Aligned32, own : SUBSET Words])
        /\ Len(frames') = Len(frames)
    <2> DEFINE F == [fp : Aligned32, own : SUBSET Words]
               top == frames[Len(frames)]
               new == [top EXCEPT !.own =
                         @ \cup BlockWords(stackPointer', size)]
    <2>1. Len(frames) \in 1 .. Len(frames) /\ frames \in Seq(F)
      BY DEF TypeOK
    <2> HIDE DEF F
    <2>2. top \in F
      BY <2>1
    <2>3. new \in F
      BY <1>2, <2>2 DEF F
    <2>4. frames' = [frames EXCEPT ![Len(frames)] = new]
      BY DEF AllocateStack, StackBlock
    <2> HIDE DEF new
    <2>5. frames' \in Seq(F) /\ Len(frames') = Len(frames)
      BY <2>1, <2>3, <2>4
    <2>6. QED
      BY <2>5 DEF F
  <1>4. overrun' \in BOOLEAN
    BY DEF AllocateStack, NoteOverrun
  <1>5. QED
    BY <1>1, <1>3, <1>4 DEF TypeOK, AllocateStack

(* Every operation keeps the types. *)
LEMMA NextTypeOK == TypeOK /\ [Next]_vars => TypeOK'
  <1> SUFFICES ASSUME TypeOK, [Next]_vars PROVE TypeOK'
    OBVIOUS
  <1>1. CASE CreateStackFrame
    BY <1>1, CreateTypeOK
  <1>2. CASE ReturnFromFunction
    <2>1. toDestroy' = 0 /\ stackDepth > 0
      BY <1>2 DEF ReturnFromFunction, Idle, DestroyStackFrame
    <2>2. QED
      BY <1>2, <2>1, DestroyTypeOK DEF ReturnFromFunction, TypeOK
  <1>3. ASSUME NEW n \in 1 .. MaxDepth, DestroyStackFrames(n)
        PROVE  TypeOK'
    BY <1>3, InputAssumption DEF DestroyStackFrames, TypeOK
  <1>4. CASE DestroyNext
    <2>1. toDestroy' \in Nat /\ toDestroy' < stackDepth
      BY <1>4 DEF DestroyNext, TypeOK
    <2>2. QED
      BY <1>4, <2>1, DestroyTypeOK DEF DestroyNext
  <1>5. ASSUME NEW size \in AllocSizes, AllocateStack(size)
        PROVE  TypeOK'
    BY <1>5, AllocateStackTypeOK
  <1>6. ASSUME NEW size \in AllocSizes, AllocateData(size)
        PROVE  TypeOK'
    <2>1. dataEnd + size \in Nat
      BY InputAssumption DEF TypeOK
    <2>2. dataEnd' \in Nat
      BY <1>6, <2>1, AlignUp8 DEF AllocateData
    <2>3. QED
      BY <1>6, <2>2 DEF AllocateData, TypeOK, NoteOverrun
  <1>7. ASSUME NEW increment \in Increments, Sbrk(increment)
        PROVE  TypeOK'
    <2>1. IntSum(heapEnd, increment) \in Int
      BY InputAssumption, IntAssumption DEF TypeOK, IntSum
    <2>2. heapEnd' \in Nat
      BY <1>7, <2>1, SizeAssumption DEF Sbrk, BreakRefused
    <2>3. Page(heapEnd) \in Int /\ Page(heapEnd' - 1) \in Int
      BY <2>2, SizeAssumption, SMT DEF Page, TypeOK
    <2>4. pages' \subseteq Int
      <3>1. NewHeapPages(heapEnd, heapEnd') \subseteq Int
        BY <2>3 DEF NewHeapPages
      <3>2. QED
        BY <1>7, <3>1 DEF Sbrk, TypeOK
    <2>5. QED
      BY <1>7, <2>2, <2>4 DEF Sbrk, TypeOK
  <1>8. ASSUME NEW addr \in StoreWords, NEW value \in Values,
               Store(addr, value)
        PROVE  TypeOK'
    <2>1. value \in Aligned32
      BY InputAssumption DEF Aligned32
    <2>2. mem' \in [Words -> Aligned32] /\ status' \in {"running", "segv"}
      BY <1>8, <2>1 DEF Store, TypeOK
    <2>3. QED
      BY <1>8, <2>2 DEF Store, TypeOK
  <1>9. CASE UNCHANGED vars
    BY <1>9 DEF vars, TypeOK
  <1>10. QED
    BY <1>1, <1>2, <1>3, <1>4, <1>5, <1>6, <1>7, <1>8, <1>9 DEF Next

(* Every state of Memory is well typed: in particular each frame pointer   *)
(* destroyStackFrame loads is a word address, and the loop of              *)
(* destroyStackFrames never asks for more frames than there are.           *)
THEOREM TypeCorrect == Spec => []TypeOK
  BY InitTypeOK, NextTypeOK, PTL DEF Spec

-----------------------------------------------------------------------------
(* Heap and pages *)

(* The part of the invariant about pages that is inductive: the pages of   *)
(* data segment and stack stay, and every byte of the heap has one.        *)
PagesPresent ==
  /\ InitialPages \subseteq pages
  /\ \A a \in DATA_SIZE .. heapEnd - 1 : Page(a) \in pages

(* The test of sbrk keeps the break between data segment and stack. *)
HeapInBounds == DATA_SIZE <= heapEnd /\ heapEnd <= STACK_BOTTOM

(* The invariant of the heap. *)
HeapInv == TypeOK /\ HeapInBounds /\ PagesPresent

(* The static initialiser makes the pages of data segment and stack. *)
LEMMA InitHeapInv == Init => HeapInv
  BY InitTypeOK, SizeAssumption
  DEF Init, HeapInv, HeapInBounds, PagesPresent, STACK_BOTTOM

(* Every operation keeps the break in bounds and the pages below it. *)
LEMMA NextHeapInv == HeapInv /\ [Next]_vars => HeapInv'
  <1> SUFFICES ASSUME HeapInv, [Next]_vars PROVE HeapInv'
    OBVIOUS
  <1>1. TypeOK'
    BY NextTypeOK DEF HeapInv
  <1>2. ASSUME NEW increment \in Increments, Sbrk(increment)
        PROVE  HeapInBounds' /\ PagesPresent'
    <2>1. HeapInBounds'
      BY <1>1, <1>2, SizeAssumption
      DEF Sbrk, BreakRefused, HeapInBounds, STACK_BOTTOM, TypeOK
    <2>2. ASSUME NEW a \in Int, DATA_SIZE <= a, a <= heapEnd' - 1
          PROVE  Page(a) \in pages'
      <3>1. CASE a < heapEnd
        BY <1>2, <2>2, <3>1, SizeAssumption DEF Sbrk, HeapInv, PagesPresent, TypeOK
      <3>2. CASE heapEnd <= a
        <4>1. heapEnd \in Nat /\ heapEnd' \in Nat /\ a \in Nat
          BY <1>1, <2>2, SizeAssumption DEF HeapInv, TypeOK
        <4>2. Page(a) \in NewHeapPages(heapEnd, heapEnd')
          BY <2>2, <3>2, <4>1, PagesBetween
        <4>3. QED
          BY <1>2, <4>2 DEF Sbrk
      <3>3. QED
        <4>1. heapEnd \in Nat /\ heapEnd' \in Nat /\ DATA_SIZE \in Nat
          BY <1>1, SizeAssumption DEF HeapInv, TypeOK
        <4>2. QED
          BY <3>1, <3>2, <4>1
    <2>3. InitialPages' \subseteq pages'
      BY <1>2 DEF Sbrk, HeapInv, PagesPresent, InitialPages
    <2>4. QED
      BY <2>1, <2>2, <2>3 DEF PagesPresent, Page
  <1>3. ASSUME UNCHANGED <<pages, heapEnd>>
        PROVE  HeapInBounds' /\ PagesPresent'
    BY <1>3 DEF HeapInv, HeapInBounds, PagesPresent, InitialPages, Page
  <1>4. CASE \A increment \in Increments : ~Sbrk(increment)
    <2>1. UNCHANGED <<pages, heapEnd>>
      BY <1>4 DEF Next, vars, CreateStackFrame, ReturnFromFunction,
         DestroyStackFrame, DestroyStackFrames, DestroyNext, AllocateStack,
         AllocateData, Store
    <2>2. QED
      BY <1>1, <1>3, <2>1 DEF HeapInv
  <1>5. QED
    BY <1>1, <1>2, <1>4 DEF HeapInv

(* The strengthened invariant of sbrk: the break stays in bounds and every *)
(* page below it, of the data segment and of the stack exists.             *)
THEOREM HeapInvariant == Spec => []HeapInv
  BY InitHeapInv, NextHeapInv, PTL DEF Spec

(* Every byte below the break has a page: no access inside the heap throws *)
(* a SegmentationFault.                                                    *)
THEOREM HeapAlwaysMapped == Spec => []HeapMapped
  <1>1. HeapInv => HeapMapped
    BY SizeAssumption DEF HeapInv, HeapInBounds, PagesPresent, HeapMapped,
       Mapped, STACK_BOTTOM, TypeOK
  <1>2. QED
    BY <1>1, HeapInvariant, PTL

(* A granted sbrk moves the break by its increment, although the sum that  *)
(* is compared with the limits may wrap around.                            *)
THEOREM SbrkIsExact == Spec => SbrkExact
  <1>1. HeapInv /\ [Next]_vars =>
          [\A increment \in Increments :
             Sbrk(increment) => heapEnd' = heapEnd + increment]_vars
    <2> SUFFICES ASSUME HeapInv, NEW increment \in Increments, Sbrk(increment)
                 PROVE  heapEnd' = heapEnd + increment
      BY DEF vars
    <2>1. heapEnd \in Nat /\ heapEnd < MEM_SIZE /\ increment \in Int
          /\ -INT_MAX - 1 <= increment /\ increment <= INT_MAX
      BY SizeAssumption, IntAssumption, InputAssumption
      DEF HeapInv, HeapInBounds, STACK_BOTTOM, TypeOK, ALIGNMENT
    <2>2. IntSum(heapEnd, increment) >= 0
      BY SizeAssumption, <2>1, IntAssumption DEF Sbrk, BreakRefused, IntSum
    <2>3. heapEnd + increment <= INT_MAX
      BY <2>1, <2>2, SizeAssumption, IntAssumption DEF IntSum
    <2>4. QED
      BY <2>1, <2>3, IntAssumption DEF Sbrk, IntSum
  <1>2. QED
    BY <1>1, HeapInvariant, PTL DEF Spec, SbrkExact

-----------------------------------------------------------------------------
(* Frames *)

(* The inductive invariant: FrameChain needs FrameLayout, because only the *)
(* order of frames and blocks tells that a store, a push or a block of a   *)
(* callee misses every slot that holds a frame pointer; both need          *)
(* FaultMeansOverrun's ground, the pages of the stack.                     *)
StackInv == HeapInv /\ FrameLayout /\ FrameChain /\ FaultMeansOverrun

(* Every address of the stack segment has a page. *)
LEMMA StackMapped ==
  ASSUME HeapInv, NEW a \in Int, STACK_BOTTOM <= a, a < MEM_SIZE
  PROVE  Mapped(a)
  <1>1. STACK_BOTTOM \in Nat /\ MEM_SIZE \in Nat /\ a \in Nat
    BY SizeAssumption DEF STACK_BOTTOM
  <1>2. MEM_SIZE - 1 \in Nat
    BY <1>1
  <1>3. /\ Page(STACK_BOTTOM) <= Page(a) /\ Page(a) <= Page(MEM_SIZE - 1)
        /\ Page(STACK_BOTTOM) \in Nat /\ Page(a) \in Nat
        /\ Page(MEM_SIZE - 1) \in Nat
    BY <1>1, <1>2, PageMonotone
  <1>4. Page(a) \in InitialPages
    BY <1>3 DEF InitialPages
  <1>5. QED
    BY <1>1, <1>4 DEF HeapInv, PagesPresent, Mapped

(* Every address of the data segment has a page. *)
LEMMA DataMapped ==
  ASSUME HeapInv, NEW a \in Int, 0 <= a, a < DATA_SIZE
  PROVE  Mapped(a)
  <1>1. DATA_SIZE - 1 \in Nat /\ a \in Nat /\ a <= DATA_SIZE - 1
    BY SizeAssumption
  <1>2. Page(a) <= Page(DATA_SIZE - 1) /\ Page(a) \in Nat
        /\ Page(DATA_SIZE - 1) \in Nat
    BY <1>1, PageMonotone
  <1>3. Page(a) \in InitialPages
    BY <1>2 DEF InitialPages
  <1>4. a \in 0 .. MEM_SIZE - 1
    BY <1>1, SizeAssumption
  <1>5. QED
    BY <1>3, <1>4 DEF HeapInv, PagesPresent, Mapped

(* Types of what the layout speaks about, in one place. *)
LEMMA FrameTypes ==
  ASSUME TypeOK
  PROVE  /\ Len(frames) \in Nat /\ Len(frames) >= 1
         /\ stackPointer \in Int /\ framePointer \in Int
         /\ \A i \in 1 .. Len(frames) :
              /\ frames[i].fp \in Int /\ SavedSlot(frames[i].fp) \in Int
              /\ BlocksEnd(i) \in Int
              /\ frames[i].own \subseteq Words
  <1> DEFINE F == [fp : Aligned32, own : SUBSET Words]
  <1>1. Len(frames) \in Nat /\ Len(frames) >= 1
    BY DEF TypeOK
  <1>2. stackPointer \in Int /\ framePointer \in Int
    BY DEF TypeOK, Aligned32
  <1>3. frames \in Seq(F)
    BY DEF TypeOK
  <1> HIDE DEF F
  <1>4. \A i \in 1 .. Len(frames) : frames[i] \in F
    BY <1>3
  <1>5. \A i \in 1 .. Len(frames) : frames[i].fp \in Int /\ frames[i].own \subseteq Words
    BY <1>4 DEF F, Aligned32
  <1>6. \A i \in 1 .. Len(frames) :
          SavedSlot(frames[i].fp) \in Int /\ BlocksEnd(i) \in Int
    BY <1>1, <1>5 DEF SavedSlot, BlocksEnd, ALIGNMENT
  <1>7. QED
    BY <1>1, <1>2, <1>5, <1>6

(* Append keeps the elements and adds one. *)
LEMMA AppendElements ==
  ASSUME NEW S, NEW s \in Seq(S), NEW e \in S
  PROVE  /\ Len(Append(s, e)) = Len(s) + 1
         /\ \A i \in 1 .. Len(s) : Append(s, e)[i] = s[i]
         /\ Append(s, e)[Len(s) + 1] = e
  OBVIOUS

(* The static initialiser leaves an empty stack with the host's frame. *)
LEMMA InitStackInv == Init => StackInv
  <1> SUFFICES ASSUME Init PROVE StackInv
    OBVIOUS
  <1>1. HeapInv
    BY InitHeapInv
  <1>2. FrameLayout
    <2>1. dataEnd = ALIGNMENT /\ stackPointer = MEM_SIZE /\ Len(frames) = 1
          /\ frames[1].fp = MEM_SIZE /\ frames[1].own = {}
      BY AlignUp8 DEF Init
    <2>2. QED
      BY <2>1, SizeAssumption DEF FrameLayout, BlocksEnd, STACK_BOTTOM
  <1>3. FrameChain /\ FaultMeansOverrun
    BY DEF Init, FrameChain, FaultMeansOverrun
  <1>4. QED
    BY <1>1, <1>2, <1>3 DEF StackInv

(* createStackFrame extends the chain below every live block. *)
LEMMA CreateStackInv ==
  ASSUME StackInv, CreateStackFrame, HeapInv'
  PROVE  StackInv'
  <1> DEFINE slot == alignOffsetDown(stackPointer - I32, ALIGNMENT)
             n == Len(frames)
  <1>1. TypeOK /\ TypeOK' /\ HeapInv
    BY DEF StackInv, HeapInv
  <1>2. CASE overrun'
    BY <1>2 DEF StackInv, FrameLayout, FrameChain, FaultMeansOverrun
  <1>3. CASE ~overrun'
    <2>1. ~overrun /\ slot >= STACK_BOTTOM /\ slot \in Int
      <3>1. stackPointer - I32 \in Int /\ STACK_BOTTOM \in Int
        BY <1>1, FrameTypes, SizeAssumption DEF I32, STACK_BOTTOM
      <3>2. slot \in Int
        BY <3>1, AlignDown8
      <3>3. ~overrun /\ ~(slot < STACK_BOTTOM)
        BY <1>3 DEF CreateStackFrame, NoteOverrun
      <3> HIDE DEF slot
      <3>4. QED
        BY <3>1, <3>2, <3>3
    <2>2. /\ stackPointer % ALIGNMENT = 0
          /\ stackPointer <= MEM_SIZE /\ frames[1].fp = MEM_SIZE
          /\ dataEnd <= DATA_SIZE
      BY <1>1, <2>1, FrameTypes DEF StackInv, FrameLayout, BlocksEnd
    <2>3. slot = SavedSlot(stackPointer) /\ slot = stackPointer - 8
      BY <1>1, <2>2, FrameTypes, PushSlot DEF SavedSlot, ALIGNMENT
    <2>4. Mapped(slot)
      BY <1>1, <2>1, <2>2, <2>3, FrameTypes, StackMapped, SizeAssumption
    <2>5. slot \in Words /\ slot % ALIGNMENT = 0
      BY <1>1, <2>2, <2>3, <2>4, FrameTypes, Aligned8Is32, MappedWord
    <2> HIDE DEF slot
    <2>6. /\ framePointer' = stackPointer /\ stackPointer' = slot
          /\ dataEnd' = dataEnd
          /\ mem' = [mem EXCEPT ![slot] = framePointer]
          /\ frames' = Append(frames, [fp |-> stackPointer, own |-> {}])
          /\ status' = "running"
      BY <2>4 DEF CreateStackFrame, slot, Idle
    <2>7. /\ Len(frames') = n + 1
          /\ \A i \in 1 .. n : frames'[i] = frames[i]
          /\ frames'[n + 1].fp = stackPointer /\ frames'[n + 1].own = {}
      <3> DEFINE F == [fp : Aligned32, own : SUBSET Words]
                 top == [fp |-> stackPointer, own |-> {}]
      <3>1. frames \in Seq(F) /\ top \in F
        BY <1>1 DEF TypeOK
      <3>2. top.fp = stackPointer /\ top.own = {}
        OBVIOUS
      <3> HIDE DEF F, top
      <3>3. QED
        BY <2>6, <3>1, <3>2, AppendElements DEF top
    <2> HIDE DEF n
    <2>9. n \in Nat /\ n >= 1
      BY <1>1, FrameTypes DEF n
    <2> DEFINE End(i) == IF i = 1 THEN frames'[1].fp
                         ELSE SavedSlot(frames'[i].fp)
    <2>8. /\ \A i \in 1 .. n : End(i) = BlocksEnd(i)
          /\ End(n + 1) = slot
      <3>1. 1 \in 1 .. n /\ n + 1 # 1 /\ frames'[1] = frames[1]
        BY <2>7, <2>9
      <3>2. ASSUME NEW i \in 1 .. n PROVE End(i) = BlocksEnd(i)
        <4>1. frames'[i] = frames[i]
          BY <2>7
        <4>2. QED
          BY <3>1, <4>1 DEF BlocksEnd
      <3>3. End(n + 1) = slot
        BY <2>3, <2>7, <3>1
      <3>4. QED
        BY <3>2, <3>3
    <2> HIDE DEF End
    <2>10. FrameLayout'
      <3>1. ASSUME NEW i \in 1 .. n + 1
            PROVE  /\ frames'[i].fp % ALIGNMENT = 0
                   /\ slot <= End(i) /\ frames'[i].fp <= MEM_SIZE
                   /\ \A a \in frames'[i].own : slot <= a /\ a < End(i)
        <4>1. CASE i = n + 1
          BY <2>1, <2>2, <2>7, <2>8, <4>1
        <4>2. CASE i \in 1 .. n
          <5>1. /\ frames[i].fp % ALIGNMENT = 0
                /\ stackPointer <= BlocksEnd(i) /\ frames[i].fp <= MEM_SIZE
                /\ \A a \in frames[i].own :
                     stackPointer <= a /\ a < BlocksEnd(i) /\ a \in Int
            BY <1>1, <2>1, <4>2, FrameTypes
            DEF StackInv, FrameLayout, n, Words
          <5>2. BlocksEnd(i) \in Int /\ stackPointer \in Int
            BY <1>1, <4>2, FrameTypes DEF n
          <5>3. QED
            BY <2>1, <2>3, <2>7, <2>8, <4>2, <5>1, <5>2
        <4>3. QED
          BY <2>9, <4>1, <4>2
      <3>2. ASSUME NEW i \in 1 .. n + 1, NEW j \in 1 .. n + 1, i < j
            PROVE  /\ frames'[j].fp <= End(i)
                   /\ \A a \in frames'[i].own : frames'[j].fp <= a
        <4>1. i \in 1 .. n
          BY <2>9, <3>2
        <4>2. CASE j = n + 1
          BY <2>1, <2>7, <2>8, <4>1, <4>2 DEF StackInv, FrameLayout, n
        <4>3. CASE j \in 1 .. n
          BY <2>1, <2>7, <2>8, <3>2, <4>1, <4>3 DEF StackInv, FrameLayout, n
        <4>4. QED
          BY <2>9, <4>2, <4>3
      <3>3. slot % ALIGNMENT = 0 /\ 1 \in 1 .. n
        BY <2>5, <2>9
      <3>4. QED
        BY <2>1, <2>2, <2>6, <2>7, <3>1, <3>2, <3>3 DEF FrameLayout, STACK_BOTTOM, BlocksEnd, End
    <2>11. FrameChain'
      <3>1. framePointer' = frames'[Len(frames')].fp
        BY <2>6, <2>7
      <3>2. ASSUME NEW i \in 2 .. n + 1
            PROVE  mem'[SavedSlot(frames'[i].fp)] = frames'[i - 1].fp
        <4>1. CASE i = n + 1
          <5>1. framePointer = frames[n].fp
            BY <2>1 DEF StackInv, FrameChain, n
          <5>2. mem'[slot] = framePointer
            BY <1>1, <2>5, <2>6 DEF TypeOK
          <5>3. frames'[i].fp = stackPointer /\ i - 1 = n /\ n \in 1 .. n
            BY <2>7, <2>9, <4>1
          <5>4. QED
            BY <2>3, <2>7, <5>1, <5>2, <5>3
        <4>2. CASE i \in 2 .. n
          <5>1. mem[SavedSlot(frames[i].fp)] = frames[i - 1].fp
            BY <2>1, <4>2 DEF StackInv, FrameChain, n
          <5>2. i \in 1 .. n /\ i - 1 \in 1 .. n /\ i # 1
            BY <2>9, <4>2
          <5>3. stackPointer <= BlocksEnd(i) /\ BlocksEnd(i) = SavedSlot(frames[i].fp)
            BY <2>1, <5>2 DEF StackInv, FrameLayout, n, BlocksEnd
          <5>4. SavedSlot(frames[i].fp) # slot
            BY <1>1, <2>3, <5>2, <5>3, FrameTypes DEF n
          <5>5. mem'[SavedSlot(frames[i].fp)] = mem[SavedSlot(frames[i].fp)]
            BY <1>1, <2>6, <5>4 DEF TypeOK
          <5>6. QED
            BY <2>7, <5>1, <5>2, <5>5
        <4>3. QED
          BY <2>9, <4>1, <4>2
      <3>3. QED
        BY <2>7, <3>1, <3>2 DEF FrameChain, SavedSlot
    <2>12. FaultMeansOverrun'
      BY <2>6 DEF FaultMeansOverrun
    <2>13. QED
      BY <2>10, <2>11, <2>12 DEF StackInv
  <1>4. QED
    BY <1>2, <1>3

(* Dropping the last element keeps the others. *)
LEMMA FrontElements ==
  ASSUME NEW S, NEW s \in Seq(S), NEW n \in Nat, n = Len(s), n >= 1
  PROVE  /\ Len(SubSeq(s, 1, n - 1)) = n - 1
         /\ \A i \in 1 .. n - 1 : SubSeq(s, 1, n - 1)[i] = s[i]
  OBVIOUS

(* destroyStackFrame finds the caller's frame pointer in its slot. *)
LEMMA DestroyStackInv ==
  ASSUME StackInv, DestroyStackFrame, status = "running", HeapInv'
  PROVE  StackInv'
  <1> DEFINE n == Len(frames)
             slot == SavedSlot(framePointer)
  <1>1. TypeOK /\ HeapInv
    BY DEF StackInv, HeapInv
  <1>2. CASE overrun'
    BY <1>2 DEF StackInv, FrameLayout, FrameChain, FaultMeansOverrun
  <1>3. CASE ~overrun'
    <2>1. ~overrun
      BY <1>3 DEF DestroyStackFrame, NoteOverrun
    <2>2. n \in Nat /\ n >= 2 /\ n \in 1 .. n /\ n \in 2 .. n
          /\ n - 1 \in 1 .. n - 1 /\ n - 1 \in Nat
      BY <1>1 DEF DestroyStackFrame, TypeOK
    <2>3. framePointer = frames[n].fp /\ framePointer \in Int
      BY <1>1, <2>1, FrameTypes DEF StackInv, FrameChain
    <2>4. /\ slot = BlocksEnd(n) /\ stackPointer <= slot /\ slot \in Int
          /\ framePointer <= MEM_SIZE /\ framePointer % ALIGNMENT = 0
          /\ STACK_BOTTOM <= stackPointer
      <3>1. n # 1
        <4> HIDE DEF n
        <4>1. QED
          BY <2>2
      <3>2. slot = BlocksEnd(n)
        BY <2>3, <3>1 DEF BlocksEnd
      <3>3. QED
        BY <1>1, <2>1, <2>2, <2>3, <3>2, FrameTypes DEF StackInv, FrameLayout
    <2>5. STACK_BOTTOM <= slot /\ slot < MEM_SIZE /\ slot < framePointer
          /\ STACK_BOTTOM <= framePointer
      BY <1>1, <2>3, <2>4, FrameTypes, SizeAssumption
      DEF SavedSlot, ALIGNMENT, STACK_BOTTOM
    <2>6. Mapped(slot)
      BY <1>1, <2>4, <2>5, StackMapped
    <2>7. mem[slot] = frames[n - 1].fp
      BY <2>1, <2>2, <2>3 DEF StackInv, FrameChain
    <2>8. /\ framePointer' = frames[n - 1].fp /\ stackPointer' = frames[n].fp
          /\ frames' = SubSeq(frames, 1, n - 1)
          /\ mem' = mem /\ dataEnd' = dataEnd /\ status' = "running"
      BY <2>3, <2>6, <2>7 DEF DestroyStackFrame
    <2>9. /\ Len(frames') = n - 1
          /\ \A i \in 1 .. n - 1 : frames'[i] = frames[i]
      <3> DEFINE F == [fp : Aligned32, own : SUBSET Words]
      <3>1. frames \in Seq(F)
        BY <1>1 DEF TypeOK
      <3> HIDE DEF F
      <3>2. QED
        BY <2>2, <2>8, <3>1, FrontElements
    <2> HIDE DEF n, slot
    <2> DEFINE End(i) == IF i = 1 THEN frames'[1].fp
                         ELSE SavedSlot(frames'[i].fp)
    <2>10. \A i \in 1 .. n - 1 : End(i) = BlocksEnd(i)
      <3>1. frames'[1] = frames[1]
        BY <2>2, <2>9
      <3>2. QED
        BY <2>9, <3>1 DEF BlocksEnd
    <2> HIDE DEF End
    <2>11. \A i \in 1 .. n - 1 : i \in 1 .. n /\ i < n
      BY <2>2
    <2>12. FrameLayout'
      <3>1. ASSUME NEW i \in 1 .. n - 1
            PROVE  /\ frames'[i].fp % ALIGNMENT = 0
                   /\ stackPointer' <= End(i) /\ frames'[i].fp <= MEM_SIZE
                   /\ \A a \in frames'[i].own : stackPointer' <= a /\ a < End(i)
        BY <2>1, <2>2, <2>8, <2>9, <2>10, <2>11 DEF StackInv, FrameLayout, n
      <3>2. ASSUME NEW i \in 1 .. n - 1, NEW j \in 1 .. n - 1, i < j
            PROVE  /\ frames'[j].fp <= End(i)
                   /\ \A a \in frames'[i].own : frames'[j].fp <= a
        BY <2>1, <2>9, <2>10, <2>11, <3>2 DEF StackInv, FrameLayout, n
      <3>3. frames'[1].fp = MEM_SIZE /\ dataEnd' <= DATA_SIZE
        BY <2>1, <2>2, <2>8, <2>9 DEF StackInv, FrameLayout
      <3>4. STACK_BOTTOM <= stackPointer' /\ stackPointer' % ALIGNMENT = 0
        BY <2>3, <2>4, <2>5, <2>8
      <3>5. QED
        BY <2>9, <3>1, <3>2, <3>3, <3>4
        DEF FrameLayout, STACK_BOTTOM, BlocksEnd, End
    <2>13. FrameChain'
      <3>1. framePointer' = frames'[Len(frames')].fp
        BY <2>2, <2>8, <2>9
      <3>2. ASSUME NEW i \in 2 .. n - 1
            PROVE  mem'[SavedSlot(frames'[i].fp)] = frames'[i - 1].fp
        <4>1. i \in 1 .. n - 1 /\ i - 1 \in 1 .. n - 1 /\ i \in 2 .. n
          BY <2>2
        <4>2. QED
          BY <2>1, <2>8, <2>9, <4>1 DEF StackInv, FrameChain, n
      <3>3. QED
        BY <2>9, <3>1, <3>2 DEF FrameChain, SavedSlot
    <2>14. FaultMeansOverrun'
      BY <2>8 DEF FaultMeansOverrun
    <2>15. QED
      BY <2>12, <2>13, <2>14 DEF StackInv
  <1>4. QED
    BY <1>2, <1>3

(* Writing one element keeps length and the others. *)
LEMMA ExceptElements ==
  ASSUME NEW S, NEW s \in Seq(S), NEW k \in 1 .. Len(s), NEW e \in S
  PROVE  /\ Len([s EXCEPT ![k] = e]) = Len(s)
         /\ \A i \in 1 .. Len(s) :
              [s EXCEPT ![k] = e][i] = IF i = k THEN e ELSE s[i]
  OBVIOUS

(* allocateStack places a block below everything that is live. *)
LEMMA AllocateStackInv ==
  ASSUME StackInv, NEW size \in AllocSizes, AllocateStack(size), HeapInv'
  PROVE  StackInv'
  <1> DEFINE n == Len(frames)
             sp == alignOffsetDown(stackPointer - size, ALIGNMENT)
             new == BlockWords(sp, size)
  <1>1. TypeOK /\ HeapInv
    BY DEF StackInv, HeapInv
  <1>2. CASE overrun'
    BY <1>2 DEF StackInv, FrameLayout, FrameChain, FaultMeansOverrun
  <1>3. CASE ~overrun'
    <2>1. ~overrun
      BY <1>3 DEF AllocateStack, NoteOverrun
    <2>2. n \in Nat /\ n >= 1 /\ n \in 1 .. n /\ 1 \in 1 .. n
      BY <1>1, FrameTypes
    <2>3. /\ sp \in Int /\ sp % ALIGNMENT = 0 /\ stackPointer' = sp
          /\ sp + size <= stackPointer /\ size \in Nat
          /\ stackPointer \in Int
      <3>1. stackPointer - size \in Int /\ size \in Nat /\ stackPointer \in Int
        BY <1>1, FrameTypes, InputAssumption
      <3>2. /\ sp \in Int /\ sp % ALIGNMENT = 0 /\ sp <= stackPointer - size
        BY <3>1, AlignDown8
      <3>3. stackPointer' = sp
        BY DEF AllocateStack
      <3> HIDE DEF sp
      <3>4. QED
        BY <3>1, <3>2, <3>3
    <2>4. STACK_BOTTOM <= sp
      <3>1. STACK_BOTTOM \in Int
        BY SizeAssumption DEF STACK_BOTTOM
      <3>2. ~(sp < STACK_BOTTOM)
        BY <1>3, <2>3 DEF AllocateStack, NoteOverrun
      <3> HIDE DEF sp
      <3>3. QED
        BY <2>3, <3>1, <3>2
    <2>5. /\ Len(frames') = n
          /\ \A i \in 1 .. n : frames'[i].fp = frames[i].fp
          /\ \A i \in 1 .. n : i # n => frames'[i].own = frames[i].own
          /\ frames'[n].own = frames[n].own \cup new
      <3> DEFINE F == [fp : Aligned32, own : SUBSET Words]
                 top == [frames[n] EXCEPT !.own = @ \cup new]
      <3>1. frames \in Seq(F)
        BY <1>1 DEF TypeOK
      <3> HIDE DEF F
      <3>2. frames[n] \in F
        BY <2>2, <3>1
      <3>3. top \in F /\ top.fp = frames[n].fp /\ top.own = frames[n].own \cup new
        BY <3>2 DEF F, BlockWords
      <3>4. frames' = [frames EXCEPT ![n] = top]
        BY <2>3 DEF AllocateStack, StackBlock
      <3> HIDE DEF top
      <3>5. /\ Len(frames') = n
            /\ \A i \in 1 .. n : frames'[i] = IF i = n THEN top ELSE frames[i]
        BY <2>2, <3>1, <3>3, <3>4, ExceptElements
      <3>6. QED
        BY <2>2, <3>3, <3>5
    <2> HIDE DEF sp
    <2>6. \A a \in new : a \in Int /\ sp <= a /\ a < stackPointer
      BY <2>3 DEF BlockWords, Words
    <2>7. /\ framePointer' = framePointer /\ mem' = mem
          /\ dataEnd' = dataEnd /\ status' = "running"
      BY DEF AllocateStack, Idle
    <2> HIDE DEF n, new
    <2> DEFINE End(i) == IF i = 1 THEN frames'[1].fp
                         ELSE SavedSlot(frames'[i].fp)
    <2>8. \A i \in 1 .. n : End(i) = BlocksEnd(i)
      BY <2>2, <2>5 DEF BlocksEnd
    <2> HIDE DEF End
    <2>9. \A i \in 1 .. n : /\ BlocksEnd(i) \in Int
                            /\ frames[i].own \subseteq Int
      BY <1>1, FrameTypes DEF n, Words
    <2>10. FrameLayout'
      <3>1. ASSUME NEW i \in 1 .. n
            PROVE  /\ frames'[i].fp % ALIGNMENT = 0
                   /\ sp <= End(i) /\ frames'[i].fp <= MEM_SIZE
                   /\ \A a \in frames'[i].own : sp <= a /\ a < End(i)
        <4>1. /\ frames[i].fp % ALIGNMENT = 0
              /\ stackPointer <= BlocksEnd(i) /\ frames[i].fp <= MEM_SIZE
              /\ \A a \in frames[i].own : stackPointer <= a /\ a < BlocksEnd(i)
          BY <2>1 DEF StackInv, FrameLayout, n
        <4>2. sp <= stackPointer
          BY <2>3
        <4>3. frames'[i].own \subseteq frames[i].own \cup new
          BY <2>5
        <4>4. ASSUME NEW a \in frames'[i].own
              PROVE  sp <= a /\ a < BlocksEnd(i)
          <5>1. CASE a \in frames[i].own
            BY <2>3, <2>9, <4>1, <4>2, <5>1
          <5>2. CASE a \in new
            BY <2>3, <2>6, <2>9, <4>1, <5>2
          <5>3. QED
            BY <4>3, <5>1, <5>2
        <4>5. QED
          BY <2>3, <2>5, <2>8, <2>9, <4>1, <4>2, <4>4
      <3>2. ASSUME NEW i \in 1 .. n, NEW j \in 1 .. n, i < j
            PROVE  /\ frames'[j].fp <= End(i)
                   /\ \A a \in frames'[i].own : frames'[j].fp <= a
        <4>1. i # n
          BY <2>2, <3>2
        <4>2. QED
          BY <2>1, <2>5, <2>8, <3>2, <4>1 DEF StackInv, FrameLayout, n
      <3>3. frames'[1].fp = MEM_SIZE /\ dataEnd' <= DATA_SIZE
        BY <2>1, <2>2, <2>5, <2>7 DEF StackInv, FrameLayout
      <3>4. QED
        BY <2>3, <2>4, <2>5, <3>1, <3>2, <3>3
        DEF FrameLayout, STACK_BOTTOM, BlocksEnd, End
    <2>11. FrameChain'
      <3>1. framePointer' = frames'[Len(frames')].fp
        BY <2>1, <2>2, <2>5, <2>7 DEF StackInv, FrameChain, n
      <3>2. ASSUME NEW i \in 2 .. n
            PROVE  mem'[SavedSlot(frames'[i].fp)] = frames'[i - 1].fp
        <4>1. i \in 1 .. n /\ i - 1 \in 1 .. n
          BY <2>2
        <4>2. QED
          BY <2>1, <2>5, <2>7, <4>1 DEF StackInv, FrameChain, n
      <3>3. QED
        BY <2>5, <3>1, <3>2 DEF FrameChain, SavedSlot
    <2>12. FaultMeansOverrun'
      BY <2>7 DEF FaultMeansOverrun
    <2>13. QED
      BY <2>10, <2>11, <2>12 DEF StackInv
  <1>4. QED
    BY <1>2, <1>3

(* While the segments suffice, no word the program owns is a slot that     *)
(* holds a frame pointer, and every owned word is mapped.                  *)
LEMMA OwnedIsNoSlot ==
  ASSUME StackInv, ~overrun, NEW addr \in OwnedStatic \cup OwnedStack,
         NEW i \in 2 .. Len(frames)
  PROVE  addr # SavedSlot(frames[i].fp)
  <1> DEFINE n == Len(frames)
             slot == SavedSlot(frames[i].fp)
  <1> SUFFICES addr # slot
    OBVIOUS
  <1>1. TypeOK /\ HeapInv
    BY DEF StackInv, HeapInv
  <1>2. n \in Nat /\ n >= 1
    BY <1>1, FrameTypes
  <1> HIDE DEF n
  <1>3. i \in 1 .. n /\ i # 1 /\ i \in Int
    BY <1>2 DEF n
  <1>4. /\ slot = BlocksEnd(i) /\ slot \in Int /\ frames[i].fp \in Int
        /\ stackPointer \in Int /\ slot < frames[i].fp
        /\ STACK_BOTTOM <= stackPointer /\ stackPointer <= slot
    <2>1. slot = BlocksEnd(i)
      BY <1>3 DEF BlocksEnd
    <2>2. slot \in Int /\ frames[i].fp \in Int /\ stackPointer \in Int
      BY <1>1, <1>3, FrameTypes DEF n
    <2>3. slot < frames[i].fp
      BY <2>2 DEF SavedSlot, ALIGNMENT
    <2>4. STACK_BOTTOM <= stackPointer /\ stackPointer <= BlocksEnd(i)
      BY <1>3 DEF StackInv, FrameLayout, n
    <2>5. QED
      BY <2>1, <2>2, <2>3, <2>4
  <1> HIDE DEF slot
  <1>5. CASE addr \in OwnedStatic
    <2>1. addr \in Int /\ addr < STACK_BOTTOM
      <3>1. /\ dataEnd \in Int /\ heapEnd \in Int /\ dataEnd <= DATA_SIZE
            /\ heapEnd <= STACK_BOTTOM /\ DATA_SIZE <= STACK_BOTTOM
            /\ DATA_SIZE \in Int /\ STACK_BOTTOM \in Int
        BY <1>1, SizeAssumption
        DEF StackInv, HeapInv, HeapInBounds, FrameLayout, TypeOK, STACK_BOTTOM
      <3>2. addr \in Int /\ (addr < dataEnd \/ addr < heapEnd)
        BY <1>5 DEF OwnedStatic, HeapWords, Words
      <3>3. QED
        BY <3>1, <3>2
    <2>2. STACK_BOTTOM \in Int
      BY SizeAssumption DEF STACK_BOTTOM
    <2>3. QED
      BY <1>4, <2>1, <2>2
  <1>6. CASE addr \in OwnedStack
    <2>1. PICK k \in 1 .. n : addr \in frames[k].own
      BY <1>6 DEF OwnedStack, n
    <2>2. addr \in Int /\ BlocksEnd(k) \in Int /\ frames[k].fp \in Int
      BY <1>1, <2>1, FrameTypes DEF Words, n
    <2>3. CASE k = i
      BY <1>3, <1>4, <2>1, <2>2, <2>3 DEF StackInv, FrameLayout, n
    <2>4. CASE k < i
      <3>1. frames[i].fp <= addr
        BY <1>3, <2>1, <2>4 DEF StackInv, FrameLayout, n
      <3>2. QED
        BY <1>4, <2>2, <3>1
    <2>5. CASE k > i
      <3>1. addr < BlocksEnd(k) /\ frames[k].fp <= BlocksEnd(i)
        BY <1>3, <2>1, <2>5 DEF StackInv, FrameLayout, n
      <3>2. BlocksEnd(k) < frames[k].fp
        BY <1>3, <2>2, <2>5 DEF BlocksEnd, SavedSlot, ALIGNMENT
      <3>3. QED
        BY <1>4, <2>2, <3>1, <3>2
    <2>6. k \in Int
      BY <1>2, <2>1
    <2>7. QED
      BY <1>3, <2>3, <2>4, <2>5, <2>6
  <1>7. QED
    BY <1>5, <1>6

(* While the segments suffice, every word the program owns has a page. *)
LEMMA OwnedIsMapped ==
  ASSUME StackInv, ~overrun, NEW addr \in OwnedStatic \cup OwnedStack
  PROVE  Mapped(addr) /\ addr \in Words
  <1> DEFINE n == Len(frames)
  <1>1. TypeOK /\ HeapInv
    BY DEF StackInv, HeapInv
  <1>2. CASE addr \in Words /\ ALIGNMENT <= addr /\ addr < dataEnd
    <2>1. addr \in Int /\ 0 <= addr
      BY <1>2 DEF Words
    <2>2. addr < DATA_SIZE
      BY <1>1, <1>2, <2>1, SizeAssumption DEF StackInv, FrameLayout, TypeOK
    <2>3. QED
      BY <1>1, <1>2, <2>1, <2>2, DataMapped
  <1>3. CASE addr \in HeapWords
    <2>1. addr \in Words /\ addr \in Int /\ DATA_SIZE <= addr /\ addr < heapEnd
      BY <1>3 DEF HeapWords, Words
    <2>2. addr \in DATA_SIZE .. heapEnd - 1
      BY <1>1, <2>1, SizeAssumption DEF TypeOK
    <2>3. Page(addr) \in pages
      BY <1>1, <2>2 DEF HeapInv, PagesPresent
    <2>4. QED
      BY <2>1, <2>3 DEF Mapped, Words
  <1>4. CASE addr \in OwnedStack
    <2>1. PICK k \in 1 .. n : addr \in frames[k].own
      BY <1>4 DEF OwnedStack
    <2>2. addr \in Words /\ addr \in Int
      BY <1>1, <2>1, FrameTypes DEF Words
    <2>3. STACK_BOTTOM <= stackPointer /\ stackPointer <= addr
      BY <2>1 DEF StackInv, FrameLayout
    <2>4. STACK_BOTTOM <= addr /\ addr < MEM_SIZE
      BY <1>1, <2>2, <2>3, FrameTypes, SizeAssumption DEF STACK_BOTTOM, Words
    <2>5. QED
      BY <1>1, <2>2, <2>4, StackMapped
  <1>5. QED
    BY <1>2, <1>3, <1>4 DEF OwnedStatic

(* A store of the program changes no slot and does not fault. *)
LEMMA StoreStackInv ==
  ASSUME StackInv, NEW addr \in StoreWords, NEW value \in Values,
         Store(addr, value), HeapInv'
  PROVE  StackInv'
  <1>1. TypeOK /\ HeapInv
    BY DEF StackInv, HeapInv
  <1>2. UNCHANGED <<dataEnd, framePointer, stackPointer, frames, overrun>>
        /\ status = "running" /\ addr \in OwnedStatic \cup OwnedStack
    BY DEF Store, Idle
  <1>3. FrameLayout'
    BY <1>2 DEF StackInv, FrameLayout, BlocksEnd, SavedSlot, STACK_BOTTOM
  <1>4. CASE overrun
    BY <1>2, <1>3, <1>4 DEF StackInv, FrameChain, FaultMeansOverrun
  <1>5. CASE ~overrun
    <2>1. mem' = [mem EXCEPT ![addr] = value] /\ status' = "running"
      BY <1>2, <1>5, OwnedIsMapped DEF Store
    <2>2. ASSUME NEW i \in 2 .. Len(frames)
          PROVE  mem'[SavedSlot(frames[i].fp)] = frames[i - 1].fp
      <3>1. addr # SavedSlot(frames[i].fp)
        BY <1>2, <1>5, OwnedIsNoSlot
      <3>2. mem'[SavedSlot(frames[i].fp)] = mem[SavedSlot(frames[i].fp)]
        BY <1>1, <2>1, <3>1 DEF TypeOK
      <3>3. QED
        BY <1>5, <3>2 DEF StackInv, FrameChain
    <2>3. FrameChain'
      BY <1>2, <1>5, <2>2 DEF StackInv, FrameChain, SavedSlot
    <2>4. QED
      BY <1>3, <2>1, <2>3 DEF StackInv, FaultMeansOverrun
  <1>6. QED
    BY <1>4, <1>5

(* Every operation keeps the strengthened invariant of the stack. *)
LEMMA NextStackInv == StackInv /\ [Next]_vars => StackInv'
  <1> SUFFICES ASSUME StackInv, [Next]_vars PROVE StackInv'
    OBVIOUS
  <1>1. HeapInv'
    BY NextHeapInv DEF StackInv
  <1>2. ASSUME UNCHANGED <<dataEnd, framePointer, stackPointer, mem, status,
                           frames, overrun>>
        PROVE  StackInv'
    BY <1>1, <1>2 DEF StackInv, FrameLayout, FrameChain, FaultMeansOverrun,
       BlocksEnd, SavedSlot, STACK_BOTTOM
  <1>3. CASE CreateStackFrame
    BY <1>1, <1>3, CreateStackInv
  <1>4. CASE ReturnFromFunction
    BY <1>1, <1>4, DestroyStackInv DEF ReturnFromFunction, Idle
  <1>5. ASSUME NEW k \in 1 .. MaxDepth, DestroyStackFrames(k)
        PROVE  StackInv'
    BY <1>2, <1>5 DEF DestroyStackFrames
  <1>6. CASE DestroyNext
    BY <1>1, <1>6, DestroyStackInv DEF DestroyNext
  <1>7. ASSUME NEW size \in AllocSizes, AllocateStack(size)
        PROVE  StackInv'
    BY <1>1, <1>7, AllocateStackInv
  <1>8. ASSUME NEW size \in AllocSizes, AllocateData(size)
        PROVE  StackInv'
    <2>1. CASE overrun'
      BY <1>1, <2>1 DEF StackInv, FrameLayout, FrameChain, FaultMeansOverrun
    <2>2. CASE ~overrun'
      <3>1. ~overrun /\ ~(dataEnd' > DATA_SIZE)
        BY <1>8, <2>2 DEF AllocateData, NoteOverrun
      <3>2. dataEnd' <= DATA_SIZE
        BY <1>1, <3>1, SizeAssumption DEF HeapInv, TypeOK
      <3>3. UNCHANGED <<framePointer, stackPointer, mem, status, frames>>
        BY <1>8 DEF AllocateData
      <3>4. FrameLayout'
        BY <3>1, <3>2, <3>3
        DEF StackInv, FrameLayout, BlocksEnd, SavedSlot, STACK_BOTTOM
      <3>5. FrameChain' /\ FaultMeansOverrun'
        BY <2>2, <3>1, <3>3
        DEF StackInv, FrameChain, FaultMeansOverrun, SavedSlot
      <3>6. QED
        BY <1>1, <3>4, <3>5 DEF StackInv
    <2>3. QED
      BY <2>1, <2>2
  <1>9. ASSUME NEW increment \in Increments, Sbrk(increment)
        PROVE  StackInv'
    BY <1>2, <1>9 DEF Sbrk
  <1>10. ASSUME NEW addr \in StoreWords, NEW value \in Values,
                Store(addr, value)
         PROVE  StackInv'
    BY <1>1, <1>10, StoreStackInv
  <1>11. CASE UNCHANGED vars
    BY <1>2, <1>11 DEF vars
  <1>12. QED
    BY <1>3, <1>4, <1>5, <1>6, <1>7, <1>8, <1>9, <1>10, <1>11 DEF Next

(* The strengthened invariant of the stack: heap, layout, chain and faults *)
(* are preserved together by createStackFrame, destroyStackFrame(s),       *)
(* allocateStack, allocateData, sbrk and the stores of the program.        *)
THEOREM StackInvariant == Spec => []StackInv
  BY InitStackInv, NextStackInv, InitHeapInv, PTL DEF Spec

(* For every memory and every program that stores only into what it owns:  *)
(* as long as data and stack fit their segments, each frame finds its      *)
(* caller's frame pointer intact.                                          *)
THEOREM FrameChainHolds == Spec => []FrameChain
  <1>1. StackInv => FrameChain
    BY DEF StackInv
  <1>2. QED
    BY <1>1, StackInvariant, PTL

(* As long as data and stack fit their segments, live frames and blocks    *)
(* are nested and lie above the heap.                                      *)
THEOREM FrameLayoutHolds == Spec => []FrameLayout
  <1>1. StackInv => FrameLayout
    BY DEF StackInv
  <1>2. QED
    BY <1>1, StackInvariant, PTL

(* A SegmentationFault in such a program means that it has exceeded the    *)
(* data segment or the stack.                                              *)
THEOREM FaultsNeedOverrun == Spec => []FaultMeansOverrun
  <1>1. StackInv => FaultMeansOverrun
    BY DEF StackInv
  <1>2. QED
    BY <1>1, StackInvariant, PTL

-----------------------------------------------------------------------------
(* Memory implements ObjectStore *)

(* The refinement mapping: what Memory puts for the variables of           *)
(* ObjectStore.                                                            *)
Static == IF overrun THEN [a \in {} |-> 0] ELSE Contents(OwnedStatic)
Stack == IF overrun THEN <<[a \in {} |-> 0]>>
         ELSE [i \in 1 .. Len(frames) |-> Contents(frames[i].own)]
Limits == IF overrun THEN "exceeded" ELSE "kept"

-----------------------------------------------------------------------------
(* The actions of ObjectStore in terms of the mapping *)

(* A new, empty frame: createStackFrame. *)
LEMMA MapCall ==
  ASSUME Limits = "kept", Limits' = "kept",
         Stack' = Append(Stack, [a \in {} |-> 0]), Static' = Static
  PROVE  Objects!Call
  BY DEF Objects!Call, Objects!Kept, Objects!NoWords, Static, Stack, Limits

(* The innermost frame goes: destroyStackFrame. *)
LEMMA MapReturn ==
  ASSUME Limits = "kept", Limits' = "kept", Len(Stack) > 1,
         Stack' = SubSeq(Stack, 1, Len(Stack) - 1), Static' = Static
  PROVE  Objects!Return
  BY DEF Objects!Return, Objects!Kept, Static, Stack, Limits

(* The innermost frame gains words: allocateStack. *)
LEMMA MapAllocate ==
  ASSUME Limits = "kept", Limits' = "kept", Len(Stack') = Len(Stack),
         \A i \in 1 .. Len(Stack) - 1 : Stack'[i] = Stack[i],
         DOMAIN Stack[Len(Stack)] \subseteq DOMAIN Stack'[Len(Stack)],
         \A a \in DOMAIN Stack[Len(Stack)] \cap DOMAIN Stack'[Len(Stack)] :
           Stack[Len(Stack)][a] = Stack'[Len(Stack)][a],
         \A i \in 1 .. Len(Stack') : DOMAIN Stack'[i] \cap DOMAIN Static' = {},
         \A i, j \in 1 .. Len(Stack') :
           i # j => DOMAIN Stack'[i] \cap DOMAIN Stack'[j] = {},
         Static' = Static
  PROVE  Objects!AllocateInFrame
  BY DEF Objects!AllocateInFrame, Objects!Kept, Objects!Agree, Objects!Disjoint, Static, Stack, Limits

(* The static words change: allocateData, sbrk. *)
LEMMA MapResize ==
  ASSUME Limits = "kept", Limits' = "kept", Stack' = Stack,
         \A a \in DOMAIN Static \cap DOMAIN Static' : Static[a] = Static'[a],
         \A i \in 1 .. Len(Stack') : DOMAIN Stack'[i] \cap DOMAIN Static' = {},
         \A i, j \in 1 .. Len(Stack') :
           i # j => DOMAIN Stack'[i] \cap DOMAIN Stack'[j] = {}
  PROVE  Objects!ResizeStatic
  BY DEF Objects!ResizeStatic, Objects!Kept, Objects!Agree, Objects!Disjoint, Static, Stack, Limits

(* A store to a static word. *)
LEMMA MapWriteStatic ==
  ASSUME Limits = "kept", Limits' = "kept", Stack' = Stack,
         NEW a \in DOMAIN Static, Static' = [Static EXCEPT ![a] = Static'[a]]
  PROVE  Objects!WriteStatic
  BY DEF Objects!WriteStatic, Objects!Kept, Static, Stack, Limits

(* A store to a word of any frame. *)
LEMMA MapWriteFrame ==
  ASSUME Limits = "kept", Limits' = "kept", Static' = Static,
         \E i \in 1 .. Len(Stack) : \E a \in DOMAIN Stack[i] :
           Stack' = [Stack EXCEPT ![i][a] = Stack'[i][a]]
  PROVE  Objects!WriteFrame
  BY Zenon DEF Objects!WriteFrame, Objects!Kept, Static, Stack, Limits

(* Beyond the limits ObjectStore promises nothing. *)
LEMMA MapExceed ==
  ASSUME overrun'
  PROVE  Objects!Exceed
  BY DEF Objects!Exceed, Objects!NoWords
-----------------------------------------------------------------------------
(* The mapping *)

(* Frames, and what objects hold. *)
FrameType == [fp : Aligned32, own : SUBSET Words]
WordMap == UNION {[own -> Aligned32] : own \in SUBSET Words}

(* What memory m holds in a set of words, and in the blocks of frames fr.  *)
In(m, own) == [a \in own |-> m[a]]
Blocks(m, fr) == [i \in 1 .. Len(fr) |-> In(m, fr[i].own)]

(* The blocks of the frames, as a sequence. *)
LEMMA BlocksSeq ==
  ASSUME NEW m \in [Words -> Aligned32], NEW fr \in Seq(FrameType)
  PROVE  /\ Blocks(m, fr) \in Seq(WordMap)
         /\ Len(Blocks(m, fr)) = Len(fr) /\ Len(fr) \in Nat
         /\ \A i \in 1 .. Len(fr) : Blocks(m, fr)[i] = In(m, fr[i].own)
  <1>1. Len(fr) \in Nat /\ \A i \in 1 .. Len(fr) : fr[i].own \subseteq Words
    <2>1. \A i \in 1 .. Len(fr) : fr[i] \in FrameType
      BY ElementOfSeq
    <2>2. QED
      BY <2>1, LenProperties DEF FrameType
  <1>2. \A i \in 1 .. Len(fr) : In(m, fr[i].own) \in WordMap
    <2> SUFFICES ASSUME NEW i \in 1 .. Len(fr)
                 PROVE  In(m, fr[i].own) \in WordMap
      OBVIOUS
    <2>1. In(m, fr[i].own) \in [fr[i].own -> Aligned32]
      BY <1>1 DEF In
    <2>2. QED
      BY <1>1, <2>1 DEF WordMap
  <1>3. Blocks(m, fr) \in [1 .. Len(fr) -> WordMap]
    BY <1>2 DEF Blocks
  <1>4. \A i \in 1 .. Len(fr) : Blocks(m, fr)[i] = In(m, fr[i].own)
    BY DEF Blocks
  <1>5. QED
    BY <1>1, <1>3, <1>4

(* A step that exceeds no segment, before and after. *)
KeptStep ==
  /\ Limits = "kept" /\ Limits' = "kept"
  /\ Static = In(mem, OwnedStatic) /\ Static' = In(mem', OwnedStatic')
  /\ Stack \in Seq(WordMap) /\ Stack' \in Seq(WordMap)
  /\ Len(frames) \in Nat /\ Len(frames') \in Nat
  /\ Len(Stack) = Len(frames) /\ Len(Stack') = Len(frames')
  /\ \A i \in 1 .. Len(frames) : Stack[i] = In(mem, frames[i].own)
  /\ \A i \in 1 .. Len(frames') : Stack'[i] = In(mem', frames'[i].own)

(* Both states of a step within the limits, as the mapping shows them. *)
LEMMA Mapping ==
  ASSUME TypeOK, TypeOK', ~overrun, ~overrun'
  PROVE  KeptStep
  <1>1. Limits = "kept" /\ Limits' = "kept"
    BY DEF Limits
  <1>2. Static = In(mem, OwnedStatic) /\ Static' = In(mem', OwnedStatic')
    BY DEF Static, Contents, In
  <1>3. Stack = Blocks(mem, frames) /\ Stack' = Blocks(mem', frames')
    BY DEF Stack, Contents, Blocks, In
  <1>4. /\ mem \in [Words -> Aligned32] /\ mem' \in [Words -> Aligned32]
        /\ frames \in Seq(FrameType) /\ frames' \in Seq(FrameType)
    BY DEF TypeOK, FrameType
  <1>5. /\ Stack \in Seq(WordMap) /\ Len(Stack) = Len(frames)
        /\ Len(frames) \in Nat
        /\ \A i \in 1 .. Len(frames) : Stack[i] = In(mem, frames[i].own)
    BY <1>3, <1>4, BlocksSeq
  <1>6. /\ Stack' \in Seq(WordMap) /\ Len(Stack') = Len(frames')
        /\ Len(frames') \in Nat
        /\ \A i \in 1 .. Len(frames') : Stack'[i] = In(mem', frames'[i].own)
    BY <1>3, <1>4, BlocksSeq
  <1>7. QED
    BY <1>1, <1>2, <1>5, <1>6 DEF KeptStep

(* Words that a step does not write keep their contents. *)
LEMMA InUnchanged ==
  ASSUME NEW m, NEW k, NEW own, \A a \in own : m[a] = k[a]
  PROVE  In(m, own) = In(k, own)
  BY DEF In

(* While the segments suffice, no two objects share a word. *)
ObjectsApart ==
  /\ \A i \in 1 .. Len(frames) : frames[i].own \cap OwnedStatic = {}
  /\ \A i, j \in 1 .. Len(frames) : i # j => frames[i].own \cap frames[j].own = {}

(* The layout of the stack keeps the objects apart. *)
LEMMA LayoutSeparates == StackInv /\ ~overrun => ObjectsApart
  <1> SUFFICES ASSUME StackInv, ~overrun PROVE ObjectsApart
    OBVIOUS
  <1>1. TypeOK /\ HeapInv
    BY DEF StackInv, HeapInv
  <1>2. /\ Len(frames) \in Nat /\ stackPointer \in Int
        /\ \A i \in 1 .. Len(frames) :
             frames[i].fp \in Int /\ BlocksEnd(i) \in Int /\ frames[i].own \subseteq Int
    BY <1>1, FrameTypes DEF Words
  <1>3. \A a \in OwnedStatic : a \in Int /\ a < STACK_BOTTOM
    <2>1. /\ dataEnd \in Int /\ heapEnd \in Int /\ dataEnd <= DATA_SIZE
          /\ heapEnd <= STACK_BOTTOM /\ DATA_SIZE <= STACK_BOTTOM
          /\ DATA_SIZE \in Int /\ STACK_BOTTOM \in Int
      BY <1>1, SizeAssumption
      DEF StackInv, HeapInv, HeapInBounds, FrameLayout, TypeOK, STACK_BOTTOM
    <2>2. \A a \in OwnedStatic : a \in Int /\ (a < dataEnd \/ a < heapEnd)
      BY DEF OwnedStatic, HeapWords, Words
    <2>3. QED
      BY <2>1, <2>2
  <1>4. ASSUME NEW i \in 1 .. Len(frames), NEW a \in frames[i].own
        PROVE  a \notin OwnedStatic
    <2>1. STACK_BOTTOM <= stackPointer /\ stackPointer <= a /\ a \in Int
      BY <1>2 DEF StackInv, FrameLayout
    <2>2. STACK_BOTTOM \in Int
      BY SizeAssumption DEF STACK_BOTTOM
    <2>3. QED
      BY <1>2, <1>3, <2>1, <2>2
  <1>5. ASSUME NEW i \in 1 .. Len(frames), NEW j \in 1 .. Len(frames), i < j,
               NEW a \in frames[i].own
        PROVE  a \notin frames[j].own
    <2>1. frames[j].fp <= a /\ a \in Int
      BY <1>2, <1>5 DEF StackInv, FrameLayout
    <2>2. BlocksEnd(j) < frames[j].fp
      BY <1>2, <1>5 DEF BlocksEnd, SavedSlot, ALIGNMENT
    <2>3. \A b \in frames[j].own : b \in Int /\ b < BlocksEnd(j)
      BY <1>2 DEF StackInv, FrameLayout
    <2>4. QED
      BY <1>2, <2>1, <2>2, <2>3
  <1>6. \A i, j \in 1 .. Len(frames) : i # j => i < j \/ j < i
    BY <1>2
  <1>7. QED
    BY <1>4, <1>5, <1>6 DEF ObjectsApart

(* The same in the next state. *)
LEMMA SeparatesNext ==
  ASSUME StackInv', ~overrun'
  PROVE  ObjectsApart'
  <1>1. (StackInv /\ ~overrun => ObjectsApart)'
    BY LayoutSeparates, PTL
  <1>2. QED
    BY <1>1
(* ... and so do the blocks of the frames and the static words. *)
LEMMA SameContents ==
  ASSUME KeptStep, OwnedStatic' = OwnedStatic,
         \A a \in OwnedStatic : mem'[a] = mem[a]
  PROVE  Static' = Static
  BY InUnchanged DEF KeptStep

(* ... and the blocks of the frames, where no frame was written. *)
LEMMA SameStack ==
  ASSUME KeptStep, frames' = frames,
         \A i \in 1 .. Len(frames) : \A a \in frames[i].own : mem'[a] = mem[a]
  PROVE  Stack' = Stack
  <1>1. \A i \in 1 .. Len(frames) : Stack'[i] = Stack[i]
    BY InUnchanged DEF KeptStep
  <1>2. QED
    BY <1>1, SeqEqual DEF KeptStep

(* The separation that ObjectStore asks of a step that allocates. *)
LEMMA DisjointNext ==
  ASSUME KeptStep, ObjectsApart'
  PROVE  /\ \A i \in 1 .. Len(Stack') : DOMAIN Stack'[i] \cap DOMAIN Static' = {}
         /\ \A i, j \in 1 .. Len(Stack') :
              i # j => DOMAIN Stack'[i] \cap DOMAIN Stack'[j] = {}
  <1>1. DOMAIN Static' = OwnedStatic'
    BY DEF KeptStep, In
  <1>2. \A i \in 1 .. Len(Stack') : DOMAIN Stack'[i] = frames'[i].own
    BY DEF KeptStep, In
  <1>3. QED
    BY <1>1, <1>2 DEF KeptStep, ObjectsApart

-----------------------------------------------------------------------------
(* The steps of Memory *)

(* createStackFrame pushes into a word that nobody owns. *)
LEMMA CreateRefines ==
  ASSUME StackInv, StackInv', ~overrun, ~overrun', CreateStackFrame
  PROVE  Objects!Call
  <1> DEFINE slot == alignOffsetDown(stackPointer - I32, ALIGNMENT)
             n == Len(frames)
             top == [fp |-> stackPointer, own |-> {}]
             NoW == [a \in {} |-> 0]
  <1>1. TypeOK /\ TypeOK' /\ HeapInv
    BY DEF StackInv, HeapInv
  <1>2. KeptStep
    BY <1>1, Mapping
  <1>3. /\ stackPointer \in Int /\ slot \in Int
        /\ STACK_BOTTOM <= slot /\ slot < stackPointer /\ STACK_BOTTOM \in Int
    <2>1. stackPointer \in Int /\ stackPointer - I32 \in Int /\ STACK_BOTTOM \in Int
      BY <1>1, FrameTypes, SizeAssumption DEF STACK_BOTTOM, I32
    <2>2. slot \in Int /\ slot <= stackPointer - I32
      BY <2>1, AlignDown8
    <2>3. slot >= STACK_BOTTOM
      <3>1. ~(slot < STACK_BOTTOM)
        BY DEF CreateStackFrame, NoteOverrun
      <3> HIDE DEF slot
      <3>2. QED
        BY <2>1, <2>2, <3>1
    <2> HIDE DEF slot
    <2>4. QED
      BY <2>1, <2>2, <2>3 DEF I32
  <1>4. status' # "segv"
    BY DEF StackInv, FaultMeansOverrun
  <1>5. /\ mem' = [mem EXCEPT ![slot] = framePointer]
        /\ frames' = Append(frames, top)
        /\ UNCHANGED <<dataEnd, heapEnd>>
    BY <1>4 DEF CreateStackFrame
  <1> HIDE DEF slot
  <1>6. \A a \in OwnedStatic : mem'[a] = mem[a]
    <2>1. \A a \in OwnedStatic : a # slot /\ a \in Words
      <3>1. /\ dataEnd \in Int /\ heapEnd \in Int /\ dataEnd <= DATA_SIZE
            /\ heapEnd <= STACK_BOTTOM /\ DATA_SIZE <= STACK_BOTTOM
            /\ DATA_SIZE \in Int
        BY <1>1, SizeAssumption
        DEF StackInv, HeapInv, HeapInBounds, FrameLayout, TypeOK, STACK_BOTTOM
      <3>2. \A a \in OwnedStatic :
              a \in Words /\ a \in Int /\ (a < dataEnd \/ a < heapEnd)
        BY DEF OwnedStatic, HeapWords, Words
      <3>3. QED
        BY <1>3, <3>1, <3>2
    <2>2. QED
      BY <1>1, <1>5, <2>1 DEF TypeOK
  <1>7. \A i \in 1 .. n : \A a \in frames[i].own : mem'[a] = mem[a]
    <2>1. \A i \in 1 .. n : \A a \in frames[i].own : a \in Words /\ a \in Int
      BY <1>1, FrameTypes DEF Words
    <2>2. \A i \in 1 .. n : \A a \in frames[i].own : stackPointer <= a
      BY DEF StackInv, FrameLayout
    <2>3. QED
      BY <1>1, <1>3, <1>5, <2>1, <2>2 DEF TypeOK
  <1>8. OwnedStatic' = OwnedStatic
    BY <1>5 DEF OwnedStatic, HeapWords, Words
  <1>9. Static' = Static
    BY <1>2, <1>6, <1>8, SameContents
  <1>10. /\ n \in Nat /\ Len(frames') = n + 1
         /\ \A i \in 1 .. n : frames'[i] = frames[i]
         /\ frames'[n + 1].own = {}
    <2>1. frames \in Seq(FrameType) /\ top \in FrameType /\ top.own = {}
      BY <1>1 DEF TypeOK, FrameType
    <2> HIDE DEF top
    <2>2. QED
      BY <1>5, <2>1, AppendProperties, LenProperties
  <1>11. NoW \in WordMap /\ In(mem', {}) = NoW
    <2>1. NoW \in [{} -> Aligned32] /\ In(mem', {}) = NoW
      BY DEF In
    <2>2. QED
      BY <2>1 DEF WordMap
  <1> HIDE DEF NoW
  <1>12. Stack' = Append(Stack, NoW)
    <2> DEFINE t == Append(Stack, NoW)
    <2>1. /\ t \in Seq(WordMap) /\ Len(t) = n + 1
          /\ \A i \in 1 .. n : t[i] = Stack[i]
          /\ t[n + 1] = NoW
      BY <1>2, <1>11, AppendProperties DEF KeptStep
    <2>2. \A i \in 1 .. n : Stack'[i] = Stack[i]
      BY <1>2, <1>7, <1>10, InUnchanged DEF KeptStep
    <2>3. Stack'[n + 1] = NoW
      <3>1. n + 1 \in 1 .. Len(frames')
        BY <1>10
      <3>2. Stack'[n + 1] = In(mem', frames'[n + 1].own)
        BY <1>2, <3>1 DEF KeptStep
      <3>3. QED
        BY <1>10, <1>11, <3>2
    <2> HIDE DEF t
    <2>4. \A i \in 1 .. n + 1 : Stack'[i] = t[i]
      BY <1>10, <2>1, <2>2, <2>3
    <2>5. Stack' = t
      BY <1>2, <1>10, <2>1, <2>4, SeqEqual DEF KeptStep
    <2>6. QED
      BY <2>5 DEF t
  <1>13. QED
    BY <1>2, <1>9, <1>12, MapCall DEF KeptStep, NoW
(* destroyStackFrame gives up the blocks of the frame on top, and writes   *)
(* nothing.                                                                *)
LEMMA DestroyRefines ==
  ASSUME StackInv, StackInv', ~overrun, ~overrun', DestroyStackFrame
  PROVE  Objects!Return
  <1> DEFINE n == Len(frames)
  <1>1. TypeOK /\ TypeOK'
    BY DEF StackInv, HeapInv
  <1>2. KeptStep
    BY <1>1, Mapping
  <1>3. status' # "segv"
    BY DEF StackInv, FaultMeansOverrun
  <1>4. /\ frames' = SubSeq(frames, 1, n - 1)
        /\ UNCHANGED <<dataEnd, heapEnd, mem>> /\ stackDepth > 0
    BY <1>3 DEF DestroyStackFrame
  <1>5. OwnedStatic' = OwnedStatic
    BY <1>4 DEF OwnedStatic, HeapWords, Words
  <1>6. Static' = Static
    BY <1>2, <1>4, <1>5, SameContents
  <1>7. n \in Nat /\ n > 1
    BY <1>1, <1>4 DEF TypeOK
  <1>8. /\ Len(frames') = n - 1
        /\ \A i \in 1 .. n - 1 : frames'[i] = frames[i]
    <2>1. frames \in Seq(FrameType)
      BY <1>1 DEF TypeOK, FrameType
    <2>2. QED
      BY <1>4, <1>7, <2>1, FrontElements
  <1> DEFINE t == SubSeq(Stack, 1, n - 1)
  <1>9. /\ t \in Seq(WordMap) /\ Len(t) = n - 1
        /\ \A i \in 1 .. n - 1 : t[i] = Stack[i]
    <2>1. \A i \in 1 .. n - 1 : Stack[i] \in WordMap
      BY <1>2, <1>7, ElementOfSeq DEF KeptStep
    <2>2. 1 \in Int /\ n - 1 \in Int /\ 1 <= n - 1
      BY <1>7
    <2> HIDE DEF n
    <2>3. QED
      BY <1>7, <2>1, <2>2, SubSeqProperties
  <1> HIDE DEF t
  <1>10. \A i \in 1 .. n - 1 : Stack'[i] = t[i]
    <2> SUFFICES ASSUME NEW i \in 1 .. n - 1 PROVE Stack'[i] = t[i]
      OBVIOUS
    <2>1. i \in 1 .. Len(frames) /\ i \in 1 .. Len(frames')
      BY <1>7, <1>8
    <2>2. Stack'[i] = In(mem', frames'[i].own) /\ Stack[i] = In(mem, frames[i].own)
      BY <1>2, <2>1 DEF KeptStep
    <2>3. QED
      BY <1>4, <1>8, <1>9, <2>2
  <1>11. Stack' = t
    BY <1>2, <1>8, <1>9, <1>10, SeqEqual DEF KeptStep
  <1>12. Len(Stack) > 1 /\ Stack' = SubSeq(Stack, 1, Len(Stack) - 1)
    BY <1>2, <1>7, <1>11 DEF KeptStep, t
  <1>13. QED
    BY <1>2, <1>6, <1>12, MapReturn DEF KeptStep

(* The frame on top after allocateStack. *)
LEMMA TopGrows ==
  ASSUME TypeOK, NEW size, AllocateStack(size)
  PROVE  /\ Len(frames') = Len(frames)
         /\ \A i \in 1 .. Len(frames) - 1 : frames'[i] = frames[i]
         /\ frames[Len(frames)].own \subseteq frames'[Len(frames)].own
  <1> DEFINE n == Len(frames)
             top == [frames[n] EXCEPT !.own =
                       @ \cup StackBlock(stackPointer, stackPointer', size)]
  <1>1. frames \in Seq(FrameType) /\ n \in Nat /\ n >= 1 /\ n \in 1 .. n
    BY DEF TypeOK, FrameType
  <1>2. frames[n] \in FrameType
    BY <1>1, ElementOfSeq
  <1>3. top \in FrameType /\ frames[n].own \subseteq top.own
    BY <1>2 DEF FrameType, StackBlock, BlockWords
  <1>4. frames' = [frames EXCEPT ![n] = top]
    BY DEF AllocateStack
  <1> HIDE DEF top, n
  <1>5. /\ Len(frames') = Len(frames)
        /\ \A i \in 1 .. Len(frames) : frames'[i] = IF i = n THEN top ELSE frames[i]
    <2>1. n \in 1 .. Len(frames)
      BY <1>1 DEF n
    <2>2. QED
      BY <1>1, <1>3, <1>4, <2>1, ExceptElements
  <1>6. \A i \in 1 .. n - 1 : i \in 1 .. n /\ i # n
    BY <1>1
  <1>7. QED
    BY <1>1, <1>3, <1>5, <1>6 DEF n

(* allocateStack adds words to the frame on top that no object has. *)
LEMMA AllocateStackRefines ==
  ASSUME StackInv, StackInv', ~overrun, ~overrun',
         NEW size \in AllocSizes, AllocateStack(size)
  PROVE  Objects!AllocateInFrame
  <1> DEFINE n == Len(frames)
  <1>1. TypeOK /\ TypeOK'
    BY DEF StackInv, HeapInv
  <1>2. KeptStep
    BY <1>1, Mapping
  <1>3. UNCHANGED <<dataEnd, heapEnd, mem>>
    BY DEF AllocateStack
  <1>4. OwnedStatic' = OwnedStatic
    BY <1>3 DEF OwnedStatic, HeapWords, Words
  <1>5. Static' = Static
    BY <1>2, <1>3, <1>4, SameContents
  <1>6. /\ Len(frames') = n
        /\ \A i \in 1 .. n - 1 : frames'[i] = frames[i]
        /\ frames[n].own \subseteq frames'[n].own
    BY <1>1, TopGrows
  <1>7. n \in Nat /\ n >= 1
    BY <1>1 DEF TypeOK
  <1>8. /\ n \in 1 .. n /\ \A i \in 1 .. n - 1 : i \in 1 .. n
    BY <1>7
  <1>9. \A i \in 1 .. n - 1 : Stack'[i] = Stack[i]
    BY <1>2, <1>3, <1>6, <1>8 DEF KeptStep
  <1>10. Stack[n] = In(mem, frames[n].own) /\ Stack'[n] = In(mem, frames'[n].own)
    BY <1>2, <1>3, <1>6, <1>8 DEF KeptStep
  <1>11. /\ DOMAIN Stack[n] \subseteq DOMAIN Stack'[n]
         /\ \A a \in DOMAIN Stack[n] \cap DOMAIN Stack'[n] : Stack[n][a] = Stack'[n][a]
    BY <1>6, <1>10 DEF In
  <1>12. ObjectsApart'
    BY SeparatesNext
  <1>13. Len(Stack) = n /\ Len(Stack') = n
    BY <1>2, <1>6 DEF KeptStep
  <1>14. /\ Len(Stack') = Len(Stack)
         /\ \A i \in 1 .. Len(Stack) - 1 : Stack'[i] = Stack[i]
         /\ DOMAIN Stack[Len(Stack)] \subseteq DOMAIN Stack'[Len(Stack)]
         /\ \A a \in DOMAIN Stack[Len(Stack)] \cap DOMAIN Stack'[Len(Stack)] :
              Stack[Len(Stack)][a] = Stack'[Len(Stack)][a]
    BY <1>9, <1>11, <1>13
  <1>15. /\ \A i \in 1 .. Len(Stack') : DOMAIN Stack'[i] \cap DOMAIN Static' = {}
         /\ \A i, j \in 1 .. Len(Stack') :
              i # j => DOMAIN Stack'[i] \cap DOMAIN Stack'[j] = {}
    BY <1>2, <1>12, DisjointNext
  <1>16. Limits = "kept" /\ Limits' = "kept"
    BY <1>2 DEF KeptStep
  <1>17. QED
    BY <1>5, <1>14, <1>15, <1>16, MapAllocate

(* allocateData and sbrk change the set of static words, not what they     *)
(* hold, and take none from the stack.                                     *)
LEMMA ResizeRefines ==
  ASSUME StackInv, StackInv', ~overrun, ~overrun', UNCHANGED <<mem, frames>>
  PROVE  Objects!ResizeStatic
  <1>1. TypeOK /\ TypeOK'
    BY DEF StackInv, HeapInv
  <1>2. KeptStep
    BY <1>1, Mapping
  <1>3. Stack' = Stack
    BY <1>2, SameStack
  <1>4. \A a \in DOMAIN Static \cap DOMAIN Static' : Static[a] = Static'[a]
    BY <1>2 DEF KeptStep, In
  <1>5. ObjectsApart'
    BY SeparatesNext
  <1>6. /\ \A i \in 1 .. Len(Stack') : DOMAIN Stack'[i] \cap DOMAIN Static' = {}
        /\ \A i, j \in 1 .. Len(Stack') :
             i # j => DOMAIN Stack'[i] \cap DOMAIN Stack'[j] = {}
    BY <1>2, <1>5, DisjointNext
  <1>7. Limits = "kept" /\ Limits' = "kept"
    BY <1>2 DEF KeptStep
  <1>8. QED
    BY <1>3, <1>4, <1>6, <1>7, MapResize
(* What a store to one word does to a set of words. *)
LEMMA InStored ==
  ASSUME NEW m, NEW k, NEW addr, NEW own,
         \A a \in own : a # addr => k[a] = m[a]
  PROVE  In(k, own) = [In(m, own) EXCEPT ![addr] = In(k, own)[addr]]
  BY DEF In

(* A store of the program changes one word of one object. *)
LEMMA StoreRefines ==
  ASSUME StackInv, StackInv', ~overrun, ~overrun',
         NEW addr \in StoreWords, NEW value \in Values, Store(addr, value)
  PROVE  Objects!WriteStatic \/ Objects!WriteFrame
  <1> DEFINE n == Len(frames)
  <1>1. TypeOK /\ TypeOK' /\ addr \in OwnedStatic \cup OwnedStack
    BY DEF StackInv, HeapInv, Store
  <1>2. KeptStep
    BY <1>1, Mapping
  <1>3. ObjectsApart
    BY LayoutSeparates
  <1>4. Mapped(addr) /\ addr \in Words
    BY <1>1, OwnedIsMapped
  <1>5. /\ mem' = [mem EXCEPT ![addr] = value] /\ mem \in [Words -> Aligned32]
        /\ UNCHANGED <<dataEnd, heapEnd, frames>>
    BY <1>1, <1>4 DEF Store, TypeOK
  <1>6. OwnedStatic' = OwnedStatic /\ OwnedStatic \subseteq Words
    BY <1>5 DEF OwnedStatic, HeapWords, Words
  <1>7. \A i \in 1 .. n : frames[i].own \in SUBSET Words
    BY <1>1, FrameTypes
  <1>8. CASE addr \in OwnedStatic
    <2>1. \A i \in 1 .. n : addr \notin frames[i].own
      BY <1>3, <1>8 DEF ObjectsApart
    <2>2. \A i \in 1 .. n : \A a \in frames[i].own : mem'[a] = mem[a]
      BY <1>5, <1>7, <2>1
    <2>3. Stack' = Stack
      BY <1>2, <1>5, <2>2, SameStack
    <2>4. In(mem', OwnedStatic) =
            [In(mem, OwnedStatic) EXCEPT ![addr] = In(mem', OwnedStatic)[addr]]
      <3>1. \A a \in OwnedStatic : a # addr => mem'[a] = mem[a]
        BY <1>5, <1>6
      <3>2. QED
        BY <3>1, InStored
    <2>5. Static = In(mem, OwnedStatic) /\ Static' = In(mem', OwnedStatic)
      BY <1>2, <1>6 DEF KeptStep
    <2>6. addr \in DOMAIN Static /\ Static' = [Static EXCEPT ![addr] = Static'[addr]]
      <3>1. DOMAIN In(mem, OwnedStatic) = OwnedStatic
        BY DEF In
      <3>2. QED
        BY <1>8, <2>4, <2>5, <3>1
    <2>7. Limits = "kept" /\ Limits' = "kept"
      BY <1>2 DEF KeptStep
    <2>8. QED
      BY <2>3, <2>6, <2>7, MapWriteStatic
  <1>9. CASE addr \in OwnedStack
    <2>1. PICK i \in 1 .. n : addr \in frames[i].own
      BY <1>9 DEF OwnedStack
    <2>2. addr \notin OwnedStatic /\ \A j \in 1 .. n : j # i => addr \notin frames[j].own
      BY <1>3, <2>1 DEF ObjectsApart
    <2>3. Static' = Static
      <3>1. \A a \in OwnedStatic : mem'[a] = mem[a]
        BY <1>5, <1>6, <2>2
      <3>2. QED
        BY <1>2, <1>6, <3>1, SameContents
    <2>4. /\ n \in Nat /\ Len(Stack) = n /\ Len(Stack') = n
          /\ Stack \in Seq(WordMap) /\ Stack' \in Seq(WordMap)
          /\ \A j \in 1 .. n : Stack[j] = In(mem, frames[j].own)
          /\ \A j \in 1 .. n : Stack'[j] = In(mem', frames[j].own)
      BY <1>2, <1>5 DEF KeptStep
    <2>5. Stack'[i] = [Stack[i] EXCEPT ![addr] = Stack'[i][addr]]
      <3>1. In(mem', frames[i].own) =
              [In(mem, frames[i].own) EXCEPT ![addr] = In(mem', frames[i].own)[addr]]
        <4>1. \A a \in frames[i].own : a # addr => mem'[a] = mem[a]
          BY <1>5, <1>7
        <4>2. QED
          BY <4>1 DEF In
      <3>2. QED
        BY <2>4, <3>1
    <2>6. \A j \in 1 .. n : j # i => Stack'[j] = Stack[j]
      <3>1. \A j \in 1 .. n : j # i => \A a \in frames[j].own : mem'[a] = mem[a]
        BY <1>5, <1>7, <2>2
      <3>2. \A j \in 1 .. n : j # i => In(mem', frames[j].own) = In(mem, frames[j].own)
        BY <3>1 DEF In
      <3>3. QED
        BY <2>4, <3>2
    <2> DEFINE w == Stack'[i]
               t == [Stack EXCEPT ![i] = w]
    <2>7. w \in WordMap
      BY <2>1, <2>4, ElementOfSeq
    <2> HIDE DEF n
    <2>8. /\ t \in Seq(WordMap) /\ Len(t) = n
          /\ \A j \in 1 .. n : t[j] = IF j = i THEN w ELSE Stack[j]
      <3> HIDE DEF w
      <3>1. QED
        BY <2>1, <2>4, <2>7, ExceptSeq
    <2> HIDE DEF t
    <2>9. Stack' = t
      <3>1. \A j \in 1 .. n : Stack'[j] = t[j]
        BY <2>6, <2>8
      <3>2. QED
        BY <2>4, <2>8, <3>1, SeqEqual
    <2>10. Stack' = [Stack EXCEPT ![i][addr] = Stack'[i][addr]]
      BY <2>5, <2>9 DEF t
    <2>11. i \in 1 .. Len(Stack) /\ addr \in DOMAIN Stack[i]
      BY <2>1, <2>4 DEF In
    <2>12. Limits = "kept" /\ Limits' = "kept"
      BY <1>2 DEF KeptStep
    <2>13. \E k \in 1 .. Len(Stack) : \E a \in DOMAIN Stack[k] :
             Stack' = [Stack EXCEPT ![k][a] = Stack'[k][a]]
      BY <2>10, <2>11
    <2>14. QED
      BY <2>3, <2>12, <2>13, MapWriteFrame
  <1>10. QED
    BY <1>1, <1>8, <1>9

(* A step that changes neither contents nor frames nor the breaks. *)
LEMMA StutterRefines ==
  ASSUME UNCHANGED <<dataEnd, heapEnd, mem, frames, overrun>>
  PROVE  Static' = Static /\ Stack' = Stack /\ Limits' = Limits
  BY DEF Static, Stack, Limits, Contents, OwnedStatic, HeapWords, Words

-----------------------------------------------------------------------------
(* The theorem *)

(* The static initialiser leaves no objects but an empty frame of the      *)
(* host.                                                                   *)
LEMMA InitRefines == Init => Objects!Init
  <1> SUFFICES ASSUME Init PROVE Objects!Init
    OBVIOUS
  <1> DEFINE NoW == [a \in {} |-> 0]
  <1>1. dataEnd = ALIGNMENT /\ heapEnd = DATA_SIZE
    BY AlignUp8 DEF Init
  <1>2. OwnedStatic = {}
    BY <1>1, SizeAssumption DEF OwnedStatic, HeapWords, Words, ALIGNMENT
  <1>3. Contents(OwnedStatic) = NoW
    BY <1>2 DEF Contents
  <1>4. Len(frames) = 1 /\ frames[1].own = {} /\ ~overrun
    BY DEF Init
  <1>5. [i \in 1 .. Len(frames) |-> Contents(frames[i].own)] = <<NoW>>
    <2>1. [i \in 1 .. Len(frames) |-> Contents(frames[i].own)] = [i \in 1 .. 1 |-> NoW]
      BY <1>4 DEF Contents
    <2>2. [i \in 1 .. 1 |-> NoW] = <<NoW>>
      <3> HIDE DEF NoW
      <3>1. QED
        OBVIOUS
    <2>3. QED
      BY <2>1, <2>2
  <1>6. QED
    BY <1>3, <1>4, <1>5 DEF Objects!Init, Objects!NoWords

(* Overrunning a segment is never undone. *)
LEMMA OverrunStays ==
  ASSUME TypeOK, [Next]_vars, overrun
  PROVE  overrun'
  BY DEF Next, vars, CreateStackFrame, ReturnFromFunction, DestroyStackFrame,
     DestroyStackFrames, DestroyNext, AllocateStack, AllocateData, Sbrk, Store,
     NoteOverrun

(* Every step of Memory is a step of ObjectStore, or none. *)
LEMMA StepRefines ==
  ASSUME StackInv, StackInv', [Next]_vars
  PROVE  Objects!Next \/ (Static' = Static /\ Stack' = Stack /\ Limits' = Limits)
  <1>1. CASE overrun'
    BY <1>1, MapExceed DEF Objects!Next
  <1>2. CASE ~overrun'
    <2>1. ~overrun
      BY <1>2, OverrunStays DEF StackInv, HeapInv
    <2>2. CASE CreateStackFrame
      BY <1>2, <2>1, <2>2, CreateRefines DEF Objects!Next
    <2>3. CASE ReturnFromFunction \/ DestroyNext
      BY <1>2, <2>1, <2>3, DestroyRefines DEF Objects!Next, ReturnFromFunction, DestroyNext
    <2>4. ASSUME NEW k \in 1 .. MaxDepth, DestroyStackFrames(k)
          PROVE  Static' = Static /\ Stack' = Stack /\ Limits' = Limits
      BY <2>4, StutterRefines DEF DestroyStackFrames
    <2>5. ASSUME NEW size \in AllocSizes, AllocateStack(size)
          PROVE  Objects!Next
      BY <1>2, <2>1, <2>5, AllocateStackRefines DEF Objects!Next
    <2>6. ASSUME NEW size \in AllocSizes, AllocateData(size)
          PROVE  Objects!Next
      BY <1>2, <2>1, <2>6, ResizeRefines DEF Objects!Next, AllocateData
    <2>7. ASSUME NEW increment \in Increments, Sbrk(increment)
          PROVE  Objects!Next
      BY <1>2, <2>1, <2>7, ResizeRefines DEF Objects!Next, Sbrk
    <2>8. ASSUME NEW addr \in StoreWords, NEW value \in Values, Store(addr, value)
          PROVE  Objects!Next
      BY <1>2, <2>1, <2>8, StoreRefines DEF Objects!Next
    <2>9. CASE UNCHANGED vars
      BY <2>9, StutterRefines DEF vars
    <2>10. QED
      BY <2>2, <2>3, <2>4, <2>5, <2>6, <2>7, <2>8, <2>9 DEF Next
  <1>3. QED
    BY <1>1, <1>2

(* The byte-addressed memory with its bump pointers implements a store of  *)
(* separate objects: createStackFrame, destroyStackFrame(s),               *)
(* allocateStack, allocateData, sbrk and the stores of the program are     *)
(* steps of ObjectStore or stutter, as long as the segments suffice.       *)
THEOREM MemoryImplementsObjects == Spec => ImplementsObjectStore
  <1>1. StackInv /\ StackInv' /\ [Next]_vars
          => [Objects!Next]_<<Static, Stack, Limits>>
    BY StepRefines
  <1>2. Objects!Init /\ [][Objects!Next]_<<Static, Stack, Limits>> => Objects!Spec
    BY DEF Objects!Spec, Static, Stack, Limits
  <1>3. QED
    BY <1>1, <1>2, InitRefines, StackInvariant, PTL DEF Spec, ImplementsObjectStore
=============================================================================
