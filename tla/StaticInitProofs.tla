-------------------------- MODULE StaticInitProofs --------------------------
(***************************************************************************)
(* Proofs about StaticInit, for any program: globals and functions never   *)
(* share an address, and the addresses that initialisers store are those   *)
(* their targets have.                                                     *)
(***************************************************************************)
EXTENDS StaticInit, FiniteRecursion, SequenceTheorems, FiniteSetTheorems,
        FunctionTheorems, TLAPS

(* The globals of a class, by number. *)
Globals(c) == DOMAIN program[c]

(* The data segment ends at an aligned address, above the null pointer. *)
DataInv ==
  /\ program \in Programs
  /\ dataEnd \in Nat /\ dataEnd % ALIGNMENT = 0 /\ dataEnd >= ALIGNMENT
  /\ DOMAIN field = Classes
  /\ \A c \in Classes : field[c] \in [Globals(c) -> 0 .. dataEnd]
  /\ status \in [Classes -> {"no", "running", "done"}]

(* Operation j of part k of some code, or behind its last part. *)
InCode(code, k, j) ==
  /\ k \in 1 .. Len(code) + 1 /\ j \in Nat \ {0}
  /\ k <= Len(code) => j <= Len(code[k])
  /\ k > Len(code) => j = 1

(* An initialiser's frame, given what classes and fields have become: it   *)
(* has allocated the globals before the current one, or all of them.       *)
FrameOK(fr, prog, st, fld) ==
  /\ fr.class \in DOMAIN prog /\ st[fr.class] = "running"
  /\ DOMAIN fr = {"class", "phase", "global", "part", "op", "addr"}
  /\ fr.phase \in {"allocate", "initialise"}
  /\ fr.phase = "allocate" =>
       /\ fr.global \in 1 .. Len(prog[fr.class]) + 1
       /\ \A g \in DOMAIN prog[fr.class] : fld[fr.class][g] # 0 <=> g < fr.global
  /\ fr.phase = "initialise" =>
       /\ fr.global \in 0 .. Len(prog[fr.class])
       /\ fr.global # 0 =>
            InCode(printStaticConstant(prog[fr.class][fr.global]), fr.part, fr.op)
       /\ \A g \in DOMAIN prog[fr.class] : fld[fr.class][g] # 0

(* The initialisers being run are those of the running classes, and only   *)
(* the innermost one may still be allocating.                              *)
StackInv ==
  /\ IsSequence(frames)
  /\ \A i \in 1 .. Len(frames) : FrameOK(frames[i], program, status, field)
  /\ \A i \in 1 .. Len(frames) : i # Len(frames) => frames[i].phase = "initialise"
  /\ \A i, j \in 1 .. Len(frames) : frames[i].class = frames[j].class => i = j
  /\ \A c \in Classes : status[c] = "running" => \E i \in 1 .. Len(frames) : frames[i].class = c

(* The other classes have allocated nothing, or everything. *)
ClassInv ==
  \A c \in Classes : \A g \in Globals(c) :
    /\ status[c] = "no" => field[c][g] = 0
    /\ status[c] = "done" => field[c][g] # 0

(* The size and the address of global p[2] of class p[1]. *)
Size(p) == AllocSize(program[p[1]][p[2]])
Address(p) == field[p[1]][p[2]]

(* Blocks follow each other in the data segment. *)
ApartInv ==
  /\ \A p \in Allocated : Address(p) >= ALIGNMENT /\ Address(p) + Size(p) <= dataEnd
  /\ \A a \in DOMAIN functionObjects : a \in Nat /\ a >= ALIGNMENT /\ a + 1 <= dataEnd
  /\ \A p, q \in Allocated :
       p # q => Address(p) + Size(p) <= Address(q) \/ Address(q) + Size(q) <= Address(p)
  /\ \A p \in Allocated : \A a \in DOMAIN functionObjects :
       Address(p) + Size(p) <= a \/ a + 1 <= Address(p)

(* functionObjects is the inverse of functionPointers. *)
RegistryInv ==
  /\ registeredClasses \subseteq Classes /\ IsFiniteSet(registeredClasses)
  /\ functionPointers \in [registeredClasses \X Methods -> DOMAIN functionObjects]
  /\ functionObjects \in [DOMAIN functionObjects -> registeredClasses \X Methods]
  /\ \A m \in registeredClasses \X Methods : functionObjects[functionPointers[m]] = m
  /\ \A a \in DOMAIN functionObjects : functionPointers[functionObjects[a]] = a

(* x is class, global, field and scalar of the program. *)
IsScalar(x) ==
  /\ x[1] \in Classes /\ x[2] \in Globals(x[1])
  /\ x[3] \in DOMAIN program[x[1]][x[2]] /\ x[4] \in DOMAIN program[x[1]][x[2]][x[3]]

(* v is the address of the target that scalar x is initialised with. *)
Resolved(x, v) ==
  /\ IsScalar(x)
  /\ InitOf(x).is = "global" => v = field[InitOf(x).class][InitOf(x).at] /\ v # 0
  /\ InitOf(x).is = "function" =>
       /\ InitOf(x).class \in registeredClasses
       /\ v = functionPointers[<<InitOf(x).class, InitOf(x).at>>]

(* A stored address is that of its target. *)
StoredInv == \A x \in DOMAIN stored : Resolved(x, stored[x].value)

(* The inductive invariant. *)
StaticInv == DataInv /\ StackInv /\ ClassInv /\ ApartInv /\ RegistryInv /\ StoredInv

-----------------------------------------------------------------------------
(* Sequences *)

(* Sequences over any set are sequences over their own elements. *)
LEMMA SeqIsSequence ==
  ASSUME NEW A, NEW s \in Seq(A)
  PROVE  IsSequence(s)
  <1>1. Len(s) \in Nat /\ s \in [1 .. Len(s) -> A] /\ DOMAIN s = 1 .. Len(s)
    BY LenProperties
  <1>2. s \in [1 .. Len(s) -> Range(s)]
    BY <1>1 DEF Range
  <1>3. QED
    BY <1>1, <1>2 DEF IsSequence

(* Length and domain. *)
LEMMA SequenceFacts ==
  ASSUME NEW s, IsSequence(s)
  PROVE  Len(s) \in Nat /\ DOMAIN s = 1 .. Len(s)
  BY LenProperties DEF IsSequence

(* Pushing an initialiser. *)
LEMMA AppendSequence ==
  ASSUME NEW s, IsSequence(s), NEW e
  PROVE  /\ IsSequence(Append(s, e)) /\ Len(Append(s, e)) = Len(s) + 1
         /\ \A i \in 1 .. Len(s) : Append(s, e)[i] = s[i]
         /\ Append(s, e)[Len(s) + 1] = e
  <1> DEFINE A == Range(s) \cup {e}
  <1>1. s \in Seq(A) /\ e \in A
    <2>1. s \in [1 .. Len(s) -> Range(s)] /\ Len(s) \in Nat
      BY LenProperties DEF IsSequence
    <2>2. s \in [1 .. Len(s) -> A]
      BY <2>1
    <2>3. QED
      BY <2>1, <2>2
  <1> HIDE DEF A
  <1>2. Append(s, e) \in Seq(A)
    BY <1>1
  <1>3. IsSequence(Append(s, e))
    BY <1>2, SeqIsSequence
  <1>4. QED
    BY <1>1, <1>3, AppendProperties

(* The last element replaced. *)
WithTop(s, e) == [s EXCEPT ![Len(s)] = e]

(* Replacing it leaves the others. *)
LEMMA ReplaceTop ==
  ASSUME NEW s, IsSequence(s), Len(s) # 0, NEW e
  PROVE  LET t == WithTop(s, e) IN
         /\ IsSequence(t) /\ Len(t) = Len(s) /\ t[Len(s)] = e
         /\ \A i \in 1 .. Len(s) : i # Len(s) => t[i] = s[i]
  <1> DEFINE A == Range(s) \cup {e}
             n == Len(s)
             t == WithTop(s, e)
  <1>1. s \in [1 .. n -> Range(s)] /\ n \in Nat
    BY LenProperties DEF IsSequence
  <1>2. t \in [1 .. n -> A]
    BY <1>1 DEF WithTop
  <1>3. n \in 1 .. n
    BY <1>1
  <1>4. t[n] = e /\ \A i \in 1 .. n : i # n => t[i] = s[i]
    BY <1>1, <1>3 DEF WithTop
  <1> HIDE DEF t, A, n
  <1>5. t \in Seq(A) /\ Len(t) = n
    BY <1>1, <1>2
  <1>6. IsSequence(t)
    BY <1>5, SeqIsSequence
  <1>7. QED
    BY <1>4, <1>5, <1>6 DEF t, n

(* Popping an initialiser. *)
LEMMA FrontSequence ==
  ASSUME NEW s, IsSequence(s), Len(s) # 0
  PROVE  /\ IsSequence(Front(s)) /\ Len(Front(s)) = Len(s) - 1
         /\ \A i \in 1 .. Len(s) - 1 : Front(s)[i] = s[i]
  <1>1. Len(s) \in Nat /\ s \in Seq(Range(s)) /\ Len(s) - 1 \in Nat
    BY LenProperties DEF IsSequence
  <1>2. /\ SubSeq(s, 1, Len(s) - 1) \in Seq(Range(s))
        /\ Len(SubSeq(s, 1, Len(s) - 1)) = Len(s) - 1
        /\ \A i \in 1 .. Len(s) - 1 : SubSeq(s, 1, Len(s) - 1)[i] = s[i]
    <2>1. 1 \in 1 .. Len(s) + 1 /\ Len(s) - 1 \in 1 - 1 .. Len(s)
      BY <1>1
    <2>2. (Len(s) - 1) - 1 + 1 = Len(s) - 1 /\ \A i \in 1 .. Len(s) - 1 : 1 + i - 1 = i
      BY <1>1
    <2>3. QED
      BY <1>1, <2>1, <2>2, SubSeqProperties
  <1>3. QED
    BY <1>2, SeqIsSequence DEF Front

(* A scalar's class and global, and its place in the global. *)
LEMMA Quadruple ==
  ASSUME NEW a, NEW b, NEW d, NEW e
  PROVE  <<a, b>> \o <<d, e>> = <<a, b, d, e>>
  <1> DEFINE S == {a, b, d, e}
  <1>1. <<a, b>> \in Seq(S) /\ <<d, e>> \in Seq(S) /\ <<a, b, d, e>> \in Seq(S)
    OBVIOUS
  <1>2. <<a, b>> \o <<d, e>> \in Seq(S)
    BY <1>1, ConcatProperties
  <1>3. Len(<<a, b>> \o <<d, e>>) = 4 /\ Len(<<a, b, d, e>>) = 4
    OBVIOUS
  <1> DEFINE x == <<a, b>> \o <<d, e>>
  <1>4. x[1] = a /\ x[2] = b /\ x[3] = d /\ x[4] = e
    OBVIOUS
  <1>5. \A i \in 1 .. 4 : x[i] = <<a, b, d, e>>[i]
    <2>1. \A i \in 1 .. 4 : i = 1 \/ i = 2 \/ i = 3 \/ i = 4
      OBVIOUS
    <2> HIDE DEF x
    <2>2. QED
      BY <1>4, <2>1
  <1>6. QED
    BY <1>1, <1>2, <1>3, <1>5, SeqEqual

-----------------------------------------------------------------------------
(* Alignment *)

(* The least multiple of a from n on. *)
IsAligned(m, n, a) ==
  /\ m \in Nat /\ m >= n /\ m % a = 0
  /\ \A k \in Nat : k >= n /\ k % a = 0 => m <= k

(* alignOffset as an equation. *)
LEMMA AlignEquation ==
  ASSUME NEW n \in Nat, NEW a \in Nat
  PROVE  alignOffset[n, a] = n + ((a - (n % a)) % a)
  BY DEF alignOffset

(* What alignOffset computes for the alignments of scalars. *)
LEMMA AlignLeast ==
  ASSUME NEW n \in Nat, NEW a \in {1, 2, 4, 8}
  PROVE  IsAligned(alignOffset[n, a], n, a)
  <1>1. PICK m : m = alignOffset[n, a]
    OBVIOUS
  <1>2. m = n + ((a - (n % a)) % a)
    BY <1>1, AlignEquation
  <1>3. CASE a = 1
    <2>1. m = n + ((1 - (n % 1)) % 1)
      BY <1>2, <1>3
    <2>2. IsAligned(m, n, 1)
      BY <2>1 DEF IsAligned
    <2>3. QED
      BY <1>1, <1>3, <2>2
  <1>4. CASE a = 2
    <2>1. m = n + ((2 - (n % 2)) % 2)
      BY <1>2, <1>4
    <2>2. IsAligned(m, n, 2)
      BY <2>1 DEF IsAligned
    <2>3. QED
      BY <1>1, <1>4, <2>2
  <1>5. CASE a = 4
    <2>1. m = n + ((4 - (n % 4)) % 4)
      BY <1>2, <1>5
    <2>2. IsAligned(m, n, 4)
      BY <2>1 DEF IsAligned
    <2>3. QED
      BY <1>1, <1>5, <2>2
  <1>6. CASE a = 8
    <2>1. m = n + ((8 - (n % 8)) % 8)
      BY <1>2, <1>6
    <2>2. IsAligned(m, n, 8)
      BY <2>1 DEF IsAligned
    <2>3. QED
      BY <1>1, <1>6, <2>2
  <1>7. QED
    BY <1>3, <1>4, <1>5, <1>6

(* An aligned offset; a multiple is left alone. *)
LEMMA AlignFacts ==
  ASSUME NEW n \in Nat, NEW a \in {1, 2, 4, 8}
  PROVE  /\ alignOffset[n, a] \in Nat /\ alignOffset[n, a] >= n /\ alignOffset[n, a] % a = 0
         /\ n % a = 0 => alignOffset[n, a] = n
  <1>1. PICK y : y = alignOffset[n, a]
    OBVIOUS
  <1>2. IsAligned(y, n, a)
    BY <1>1, AlignLeast
  <1>3. (n % a = 0 => y = n) /\ y \in Nat /\ y >= n /\ y % a = 0
    BY <1>2 DEF IsAligned
  <1>4. QED
    BY <1>1, <1>3

(* Aligning keeps the order of offsets. *)
LEMMA AlignMonotone ==
  ASSUME NEW m \in Nat, NEW n \in Nat, NEW a \in {1, 2, 4, 8}, m <= n
  PROVE  alignOffset[m, a] <= alignOffset[n, a]
  <1>1. PICK x : x = alignOffset[m, a]
    OBVIOUS
  <1>2. PICK y : y = alignOffset[n, a]
    OBVIOUS
  <1>3. IsAligned(x, m, a) /\ IsAligned(y, n, a)
    BY <1>1, <1>2, AlignLeast
  <1>4. x <= y
    BY <1>3 DEF IsAligned
  <1>5. QED
    BY <1>1, <1>2, <1>4

(* A multiple of the alignment in front changes nothing. *)
LEMMA AlignShift ==
  ASSUME NEW b \in Nat, NEW n \in Nat, NEW a \in {1, 2, 4, 8}, b % a = 0
  PROVE  alignOffset[b + n, a] = b + alignOffset[n, a]
  <1>1. PICK x : x = alignOffset[n, a]
    OBVIOUS
  <1>2. PICK y : y = alignOffset[b + n, a]
    OBVIOUS
  <1>3. x = n + ((a - (n % a)) % a)
    <2>1. a \in Nat
      OBVIOUS
    <2>2. QED
      BY <1>1, <2>1, AlignEquation
  <1>4. y = (b + n) + ((a - ((b + n) % a)) % a)
    <2>1. b + n \in Nat /\ a \in Nat
      OBVIOUS
    <2>2. QED
      BY <1>2, <2>1, AlignEquation
  <1>5. (b + n) % a = n % a
    <2>1. CASE a = 1
      BY <2>1
    <2>2. CASE a = 2
      <3>1. b % 2 = 0
        BY <2>2
      <3>2. (b + n) % 2 = n % 2
        BY <3>1
      <3>3. QED
        BY <2>2, <3>2
    <2>3. CASE a = 4
      <3>1. b % 4 = 0
        BY <2>3
      <3>2. (b + n) % 4 = n % 4
        BY <3>1
      <3>3. QED
        BY <2>3, <3>2
    <2>4. CASE a = 8
      <3>1. b % 8 = 0
        BY <2>4
      <3>2. (b + n) % 8 = n % 8
        BY <3>1
      <3>3. QED
        BY <2>4, <3>2
    <2>5. QED
      BY <2>1, <2>2, <2>3, <2>4
  <1>6. (a - (n % a)) % a \in Nat
    <2>1. n % a \in 0 .. a - 1
      OBVIOUS
    <2>2. QED
      BY <2>1
  <1>7. y = b + x
    <2>1. PICK r \in Nat : r = (a - (n % a)) % a
      BY <1>6
    <2>2. x = n + r /\ y = (b + n) + r
      BY <1>3, <1>4, <1>5, <2>1
    <2>3. QED
      BY <2>1, <2>2
  <1>8. QED
    BY <1>1, <1>2, <1>7

(* Of two alignments the smaller divides the larger. *)
LEMMA AlignDivides ==
  ASSUME NEW n \in Nat, NEW a \in {1, 2, 4, 8}, NEW b \in {1, 2, 4, 8}, a <= b, n % b = 0
  PROVE  n % a = 0
  <1>1. n % 8 = 0 => n % 4 = 0
    OBVIOUS
  <1>2. n % 4 = 0 => n % 2 = 0
    OBVIOUS
  <1>3. n % 1 = 0
    OBVIOUS
  <1>4. CASE a = 1
    BY <1>3, <1>4
  <1>5. CASE a = 2
    BY <1>1, <1>2, <1>5
  <1>6. CASE a = 4
    BY <1>1, <1>6
  <1>7. CASE a = 8
    BY <1>7
  <1>8. QED
    BY <1>4, <1>5, <1>6, <1>7

(* allocateData's rounding. *)
LEMMA AlignedUp ==
  ASSUME NEW n \in Nat
  PROVE  /\ alignOffset[n, ALIGNMENT] \in Nat /\ alignOffset[n, ALIGNMENT] >= n
         /\ alignOffset[n, ALIGNMENT] % ALIGNMENT = 0
  BY AlignFacts DEF ALIGNMENT

-----------------------------------------------------------------------------
(* LLVM's layout of a structure *)

(* Parts with a size and an alignment. *)
AreParts(parts) ==
  /\ IsSequence(parts)
  /\ \A i \in DOMAIN parts : parts[i].align \in {1, 2, 4, 8} /\ parts[i].size \in Nat

(* Where a part starts. *)
Start(parts, i) == alignOffset[Ends(parts)[i - 1], parts[i].align]

(* The recursion of Ends, for any parts. *)
LEMMA EndsRecursion ==
  ASSUME NEW parts, AreParts(parts)
  PROVE  /\ Ends(parts)[0] = 0 /\ \A i \in 0 .. Len(parts) : Ends(parts)[i] \in Nat
         /\ \A i \in 1 .. Len(parts) : Ends(parts)[i] = Start(parts, i) + parts[i].size
  <1> DEFINE n == Len(parts)
             Rule(i, v) == alignOffset[v, parts[i].align] + parts[i].size
             step == [p \in (1 .. n) \X Nat |-> Rule(p[1], p[2])]
             end == CHOOSE end : end = [i \in 0 .. n |-> IF i = 0 THEN 0 ELSE Rule(i, end[i - 1])]
  <1>1. /\ n \in Nat
        /\ \A i \in 1 .. n : parts[i].align \in {1, 2, 4, 8} /\ parts[i].size \in Nat
    BY SequenceFacts DEF AreParts
  <1>2. Ends(parts) = end
    BY DEF Ends
  <1>3. ASSUME NEW i \in 1 .. n, NEW v \in Nat PROVE Rule(i, v) \in Nat
    <2>1. PICK x : x = alignOffset[v, parts[i].align]
      OBVIOUS
    <2>2. x \in Nat /\ parts[i].size \in Nat
      BY <1>1, <2>1, AlignFacts
    <2>3. Rule(i, v) = x + parts[i].size
      BY <2>1
    <2> HIDE DEF Rule
    <2>4. QED
      BY <2>2, <2>3
  <1> HIDE DEF Rule
  <1>4. step \in [(1 .. n) \X Nat -> Nat]
    BY <1>3
  <1>5. \A i \in 1 .. n : \A v \in Nat : step[<<i, v>>] = Rule(i, v)
    OBVIOUS
  <1> HIDE DEF step, n
  <1>6. PICK f \in [0 .. n -> Nat] : IsIteration(f, n, 0, step)
    BY <1>1, <1>4, Iteration
  <1>7. ASSUME NEW i \in 1 .. n PROVE f[i] = Rule(i, f[i - 1])
    <2>1. f[i - 1] \in Nat
      BY <1>1
    <2>2. f[i] = step[<<i, f[i - 1]>>]
      BY <1>6 DEF IsIteration
    <2>3. QED
      BY <1>5, <2>1, <2>2
  <1>8. f = [i \in 0 .. n |-> IF i = 0 THEN 0 ELSE Rule(i, f[i - 1])]
    <2>1. f[0] = 0
      BY <1>6 DEF IsIteration
    <2>2. \A i \in 0 .. n : i = 0 \/ i \in 1 .. n
      BY <1>1
    <2>3. \A i \in 0 .. n : f[i] = IF i = 0 THEN 0 ELSE Rule(i, f[i - 1])
      BY <1>7, <2>1, <2>2
    <2>4. f = [i \in 0 .. n |-> f[i]]
      OBVIOUS
    <2>5. QED
      BY <2>3, <2>4
  <1>9. end = [i \in 0 .. n |-> IF i = 0 THEN 0 ELSE Rule(i, end[i - 1])]
    BY <1>8
  <1> HIDE DEF end
  <1>10. end[0] = 0 /\ \A i \in 1 .. n : end[i] = Rule(i, end[i - 1])
    <2>1. 0 \in 0 .. n /\ \A i \in 1 .. n : i \in 0 .. n /\ i # 0
      BY <1>1
    <2>2. QED
      BY <1>9, <2>1
  <1> DEFINE S == {i \in 0 .. n : end[i] \in Nat}
  <1>11. \A i \in 0 .. n : i \in S
    <2>1. 0 \in S
      BY <1>1, <1>10
    <2>2. ASSUME NEW i \in 1 .. n, i - 1 \in S PROVE i \in S
      <3>1. end[i] \in Nat
        BY <1>3, <1>10, <2>2
      <3>2. i \in 0 .. n
        BY <1>1
      <3>3. QED
        BY <3>1, <3>2
    <2> HIDE DEF S
    <2>3. QED
      BY <1>1, <2>1, <2>2, InductUpTo
  <1>12. QED
    BY <1>2, <1>10, <1>11 DEF Rule, Start, n

(* A layout: each part starts at a multiple of its alignment, not before   *)
(* the end of the part in front of it, and all lie in the structure.       *)
IsLayout(parts) ==
  /\ Len(parts) \in Nat /\ DOMAIN parts = 1 .. Len(parts)
  /\ Ends(parts)[0] = 0 /\ \A i \in 0 .. Len(parts) : Ends(parts)[i] \in Nat
  /\ \A i \in 1 .. Len(parts) :
       /\ parts[i].size \in Nat /\ parts[i].align \in {1, 2, 4, 8}
       /\ Ends(parts)[i] = Start(parts, i) + parts[i].size
       /\ Start(parts, i) \in Nat /\ Ends(parts)[i - 1] <= Start(parts, i)
       /\ Start(parts, i) % parts[i].align = 0
       /\ parts[i].align <= StructAlign(parts)
  /\ \A i, j \in 0 .. Len(parts) : i <= j => Ends(parts)[i] <= Ends(parts)[j]
  /\ StructAlign(parts) \in {1, 2, 4, 8}
  /\ StructSize(parts) \in Nat /\ Ends(parts)[Len(parts)] <= StructSize(parts)

(* The strictest alignment. *)
LEMMA StrictestAlign ==
  ASSUME NEW parts, AreParts(parts)
  PROVE  /\ StructAlign(parts) \in {1, 2, 4, 8}
         /\ \A i \in DOMAIN parts : parts[i].align <= StructAlign(parts)
         /\ StructAlign(parts) # 1 => \E i \in DOMAIN parts : parts[i].align = StructAlign(parts)
  <1> DEFINE S == {1} \cup {parts[i].align : i \in DOMAIN parts}
  <1>1. S \subseteq {1, 2, 4, 8} /\ 1 \in S
    BY DEF AreParts
  <1>2. /\ \A i \in DOMAIN parts : parts[i].align \in S
        /\ \A a \in S : a # 1 => \E i \in DOMAIN parts : parts[i].align = a
    OBVIOUS
  <1>3. StructAlign(parts) = Max(S)
    BY DEF StructAlign
  <1> HIDE DEF S
  <1>4. \E x \in S : \A y \in S : x >= y
    <2>1. CASE 8 \in S
      BY <1>1, <2>1
    <2>2. CASE 8 \notin S /\ 4 \in S
      BY <1>1, <2>2
    <2>3. CASE 8 \notin S /\ 4 \notin S /\ 2 \in S
      BY <1>1, <2>3
    <2>4. CASE 8 \notin S /\ 4 \notin S /\ 2 \notin S
      BY <1>1, <2>4
    <2>5. QED
      BY <2>1, <2>2, <2>3, <2>4
  <1>5. Max(S) \in S /\ \A y \in S : Max(S) >= y
    <2>1. Max(S) = CHOOSE x \in S : \A y \in S : x >= y
      BY DEF Max
    <2>2. QED
      BY <1>4, <2>1
  <1>6. QED
    BY <1>1, <1>2, <1>3, <1>5

(* Parts are laid out. *)
LEMMA LaidOut ==
  ASSUME NEW parts, AreParts(parts)
  PROVE  IsLayout(parts)
  <1> DEFINE n == Len(parts)
             e == Ends(parts)
  <1>1. n \in Nat /\ DOMAIN parts = 1 .. n
    BY SequenceFacts DEF AreParts
  <1>2. \A i \in 1 .. n : parts[i].size \in Nat /\ parts[i].align \in {1, 2, 4, 8}
    BY <1>1 DEF AreParts
  <1>3. /\ e[0] = 0 /\ \A i \in 0 .. n : e[i] \in Nat
        /\ \A i \in 1 .. n : e[i] = Start(parts, i) + parts[i].size
    BY EndsRecursion
  <1> HIDE DEF e, n
  <1>4. ASSUME NEW i \in 1 .. n
        PROVE  /\ Start(parts, i) \in Nat /\ e[i - 1] <= Start(parts, i)
               /\ Start(parts, i) % parts[i].align = 0
    <2>1. Start(parts, i) = alignOffset[e[i - 1], parts[i].align]
      BY DEF Start, e
    <2>2. e[i - 1] \in Nat /\ parts[i].align \in {1, 2, 4, 8}
      BY <1>1, <1>2, <1>3
    <2>3. PICK a \in {1, 2, 4, 8} : a = parts[i].align
      BY <2>2
    <2>4. PICK x \in Nat : x = e[i - 1]
      BY <2>2
    <2>5. PICK y : y = alignOffset[x, a]
      OBVIOUS
    <2>6. y \in Nat /\ y >= x /\ y % a = 0
      BY <2>5, AlignFacts
    <2>7. Start(parts, i) = y /\ x <= y
      BY <2>1, <2>3, <2>4, <2>5, <2>6
    <2>8. QED
      BY <2>3, <2>4, <2>6, <2>7
  <1>5. \A i, j \in 0 .. n : i <= j => e[i] <= e[j]
    <2> SUFFICES ASSUME NEW i \in 0 .. n PROVE \A j \in 0 .. n : i <= j => e[i] <= e[j]
      OBVIOUS
    <2> DEFINE S == {j \in 0 .. n : i <= j => e[i] <= e[j]}
    <2>1. 0 \in S
      BY <1>1, <1>3
    <2>2. ASSUME NEW j \in 1 .. n, j - 1 \in S PROVE j \in S
      <3>1. j \in 0 .. n /\ j - 1 \in 0 .. n
        BY <1>1
      <3>2. e[j - 1] <= e[j]
        BY <1>2, <1>3, <1>4, <3>1
      <3>3. CASE i = j
        BY <1>3, <3>1, <3>3
      <3>4. CASE i # j
        <4>1. i <= j => i <= j - 1
          BY <1>1, <3>4
        <4>2. i <= j => e[i] <= e[j - 1]
          BY <2>2, <4>1
        <4>3. e[i] \in Nat /\ e[j - 1] \in Nat /\ e[j] \in Nat
          BY <1>3, <3>1
        <4>4. QED
          BY <3>1, <3>2, <4>2, <4>3
      <3>5. QED
        BY <3>3, <3>4
    <2> HIDE DEF S
    <2>3. \A j \in 0 .. n : j \in S
      BY <1>1, <2>1, <2>2, InductUpTo
    <2>4. QED
      BY <2>3 DEF S
  <1>6. /\ StructAlign(parts) \in {1, 2, 4, 8}
        /\ \A i \in 1 .. n : parts[i].align <= StructAlign(parts)
    BY <1>1, StrictestAlign
  <1>7. StructSize(parts) \in Nat /\ e[n] <= StructSize(parts)
    <2>1. StructSize(parts) = alignOffset[e[n], StructAlign(parts)]
      BY DEF StructSize, e, n
    <2>2. e[n] \in Nat
      BY <1>1, <1>3
    <2>3. QED
      BY <1>6, <2>1, <2>2, AlignFacts
  <1>8. QED
    BY <1>1, <1>2, <1>3, <1>4, <1>5, <1>6, <1>7 DEF IsLayout, e, n

(* printGepInstruction finds each part where LLVM puts it. *)
LEMMA GepAgrees ==
  ASSUME NEW parts, AreParts(parts), NEW k \in 1 .. Len(parts)
  PROVE  StructOffset(parts, k) = Start(parts, k)
  <1> DEFINE Rule(i, v) == alignOffset[v + parts[i - 1].size, parts[i].align]
             offset == CHOOSE offset : offset = [i \in 1 .. k |-> IF i = 1 THEN 0 ELSE Rule(i, offset[i - 1])]
             s == [i \in 1 .. k |-> Start(parts, i)]
  <1>1. IsLayout(parts)
    BY LaidOut
  <1>2. Len(parts) \in Nat /\ k \in Nat /\ k >= 1 /\ \A i \in 1 .. k : i \in 1 .. Len(parts)
    BY <1>1 DEF IsLayout
  <1>3. StructOffset(parts, k) = offset[k]
    BY DEF StructOffset
  <1>4. ASSUME NEW i \in 1 .. k PROVE s[i] = IF i = 1 THEN 0 ELSE Rule(i, s[i - 1])
    <2>1. s[i] = Start(parts, i) /\ i \in 1 .. Len(parts)
      BY <1>2
    <2>2. CASE i = 1
      <3>1. Ends(parts)[i - 1] = 0 /\ parts[i].align \in {1, 2, 4, 8}
        BY <1>1, <2>1, <2>2 DEF IsLayout
      <3>2. 0 \in Nat /\ \A a \in {1, 2, 4, 8} : 0 % a = 0
        OBVIOUS
      <3>3. alignOffset[0, parts[i].align] = 0
        BY <3>1, <3>2, AlignFacts
      <3>4. QED
        BY <2>1, <2>2, <3>1, <3>3 DEF Start
    <2>3. CASE i # 1
      <3>1. i - 1 \in 1 .. k /\ i - 1 \in 1 .. Len(parts)
        BY <1>2, <2>3
      <3>2. Ends(parts)[i - 1] = s[i - 1] + parts[i - 1].size
        BY <1>1, <3>1 DEF IsLayout
      <3>3. QED
        BY <2>1, <2>3, <3>2 DEF Start
    <2>4. QED
      BY <2>2, <2>3
  <1>5. s = [i \in 1 .. k |-> IF i = 1 THEN 0 ELSE Rule(i, s[i - 1])]
    <2>1. s = [i \in 1 .. k |-> s[i]]
      OBVIOUS
    <2> HIDE DEF s, Rule
    <2>2. QED
      BY <1>4, <2>1
  <1>6. offset = [i \in 1 .. k |-> IF i = 1 THEN 0 ELSE Rule(i, offset[i - 1])]
    <2> HIDE DEF s, Rule
    <2>1. QED
      BY <1>5
  <1> HIDE DEF offset, Rule
  <1> DEFINE S == {i \in 0 .. k : i # 0 => offset[i] = s[i]}
  <1>7. 0 \in S
    BY <1>2
  <1>8. ASSUME NEW i \in 1 .. k, i - 1 \in S PROVE i \in S
    <2>1. offset[i] = IF i = 1 THEN 0 ELSE Rule(i, offset[i - 1])
      BY <1>6
    <2>2. i # 1 => offset[i - 1] = s[i - 1]
      BY <1>8
    <2>3. offset[i] = s[i]
      <3> HIDE DEF s
      <3>1. QED
        BY <1>4, <2>1, <2>2
    <2>4. i \in 0 .. k
      BY <1>2
    <2>5. QED
      BY <2>3, <2>4
  <1>9. \A i \in 0 .. k : i \in S
    <2> HIDE DEF S
    <2>1. QED
      BY <1>2, <1>7, <1>8, InductUpTo
  <1>10. k \in 0 .. k /\ k # 0 /\ k \in 1 .. k
    BY <1>2
  <1>11. offset[k] = s[k]
    BY <1>9, <1>10
  <1>12. QED
    BY <1>3, <1>10, <1>11

-----------------------------------------------------------------------------
(* The layout of globals, and what printStaticConstant emits *)

(* A global as ProgramAssumption has it. *)
WellFormed(g) ==
  /\ IsSequence(g)
  /\ \A k \in DOMAIN g :
       /\ IsSequence(g[k])
       /\ \A l \in DOMAIN g[k] : g[k][l].size \in {1, 2, 4, 8}

(* A function on the places of a sequence is a sequence. *)
LEMMA MappedSequence ==
  ASSUME NEW s, IsSequence(s), NEW t, t = [i \in DOMAIN s |-> t[i]]
  PROVE  IsSequence(t) /\ Len(t) = Len(s) /\ DOMAIN t = 1 .. Len(s)
  <1>1. Len(s) \in Nat /\ DOMAIN s = 1 .. Len(s)
    BY SequenceFacts
  <1>2. t \in [1 .. Len(s) -> Range(t)]
    BY <1>1 DEF Range
  <1>3. t \in Seq(Range(t)) /\ Len(t) = Len(s)
    BY <1>1, <1>2
  <1>4. QED
    BY <1>1, <1>2, <1>3 DEF IsSequence

(* A field's scalars as the parts of a structure. *)
LEMMA ScalarParts ==
  ASSUME NEW f, IsSequence(f), \A l \in DOMAIN f : f[l].size \in {1, 2, 4, 8}
  PROVE  /\ AreParts(Scalars(f)) /\ Len(Scalars(f)) = Len(f)
         /\ \A l \in 1 .. Len(f) : Scalars(f)[l].size = f[l].size /\ Scalars(f)[l].align = f[l].size
  <1> DEFINE t == Scalars(f)
  <1>1. DOMAIN t = DOMAIN f /\ \A l \in DOMAIN f : t[l].size = f[l].size /\ t[l].align = f[l].size
    BY DEF Scalars
  <1>2. t = [l \in DOMAIN f |-> t[l]]
    BY DEF Scalars
  <1> HIDE DEF t
  <1>3. IsSequence(t) /\ Len(t) = Len(f) /\ DOMAIN t = 1 .. Len(f)
    BY <1>2, MappedSequence
  <1>4. AreParts(t)
    BY <1>1, <1>3 DEF AreParts
  <1>5. QED
    BY <1>1, <1>3, <1>4 DEF t

(* Parts are parts in a packed structure too. *)
LEMMA PackedParts ==
  ASSUME NEW parts, AreParts(parts), NEW packed
  PROVE  /\ AreParts(Packed(packed, parts))
         /\ ~packed => Packed(packed, parts) = parts
  <1> DEFINE t == [i \in DOMAIN parts |-> [size |-> parts[i].size, align |-> 1]]
  <1>1. DOMAIN t = DOMAIN parts /\ \A i \in DOMAIN parts : t[i].size = parts[i].size /\ t[i].align = 1
    OBVIOUS
  <1>2. t = [i \in DOMAIN parts |-> t[i]]
    OBVIOUS
  <1>3. Packed(packed, parts) = IF packed THEN t ELSE parts
    BY DEF Packed
  <1> HIDE DEF t
  <1>4. IsSequence(t)
    BY <1>2, MappedSequence DEF AreParts
  <1>5. AreParts(t)
    BY <1>1, <1>4 DEF AreParts
  <1>6. QED
    BY <1>3, <1>5

(* A field takes whole bytes and is aligned like one of its scalars; it    *)
(* holds them at their alignments unless it is packed.                     *)
LEMMA FieldSize ==
  ASSUME NEW f, IsSequence(f), \A l \in DOMAIN f : f[l].size \in {1, 2, 4, 8}
  PROVE  /\ IsLayout(Scalars(f)) /\ SizeOf(f) \in Nat /\ Align(f) \in {1, 2, 4, 8}
         /\ f \notin PackedFields =>
              /\ SizeOf(f) = StructSize(Scalars(f)) /\ Align(f) = StructAlign(Scalars(f))
              /\ Ends(Scalars(f))[Len(f)] <= SizeOf(f)
              /\ \A l \in 1 .. Len(f) : f[l].size <= Align(f)
  <1> DEFINE t == Packed(f \in PackedFields, Scalars(f))
  <1>1. /\ AreParts(Scalars(f)) /\ IsLayout(Scalars(f)) /\ Len(Scalars(f)) = Len(f)
        /\ \A l \in 1 .. Len(f) : Scalars(f)[l].align = f[l].size
    BY ScalarParts, LaidOut
  <1>2. SizeOf(f) = StructSize(t) /\ Align(f) = StructAlign(t)
    BY DEF SizeOf, Align
  <1>3. AreParts(t) /\ (f \notin PackedFields => t = Scalars(f))
    BY <1>1, PackedParts
  <1> HIDE DEF t
  <1>4. IsLayout(t)
    BY <1>3, LaidOut
  <1>5. SizeOf(f) \in Nat /\ Align(f) \in {1, 2, 4, 8}
    BY <1>2, <1>4 DEF IsLayout
  <1>6. ASSUME f \notin PackedFields
        PROVE  /\ SizeOf(f) = StructSize(Scalars(f)) /\ Align(f) = StructAlign(Scalars(f))
               /\ Ends(Scalars(f))[Len(f)] <= SizeOf(f)
               /\ \A l \in 1 .. Len(f) : f[l].size <= Align(f)
    <2>1. SizeOf(f) = StructSize(Scalars(f)) /\ Align(f) = StructAlign(Scalars(f))
      BY <1>2, <1>3, <1>6
    <2>2. QED
      BY <1>1, <2>1 DEF IsLayout
  <1>7. QED
    BY <1>1, <1>5, <1>6

(* A global's fields as the parts of a structure. *)
LEMMA FieldParts ==
  ASSUME NEW g, WellFormed(g)
  PROVE  /\ AreParts(Fields(g)) /\ Len(Fields(g)) = Len(g)
         /\ \A k \in 1 .. Len(g) : Fields(g)[k].size = SizeOf(g[k]) /\ Fields(g)[k].align = Align(g[k])
  <1> DEFINE t == Fields(g)
  <1>1. /\ DOMAIN t = DOMAIN g
        /\ \A k \in DOMAIN g : t[k].size = SizeOf(g[k]) /\ t[k].align = Align(g[k])
    BY DEF Fields
  <1>2. t = [k \in DOMAIN g |-> t[k]]
    BY DEF Fields
  <1>3. \A k \in DOMAIN g : SizeOf(g[k]) \in Nat /\ Align(g[k]) \in {1, 2, 4, 8}
    BY FieldSize DEF WellFormed
  <1> HIDE DEF t
  <1>4. IsSequence(t) /\ Len(t) = Len(g) /\ DOMAIN t = 1 .. Len(g)
    BY <1>2, MappedSequence DEF WellFormed
  <1>5. AreParts(t)
    BY <1>1, <1>3, <1>4 DEF AreParts
  <1>6. QED
    BY <1>1, <1>4, <1>5 DEF t

(* Where field k of a global, and scalar l of a field, starts and ends,    *)
(* were nothing packed: this is what getelementptr and Memory.pack follow. *)
FieldStart(g, k) == Start(Fields(g), k)
LeafStart(f, l) == Start(Scalars(f), l)
FieldEnd(g, k) == Ends(Fields(g))[k]
LeafEnd(f, l) == Ends(Scalars(f))[l]

(* The fields of a global. *)
GlobalLayout(g) ==
  /\ Len(g) \in Nat /\ DOMAIN g = 1 .. Len(g)
  /\ AllocSize(g) \in Nat /\ FieldEnd(g, 0) = 0
  /\ \A k \in 0 .. Len(g) :
       FieldEnd(g, k) \in Nat /\ (g \notin PackedGlobals => FieldEnd(g, k) <= AllocSize(g))
  /\ \A j, k \in 0 .. Len(g) : j <= k => FieldEnd(g, j) <= FieldEnd(g, k)
  /\ \A k \in 1 .. Len(g) :
       /\ FieldStart(g, k) \in Nat /\ FieldEnd(g, k - 1) <= FieldStart(g, k)
       /\ FieldEnd(g, k) = FieldStart(g, k) + SizeOf(g[k])
       /\ FieldStart(g, k) % Align(g[k]) = 0
       /\ FieldOffset(g, k) = FieldStart(g, k)

(* The scalars of a field. *)
LeafLayout(f) ==
  /\ Len(f) \in Nat /\ DOMAIN f = 1 .. Len(f)
  /\ SizeOf(f) \in Nat /\ Align(f) \in {1, 2, 4, 8} /\ LeafEnd(f, 0) = 0
  /\ \A l \in 0 .. Len(f) :
       LeafEnd(f, l) \in Nat /\ (f \notin PackedFields => LeafEnd(f, l) <= SizeOf(f))
  /\ \A i, l \in 0 .. Len(f) : i <= l => LeafEnd(f, i) <= LeafEnd(f, l)
  /\ \A l \in 1 .. Len(f) :
       /\ f[l].size \in {1, 2, 4, 8} /\ (f \notin PackedFields => f[l].size <= Align(f))
       /\ LeafStart(f, l) \in Nat /\ LeafEnd(f, l - 1) <= LeafStart(f, l)
       /\ LeafEnd(f, l) = LeafStart(f, l) + f[l].size
       /\ LeafStart(f, l) = alignOffset[LeafEnd(f, l - 1), f[l].size]
       /\ LeafOffset(f, l) = LeafStart(f, l)

(* Both hold of a well-formed global. *)
LEMMA GlobalLaidOut ==
  ASSUME NEW g, WellFormed(g)
  PROVE  GlobalLayout(g)
  <1> DEFINE t == Fields(g)
  <1>1. /\ AreParts(t) /\ Len(t) = Len(g)
        /\ \A k \in 1 .. Len(g) : t[k].size = SizeOf(g[k]) /\ t[k].align = Align(g[k])
    BY FieldParts
  <1>2. IsLayout(t)
    BY <1>1, LaidOut
  <1>3. \A k \in 1 .. Len(g) : FieldOffset(g, k) = FieldStart(g, k)
    BY <1>1, GepAgrees DEF FieldOffset, FieldStart
  <1>4. Len(g) \in Nat /\ DOMAIN g = 1 .. Len(g)
    BY SequenceFacts DEF WellFormed
  <1>5. /\ AllocSize(g) \in Nat /\ FieldEnd(g, 0) = 0
        /\ g \notin PackedGlobals => FieldEnd(g, Len(g)) <= AllocSize(g)
        /\ \A k \in 0 .. Len(g) : FieldEnd(g, k) \in Nat
        /\ \A j, k \in 0 .. Len(g) : j <= k => FieldEnd(g, j) <= FieldEnd(g, k)
    <2> DEFINE u == Packed(g \in PackedGlobals, t)
    <2>1. AllocSize(g) = StructSize(u)
      BY DEF AllocSize
    <2>2. AreParts(u) /\ (g \notin PackedGlobals => u = t)
      BY <1>1, PackedParts
    <2> HIDE DEF u
    <2>3. AllocSize(g) \in Nat
      BY <2>1, <2>2, LaidOut DEF IsLayout
    <2>4. g \notin PackedGlobals => FieldEnd(g, Len(g)) <= AllocSize(g)
      BY <1>1, <1>2, <2>1, <2>2 DEF IsLayout, FieldEnd
    <2>5. QED
      BY <1>1, <1>2, <2>3, <2>4 DEF IsLayout, FieldEnd
  <1>6. \A k \in 1 .. Len(g) :
          /\ FieldStart(g, k) \in Nat /\ FieldEnd(g, k - 1) <= FieldStart(g, k)
          /\ FieldEnd(g, k) = FieldStart(g, k) + SizeOf(g[k])
          /\ FieldStart(g, k) % Align(g[k]) = 0
    BY <1>1, <1>2 DEF IsLayout, FieldEnd, FieldStart
  <1>7. g \notin PackedGlobals => \A k \in 0 .. Len(g) : FieldEnd(g, k) <= AllocSize(g)
    <2>1. \A k \in 0 .. Len(g) : k <= Len(g) /\ Len(g) \in 0 .. Len(g)
      BY <1>4
    <2>2. QED
      BY <1>5, <2>1
  <1>8. QED
    BY <1>3, <1>4, <1>5, <1>6, <1>7 DEF GlobalLayout

(* And of its fields. *)
LEMMA LeavesLaidOut ==
  ASSUME NEW f, IsSequence(f), \A l \in DOMAIN f : f[l].size \in {1, 2, 4, 8}
  PROVE  LeafLayout(f)
  <1> DEFINE t == Scalars(f)
  <1>1. /\ AreParts(t) /\ Len(t) = Len(f)
        /\ \A l \in 1 .. Len(f) : t[l].size = f[l].size /\ t[l].align = f[l].size
    BY ScalarParts
  <1>2. IsLayout(t)
    BY <1>1, LaidOut
  <1>3. \A l \in 1 .. Len(f) : LeafOffset(f, l) = LeafStart(f, l)
    BY <1>1, GepAgrees DEF LeafOffset, LeafStart
  <1>4. Len(f) \in Nat /\ DOMAIN f = 1 .. Len(f)
    BY SequenceFacts
  <1>5. /\ SizeOf(f) \in Nat /\ Align(f) \in {1, 2, 4, 8}
        /\ LeafEnd(f, 0) = 0 /\ (f \notin PackedFields => LeafEnd(f, Len(f)) <= SizeOf(f))
        /\ \A l \in 0 .. Len(f) : LeafEnd(f, l) \in Nat
        /\ \A i, l \in 0 .. Len(f) : i <= l => LeafEnd(f, i) <= LeafEnd(f, l)
    BY <1>1, <1>2, FieldSize DEF IsLayout, LeafEnd
  <1>6. \A l \in 1 .. Len(f) :
          /\ f[l].size \in {1, 2, 4, 8} /\ (f \notin PackedFields => f[l].size <= Align(f))
          /\ LeafStart(f, l) \in Nat /\ LeafEnd(f, l - 1) <= LeafStart(f, l)
          /\ LeafEnd(f, l) = LeafStart(f, l) + f[l].size
    BY <1>1, <1>2, <1>4, FieldSize DEF IsLayout, LeafEnd, LeafStart
  <1>7. ASSUME NEW l \in 1 .. Len(f) PROVE LeafStart(f, l) = alignOffset[LeafEnd(f, l - 1), f[l].size]
    <2>1. t[l].align = f[l].size
      BY <1>1
    <2>2. QED
      BY <2>1 DEF Start, LeafStart, LeafEnd
  <1>8. f \notin PackedFields => \A l \in 0 .. Len(f) : LeafEnd(f, l) <= SizeOf(f)
    <2>1. \A l \in 0 .. Len(f) : l <= Len(f) /\ Len(f) \in 0 .. Len(f)
      BY <1>4
    <2>2. QED
      BY <1>5, <2>1
  <1>9. QED
    BY <1>3, <1>4, <1>5, <1>6, <1>7, <1>8 DEF LeafLayout

(* A global that is null as a whole is zeroed as a whole. *)
AllNull(g) == \A k \in DOMAIN g : IsNull(g[k])

(* The operation for one scalar of a field that is not null. *)
OperationFor(k, l, s) == IF s.init.is = "null" THEN Zero(s.size) ELSE Pack(k, l, s)

(* The operations of a global, by its fields. *)
IsCodeOf(code, g) ==
  /\ AllNull(g) => Len(code) = 1 /\ Len(code[1]) = 1 /\ code[1][1] = Zero(AllocSize(g))
  /\ ~AllNull(g) =>
       /\ Len(code) = Len(g)
       /\ \A k \in 1 .. Len(g) :
            /\ IsNull(g[k]) => Len(code[k]) = 1 /\ code[k][1] = Zero(SizeOf(g[k]))
            /\ ~IsNull(g[k]) =>
                 /\ Len(code[k]) = Len(g[k]) /\ Len(g[k]) >= 1
                 /\ \A l \in 1 .. Len(g[k]) : code[k][l] = OperationFor(k, l, g[k][l])

(* What printStaticConstant emits. *)
LEMMA CodeFacts ==
  ASSUME NEW g, WellFormed(g)
  PROVE  IsCodeOf(printStaticConstant(g), g)
  <1> DEFINE code == printStaticConstant(g)
  <1>1. CASE AllNull(g)
    <2>1. code = << <<Zero(AllocSize(g))>> >>
      BY <1>1 DEF printStaticConstant, AllNull
    <2>2. \A z : Len(<< <<z>> >>) = 1 /\ Len(<< <<z>> >>[1]) = 1 /\ << <<z>> >>[1][1] = z
      OBVIOUS
    <2> HIDE DEF code
    <2>3. QED
      BY <1>1, <2>1, <2>2 DEF IsCodeOf, code
  <1>2. CASE ~AllNull(g)
    <2>1. code = [k \in DOMAIN g |-> EmitField(k, g[k])]
      BY <1>2 DEF printStaticConstant, AllNull
    <2> HIDE DEF code
    <2>2. code = [k \in DOMAIN g |-> code[k]] /\ \A k \in DOMAIN g : code[k] = EmitField(k, g[k])
      BY <2>1
    <2>3. Len(code) = Len(g) /\ DOMAIN g = 1 .. Len(g)
      BY <2>2, MappedSequence, SequenceFacts DEF WellFormed
    <2>4. ASSUME NEW k \in 1 .. Len(g), IsNull(g[k])
          PROVE  Len(code[k]) = 1 /\ code[k][1] = Zero(SizeOf(g[k]))
      <3>1. code[k] = <<Zero(SizeOf(g[k]))>>
        BY <2>2, <2>3, <2>4 DEF EmitField
      <3>2. \A z : Len(<<z>>) = 1 /\ <<z>>[1] = z
        OBVIOUS
      <3>3. QED
        BY <3>1, <3>2
    <2>5. ASSUME NEW k \in 1 .. Len(g), ~IsNull(g[k])
          PROVE  /\ Len(code[k]) = Len(g[k]) /\ Len(g[k]) >= 1
                 /\ \A l \in 1 .. Len(g[k]) : code[k][l] = OperationFor(k, l, g[k][l])
      <3>1. code[k] = [l \in DOMAIN g[k] |-> OperationFor(k, l, g[k][l])]
        BY <2>2, <2>3, <2>5 DEF EmitField, OperationFor
      <3>2. IsSequence(g[k]) /\ Len(g[k]) \in Nat /\ DOMAIN g[k] = 1 .. Len(g[k])
        BY <2>3, SequenceFacts DEF WellFormed
      <3>3. PICK e : e = code[k]
        OBVIOUS
      <3>4. e = [l \in DOMAIN g[k] |-> e[l]]
        BY <3>1, <3>3
      <3>5. Len(e) = Len(g[k])
        BY <3>2, <3>4, MappedSequence
      <3>6. PICK l \in DOMAIN g[k] : TRUE
        BY <2>5 DEF IsNull
      <3>7. Len(g[k]) >= 1
        BY <3>2, <3>6
      <3>8. QED
        BY <3>1, <3>2, <3>3, <3>5, <3>7
    <2>6. QED
      BY <1>2, <2>3, <2>4, <2>5 DEF IsCodeOf, code
  <1>3. QED
    BY <1>1, <1>2

(* The position behind operation j of part k. *)
NextPart(code, k, j) == IF j < Len(code[k]) THEN k ELSE k + 1
NextOp(code, k, j) == IF j < Len(code[k]) THEN j + 1 ELSE 1

(* Code has a first operation, and every part has one. *)
LEMMA InCodeFacts ==
  ASSUME NEW g, WellFormed(g), NEW code, IsCodeOf(code, g)
  PROVE  /\ Len(code) \in Nat /\ \A k \in 1 .. Len(code) : Len(code[k]) \in Nat /\ Len(code[k]) >= 1
         /\ InCode(code, 1, 1)
  <1>1. Len(g) \in Nat /\ DOMAIN g = 1 .. Len(g)
    BY SequenceFacts DEF WellFormed
  <1>2. \A k \in 1 .. Len(g) : Len(g[k]) \in Nat
    BY <1>1, SequenceFacts DEF WellFormed
  <1>3. Len(code) \in Nat /\ \A k \in 1 .. Len(code) : Len(code[k]) \in Nat /\ Len(code[k]) >= 1
    BY <1>1, <1>2 DEF IsCodeOf
  <1>4. QED
    BY <1>3 DEF InCode

(* The next position is one. *)
LEMMA NextInCode ==
  ASSUME NEW g, WellFormed(g), NEW code, IsCodeOf(code, g),
         NEW k, NEW j, InCode(code, k, j), k <= Len(code)
  PROVE  InCode(code, NextPart(code, k, j), NextOp(code, k, j))
  <1>1. Len(code) \in Nat /\ \A i \in 1 .. Len(code) : Len(code[i]) \in Nat /\ Len(code[i]) >= 1
    BY InCodeFacts
  <1>2. k \in 1 .. Len(code) /\ j \in Nat \ {0} /\ j <= Len(code[k]) /\ Len(code[k]) \in Nat
    BY <1>1 DEF InCode
  <1>3. CASE j < Len(code[k])
    BY <1>1, <1>2, <1>3 DEF InCode, NextPart, NextOp
  <1>4. CASE ~(j < Len(code[k]))
    <2>1. NextPart(code, k, j) = k + 1 /\ NextOp(code, k, j) = 1
      BY <1>4 DEF NextPart, NextOp
    <2>2. k + 1 \in 1 .. Len(code) + 1 /\ (k + 1 <= Len(code) => 1 <= Len(code[k + 1]))
      BY <1>1, <1>2
    <2>3. QED
      BY <2>1, <2>2 DEF InCode
  <1>5. QED
    BY <1>3, <1>4

-----------------------------------------------------------------------------
(* Where the code of a global has got to *)

(* The globals that PlainDataReadable is about. *)
Plain(g) == NoPadding(g) \/ (Flat(g) /\ NoNull(g))

(* How far LLVM's layout is filled before operation j of part k. *)
Reached(g, k, j) ==
  IF AllNull(g) THEN (IF k = 1 THEN 0 ELSE AllocSize(g))
  ELSE IF j = 1 THEN FieldEnd(g, k - 1) ELSE FieldStart(g, k) + LeafEnd(g[k], j - 1)

(* The address at that operation, for a block at base: never ahead of      *)
(* LLVM's layout, and in step with it where the global is plain.           *)
At(g, k, j, base, addr) ==
  /\ addr \in Nat /\ base <= addr /\ addr <= base + Reached(g, k, j)
  /\ Plain(g) => addr = base + Reached(g, k, j)

(* Fields of a well-formed global. *)
LEMMA FieldFacts ==
  ASSUME NEW g, WellFormed(g), NEW k \in 1 .. Len(g)
  PROVE  /\ LeafLayout(g[k]) /\ k \in Nat /\ k - 1 \in 0 .. Len(g) /\ k \in 0 .. Len(g)
         /\ Natural(g) => g \notin PackedGlobals /\ g[k] \notin PackedFields
  <1>1. Len(g) \in Nat /\ DOMAIN g = 1 .. Len(g)
    BY SequenceFacts DEF WellFormed
  <1>2. LeafLayout(g[k]) /\ (Natural(g) => g \notin PackedGlobals /\ g[k] \notin PackedFields)
    BY <1>1, LeavesLaidOut DEF WellFormed, Natural
  <1>3. QED
    BY <1>1, <1>2

(* What is filled lies in the block, if nothing is packed. *)
LEMMA ReachedInBlock ==
  ASSUME NEW g, WellFormed(g), Natural(g), NEW code, IsCodeOf(code, g), NEW k, NEW j, InCode(code, k, j)
  PROVE  Reached(g, k, j) \in Nat /\ Reached(g, k, j) <= AllocSize(g)
  <1>1. GlobalLayout(g)
    BY GlobalLaidOut
  <1>2. CASE AllNull(g)
    <2>1. Reached(g, k, j) = IF k = 1 THEN 0 ELSE AllocSize(g)
      BY <1>2 DEF Reached
    <2>2. AllocSize(g) \in Nat
      BY <1>1 DEF GlobalLayout
    <2>3. QED
      BY <2>1, <2>2
  <1>3. CASE ~AllNull(g) /\ j = 1
    <2>1. Reached(g, k, j) = FieldEnd(g, k - 1)
      BY <1>3 DEF Reached
    <2>2. k - 1 \in 0 .. Len(g)
      <3>1. k \in 1 .. Len(g) + 1 /\ Len(g) \in Nat
        BY <1>1, <1>3 DEF InCode, IsCodeOf, GlobalLayout
      <3>2. QED
        BY <3>1
    <2>3. QED
      BY <1>1, <2>1, <2>2 DEF GlobalLayout, Natural
  <1>4. CASE ~AllNull(g) /\ j # 1
    <2>1. Reached(g, k, j) = FieldStart(g, k) + LeafEnd(g[k], j - 1)
      BY <1>4 DEF Reached
    <2>2. k \in 1 .. Len(g) /\ Len(code) = Len(g) /\ j \in Nat \ {0}
      <3>1. k \in 1 .. Len(g) + 1 /\ Len(g) \in Nat /\ ~(k > Len(g)) /\ Len(code) = Len(g)
        BY <1>1, <1>4 DEF InCode, IsCodeOf, GlobalLayout
      <3>2. QED
        BY <3>1 DEF InCode
    <2>3. LeafLayout(g[k]) /\ g \notin PackedGlobals /\ g[k] \notin PackedFields
      BY <2>2, FieldFacts
    <2>4. j <= Len(code[k]) /\ (IsNull(g[k]) => Len(code[k]) = 1) /\ (~IsNull(g[k]) => Len(code[k]) = Len(g[k]))
      <3>1. k <= Len(code)
        BY <1>1, <2>2 DEF GlobalLayout
      <3>2. QED
        BY <1>4, <2>2, <3>1 DEF InCode, IsCodeOf
    <2>5. j - 1 \in 0 .. Len(g[k])
      <3>1. ~IsNull(g[k])
        <4> SUFFICES ASSUME IsNull(g[k]) PROVE FALSE
          OBVIOUS
        <4>1. j <= 1
          BY <2>4
        <4>2. QED
          BY <1>4, <2>2, <4>1
      <3>2. j <= Len(g[k]) /\ Len(g[k]) \in Nat
        BY <2>3, <2>4, <3>1 DEF LeafLayout
      <3>3. QED
        BY <2>2, <3>2
    <2>6. /\ LeafEnd(g[k], j - 1) \in Nat /\ LeafEnd(g[k], j - 1) <= SizeOf(g[k])
          /\ SizeOf(g[k]) \in Nat
      BY <2>3, <2>5 DEF LeafLayout
    <2>7. /\ FieldStart(g, k) \in Nat /\ FieldEnd(g, k) = FieldStart(g, k) + SizeOf(g[k])
          /\ FieldEnd(g, k) <= AllocSize(g) /\ AllocSize(g) \in Nat
      <3>1. k \in 0 .. Len(g)
        BY <2>2, FieldFacts
      <3>2. QED
        BY <1>1, <2>2, <2>3, <3>1 DEF GlobalLayout
    <2>8. QED
      BY <2>1, <2>6, <2>7
  <1>5. QED
    BY <1>2, <1>3, <1>4

(* No padding: everything starts where what is in front of it ends. *)
LEMMA NoPaddingFacts ==
  ASSUME NEW g, WellFormed(g), NoPadding(g), NEW k \in 1 .. Len(g)
  PROVE  /\ FieldStart(g, k) = FieldEnd(g, k - 1)
         /\ SizeOf(g[k]) = LeafEnd(g[k], Len(g[k]))
         /\ \A l \in 1 .. Len(g[k]) : LeafStart(g[k], l) = LeafEnd(g[k], l - 1)
  <1>1. DOMAIN g = 1 .. Len(g) /\ Len(Fields(g)) = Len(g) /\ AreParts(Fields(g))
    BY FieldParts, SequenceFacts DEF WellFormed
  <1>2. IsSequence(g[k]) /\ \A l \in DOMAIN g[k] : g[k][l].size \in {1, 2, 4, 8}
    BY <1>1 DEF WellFormed
  <1>3. DOMAIN Fields(g) = 1 .. Len(g)
    BY <1>1, SequenceFacts DEF AreParts
  <1>4. Len(Scalars(g[k])) = Len(g[k]) /\ AreParts(Scalars(g[k]))
    BY <1>2, ScalarParts
  <1>5. DOMAIN Scalars(g[k]) = 1 .. Len(g[k])
    BY <1>4, SequenceFacts DEF AreParts
  <1>6. Dense(Fields(g)) /\ Dense(Scalars(g[k])) /\ SizeOf(g[k]) = Ends(Scalars(g[k]))[Len(g[k])]
    BY <1>1 DEF NoPadding
  <1>7. FieldStart(g, k) = FieldEnd(g, k - 1)
    BY <1>3, <1>6 DEF Dense, FieldStart, FieldEnd, Start
  <1>8. \A l \in 1 .. Len(g[k]) : LeafStart(g[k], l) = LeafEnd(g[k], l - 1)
    BY <1>5, <1>6 DEF Dense, LeafStart, LeafEnd, Start
  <1>9. QED
    BY <1>6, <1>7, <1>8 DEF LeafEnd

(* A field of one scalar has its size and alignment, unless it is packed. *)
LEMMA SingleFacts ==
  ASSUME NEW f, IsSequence(f), f \notin PackedFields, Len(f) = 1, f[1].size \in {1, 2, 4, 8}
  PROVE  /\ SizeOf(f) = f[1].size /\ Align(f) = f[1].size /\ LeafStart(f, 1) = 0
         /\ LeafEnd(f, 1) = f[1].size
  <1> DEFINE s == f[1].size
  <1>1. DOMAIN f = 1 .. 1 /\ \A l \in DOMAIN f : f[l].size \in {1, 2, 4, 8}
    <2>1. DOMAIN f = 1 .. 1
      BY SequenceFacts
    <2>2. \A l \in 1 .. 1 : l = 1
      OBVIOUS
    <2>3. QED
      BY <2>1, <2>2
  <1>2. /\ AreParts(Scalars(f)) /\ Len(Scalars(f)) = 1 /\ Scalars(f)[1].align = s
        /\ LeafLayout(f)
    <2>1. 1 \in 1 .. 1
      OBVIOUS
    <2>2. QED
      BY <1>1, <2>1, ScalarParts, LeavesLaidOut
  <1>3. Align(f) = s
    <2>1. DOMAIN Scalars(f) = 1 .. 1
      BY <1>2, SequenceFacts DEF AreParts
    <2>2. \A i \in DOMAIN Scalars(f) : Scalars(f)[i].align = s
      <3>1. \A i \in 1 .. 1 : i = 1
        OBVIOUS
      <3>2. QED
        BY <1>2, <2>1, <3>1
    <2>3. 1 \in DOMAIN Scalars(f)
      BY <2>1
    <2>4. PICK a : a = StructAlign(Scalars(f))
      OBVIOUS
    <2>5. a \in {1, 2, 4, 8} /\ s <= a /\ (a # 1 => a = s)
      BY <1>2, <2>2, <2>3, <2>4, StrictestAlign
    <2>6. Align(f) = StructAlign(Scalars(f))
      BY <1>1, FieldSize
    <2>7. QED
      BY <2>4, <2>5, <2>6
  <1>4. LeafStart(f, 1) = 0 /\ LeafEnd(f, 1) = s
    <2>1. 1 \in 1 .. Len(f) /\ 1 - 1 = 0
      OBVIOUS
    <2>2. /\ LeafStart(f, 1) = alignOffset[LeafEnd(f, 1 - 1), s] /\ LeafEnd(f, 0) = 0
          /\ LeafEnd(f, 1) = LeafStart(f, 1) + s
      BY <1>2, <2>1 DEF LeafLayout
    <2>3. 0 \in Nat /\ 0 % s = 0
      OBVIOUS
    <2>4. alignOffset[0, s] = 0
      BY <2>3, AlignFacts
    <2>5. LeafStart(f, 1) = 0
      BY <2>1, <2>2, <2>4
    <2>6. PICK z \in Nat : z = s
      OBVIOUS
    <2>7. LeafEnd(f, 1) = 0 + z
      BY <2>2, <2>5, <2>6
    <2>8. LeafEnd(f, 1) = z
      BY <2>6, <2>7
    <2>9. QED
      BY <2>5, <2>6, <2>8
  <1>5. SizeOf(f) = s
    <2>1. SizeOf(f) = alignOffset[LeafEnd(f, 1), Align(f)]
      BY <1>1, <1>2, FieldSize DEF StructSize, LeafEnd
    <2>2. s \in Nat /\ s % s = 0
      OBVIOUS
    <2>3. alignOffset[s, s] = s
      BY <2>2, AlignFacts
    <2>4. SizeOf(f) = alignOffset[s, s]
      BY <1>3, <1>4, <2>1
    <2>5. QED
      BY <2>3, <2>4
  <1>6. QED
    BY <1>3, <1>4, <1>5

(* An operation on scalar j of field k: what is filled before it and after *)
(* it, against the scalar's own place.                                     *)
ScalarPosition(g, code, k, j) ==
  LET before == Reached(g, k, j)
      after == Reached(g, NextPart(code, k, j), NextOp(code, k, j))
      S == FieldStart(g, k)
  IN  /\ k \in 1 .. Len(g) /\ j \in 1 .. Len(g[k])
      /\ before \in Nat /\ after \in Nat
      /\ before <= S + LeafEnd(g[k], j - 1) /\ S + LeafEnd(g[k], j) <= after
      /\ NoPadding(g) => before = S + LeafEnd(g[k], j - 1) /\ after = S + LeafEnd(g[k], j)
      /\ Flat(g) => j = 1 /\ Len(g[k]) = 1 /\ before = FieldEnd(g, k - 1) /\ after = FieldEnd(g, k)

(* The positions of the operations of a field that is not null. *)
LEMMA AtScalar ==
  ASSUME NEW g, WellFormed(g), Natural(g), NEW code, IsCodeOf(code, g), NEW k, NEW j, InCode(code, k, j),
         k <= Len(code), ~AllNull(g), ~IsNull(g[k])
  PROVE  ScalarPosition(g, code, k, j)
  <1> DEFINE n == Len(g[k])
             S == FieldStart(g, k)
             E(l) == LeafEnd(g[k], l)
             before == Reached(g, k, j)
             after == Reached(g, NextPart(code, k, j), NextOp(code, k, j))
  <1>1. GlobalLayout(g)
    BY GlobalLaidOut
  <1>2. k \in 1 .. Len(g) /\ Len(code) = Len(g)
    <2>1. Len(code) = Len(g) /\ Len(g) \in Nat /\ k \in 1 .. Len(code) + 1
      BY <1>1 DEF IsCodeOf, GlobalLayout, InCode
    <2>2. QED
      BY <2>1
  <1>3. /\ LeafLayout(g[k]) /\ k \in Nat /\ k - 1 \in 0 .. Len(g) /\ k \in 0 .. Len(g)
        /\ g[k] \notin PackedFields
    BY <1>2, FieldFacts
  <1>4. Len(code[k]) = n /\ n \in Nat /\ n >= 1
    BY <1>2, <1>3 DEF IsCodeOf, LeafLayout
  <1>5. j \in 1 .. n
    BY <1>4 DEF InCode
  <1>6. before \in Nat /\ after \in Nat
    <2>1. before \in Nat
      BY ReachedInBlock
    <2>2. InCode(code, NextPart(code, k, j), NextOp(code, k, j))
      BY NextInCode
    <2>3. after \in Nat
      BY <2>2, ReachedInBlock
    <2>4. QED
      BY <2>1, <2>3
  <1>7. before = IF j = 1 THEN FieldEnd(g, k - 1) ELSE S + E(j - 1)
    BY DEF Reached
  <1>8. after = IF j < n THEN S + E(j) ELSE FieldEnd(g, k)
    <2>1. CASE j < n
      <3>1. NextPart(code, k, j) = k /\ NextOp(code, k, j) = j + 1
        BY <1>4, <2>1 DEF NextPart, NextOp
      <3>2. j + 1 # 1 /\ (j + 1) - 1 = j
        BY <1>5
      <3>3. QED
        BY <2>1, <3>1, <3>2 DEF Reached
    <2>2. CASE ~(j < n)
      <3>1. NextPart(code, k, j) = k + 1 /\ NextOp(code, k, j) = 1
        BY <1>4, <2>2 DEF NextPart, NextOp
      <3>2. (k + 1) - 1 = k
        BY <1>3
      <3>3. QED
        BY <2>2, <3>1, <3>2 DEF Reached
    <2>3. QED
      BY <2>1, <2>2
  <1>9. /\ S \in Nat /\ FieldEnd(g, k - 1) <= S /\ FieldEnd(g, k) = S + SizeOf(g[k])
        /\ FieldEnd(g, k - 1) \in Nat /\ FieldEnd(g, k) \in Nat
    BY <1>1, <1>2, <1>3 DEF GlobalLayout
  <1>10. /\ E(0) = 0 /\ E(j - 1) \in Nat /\ E(j) \in Nat /\ E(j) <= SizeOf(g[k])
         /\ SizeOf(g[k]) \in Nat
    <2>1. j - 1 \in 0 .. n /\ j \in 0 .. n
      BY <1>4, <1>5
    <2>2. QED
      BY <1>3, <2>1 DEF LeafLayout
  <1>11. j = 1 => E(j - 1) = 0
    BY <1>10
  <1>12. ~(j < n) => j = n
    BY <1>4, <1>5
  <1>13. NoPadding(g) => FieldEnd(g, k - 1) = S /\ SizeOf(g[k]) = E(n)
    BY <1>2, NoPaddingFacts
  <1>14. Flat(g) => n = 1
    BY <1>1, <1>2 DEF Flat, GlobalLayout
  <1>15. Flat(g) => j = 1 /\ before = FieldEnd(g, k - 1) /\ after = FieldEnd(g, k)
    <2>1. n = 1 => j = 1 /\ ~(j < n)
      BY <1>5
    <2>2. QED
      BY <1>7, <1>8, <1>14, <2>1
  <1>16. PICK eb \in Nat : eb = E(j - 1)
    BY <1>10
  <1>17. PICK ea \in Nat : ea = E(j)
    BY <1>10
  <1> HIDE DEF E, S, before, after, n
  <1>18. before <= S + eb /\ (NoPadding(g) => before = S + eb)
    BY <1>6, <1>7, <1>9, <1>11, <1>13, <1>16
  <1>19. S + ea <= after /\ (NoPadding(g) => after = S + ea)
    BY <1>6, <1>8, <1>9, <1>10, <1>12, <1>13, <1>17
  <1>20. QED
    BY <1>2, <1>5, <1>6, <1>14, <1>15, <1>16, <1>17, <1>18, <1>19
       DEF ScalarPosition, E, S, before, after, n

(* Memory.zero never overtakes LLVM's layout, if nothing is packed. *)
LEMMA ZeroPlace ==
  ASSUME NEW g, WellFormed(g), Natural(g), NEW code, IsCodeOf(code, g), NEW k, NEW j, InCode(code, k, j),
         k <= Len(code), NEW base \in Nat, NEW addr, At(g, k, j, base, addr),
         code[k][j].op = "zero"
  PROVE  At(g, NextPart(code, k, j), NextOp(code, k, j), base, addr + code[k][j].size)
  <1> DEFINE size == code[k][j].size
             before == Reached(g, k, j)
             after == Reached(g, NextPart(code, k, j), NextOp(code, k, j))
  <1>1. GlobalLayout(g) /\ k \in 1 .. Len(code) + 1 /\ j \in Nat \ {0} /\ j <= Len(code[k])
    BY GlobalLaidOut DEF InCode
  <1>2. before \in Nat
    BY ReachedInBlock
  <1>3. addr \in Nat /\ base <= addr /\ addr <= base + before /\ (Plain(g) => addr = base + before)
    BY DEF At
  <1>4. SUFFICES size \in Nat /\ after \in Nat /\ before + size <= after
                 /\ (Plain(g) => before + size = after)
    <2>1. PICK b \in Nat : b = before
      BY <1>2
    <2> HIDE DEF before, after, size
    <2>2. ASSUME NEW a \in Nat, NEW s \in Nat, a = after, s = size, b + s <= a,
                 Plain(g) => b + s = a
          PROVE  /\ addr + s \in Nat /\ base <= addr + s /\ addr + s <= base + a
                 /\ Plain(g) => addr + s = base + a
      BY <1>3, <2>1, <2>2
    <2>3. QED
      BY <1>4, <2>1, <2>2 DEF At, after, size
  <1>5. CASE AllNull(g)
    <2>1. Len(code) = 1 /\ Len(code[1]) = 1 /\ code[1][1] = Zero(AllocSize(g))
      BY <1>5 DEF IsCodeOf
    <2>2. k = 1
      BY <1>1, <2>1
    <2>3. j = 1
      BY <1>1, <2>1, <2>2
    <2>4. size = AllocSize(g) /\ size \in Nat
      BY <1>1, <2>1, <2>2, <2>3 DEF Zero, GlobalLayout
    <2>5. NextPart(code, k, j) = 2
      <3>1. Len(code[k]) = 1
        BY <2>1, <2>2
      <3>2. ~(j < Len(code[k]))
        BY <2>3, <3>1
      <3>3. k + 1 = 2
        BY <2>2
      <3>4. QED
        BY <3>2, <3>3 DEF NextPart
    <2>6. before = 0 /\ after = AllocSize(g)
      BY <1>5, <2>2, <2>5 DEF Reached
    <2> HIDE DEF before, after, size
    <2>7. QED
      BY <2>4, <2>6
  <1>6. CASE ~AllNull(g) /\ IsNull(g[k])
    <2>1. k \in 1 .. Len(g) /\ Len(code) = Len(g)
      <3>1. Len(code) = Len(g) /\ Len(g) \in Nat
        BY <1>1, <1>6 DEF IsCodeOf, GlobalLayout
      <3>2. QED
        BY <1>1, <3>1
    <2>2. Len(code[k]) = 1 /\ code[k][1] = Zero(SizeOf(g[k]))
      BY <1>6, <2>1 DEF IsCodeOf
    <2>3. j = 1
      BY <1>1, <2>2
    <2>4. LeafLayout(g[k]) /\ k \in Nat /\ k - 1 \in 0 .. Len(g) /\ k \in 0 .. Len(g)
      BY <2>1, FieldFacts
    <2>5. size = SizeOf(g[k]) /\ size \in Nat
      <3>1. size = SizeOf(g[k])
        BY <2>2, <2>3 DEF Zero
      <3>2. SizeOf(g[k]) \in Nat
        BY <2>4 DEF LeafLayout
      <3>3. QED
        BY <3>1, <3>2
    <2>6. NextPart(code, k, j) = k + 1 /\ NextOp(code, k, j) = 1
      BY <2>2, <2>3 DEF NextPart, NextOp
    <2>7. (k + 1) - 1 = k
      BY <2>4
    <2>8. before = FieldEnd(g, k - 1) /\ after = FieldEnd(g, k)
      BY <1>6, <2>3, <2>6, <2>7 DEF Reached
    <2>9. /\ FieldStart(g, k) \in Nat /\ FieldEnd(g, k - 1) <= FieldStart(g, k)
          /\ FieldEnd(g, k) = FieldStart(g, k) + SizeOf(g[k]) /\ FieldEnd(g, k) \in Nat
      BY <1>1, <2>1, <2>4 DEF GlobalLayout
    <2>10. Plain(g) => FieldStart(g, k) = FieldEnd(g, k - 1)
      <3>1. NoPadding(g) => FieldStart(g, k) = FieldEnd(g, k - 1)
        BY <2>1, NoPaddingFacts
      <3>2. ~(Flat(g) /\ NoNull(g))
        <4> SUFFICES ASSUME Flat(g), NoNull(g) PROVE FALSE
          OBVIOUS
        <4>1. k \in DOMAIN g /\ DOMAIN g[k] = 1 .. Len(g[k])
          BY <1>1, <2>1, <2>4 DEF GlobalLayout, LeafLayout
        <4>2. 1 \in DOMAIN g[k]
          <5>1. Len(g[k]) = 1
            BY <4>1 DEF Flat
          <5>2. QED
            BY <4>1, <5>1
        <4>3. QED
          BY <1>6, <4>1, <4>2 DEF NoNull, IsNull
      <3>3. QED
        BY <3>1, <3>2 DEF Plain
    <2>11. PICK F \in Nat : F = FieldEnd(g, k - 1)
      BY <1>2, <2>8
    <2> HIDE DEF before, after, size
    <2>12. QED
      BY <2>5, <2>8, <2>9, <2>10, <2>11
  <1>7. CASE ~AllNull(g) /\ ~IsNull(g[k])
    <2>1. ScalarPosition(g, code, k, j)
      BY <1>7, AtScalar
    <2>2. k \in 1 .. Len(g) /\ j \in 1 .. Len(g[k]) /\ after \in Nat
      BY <2>1 DEF ScalarPosition
    <2>3. LeafLayout(g[k])
      BY <2>2, FieldFacts
    <2>4. code[k][j] = OperationFor(k, j, g[k][j])
      BY <1>7, <2>2 DEF IsCodeOf
    <2>5. g[k][j].init.is = "null" /\ size = g[k][j].size
      BY <2>4 DEF OperationFor, Zero, Pack
    <2>6. /\ size \in Nat /\ LeafStart(g[k], j) \in Nat
          /\ LeafEnd(g[k], j - 1) <= LeafStart(g[k], j)
          /\ LeafEnd(g[k], j) = LeafStart(g[k], j) + size
      <3>1. /\ g[k][j].size \in {1, 2, 4, 8} /\ LeafStart(g[k], j) \in Nat
            /\ LeafEnd(g[k], j - 1) <= LeafStart(g[k], j)
            /\ LeafEnd(g[k], j) = LeafStart(g[k], j) + g[k][j].size
        BY <2>2, <2>3 DEF LeafLayout
      <3> HIDE DEF size
      <3>2. size \in Nat
        BY <2>5, <3>1
      <3>3. QED
        BY <2>5, <3>1, <3>2
    <2>7. PICK eb \in Nat : eb = LeafEnd(g[k], j - 1)
      <3>1. j - 1 \in 0 .. Len(g[k])
        <4>1. Len(g[k]) \in Nat
          BY <2>3 DEF LeafLayout
        <4>2. QED
          BY <2>2, <4>1
      <3>2. QED
        BY <2>3, <3>1 DEF LeafLayout
    <2>8. PICK S \in Nat : S = FieldStart(g, k)
      BY <1>1, <2>2 DEF GlobalLayout
    <2>9. /\ before <= S + eb /\ S + LeafEnd(g[k], j) <= after
          /\ NoPadding(g) => before = S + eb /\ after = S + LeafEnd(g[k], j)
      BY <2>1, <2>7, <2>8 DEF ScalarPosition
    <2>10. Plain(g) => NoPadding(g)
      <3>1. k \in DOMAIN g /\ j \in DOMAIN g[k]
        BY <1>1, <2>2, <2>3 DEF GlobalLayout, LeafLayout
      <3>2. QED
        BY <2>5, <3>1 DEF Plain, NoNull
    <2>11. NoPadding(g) => LeafStart(g[k], j) = eb
      BY <2>2, <2>7, NoPaddingFacts
    <2> HIDE DEF before, after, size
    <2>12. QED
      BY <1>2, <2>2, <2>6, <2>7, <2>9, <2>10, <2>11
  <1>8. QED
    BY <1>5, <1>6, <1>7

(* An operation that packs is the one for scalar j of field k. *)
LEMMA PackCode ==
  ASSUME NEW g, WellFormed(g), NEW code, IsCodeOf(code, g), NEW k, NEW j, InCode(code, k, j),
         k <= Len(code), code[k][j].op = "pack"
  PROVE  /\ ~AllNull(g) /\ ~IsNull(g[k]) /\ k \in 1 .. Len(g) /\ j \in 1 .. Len(g[k])
         /\ k \in DOMAIN g /\ j \in DOMAIN g[k] /\ g[k][j].init.is # "null"
         /\ code[k][j] = Pack(k, j, g[k][j])
  <1>1. GlobalLayout(g) /\ k \in 1 .. Len(code) + 1 /\ j \in Nat \ {0} /\ j <= Len(code[k])
    BY GlobalLaidOut DEF InCode
  <1>2. ~AllNull(g)
    <2> SUFFICES ASSUME AllNull(g) PROVE FALSE
      OBVIOUS
    <2>1. Len(code) = 1 /\ Len(code[1]) = 1 /\ code[1][1] = Zero(AllocSize(g))
      BY DEF IsCodeOf
    <2>2. k = 1
      BY <1>1, <2>1
    <2>3. Len(code[k]) = 1
      BY <2>1, <2>2
    <2>4. j = 1
      BY <1>1, <2>3
    <2>5. QED
      BY <2>1, <2>2, <2>4 DEF Zero
  <1>3. k \in 1 .. Len(g)
    <2>1. Len(code) = Len(g) /\ Len(g) \in Nat
      BY <1>1, <1>2 DEF IsCodeOf, GlobalLayout
    <2>2. QED
      BY <1>1, <2>1
  <1>4. ~IsNull(g[k])
    <2> SUFFICES ASSUME IsNull(g[k]) PROVE FALSE
      OBVIOUS
    <2>1. Len(code[k]) = 1 /\ code[k][1] = Zero(SizeOf(g[k]))
      BY <1>2, <1>3 DEF IsCodeOf
    <2>2. j = 1
      BY <1>1, <2>1
    <2>3. QED
      BY <2>1, <2>2 DEF Zero
  <1>5. j \in 1 .. Len(g[k])
    <2>1. Len(code[k]) = Len(g[k])
      BY <1>2, <1>3, <1>4 DEF IsCodeOf
    <2>2. Len(g[k]) \in Nat
      BY <1>3, FieldFacts DEF LeafLayout
    <2>3. QED
      BY <1>1, <2>1, <2>2
  <1>6. k \in DOMAIN g /\ j \in DOMAIN g[k]
    BY <1>1, <1>3, <1>5, FieldFacts DEF GlobalLayout, LeafLayout
  <1>7. code[k][j] = OperationFor(k, j, g[k][j])
    BY <1>2, <1>3, <1>4, <1>5 DEF IsCodeOf
  <1>8. g[k][j].init.is # "null" /\ code[k][j] = Pack(k, j, g[k][j])
    BY <1>7 DEF OperationFor, Zero
  <1>9. QED
    BY <1>2, <1>3, <1>4, <1>5, <1>6, <1>8

(* What Memory.pack does with scalar j of field k. *)
IsPlaced(g, k, j, base, addr) ==
  LET s == g[k][j]
      a == alignOffset[addr, s.size]
  IN  /\ a \in Nat /\ base <= a /\ a + s.size <= base + AllocSize(g)
      /\ Plain(g) => a = base + FieldOffset(g, k) + LeafOffset(g[k], j)

(* Memory.pack never overtakes LLVM's layout either: it aligns the address *)
(* as the layout aligns the scalar, since blocks, fields and scalars start *)
(* at multiples of their alignments.                                       *)
LEMMA PackPlace ==
  ASSUME NEW g, WellFormed(g), Natural(g), NEW code, IsCodeOf(code, g), NEW k, NEW j, InCode(code, k, j),
         k <= Len(code), NEW base \in Nat, base % 8 = 0, NEW addr, At(g, k, j, base, addr),
         code[k][j].op = "pack"
  PROVE  /\ k \in DOMAIN g /\ j \in DOMAIN g[k] /\ g[k][j].init.is # "null"
         /\ code[k][j] = Pack(k, j, g[k][j])
         /\ IsPlaced(g, k, j, base, addr)
         /\ At(g, NextPart(code, k, j), NextOp(code, k, j), base,
               alignOffset[addr, g[k][j].size] + g[k][j].size)
  <1> DEFINE before == Reached(g, k, j)
             after == Reached(g, NextPart(code, k, j), NextOp(code, k, j))
  <1>1. GlobalLayout(g) /\ k \in 1 .. Len(code) + 1 /\ j \in Nat \ {0} /\ j <= Len(code[k])
    BY GlobalLaidOut DEF InCode
  <1>2. /\ ~AllNull(g) /\ ~IsNull(g[k]) /\ k \in DOMAIN g /\ j \in DOMAIN g[k]
        /\ g[k][j].init.is # "null" /\ code[k][j] = Pack(k, j, g[k][j])
    BY PackCode
  <1>3. k \in 1 .. Len(g)
    BY PackCode
  <1>4. ~IsNull(g[k])
    BY <1>2
  <1>5. ScalarPosition(g, code, k, j)
    BY <1>2, <1>4, AtScalar
  <1>6. j \in 1 .. Len(g[k]) /\ before \in Nat /\ after \in Nat
    BY <1>5 DEF ScalarPosition
  <1>7. LeafLayout(g[k]) /\ g[k] \notin PackedFields
    BY <1>3, FieldFacts
  <1>8. k \in DOMAIN g /\ j \in DOMAIN g[k]
    BY <1>2
  <1>10. g[k][j].init.is # "null" /\ code[k][j] = Pack(k, j, g[k][j])
    BY <1>2
  <1>11. PICK s \in {1, 2, 4, 8} : s = g[k][j].size
    BY <1>6, <1>7 DEF LeafLayout
  <1>12. PICK S \in Nat : S = FieldStart(g, k)
    BY <1>1, <1>3 DEF GlobalLayout
  <1>13. PICK eb \in Nat : eb = LeafEnd(g[k], j - 1)
    <2>1. Len(g[k]) \in Nat
      BY <1>7 DEF LeafLayout
    <2>2. j - 1 \in 0 .. Len(g[k])
      BY <1>6, <2>1
    <2>3. QED
      BY <1>7, <2>2 DEF LeafLayout
  <1>14. PICK T \in Nat : T = LeafStart(g[k], j)
    BY <1>6, <1>7 DEF LeafLayout
  <1>15. T = alignOffset[eb, s] /\ LeafEnd(g[k], j) = T + s
    BY <1>6, <1>7, <1>11, <1>13, <1>14 DEF LeafLayout
  <1>16. /\ before <= S + eb /\ S + (T + s) <= after
         /\ NoPadding(g) => before = S + eb /\ after = S + (T + s)
    BY <1>5, <1>12, <1>13, <1>15 DEF ScalarPosition
  <1>17. (base + S) % s = 0 /\ base % s = 0
    <2>1. base % s = 0
      <3>1. s <= 8 /\ 8 \in {1, 2, 4, 8}
        OBVIOUS
      <3>2. QED
        BY <3>1, AlignDivides
    <2>2. S % s = 0
      <3>1. S % Align(g[k]) = 0
        BY <1>1, <1>3, <1>12 DEF GlobalLayout
      <3>2. Align(g[k]) \in {1, 2, 4, 8} /\ s <= Align(g[k])
        BY <1>6, <1>7, <1>11 DEF LeafLayout
      <3>3. QED
        BY <3>1, <3>2, AlignDivides
    <2>3. alignOffset[base + S, s] = base + alignOffset[S, s]
      BY <2>1, AlignShift
    <2>4. alignOffset[S, s] = S
      BY <2>2, AlignFacts
    <2>5. base + S \in Nat
      OBVIOUS
    <2>6. alignOffset[base + S, s] % s = 0
      BY <2>5, AlignFacts
    <2>7. QED
      BY <2>1, <2>3, <2>4, <2>6
  <1>18. addr \in Nat /\ base <= addr /\ addr <= base + before /\ (Plain(g) => addr = base + before)
    BY DEF At
  <1>19. PICK a : a = alignOffset[addr, s]
    OBVIOUS
  <1>20. a \in Nat /\ addr <= a
    BY <1>18, <1>19, AlignFacts
  <1>21. alignOffset[(base + S) + eb, s] = (base + S) + T
    <2>1. base + S \in Nat
      OBVIOUS
    <2>2. alignOffset[(base + S) + eb, s] = (base + S) + alignOffset[eb, s]
      BY <1>17, <2>1, AlignShift
    <2>3. QED
      BY <1>15, <2>2
  <1> HIDE DEF before, after
  <1>22. a <= (base + S) + T
    <2>1. (base + S) + eb \in Nat /\ addr <= (base + S) + eb
      BY <1>6, <1>16, <1>18
    <2>2. alignOffset[addr, s] <= alignOffset[(base + S) + eb, s]
      BY <1>18, <2>1, AlignMonotone
    <2>3. QED
      BY <1>19, <1>21, <2>2
  <1>23. ASSUME NoPadding(g) PROVE a = (base + S) + T /\ after = S + (T + s)
    <2>1. addr = (base + S) + eb
      BY <1>6, <1>16, <1>18, <1>23 DEF Plain
    <2>2. QED
      BY <1>16, <1>19, <1>21, <1>23, <2>1
  <1>24. ASSUME Flat(g), NoNull(g) PROVE a = (base + S) + T /\ after = S + (T + s)
    <2>1. j = 1 /\ Len(g[k]) = 1 /\ before = FieldEnd(g, k - 1) /\ after = FieldEnd(g, k)
      BY <1>5, <1>24 DEF ScalarPosition, before, after
    <2>2. IsSequence(g[k])
      BY <1>8 DEF WellFormed
    <2>3. SizeOf(g[k]) = s /\ Align(g[k]) = s /\ T = 0
      BY <1>7, <1>11, <1>14, <2>1, <2>2, SingleFacts
    <2>4. after = S + s
      BY <1>1, <1>3, <1>12, <2>1, <2>3 DEF GlobalLayout
    <2>5. S = alignOffset[before, s]
      <3>1. Fields(g)[k].align = s
        BY <1>3, <2>3, FieldParts
      <3>2. QED
        BY <1>12, <2>1, <3>1 DEF FieldStart, FieldEnd, Start
    <2>6. addr = base + before
      BY <1>18, <1>24 DEF Plain
    <2>7. alignOffset[base + before, s] = base + alignOffset[before, s]
      BY <1>6, <1>17, AlignShift
    <2>8. a = base + S
      BY <1>19, <2>5, <2>6, <2>7
    <2>9. QED
      BY <2>3, <2>4, <2>8
  <1>25. Plain(g) => a = (base + S) + T /\ after = S + (T + s)
    BY <1>23, <1>24 DEF Plain
  <1>26. after <= AllocSize(g) /\ AllocSize(g) \in Nat
    <2>1. InCode(code, NextPart(code, k, j), NextOp(code, k, j))
      BY NextInCode
    <2>2. QED
      BY <1>1, <2>1, ReachedInBlock DEF GlobalLayout, after
  <1>27. a + s \in Nat /\ base <= a /\ base <= a + s /\ a + s <= base + after
    BY <1>6, <1>16, <1>18, <1>20, <1>22
  <1>28. a + s <= base + AllocSize(g)
    BY <1>6, <1>20, <1>26, <1>27
  <1>29. Plain(g) => a + s = base + after
    BY <1>6, <1>25
  <1>30. At(g, NextPart(code, k, j), NextOp(code, k, j), base, a + s)
    BY <1>27, <1>29 DEF At, after
  <1>31. FieldOffset(g, k) = S /\ LeafOffset(g[k], j) = T
    BY <1>1, <1>3, <1>6, <1>7, <1>12, <1>14 DEF GlobalLayout, LeafLayout
  <1>32. IsPlaced(g, k, j, base, addr)
    BY <1>11, <1>19, <1>20, <1>25, <1>27, <1>28, <1>31 DEF IsPlaced
  <1>33. QED
    BY <1>8, <1>10, <1>11, <1>19, <1>30, <1>32

-----------------------------------------------------------------------------
(* The stack of initialisers *)

(* A program's classes, globals and scalars. *)
LEMMA ProgramFacts ==
  ASSUME DataInv, NEW c \in Classes
  PROVE  /\ Len(program[c]) \in Nat /\ Globals(c) = 1 .. Len(program[c])
         /\ \A g \in Globals(c) : WellFormed(program[c][g]) /\ AllocSize(program[c][g]) \in Nat
  <1>1. /\ IsSequence(program[c])
        /\ \A g \in DOMAIN program[c] : WellFormed(program[c][g])
    BY ProgramAssumption DEF DataInv, Classes, WellFormed
  <1>2. \A g \in DOMAIN program[c] : AllocSize(program[c][g]) \in Nat
    BY <1>1, GlobalLaidOut DEF GlobalLayout
  <1>3. QED
    BY <1>1, <1>2, SequenceFacts DEF Globals

(* What an initialiser names is there. *)
LEMMA InitFacts ==
  ASSUME DataInv, NEW c \in Classes, NEW g \in Globals(c),
         NEW k \in DOMAIN program[c][g], NEW l \in DOMAIN program[c][g][k],
         NEW i, i = program[c][g][k][l].init
  PROVE  /\ i.is = "global" => i.class \in Classes /\ i.at \in Globals(i.class)
         /\ i.is = "function" => i.class \in Classes /\ i.at \in Methods
  BY ProgramAssumption DEF DataInv, Classes, Globals

(* The innermost initialiser. *)
LEMMA TopFacts ==
  ASSUME DataInv, StackInv, frames # << >>
  PROVE  /\ Len(frames) \in Nat /\ Len(frames) # 0 /\ Len(frames) \in 1 .. Len(frames)
         /\ FrameOK(Top, program, status, field) /\ Top.class \in Classes
         /\ IsSequence(program[Top.class])
         /\ Len(program[Top.class]) \in Nat
         /\ Globals(Top.class) = 1 .. Len(program[Top.class])
  <1>1. frames \in Seq(Range(frames)) /\ Len(frames) \in Nat
    BY LenProperties DEF StackInv, IsSequence
  <1>2. Len(frames) # 0
    BY <1>1, EmptySeq
  <1>3. Len(frames) \in 1 .. Len(frames)
    BY <1>1, <1>2
  <1>4. FrameOK(Top, program, status, field)
    BY <1>3 DEF StackInv, Top
  <1>5. Top.class \in Classes
    BY <1>4 DEF FrameOK, Classes
  <1>6. IsSequence(program[Top.class])
    BY <1>5, ProgramAssumption DEF DataInv, Classes
  <1>7. QED
    BY <1>1, <1>2, <1>3, <1>4, <1>5, <1>6, ProgramFacts

(* A step of the innermost initialiser. *)
LEMMA TopStep ==
  ASSUME DataInv, StackInv, frames # << >>, NEW fr, SetTop(fr),
         UNCHANGED <<program, status>>, fr.class = Top.class, FrameOK(fr, program, status, field'),
         \A i \in 1 .. Len(frames) : i # Len(frames) => FrameOK(frames[i], program, status, field')
  PROVE  StackInv'
  <1> DEFINE n == Len(frames)
  <1>1. n \in Nat /\ n # 0 /\ n \in 1 .. n /\ IsSequence(frames)
    BY TopFacts DEF StackInv
  <1>2. /\ IsSequence(frames') /\ Len(frames') = n /\ frames'[n] = fr
        /\ \A i \in 1 .. n : i # n => frames'[i] = frames[i]
    <2>1. frames' = WithTop(frames, fr)
      BY DEF SetTop, WithTop
    <2>2. QED
      BY <1>1, <2>1, ReplaceTop
  <1>3. ASSUME NEW i \in 1 .. n
        PROVE  frames'[i].class = frames[i].class
    BY <1>2 DEF Top
  <1>4. \A i \in 1 .. n : FrameOK(frames'[i], program, status, field')
    BY <1>2
  <1>5. \A i \in 1 .. n : i # n => frames'[i].phase = "initialise"
    BY <1>2 DEF StackInv
  <1>6. \A i, j \in 1 .. n : frames'[i].class = frames'[j].class => i = j
    BY <1>3 DEF StackInv
  <1>7. \A c \in Classes : status[c] = "running" => \E i \in 1 .. n : frames'[i].class = c
    BY <1>3 DEF StackInv
  <1>8. QED
    BY <1>2, <1>4, <1>5, <1>6, <1>7 DEF StackInv, Classes

(* Steps that touch neither the data segment nor the registry. *)
LEMMA DataKept ==
  ASSUME ApartInv, RegistryInv, UNCHANGED <<program, dataEnd, field, registry>>
  PROVE  ApartInv' /\ RegistryInv'
  <1>1. UNCHANGED <<registeredClasses, functionPointers, functionObjects>>
    BY DEF registry
  <1>2. Allocated' = Allocated
    BY DEF Allocated, Classes
  <1>3. QED
    BY <1>1, <1>2 DEF ApartInv, RegistryInv, Address, Size, Classes

(* Steps that leave stored values and their targets alone. *)
LEMMA StoredKept ==
  ASSUME StoredInv, UNCHANGED <<program, field, registry, stored>>
  PROVE  StoredInv'
  <1>1. UNCHANGED <<registeredClasses, functionPointers, functionObjects>>
    BY DEF registry
  <1>2. QED
    BY <1>1 DEF StoredInv, Resolved, IsScalar, InitOf, Classes, Globals

(* The first use of a class starts its initialiser. *)
LEMMA EnterInv ==
  ASSUME StaticInv, NEW c \in Classes, Enter(c),
         UNCHANGED <<program, dataEnd, field, registry, stored>>,
         frames # << >> => Top.phase = "initialise"
  PROVE  StaticInv'
  <1> DEFINE n == Len(frames)
  <1>1. /\ status[c] = "no" /\ status' = [status EXCEPT ![c] = "running"]
        /\ frames' = Append(frames, Frame(c)) /\ DataInv /\ StackInv /\ ClassInv
    BY DEF Enter, StaticInv
  <1>2. n \in Nat /\ IsSequence(frames)
    BY <1>1, SequenceFacts DEF StackInv
  <1>3. /\ IsSequence(frames') /\ Len(frames') = n + 1 /\ frames'[n + 1] = Frame(c)
        /\ \A i \in 1 .. n : frames'[i] = frames[i]
    BY <1>1, <1>2, AppendSequence
  <1>4. status \in [Classes -> {"no", "running", "done"}]
    BY <1>1 DEF DataInv
  <1>5. \A d \in Classes : status'[d] = IF d = c THEN "running" ELSE status[d]
    BY <1>1, <1>4
  <1>6. DataInv'
    <2>1. status' \in [Classes -> {"no", "running", "done"}]
      BY <1>1, <1>4
    <2>2. QED
      BY <1>1, <2>1 DEF DataInv, Classes, Globals
  <1>7. ClassInv'
    BY <1>1, <1>5 DEF ClassInv, Classes, Globals
  <1>8. \A i \in 1 .. n : frames[i].class \in Classes /\ status[frames[i].class] = "running"
    BY <1>1 DEF StackInv, FrameOK, Classes
  <1>9. StackInv'
    <2>1. ASSUME NEW i \in 1 .. n
          PROVE  FrameOK(frames'[i], program, status', field)
      <3>1. FrameOK(frames[i], program, status, field)
        BY <1>1 DEF StackInv
      <3>2. status'[frames[i].class] = "running"
        BY <1>5, <1>8
      <3>3. QED
        BY <1>3, <3>1, <3>2 DEF FrameOK
    <2>2. FrameOK(Frame(c), program, status', field)
      <3>1. Len(program[c]) \in Nat /\ DOMAIN program[c] = 1 .. Len(program[c])
        BY <1>1, ProgramFacts DEF Globals
      <3>2. \A g \in DOMAIN program[c] : field[c][g] = 0 /\ ~(g < 1)
        BY <1>1, <3>1 DEF ClassInv, Globals
      <3>3. 1 \in 1 .. Len(program[c]) + 1
        BY <3>1
      <3>4. QED
        BY <1>5, <3>2, <3>3 DEF FrameOK, Frame, Classes
    <2>3. \A i \in 1 .. n : i = n \/ i # n
      OBVIOUS
    <2>4. \A i \in 1 .. n : frames'[i].phase = "initialise"
      <3>1. n # 0 => frames # << >>
        OBVIOUS
      <3>2. ASSUME NEW i \in 1 .. n, i = n PROVE frames[i].phase = "initialise"
        <4>1. n # 0
          BY <1>2
        <4>2. QED
          BY <3>1, <3>2, <4>1 DEF Top
      <3>3. QED
        BY <1>1, <1>3, <3>2 DEF StackInv
    <2>5. \A i, j \in 1 .. n + 1 : frames'[i].class = frames'[j].class => i = j
      <3>1. Frame(c).class = c
        BY DEF Frame
      <3>2. \A i \in 1 .. n : frames[i].class # c
        BY <1>1, <1>8
      <3>3. \A i \in 1 .. n + 1 : i = n + 1 \/ i \in 1 .. n
        BY <1>2
      <3>4. \A i, j \in 1 .. n : frames[i].class = frames[j].class => i = j
        BY <1>1 DEF StackInv
      <3>5. QED
        BY <1>3, <3>1, <3>2, <3>3, <3>4
    <2>6. ASSUME NEW d \in Classes, status'[d] = "running"
          PROVE  \E i \in 1 .. n + 1 : frames'[i].class = d
      <3>1. CASE d = c
        <4>1. n + 1 \in 1 .. n + 1 /\ Frame(c).class = c
          BY <1>2 DEF Frame
        <4>2. QED
          BY <1>3, <3>1, <4>1
      <3>2. CASE d # c
        <4>1. PICK i \in 1 .. n : frames[i].class = d
          BY <1>1, <1>5, <2>6, <3>2 DEF StackInv
        <4>2. i \in 1 .. n + 1
          BY <1>2
        <4>3. QED
          BY <1>3, <4>1, <4>2
      <3>3. QED
        BY <3>1, <3>2
    <2>7. \A i \in 1 .. n + 1 : FrameOK(frames'[i], program, status', field)
      <3>1. \A i \in 1 .. n + 1 : i = n + 1 \/ i \in 1 .. n
        BY <1>2
      <3>2. QED
        BY <1>3, <2>1, <2>2, <3>1
    <2>8. \A i \in 1 .. n + 1 : i # n + 1 => frames'[i].phase = "initialise"
      <3>1. \A i \in 1 .. n + 1 : i = n + 1 \/ i \in 1 .. n
        BY <1>2
      <3>2. QED
        BY <2>4, <3>1
    <2>9. QED
      BY <1>3, <2>5, <2>6, <2>7, <2>8 DEF StackInv, Classes
  <1>10. ApartInv' /\ RegistryInv' /\ StoredInv'
    BY DataKept, StoredKept DEF StaticInv
  <1>11. QED
    BY <1>6, <1>7, <1>9, <1>10 DEF StaticInv

(* The allocated globals. *)
LEMMA InAllocated ==
  \A p : p \in Allocated <=>
    \E c \in Classes : \E g \in Globals(c) : p = <<c, g>> /\ field[c][g] # 0
  BY DEF Allocated, Globals

(* printClInit allocates the globals in their order, each at the end of    *)
(* the data segment.                                                       *)
LEMMA AllocateInv ==
  ASSUME StaticInv, AllocateGlobal
  PROVE  StaticInv'
  <1> DEFINE C == Top.class
             G == Top.global
             size == AllocSize(program[C][G])
             n == Len(frames)
             fr == [Top EXCEPT !.global = @ + 1]
  <1>1. /\ frames # << >> /\ Top.phase = "allocate" /\ G <= Len(program[C])
        /\ field' = [field EXCEPT ![C][G] = dataEnd]
        /\ dataEnd' = alignOffset[dataEnd + size, ALIGNMENT]
        /\ SetTop(fr) /\ UNCHANGED <<program, status, registry, stored>>
        /\ DataInv /\ StackInv /\ ClassInv /\ ApartInv /\ RegistryInv /\ StoredInv
    BY DEF AllocateGlobal, DataEndAfter, StaticInv
  <1>2. /\ n \in Nat /\ n # 0 /\ n \in 1 .. n /\ FrameOK(Top, program, status, field)
        /\ C \in Classes /\ Len(program[C]) \in Nat /\ Globals(C) = 1 .. Len(program[C])
    BY <1>1, TopFacts
  <1>3. /\ G \in Globals(C) /\ G \in Nat /\ status[C] = "running"
        /\ \A g \in Globals(C) : field[C][g] # 0 <=> g < G
    <2>1. /\ G \in 1 .. Len(program[C]) + 1 /\ status[C] = "running"
          /\ \A g \in Globals(C) : field[C][g] # 0 <=> g < G
      BY <1>1, <1>2 DEF FrameOK, Globals
    <2>2. G \in Globals(C) /\ G \in Nat
      <3>1. G <= Len(program[C]) /\ Len(program[C]) \in Nat /\ Globals(C) = 1 .. Len(program[C])
        BY <1>1, <1>2
      <3> HIDE DEF C, G
      <3>2. QED
        BY <2>1, <3>1
    <2>3. QED
      BY <2>1, <2>2
  <1>4. field[C][G] = 0
    BY <1>3
  <1>5. size \in Nat
    BY <1>1, <1>2, <1>3, ProgramFacts
  <1>6. /\ dataEnd \in Nat /\ dataEnd >= 8 /\ dataEnd' \in Nat /\ dataEnd' >= dataEnd + size
        /\ dataEnd' % ALIGNMENT = 0 /\ dataEnd' >= 8 /\ dataEnd' >= dataEnd
    <2>1. dataEnd \in Nat /\ dataEnd >= 8
      BY <1>1 DEF DataInv, ALIGNMENT
    <2>2. dataEnd + size \in Nat
      BY <1>5, <2>1
    <2>3. dataEnd' \in Nat /\ dataEnd' >= dataEnd + size /\ dataEnd' % ALIGNMENT = 0
      BY <1>1, <2>2, AlignedUp
    <2> HIDE DEF size
    <2>4. QED
      BY <1>5, <2>1, <2>3
  <1>7. /\ DOMAIN field' = Classes
        /\ \A c \in Classes : c # C => field'[c] = field[c]
        /\ field'[C] = [field[C] EXCEPT ![G] = dataEnd]
    BY <1>1, <1>2 DEF DataInv
  <1>8. /\ \A c \in Classes : field[c] \in [Globals(c) -> 0 .. dataEnd]
        /\ field'[C][G] = dataEnd /\ \A g \in Globals(C) : g # G => field'[C][g] = field[C][g]
    BY <1>1, <1>2, <1>3, <1>7 DEF DataInv
  <1>9. \A c \in Classes : \A g \in Globals(c) :
          field'[c][g] = IF c = C /\ g = G THEN dataEnd ELSE field[c][g]
    BY <1>7, <1>8
  <1> HIDE DEF size, C, G
  <1>10. DataInv'
    <2>1. 0 .. dataEnd \subseteq 0 .. dataEnd' /\ dataEnd \in 0 .. dataEnd'
      BY <1>6
    <2>2. ASSUME NEW c \in Classes PROVE field'[c] \in [Globals(c) -> 0 .. dataEnd']
      <3>1. CASE c = C
        BY <1>7, <1>8, <2>1, <3>1
      <3>2. CASE c # C
        BY <1>7, <1>8, <2>1, <3>2
      <3>3. QED
        BY <3>1, <3>2
    <2>3. QED
      BY <1>1, <1>6, <1>7, <2>2 DEF DataInv, Classes, Globals, ALIGNMENT
  <1>11. StackInv'
    <2>1. fr.class = Top.class
      BY <1>2 DEF FrameOK
    <2>2. FrameOK(fr, program, status, field')
      <3>1. /\ DOMAIN fr = {"class", "phase", "global", "part", "op", "addr"} /\ fr.class = C
            /\ fr.phase = "allocate" /\ fr.global = G + 1
        BY <1>1, <1>2 DEF FrameOK, C, G
      <3>2. G + 1 \in 1 .. Len(program[C]) + 1
        BY <1>2, <1>3
      <3>3. ASSUME NEW g \in Globals(C) PROVE field'[C][g] # 0 <=> g < G + 1
        <4>1. g \in Nat
          BY <1>2
        <4>2. field'[C][g] = IF g = G THEN dataEnd ELSE field[C][g]
          BY <1>2, <1>9
        <4>3. field[C][g] # 0 <=> g < G
          BY <1>3
        <4>4. QED
          BY <1>3, <1>6, <4>1, <4>2, <4>3
      <3>4. C \in DOMAIN program
        BY <1>2 DEF FrameOK, Classes
      <3> HIDE DEF fr
      <3>5. QED
        BY <1>3, <3>1, <3>2, <3>3, <3>4 DEF FrameOK, Globals
    <2>3. ASSUME NEW i \in 1 .. n, i # n PROVE FrameOK(frames[i], program, status, field')
      <3>1. FrameOK(frames[i], program, status, field)
        BY <1>1 DEF StackInv
      <3>2. frames[i].class \in Classes
        BY <3>1 DEF FrameOK, Classes
      <3>3. frames[i].class # C
        BY <1>1, <1>2, <2>3 DEF StackInv, Top, C
      <3>4. field'[frames[i].class] = field[frames[i].class]
        BY <1>7, <3>2, <3>3
      <3>5. QED
        BY <3>1, <3>4 DEF FrameOK
    <2> HIDE DEF fr
    <2>4. QED
      BY <1>1, <2>1, <2>2, <2>3, TopStep
  <1>12. ClassInv'
    <2>1. ASSUME NEW c \in Classes, NEW g \in Globals(c)
          PROVE  /\ status[c] = "no" => field'[c][g] = 0
                 /\ status[c] = "done" => field'[c][g] # 0
      BY <1>1, <1>3, <1>9 DEF ClassInv
    <2>2. QED
      BY <1>1, <2>1 DEF ClassInv, Classes, Globals
  <1>13. RegistryInv'
    BY <1>1 DEF RegistryInv, registry, Classes
  <1>14. StoredInv'
    <2> SUFFICES ASSUME NEW x \in DOMAIN stored,
                        InitOf(x).is = "global"
                 PROVE  field'[InitOf(x).class][InitOf(x).at] = field[InitOf(x).class][InitOf(x).at]
      BY <1>1 DEF StoredInv, Resolved, IsScalar, InitOf, Classes, Globals, registry
    <2>1. IsScalar(x) /\ field[InitOf(x).class][InitOf(x).at] # 0
      BY <1>1 DEF StoredInv, Resolved
    <2>2. InitOf(x).class \in Classes /\ InitOf(x).at \in Globals(InitOf(x).class)
      BY <1>1, <2>1, InitFacts DEF IsScalar, InitOf
    <2>3. QED
      BY <1>4, <1>9, <2>1, <2>2
  <1>15. ApartInv'
    <2> DEFINE new == <<C, G>>
    <2>1. new[1] = C /\ new[2] = G
      OBVIOUS
    <2> HIDE DEF new
    <2>2. ASSUME NEW p \in Allocated'
          PROVE  \/ p = new /\ Address(p)' = dataEnd /\ Size(p)' = size
                 \/ p \in Allocated /\ Address(p)' = Address(p) /\ Size(p)' = Size(p)
      <3>1. PICK c \in Classes : \E g \in Globals(c) : p = <<c, g>> /\ field'[c][g] # 0
        <4>1. \E c \in Classes' : \E g \in Globals(c)' : p = <<c, g>> /\ field'[c][g] # 0
          BY DEF Allocated, Globals
        <4>2. QED
          BY <1>1, <4>1 DEF Classes, Globals
      <3>2. PICK g \in Globals(c) : p = <<c, g>> /\ field'[c][g] # 0
        BY <3>1
      <3>3. p[1] = c /\ p[2] = g
        BY <3>2
      <3>4. Address(p)' = field'[c][g] /\ Size(p)' = AllocSize(program[c][g])
        BY <1>1, <3>3 DEF Address, Size
      <3>5. Address(p) = field[c][g] /\ Size(p) = AllocSize(program[c][g])
        BY <3>3 DEF Address, Size
      <3>6. CASE c = C /\ g = G
        BY <1>8, <3>2, <3>4, <3>6 DEF new, size
      <3>7. CASE ~(c = C /\ g = G)
        <4>1. field'[c][g] = field[c][g]
          BY <1>9, <3>7
        <4>2. p \in Allocated
          BY <3>2, <4>1, InAllocated
        <4>3. QED
          BY <3>4, <3>5, <4>1, <4>2
      <3>8. QED
        BY <3>6, <3>7
    <2>3. \A p \in Allocated : Address(p) \in Nat /\ Size(p) \in Nat
      <3> SUFFICES ASSUME NEW p \in Allocated PROVE Address(p) \in Nat /\ Size(p) \in Nat
        OBVIOUS
      <3>1. PICK c \in Classes : \E g \in Globals(c) : p = <<c, g>>
        BY InAllocated
      <3>2. PICK g \in Globals(c) : p = <<c, g>>
        BY <3>1
      <3>3. p[1] = c /\ p[2] = g
        BY <3>2
      <3>4. field[c][g] \in 0 .. dataEnd
        BY <1>8
      <3>5. field[c][g] \in Nat
        BY <1>6, <3>4
      <3>6. AllocSize(program[c][g]) \in Nat
        BY <1>1, ProgramFacts
      <3>7. QED
        BY <3>3, <3>5, <3>6 DEF Address, Size
    <2>4. UNCHANGED functionObjects
      BY <1>1 DEF registry
    <2>5. \A p \in Allocated : Address(p) >= 8 /\ Address(p) + Size(p) <= dataEnd
      BY <1>1 DEF ApartInv, ALIGNMENT
    <2>6. \A a \in DOMAIN functionObjects : a \in Nat /\ a >= 8 /\ a + 1 <= dataEnd
      BY <1>1 DEF ApartInv, ALIGNMENT
    <2>7. \A p \in Allocated' : Address(p)' >= 8 /\ Address(p)' + Size(p)' <= dataEnd'
      BY <1>5, <1>6, <2>2, <2>3, <2>5
    <2>8. \A a \in DOMAIN functionObjects : a \in Nat /\ a >= 8 /\ a + 1 <= dataEnd'
      BY <1>6, <2>6
    <2>9. ASSUME NEW p \in Allocated', NEW q \in Allocated', p # q
          PROVE  \/ Address(p)' + Size(p)' <= Address(q)'
                 \/ Address(q)' + Size(q)' <= Address(p)'
      <3>1. CASE p = new
        <4>1. q \in Allocated /\ Address(q)' = Address(q) /\ Size(q)' = Size(q)
          BY <2>2, <2>9, <3>1
        <4>2. \/ Address(p)' = dataEnd
              \/ p \in Allocated /\ Address(p)' = Address(p) /\ Size(p)' = Size(p)
          BY <2>2
        <4>3. QED
          BY <1>1, <2>5, <2>9, <4>1, <4>2 DEF ApartInv
      <3>2. CASE p # new
        <4>1. p \in Allocated /\ Address(p)' = Address(p) /\ Size(p)' = Size(p)
          BY <2>2, <3>2
        <4>2. \/ Address(q)' = dataEnd
              \/ q \in Allocated /\ Address(q)' = Address(q) /\ Size(q)' = Size(q)
          BY <2>2
        <4>3. QED
          BY <1>1, <2>5, <2>9, <4>1, <4>2 DEF ApartInv
      <3>3. QED
        BY <3>1, <3>2
    <2>10. ASSUME NEW p \in Allocated', NEW a \in DOMAIN functionObjects
           PROVE  Address(p)' + Size(p)' <= a \/ a + 1 <= Address(p)'
      BY <1>1, <2>2, <2>6 DEF ApartInv
    <2>11. QED
      BY <2>4, <2>7, <2>8, <2>9, <2>10 DEF ApartInv, ALIGNMENT
  <1>16. QED
    BY <1>10, <1>11, <1>12, <1>13, <1>14, <1>15 DEF StaticInv


(* Before main nothing is allocated, and the null pointer has its block. *)
LEMMA InitInv ==
  ASSUME Init
  PROVE  StaticInv
  <1>1. /\ program \in Programs /\ dataEnd = 8 /\ frames = << >> /\ registeredClasses = {}
        /\ functionPointers = << >> /\ functionObjects = << >> /\ stored = << >>
        /\ field = [c \in Classes |-> [g \in Globals(c) |-> 0]]
        /\ status = [c \in Classes |-> "no"]
    BY DEF Init, ALIGNMENT, Globals
  <1>2. DOMAIN << >> = {} /\ Len(<< >>) = 0
    OBVIOUS
  <1>3. DataInv
    BY <1>1 DEF DataInv, ALIGNMENT
  <1>4. StackInv
    <2>1. IsSequence(<< >>)
      <3>1. << >> \in Seq({})
        OBVIOUS
      <3>2. QED
        BY <3>1, SeqIsSequence
    <2>2. \A c \in Classes : status[c] # "running"
      BY <1>1
    <2>3. \A i \in 1 .. 0 : FALSE
      OBVIOUS
    <2>4. Len(frames) = 0
      BY <1>1
    <2>5. QED
      BY <1>1, <2>1, <2>2, <2>3, <2>4 DEF StackInv
  <1>5. ClassInv
    BY <1>1 DEF ClassInv
  <1>6. Allocated = {}
    BY <1>1 DEF Allocated, Globals
  <1>7. ApartInv
    BY <1>1, <1>2, <1>6 DEF ApartInv
  <1>8. RegistryInv
    <2>1. IsFiniteSet({})
      BY FS_EmptySet
    <2>2. {} \X Methods = {}
      OBVIOUS
    <2>3. << >> \in [{} -> {}]
      OBVIOUS
    <2>4. QED
      BY <1>1, <1>2, <2>1, <2>2, <2>3 DEF RegistryInv
  <1>9. StoredInv
    BY <1>1, <1>2 DEF StoredInv
  <1>10. QED
    BY <1>3, <1>4, <1>5, <1>7, <1>8, <1>9 DEF StaticInv

(* Steps of the innermost initialiser that only move it. *)
LEMMA MoveInv ==
  ASSUME StaticInv, frames # << >>, NEW fr, SetTop(fr), fr.class = Top.class,
         FrameOK(fr, program, status, field),
         UNCHANGED <<program, dataEnd, field, status, registry, stored>>
  PROVE  StaticInv'
  <1>1. DataInv /\ StackInv /\ ClassInv /\ ApartInv /\ RegistryInv /\ StoredInv
    BY DEF StaticInv
  <1>2. \A i \in 1 .. Len(frames) : FrameOK(frames[i], program, status, field')
    BY <1>1 DEF StackInv
  <1>3. StackInv'
    BY <1>1, <1>2, TopStep
  <1>4. DataInv' /\ ClassInv'
    BY <1>1 DEF DataInv, ClassInv, Classes, Globals
  <1>5. QED
    BY <1>1, <1>3, <1>4, DataKept, StoredKept DEF StaticInv

(* With the last global allocated, all fields of the class are assigned. *)
LEMMA StartInitialisingInv ==
  ASSUME StaticInv, StartInitialising
  PROVE  StaticInv'
  <1> DEFINE fr == [Top EXCEPT !.phase = "initialise", !.global = 0]
  <1>1. /\ frames # << >> /\ Top.phase = "allocate" /\ Top.global > Len(program[Top.class])
        /\ SetTop(fr) /\ UNCHANGED <<program, dataEnd, field, status, registry, stored>>
        /\ DataInv /\ StackInv
    BY DEF StartInitialising, StaticInv
  <1>2. /\ FrameOK(Top, program, status, field) /\ Len(program[Top.class]) \in Nat
        /\ Globals(Top.class) = 1 .. Len(program[Top.class])
    BY <1>1, TopFacts
  <1>3. /\ DOMAIN fr = {"class", "phase", "global", "part", "op", "addr"} /\ fr.class = Top.class
        /\ fr.phase = "initialise" /\ fr.global = 0
    BY <1>2 DEF FrameOK
  <1>4. \A g \in DOMAIN program[Top.class] : field[Top.class][g] # 0
    <2>1. ASSUME NEW g \in DOMAIN program[Top.class] PROVE g < Top.global
      <3>1. g \in 1 .. Len(program[Top.class]) /\ Top.global \in 1 .. Len(program[Top.class]) + 1
        BY <1>1, <1>2 DEF FrameOK, Globals
      <3>2. QED
        BY <1>1, <1>2, <3>1
    <2>2. QED
      BY <1>1, <1>2, <2>1 DEF FrameOK
  <1> HIDE DEF fr
  <1>5. 0 \in 0 .. Len(program[Top.class])
    BY <1>2
  <1>6. FrameOK(fr, program, status, field)
    BY <1>2, <1>3, <1>4, <1>5 DEF FrameOK
  <1>7. QED
    BY <1>1, <1>3, <1>6, MoveInv

(* The initialiser goes on to its next global. *)
LEMMA StartGlobalInv ==
  ASSUME StaticInv, StartGlobal
  PROVE  StaticInv'
  <1> DEFINE fr == [Top EXCEPT !.global = @ + 1, !.part = 1, !.op = 1,
                               !.addr = field[Top.class][Top.global + 1]]
             g == program[Top.class][Top.global + 1]
  <1>1. /\ frames # << >> /\ Top.phase = "initialise" /\ Top.global < Len(program[Top.class])
        /\ SetTop(fr) /\ UNCHANGED <<program, dataEnd, field, status, registry, stored>>
        /\ DataInv /\ StackInv
    BY DEF StartGlobal, BetweenGlobals, StaticInv
  <1>2. /\ FrameOK(Top, program, status, field) /\ Len(program[Top.class]) \in Nat
        /\ Top.class \in Classes /\ Globals(Top.class) = 1 .. Len(program[Top.class])
    BY <1>1, TopFacts
  <1>3. /\ DOMAIN fr = {"class", "phase", "global", "part", "op", "addr"} /\ fr.class = Top.class
        /\ fr.phase = "initialise" /\ fr.part = 1 /\ fr.op = 1 /\ fr.global = Top.global + 1
    BY <1>1, <1>2 DEF FrameOK
  <1>4. Top.global + 1 \in 1 .. Len(program[Top.class])
    <2>1. Top.global \in 0 .. Len(program[Top.class])
      BY <1>1, <1>2 DEF FrameOK
    <2>2. QED
      BY <1>1, <1>2, <2>1
  <1>5. InCode(printStaticConstant(g), 1, 1)
    <2>1. WellFormed(g)
      BY <1>1, <1>2, <1>4, ProgramFacts
    <2> HIDE DEF g
    <2>2. QED
      BY <2>1, CodeFacts, InCodeFacts
  <1>6. Top.global + 1 \in 0 .. Len(program[Top.class])
    BY <1>2, <1>4
  <1> HIDE DEF fr
  <1>7. FrameOK(fr, program, status, field)
    BY <1>1, <1>2, <1>3, <1>5, <1>6 DEF FrameOK
  <1>8. QED
    BY <1>1, <1>3, <1>7, MoveInv

(* A running initialiser has started a global and its next operation is    *)
(* one of those printStaticConstant emitted for it.                        *)
LEMMA RunningFacts ==
  ASSUME StaticInv, Running
  PROVE  /\ frames # << >> /\ Top.phase = "initialise" /\ Top.class \in Classes
         /\ Top.global \in Globals(Top.class) /\ FrameOK(Top, program, status, field)
         /\ WellFormed(program[Top.class][Top.global])
         /\ IsCodeOf(Code, program[Top.class][Top.global])
         /\ InCode(Code, Top.part, Top.op) /\ Top.part <= Len(Code) /\ Top.global # 0
  <1> DEFINE g == program[Top.class][Top.global]
  <1>1. frames # << >> /\ Top.phase = "initialise" /\ DataInv /\ StackInv
    BY DEF Running, StaticInv
  <1>2. /\ FrameOK(Top, program, status, field) /\ Top.class \in Classes
        /\ Len(program[Top.class]) \in Nat /\ Globals(Top.class) = 1 .. Len(program[Top.class])
    BY <1>1, TopFacts
  <1>3. Top.global > 0 /\ ~(Top.part > Len(Code))
    BY <1>1 DEF Running, BetweenGlobals
  <1>4. Top.global \in 0 .. Len(program[Top.class])
    BY <1>1, <1>2 DEF FrameOK
  <1>5. Top.global \in Globals(Top.class) /\ Top.global # 0
    BY <1>2, <1>3, <1>4
  <1>6. WellFormed(g)
    BY <1>1, <1>2, <1>5, ProgramFacts
  <1>7. IsCodeOf(Code, g) /\ Len(Code) \in Nat
    <2> HIDE DEF g
    <2>1. QED
      BY <1>6, CodeFacts, InCodeFacts DEF Code, g
  <1>8. InCode(Code, Top.part, Top.op)
    BY <1>1, <1>2, <1>5 DEF FrameOK, Code
  <1>9. Top.part <= Len(Code)
    <2>1. Top.part \in 1 .. Len(Code) + 1
      BY <1>8 DEF InCode
    <2>2. QED
      BY <1>3, <1>7, <2>1
  <1>10. QED
    BY <1>1, <1>2, <1>5, <1>6, <1>7, <1>8, <1>9

(* The next operation of the same global. *)
Moved(fr, a) ==
  /\ DOMAIN fr = DOMAIN Top /\ fr.class = Top.class /\ fr.phase = Top.phase /\ fr.global = Top.global
  /\ fr.part = NextPart(Code, Top.part, Top.op) /\ fr.op = NextOp(Code, Top.part, Top.op)
  /\ fr.addr = a

(* What Advance makes of the innermost initialiser. *)
LEMMA AdvanceFrame ==
  ASSUME StaticInv, Running, NEW a, Advance(a)
  PROVE  \E fr : SetTop(fr) /\ Moved(fr, a) /\ FrameOK(fr, program, status, field)
  <1> DEFINE fr == IF Top.op < Len(Code[Top.part])
                   THEN [Top EXCEPT !.op = @ + 1, !.addr = a]
                   ELSE [Top EXCEPT !.part = @ + 1, !.op = 1, !.addr = a]
  <1>1. /\ FrameOK(Top, program, status, field) /\ Top.phase = "initialise" /\ Top.global # 0
        /\ WellFormed(program[Top.class][Top.global])
        /\ IsCodeOf(Code, program[Top.class][Top.global])
        /\ InCode(Code, Top.part, Top.op) /\ Top.part <= Len(Code)
    BY RunningFacts
  <1>2. SetTop(fr)
    BY DEF Advance
  <1>3. DOMAIN Top = {"class", "phase", "global", "part", "op", "addr"}
    BY <1>1 DEF FrameOK
  <1>4. Moved(fr, a)
    <2>1. CASE Top.op < Len(Code[Top.part])
      BY <1>3, <2>1 DEF Moved, NextPart, NextOp
    <2>2. CASE ~(Top.op < Len(Code[Top.part]))
      BY <1>3, <2>2 DEF Moved, NextPart, NextOp
    <2>3. QED
      BY <2>1, <2>2
  <1> HIDE DEF fr
  <1>5. InCode(Code, fr.part, fr.op)
    BY <1>1, <1>4, NextInCode DEF Moved
  <1>6. FrameOK(fr, program, status, field)
    BY <1>1, <1>4, <1>5 DEF FrameOK, Moved, Code
  <1>7. QED
    BY <1>2, <1>4, <1>6

(* Memory.zero. *)
LEMMA ZeroBytesInv ==
  ASSUME StaticInv, ZeroBytes
  PROVE  StaticInv'
  <1>1. /\ Running /\ Advance(Top.addr + Operation.size)
        /\ UNCHANGED <<program, dataEnd, field, status, registry, stored>>
    BY DEF ZeroBytes
  <1>2. PICK fr : /\ SetTop(fr) /\ Moved(fr, Top.addr + Operation.size)
                  /\ FrameOK(fr, program, status, field)
    BY <1>1, AdvanceFrame
  <1>3. frames # << >> /\ fr.class = Top.class
    BY <1>1, <1>2 DEF Running, Moved
  <1>4. QED
    BY <1>1, <1>2, <1>3, MoveInv


-----------------------------------------------------------------------------
(* Function.registerClass *)

(* Map.putAll. *)
IsPut(result, map, new) ==
  /\ DOMAIN result = DOMAIN map \cup DOMAIN new
  /\ \A x \in DOMAIN new : result[x] = new[x]
  /\ \A x \in DOMAIN map : x \notin DOMAIN new => result[x] = map[x]

(* Put is such a map. *)
LEMMA PutFacts ==
  ASSUME NEW map, NEW new
  PROVE  IsPut(Put(map, new), map, new)
  BY DEF Put, IsPut

(* getMethods gives every method once. *)
LEMMA OrderFacts ==
  ASSUME NEW order \in SetToSeqs(Methods)
  PROVE  LET n == Cardinality(Methods) IN
         /\ n \in Nat /\ order \in [1 .. n -> Methods] /\ Len(order) = n
         /\ \A f \in Methods : \E i \in 1 .. n : order[i] = f
  <1> DEFINE n == Cardinality(Methods)
  <1>1. n \in Nat
    BY MethodAssumption, FS_CardinalityType
  <1>2. order \in [1 .. n -> Methods] /\ \A i, j \in 1 .. n : i # j => order[i] # order[j]
    BY DEF SetToSeqs
  <1>3. Len(order) = n
    BY <1>1, <1>2
  <1>4. order \in Injection(1 .. n, Methods)
    BY <1>2, Fun_IsInj
  <1>5. IsFiniteSet(1 .. n) /\ Cardinality(1 .. n) = n
    <2>1. 1 \in Int /\ n \in Int /\ (1 > n => n = 0) /\ n - 1 + 1 = n
      BY <1>1
    <2>2. QED
      BY <2>1, FS_Interval
  <1>6. order \in Surjection(1 .. n, Methods)
    BY <1>4, <1>5, MethodAssumption, FS_Injection
  <1>7. QED
    BY <1>1, <1>2, <1>3, <1>6, Fun_SurjectionProperties

(* The pointers registerClass gives the methods of a class.                *)
PointersFor(c, order, e, w) ==
  [m \in {<<c, f>> : f \in Methods} |->
     e + ((CHOOSE i \in DOMAIN order : order[i] = m[2]) - 1) * w]

(* Pointers, one for each method, in the data segment's part from e to end. *)
AreFresh(pointers, c, e, end) ==
  /\ end \in Nat /\ e <= end
  /\ DOMAIN pointers = {c} \X Methods
  /\ \A m \in DOMAIN pointers :
       pointers[m] \in Nat /\ e <= pointers[m] /\ pointers[m] + 1 <= end
  /\ \A m, k \in DOMAIN pointers : pointers[m] = pointers[k] => m = k

(* They take one block each, from the end of the data segment on. *)
LEMMA NewPointers ==
  ASSUME NEW e \in Nat, NEW order \in SetToSeqs(Methods), NEW c,
         NEW pointers, pointers = PointersFor(c, order, e, 8)
  PROVE  AreFresh(pointers, c, e, e + Len(order) * 8)
  <1> DEFINE n == Cardinality(Methods)
             Index(m) == CHOOSE i \in DOMAIN order : order[i] = m[2]
  <1>1. /\ n \in Nat /\ order \in [1 .. n -> Methods] /\ Len(order) = n
        /\ \A f \in Methods : \E i \in 1 .. n : order[i] = f
    BY OrderFacts
  <1>2. DOMAIN pointers = {c} \X Methods
    <2>1. DOMAIN pointers = {<<c, f>> : f \in Methods}
      BY DEF PointersFor
    <2>2. {<<c, f>> : f \in Methods} = {c} \X Methods
      OBVIOUS
    <2>3. QED
      BY <2>1, <2>2
  <1>3. \A m \in DOMAIN pointers : m[2] \in Methods /\ m = <<c, m[2]>>
    BY <1>2
  <1>4. \A m \in DOMAIN pointers : pointers[m] = e + (Index(m) - 1) * 8
    BY DEF PointersFor
  <1>5. ASSUME NEW m \in DOMAIN pointers
        PROVE  Index(m) \in 1 .. n /\ order[Index(m)] = m[2]
    <2>1. \E i \in DOMAIN order : order[i] = m[2]
      BY <1>1, <1>3
    <2>2. Index(m) \in DOMAIN order /\ order[Index(m)] = m[2]
      BY <2>1
    <2>3. QED
      BY <1>1, <2>2
  <1> HIDE DEF Index, n
  <1>6. ASSUME NEW m \in DOMAIN pointers
        PROVE  pointers[m] \in Nat /\ e <= pointers[m] /\ pointers[m] + 1 <= e + n * 8
    <2>1. \A i \in 1 .. n : LET a == e + (i - 1) * 8 IN a \in Nat /\ e <= a /\ a + 1 <= e + n * 8
      BY <1>1
    <2>2. QED
      BY <1>4, <1>5, <2>1
  <1>7. ASSUME NEW m \in DOMAIN pointers, NEW k \in DOMAIN pointers, pointers[m] = pointers[k]
        PROVE  m = k
    <2>1. \A i, j \in 1 .. n : e + (i - 1) * 8 = e + (j - 1) * 8 => i = j
      BY <1>1
    <2>2. Index(m) = Index(k)
      <3>1. e + (Index(m) - 1) * 8 = e + (Index(k) - 1) * 8
        BY <1>4, <1>7
      <3>2. Index(m) \in 1 .. n /\ Index(k) \in 1 .. n
        BY <1>5
      <3>3. QED
        BY <2>1, <3>1, <3>2
    <2>3. m[2] = k[2]
      BY <1>5, <2>2
    <2>4. QED
      BY <1>3, <2>3
  <1>8. e + n * 8 \in Nat /\ e <= e + n * 8
    BY <1>1
  <1>9. QED
    BY <1>1, <1>2, <1>6, <1>7, <1>8 DEF AreFresh

(* Registration extends the data segment and the two maps, which stay      *)
(* inverse to each other; the pointers given out before are kept.          *)
LEMMA RegisterInv ==
  ASSUME DataInv, ApartInv, RegistryInv, NEW c \in Classes, registerClass(c),
         UNCHANGED <<program, field, status>>
  PROVE  /\ DataInv' /\ ApartInv' /\ RegistryInv'
         /\ c \in registeredClasses' /\ registeredClasses \subseteq registeredClasses'
         /\ \A m \in registeredClasses \X Methods : functionPointers'[m] = functionPointers[m]
  <1>1. CASE c \in registeredClasses
    <2>1. UNCHANGED <<dataEnd, registry>>
      BY <1>1 DEF registerClass, Registered
    <2>2. DataInv'
      BY <2>1 DEF DataInv, Classes, Globals
    <2>3. QED
      BY <1>1, <2>1, <2>2, DataKept DEF registry
  <1>2. CASE c \notin registeredClasses
    <2>1. \E order \in SetToSeqs(Methods) :
            LET addr(i) == dataEnd + (i - 1) * alignOffset[1, ALIGNMENT]
                pointers == [m \in {<<c, f>> : f \in Methods} |->
                                addr(CHOOSE i \in DOMAIN order : order[i] = m[2])]
            IN  /\ functionPointers' = Put(functionPointers, pointers)
                /\ functionObjects' =
                      Put(functionObjects, [a \in {pointers[m] : m \in DOMAIN pointers} |->
                                               CHOOSE m \in DOMAIN pointers : pointers[m] = a])
                /\ dataEnd' = addr(Len(order) + 1)
                /\ registeredClasses' = registeredClasses \cup {c}
      BY <1>2 DEF registerClass, Registered
    <2>2. alignOffset[1, ALIGNMENT] = 8
      <3>1. 8 \in Nat /\ 1 \in Nat /\ 1 + ((8 - (1 % 8)) % 8) = 8
        OBVIOUS
      <3>2. QED
        BY <3>1, AlignEquation DEF ALIGNMENT
    <2>3. PICK order \in SetToSeqs(Methods) :
            LET addr(i) == dataEnd + (i - 1) * alignOffset[1, ALIGNMENT]
                pointers == [m \in {<<c, f>> : f \in Methods} |->
                                addr(CHOOSE i \in DOMAIN order : order[i] = m[2])]
            IN  /\ functionPointers' = Put(functionPointers, pointers)
                /\ functionObjects' =
                      Put(functionObjects, [a \in {pointers[m] : m \in DOMAIN pointers} |->
                                               CHOOSE m \in DOMAIN pointers : pointers[m] = a])
                /\ dataEnd' = addr(Len(order) + 1)
                /\ registeredClasses' = registeredClasses \cup {c}
      BY <2>1, Zenon
    <2> DEFINE w == alignOffset[1, ALIGNMENT]
               pointers == PointersFor(c, order, dataEnd, w)
               A == {pointers[m] : m \in DOMAIN pointers}
               objects == [a \in A |-> CHOOSE m \in DOMAIN pointers : pointers[m] = a]
               R == registeredClasses
    <2>4. /\ functionPointers' = Put(functionPointers, pointers)
          /\ functionObjects' = Put(functionObjects, objects)
          /\ dataEnd' = dataEnd + ((Len(order) + 1) - 1) * w
          /\ registeredClasses' = R \cup {c}
      BY <2>3, Zenon DEF PointersFor
    <2>5. dataEnd \in Nat /\ dataEnd % 8 = 0 /\ dataEnd >= 8
      BY DEF DataInv, ALIGNMENT
    <2>6. /\ DOMAIN pointers = {c} \X Methods
          /\ \A m \in DOMAIN pointers :
               /\ pointers[m] \in Nat /\ dataEnd <= pointers[m]
               /\ pointers[m] + 1 <= dataEnd + Len(order) * 8
          /\ \A m, k \in DOMAIN pointers : pointers[m] = pointers[k] => m = k
      <3>1. pointers = PointersFor(c, order, dataEnd, 8)
        BY <2>2
      <3> HIDE DEF pointers
      <3>2. AreFresh(pointers, c, dataEnd, dataEnd + Len(order) * 8)
        BY <2>5, <3>1, NewPointers
      <3>3. QED
        BY <3>2 DEF AreFresh
    <2> HIDE DEF pointers
    <2>7. dataEnd' = dataEnd + Len(order) * 8 /\ Len(order) \in Nat
      <3>1. Len(order) \in Nat
        BY OrderFacts
      <3>2. PICK n \in Nat : n = Len(order)
        BY <3>1
      <3>3. w = 8
        BY <2>2
      <3> HIDE DEF w
      <3>4. dataEnd' = dataEnd + ((n + 1) - 1) * 8
        BY <2>4, <3>2, <3>3
      <3>5. QED
        BY <2>5, <3>2, <3>4
    <2>8. dataEnd' \in Nat /\ dataEnd <= dataEnd' /\ dataEnd' % 8 = 0
      BY <2>5, <2>7
    <2>9. DataInv'
      <3>1. 0 .. dataEnd \subseteq 0 .. dataEnd' /\ dataEnd' >= 8
        BY <2>5, <2>8
      <3>2. \A d \in Classes : field[d] \in [Globals(d) -> 0 .. dataEnd']
        BY <3>1 DEF DataInv
      <3>3. QED
        BY <2>8, <3>1, <3>2 DEF DataInv, Classes, Globals, ALIGNMENT
    <2>10. \A m \in DOMAIN pointers : pointers[m] \in A /\ objects[pointers[m]] = m
      BY <2>6
    <2>11. \A a \in A : objects[a] \in DOMAIN pointers /\ pointers[objects[a]] = a
      OBVIOUS
    <2>12. \A a \in A : a \in Nat /\ dataEnd <= a /\ a + 1 <= dataEnd'
      BY <2>6, <2>7
    <2>13. DOMAIN objects = A
      OBVIOUS
    <2> HIDE DEF A, objects
    <2>14. \A a \in DOMAIN functionObjects : a \in Nat /\ a >= 8 /\ a + 1 <= dataEnd
      BY DEF ApartInv, ALIGNMENT
    <2>15. \A a \in DOMAIN functionObjects : a \notin A
      BY <2>5, <2>12, <2>14
    <2>16. \A m \in R \X Methods : m \notin DOMAIN pointers
      BY <1>2, <2>6
    <2>17. /\ DOMAIN functionPointers = R \X Methods
           /\ \A m \in R \X Methods : functionPointers[m] \in DOMAIN functionObjects
           /\ \A a \in DOMAIN functionObjects : functionObjects[a] \in R \X Methods
           /\ \A m \in R \X Methods : functionObjects[functionPointers[m]] = m
           /\ \A a \in DOMAIN functionObjects : functionPointers[functionObjects[a]] = a
      BY DEF RegistryInv
    <2>18. /\ DOMAIN functionPointers' = (R \X Methods) \cup DOMAIN pointers
           /\ \A m \in DOMAIN pointers : functionPointers'[m] = pointers[m]
           /\ \A m \in R \X Methods : functionPointers'[m] = functionPointers[m]
      <3>1. IsPut(functionPointers', functionPointers, pointers)
        BY <2>4, PutFacts
      <3>2. QED
        BY <2>16, <2>17, <3>1 DEF IsPut
    <2>19. /\ DOMAIN functionObjects' = DOMAIN functionObjects \cup A
           /\ \A a \in A : functionObjects'[a] = objects[a]
           /\ \A a \in DOMAIN functionObjects : functionObjects'[a] = functionObjects[a]
      <3>1. IsPut(functionObjects', functionObjects, objects)
        BY <2>4, PutFacts
      <3>2. QED
        BY <2>13, <2>15, <3>1 DEF IsPut
    <2>20. (R \X Methods) \cup DOMAIN pointers = registeredClasses' \X Methods
      BY <2>4, <2>6
    <2>21. RegistryInv'
      <3>1. registeredClasses' \subseteq Classes' /\ IsFiniteSet(registeredClasses')
        <4>1. IsFiniteSet(R \cup {c})
          BY FS_AddElement DEF RegistryInv
        <4>2. QED
          BY <2>4, <4>1 DEF RegistryInv, Classes
      <3>2. \A m \in registeredClasses' \X Methods :
              /\ functionPointers'[m] \in DOMAIN functionObjects'
              /\ functionObjects'[functionPointers'[m]] = m
        BY <2>10, <2>17, <2>18, <2>19, <2>20
      <3>3. \A a \in DOMAIN functionObjects' :
              /\ functionObjects'[a] \in registeredClasses' \X Methods
              /\ functionPointers'[functionObjects'[a]] = a
        BY <2>11, <2>17, <2>18, <2>19, <2>20
      <3>4. /\ functionPointers' = [m \in DOMAIN functionPointers' |-> functionPointers'[m]]
            /\ functionObjects' = [a \in DOMAIN functionObjects' |-> functionObjects'[a]]
        BY <2>4 DEF Put
      <3>5. functionPointers' \in [registeredClasses' \X Methods -> DOMAIN functionObjects']
        BY <2>18, <2>20, <3>2, <3>4
      <3>6. functionObjects' \in [DOMAIN functionObjects' -> registeredClasses' \X Methods]
        BY <3>3, <3>4
      <3>7. QED
        BY <3>1, <3>2, <3>3, <3>5, <3>6 DEF RegistryInv
    <2>22. ApartInv'
      <3>1. Allocated' = Allocated
        BY DEF Allocated, Classes
      <3>2. \A p : Address(p)' = Address(p) /\ Size(p)' = Size(p)
        BY DEF Address, Size
      <3>3. ASSUME NEW p \in Allocated PROVE Address(p) \in Nat /\ Size(p) \in Nat
        <4>1. PICK d \in Classes : \E g \in Globals(d) : p = <<d, g>>
          BY InAllocated
        <4>2. PICK g \in Globals(d) : p = <<d, g>>
          BY <4>1
        <4>3. p[1] = d /\ p[2] = g
          BY <4>2
        <4>4. field[d][g] \in 0 .. dataEnd /\ AllocSize(program[d][g]) \in Nat
          BY ProgramFacts DEF DataInv
        <4>5. QED
          BY <2>5, <4>3, <4>4 DEF Address, Size
      <3>4. \A p \in Allocated : Address(p) >= 8 /\ Address(p) + Size(p) <= dataEnd
        BY DEF ApartInv, ALIGNMENT
      <3>5. \A p \in Allocated : Address(p) + Size(p) <= dataEnd'
        BY <2>5, <2>8, <3>3, <3>4
      <3>6. \A a \in DOMAIN functionObjects' : a \in Nat /\ a >= 8 /\ a + 1 <= dataEnd'
        BY <2>5, <2>8, <2>12, <2>14, <2>19
      <3>7. \A p \in Allocated : \A a \in A : Address(p) + Size(p) <= a
        BY <2>5, <2>12, <3>3, <3>4
      <3>8. \A p \in Allocated : \A a \in DOMAIN functionObjects' :
              Address(p) + Size(p) <= a \/ a + 1 <= Address(p)
        BY <2>19, <3>7 DEF ApartInv
      <3>9. \A p, q \in Allocated :
              p # q => Address(p) + Size(p) <= Address(q) \/ Address(q) + Size(q) <= Address(p)
        BY DEF ApartInv
      <3>10. QED
        BY <3>1, <3>2, <3>4, <3>5, <3>6, <3>8, <3>9 DEF ApartInv, ALIGNMENT
    <2>23. QED
      BY <2>4, <2>9, <2>18, <2>21, <2>22
  <1>3. QED
    BY <1>1, <1>2


(* Registration does not change what stored addresses stand for. *)
LEMMA KeepsResolved ==
  ASSUME DataInv, NEW x, NEW v, Resolved(x, v), UNCHANGED <<program, field>>,
         registeredClasses \subseteq registeredClasses',
         \A m \in registeredClasses \X Methods : functionPointers'[m] = functionPointers[m]
  PROVE  Resolved(x, v)'
  <1>1. IsScalar(x) /\ IsScalar(x)' /\ InitOf(x)' = InitOf(x)
    BY DEF Resolved, IsScalar, InitOf, Classes, Globals
  <1>2. InitOf(x).is = "function" => InitOf(x).at \in Methods
    BY <1>1, InitFacts DEF IsScalar, InitOf
  <1>3. QED
    BY <1>1, <1>2 DEF Resolved

(* The program takes a function's address. *)
LEMMA GetFunctionPointerInv ==
  ASSUME StaticInv, NEW c \in Classes, GetFunctionPointer(c)
  PROVE  StaticInv'
  <1>1. /\ registerClass(c) /\ UNCHANGED <<program, field, status, frames, stored>>
        /\ DataInv /\ StackInv /\ ClassInv /\ ApartInv /\ RegistryInv /\ StoredInv
    BY DEF GetFunctionPointer, StaticInv
  <1>2. /\ DataInv' /\ ApartInv' /\ RegistryInv' /\ registeredClasses \subseteq registeredClasses'
        /\ \A m \in registeredClasses \X Methods : functionPointers'[m] = functionPointers[m]
    BY <1>1, RegisterInv
  <1>3. StackInv' /\ ClassInv'
    BY <1>1 DEF StackInv, ClassInv, Classes, Globals
  <1>4. StoredInv'
    BY <1>1, <1>2, KeepsResolved DEF StoredInv
  <1>5. QED
    BY <1>2, <1>3, <1>4 DEF StaticInv

-----------------------------------------------------------------------------
(* Memory.pack *)

(* The scalar an operation packs. *)
LEMMA PackFacts ==
  ASSUME StaticInv, Running, Operation.op = "pack"
  PROVE  LET x == <<Top.class, Top.global>> \o Operation.at
             s == program[Top.class][Top.global][Top.part][Top.op]
         IN  /\ IsScalar(x) /\ InitOf(x) = Operation.init
             /\ x[1] = Top.class /\ x[2] = Top.global /\ x[3] = Top.part /\ x[4] = Top.op
             /\ x = <<Top.class, Top.global, Top.part, Top.op>>
             /\ Operation.size = s.size /\ Operation.init = s.init /\ s.init.is # "null"
  <1> DEFINE C == Top.class
             G == Top.global
             g == program[C][G]
             k == Top.part
             l == Top.op
  <1>1. C \in Classes /\ G \in Globals(C)
    BY RunningFacts
  <1>2. k \in DOMAIN g /\ l \in DOMAIN g[k] /\ g[k][l].init.is # "null" /\ Operation = Pack(k, l, g[k][l])
    BY RunningFacts, PackCode DEF Operation
  <1>3. Operation.at = <<k, l>> /\ Operation.init = g[k][l].init /\ Operation.size = g[k][l].size
    BY <1>2 DEF Pack
  <1> HIDE DEF C, G, k, l
  <1> DEFINE x == <<C, G>> \o <<k, l>>
  <1>5. x[1] = C /\ x[2] = G /\ x[3] = k /\ x[4] = l /\ x = <<C, G, k, l>>
    BY Quadruple
  <1> HIDE DEF x
  <1>6. IsScalar(x) /\ InitOf(x) = g[k][l].init
    BY <1>1, <1>2, <1>5 DEF IsScalar, InitOf
  <1>7. QED
    BY <1>2, <1>3, <1>5, <1>6 DEF x, C, G, k, l

(* Packing a value that is its target's address. *)
LEMMA PackInv ==
  ASSUME StaticInv, Running, Operation.op = "pack", NEW v, PackValue(v),
         UNCHANGED <<program, field, status>>, DataInv', RegistryInv', ApartInv',
         registeredClasses \subseteq registeredClasses',
         \A m \in registeredClasses \X Methods : functionPointers'[m] = functionPointers[m],
         Operation.init.is = "global" =>
           v = field[Operation.init.class][Operation.init.at] /\ v # 0,
         Operation.init.is = "function" =>
           /\ Operation.init.class \in registeredClasses'
           /\ v = functionPointers'[<<Operation.init.class, Operation.init.at>>]
  PROVE  StaticInv'
  <1>0. PICK x : x = <<Top.class, Top.global>> \o Operation.at
    OBVIOUS
  <1> DEFINE a == alignOffset[Top.addr, Operation.size]
             b == a + Operation.size
             new == [y \in {x} |-> [addr |-> a, value |-> v]]
  <1>1. stored' = Put(stored, new) /\ Advance(b)
    BY <1>0 DEF PackValue
  <1>2. IsScalar(x) /\ InitOf(x) = Operation.init
    BY <1>0, PackFacts
  <1>3. DataInv /\ StackInv /\ ClassInv /\ StoredInv /\ frames # << >>
    BY DEF StaticInv, Running
  <1>4. DOMAIN new = {x} /\ new[x].value = v
    OBVIOUS
  <1> HIDE DEF new, b
  <1>5. PICK fr : SetTop(fr) /\ fr.class = Top.class /\ FrameOK(fr, program, status, field)
    BY <1>1, AdvanceFrame DEF Moved
  <1>6. StackInv'
    <2>1. \A i \in 1 .. Len(frames) : FrameOK(frames[i], program, status, field')
      BY <1>3 DEF StackInv
    <2>2. QED
      BY <1>3, <1>5, <2>1, TopStep
  <1>7. ClassInv'
    BY <1>3 DEF ClassInv, Classes, Globals
  <1>8. IsPut(stored', stored, new)
    BY <1>1, PutFacts
  <1>9. /\ DOMAIN stored' = DOMAIN stored \cup {x} /\ stored'[x].value = v
        /\ \A y \in DOMAIN stored : y # x => stored'[y] = stored[y]
    BY <1>4, <1>8 DEF IsPut
  <1>10. Resolved(x, v)'
    BY <1>2 DEF Resolved, IsScalar, InitOf, Classes, Globals
  <1>11. ASSUME NEW y \in DOMAIN stored', NEW u, u = stored'[y].value
         PROVE  Resolved(y, u)'
    <2>1. CASE y = x
      BY <1>9, <1>10, <1>11, <2>1
    <2>2. CASE y # x
      <3>1. y \in DOMAIN stored /\ u = stored[y].value
        BY <1>9, <1>11, <2>2
      <3>2. Resolved(y, u)
        BY <1>3, <3>1 DEF StoredInv
      <3>3. QED
        BY <1>3, <3>2, KeepsResolved
    <2>3. QED
      BY <2>1, <2>2
  <1>12. StoredInv'
    BY <1>11 DEF StoredInv, Resolved
  <1>13. QED
    BY <1>6, <1>7, <1>12 DEF StaticInv

(* A number has no target. *)
LEMMA PackNumberInv ==
  ASSUME StaticInv, PackNumber
  PROVE  StaticInv'
  <1>1. /\ Running /\ Operation.op = "pack" /\ Operation.init.is = "number" /\ PackValue(1)
        /\ UNCHANGED <<program, dataEnd, field, status, registry>>
        /\ DataInv /\ ApartInv /\ RegistryInv
    BY DEF PackNumber, StaticInv
  <1>2. DataInv' /\ ApartInv' /\ RegistryInv'
    BY <1>1, DataKept DEF DataInv, Classes, Globals
  <1>3. UNCHANGED <<registeredClasses, functionPointers>>
    BY <1>1 DEF registry
  <1>4. QED
    BY <1>1, <1>2, <1>3, PackInv

(* The field of a class whose initialiser has begun is assigned, or that   *)
(* initialiser would still be allocating and could not have used the       *)
(* class whose initialiser packs.                                          *)
LEMMA PackGlobalInv ==
  ASSUME StaticInv, PackGlobal
  PROVE  StaticInv'
  <1> DEFINE i == Operation.init
             c == i.class
  <1>1. /\ Running /\ Operation.op = "pack" /\ i.is = "global"
        /\ \/ Usable(c) /\ PackValue(field[c][i.at]) /\ UNCHANGED <<status, field>>
           \/ Enter(c) /\ UNCHANGED <<field, stored>>
        /\ UNCHANGED <<program, dataEnd, registry>>
        /\ DataInv /\ StackInv /\ ClassInv /\ ApartInv /\ RegistryInv
    BY DEF PackGlobal, StaticInv
  <1>2. frames # << >> /\ Top.phase = "initialise"
    BY <1>1 DEF Running
  <1>3. c \in Classes /\ i.at \in Globals(c)
    <2> DEFINE x == <<Top.class, Top.global>> \o Operation.at
    <2>1. IsScalar(x) /\ InitOf(x) = i
      BY <1>1, PackFacts
    <2> HIDE DEF x
    <2>2. QED
      BY <1>1, <2>1, InitFacts DEF IsScalar, InitOf
  <1>4. CASE Enter(c) /\ UNCHANGED <<field, stored>>
    BY <1>1, <1>2, <1>3, <1>4, EnterInv
  <1>5. CASE Usable(c) /\ PackValue(field[c][i.at]) /\ UNCHANGED <<status, field>>
    <2>1. field[c][i.at] # 0
      <3>1. status[c] = "running" \/ status[c] = "done"
        BY <1>1, <1>3, <1>5 DEF Usable, DataInv
      <3>2. CASE status[c] = "done"
        BY <1>1, <1>3, <3>2 DEF ClassInv
      <3>3. CASE status[c] = "running"
        <4>1. PICK j \in 1 .. Len(frames) : frames[j].class = c
          BY <1>1, <1>3, <3>3 DEF StackInv
        <4>2. FrameOK(frames[j], program, status, field)
          BY <1>1 DEF StackInv
        <4>3. frames[j].phase = "initialise"
          BY <1>1, <1>2 DEF StackInv, Top
        <4>4. QED
          BY <1>3, <4>1, <4>2, <4>3 DEF FrameOK, Globals
      <3>4. QED
        BY <3>1, <3>2, <3>3
    <2>2. DataInv' /\ ApartInv' /\ RegistryInv'
      BY <1>1, <1>5, DataKept DEF DataInv, Classes, Globals
    <2>3. UNCHANGED <<registeredClasses, functionPointers>>
      BY <1>1 DEF registry
    <2>4. QED
      BY <1>1, <1>5, <2>1, <2>2, <2>3, PackInv
  <1>6. QED
    BY <1>1, <1>4, <1>5

(* A function has a pointer once its class is registered. *)
LEMMA PackFunctionInv ==
  ASSUME StaticInv, PackFunction
  PROVE  StaticInv'
  <1> DEFINE i == Operation.init
             c == i.class
  <1>1. /\ Running /\ Operation.op = "pack" /\ i.is = "function" /\ registerClass(c)
        /\ PackValue(functionPointers'[<<c, i.at>>]) /\ UNCHANGED <<program, field, status>>
        /\ DataInv /\ ApartInv /\ RegistryInv
    BY DEF PackFunction, StaticInv
  <1>2. c \in Classes
    <2> DEFINE x == <<Top.class, Top.global>> \o Operation.at
    <2>1. IsScalar(x) /\ InitOf(x) = i
      BY <1>1, PackFacts
    <2> HIDE DEF x
    <2>2. QED
      BY <1>1, <2>1, InitFacts DEF IsScalar, InitOf
  <1>3. /\ DataInv' /\ ApartInv' /\ RegistryInv'
        /\ c \in registeredClasses' /\ registeredClasses \subseteq registeredClasses'
        /\ \A m \in registeredClasses \X Methods : functionPointers'[m] = functionPointers[m]
    BY <1>1, <1>2, RegisterInv
  <1>4. QED
    BY <1>1, <1>3, PackInv

-----------------------------------------------------------------------------
(* An initialiser returns when all its globals are initialised. *)
LEMMA ReturnInv ==
  ASSUME StaticInv, Return
  PROVE  StaticInv'
  <1> DEFINE n == Len(frames)
             C == Top.class
  <1>1. /\ frames # << >> /\ Top.phase = "initialise"
        /\ status' = [status EXCEPT ![C] = "done"] /\ frames' = Front(frames)
        /\ UNCHANGED <<program, dataEnd, field, registry, stored>>
        /\ DataInv /\ StackInv /\ ClassInv
    BY DEF Return, BetweenGlobals, StaticInv
  <1>2. /\ n \in Nat /\ n # 0 /\ n \in 1 .. n /\ FrameOK(Top, program, status, field)
        /\ C \in Classes /\ IsSequence(frames)
    BY <1>1, TopFacts DEF StackInv
  <1>3. /\ IsSequence(frames') /\ Len(frames') = n - 1
        /\ \A i \in 1 .. n - 1 : frames'[i] = frames[i]
    BY <1>1, <1>2, FrontSequence
  <1>4. status \in [Classes -> {"no", "running", "done"}]
    BY <1>1 DEF DataInv
  <1>5. \A d \in Classes : status'[d] = IF d = C THEN "done" ELSE status[d]
    BY <1>1, <1>4
  <1>6. DataInv'
    <2>1. status' \in [Classes -> {"no", "running", "done"}]
      BY <1>1, <1>4
    <2>2. QED
      BY <1>1, <2>1 DEF DataInv, Classes, Globals
  <1>7. ClassInv'
    <2>1. \A g \in Globals(C) : field[C][g] # 0
      BY <1>1, <1>2 DEF FrameOK, Globals
    <2>2. QED
      BY <1>1, <1>5, <2>1 DEF ClassInv, Classes, Globals
  <1>8. \A i \in 1 .. n : i \in 1 .. n - 1 \/ i = n
    BY <1>2
  <1>9. \A i \in 1 .. n - 1 : i \in 1 .. n /\ i # n
    BY <1>2
  <1>10. Top = frames[n]
    BY DEF Top
  <1> HIDE DEF n, C
  <1>11. \A i \in 1 .. n - 1 : frames[i].class # C
    BY <1>1, <1>2, <1>9, <1>10 DEF StackInv, n, C
  <1>12. StackInv'
    <2>1. ASSUME NEW i \in 1 .. n - 1 PROVE FrameOK(frames'[i], program, status', field)
      <3>1. FrameOK(frames[i], program, status, field)
        BY <1>1, <1>9 DEF StackInv, n
      <3>2. frames[i].class \in Classes
        BY <3>1 DEF FrameOK, Classes
      <3>3. status'[frames[i].class] = status[frames[i].class]
        BY <1>5, <1>11, <3>2
      <3>4. QED
        BY <1>3, <3>1, <3>3 DEF FrameOK
    <2>2. \A i \in 1 .. n - 1 : frames'[i].phase = "initialise"
      BY <1>1, <1>3, <1>9 DEF StackInv, n
    <2>3. \A i, j \in 1 .. n - 1 : frames'[i].class = frames'[j].class => i = j
      BY <1>1, <1>3, <1>9 DEF StackInv, n
    <2>4. ASSUME NEW d \in Classes, status'[d] = "running"
          PROVE  \E i \in 1 .. n - 1 : frames'[i].class = d
      <3>1. d # C /\ status[d] = "running"
        BY <1>5, <2>4
      <3>2. PICK i \in 1 .. n : frames[i].class = d
        BY <1>1, <3>1 DEF StackInv, n
      <3>3. i # n
        BY <1>10, <3>1, <3>2 DEF C
      <3>4. QED
        BY <1>3, <1>8, <3>2, <3>3
    <2>5. QED
      BY <1>1, <1>3, <2>1, <2>2, <2>3, <2>4 DEF StackInv, Classes
  <1>13. ApartInv' /\ RegistryInv' /\ StoredInv'
    BY <1>1, DataKept, StoredKept DEF StaticInv
  <1>14. QED
    BY <1>6, <1>7, <1>12, <1>13 DEF StaticInv

-----------------------------------------------------------------------------
(* Where initialisers put things *)

(* Scalar l of field k lies before operation op of part part. *)
Before(k, l, part, op) == k < part \/ (k = part /\ l < op)

(* An initialiser is done with a scalar of its class. *)
Handled(fr, g, k, l) ==
  /\ fr.phase = "initialise"
  /\ g < fr.global \/ (g = fr.global /\ Before(k, l, fr.part, fr.op))

(* Blocks are aligned. *)
AlignedInv == \A c \in Classes : \A g \in Globals(c) : field[c][g] % 8 = 0

(* The address of an initialiser's frame fits its position, unless a       *)
(* structure in its global is packed.                                      *)
FrameAt(fr, prog, fld) ==
  fr.phase = "initialise" /\ fr.global # 0 /\ Natural(prog[fr.class][fr.global]) =>
    At(prog[fr.class][fr.global], fr.part, fr.op, fld[fr.class][fr.global], fr.addr)

PlaceInv == \A i \in 1 .. Len(frames) : FrameAt(frames[i], program, field)

(* An initialiser stores every scalar it comes past that is not null. *)
CompleteInv ==
  \A c \in Classes : \A g \in Globals(c) :
    \A k \in DOMAIN program[c][g] : \A l \in DOMAIN program[c][g][k] :
      /\ program[c][g][k][l].init.is # "null"
      /\ \/ status[c] = "done"
         \/ \E i \in 1 .. Len(frames) : frames[i].class = c /\ Handled(frames[i], g, k, l)
      => <<c, g, k, l>> \in DOMAIN stored

(* Scalar x has been packed at address a: unless a structure is packed,    *)
(* inside its global's block, and where getelementptr looks for it if the  *)
(* global is plain.                                                        *)
PackedAt(x, a, prog, fld) ==
  LET g == prog[x[1]][x[2]]
      base == fld[x[1]][x[2]]
      s == g[x[3]][x[4]]
  IN  /\ x = <<x[1], x[2], x[3], x[4]>> /\ base # 0
      /\ Natural(g) =>
           /\ a \in Nat /\ base <= a /\ a + s.size <= base + AllocSize(g)
           /\ Plain(g) => a = base + FieldOffset(g, x[3]) + LeafOffset(g[x[3]], x[4])

PackedInv == \A x \in DOMAIN stored : PackedAt(x, stored[x].addr, program, field)

(* The invariant about places, on top of StaticInv. *)
LayoutInv == AlignedInv /\ PlaceInv /\ CompleteInv /\ PackedInv

(* A step that leaves initialisers and what they stored alone. *)
LEMMA LayoutKept ==
  ASSUME LayoutInv, UNCHANGED <<program, field, status, frames, stored>>
  PROVE  LayoutInv'
  BY DEF LayoutInv, AlignedInv, PlaceInv, CompleteInv, PackedInv, Classes, Globals

(* An operation is done with the one scalar it packs, and with null ones. *)
LEMMA NewlyHandled ==
  ASSUME NEW g, WellFormed(g), NEW code, IsCodeOf(code, g), NEW part, NEW op, InCode(code, part, op),
         part <= Len(code), NEW k \in DOMAIN g, NEW l \in DOMAIN g[k], g[k][l].init.is # "null",
         Before(k, l, NextPart(code, part, op), NextOp(code, part, op))
  PROVE  Before(k, l, part, op) \/ (k = part /\ l = op /\ code[part][op].op = "pack")
  <1>1. ~AllNull(g) /\ ~IsNull(g[k])
    BY DEF AllNull, IsNull
  <1>2. GlobalLayout(g)
    BY GlobalLaidOut
  <1>3. k \in 1 .. Len(g) /\ k \in Nat /\ Len(g) \in Nat /\ Len(code) = Len(g)
    BY <1>1, <1>2 DEF GlobalLayout, IsCodeOf
  <1>4. l \in 1 .. Len(g[k]) /\ Len(g[k]) \in Nat
    BY <1>3, FieldFacts DEF LeafLayout
  <1>5. l \in Nat /\ part \in 1 .. Len(g) + 1 /\ op \in Nat \ {0} /\ op <= Len(code[part])
    BY <1>3, <1>4 DEF InCode
  <1>6. SUFFICES ASSUME k = part, ~(l < op) PROVE l = op /\ code[part][op].op = "pack"
    <2>1. k < part \/ k = part
      <3>1. CASE op < Len(code[part])
        BY <3>1 DEF Before, NextPart
      <3>2. CASE ~(op < Len(code[part]))
        <4>1. Before(k, l, part + 1, 1)
          BY <3>2 DEF NextPart, NextOp
        <4>2. ~(l < 1)
          BY <1>4
        <4>3. k < part + 1
          BY <4>1, <4>2 DEF Before
        <4>4. QED
          BY <1>3, <1>5, <4>3
      <3>3. QED
        BY <3>1, <3>2
    <2>2. QED
      BY <1>6, <2>1 DEF Before
  <1>7. Len(code[part]) = Len(g[k])
    BY <1>1, <1>3, <1>6 DEF IsCodeOf
  <1>8. l = op
    <2>1. CASE op < Len(code[part])
      <3>1. Before(k, l, part, op + 1)
        BY <2>1 DEF NextPart, NextOp
      <3>2. QED
        BY <1>3, <1>4, <1>5, <1>6, <3>1 DEF Before
    <2>2. CASE ~(op < Len(code[part]))
      BY <1>4, <1>5, <1>6, <1>7, <2>2
    <2>3. QED
      BY <2>1, <2>2
  <1>9. code[k][l] = OperationFor(k, l, g[k][l])
    BY <1>1, <1>3, <1>4 DEF IsCodeOf
  <1>10. QED
    BY <1>6, <1>8, <1>9 DEF OperationFor, Pack

(* A step of the innermost initialiser. *)
LEMMA TopMoves ==
  ASSUME StaticInv, LayoutInv, frames # << >>, NEW fr, SetTop(fr), UNCHANGED <<program, field, status>>,
         fr.class = Top.class, FrameAt(fr, program, field), DOMAIN stored \subseteq DOMAIN stored',
         \A g \in Globals(Top.class) :
           \A k \in DOMAIN program[Top.class][g] : \A l \in DOMAIN program[Top.class][g][k] :
             program[Top.class][g][k][l].init.is # "null" /\ Handled(fr, g, k, l) =>
               Handled(Top, g, k, l) \/ <<Top.class, g, k, l>> \in DOMAIN stored'
  PROVE  AlignedInv' /\ PlaceInv' /\ CompleteInv'
  <1> DEFINE n == Len(frames)
  <1>1. n \in Nat /\ n # 0 /\ n \in 1 .. n /\ IsSequence(frames) /\ Top = frames[n]
    BY TopFacts DEF StaticInv, StackInv, Top
  <1>2. /\ Len(frames') = n /\ frames'[n] = fr
        /\ \A i \in 1 .. n : i # n => frames'[i] = frames[i]
    <2>1. frames' = WithTop(frames, fr)
      BY DEF SetTop, WithTop
    <2>2. QED
      BY <1>1, <2>1, ReplaceTop
  <1>3. AlignedInv'
    BY DEF LayoutInv, AlignedInv, Classes, Globals
  <1>4. PlaceInv'
    BY <1>2 DEF LayoutInv, PlaceInv
  <1>5. ASSUME NEW c \in Classes, NEW g \in Globals(c), NEW k \in DOMAIN program[c][g],
               NEW l \in DOMAIN program[c][g][k], program[c][g][k][l].init.is # "null",
               \/ status[c] = "done"
               \/ \E i \in 1 .. n : frames'[i].class = c /\ Handled(frames'[i], g, k, l)
        PROVE  <<c, g, k, l>> \in DOMAIN stored'
    <2>1. \/ status[c] = "done"
          \/ \E i \in 1 .. n : frames[i].class = c /\ Handled(frames[i], g, k, l)
          => <<c, g, k, l>> \in DOMAIN stored
      BY <1>5 DEF LayoutInv, CompleteInv
    <2>2. CASE status[c] = "done"
      BY <2>1, <2>2
    <2>3. CASE \E i \in 1 .. n : frames'[i].class = c /\ Handled(frames'[i], g, k, l)
      <3>1. PICK i \in 1 .. n : frames'[i].class = c /\ Handled(frames'[i], g, k, l)
        BY <2>3
      <3>2. CASE i = n
        <4>1. c = Top.class /\ Handled(fr, g, k, l)
          BY <1>2, <3>1, <3>2
        <4>2. Handled(Top, g, k, l) \/ <<c, g, k, l>> \in DOMAIN stored'
          BY <1>5, <4>1
        <4>3. QED
          BY <1>1, <2>1, <4>1, <4>2
      <3>3. CASE i # n
        BY <1>2, <2>1, <3>1, <3>3
      <3>4. QED
        BY <3>2, <3>3
    <2>4. QED
      BY <1>5, <2>2, <2>3
  <1>6. CompleteInv'
    BY <1>2, <1>5 DEF CompleteInv, Classes, Globals
  <1>7. QED
    BY <1>3, <1>4, <1>6

(* A global is allocated where the data segment ends. *)
LEMMA AllocateLayout ==
  ASSUME StaticInv, LayoutInv, AllocateGlobal
  PROVE  LayoutInv'
  <1> DEFINE C == Top.class
             G == Top.global
             n == Len(frames)
             fr == [Top EXCEPT !.global = @ + 1]
  <1>1. /\ frames # << >> /\ Top.phase = "allocate" /\ G <= Len(program[C])
        /\ field' = [field EXCEPT ![C][G] = dataEnd] /\ SetTop(fr)
        /\ UNCHANGED <<program, status, stored>> /\ DataInv /\ StackInv
    BY DEF AllocateGlobal, StaticInv
  <1>2. /\ n \in Nat /\ n # 0 /\ n \in 1 .. n /\ FrameOK(Top, program, status, field)
        /\ C \in Classes /\ Len(program[C]) \in Nat /\ Globals(C) = 1 .. Len(program[C])
        /\ IsSequence(frames) /\ Top = frames[n]
    BY <1>1, TopFacts DEF StackInv, Top
  <1>3. /\ G \in 1 .. Len(program[C]) + 1
        /\ \A g \in Globals(C) : field[C][g] # 0 <=> g < G
    BY <1>1, <1>2 DEF FrameOK, Globals
  <1>4. fr.phase = "allocate" /\ fr.class = C
    BY <1>1, <1>2 DEF FrameOK
  <1>5. /\ Len(frames') = n /\ frames'[n] = fr
        /\ \A i \in 1 .. n : i # n => frames'[i] = frames[i]
    <2>1. frames' = WithTop(frames, fr)
      BY <1>1 DEF SetTop, WithTop
    <2> HIDE DEF fr
    <2>2. QED
      BY <1>2, <2>1, ReplaceTop
  <1> HIDE DEF fr, C, G
  <1>6. G \in Globals(C)
    BY <1>1, <1>2, <1>3
  <1>7. field[C][G] = 0
    BY <1>2, <1>3, <1>6
  <1>8. \A c \in Classes : \A g \in Globals(c) :
          field'[c][g] = IF c = C /\ g = G THEN dataEnd ELSE field[c][g]
    BY <1>1, <1>2, <1>6 DEF DataInv
  <1>9. AlignedInv'
    <2>1. dataEnd % 8 = 0
      BY <1>1 DEF DataInv, ALIGNMENT
    <2>2. ASSUME NEW c \in Classes, NEW g \in Globals(c) PROVE field'[c][g] % 8 = 0
      BY <1>8, <2>1 DEF LayoutInv, AlignedInv
    <2>3. QED
      BY <1>1, <2>2 DEF AlignedInv, Classes, Globals
  <1>10. PlaceInv'
    <2>1. ASSUME NEW i \in 1 .. n PROVE FrameAt(frames'[i], program, field')
      <3>1. CASE i = n
        BY <1>4, <1>5, <3>1 DEF FrameAt
      <3>2. CASE i # n
        <4>1. FrameOK(frames[i], program, status, field) /\ FrameAt(frames[i], program, field)
          BY <1>1 DEF StackInv, LayoutInv, PlaceInv
        <4>2. frames[i].class \in Classes /\ frames[i].class # C
          BY <1>1, <1>2, <3>2, <4>1 DEF StackInv, FrameOK, Classes, C
        <4>3. field'[frames[i].class] = field[frames[i].class]
          BY <1>1, <1>2, <4>2 DEF DataInv
        <4>4. QED
          BY <1>5, <3>2, <4>1, <4>3 DEF FrameAt
      <3>3. QED
        BY <3>1, <3>2
    <2>2. QED
      BY <1>1, <1>5, <2>1 DEF PlaceInv
  <1>11. ASSUME NEW c, NEW g, NEW k, NEW l,
                \E i \in 1 .. n : frames'[i].class = c /\ Handled(frames'[i], g, k, l)
         PROVE  \E i \in 1 .. n : frames[i].class = c /\ Handled(frames[i], g, k, l)
    <2>1. PICK i \in 1 .. n : frames'[i].class = c /\ Handled(frames'[i], g, k, l)
      BY <1>11
    <2>2. i # n
      BY <1>4, <1>5, <2>1 DEF Handled
    <2>3. QED
      BY <1>5, <2>1, <2>2
  <1>12. CompleteInv'
    <2>1. ASSUME NEW c \in Classes, NEW g \in Globals(c), NEW k \in DOMAIN program[c][g],
                 NEW l \in DOMAIN program[c][g][k], program[c][g][k][l].init.is # "null",
                 \/ status[c] = "done"
                 \/ \E i \in 1 .. n : frames'[i].class = c /\ Handled(frames'[i], g, k, l)
          PROVE  <<c, g, k, l>> \in DOMAIN stored
      <3>1. \/ status[c] = "done"
            \/ \E i \in 1 .. n : frames[i].class = c /\ Handled(frames[i], g, k, l)
        BY <1>11, <2>1
      <3>2. QED
        BY <2>1, <3>1 DEF LayoutInv, CompleteInv
    <2>2. QED
      BY <1>1, <1>5, <2>1 DEF CompleteInv, Classes, Globals
  <1>13. PackedInv'
    <2>1. ASSUME NEW x \in DOMAIN stored PROVE PackedAt(x, stored[x].addr, program, field')
      <3>1. PackedAt(x, stored[x].addr, program, field)
        BY DEF LayoutInv, PackedInv
      <3>2. IsScalar(x)
        BY DEF StaticInv, StoredInv, Resolved
      <3>3. field[x[1]][x[2]] # 0 /\ x[1] \in Classes /\ x[2] \in Globals(x[1])
        BY <3>1, <3>2 DEF PackedAt, IsScalar
      <3>4. field'[x[1]][x[2]] = field[x[1]][x[2]]
        BY <1>7, <1>8, <3>3
      <3>5. QED
        BY <3>1, <3>4 DEF PackedAt
    <2>2. QED
      BY <1>1, <2>1 DEF PackedInv
  <1>14. QED
    BY <1>9, <1>10, <1>12, <1>13 DEF LayoutInv

(* No scalar is handled before the first global is started. *)
LEMMA StartInitialisingLayout ==
  ASSUME StaticInv, LayoutInv, StartInitialising
  PROVE  LayoutInv'
  <1> DEFINE fr == [Top EXCEPT !.phase = "initialise", !.global = 0]
  <1>1. /\ frames # << >> /\ SetTop(fr) /\ UNCHANGED <<program, field, status, stored>>
        /\ DataInv /\ StackInv
    BY DEF StartInitialising, StaticInv
  <1>2. /\ FrameOK(Top, program, status, field) /\ Len(program[Top.class]) \in Nat
        /\ Globals(Top.class) = 1 .. Len(program[Top.class])
    BY <1>1, TopFacts
  <1>3. fr.class = Top.class /\ fr.global = 0
    BY <1>2 DEF FrameOK
  <1> HIDE DEF fr
  <1>4. FrameAt(fr, program, field)
    BY <1>3 DEF FrameAt
  <1>5. ASSUME NEW g \in Globals(Top.class) PROVE ~(g < fr.global) /\ g # fr.global
    BY <1>2, <1>3
  <1>6. \A g \in Globals(Top.class) : \A k, l : ~Handled(fr, g, k, l)
    BY <1>5 DEF Handled
  <1>7. AlignedInv' /\ PlaceInv' /\ CompleteInv'
    BY <1>1, <1>3, <1>4, <1>6, TopMoves
  <1>8. QED
    BY <1>1, <1>7 DEF LayoutInv, PackedInv

(* An initialiser between two globals is done with those before. *)
LEMMA GlobalHandled ==
  ASSUME StaticInv, BetweenGlobals, NEW g \in Globals(Top.class), g <= Top.global,
         NEW k \in DOMAIN program[Top.class][g], NEW l \in DOMAIN program[Top.class][g][k],
         program[Top.class][g][k][l].init.is # "null"
  PROVE  Handled(Top, g, k, l)
  <1> DEFINE v == program[Top.class][g]
             G == Top.global
  <1>1. frames # << >> /\ Top.phase = "initialise" /\ DataInv /\ StackInv
    BY DEF BetweenGlobals, StaticInv
  <1>2. /\ FrameOK(Top, program, status, field) /\ Top.class \in Classes
        /\ Len(program[Top.class]) \in Nat /\ Globals(Top.class) = 1 .. Len(program[Top.class])
    BY <1>1, TopFacts
  <1>3. G \in 0 .. Len(program[Top.class])
    BY <1>1, <1>2 DEF FrameOK
  <1>4. g \in Nat /\ G \in Nat /\ (g < G \/ g = G) /\ (g = G => G > 0)
    <2>1. g \in 1 .. Len(program[Top.class])
      BY <1>2
    <2> HIDE DEF G
    <2>2. G \in Nat /\ g \in Nat /\ g > 0 /\ g <= G
      BY <1>2, <1>3, <2>1 DEF G
    <2>3. QED
      BY <2>2
  <1>5. CASE g < G
    BY <1>1, <1>5 DEF Handled
  <1>6. CASE g = G
    <2>1. Top.part > Len(Code) /\ Code = printStaticConstant(v) /\ G # 0
      BY <1>4, <1>6 DEF BetweenGlobals, Code
    <2>2. WellFormed(v)
      BY <1>1, <1>2, ProgramFacts
    <2> HIDE DEF v
    <2>3. IsCodeOf(Code, v) /\ GlobalLayout(v)
      BY <2>1, <2>2, CodeFacts, GlobalLaidOut
    <2>4. Len(Code) = Len(v) /\ k \in 1 .. Len(v) /\ Len(v) \in Nat
      <3>1. ~AllNull(v)
        BY DEF AllNull, IsNull, v
      <3>2. QED
        BY <2>3, <3>1 DEF IsCodeOf, GlobalLayout, v
    <2>5. InCode(Code, Top.part, Top.op)
      BY <1>1, <1>2, <2>1 DEF FrameOK, Code
    <2>6. Top.part \in 1 .. Len(Code) + 1
      BY <2>5 DEF InCode
    <2>7. k < Top.part
      BY <2>1, <2>4, <2>6
    <2>8. QED
      BY <1>1, <1>6, <2>7 DEF Handled, Before
  <1>7. QED
    BY <1>4, <1>5, <1>6

(* The next global starts at its field's address. *)
LEMMA StartGlobalLayout ==
  ASSUME StaticInv, LayoutInv, StartGlobal
  PROVE  LayoutInv'
  <1> DEFINE G == Top.global + 1
             base == field[Top.class][G]
             fr == [Top EXCEPT !.global = @ + 1, !.part = 1, !.op = 1, !.addr = base]
             v == program[Top.class][G]
  <1>1. /\ frames # << >> /\ BetweenGlobals /\ Top.phase = "initialise"
        /\ Top.global < Len(program[Top.class])
        /\ SetTop(fr) /\ UNCHANGED <<program, field, status, stored>> /\ DataInv /\ StackInv
    BY DEF StartGlobal, BetweenGlobals, StaticInv
  <1>2. /\ FrameOK(Top, program, status, field) /\ Len(program[Top.class]) \in Nat
        /\ Top.class \in Classes /\ Globals(Top.class) = 1 .. Len(program[Top.class])
    BY <1>1, TopFacts
  <1>3. /\ fr.class = Top.class /\ fr.phase = "initialise" /\ fr.part = 1 /\ fr.op = 1
        /\ fr.global = G /\ fr.addr = base
    BY <1>1, <1>2 DEF FrameOK
  <1>4. Top.global \in Nat /\ G \in Globals(Top.class)
    <2>1. Top.global \in 0 .. Len(program[Top.class])
      BY <1>1, <1>2 DEF FrameOK
    <2>2. QED
      BY <1>1, <1>2, <2>1
  <1> HIDE DEF fr
  <1>5. FrameAt(fr, program, field)
    <2>1. base \in Nat
      <3>1. base \in 0 .. dataEnd /\ dataEnd \in Nat
        BY <1>1, <1>2, <1>4 DEF DataInv
      <3> HIDE DEF base
      <3>2. QED
        BY <3>1
    <2>2. Reached(v, 1, 1) = 0
      <3>1. WellFormed(v)
        BY <1>1, <1>2, <1>4, ProgramFacts
      <3> HIDE DEF v
      <3>2. FieldEnd(v, 0) = 0 /\ 1 - 1 = 0
        BY <3>1, GlobalLaidOut DEF GlobalLayout
      <3>3. QED
        BY <3>2 DEF Reached
    <2> HIDE DEF v, base
    <2>3. At(v, 1, 1, base, base)
      BY <2>1, <2>2 DEF At
    <2>4. QED
      BY <1>3, <2>3 DEF FrameAt, v, base
  <1>6. ASSUME NEW g \in Globals(Top.class), NEW k \in DOMAIN program[Top.class][g],
               NEW l \in DOMAIN program[Top.class][g][k],
               program[Top.class][g][k][l].init.is # "null", Handled(fr, g, k, l)
        PROVE  Handled(Top, g, k, l)
    <2>1. g < G \/ (g = G /\ Before(k, l, 1, 1))
      BY <1>3, <1>6 DEF Handled
    <2>2. ~Before(k, l, 1, 1)
      <3>1. WellFormed(program[Top.class][g])
        BY <1>1, <1>2, ProgramFacts
      <3>2. GlobalLayout(program[Top.class][g])
        BY <3>1, GlobalLaidOut
      <3>3. k \in 1 .. Len(program[Top.class][g]) /\ Len(program[Top.class][g]) \in Nat
        BY <3>2 DEF GlobalLayout
      <3>4. LeafLayout(program[Top.class][g][k])
        BY <3>1, <3>3, FieldFacts
      <3>5. l \in 1 .. Len(program[Top.class][g][k]) /\ Len(program[Top.class][g][k]) \in Nat
        BY <3>4 DEF LeafLayout
      <3>6. ~(k < 1) /\ ~(l < 1)
        BY <3>3, <3>5
      <3>7. QED
        BY <3>6 DEF Before
    <2>3. g <= Top.global
      <3>1. g \in Nat
        BY <1>2
      <3>2. QED
        BY <1>4, <2>1, <2>2, <3>1
    <2>4. QED
      BY <1>1, <1>6, <2>3, GlobalHandled
  <1>7. AlignedInv' /\ PlaceInv' /\ CompleteInv'
    BY <1>1, <1>3, <1>5, <1>6, TopMoves
  <1>8. QED
    BY <1>1, <1>7 DEF LayoutInv, PackedInv

(* Where a running initialiser stands. *)
LEMMA RunningAt ==
  ASSUME StaticInv, LayoutInv, Running
  PROVE  LET base == field[Top.class][Top.global] IN
         /\ Natural(program[Top.class][Top.global]) =>
              At(program[Top.class][Top.global], Top.part, Top.op, base, Top.addr)
         /\ base \in Nat /\ base % 8 = 0 /\ base # 0
  <1> DEFINE base == field[Top.class][Top.global]
  <1>1. /\ frames # << >> /\ Top.phase = "initialise" /\ Top.class \in Classes /\ Top.global # 0
        /\ Top.global \in Globals(Top.class) /\ FrameOK(Top, program, status, field)
    BY RunningFacts
  <1>2. FrameAt(Top, program, field)
    <2>1. Len(frames) \in 1 .. Len(frames)
      BY <1>1, TopFacts DEF StaticInv
    <2>2. QED
      BY <2>1 DEF LayoutInv, PlaceInv, Top
  <1>3. base % 8 = 0
    BY <1>1 DEF LayoutInv, AlignedInv
  <1>4. base # 0
    BY <1>1 DEF FrameOK, Globals
  <1>5. base \in 0 .. dataEnd /\ dataEnd \in Nat
    BY <1>1 DEF StaticInv, DataInv
  <1>6. Natural(program[Top.class][Top.global]) =>
          At(program[Top.class][Top.global], Top.part, Top.op, base, Top.addr)
    BY <1>1, <1>2 DEF FrameAt
  <1> HIDE DEF base
  <1>7. base \in Nat
    BY <1>5
  <1>8. QED
    BY <1>3, <1>4, <1>6, <1>7 DEF base

(* An operation that leaves the address in place, and has stored the       *)
(* scalar if it is one that packs.                                         *)
LEMMA OperationLayout ==
  ASSUME StaticInv, LayoutInv, Running, NEW a, Advance(a), UNCHANGED <<program, field, status>>,
         Natural(program[Top.class][Top.global]) =>
           At(program[Top.class][Top.global], NextPart(Code, Top.part, Top.op),
              NextOp(Code, Top.part, Top.op), field[Top.class][Top.global], a),
         DOMAIN stored \subseteq DOMAIN stored',
         Operation.op = "pack" => <<Top.class, Top.global, Top.part, Top.op>> \in DOMAIN stored'
  PROVE  AlignedInv' /\ PlaceInv' /\ CompleteInv'
  <1> DEFINE v == program[Top.class][Top.global]
  <1>1. PICK fr : SetTop(fr) /\ Moved(fr, a)
    BY AdvanceFrame
  <1>2. frames # << >> /\ Top.phase = "initialise" /\ fr.class = Top.class
    BY <1>1 DEF Running, Moved
  <1>3. FrameAt(fr, program, field)
    BY <1>1 DEF FrameAt, Moved
  <1>4. /\ WellFormed(v) /\ IsCodeOf(Code, v) /\ InCode(Code, Top.part, Top.op)
        /\ Top.part <= Len(Code)
    BY RunningFacts
  <1>5. ASSUME NEW g \in Globals(Top.class), NEW k \in DOMAIN program[Top.class][g],
               NEW l \in DOMAIN program[Top.class][g][k],
               program[Top.class][g][k][l].init.is # "null", Handled(fr, g, k, l)
        PROVE  Handled(Top, g, k, l) \/ <<Top.class, g, k, l>> \in DOMAIN stored'
    <2>1. CASE g < Top.global
      BY <1>2, <2>1 DEF Handled
    <2>2. CASE g = Top.global
      <3>1. \/ g < Top.global
            \/ Before(k, l, NextPart(Code, Top.part, Top.op), NextOp(Code, Top.part, Top.op))
        BY <1>1, <1>5 DEF Handled, Moved
      <3>2. CASE Before(k, l, NextPart(Code, Top.part, Top.op), NextOp(Code, Top.part, Top.op))
        <4>1. k \in DOMAIN v /\ l \in DOMAIN v[k] /\ v[k][l].init.is # "null"
          BY <1>5, <2>2
        <4> HIDE DEF v
        <4>2. \/ Before(k, l, Top.part, Top.op)
              \/ k = Top.part /\ l = Top.op /\ Code[Top.part][Top.op].op = "pack"
          BY <1>4, <3>2, <4>1, NewlyHandled
        <4>3. QED
          BY <1>2, <2>2, <4>2 DEF Handled, Operation
      <3>3. QED
        BY <2>1, <3>1, <3>2
    <2>3. g < Top.global \/ g = Top.global
      BY <1>1, <1>5 DEF Handled, Moved
    <2>4. QED
      BY <2>1, <2>2, <2>3
  <1>6. QED
    BY <1>1, <1>2, <1>3, <1>5, TopMoves

(* Memory.zero. *)
LEMMA ZeroBytesLayout ==
  ASSUME StaticInv, LayoutInv, ZeroBytes
  PROVE  LayoutInv'
  <1> DEFINE v == program[Top.class][Top.global]
             base == field[Top.class][Top.global]
  <1>1. /\ Running /\ Operation.op = "zero" /\ Advance(Top.addr + Operation.size)
        /\ UNCHANGED <<program, field, status, stored>>
    BY DEF ZeroBytes
  <1>2. /\ WellFormed(v) /\ IsCodeOf(Code, v) /\ InCode(Code, Top.part, Top.op)
        /\ Top.part <= Len(Code)
    BY <1>1, RunningFacts
  <1>3. (Natural(v) => At(v, Top.part, Top.op, base, Top.addr)) /\ base \in Nat
    BY <1>1, RunningAt
  <1> HIDE DEF v, base
  <1>4. ASSUME Natural(v)
        PROVE  At(v, NextPart(Code, Top.part, Top.op), NextOp(Code, Top.part, Top.op), base,
                  Top.addr + Operation.size)
    BY <1>4, <1>1, <1>2, <1>3, ZeroPlace DEF Operation
  <1>5. AlignedInv' /\ PlaceInv' /\ CompleteInv'
    BY <1>1, <1>4, OperationLayout DEF v, base
  <1>6. QED
    BY <1>1, <1>5 DEF LayoutInv, PackedInv

(* Memory.pack. *)
LEMMA PackLayout ==
  ASSUME StaticInv, LayoutInv, Running, Operation.op = "pack", NEW value, PackValue(value),
         UNCHANGED <<program, field, status>>
  PROVE  LayoutInv'
  <1> DEFINE v == program[Top.class][Top.global]
             base == field[Top.class][Top.global]
             k == Top.part
             l == Top.op
  <1>1. /\ WellFormed(v) /\ IsCodeOf(Code, v) /\ InCode(Code, k, l) /\ k <= Len(Code)
    BY RunningFacts
  <1>2. /\ Natural(v) => At(v, k, l, base, Top.addr)
        /\ base \in Nat /\ base % 8 = 0 /\ base # 0
    BY RunningAt
  <1>3. Code[k][l].op = "pack"
    BY DEF Operation
  <1>4. PICK x : x = <<Top.class, Top.global>> \o Operation.at
    OBVIOUS
  <1>5. /\ x[1] = Top.class /\ x[2] = Top.global /\ x[3] = k /\ x[4] = l
        /\ x = <<Top.class, Top.global, k, l>> /\ Operation.size = v[k][l].size
    BY <1>4, PackFacts
  <1>6. PICK a : a = alignOffset[Top.addr, v[k][l].size]
    OBVIOUS
  <1> DEFINE new == [y \in {x} |-> [addr |-> a, value |-> value]]
  <1>7. stored' = Put(stored, new) /\ Advance(a + v[k][l].size)
    BY <1>4, <1>5, <1>6 DEF PackValue
  <1>8. DOMAIN new = {x} /\ new[x].addr = a
    OBVIOUS
  <1> HIDE DEF new
  <1>9. IsPut(stored', stored, new)
    BY <1>7, PutFacts
  <1>10. /\ DOMAIN stored' = DOMAIN stored \cup {x} /\ stored'[x].addr = a
         /\ \A y \in DOMAIN stored : y # x => stored'[y] = stored[y]
    BY <1>8, <1>9 DEF IsPut
  <1> HIDE DEF v, base, k, l
  <1>11. ASSUME Natural(v)
         PROVE  /\ IsPlaced(v, k, l, base, Top.addr)
                /\ At(v, NextPart(Code, k, l), NextOp(Code, k, l), base, a + v[k][l].size)
    <2>1. PICK ad : ad = Top.addr
      OBVIOUS
    <2>2. PICK code : code = Code
      OBVIOUS
    <2>3. /\ IsCodeOf(code, v) /\ InCode(code, k, l) /\ k <= Len(code) /\ code[k][l].op = "pack"
          /\ At(v, k, l, base, ad)
      BY <1>1, <1>2, <1>3, <1>11, <2>1, <2>2
    <2>4. IsPlaced(v, k, l, base, ad)
      BY <1>1, <1>2, <1>11, <2>3, PackPlace, Zenon
    <2>5. At(v, NextPart(code, k, l), NextOp(code, k, l), base, alignOffset[ad, v[k][l].size] + v[k][l].size)
      BY <1>1, <1>2, <1>11, <2>3, PackPlace
    <2>6. QED
      BY <1>6, <2>1, <2>2, <2>4, <2>5, Zenon
  <1>12. AlignedInv' /\ PlaceInv' /\ CompleteInv'
    BY <1>5, <1>7, <1>10, <1>11, OperationLayout DEF v, base, k, l
  <1>13. PackedAt(x, a, program, field)
    <2>1. program[x[1]][x[2]] = v /\ field[x[1]][x[2]] = base /\ x[3] = k /\ x[4] = l
      BY <1>5 DEF v, base
    <2>2. ASSUME Natural(v)
          PROVE  /\ a \in Nat /\ base <= a /\ a + v[k][l].size <= base + AllocSize(v)
                 /\ Plain(v) => a = base + FieldOffset(v, k) + LeafOffset(v[k], l)
      BY <1>6, <1>11, <2>2 DEF IsPlaced
    <2>3. x = <<x[1], x[2], x[3], x[4]>>
      BY <1>5
    <2>4. QED
      BY <1>2, <2>1, <2>2, <2>3 DEF PackedAt
  <1>14. PackedInv'
    <2>1. ASSUME NEW y \in DOMAIN stored' PROVE PackedAt(y, stored'[y].addr, program, field)
      <3>1. CASE y = x
        BY <1>10, <1>13, <3>1
      <3>2. CASE y # x
        BY <1>10, <3>2 DEF LayoutInv, PackedInv
      <3>3. QED
        BY <3>1, <3>2
    <2>2. QED
      BY <2>1 DEF PackedInv
  <1>15. QED
    BY <1>12, <1>14 DEF LayoutInv

(* A new initialiser has handled nothing. *)
LEMMA EnterLayout ==
  ASSUME StaticInv, LayoutInv, NEW c \in Classes, Enter(c), UNCHANGED <<program, field, stored>>
  PROVE  LayoutInv'
  <1> DEFINE n == Len(frames)
  <1>1. /\ status[c] = "no" /\ status' = [status EXCEPT ![c] = "running"]
        /\ frames' = Append(frames, Frame(c)) /\ DataInv /\ StackInv
    BY DEF Enter, StaticInv
  <1>2. n \in Nat /\ IsSequence(frames)
    BY <1>1, SequenceFacts DEF StackInv
  <1>3. /\ Len(frames') = n + 1 /\ frames'[n + 1] = Frame(c)
        /\ \A i \in 1 .. n : frames'[i] = frames[i]
    BY <1>1, <1>2, AppendSequence
  <1>4. \A i \in 1 .. n + 1 : i = n + 1 \/ i \in 1 .. n
    BY <1>2
  <1>5. Frame(c).phase = "allocate"
    BY DEF Frame
  <1>6. \A d \in Classes : status'[d] = "done" => status[d] = "done"
    BY <1>1 DEF DataInv
  <1>7. AlignedInv' /\ PackedInv'
    BY DEF LayoutInv, AlignedInv, PackedInv, Classes, Globals
  <1>8. PlaceInv'
    <2>1. ASSUME NEW i \in 1 .. n + 1 PROVE FrameAt(frames'[i], program, field)
      <3>1. CASE i = n + 1
        BY <1>3, <1>5, <3>1 DEF FrameAt
      <3>2. CASE i \in 1 .. n
        BY <1>3, <3>2 DEF LayoutInv, PlaceInv
      <3>3. QED
        BY <1>4, <3>1, <3>2
    <2>2. QED
      BY <1>3, <2>1 DEF PlaceInv
  <1>9. ASSUME NEW d \in Classes, NEW g \in Globals(d), NEW k \in DOMAIN program[d][g],
               NEW l \in DOMAIN program[d][g][k], program[d][g][k][l].init.is # "null",
               \/ status'[d] = "done"
               \/ \E i \in 1 .. n + 1 : frames'[i].class = d /\ Handled(frames'[i], g, k, l)
        PROVE  <<d, g, k, l>> \in DOMAIN stored
    <2>1. \/ status[d] = "done"
          \/ \E i \in 1 .. n : frames[i].class = d /\ Handled(frames[i], g, k, l)
      <3>1. CASE status'[d] = "done"
        BY <1>6, <3>1
      <3>2. CASE \E i \in 1 .. n + 1 : frames'[i].class = d /\ Handled(frames'[i], g, k, l)
        <4>1. PICK i \in 1 .. n + 1 : frames'[i].class = d /\ Handled(frames'[i], g, k, l)
          BY <3>2
        <4>2. i \in 1 .. n
          BY <1>3, <1>4, <1>5, <4>1 DEF Handled
        <4>3. QED
          BY <1>3, <4>1, <4>2
      <3>3. QED
        BY <1>9, <3>1, <3>2
    <2>2. QED
      BY <1>9, <2>1 DEF LayoutInv, CompleteInv
  <1>10. CompleteInv'
    BY <1>3, <1>9 DEF CompleteInv, Classes, Globals
  <1>11. QED
    BY <1>7, <1>8, <1>10 DEF LayoutInv

(* When an initialiser returns it has handled every scalar of its class. *)
LEMMA ReturnLayout ==
  ASSUME StaticInv, LayoutInv, Return
  PROVE  LayoutInv'
  <1> DEFINE n == Len(frames)
             C == Top.class
  <1>1. /\ frames # << >> /\ BetweenGlobals /\ Top.global = Len(program[C])
        /\ status' = [status EXCEPT ![C] = "done"] /\ frames' = Front(frames)
        /\ UNCHANGED <<program, field, stored>> /\ DataInv /\ StackInv
    BY DEF Return, BetweenGlobals, StaticInv
  <1>2. /\ n \in Nat /\ n # 0 /\ n \in 1 .. n /\ C \in Classes /\ IsSequence(frames) /\ Top = frames[n]
        /\ Len(program[C]) \in Nat /\ Globals(C) = 1 .. Len(program[C])
    BY <1>1, TopFacts DEF StackInv, Top
  <1>3. /\ Len(frames') = n - 1
        /\ \A i \in 1 .. n - 1 : frames'[i] = frames[i]
    BY <1>1, <1>2, FrontSequence
  <1>4. \A i \in 1 .. n - 1 : i \in 1 .. n
    BY <1>2
  <1>5. \A d \in Classes : status'[d] = "done" => status[d] = "done" \/ d = C
    BY <1>1 DEF DataInv
  <1>6. AlignedInv' /\ PackedInv'
    BY <1>1 DEF LayoutInv, AlignedInv, PackedInv, Classes, Globals
  <1>7. PlaceInv'
    BY <1>1, <1>3, <1>4 DEF LayoutInv, PlaceInv
  <1>8. ASSUME NEW d \in Classes, NEW g \in Globals(d), NEW k \in DOMAIN program[d][g],
               NEW l \in DOMAIN program[d][g][k], program[d][g][k][l].init.is # "null",
               \/ status'[d] = "done"
               \/ \E i \in 1 .. n - 1 : frames'[i].class = d /\ Handled(frames'[i], g, k, l)
        PROVE  <<d, g, k, l>> \in DOMAIN stored
    <2>1. \/ status[d] = "done"
          \/ \E i \in 1 .. n : frames[i].class = d /\ Handled(frames[i], g, k, l)
      <3>1. CASE status[d] = "done"
        BY <3>1
      <3>2. CASE d = C
        <4>1. g <= Top.global
          BY <1>1, <1>2, <3>2
        <4>2. Handled(Top, g, k, l)
          BY <1>1, <1>8, <3>2, <4>1, GlobalHandled
        <4>3. QED
          BY <1>2, <3>2, <4>2
      <3>3. CASE \E i \in 1 .. n - 1 : frames'[i].class = d /\ Handled(frames'[i], g, k, l)
        BY <1>3, <1>4, <3>3
      <3>4. QED
        BY <1>5, <1>8, <3>1, <3>2, <3>3
    <2>2. QED
      BY <1>8, <2>1 DEF LayoutInv, CompleteInv
  <1>9. CompleteInv'
    BY <1>1, <1>3, <1>8 DEF CompleteInv, Classes, Globals
  <1>10. QED
    BY <1>6, <1>7, <1>9 DEF LayoutInv

-----------------------------------------------------------------------------
(* The theorems *)

(* Every step keeps the invariant. *)
LEMMA StepInv ==
  ASSUME StaticInv, [Next]_vars
  PROVE  StaticInv'
  <1>1. CASE AllocateGlobal
    BY <1>1, AllocateInv
  <1>2. CASE StartInitialising
    BY <1>2, StartInitialisingInv
  <1>3. CASE StartGlobal
    BY <1>3, StartGlobalInv
  <1>4. CASE ZeroBytes
    BY <1>4, ZeroBytesInv
  <1>5. CASE PackNumber
    BY <1>5, PackNumberInv
  <1>6. CASE PackGlobal
    BY <1>6, PackGlobalInv
  <1>7. CASE PackFunction
    BY <1>7, PackFunctionInv
  <1>8. CASE Return
    BY <1>8, ReturnInv
  <1>9. ASSUME NEW c \in Classes, Use(c) PROVE StaticInv'
    BY <1>9, EnterInv DEF Use
  <1>10. ASSUME NEW c \in Classes, GetFunctionPointer(c) PROVE StaticInv'
    BY <1>10, GetFunctionPointerInv
  <1>11. CASE UNCHANGED vars
    <2>1. /\ UNCHANGED <<program, dataEnd, field, status, frames, stored>>
          /\ UNCHANGED registry
      BY <1>11 DEF vars, registry
    <2>2. DataInv' /\ StackInv' /\ ClassInv'
      BY <2>1 DEF StaticInv, DataInv, StackInv, ClassInv, Classes, Globals
    <2>3. QED
      BY <2>1, <2>2, DataKept, StoredKept DEF StaticInv
  <1>12. QED
    BY <1>1, <1>2, <1>3, <1>4, <1>5, <1>6, <1>7, <1>8, <1>9, <1>10, <1>11 DEF Next, Step

(* In every reachable state, for every program: each initialiser has       *)
(* allocated what lies before its current global, blocks follow each other *)
(* in the data segment, the two maps of Function are inverse to each       *)
(* other, and every stored address is that of its target.                  *)
THEOREM StaticInvariant == Spec => []StaticInv
  <1>1. Init => StaticInv
    BY InitInv
  <1>2. StaticInv /\ [Next]_vars => StaticInv'
    BY StepInv
  <1>3. QED
    BY <1>1, <1>2, PTL DEF Spec

(* The data segment's end stays aligned, every assigned field lies below   *)
(* it, and the initialisers being run are those of the running classes.    *)
THEOREM TypeCorrect == Spec => []TypeOK
  <1>1. StaticInv => TypeOK
    <2> SUFFICES ASSUME StaticInv PROVE TypeOK
      OBVIOUS
    <2>1. DataInv /\ StackInv /\ ApartInv /\ RegistryInv
      BY DEF StaticInv
    <2>2. DOMAIN frames = 1 .. Len(frames)
      BY <2>1, SequenceFacts DEF StackInv
    <2>3. ToSet([i \in DOMAIN frames |-> frames[i].class]) = {frames[i].class : i \in 1 .. Len(frames)}
      BY <2>2 DEF ToSet
    <2>4. {frames[i].class : i \in 1 .. Len(frames)} = {c \in Classes : status[c] = "running"}
      BY <2>1 DEF StackInv, FrameOK, Classes
    <2>5. DOMAIN functionPointers = registeredClasses \X Methods
      BY <2>1 DEF RegistryInv
    <2>6. \A a \in DOMAIN functionObjects : a < dataEnd
      BY <2>1 DEF ApartInv, DataInv
    <2>7. QED
      BY <2>1, <2>3, <2>4, <2>5, <2>6 DEF TypeOK, DataInv, Globals
  <1>2. QED
    BY <1>1, StaticInvariant, PTL

(* Every address an initialiser has stored is the address its target has   *)
(* ever after, and a stored function pointer leads back to its function.   *)
THEOREM PointersAlwaysResolved == Spec => []PointersResolved
  <1>1. StaticInv => PointersResolved
    <2> SUFFICES ASSUME StaticInv, NEW x \in DOMAIN stored
                 PROVE  LET i == InitOf(x)
                            v == stored[x].value
                        IN  /\ i.is = "global" => v = field[i.class][i.at] /\ v # 0
                            /\ i.is = "function" =>
                                 /\ v = functionPointers[<<i.class, i.at>>]
                                 /\ functionObjects[v] = <<i.class, i.at>>
      BY DEF PointersResolved
    <2> DEFINE i == InitOf(x)
               v == stored[x].value
    <2>1. Resolved(x, v) /\ DataInv /\ RegistryInv
      BY DEF StaticInv, StoredInv
    <2>2. i.is = "function" => i.at \in Methods
      BY <2>1, InitFacts DEF Resolved, IsScalar, InitOf
    <2>3. i.is = "function" =>
            /\ v = functionPointers[<<i.class, i.at>>]
            /\ <<i.class, i.at>> \in registeredClasses \X Methods
      BY <2>1, <2>2 DEF Resolved
    <2>4. i.is = "function" => functionObjects[v] = <<i.class, i.at>>
      BY <2>1, <2>3 DEF RegistryInv
    <2>5. QED
      BY <2>1, <2>3, <2>4 DEF Resolved
  <1>2. QED
    BY <1>1, StaticInvariant, PTL

(* Globals that occupy bytes and functions never share an address and none *)
(* is at the null pointer, however nested initialisers and registrations   *)
(* interleave; each function has a pointer of its own.                     *)
THEOREM AddressesStayApart == Spec => []AddressesApart
  <1>1. StaticInv => AddressesApart
    <2> SUFFICES ASSUME StaticInv PROVE AddressesApart
      OBVIOUS
    <2>1. DataInv /\ ApartInv /\ RegistryInv
      BY DEF StaticInv
    <2>2. \A b \in Blocks :
            \/ \E p \in Allocated : b[1] = Address(p) /\ b[2] = Size(p) /\ b = <<Address(p), Size(p)>>
            \/ \E a \in DOMAIN functionObjects : b[1] = a /\ b[2] = 1 /\ b = <<a, 1>>
      BY DEF Blocks, Address, Size
    <2>3. ASSUME NEW p \in Allocated PROVE Address(p) \in Nat /\ Size(p) \in Nat
      <3>1. PICK d \in Classes : \E g \in Globals(d) : p = <<d, g>>
        BY InAllocated
      <3>2. PICK g \in Globals(d) : p = <<d, g>>
        BY <3>1
      <3>3. p[1] = d /\ p[2] = g
        BY <3>2
      <3>4. field[d][g] \in 0 .. dataEnd /\ AllocSize(program[d][g]) \in Nat /\ dataEnd \in Nat
        BY <2>1, ProgramFacts DEF DataInv
      <3>5. QED
        BY <3>3, <3>4 DEF Address, Size
    <2>4. \A b \in Blocks : b[1] >= ALIGNMENT /\ b[1] + b[2] <= dataEnd
      BY <2>1, <2>2 DEF ApartInv
    <2>5. ASSUME NEW b \in Blocks, NEW d \in Blocks, b # d
          PROVE  b[1] + b[2] <= d[1] \/ d[1] + d[2] <= b[1]
      <3>1. CASE \E p \in Allocated : b = <<Address(p), Size(p)>> /\ b[1] = Address(p) /\ b[2] = Size(p)
        <4>1. PICK p \in Allocated : b = <<Address(p), Size(p)>> /\ b[1] = Address(p) /\ b[2] = Size(p)
          BY <3>1
        <4>2. CASE \E q \in Allocated : d = <<Address(q), Size(q)>> /\ d[1] = Address(q) /\ d[2] = Size(q)
          <5>1. PICK q \in Allocated : d = <<Address(q), Size(q)>> /\ d[1] = Address(q) /\ d[2] = Size(q)
            BY <4>2
          <5>2. p # q
            BY <2>5, <4>1, <5>1
          <5>3. QED
            BY <2>1, <4>1, <5>1, <5>2 DEF ApartInv
        <4>3. CASE \E a \in DOMAIN functionObjects : d[1] = a /\ d[2] = 1
          BY <2>1, <4>1, <4>3 DEF ApartInv
        <4>4. QED
          BY <2>2, <4>2, <4>3
      <3>2. CASE \E a \in DOMAIN functionObjects : b[1] = a /\ b[2] = 1 /\ b = <<a, 1>>
        <4>1. PICK a \in DOMAIN functionObjects : b[1] = a /\ b[2] = 1 /\ b = <<a, 1>>
          BY <3>2
        <4>2. CASE \E q \in Allocated : d[1] = Address(q) /\ d[2] = Size(q)
          BY <2>1, <4>1, <4>2 DEF ApartInv
        <4>3. CASE \E e \in DOMAIN functionObjects : d[1] = e /\ d[2] = 1 /\ d = <<e, 1>>
          <5>1. PICK e \in DOMAIN functionObjects : d[1] = e /\ d[2] = 1 /\ d = <<e, 1>>
            BY <4>3
          <5>2. a # e /\ a \in Nat /\ e \in Nat
            BY <2>1, <2>5, <4>1, <5>1 DEF ApartInv
          <5>3. a + 1 <= e \/ e + 1 <= a
            BY <5>2
          <5>4. QED
            BY <4>1, <5>1, <5>3
        <4>4. QED
          BY <2>2, <4>2, <4>3
      <3>3. QED
        BY <2>2, <3>1, <3>2
    <2>6. Cardinality(DOMAIN functionObjects) = Cardinality(DOMAIN functionPointers)
      <3> DEFINE P == registeredClasses \X Methods
                 A == DOMAIN functionObjects
      <3>1. IsFiniteSet(P)
        BY <2>1, MethodAssumption, FS_Product DEF RegistryInv
      <3>2. /\ functionPointers \in [P -> A] /\ DOMAIN functionPointers = P
            /\ \A m \in P : functionObjects[functionPointers[m]] = m
            /\ \A a \in A : functionObjects[a] \in P /\ functionPointers[functionObjects[a]] = a
        BY <2>1 DEF RegistryInv
      <3> HIDE DEF P, A
      <3>3. \A m, k \in P : functionPointers[m] = functionPointers[k] => m = k
        BY <3>2
      <3>4. \A a \in A : \E m \in P : functionPointers[m] = a
        BY <3>2
      <3>5. functionPointers \in Bijection(P, A)
        BY <3>2, <3>3, <3>4, Fun_IsBij
      <3>6. ExistsBijection(P, A)
        BY <3>5, Fun_ExistsBij
      <3>7. Cardinality(A) = Cardinality(P)
        BY <3>1, <3>6, FS_Bijection
      <3>8. QED
        BY <3>2, <3>7 DEF A
    <2>7. QED
      BY <2>4, <2>5, <2>6 DEF AddressesApart
  <1>2. QED
    BY <1>1, StaticInvariant, PTL

(* Initialisers also keep to the places their globals give them. *)
LEMMA LayoutStep ==
  ASSUME StaticInv, LayoutInv, [Next]_vars
  PROVE  LayoutInv'
  <1>1. CASE AllocateGlobal
    BY <1>1, AllocateLayout
  <1>2. CASE StartInitialising
    BY <1>2, StartInitialisingLayout
  <1>3. CASE StartGlobal
    BY <1>3, StartGlobalLayout
  <1>4. CASE ZeroBytes
    BY <1>4, ZeroBytesLayout
  <1>5. CASE PackNumber
    BY <1>5, PackLayout DEF PackNumber
  <1>6. CASE PackGlobal
    <2> DEFINE c == Operation.init.class
    <2>1. /\ Running /\ Operation.op = "pack" /\ Operation.init.is = "global"
          /\ \/ PackValue(field[c][Operation.init.at]) /\ UNCHANGED <<status, field>>
             \/ Enter(c) /\ UNCHANGED <<field, stored>>
          /\ UNCHANGED program
      BY <1>6 DEF PackGlobal
    <2>2. c \in Classes
      <3> DEFINE x == <<Top.class, Top.global>> \o Operation.at
      <3>1. IsScalar(x) /\ InitOf(x) = Operation.init
        BY <2>1, PackFacts
      <3> HIDE DEF x
      <3>2. QED
        BY <2>1, <3>1, InitFacts DEF IsScalar, InitOf, StaticInv
    <2> HIDE DEF c
    <2>3. QED
      BY <2>1, <2>2, PackLayout, EnterLayout
  <1>7. CASE PackFunction
    BY <1>7, PackLayout DEF PackFunction
  <1>8. CASE Return
    BY <1>8, ReturnLayout
  <1>9. ASSUME NEW c \in Classes, Use(c) PROVE LayoutInv'
    BY <1>9, EnterLayout DEF Use
  <1>10. ASSUME NEW c \in Classes, GetFunctionPointer(c) PROVE LayoutInv'
    BY <1>10, LayoutKept DEF GetFunctionPointer
  <1>11. CASE UNCHANGED vars
    BY <1>11, LayoutKept DEF vars
  <1>12. QED
    BY <1>1, <1>2, <1>3, <1>4, <1>5, <1>6, <1>7, <1>8, <1>9, <1>10, <1>11 DEF Next, Step

(* Before main there is nothing to place. *)
LEMMA LayoutInit ==
  ASSUME Init
  PROVE  LayoutInv
  <1>1. /\ frames = << >> /\ stored = << >>
        /\ field = [c \in Classes |-> [g \in Globals(c) |-> 0]]
        /\ status = [c \in Classes |-> "no"]
    BY DEF Init, Globals
  <1>2. DOMAIN << >> = {} /\ Len(<< >>) = 0 /\ \A i \in 1 .. 0 : FALSE
    OBVIOUS
  <1>3. Len(frames) = 0
    BY <1>1, <1>2
  <1>4. 0 % 8 = 0
    OBVIOUS
  <1>5. AlignedInv
    BY <1>1, <1>4 DEF AlignedInv
  <1>6. PlaceInv
    BY <1>2, <1>3 DEF PlaceInv
  <1>7. CompleteInv
    <2>1. \A c \in Classes : status[c] # "done"
      BY <1>1
    <2>2. QED
      BY <1>2, <1>3, <2>1 DEF CompleteInv
  <1>8. PackedInv
    BY <1>1, <1>2 DEF PackedInv
  <1>9. QED
    BY <1>5, <1>6, <1>7, <1>8 DEF LayoutInv

(* In every reachable state, for every program: every scalar that an       *)
(* initialiser has come past and that is not null is stored; and for a     *)
(* global without a packed structure the address on its stack is never     *)
(* ahead of LLVM's layout, and what is stored lies in the block, in a      *)
(* plain global where getelementptr looks for it.                          *)
THEOREM LayoutInvariant == Spec => []LayoutInv
  <1>1. Init => LayoutInv
    BY LayoutInit
  <1>2. StaticInv /\ LayoutInv /\ [Next]_vars => LayoutInv'
    BY LayoutStep
  <1>3. QED
    BY <1>1, <1>2, StaticInvariant, PTL DEF Spec

(* For every program, the initialiser of a global without a packed         *)
(* structure writes only into the global's block, although Memory.zero and *)
(* Memory.pack move by other rules than those by which LLVM sized it.      *)
THEOREM InitialisersStayInBlock == Spec => []StaysInBlock
  <1>1. StaticInv /\ LayoutInv => StaysInBlock
    <2> SUFFICES ASSUME StaticInv, LayoutInv, NEW i \in DOMAIN frames,
                        NEW fr, fr = frames[i], fr.phase = "initialise", fr.global > 0,
                        Natural(program[fr.class][fr.global])
                 PROVE  fr.addr <= field[fr.class][fr.global] + AllocSize(program[fr.class][fr.global])
      BY DEF StaysInBlock, BlockEnd
    <2> DEFINE v == program[fr.class][fr.global]
               base == field[fr.class][fr.global]
    <2>1. i \in 1 .. Len(frames) /\ DataInv /\ StackInv
      BY SequenceFacts DEF StaticInv, StackInv
    <2>2. FrameOK(fr, program, status, field) /\ FrameAt(fr, program, field)
      BY <2>1 DEF StackInv, LayoutInv, PlaceInv
    <2>3. fr.class \in Classes
      BY <2>2 DEF FrameOK, Classes
    <2>4. Len(program[fr.class]) \in Nat /\ Globals(fr.class) = 1 .. Len(program[fr.class])
      BY <2>1, <2>3, ProgramFacts
    <2>5. fr.global \in 0 .. Len(program[fr.class])
      BY <2>2 DEF FrameOK
    <2>6. fr.global \in Globals(fr.class) /\ fr.global # 0
      BY <2>4, <2>5
    <2>7. /\ WellFormed(v) /\ InCode(printStaticConstant(v), fr.part, fr.op) /\ base \in 0 .. dataEnd
          /\ Natural(v)
      BY <2>1, <2>2, <2>3, <2>6, ProgramFacts DEF FrameOK, DataInv
    <2>8. At(v, fr.part, fr.op, base, fr.addr)
      BY <2>2, <2>6 DEF FrameAt
    <2>9. dataEnd \in Nat /\ AllocSize(v) \in Nat
      BY <2>1, <2>3, <2>6, ProgramFacts DEF DataInv
    <2> HIDE DEF v, base
    <2>10. Reached(v, fr.part, fr.op) \in Nat /\ Reached(v, fr.part, fr.op) <= AllocSize(v)
      BY <2>7, CodeFacts, ReachedInBlock
    <2>11. fr.addr \in Nat /\ fr.addr <= base + Reached(v, fr.part, fr.op)
      BY <2>8 DEF At
    <2>12. QED
      BY <2>7, <2>9, <2>10, <2>11 DEF v, base
  <1>2. QED
    BY <1>1, StaticInvariant, LayoutInvariant, PTL

(* Where scalar l of field k lies in a global. *)
Offset(g, k, l) == FieldOffset(g, k) + LeafOffset(g[k], l)

(* A scalar lies in its global's block, if nothing is packed. *)
LEMMA ScalarInBlock ==
  ASSUME NEW g, WellFormed(g), Natural(g), NEW k \in DOMAIN g, NEW l \in DOMAIN g[k]
  PROVE  /\ FieldOffset(g, k) \in Nat /\ LeafOffset(g[k], l) \in Nat
         /\ LeafOffset(g[k], l) + g[k][l].size <= SizeOf(g[k])
         /\ SizeOf(g[k]) \in Nat /\ g[k][l].size \in Nat
         /\ Offset(g, k, l) \in Nat /\ Offset(g, k, l) + g[k][l].size <= AllocSize(g)
  <1>1. GlobalLayout(g)
    BY GlobalLaidOut
  <1>2. k \in 1 .. Len(g)
    BY <1>1 DEF GlobalLayout
  <1>3. /\ LeafLayout(g[k]) /\ k \in 0 .. Len(g)
        /\ g \notin PackedGlobals /\ g[k] \notin PackedFields
    BY <1>2, FieldFacts
  <1>4. l \in 1 .. Len(g[k]) /\ Len(g[k]) \in Nat
    BY <1>3 DEF LeafLayout
  <1>5. l \in 0 .. Len(g[k])
    BY <1>4
  <1>6. PICK F \in Nat : F = FieldOffset(g, k)
    BY <1>1, <1>2 DEF GlobalLayout
  <1>7. PICK T \in Nat : T = LeafOffset(g[k], l)
    BY <1>3, <1>4 DEF LeafLayout
  <1>8. PICK s \in {1, 2, 4, 8} : s = g[k][l].size
    BY <1>3, <1>4 DEF LeafLayout
  <1>9. PICK z \in Nat : z = SizeOf(g[k])
    BY <1>3 DEF LeafLayout
  <1>10. T + s <= z
    BY <1>3, <1>4, <1>5, <1>7, <1>8, <1>9 DEF LeafLayout
  <1>11. F + z <= AllocSize(g) /\ AllocSize(g) \in Nat
    BY <1>1, <1>2, <1>3, <1>6, <1>9 DEF GlobalLayout
  <1>12. F + T \in Nat /\ (F + T) + s <= AllocSize(g) /\ s \in Nat
    BY <1>10, <1>11
  <1>13. QED
    BY <1>6, <1>7, <1>8, <1>9, <1>10, <1>12 DEF Offset

(* Scalars of a later field, or later in the same field, lie behind. *)
LEMMA ScalarsInOrder ==
  ASSUME NEW g, WellFormed(g), Natural(g), NEW k \in DOMAIN g, NEW l \in DOMAIN g[k],
         NEW i \in DOMAIN g, NEW j \in DOMAIN g[i], Before(k, l, i, j)
  PROVE  Offset(g, k, l) + g[k][l].size <= Offset(g, i, j)
  <1>1. GlobalLayout(g)
    BY GlobalLaidOut
  <1>2. k \in 1 .. Len(g) /\ i \in 1 .. Len(g) /\ Len(g) \in Nat
    BY <1>1 DEF GlobalLayout
  <1>3. PICK F \in Nat : F = FieldOffset(g, k)
    BY ScalarInBlock
  <1>4. PICK T \in Nat : T = LeafOffset(g[k], l)
    BY ScalarInBlock
  <1>5. PICK s \in Nat : s = g[k][l].size
    BY ScalarInBlock
  <1>6. PICK E \in Nat : E = FieldOffset(g, i)
    BY ScalarInBlock
  <1>7. PICK U \in Nat : U = LeafOffset(g[i], j)
    BY ScalarInBlock
  <1>8. PICK z \in Nat : z = SizeOf(g[k])
    BY ScalarInBlock
  <1>9. T + s <= z
    BY <1>4, <1>5, <1>8, ScalarInBlock
  <1>10. SUFFICES (F + T) + s <= E + U
    BY <1>3, <1>4, <1>5, <1>6, <1>7 DEF Offset
  <1>11. CASE k < i
    <2>1. k \in 0 .. Len(g) /\ i - 1 \in 0 .. Len(g) /\ k <= i - 1
      BY <1>2, <1>11
    <2>2. FieldEnd(g, k) <= FieldEnd(g, i - 1)
      BY <1>1, <2>1 DEF GlobalLayout
    <2>3. FieldEnd(g, i - 1) <= E /\ FieldEnd(g, k) = F + z /\ FieldEnd(g, i - 1) \in Nat
      BY <1>1, <1>2, <1>3, <1>6, <1>8, <2>1 DEF GlobalLayout
    <2>4. F + z <= E
      BY <2>2, <2>3
    <2>5. QED
      BY <1>9, <2>4
  <1>12. CASE k = i /\ l < j
    <2>1. LeafLayout(g[k])
      BY <1>2, FieldFacts
    <2>2. l \in 1 .. Len(g[k]) /\ j \in 1 .. Len(g[k]) /\ Len(g[k]) \in Nat
      BY <1>12, <2>1 DEF LeafLayout
    <2>3. l \in 0 .. Len(g[k]) /\ j - 1 \in 0 .. Len(g[k]) /\ l <= j - 1
      BY <1>12, <2>2
    <2>4. LeafEnd(g[k], l) <= LeafEnd(g[k], j - 1)
      BY <2>1, <2>3 DEF LeafLayout
    <2>5. LeafEnd(g[k], j - 1) <= LeafOffset(g[k], j) /\ LeafEnd(g[k], j - 1) \in Nat
      BY <2>1, <2>2, <2>3 DEF LeafLayout
    <2>6. LeafEnd(g[k], l) = T + s
      BY <1>4, <1>5, <2>1, <2>2 DEF LeafLayout
    <2>7. LeafOffset(g[k], j) = U /\ E = F
      BY <1>3, <1>6, <1>7, <1>12
    <2>8. T + s <= U
      BY <2>4, <2>5, <2>6, <2>7
    <2>9. QED
      BY <2>7, <2>8
  <1>13. QED
    BY <1>11, <1>12 DEF Before

(* In a program without packed structures static data is found where it    *)
(* was put, if its global has no padding inside or is a flat structure     *)
(* with no null scalar: a scalar that is not null is stored at the address *)
(* getelementptr computes, and no initialiser writes over a scalar of such *)
(* a global anything but its own value.                                    *)
THEOREM PlainDataIsReadable == Spec => []PlainDataReadable
  <1>1. StaticInv /\ LayoutInv => PlainDataReadable
    <2> SUFFICES ASSUME StaticInv, LayoutInv,
                        \A d \in Classes : \A h \in Globals(d) : Natural(program[d][h]),
                        NEW c \in Classes, NEW g \in Globals(c),
                        status[c] = "done", Plain(program[c][g]),
                        NEW k \in DOMAIN program[c][g], NEW l \in DOMAIN program[c][g][k]
                 PROVE  ReadsAsWritten(c, g, k, l)
      BY DEF PlainDataReadable, Plain, Globals
    <2> DEFINE v == program[c][g]
               s == v[k][l]
               base == field[c][g]
               mine == <<c, g, k, l>>
    <2>1. DataInv /\ ApartInv /\ ClassInv /\ StoredInv /\ WellFormed(v) /\ Natural(v)
      BY ProgramFacts DEF StaticInv
    <2>2. base # 0 /\ base \in 0 .. dataEnd /\ dataEnd \in Nat
      BY <2>1 DEF ClassInv, DataInv
    <2>3. AddressOf(c, g, k, l) = base + FieldOffset(v, k) + LeafOffset(v[k], l)
      BY DEF AddressOf
    <2>4. ASSUME s.init.is # "null"
          PROVE  mine \in DOMAIN stored /\ stored[mine].addr = AddressOf(c, g, k, l)
      <3>1. mine \in DOMAIN stored
        BY <2>4 DEF LayoutInv, CompleteInv
      <3>2. PackedAt(mine, stored[mine].addr, program, field)
        BY <3>1 DEF LayoutInv, PackedInv
      <3>3. mine[1] = c /\ mine[2] = g /\ mine[3] = k /\ mine[4] = l
        OBVIOUS
      <3> HIDE DEF mine
      <3>4. stored[mine].addr = AddressOf(c, g, k, l)
        BY <2>1, <2>3, <3>2, <3>3 DEF PackedAt
      <3>5. QED
        BY <3>1, <3>4
    <2>5. PICK o \in Nat : o = Offset(v, k, l)
      BY <2>1, ScalarInBlock
    <2>6. PICK z \in Nat : z = s.size
      BY <2>1, ScalarInBlock
    <2>7. AllocSize(v) \in Nat /\ o + z <= AllocSize(v)
      BY <2>1, <2>5, <2>6, ScalarInBlock, ProgramFacts
    <2>8. PICK b \in Nat : b = base
      BY <2>2
    <2>9. AddressOf(c, g, k, l) = b + o
      <3>1. FieldOffset(v, k) \in Nat /\ LeafOffset(v[k], l) \in Nat
        BY <2>1, ScalarInBlock
      <3>2. QED
        BY <2>3, <2>5, <2>8, <3>1 DEF Offset
    <2>10. ASSUME NEW x \in DOMAIN stored, x # mine
           PROVE  LET size == program[x[1]][x[2]][x[3]][x[4]].size
                  IN  stored[x].addr + size <= b + o \/ (b + o) + z <= stored[x].addr
      <3> DEFINE w == program[x[1]][x[2]]
                 t == w[x[3]][x[4]]
      <3>1. IsScalar(x) /\ PackedAt(x, stored[x].addr, program, field)
        BY <2>1 DEF StoredInv, Resolved, LayoutInv, PackedInv
      <3>2. /\ x[1] \in Classes /\ x[2] \in Globals(x[1]) /\ x[3] \in DOMAIN w
            /\ x[4] \in DOMAIN w[x[3]]
        BY <3>1 DEF IsScalar
      <3>3. WellFormed(w) /\ AllocSize(w) \in Nat /\ Natural(w)
        BY <2>1, <3>2, ProgramFacts
      <3>4. PICK e \in Nat : e = t.size
        BY <3>2, <3>3, ScalarInBlock
      <3>5. PICK a : a = stored[x].addr
        OBVIOUS
      <3>6. field[x[1]][x[2]] \in 0 .. dataEnd
        BY <2>1, <3>2 DEF DataInv
      <3>7. PICK d \in Nat : d = field[x[1]][x[2]]
        BY <2>2, <3>6
      <3>8. /\ d # 0 /\ a \in Nat /\ d <= a /\ a + e <= d + AllocSize(w)
            /\ Plain(w) => a = d + FieldOffset(w, x[3]) + LeafOffset(w[x[3]], x[4])
            /\ x = <<x[1], x[2], x[3], x[4]>>
        BY <3>1, <3>3, <3>4, <3>5, <3>7 DEF PackedAt
      <3>9. SUFFICES a + e <= b + o \/ (b + o) + z <= a
        BY <3>4, <3>5
      <3>10. CASE <<x[1], x[2]>> # <<c, g>>
        <4> DEFINE p == <<x[1], x[2]>>
                   q == <<c, g>>
        <4>1. p \in Allocated /\ q \in Allocated
          BY <2>2, <3>2, <3>7, <3>8, InAllocated
        <4>2. /\ Address(p) = d /\ Size(p) = AllocSize(w)
              /\ Address(q) = b /\ Size(q) = AllocSize(v)
          BY <2>8, <3>7 DEF Address, Size
        <4> HIDE DEF p, q
        <4>3. p # q
          BY <3>10 DEF p, q
        <4>4. Address(p) + Size(p) <= Address(q) \/ Address(q) + Size(q) <= Address(p)
          BY <2>1, <4>1, <4>3 DEF ApartInv
        <4> HIDE DEF v, w
        <4>5. d + AllocSize(w) <= b \/ b + AllocSize(v) <= d
          BY <4>2, <4>4
        <4>6. QED
          BY <2>7, <3>3, <3>8, <4>5
      <3>11. CASE x[1] = c /\ x[2] = g
        <4>1. w = v /\ d = b
          BY <2>8, <3>7, <3>11
        <4>2. x[3] \in DOMAIN v /\ x[4] \in DOMAIN v[x[3]]
          BY <3>2, <4>1
        <4>3. PICK u \in Nat : u = Offset(v, x[3], x[4])
          BY <2>1, <4>2, ScalarInBlock
        <4>4. a = b + u
          <5>1. FieldOffset(v, x[3]) \in Nat /\ LeafOffset(v[x[3]], x[4]) \in Nat
            BY <2>1, <4>2, ScalarInBlock
          <5>2. a = b + FieldOffset(v, x[3]) + LeafOffset(v[x[3]], x[4])
            BY <3>8, <4>1
          <5>3. QED
            BY <4>3, <5>1, <5>2 DEF Offset
        <4>5. Before(k, l, x[3], x[4]) \/ Before(x[3], x[4], k, l)
          <5>1. ~(x[3] = k /\ x[4] = l)
            BY <2>10, <3>8, <3>11
          <5>2. GlobalLayout(v)
            BY <2>1, GlobalLaidOut
          <5>3. k \in 1 .. Len(v) /\ x[3] \in 1 .. Len(v) /\ Len(v) \in Nat
            BY <4>2, <5>2 DEF GlobalLayout
          <5>4. LeafLayout(v[k]) /\ LeafLayout(v[x[3]])
            BY <2>1, <5>3, FieldFacts
          <5>5. l \in Nat /\ x[4] \in Nat
            <6>1. /\ l \in 1 .. Len(v[k]) /\ Len(v[k]) \in Nat
                  /\ x[4] \in 1 .. Len(v[x[3]]) /\ Len(v[x[3]]) \in Nat
              BY <4>2, <5>4 DEF LeafLayout
            <6> HIDE DEF v
            <6>2. QED
              BY <6>1
          <5>6. k \in Nat /\ x[3] \in Nat
            BY <5>3
          <5>7. QED
            BY <5>1, <5>5, <5>6 DEF Before
        <4>6. v[x[3]][x[4]].size = e
          BY <3>4, <4>1
        <4>7. CASE Before(k, l, x[3], x[4])
          <5>1. o + z <= u
            BY <2>1, <2>5, <2>6, <4>2, <4>3, <4>7, ScalarsInOrder
          <5>2. QED
            BY <4>4, <5>1
        <4>8. CASE Before(x[3], x[4], k, l)
          <5>1. u + e <= o
            BY <2>1, <2>5, <4>2, <4>3, <4>6, <4>8, ScalarsInOrder
          <5>2. QED
            BY <4>4, <5>1
        <4>9. QED
          BY <4>5, <4>7, <4>8
      <3>12. QED
        BY <3>10, <3>11
    <2>11. QED
      BY <2>4, <2>6, <2>9, <2>10 DEF ReadsAsWritten
  <1>2. QED
    BY <1>1, StaticInvariant, LayoutInvariant, PTL
=============================================================================
