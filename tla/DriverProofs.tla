---------------------------- MODULE DriverProofs ----------------------------
(***************************************************************************)
(* Proofs about Driver, for any sources, jars and command lines: what runs *)
(* of the compiler driver leave in a directory, in whichever order and     *)
(* however they fail.                                                      *)
(***************************************************************************)
EXTENDS Driver, FiniteRecursion, SequenceTheorems, FiniteSetTheorems,
        FunctionTheorems, TLAPS

-----------------------------------------------------------------------------
(* Types *)

(* The names files have. *)
Names == Stems \X Exts

(* A directory. *)
IsDirectory(fs) == DOMAIN fs \subseteq Names /\ \A f \in DOMAIN fs : fs[f] \in Contents

(* The types of all variables, the history included. *)
TypeInv == TypeOK /\ IsDirectory(before)

(* What a command line consists of. *)
LEMMA LineFacts ==
  ASSUME NEW o \in Invocations
  PROVE  /\ o.only \in SUBSET Stages /\ o.class \in ClassNames
         /\ o.inputs \in Seq(Names) /\ o.outfile \in Names /\ o.libs \in Seq(FileName)
         /\ o.dry_run \in BOOLEAN /\ o.keep \in BOOLEAN /\ o.mode \in {"jvm", "cil"}
  <1>1. /\ o.only \in SUBSET Stages /\ o.inputs \in Seq(FileName) /\ o.outfile \in FileName
        /\ o.libs \in Seq(FileName) /\ o.dry_run \in BOOLEAN /\ o.keep \in BOOLEAN
        /\ o.mode \in {"jvm", "cil"}
    BY InvocationAssumption
  <1>2. o.class \in ClassNames
    BY DEF ClassNames
  <1>3. \A f \in FileName : f \in Named => f \in Names
    <2> SUFFICES ASSUME NEW f \in FileName, f \in Named PROVE f \in Names
      OBVIOUS
    <2>1. f = <<f[1], f[2]>>
      BY DEF FileName
    <2>2. f[1] \in Stems /\ f[2] \in Exts
      BY DEF Stems, Exts
    <2>3. QED
      BY <2>1, <2>2 DEF Names
  <1>4. o.outfile \in Named /\ \A i \in DOMAIN o.inputs : o.inputs[i] \in Named
    BY DEF Named, ToSet
  <1>5. o.outfile \in Names
    BY <1>1, <1>3, <1>4
  <1>6. /\ Len(o.inputs) \in Nat /\ DOMAIN o.inputs = 1 .. Len(o.inputs)
        /\ o.inputs \in [1 .. Len(o.inputs) -> FileName]
    BY <1>1, LenProperties
  <1>7. o.inputs \in [1 .. Len(o.inputs) -> Names]
    BY <1>3, <1>4, <1>6
  <1>8. o.inputs \in Seq(Names)
    BY <1>6, <1>7
  <1>9. QED
    BY <1>1, <1>2, <1>5, <1>8

(* filename_change_ext. *)
LEMMA ChangeFacts ==
  ASSUME NEW f \in Names, NEW e \in Exts
  PROVE  Change(f, e) \in Names
  BY DEF Change, Names

(* The names of a full build. *)
LEMMA PartFacts ==
  ASSUME NEW o \in Invocations, NEW e \in Exts
  PROVE  <<o.class, e>> \in Names
  <1>1. o.class \in Stems
    BY LineFacts DEF Stems
  <1>2. QED
    BY <1>1 DEF Names

(* result is map with the entries of new. *)
IsPut(result, map, new) ==
  /\ DOMAIN result = DOMAIN map \cup DOMAIN new
  /\ \A x \in DOMAIN new : result[x] = new[x]
  /\ \A x \in DOMAIN map : x \notin DOMAIN new => result[x] = map[x]

(* What Put returns. *)
LEMMA PutFacts ==
  ASSUME NEW map, NEW new
  PROVE  IsPut(Put(map, new), map, new)
  BY DEF Put, IsPut

(* result is directory fs with file f written. *)
IsWritten(result, fs, f, c) ==
  /\ DOMAIN result = DOMAIN fs \cup {f} /\ result[f] = c
  /\ \A g \in DOMAIN fs : g # f => result[g] = fs[g]

(* What writing a file does to the directory. *)
LEMMA WithFacts ==
  ASSUME NEW f, NEW c
  PROVE  IsWritten(With(f, c), files, f, c)
  <1> DEFINE new == [x \in {f} |-> c]
  <1>1. IsPut(With(f, c), files, new)
    BY PutFacts DEF With
  <1>2. DOMAIN new = {f} /\ new[f] = c
    OBVIOUS
  <1> HIDE DEF new
  <1>3. QED
    BY <1>1, <1>2 DEF IsPut, IsWritten

(* result is directory fs without the files rm. *)
IsRemoved(result, fs, rm) ==
  DOMAIN result = DOMAIN fs \ rm /\ \A g \in DOMAIN result : result[g] = fs[g]

(* What removing files does to it. *)
LEMMA WithoutFacts ==
  ASSUME NEW rm
  PROVE  IsRemoved(Without(rm), files, rm)
  BY DEF Without, IsRemoved

(* A directory stays one when a file is written. *)
LEMMA WriteType ==
  ASSUME NEW fs, IsDirectory(fs), NEW f \in Names, NEW c \in Contents,
         NEW result, IsWritten(result, fs, f, c)
  PROVE  IsDirectory(result)
  BY DEF IsDirectory, IsWritten

(* And when files are removed. *)
LEMMA RemoveType ==
  ASSUME NEW fs, IsDirectory(fs), NEW rm, NEW result, IsRemoved(result, fs, rm)
  PROVE  IsDirectory(result)
  BY DEF IsDirectory, IsRemoved

(* The stages follow each other. *)
LEMMA StageOrder ==
  /\ StepAfter("compile") = "merge" /\ StepAfter("merge") = "options"
  /\ StepAfter("options") = "genasm" /\ StepAfter("genasm") = "link"
  /\ StepAfter("link") = "build" /\ StepAfter("build") = "clean"
  <1>1. /\ DOMAIN Steps = 1 .. 7 /\ Steps[1] = "compile" /\ Steps[2] = "merge"
        /\ Steps[3] = "options" /\ Steps[4] = "genasm" /\ Steps[5] = "link"
        /\ Steps[6] = "build" /\ Steps[7] = "clean"
    BY DEF Steps
  <1>2. \A i \in 1 .. 7 : i = 1 \/ i = 2 \/ i = 3 \/ i = 4 \/ i = 5 \/ i = 6 \/ i = 7
    OBVIOUS
  <1>3. ASSUME NEW k \in 1 .. 6
        PROVE  StepAfter(Steps[k]) = Steps[k + 1]
    <2> DEFINE s == Steps[k]
               c == CHOOSE i \in DOMAIN Steps : Steps[i] = s
    <2>1. k \in DOMAIN Steps /\ Steps[k] = s
      BY <1>1
    <2>2. c \in DOMAIN Steps /\ Steps[c] = s
      BY <2>1
    <2>3. c = k
      BY <1>1, <1>2, <2>2
    <2>4. StepAfter(s) = Steps[1 + c]
      BY DEF StepAfter
    <2>5. 1 + k = k + 1
      OBVIOUS
    <2>6. QED
      BY <2>3, <2>4, <2>5
  <1>4. QED
    <2>1. /\ StepAfter(Steps[1]) = Steps[2] /\ StepAfter(Steps[2]) = Steps[3]
          /\ StepAfter(Steps[3]) = Steps[4] /\ StepAfter(Steps[4]) = Steps[5]
          /\ StepAfter(Steps[5]) = Steps[6] /\ StepAfter(Steps[6]) = Steps[7]
      BY <1>3
    <2>2. QED
      BY <1>1, <2>1


-----------------------------------------------------------------------------
(* The linker *)

(* A set of positions has a greatest element. *)
LEMMA MaxFacts ==
  ASSUME NEW n \in Nat, NEW S, S \subseteq 1 .. n, S # {}
  PROVE  Max(S) \in S /\ \A y \in S : Max(S) >= y
  <1> DEFINE T == {k \in 0 .. n : \A U \in SUBSET (1 .. k) :
                     U # {} => \E x \in U : \A y \in U : x >= y}
  <1>1. 0 \in T
    <2>1. 1 .. 0 = {} /\ 0 \in 0 .. n
      OBVIOUS
    <2>2. QED
      BY <2>1
  <1>2. ASSUME NEW k \in 1 .. n, k - 1 \in T PROVE k \in T
    <2> SUFFICES ASSUME NEW U \in SUBSET (1 .. k), U # {}
                 PROVE  \E x \in U : \A y \in U : x >= y
      OBVIOUS
    <2>1. CASE k \in U
      BY <2>1
    <2>2. CASE k \notin U
      <3>1. U \in SUBSET (1 .. k - 1)
        BY <2>2
      <3>2. QED
        BY <1>2, <3>1
    <2>3. QED
      BY <2>1, <2>2
  <1>3. n \in T
    <2> HIDE DEF T
    <2>1. \A k \in 0 .. n : k \in T
      BY <1>1, <1>2, InductUpTo
    <2>2. QED
      BY <2>1
  <1>4. \E x \in S : \A y \in S : x >= y
    BY <1>3
  <1>5. QED
    BY <1>4 DEF Max

(* jars is a list of readable jars, of which some positions may be left out. *)
IsJarList(jars) ==
  /\ \E n \in Nat : DOMAIN jars \subseteq 1 .. n
  /\ \A i \in DOMAIN jars : jars[i] \in DOMAIN Jars

(* scan_jar: every class read is that of the last jar with it, and is in the order. *)
LEMMA ClassFacts ==
  ASSUME NEW jars, IsJarList(jars)
  PROVE  /\ \A i \in DOMAIN jars : DOMAIN Jars[jars[i]] \subseteq DOMAIN lib_classes(jars)
         /\ \A c \in DOMAIN lib_classes(jars) :
              /\ c \in ToSet(ClassOrder)
              /\ \E i \in DOMAIN jars :
                    /\ c \in DOMAIN Jars[jars[i]] /\ lib_classes(jars)[c] = Jars[jars[i]][c]
                    /\ \A k \in DOMAIN jars : c \in DOMAIN Jars[jars[k]] => i >= k
  <1> DEFINE C == UNION {DOMAIN Jars[jars[i]] : i \in DOMAIN jars}
             S(c) == {i \in DOMAIN jars : c \in DOMAIN Jars[jars[i]]}
  <1>1. /\ DOMAIN lib_classes(jars) = C
        /\ \A c \in C : lib_classes(jars)[c] = Jars[jars[Max(S(c))]][c]
    BY DEF lib_classes
  <1>2. PICK n \in Nat : DOMAIN jars \subseteq 1 .. n
    BY DEF IsJarList
  <1>3. ASSUME NEW c \in C
        PROVE  /\ c \in ToSet(ClassOrder) /\ Max(S(c)) \in S(c)
               /\ \A k \in S(c) : Max(S(c)) >= k
    <2>1. PICK i \in DOMAIN jars : c \in DOMAIN Jars[jars[i]]
      OBVIOUS
    <2>2. jars[i] \in DOMAIN Jars
      BY DEF IsJarList
    <2>3. c \in ToSet(ClassOrder)
      BY <2>1, <2>2, LibraryAssumption
    <2>4. S(c) # {} /\ S(c) \subseteq 1 .. n
      BY <1>2, <2>1
    <2> HIDE DEF S
    <2>5. Max(S(c)) \in S(c) /\ \A k \in S(c) : Max(S(c)) >= k
      BY <2>4, MaxFacts
    <2>6. QED
      BY <2>3, <2>5
  <1>4. \A i \in DOMAIN jars : DOMAIN Jars[jars[i]] \subseteq C
    OBVIOUS
  <1>5. ASSUME NEW c \in C
        PROVE  \E i \in DOMAIN jars :
                 /\ c \in DOMAIN Jars[jars[i]] /\ lib_classes(jars)[c] = Jars[jars[i]][c]
                 /\ \A k \in DOMAIN jars : c \in DOMAIN Jars[jars[k]] => i >= k
    <2>1. PICK m : m = Max(S(c))
      OBVIOUS
    <2>2. m \in S(c) /\ \A k \in S(c) : m >= k
      BY <1>3, <2>1
    <2>3. m \in DOMAIN jars /\ c \in DOMAIN Jars[jars[m]]
      BY <2>2
    <2>4. \A k \in DOMAIN jars : c \in DOMAIN Jars[jars[k]] => m >= k
      BY <2>2
    <2>5. lib_classes(jars)[c] = Jars[jars[m]][c]
      BY <1>1, <2>1
    <2>6. QED
      BY <2>3, <2>4, <2>5
  <1> HIDE DEF C
  <1>6. QED
    BY <1>1, <1>3, <1>4, <1>5

(* buildMethodMap: every symbol goes to a class. *)
LEMMA BuildFacts ==
  ASSUME NEW classes, DOMAIN classes \subseteq ToSet(ClassOrder)
  PROVE  /\ DOMAIN buildMethodMap(classes) = SymbolsOf(classes)
         /\ \A s \in SymbolsOf(classes) : buildMethodMap(classes)[s] \in ToSet(ClassOrder)
  <1> DEFINE S(s) == {i \in DOMAIN ClassOrder : /\ ClassOrder[i] \in DOMAIN classes
                                               /\ s \in classes[ClassOrder[i]]}
  <1>1. /\ DOMAIN buildMethodMap(classes) = SymbolsOf(classes)
        /\ \A s \in SymbolsOf(classes) : buildMethodMap(classes)[s] = ClassOrder[Max(S(s))]
    BY DEF buildMethodMap
  <1>2. ASSUME NEW s \in SymbolsOf(classes)
        PROVE  ClassOrder[Max(S(s))] \in ToSet(ClassOrder)
    <2>1. PICK c \in DOMAIN classes : s \in classes[c]
      BY DEF SymbolsOf
    <2>2. PICK i \in DOMAIN ClassOrder : ClassOrder[i] = c
      BY DEF ToSet
    <2>3. Len(ClassOrder) \in Nat /\ DOMAIN ClassOrder = 1 .. Len(ClassOrder)
      BY LibraryAssumption, LenProperties
    <2>4. S(s) \subseteq 1 .. Len(ClassOrder) /\ S(s) # {} /\ S(s) \subseteq DOMAIN ClassOrder
      BY <2>1, <2>2, <2>3
    <2> HIDE DEF S
    <2>5. Max(S(s)) \in S(s)
      BY <2>3, <2>4, MaxFacts
    <2>6. QED
      BY <2>4, <2>5 DEF ToSet
  <1>3. QED
    BY <1>1, <1>2

(* units is a list of the .j libraries a link has read. *)
IsUnitList(units) ==
  /\ \E n \in Nat : DOMAIN units \subseteq 1 .. n
  /\ \A i \in DOMAIN units : units[i].class \in ToSet(ClassOrder)

(* What .j libraries define. *)
UnitSymbols(units) == UNION {units[i].defines : i \in DOMAIN units}

(* scan_jasmin: every symbol goes to the class of a library that defines it. *)
LEMMA ScanFrom ==
  ASSUME NEW n \in Nat, NEW units, DOMAIN units \subseteq 1 .. n
  PROVE  /\ DOMAIN scan_jasmin(units) = UnitSymbols(units)
         /\ \A s \in UnitSymbols(units) : \E i \in DOMAIN units :
              s \in units[i].defines /\ scan_jasmin(units)[s] = units[i].class
  <1> DEFINE S(s) == {i \in DOMAIN units : s \in units[i].defines}
  <1>1. /\ DOMAIN scan_jasmin(units) = UnitSymbols(units)
        /\ \A s \in UnitSymbols(units) : scan_jasmin(units)[s] = units[Max(S(s))].class
    BY DEF scan_jasmin, UnitSymbols
  <1>2. ASSUME NEW s \in UnitSymbols(units)
        PROVE  \E i \in DOMAIN units : s \in units[i].defines /\ scan_jasmin(units)[s] = units[i].class
    <2>1. PICK m : m = Max(S(s))
      OBVIOUS
    <2>2. S(s) # {} /\ S(s) \subseteq 1 .. n
      BY DEF UnitSymbols
    <2>3. m \in S(s)
      <3> HIDE DEF S
      <3>1. QED
        BY <2>1, <2>2, MaxFacts
    <2>4. scan_jasmin(units)[s] = units[m].class
      BY <1>1, <2>1
    <2>5. QED
      BY <2>3, <2>4
  <1>3. QED
    BY <1>1, <1>2

(* It is a class in the order. *)
LEMMA ScanFacts ==
  ASSUME NEW units, IsUnitList(units)
  PROVE  /\ DOMAIN scan_jasmin(units) = UnitSymbols(units)
         /\ \A s \in UnitSymbols(units) : scan_jasmin(units)[s] \in ToSet(ClassOrder)
  BY ScanFrom DEF IsUnitList

(* What a link can resolve, and to what. *)
LEMMA MapFacts ==
  ASSUME NEW jars, IsJarList(jars), NEW units, IsUnitList(units)
  PROVE  LET map == method_map(jars, units) IN
         /\ DOMAIN map = UnitSymbols(units) \cup SymbolsOf(lib_classes(jars))
         /\ \A s \in DOMAIN map : map[s] \in ToSet(ClassOrder)
  <1> DEFINE old == scan_jasmin(units)
             new == buildMethodMap(lib_classes(jars))
             map == method_map(jars, units)
  <1>1. IsPut(map, old, new)
    BY PutFacts DEF method_map
  <1>2. DOMAIN lib_classes(jars) \subseteq ToSet(ClassOrder)
    BY ClassFacts
  <1>3. /\ DOMAIN new = SymbolsOf(lib_classes(jars))
        /\ \A s \in DOMAIN new : new[s] \in ToSet(ClassOrder)
    BY <1>2, BuildFacts
  <1>4. DOMAIN old = UnitSymbols(units) /\ \A s \in DOMAIN old : old[s] \in ToSet(ClassOrder)
    BY ScanFacts
  <1> HIDE DEF old, new, map
  <1>5. /\ DOMAIN map = UnitSymbols(units) \cup SymbolsOf(lib_classes(jars))
        /\ \A s \in DOMAIN map : map[s] \in ToSet(ClassOrder)
    BY <1>1, <1>3, <1>4 DEF IsPut
  <1>6. QED
    BY <1>5 DEF map


(* The orders of a finite set list each element. *)
LEMMA OrderFacts ==
  ASSUME NEW S, IsFiniteSet(S), NEW order \in SetToSeqs(S)
  PROVE  LET n == Cardinality(S) IN
         /\ n \in Nat /\ order \in [1 .. n -> S] /\ Len(order) = n
         /\ \A x \in S : \E i \in 1 .. n : order[i] = x
  <1> DEFINE n == Cardinality(S)
  <1>1. n \in Nat
    BY FS_CardinalityType
  <1>2. order \in [1 .. n -> S] /\ \A i, j \in 1 .. n : i # j => order[i] # order[j]
    BY DEF SetToSeqs
  <1>3. Len(order) = n
    BY <1>1, <1>2
  <1>4. order \in Injection(1 .. n, S)
    BY <1>2, Fun_IsInj
  <1>5. IsFiniteSet(1 .. n) /\ Cardinality(1 .. n) = n
    <2>1. 1 \in Int /\ n \in Int /\ (1 > n => n = 0) /\ n - 1 + 1 = n
      BY <1>1
    <2>2. QED
      BY <2>1, FS_Interval
  <1>6. order \in Surjection(1 .. n, S)
    BY <1>4, <1>5, FS_Injection
  <1>7. QED
    BY <1>1, <1>2, <1>3, <1>6, Fun_SurjectionProperties

(* What jars lists. *)
Listed(jars) == {jars[i] : i \in DOMAIN jars}

(* scan_dir: the jars of a directory, each at a position. *)
LEMMA DirFacts ==
  ASSUME NEW dir, NEW o \in DirOrders(dir)
  PROVE  /\ Len(o) \in Nat /\ DOMAIN o = 1 .. Len(o)
         /\ Listed(o) = IF dir \in DOMAIN Dirs THEN Dirs[dir] ELSE {}
  <1>1. CASE dir \in DOMAIN Dirs
    <2>1. IsFiniteSet(Dirs[dir]) /\ o \in SetToSeqs(Dirs[dir])
      BY <1>1, LibraryAssumption DEF DirOrders
    <2>2. /\ Cardinality(Dirs[dir]) \in Nat /\ Len(o) = Cardinality(Dirs[dir])
          /\ o \in [1 .. Len(o) -> Dirs[dir]]
          /\ \A x \in Dirs[dir] : \E i \in 1 .. Len(o) : o[i] = x
      BY <2>1, OrderFacts
    <2>3. QED
      BY <1>1, <2>2 DEF Listed
  <1>2. CASE dir \notin DOMAIN Dirs
    <2>1. o = << >>
      BY <1>2 DEF DirOrders
    <2>2. Len(o) = 0 /\ DOMAIN o = {} /\ 1 .. 0 = {}
      BY <2>1
    <2>3. QED
      BY <1>2, <2>2 DEF Listed
  <1>3. QED
    BY <1>1, <1>2

(* The jars of a link. *)
LEMMA JarFacts ==
  ASSUME opts \in Invocations, NEW jars \in JarOrders(opts.dir, JarsNamed)
  PROVE  (\E n \in Nat : DOMAIN jars \subseteq 1 .. n) /\ Listed(jars) = ReadJars
  <1> DEFINE L == JarsNamed
  <1>1. PICK o \in DirOrders(opts.dir) : jars = ReadAfter(o, L)
    BY DEF JarOrders
  <1> DEFINE n == Len(o)
             m == Len(opts.libs)
  <1>2. /\ n \in Nat /\ DOMAIN o = 1 .. n
        /\ Listed(o) = IF opts.dir \in DOMAIN Dirs THEN Dirs[opts.dir] ELSE {}
    BY DirFacts
  <1>3. m \in Nat /\ DOMAIN opts.libs = 1 .. m
    BY LineFacts, LenProperties
  <1>4. DOMAIN L \subseteq 1 .. m
    BY <1>3 DEF JarsNamed
  <1> HIDE DEF L, n, m
  <1>5. /\ DOMAIN jars = DOMAIN o \cup {n + k : k \in DOMAIN L}
        /\ \A i \in DOMAIN jars : jars[i] = IF i \in DOMAIN o THEN o[i] ELSE L[i - n]
    BY <1>1 DEF ReadAfter, n
  <1>6. \A k \in DOMAIN L : n + k \notin DOMAIN o /\ (n + k) - n = k /\ n + k \in 1 .. n + m
    BY <1>2, <1>3, <1>4
  <1>7. DOMAIN jars \subseteq 1 .. n + m /\ n + m \in Nat
    BY <1>2, <1>3, <1>5, <1>6
  <1>8. \A k \in DOMAIN L : n + k \in DOMAIN jars /\ jars[n + k] = L[k]
    BY <1>5, <1>6
  <1>9. \A i \in DOMAIN o : i \in DOMAIN jars /\ jars[i] = o[i]
    BY <1>5
  <1>10. \A i \in DOMAIN jars : i \in DOMAIN o \/ \E k \in DOMAIN L : i = n + k
    BY <1>5
  <1>11. Listed(jars) = Listed(o) \cup ToSet(L)
    BY <1>8, <1>9, <1>10 DEF Listed, ToSet
  <1>12. QED
    BY <1>2, <1>7, <1>11 DEF ReadJars, L

(* The jars named are readable unless the libraries are refused. *)
LEMMA NamedReadable ==
  ASSUME opts \in Invocations, NEW in, NEW out, ~LibraryRefused(in, out)
  PROVE  ReadJars \subseteq DOMAIN Jars
  <1>1. \A i \in DOMAIN opts.libs : Ext(opts.libs[i]) = ".jar" => opts.libs[i][1] \in DOMAIN Jars
    BY DEF LibraryRefused
  <1>2. ToSet(JarsNamed) \subseteq DOMAIN Jars
    BY <1>1 DEF JarsNamed, ToSet
  <1>3. QED
    BY <1>2, LibraryAssumption DEF ReadJars

(* A link that is not refused has readable jars and classes. *)
LEMMA LinkLists ==
  ASSUME TypeOK, NEW in, NEW out, ~LibraryRefused(in, out),
         NEW jars \in JarOrders(opts.dir, JarsNamed)
  PROVE  IsJarList(jars) /\ IsUnitList(LinkUnits(in, out))
  <1>1. opts \in Invocations
    BY DEF TypeOK
  <1>2. IsJarList(jars)
    <2>1. (\E n \in Nat : DOMAIN jars \subseteq 1 .. n) /\ Listed(jars) = ReadJars
      BY <1>1, JarFacts
    <2>2. ReadJars \subseteq DOMAIN Jars
      BY <1>1, NamedReadable
    <2>3. QED
      BY <2>1, <2>2 DEF IsJarList, Listed
  <1>3. IsUnitList(LinkUnits(in, out))
    <2> DEFINE K == {k \in DOMAIN opts.libs : Ext(opts.libs[k]) = ".j" /\ opts.libs[k] \notin {in, out}}
               units == LinkUnits(in, out)
    <2>1. /\ DOMAIN units = K
          /\ \A i \in K : units[i].class = files[opts.libs[i]].class
      BY DEF LinkUnits
    <2>2. Len(opts.libs) \in Nat /\ DOMAIN opts.libs = 1 .. Len(opts.libs)
      BY <1>1, LineFacts, LenProperties
    <2>3. ASSUME NEW i \in K
          PROVE  files[opts.libs[i]].class \in ToSet(ClassOrder)
      <3>1. opts.libs[i] \in DOMAIN files /\ files[opts.libs[i]].class # None
        BY DEF LibraryRefused
      <3>2. files[opts.libs[i]] \in Contents
        BY <3>1 DEF TypeOK
      <3>3. files[opts.libs[i]].class \in ClassNames \cup {None}
        BY <3>2 DEF Contents
      <3>4. QED
        BY <3>1, <3>3, InvocationAssumption
    <2> HIDE DEF units
    <2>4. IsUnitList(units)
      BY <2>1, <2>2, <2>3 DEF IsUnitList
    <2>5. QED
      BY <2>4 DEF units
  <1>4. QED
    BY <1>2, <1>3


-----------------------------------------------------------------------------
(* Type correctness *)

(* The types of the variables that are not files or options. *)
ControlType ==
  /\ pc \in {"idle"} \cup ToSet(Steps) /\ retval \in {-1, 0, 1}
  /\ input_files \in Seq(Names) /\ output_files \in Seq(Names) /\ temp_files \in Seq(Names)

(* The parts of the type invariant. *)
LEMMA TypeParts ==
  TypeInv <=> IsDirectory(files) /\ IsDirectory(before) /\ ControlType /\ opts \in Invocations
  BY DEF TypeInv, TypeOK, IsDirectory, ControlType, Names

(* The same in the next state. *)
LEMMA TypePartsNext ==
  TypeInv' <=> (IsDirectory(files) /\ IsDirectory(before) /\ ControlType /\ opts \in Invocations)'
  BY DEF TypeInv, TypeOK, IsDirectory, ControlType, Names

(* The stages, as a set. *)
LEMMA StepSet ==
  ToSet(Steps) = {"compile", "merge", "options", "genasm", "link", "build", "clean"}
  <1>1. /\ DOMAIN Steps = 1 .. 7 /\ Steps[1] = "compile" /\ Steps[2] = "merge"
        /\ Steps[3] = "options" /\ Steps[4] = "genasm" /\ Steps[5] = "link"
        /\ Steps[6] = "build" /\ Steps[7] = "clean"
    BY DEF Steps
  <1>2. \A i \in 1 .. 7 : i = 1 \/ i = 2 \/ i = 3 \/ i = 4 \/ i = 5 \/ i = 6 \/ i = 7
    OBVIOUS
  <1>3. 1 \in 1 .. 7 /\ 2 \in 1 .. 7 /\ 3 \in 1 .. 7 /\ 4 \in 1 .. 7 /\ 5 \in 1 .. 7
        /\ 6 \in 1 .. 7 /\ 7 \in 1 .. 7
    OBVIOUS
  <1>4. QED
    BY <1>1, <1>2, <1>3 DEF ToSet

(* A run that ends keeps the types. *)
LEMMA ExitType ==
  ASSUME NEW rc \in {-1, 0, 1}, Exit(rc)
  PROVE  ControlType'
  BY DEF Exit, ControlType

(* So does a stage that hands on files. *)
LEMMA AfterStepType ==
  ASSUME ControlType, pc \in Stages, NEW outs \in Seq(Names), NEW temps \in Seq(Names),
         AfterStep(outs, temps)
  PROVE  ControlType' /\ opts' = opts /\ before' = before
  <1>1. opts' = opts /\ before' = before
    BY DEF AfterStep, config
  <1>2. CASE pc \in opts.only
    <2>1. Exit(0)
      BY <1>2 DEF AfterStep
    <2>2. QED
      BY <1>1, <2>1, ExitType
  <1>3. CASE pc \notin opts.only
    <2>1. /\ pc' = StepAfter(pc) /\ input_files' = outs /\ output_files' = << >>
          /\ temp_files' = temps /\ retval' = retval
      BY <1>3 DEF AfterStep
    <2>2. StepAfter(pc) \in ToSet(Steps)
      BY StageOrder, StepSet DEF Stages
    <2>3. << >> \in Seq(Names)
      OBVIOUS
    <2>4. QED
      BY <1>1, <2>1, <2>2, <2>3 DEF ControlType
  <1>4. QED
    BY <1>2, <1>3

(* A run that fails. *)
LEMMA FailStepType ==
  ASSUME FailStep
  PROVE  ControlType' /\ opts' = opts /\ before' = before
  BY ExitType DEF FailStep, config

(* What a compiler stage writes. *)
LEMMA MadeType ==
  ASSUME NEW from, from \subseteq Sources \X (1 .. MaxVersion),
         NEW class \in ClassNames \cup {None}
  PROVE  Made(from, class, NoMap) \in Contents
  <1>1. NoMap \in [{} -> ToSet(ClassOrder)]
    BY DEF NoMap
  <1>2. NoMap \in UNION {[S -> ToSet(ClassOrder)] : S \in SUBSET Symbols}
    <2>1. {} \in SUBSET Symbols
      OBVIOUS
    <2>2. QED
      BY <1>1, <2>1
  <1> DEFINE R == UNION {[S -> ToSet(ClassOrder)] : S \in SUBSET Symbols}
  <1> HIDE DEF R
  <1>3. Made(from, class, NoMap) \in
          [from : SUBSET (Sources \X (1 .. MaxVersion)), class : ClassNames \cup {None}, refs : R]
    BY <1>2 DEF Made, R
  <1>4. QED
    BY <1>3 DEF Contents, R

(* An unfinished file. *)
LEMMA NoTextType == NoText \in Contents
  BY MadeType DEF NoText

(* The fields of contents. *)
LEMMA ContentFields ==
  ASSUME NEW c \in Contents
  PROVE  c.from \subseteq Sources \X (1 .. MaxVersion) /\ c.class \in ClassNames \cup {None}
  BY DEF Contents

(* A file refers to symbols. *)
LEMMA ExternsFacts ==
  ASSUME NEW c \in Contents
  PROVE  ExternsOf(c) \subseteq Symbols
  <1>1. \A v \in c.from : v[1] \in Sources
    BY ContentFields
  <1>2. QED
    BY <1>1 DEF ExternsOf, Symbols

(* What a link writes. *)
LEMMA LinkedType ==
  ASSUME NEW text \in Contents, NEW map, \A s \in DOMAIN map : map[s] \in ToSet(ClassOrder)
  PROVE  LET c == [text EXCEPT !.refs = linkStatic(ExternsOf(text), map).refs] IN
         /\ c \in Contents /\ c.from = text.from /\ c.class = text.class
         /\ DOMAIN c.refs = ExternsOf(text) \cap DOMAIN map
  <1> DEFINE S == ExternsOf(text) \cap DOMAIN map
             r == [s \in S |-> map[s]]
             R == UNION {[U -> ToSet(ClassOrder)] : U \in SUBSET Symbols}
             c == [text EXCEPT !.refs = r]
  <1>1. linkStatic(ExternsOf(text), map).refs = r
    BY DEF linkStatic
  <1>2. r \in [S -> ToSet(ClassOrder)] /\ S \in SUBSET Symbols /\ DOMAIN r = S
    BY ExternsFacts
  <1>3. r \in R
    <2> HIDE DEF r, S
    <2>1. QED
      BY <1>2
  <1> HIDE DEF r, R
  <1>4. text \in [from : SUBSET (Sources \X (1 .. MaxVersion)), class : ClassNames \cup {None}, refs : R]
    BY DEF Contents, R
  <1>5. /\ c \in [from : SUBSET (Sources \X (1 .. MaxVersion)), class : ClassNames \cup {None}, refs : R]
        /\ c.from = text.from /\ c.class = text.class /\ c.refs = r
    BY <1>3, <1>4
  <1>6. c \in Contents
    BY <1>5 DEF Contents, R
  <1>7. DOMAIN c.refs = S
    BY <1>2, <1>5
  <1>8. QED
    BY <1>1, <1>5, <1>6, <1>7


(* The extensions of the stages are extensions of files. *)
LEMMA ExtFacts ==
  /\ ".c" \in Exts /\ ".bc" \in Exts /\ ".plj" \in Exts /\ ".plil" \in Exts
  /\ ".j" \in Exts /\ ".class" \in Exts
  BY DEF Exts

(* What a directory is after a file is written. *)
LEMMA WriteFiles ==
  ASSUME IsDirectory(files), NEW f \in Names, NEW c \in Contents, files' = With(f, c)
  PROVE  IsDirectory(files)'
  <1>1. IsWritten(files', files, f, c)
    BY WithFacts
  <1>2. IsDirectory(files')
    BY <1>1, WriteType
  <1>3. QED
    BY <1>2 DEF IsDirectory

(* And after files are removed. *)
LEMMA RemoveFiles ==
  ASSUME IsDirectory(files), NEW rm, files' = Without(rm)
  PROVE  IsDirectory(files)'
  <1>1. IsRemoved(files', files, rm)
    BY WithoutFacts
  <1>2. IsDirectory(files')
    BY <1>1, RemoveType
  <1>3. QED
    BY <1>2 DEF IsDirectory

(* And unchanged. *)
LEMMA KeepFiles ==
  ASSUME IsDirectory(files), files' = files
  PROVE  IsDirectory(files)'
  BY DEF IsDirectory

(* The history of a run stays. *)
LEMMA KeepBefore ==
  ASSUME TypeInv, before' = before, opts' = opts, IsDirectory(files)', ControlType'
  PROVE  TypeInv'
  <1>1. IsDirectory(before) /\ opts \in Invocations
    BY TypeParts
  <1>2. IsDirectory(before)'
    BY <1>1 DEF IsDirectory
  <1>3. QED
    BY <1>1, <1>2, TypePartsNext

(* TempIfAll, for a file. *)
LEMMA TempType ==
  ASSUME ControlType, NEW f \in Names
  PROVE  TempIfAll(f) \in Seq(Names)
  BY AppendProperties DEF TempIfAll, ControlType

(* A user's edit. *)
LEMMA EditType ==
  ASSUME TypeInv, NEW s \in Edited, EditSource(s)
  PROVE  TypeInv'
  <1>1. IsDirectory(files) /\ ControlType /\ opts \in Invocations
    BY TypeParts
  <1>2. PICK v \in 1 .. MaxVersion - 1 :
          files' = With(<<s, ".c">>, Made({<<s, v + 1>>}, None, NoMap)) /\ before' = files'
    BY DEF EditSource
  <1>3. s \in Sources /\ v + 1 \in 1 .. MaxVersion
    BY SourceAssumption
  <1>4. <<s, ".c">> \in Names
    BY <1>3, ExtFacts DEF Names, Stems
  <1>5. Made({<<s, v + 1>>}, None, NoMap) \in Contents
    BY <1>3, MadeType
  <1>6. IsDirectory(files)'
    BY <1>1, <1>2, <1>4, <1>5, WriteFiles
  <1>7. IsDirectory(before)'
    BY <1>2, <1>6 DEF IsDirectory
  <1>8. pc' = pc /\ opts' = opts /\ input_files' = input_files /\ output_files' = output_files
        /\ temp_files' = temp_files /\ retval' = -1
    BY DEF EditSource, lists
  <1>9. ControlType'
    BY <1>1, <1>8 DEF ControlType
  <1>10. QED
    BY <1>1, <1>6, <1>7, <1>8, <1>9, TypePartsNext

(* The start of a run. *)
LEMMA InvokeType ==
  ASSUME TypeInv, NEW o \in Invocations, Invoke(o)
  PROVE  TypeInv'
  <1>1. IsDirectory(files) /\ ControlType
    BY TypeParts
  <1>2. opts' = o /\ before' = files /\ files' = files
    BY DEF Invoke
  <1>3. IsDirectory(files)' /\ IsDirectory(before)'
    BY <1>1, <1>2 DEF IsDirectory
  <1>4. ControlType'
    <2>1. CASE Refused(o)
      BY <2>1, ExitType DEF Invoke
    <2>2. CASE ~Refused(o)
      <3>1. pc' = "compile" /\ retval' = 0 /\ input_files' = o.inputs
            /\ output_files' = << >> /\ temp_files' = << >>
        BY <2>2 DEF Invoke
      <3>2. o.inputs \in Seq(Names) /\ << >> \in Seq(Names)
        BY LineFacts
      <3>3. QED
        BY <3>1, <3>2, StepSet DEF ControlType
    <2>3. QED
      BY <2>1, <2>2
  <1>5. QED
    BY <1>2, <1>3, <1>4, TypePartsNext

(* A stage that is passed over. *)
LEMMA SkipType ==
  ASSUME TypeInv, Skip
  PROVE  TypeInv'
  <1>1. IsDirectory(files) /\ ControlType
    BY TypeParts
  <1>2. /\ files' = files /\ input_files' = input_files /\ output_files' = output_files
        /\ temp_files' = temp_files /\ retval' = retval /\ opts' = opts /\ before' = before
        /\ pc \in Stages /\ pc' = StepAfter(pc)
    BY DEF Skip, lists, config
  <1>3. pc' \in ToSet(Steps)
    BY <1>2, StageOrder, StepSet DEF Stages
  <1>4. ControlType'
    BY <1>1, <1>2, <1>3 DEF ControlType
  <1>5. QED
    BY <1>1, <1>2, <1>4, KeepFiles, KeepBefore

(* The file do_compile reads and the one it writes. *)
LEMMA CompileNames ==
  ASSUME TypeInv, CompileNext
  PROVE  LET f == input_files[Len(output_files) + 1] IN
         /\ Len(output_files) \in Nat /\ Len(output_files) + 1 \in DOMAIN input_files
         /\ f \in Names /\ CompileOutput(f) \in Names
  <1>1. ControlType /\ opts \in Invocations
    BY TypeParts
  <1>2. /\ Len(input_files) \in Nat /\ Len(output_files) \in Nat
        /\ DOMAIN input_files = 1 .. Len(input_files)
        /\ \A i \in 1 .. Len(input_files) : input_files[i] \in Names
    BY <1>1, LenProperties, ElementOfSeq DEF ControlType
  <1>3. Len(output_files) + 1 \in 1 .. Len(input_files)
    BY <1>2 DEF CompileNext
  <1>4. opts.outfile \in Names
    BY <1>1, LineFacts
  <1>5. \A f \in Names : CompileOutput(f) \in Names
    BY <1>4, ChangeFacts, ExtFacts DEF CompileOutput
  <1>6. QED
    BY <1>2, <1>3, <1>5

(* do_compile, one file. *)
LEMMA CompileNextType ==
  ASSUME TypeInv, CompileNext
  PROVE  TypeInv'
  <1> DEFINE f == input_files[Len(output_files) + 1]
             out == CompileOutput(f)
  <1>1. IsDirectory(files) /\ ControlType
    BY TypeParts
  <1>2. f \in Names /\ out \in Names
    BY CompileNames
  <1>3. \/ /\ IF Dry THEN UNCHANGED files ELSE f \in DOMAIN files /\ files' = Compiled(f, out)
           /\ output_files' = Append(output_files, out)
           /\ temp_files' = TempIfAll(out)
           /\ UNCHANGED <<pc, input_files, retval, config>>
        \/ FailStep /\ files' \in {files, Without({out})}
    BY Zenon DEF CompileNext
  <1> HIDE DEF f, out
  <1>4. CASE /\ IF Dry THEN UNCHANGED files ELSE f \in DOMAIN files /\ files' = Compiled(f, out)
             /\ output_files' = Append(output_files, out)
             /\ temp_files' = TempIfAll(out)
             /\ UNCHANGED <<pc, input_files, retval, config>>
    <2>1. IsDirectory(files)'
      <3>1. CASE files' = files
        BY <1>1, <3>1, KeepFiles
      <3>2. CASE f \in DOMAIN files /\ files' = Compiled(f, out)
        <4>1. files[f] \in Contents
          BY <1>1, <3>2 DEF IsDirectory
        <4>2. QED
          BY <1>1, <1>2, <3>2, <4>1, WriteFiles DEF Compiled
      <3>3. QED
        BY <1>4, <3>1, <3>2
    <2>2. ControlType'
      <3>1. output_files' \in Seq(Names)
        BY <1>1, <1>2, <1>4, AppendProperties DEF ControlType
      <3>2. temp_files' \in Seq(Names)
        BY <1>1, <1>2, <1>4, TempType
      <3>3. QED
        BY <1>1, <1>4, <3>1, <3>2 DEF ControlType
    <2>3. opts' = opts /\ before' = before
      BY <1>4 DEF config
    <2>4. QED
      BY <2>1, <2>2, <2>3, KeepBefore
  <1>5. CASE FailStep /\ files' \in {files, Without({out})}
    <2>1. IsDirectory(files)'
      BY <1>1, <1>5, KeepFiles, RemoveFiles
    <2>2. QED
      BY <1>5, <2>1, FailStepType, KeepBefore
  <1>6. QED
    BY <1>3, <1>4, <1>5


(* The end of the compilations. *)
LEMMA CompileDoneType ==
  ASSUME TypeInv, CompileDone
  PROVE  TypeInv'
  <1>1. IsDirectory(files) /\ ControlType
    BY TypeParts
  <1>2. /\ files' = files /\ pc \in Stages /\ AfterStep(output_files, temp_files)
        /\ output_files \in Seq(Names) /\ temp_files \in Seq(Names)
    BY <1>1 DEF CompileDone, Stages, ControlType
  <1>3. QED
    BY <1>1, <1>2, AfterStepType, KeepFiles, KeepBefore

(* What do_merge_bc can do. *)
LEMMA MergeCases ==
  ASSUME Merge
  PROVE  /\ pc = "merge" /\ Runs(pc)
         /\ \/ /\ ~MergeRefused /\ Dry /\ files' = files
               /\ AfterStep(<<MergeOutput>>, temp_files)
            \/ /\ ~MergeRefused /\ ~Dry
               /\ input_files # << >> /\ ToSet(input_files) \subseteq DOMAIN files
               /\ files' = With(MergeOutput,
                           Made(UNION {files[f].from : f \in ToSet(input_files)}, None, NoMap))
               /\ AfterStep(<<MergeOutput>>, temp_files)
            \/ FailStep /\ files' = files
  BY Zenon DEF Merge

(* The merged file. *)
LEMMA MergeNames ==
  ASSUME opts \in Invocations
  PROVE  MergeOutput \in Names /\ <<MergeOutput>> \in Seq(Names)
  <1>1. opts.outfile \in Names /\ <<opts.class, ".bc">> \in Names
    BY LineFacts, PartFacts, ExtFacts
  <1>2. MergeOutput \in Names
    BY <1>1 DEF MergeOutput
  <1>3. QED
    BY <1>2

(* Merged contents. *)
LEMMA MergedType ==
  ASSUME IsDirectory(files), NEW F, F \subseteq DOMAIN files
  PROVE  Made(UNION {files[f].from : f \in F}, None, NoMap) \in Contents
  <1>1. \A f \in F : files[f].from \subseteq Sources \X (1 .. MaxVersion)
    BY ContentFields DEF IsDirectory
  <1> DEFINE U == UNION {files[f].from : f \in F}
  <1>2. U \subseteq Sources \X (1 .. MaxVersion)
    BY <1>1
  <1> HIDE DEF U
  <1>3. Made(U, None, NoMap) \in Contents
    BY <1>2, MadeType
  <1>4. QED
    BY <1>3 DEF U

(* do_merge_bc. *)
LEMMA MergeType ==
  ASSUME TypeInv, Merge
  PROVE  TypeInv'
  <1>1. IsDirectory(files) /\ ControlType /\ opts \in Invocations
    BY TypeParts
  <1>2. MergeOutput \in Names /\ <<MergeOutput>> \in Seq(Names) /\ temp_files \in Seq(Names)
    BY <1>1, MergeNames DEF ControlType
  <1>3. pc \in Stages
    BY MergeCases DEF Stages
  <1>4. ASSUME AfterStep(<<MergeOutput>>, temp_files)
        PROVE  ControlType' /\ opts' = opts /\ before' = before
    BY <1>1, <1>2, <1>3, <1>4, AfterStepType
  <1>5. IsDirectory(files)'
    <2>1. CASE files' = files
      BY <1>1, <2>1, KeepFiles
    <2>2. CASE /\ ToSet(input_files) \subseteq DOMAIN files
               /\ files' = With(MergeOutput,
                    Made(UNION {files[f].from : f \in ToSet(input_files)}, None, NoMap))
      <3>1. PICK c : c = Made(UNION {files[f].from : f \in ToSet(input_files)}, None, NoMap)
        OBVIOUS
      <3>2. c \in Contents
        BY <1>1, <2>2, <3>1, MergedType
      <3>3. files' = With(MergeOutput, c)
        BY <2>2, <3>1
      <3>4. QED
        BY <1>1, <1>2, <3>2, <3>3, WriteFiles
    <2>3. QED
      BY <2>1, <2>2, MergeCases
  <1>6. ControlType' /\ opts' = opts /\ before' = before
    BY <1>4, FailStepType, MergeCases
  <1>7. QED
    BY <1>5, <1>6, KeepBefore

(* The check of the options. *)
LEMMA OptionsType ==
  ASSUME TypeInv, CheckOptions
  PROVE  TypeInv'
  <1>1. IsDirectory(files) /\ ControlType
    BY TypeParts
  <1>2. files' = files /\ opts' = opts /\ before' = before /\ pc = "options"
    BY DEF CheckOptions, config
  <1>3. ControlType'
    <2>1. CASE Exit(-1)
      BY <2>1, ExitType
    <2>2. CASE pc' = StepAfter(pc) /\ UNCHANGED <<retval, lists>>
      <3>1. pc' \in ToSet(Steps)
        BY <1>2, <2>2, StageOrder, StepSet
      <3>2. QED
        BY <1>1, <2>2, <3>1 DEF ControlType, lists
    <2>3. QED
      BY <2>1, <2>2 DEF CheckOptions
  <1>4. QED
    BY <1>1, <1>2, <1>3, KeepFiles, KeepBefore

(* What generateAsm makes of a file. *)
AsmOf(in) == Change(in, IF opts.mode = "jvm" THEN ".plj" ELSE ".plil")

(* What generateAsm can do. *)
LEMMA AsmCases ==
  ASSUME GenerateAsm
  PROVE  LET in == input_files[1] IN
         /\ pc = "genasm" /\ Runs(pc)
         /\ \/ /\ Len(input_files) = 1 /\ Ext(in) \in {".bc", ".ll"}
               /\ \/ Dry /\ files' = files
                  \/ /\ ~Dry /\ in \in DOMAIN files
                     /\ files' = With(AsmOf(in), Made(files[in].from, opts.class, NoMap))
               /\ AfterStep(<<AsmOf(in)>>, TempIfAll(AsmOf(in)))
            \/ FailStep /\ files' = files
            \/ /\ Len(input_files) = 1 /\ Ext(in) \in {".bc", ".ll"} /\ ~Dry
               /\ in \in DOMAIN files /\ FailStep
               /\ \E text \in Unfinished(in) : files' = With(AsmOf(in), text)
  BY Zenon DEF GenerateAsm, AsmOf

(* The one file of an assembler stage. *)
LEMMA OneInput ==
  ASSUME ControlType, Len(input_files) = 1
  PROVE  /\ input_files[1] \in Names /\ input_files = <<input_files[1]>>
         /\ ToSet(input_files) = {input_files[1]}
  BY DEF ControlType, ToSet

(* What the backend leaves of a text that it does not finish. *)
LEMMA UnfinishedType ==
  ASSUME IsDirectory(files), opts \in Invocations, NEW in \in DOMAIN files
  PROVE  Unfinished(in) \subseteq Contents
  <1>1. files[in].from \subseteq Sources \X (1 .. MaxVersion)
    BY ContentFields DEF IsDirectory
  <1>2. opts.class \in ClassNames \cup {None}
    BY LineFacts
  <1>3. \A from \in {{}, files[in].from} : Made(from, opts.class, NoMap) \in Contents
    BY <1>1, <1>2, MadeType
  <1>4. QED
    BY <1>3, NoTextType DEF Unfinished

(* generateAsm. *)
LEMMA AsmType ==
  ASSUME TypeInv, GenerateAsm
  PROVE  TypeInv'
  <1> DEFINE in == input_files[1]
             out == AsmOf(in)
  <1>1. IsDirectory(files) /\ ControlType /\ opts \in Invocations
    BY TypeParts
  <1>2. /\ pc \in Stages
        /\ \/ /\ Len(input_files) = 1
              /\ \/ files' = files
                 \/ in \in DOMAIN files /\ files' = With(out, Made(files[in].from, opts.class, NoMap))
              /\ AfterStep(<<out>>, TempIfAll(out))
           \/ FailStep /\ files' = files
           \/ /\ Len(input_files) = 1 /\ FailStep
              /\ \E text \in Contents : files' = With(out, text)
    BY <1>1, AsmCases, UnfinishedType DEF Stages
  <1>3. Len(input_files) = 1 => out \in Names
    BY <1>1, OneInput, ChangeFacts, ExtFacts DEF AsmOf
  <1> HIDE DEF in, out
  <1>4. CASE FailStep
    <2>1. IsDirectory(files)'
      BY <1>1, <1>2, <1>3, <1>4, KeepFiles, WriteFiles DEF FailStep, AfterStep, Exit
    <2>2. QED
      BY <1>4, <2>1, FailStepType, KeepBefore
  <1>5. CASE /\ Len(input_files) = 1
             /\ \/ files' = files
                \/ in \in DOMAIN files /\ files' = With(out, Made(files[in].from, opts.class, NoMap))
             /\ AfterStep(<<out>>, TempIfAll(out))
    <2>1. IsDirectory(files)'
      <3>1. CASE files' = files
        BY <1>1, <3>1, KeepFiles
      <3>2. CASE in \in DOMAIN files /\ files' = With(out, Made(files[in].from, opts.class, NoMap))
        <4>1. files[in].from \subseteq Sources \X (1 .. MaxVersion)
          BY <1>1, <3>2, ContentFields DEF IsDirectory
        <4>2. opts.class \in ClassNames \cup {None}
          BY <1>1, LineFacts
        <4>3. Made(files[in].from, opts.class, NoMap) \in Contents
          BY <4>1, <4>2, MadeType
        <4>4. QED
          BY <1>1, <1>3, <1>5, <3>2, <4>3, WriteFiles
      <3>3. QED
        BY <1>5, <3>1, <3>2
    <2>2. TempIfAll(out) \in Seq(Names) /\ <<out>> \in Seq(Names)
      BY <1>1, <1>3, <1>5, TempType
    <2>3. QED
      BY <1>1, <1>2, <1>5, <2>1, <2>2, AfterStepType, KeepBefore
  <1>6. QED
    BY <1>2, <1>4, <1>5


(* c is a link's output for the input in. *)
IsLinked(c, in, out) ==
  /\ c \in Contents /\ c.from = Text(in, out).from /\ c.class = Text(in, out).class
  /\ DOMAIN c.refs = ExternsOf(c)

(* linkStatic: no reference is left when the count of those is not positive. *)
LEMMA NoneUnresolved ==
  ASSUME NEW externs, externs \subseteq Symbols, NEW map,
         ~(linkStatic(externs, map).unresolved > 0)
  PROVE  externs \subseteq DOMAIN map
  <1>1. IsFiniteSet(externs \ DOMAIN map)
    BY SourceAssumption, FS_Subset
  <1>2. linkStatic(externs, map).unresolved = Cardinality(externs \ DOMAIN map)
    BY DEF linkStatic
  <1>3. Cardinality(externs \ DOMAIN map) \in Nat
    BY <1>1, FS_CardinalityType
  <1>4. Cardinality(externs \ DOMAIN map) = 0
    BY <1>2, <1>3
  <1>5. externs \ DOMAIN map = {}
    BY <1>1, <1>4, FS_EmptySet
  <1>6. QED
    BY <1>5

(* What linkAsm can do. *)
LEMMA LinkCases ==
  ASSUME TypeInv, LinkAsm
  PROVE  LET in == input_files[1]
             out == Change(in, ".j")
             good == /\ Len(input_files) = 1 /\ Ext(in) \in {".j", ".plj"}
                     /\ opts.mode = "jvm" /\ in \in DOMAIN files
         IN  /\ pc = "link" /\ Runs(pc)
             /\ \/ ~good /\ FailStep /\ files' = files
                \/ /\ Len(input_files) = 1 /\ Ext(in) \in {".j", ".plj"}
                   /\ opts.mode = "cil" /\ files' = files /\ AfterStep(<< >>, temp_files)
                \/ good /\ FailStep /\ files' = Without({out})
                \/ /\ good /\ AfterStep(<<out>>, TempIfAll(out))
                   /\ \E c : IsLinked(c, in, out) /\ files' = With(out, c)
  <1> DEFINE in == input_files[1]
             out == Change(in, ".j")
             good == /\ Len(input_files) = 1 /\ Ext(in) \in {".j", ".plj"}
                     /\ opts.mode = "jvm" /\ in \in DOMAIN files
             text == Text(in, out)
             linked(jars) == linkStatic(ExternsOf(text), method_map(jars, LinkUnits(in, out)))
  <1>1. /\ pc = "link" /\ Runs(pc)
        /\ \/ ~good /\ FailStep /\ files' = files
           \/ /\ Len(input_files) = 1 /\ Ext(in) \in {".j", ".plj"}
              /\ opts.mode = "cil" /\ files' = files /\ AfterStep(<< >>, temp_files)
           \/ good /\ FailStep /\ files' = Without({out})
           \/ /\ good /\ ~LibraryRefused(in, out)
              /\ \E jars \in JarOrders(opts.dir, JarsNamed) :
                    IF linked(jars).unresolved > 0
                    THEN FailStep /\ files' = Without({out})
                    ELSE /\ files' = With(out, [text EXCEPT !.refs = linked(jars).refs])
                         /\ AfterStep(<<out>>, TempIfAll(out))
    BY Zenon DEF LinkAsm
  <1>2. ASSUME good, ~LibraryRefused(in, out), NEW jars \in JarOrders(opts.dir, JarsNamed),
               ~(linked(jars).unresolved > 0),
               files' = With(out, [text EXCEPT !.refs = linked(jars).refs])
        PROVE  \E c : IsLinked(c, in, out) /\ files' = With(out, c)
    <2> DEFINE map == method_map(jars, LinkUnits(in, out))
               c == [text EXCEPT !.refs = linkStatic(ExternsOf(text), map).refs]
    <2>1. TypeOK
      BY DEF TypeInv
    <2>2. IsJarList(jars) /\ IsUnitList(LinkUnits(in, out))
      BY <1>2, <2>1, LinkLists
    <2>3. \A s \in DOMAIN map : map[s] \in ToSet(ClassOrder)
      BY <2>2, MapFacts
    <2>4. text \in Contents
      BY <1>2, <2>1, NoTextType DEF Text, TypeOK
    <2>5. ~(linkStatic(ExternsOf(text), map).unresolved > 0)
      BY <1>2
    <2>6. files' = With(out, c)
      BY <1>2
    <2>7. ExternsOf(text) \subseteq Symbols
      BY <2>4, ExternsFacts
    <2> HIDE DEF map, text, in, out
    <2>8. ExternsOf(text) \subseteq DOMAIN map
      BY <2>5, <2>7, NoneUnresolved
    <2>9. /\ c \in Contents /\ c.from = text.from /\ c.class = text.class
          /\ DOMAIN c.refs = ExternsOf(text) \cap DOMAIN map
      BY <2>3, <2>4, LinkedType
    <2> HIDE DEF c
    <2>10. ExternsOf(c) = ExternsOf(text)
      BY <2>9 DEF ExternsOf, DefinedBy
    <2>11. IsLinked(c, in, out)
      BY <2>8, <2>9, <2>10 DEF IsLinked, text
    <2>12. QED
      BY <2>6, <2>11
  <1> HIDE DEF in, out, good, text, linked
  <1>3. \/ ~good /\ FailStep /\ files' = files
        \/ /\ Len(input_files) = 1 /\ Ext(in) \in {".j", ".plj"}
           /\ opts.mode = "cil" /\ files' = files /\ AfterStep(<< >>, temp_files)
        \/ good /\ FailStep /\ files' = Without({out})
        \/ /\ good /\ AfterStep(<<out>>, TempIfAll(out))
           /\ \E c : IsLinked(c, in, out) /\ files' = With(out, c)
    BY <1>1, <1>2
  <1>4. QED
    BY <1>1, <1>3 DEF in, out, good

(* linkAsm. *)
LEMMA LinkType ==
  ASSUME TypeInv, LinkAsm
  PROVE  TypeInv'
  <1> DEFINE in == input_files[1]
             out == Change(in, ".j")
  <1>1. IsDirectory(files) /\ ControlType
    BY TypeParts
  <1>2. /\ pc \in Stages
        /\ \/ FailStep /\ files' \in {files, Without({out})}
           \/ files' = files /\ AfterStep(<< >>, temp_files)
           \/ /\ Len(input_files) = 1 /\ AfterStep(<<out>>, TempIfAll(out))
              /\ \E c : IsLinked(c, in, out) /\ files' = With(out, c)
    BY LinkCases DEF Stages
  <1>3. Len(input_files) = 1 => out \in Names
    BY <1>1, OneInput, ChangeFacts, ExtFacts
  <1> HIDE DEF in, out
  <1>4. CASE FailStep /\ files' \in {files, Without({out})}
    <2>1. IsDirectory(files)'
      BY <1>1, <1>4, KeepFiles, RemoveFiles
    <2>2. QED
      BY <1>4, <2>1, FailStepType, KeepBefore
  <1>5. CASE files' = files /\ AfterStep(<< >>, temp_files)
    <2>1. << >> \in Seq(Names) /\ temp_files \in Seq(Names)
      BY <1>1 DEF ControlType
    <2>2. QED
      BY <1>1, <1>2, <1>5, <2>1, KeepFiles, AfterStepType, KeepBefore
  <1>6. CASE /\ Len(input_files) = 1 /\ AfterStep(<<out>>, TempIfAll(out))
             /\ \E c : IsLinked(c, in, out) /\ files' = With(out, c)
    <2>1. IsDirectory(files)'
      BY <1>1, <1>3, <1>6, WriteFiles DEF IsLinked
    <2>2. TempIfAll(out) \in Seq(Names) /\ <<out>> \in Seq(Names)
      BY <1>1, <1>3, <1>6, TempType
    <2>3. QED
      BY <1>1, <1>2, <1>6, <2>1, <2>2, AfterStepType, KeepBefore
  <1>7. QED
    BY <1>2, <1>4, <1>5, <1>6

(* What buildObject can do. *)
LEMMA BuildCases ==
  ASSUME BuildObject
  PROVE  LET in == input_files[1] IN
         /\ pc = "build" /\ Runs(pc)
         /\ \/ /\ Len(input_files) = 1 /\ Ext(in) = ".j" /\ in \in DOMAIN files
               /\ files[in].class # None /\ files' = With(<<files[in].class, ".class">>, files[in])
               /\ AfterStep(<< >>, temp_files)
            \/ FailStep /\ files' = files
  BY Zenon DEF BuildObject

(* buildObject. *)
LEMMA BuildType ==
  ASSUME TypeInv, BuildObject
  PROVE  TypeInv'
  <1> DEFINE in == input_files[1]
  <1>1. IsDirectory(files) /\ ControlType
    BY TypeParts
  <1>2. CASE FailStep /\ files' = files
    BY <1>1, <1>2, KeepFiles, FailStepType, KeepBefore
  <1>3. CASE /\ in \in DOMAIN files /\ files[in].class # None
             /\ files' = With(<<files[in].class, ".class">>, files[in])
             /\ AfterStep(<< >>, temp_files)
    <2>1. files[in] \in Contents
      BY <1>1, <1>3 DEF IsDirectory
    <2>2. files[in].class \in ClassNames
      BY <1>3, <2>1, ContentFields
    <2>3. <<files[in].class, ".class">> \in Names
      BY <2>2, ExtFacts DEF Names, Stems
    <2>4. IsDirectory(files)'
      BY <1>1, <1>3, <2>1, <2>3, WriteFiles
    <2>5. << >> \in Seq(Names) /\ temp_files \in Seq(Names) /\ pc \in Stages
      BY <1>1, BuildCases DEF ControlType, Stages
    <2>6. QED
      BY <1>1, <1>3, <2>4, <2>5, AfterStepType, KeepBefore
  <1>4. QED
    BY <1>2, <1>3, BuildCases

(* The removal of the temporary files. *)
LEMMA CleanType ==
  ASSUME TypeInv, Clean
  PROVE  TypeInv'
  <1>1. IsDirectory(files) /\ ControlType
    BY TypeParts
  <1>2. files' = files \/ files' = Without(ToSet(temp_files))
    BY DEF Clean
  <1>3. Exit(0) /\ opts' = opts /\ before' = before
    BY DEF Clean, config
  <1>4. IsDirectory(files)'
    BY <1>1, <1>2, KeepFiles, RemoveFiles
  <1>5. QED
    BY <1>3, <1>4, ExitType, KeepBefore

(* The directory of the first run. *)
LEMMA InitType ==
  ASSUME Init
  PROVE  TypeInv
  <1>1. PICK exts \in {{".c"}, {".c", ".bc"}} :
          files = [f \in Sources \X exts |-> Made({<<f[1], 1>>}, None, NoMap)]
    BY DEF Init
  <1>2. 1 \in 1 .. MaxVersion
    BY SourceAssumption
  <1>3. \A f \in Sources \X exts : f \in Names /\ f[1] \in Sources
    BY ExtFacts DEF Names, Stems
  <1>4. \A f \in Sources \X exts : Made({<<f[1], 1>>}, None, NoMap) \in Contents
    BY <1>2, <1>3, MadeType
  <1>5. IsDirectory(files)
    BY <1>1, <1>3, <1>4 DEF IsDirectory
  <1>6. IsDirectory(before)
    BY <1>5 DEF Init, IsDirectory
  <1>7. ControlType /\ opts \in Invocations
    BY DEF Init, ControlType
  <1>8. QED
    BY <1>5, <1>6, <1>7, TypeParts

(* Every step keeps the types. *)
LEMMA TypeStep ==
  ASSUME TypeInv, [Next]_vars
  PROVE  TypeInv'
  <1>1. CASE Next
    BY <1>1, EditType, InvokeType, SkipType, CompileNextType, CompileDoneType, MergeType,
       OptionsType, AsmType, LinkType, BuildType, CleanType DEF Next
  <1>2. CASE UNCHANGED vars
    <2>1. /\ files' = files /\ before' = before /\ opts' = opts /\ ControlType
          /\ pc' = pc /\ retval' = retval /\ input_files' = input_files
          /\ output_files' = output_files /\ temp_files' = temp_files
      BY <1>2, TypeParts DEF vars
    <2>2. ControlType'
      BY <2>1 DEF ControlType
    <2>3. QED
      BY <2>1, <2>2, TypeParts, KeepFiles, KeepBefore
  <1>3. QED
    BY <1>1, <1>2

(* The types hold in every state. *)
THEOREM TypeInvariant == Spec => []TypeInv
  <1>1. Init => TypeInv
    BY InitType
  <1>2. TypeInv /\ [Next]_vars => TypeInv'
    BY TypeStep
  <1>3. QED
    BY <1>1, <1>2, PTL DEF Spec

(***************************************************************************)
(* Files, file lists and stages stay within the model: no stage writes a   *)
(* name, a class or a reference that no source, command line or library    *)
(* accounts for.                                                           *)
(***************************************************************************)
THEOREM TypeCorrect == Spec => []TypeOK
  <1>1. TypeInv => TypeOK
    BY DEF TypeInv
  <1>2. QED
    BY <1>1, TypeInvariant, PTL


-----------------------------------------------------------------------------
(* Linked files *)

(* All external references are resolved. *)
IsComplete(c) == ExternsOf(c) = DOMAIN c.refs

(* The .j files of a directory. *)
AllLinked(fs) == \A f \in DOMAIN fs : Ext(f) = ".j" => IsComplete(fs[f])

(* A file that is written is not a .j file, or is linked. *)
LEMMA LinkedKept ==
  ASSUME AllLinked(files),
         \/ files' = files
         \/ \E rm : files' = Without(rm)
         \/ \E f, c : files' = With(f, c) /\ (Ext(f) = ".j" => IsComplete(c))
  PROVE  AllLinked(files)'
  <1>1. CASE files' = files
    BY <1>1 DEF AllLinked
  <1>2. ASSUME NEW rm, files' = Without(rm) PROVE AllLinked(files')
    <2>1. IsRemoved(files', files, rm)
      BY <1>2, WithoutFacts
    <2>2. QED
      BY <2>1 DEF IsRemoved, AllLinked
  <1>3. ASSUME NEW f, NEW c, files' = With(f, c), Ext(f) = ".j" => IsComplete(c)
        PROVE  AllLinked(files')
    <2>1. IsWritten(files', files, f, c)
      BY <1>3, WithFacts
    <2>2. QED
      BY <1>3, <2>1 DEF IsWritten, AllLinked
  <1>4. QED
    BY <1>1, <1>2, <1>3 DEF AllLinked

(* The extension of a file do_compile or do_merge_bc writes. *)
LEMMA BitcodeExt ==
  ASSUME BitcodeNamed, opts \in Invocations, Runs(pc)
  PROVE  /\ pc = "compile" => \A f : Ext(CompileOutput(f)) # ".j"
         /\ pc = "merge" => Ext(MergeOutput) # ".j"
  <1>1. \A f, e : Ext(Change(f, e)) = e
    BY DEF Ext, Change
  <1>2. ~perform_all_steps /\ pc \in {"compile", "merge"} => Ext(opts.outfile) # ".j"
    BY DEF Runs, BitcodeNamed
  <1>3. Ext(<<opts.class, ".bc">>) = ".bc"
    BY DEF Ext
  <1>4. QED
    BY <1>1, <1>2, <1>3 DEF CompileOutput, MergeOutput

(* Every step leaves complete .j files only. *)
LEMMA LinkedStep ==
  ASSUME BitcodeNamed, TypeInv, AllLinked(files), [Next]_vars
  PROVE  AllLinked(files)'
  <1>1. opts \in Invocations
    BY TypeParts
  <1>2. \A f, e : Ext(Change(f, e)) = e
    BY DEF Ext, Change
  <1>3. ASSUME NEW s \in Edited, EditSource(s) PROVE AllLinked(files)'
    <2>1. PICK v \in 1 .. MaxVersion - 1 :
            files' = With(<<s, ".c">>, Made({<<s, v + 1>>}, None, NoMap))
      BY <1>3 DEF EditSource
    <2>2. Ext(<<s, ".c">>) # ".j"
      BY DEF Ext
    <2>3. QED
      BY <2>1, <2>2, LinkedKept
  <1>4. ASSUME files' = files PROVE AllLinked(files)'
    BY <1>4, LinkedKept
  <1>5. CASE CompileNext
    <2> DEFINE f == input_files[Len(output_files) + 1]
               out == CompileOutput(f)
    <2>1. pc = "compile" /\ Runs(pc)
      BY <1>5 DEF CompileNext
    <2>2. Ext(out) # ".j"
      BY <1>1, <2>1, BitcodeExt
    <2>3. \/ files' = files
          \/ files' = With(out, files[f])
          \/ files' = Without({out})
      BY <1>5, Zenon DEF CompileNext, Compiled
    <2> HIDE DEF f, out
    <2>4. QED
      BY <2>2, <2>3, LinkedKept
  <1>6. CASE Merge
    <2>1. Ext(MergeOutput) # ".j"
      BY <1>1, <1>6, BitcodeExt, MergeCases
    <2>2. \/ files' = files
          \/ \E c : files' = With(MergeOutput, c)
      BY <1>6, MergeCases
    <2>3. QED
      BY <2>1, <2>2, LinkedKept
  <1>7. CASE GenerateAsm
    <2> DEFINE in == input_files[1]
    <2>1. Ext(AsmOf(in)) # ".j"
      BY <1>2 DEF AsmOf
    <2>2. files' = files \/ \E c : files' = With(AsmOf(in), c)
      BY <1>7, AsmCases
    <2> HIDE DEF in
    <2>3. QED
      BY <2>1, <2>2, LinkedKept
  <1>8. CASE LinkAsm
    <2> DEFINE in == input_files[1]
               out == Change(in, ".j")
    <2>1. \/ files' = files
          \/ files' = Without({out})
          \/ \E c : IsLinked(c, in, out) /\ files' = With(out, c)
      BY <1>8, LinkCases
    <2> HIDE DEF in, out
    <2>2. \A c : IsLinked(c, in, out) => IsComplete(c)
      BY DEF IsLinked, IsComplete
    <2>3. QED
      BY <2>1, <2>2, LinkedKept
  <1>9. CASE BuildObject
    <2> DEFINE in == input_files[1]
    <2>1. Ext(<<files[in].class, ".class">>) # ".j"
      BY DEF Ext
    <2>2. files' = files \/ files' = With(<<files[in].class, ".class">>, files[in])
      BY <1>9, BuildCases
    <2> HIDE DEF in
    <2>3. QED
      BY <2>1, <2>2, LinkedKept
  <1>10. CASE Clean
    <2>1. files' = files \/ files' = Without(ToSet(temp_files))
      BY <1>10 DEF Clean
    <2>2. QED
      BY <2>1, LinkedKept
  <1>11. CASE UNCHANGED vars
    BY <1>4, <1>11 DEF vars
  <1>12. CASE (\E o \in Invocations : Invoke(o)) \/ Skip \/ CompileDone \/ CheckOptions
    BY <1>4, <1>12 DEF Invoke, Skip, CompileDone, CheckOptions
  <1>13. QED
    BY <1>3, <1>5, <1>6, <1>7, <1>8, <1>9, <1>10, <1>11, <1>12 DEF Next

(***************************************************************************)
(* Every .j file has all its external references resolved, whichever runs  *)
(* made it and however they ended: what linkStatic counts as unresolved    *)
(* makes the link fail, and a failed link removes its output.  It needs    *)
(* that no compilation or merge is told to write a .j file.                *)
(***************************************************************************)
THEOREM FilesLinked ==
  ASSUME BitcodeNamed
  PROVE  Spec => []JFilesLinked
  <1>1. Init => AllLinked(files)
    BY DEF Init, AllLinked, Ext
  <1>2. TypeInv /\ AllLinked(files) /\ [Next]_vars => AllLinked(files)'
    BY LinkedStep
  <1>3. AllLinked(files) => JFilesLinked
    BY DEF AllLinked, IsComplete, JFilesLinked
  <1>4. QED
    BY <1>1, <1>2, <1>3, TypeInvariant, PTL DEF Spec


-----------------------------------------------------------------------------
(* The order of the libraries *)

(* A list, of which some positions may be left out, holds finitely many values. *)
LEMMA ListFinite ==
  ASSUME NEW n \in Nat, NEW D, D \subseteq 1 .. n, NEW L, DOMAIN L = D,
         L = [i \in D |-> L[i]]
  PROVE  IsFiniteSet(ToSet(L))
  <1>1. IsFiniteSet(1 .. n)
    BY FS_Interval
  <1>2. IsFiniteSet(D)
    BY <1>1, FS_Subset
  <1>3. L \in [D -> ToSet(L)] /\ \A t \in ToSet(L) : \E i \in D : L[i] = t
    BY DEF ToSet
  <1>4. L \in Surjection(D, ToSet(L))
    BY <1>3, Fun_IsSurj
  <1>5. QED
    BY <1>2, <1>4, FS_Surjection

(* A link reads finitely many jars. *)
LEMMA JarsFinite ==
  ASSUME opts \in Invocations
  PROVE  IsFiniteSet(ReadJars)
  <1> DEFINE L == JarsNamed
             m == Len(opts.libs)
             D == {k \in DOMAIN opts.libs : Ext(opts.libs[k]) = ".jar"}
  <1>1. m \in Nat /\ DOMAIN opts.libs = 1 .. m
    BY LineFacts, LenProperties
  <1>2. D \subseteq 1 .. m
    BY <1>1
  <1>3. DOMAIN L = D /\ L = [i \in D |-> L[i]]
    BY DEF JarsNamed
  <1> HIDE DEF L, m, D
  <1>4. IsFiniteSet(ToSet(L))
    BY <1>1, <1>2, <1>3, ListFinite
  <1>5. IsFiniteSet(IF opts.dir \in DOMAIN Dirs THEN Dirs[opts.dir] ELSE {})
    BY LibraryAssumption, FS_EmptySet
  <1>6. IsFiniteSet(ToSet(L) \cup IF opts.dir \in DOMAIN Dirs THEN Dirs[opts.dir] ELSE {})
    BY <1>4, <1>5, FS_Union
  <1>7. QED
    BY <1>6 DEF ReadJars, L

(* The classes of jars that share none do not depend on their order, or on repetitions. *)
LEMMA SameClasses ==
  ASSUME NEW J, \A i, j \in J : i # j => DOMAIN Jars[i] \cap DOMAIN Jars[j] = {},
         NEW p, IsJarList(p), Listed(p) = J, NEW q, IsJarList(q), Listed(q) = J
  PROVE  lib_classes(p) = lib_classes(q)
  <1> DEFINE D == UNION {DOMAIN Jars[j] : j \in J}
  <1>1. ASSUME NEW r, Listed(r) = J
        PROVE  DOMAIN lib_classes(r) = D
    <2>1. DOMAIN lib_classes(r) = UNION {DOMAIN Jars[r[i]] : i \in DOMAIN r}
      BY DEF lib_classes
    <2>2. QED
      BY <1>1, <2>1 DEF Listed
  <1>2. ASSUME NEW r, IsJarList(r), Listed(r) = J,
               NEW c \in D, NEW j \in J, c \in DOMAIN Jars[j]
        PROVE  lib_classes(r)[c] = Jars[j][c]
    <2>1. c \in DOMAIN lib_classes(r)
      BY <1>1, <1>2
    <2>2. PICK i \in DOMAIN r : c \in DOMAIN Jars[r[i]] /\ lib_classes(r)[c] = Jars[r[i]][c]
      BY <1>2, <2>1, ClassFacts
    <2>3. r[i] \in J
      BY <1>2 DEF Listed
    <2>4. r[i] = j
      BY <1>2, <2>2, <2>3
    <2>5. QED
      BY <2>2, <2>4
  <1>3. ASSUME NEW c \in D PROVE lib_classes(p)[c] = lib_classes(q)[c]
    <2>1. PICK j \in J : c \in DOMAIN Jars[j]
      OBVIOUS
    <2>2. QED
      BY <1>2, <2>1
  <1>4. /\ lib_classes(p) = [c \in DOMAIN lib_classes(p) |-> lib_classes(p)[c]]
        /\ lib_classes(q) = [c \in DOMAIN lib_classes(q) |-> lib_classes(q)[c]]
    BY DEF lib_classes
  <1>5. DOMAIN lib_classes(p) = D /\ DOMAIN lib_classes(q) = D
    BY <1>1
  <1> HIDE DEF D
  <1>6. QED
    BY <1>3, <1>4, <1>5

(* Nor do the classes of the symbols of .j libraries that share none. *)
LEMMA SameUnits ==
  ASSUME NEW n \in Nat, NEW units, DOMAIN units \subseteq 1 .. n,
         units = [i \in DOMAIN units |-> units[i]], OneUnitPerSymbol(units),
         NEW u \in SetToSeqs(ToSet(units))
  PROVE  scan_jasmin(units) = scan_jasmin(u)
  <1> DEFINE U == ToSet(units)
             m == Cardinality(U)
  <1>1. IsFiniteSet(U)
    BY ListFinite
  <1>2. /\ m \in Nat /\ u \in [1 .. m -> U]
        /\ \A x \in U : \E i \in 1 .. m : u[i] = x
    BY <1>1, OrderFacts
  <1>3. DOMAIN u = 1 .. m
    BY <1>2
  <1>4. \A k \in DOMAIN u : \E i \in DOMAIN units : u[k] = units[i]
    BY <1>2, <1>3 DEF ToSet
  <1>5. \A i \in DOMAIN units : \E k \in DOMAIN u : u[k] = units[i]
    BY <1>2, <1>3 DEF ToSet
  <1>6. UnitSymbols(u) = UnitSymbols(units)
    BY <1>4, <1>5 DEF UnitSymbols
  <1>7. ASSUME NEW s \in UnitSymbols(units)
        PROVE  scan_jasmin(units)[s] = scan_jasmin(u)[s]
    <2>1. PICK i \in DOMAIN units : s \in units[i].defines /\ scan_jasmin(units)[s] = units[i].class
      BY ScanFrom
    <2>2. PICK k \in DOMAIN u : s \in u[k].defines /\ scan_jasmin(u)[s] = u[k].class
      BY <1>2, <1>3, <1>6, ScanFrom
    <2>3. PICK j \in DOMAIN units : u[k] = units[j]
      BY <1>4
    <2>4. units[i].class = units[j].class
      BY <2>1, <2>2, <2>3 DEF OneUnitPerSymbol
    <2>5. QED
      BY <2>1, <2>2, <2>3, <2>4
  <1>8. /\ scan_jasmin(units) = [s \in UnitSymbols(units) |-> scan_jasmin(units)[s]]
        /\ scan_jasmin(u) = [s \in UnitSymbols(u) |-> scan_jasmin(u)[s]]
    BY DEF scan_jasmin, UnitSymbols
  <1>9. QED
    BY <1>6, <1>7, <1>8, Zenon

(* The .j libraries of a link are a list. *)
LEMMA UnitsListed ==
  ASSUME opts \in Invocations, NEW in, NEW out
  PROVE  LET units == LinkUnits(in, out) IN
         /\ \E n \in Nat : DOMAIN units \subseteq 1 .. n
         /\ units = [i \in DOMAIN units |-> units[i]]
  <1>1. Len(opts.libs) \in Nat /\ DOMAIN opts.libs = 1 .. Len(opts.libs)
    BY LineFacts, LenProperties
  <1>2. DOMAIN LinkUnits(in, out) \subseteq DOMAIN opts.libs
    BY DEF LinkUnits
  <1>3. LinkUnits(in, out) = [i \in DOMAIN LinkUnits(in, out) |-> LinkUnits(in, out)[i]]
    BY DEF LinkUnits
  <1>4. QED
    BY <1>1, <1>2, <1>3

(***************************************************************************)
(* When no two jars hold a class of the same name, and no two .j libraries *)
(* define the same symbol for different classes, what a symbol is linked   *)
(* to depends neither on the order of the -l options, of jars or of .j     *)
(* files, nor on that in which the file system lists a directory: for any  *)
(* libraries and any command line.                                         *)
(***************************************************************************)
THEOREM OrderIrrelevant == Spec => []LinkOrderIrrelevant
  <1>1. TypeInv => LinkOrderIrrelevant
    <2> DEFINE in == input_files[1]
               out == Change(in, ".j")
               units == LinkUnits(in, out)
    <2> SUFFICES ASSUME TypeInv, LinkReady, OneJarPerClass, OneUnitPerSymbol(units),
                        NEW jars \in JarOrders(opts.dir, JarsNamed),
                        NEW p \in SetToSeqs(ReadJars), NEW u \in SetToSeqs(ToSet(units))
                 PROVE  method_map(jars, units) = method_map(p, u)
      BY DEF LinkOrderIrrelevant
    <2>1. opts \in Invocations /\ TypeOK
      BY TypeParts DEF TypeInv
    <2>2. ~LibraryRefused(in, out)
      BY DEF LinkReady
    <2>3. (\E n \in Nat : DOMAIN units \subseteq 1 .. n) /\ units = [i \in DOMAIN units |-> units[i]]
      BY <2>1, UnitsListed
    <2> HIDE DEF in, out, units
    <2>4. scan_jasmin(units) = scan_jasmin(u)
      BY <2>3, SameUnits
    <2>5. PICK J : J = ReadJars
      OBVIOUS
    <2>6. IsFiniteSet(J) /\ J \subseteq DOMAIN Jars
      BY <2>1, <2>2, <2>5, JarsFinite, NamedReadable
    <2>7. IsJarList(jars) /\ Listed(jars) = J
      BY <2>1, <2>2, <2>5, LinkLists, JarFacts
    <2>8. IsJarList(p) /\ Listed(p) = J
      <3>1. /\ Cardinality(J) \in Nat /\ p \in [1 .. Cardinality(J) -> J]
            /\ \A x \in J : \E i \in 1 .. Cardinality(J) : p[i] = x
        BY <2>5, <2>6, OrderFacts
      <3>2. QED
        BY <2>6, <3>1 DEF IsJarList, Listed
    <2>9. \A i, j \in J : i # j => DOMAIN Jars[i] \cap DOMAIN Jars[j] = {}
      BY <2>5 DEF OneJarPerClass
    <2>10. lib_classes(jars) = lib_classes(p)
      BY <2>7, <2>8, <2>9, SameClasses
    <2>11. QED
      BY <2>4, <2>10 DEF method_map
  <1>2. QED
    BY <1>1, TypeInvariant, PTL


-----------------------------------------------------------------------------
(* The run of a command line *)

(* Stages of a run that is under way: one that was asked for ended it. *)
RunInv ==
  pc # "idle" =>
    /\ retval = 0 /\ ~Refused(opts)
    /\ pc = "merge" => "compile" \notin opts.only
    /\ pc \in {"options", "genasm"} => opts.only \cap {"compile", "merge"} = {}
    /\ pc = "link" => opts.only \cap {"compile", "merge", "genasm"} = {}
    /\ pc = "build" => opts.only \cap {"compile", "merge", "genasm", "link"} = {}
    /\ pc = "clean" => perform_all_steps

(* A stage on its own begins with the files of the command line. *)
SingleInv ==
  pc # "idle" /\ ~perform_all_steps =>
    /\ input_files = opts.inputs /\ temp_files = << >>
    /\ opts.only # {"compile"} => files = before /\ output_files = << >>

(* A command line that is accepted has at most one stage. *)
LEMMA OneStage ==
  ASSUME NEW o \in Invocations, ~Refused(o), NEW s \in o.only
  PROVE  o.only = {s}
  <1>1. IsFiniteSet(Stages)
    <2>1. Stages = {"compile"} \cup ({"merge"} \cup ({"genasm"} \cup ({"link"} \cup {"build"})))
      BY DEF Stages
    <2>2. IsFiniteSet({"link"} \cup {"build"})
      BY FS_Singleton, FS_Union
    <2>3. IsFiniteSet({"genasm"} \cup ({"link"} \cup {"build"}))
      BY <2>2, FS_Singleton, FS_Union
    <2>4. IsFiniteSet({"merge"} \cup ({"genasm"} \cup ({"link"} \cup {"build"})))
      BY <2>3, FS_Singleton, FS_Union
    <2>5. QED
      BY <2>1, <2>4, FS_Singleton, FS_Union
  <1>2. IsFiniteSet(o.only)
    BY <1>1, LineFacts, FS_Subset
  <1>3. Cardinality(o.only) \in Nat /\ ~(Cardinality(o.only) > 1)
    BY <1>2, FS_CardinalityType DEF Refused
  <1>4. Cardinality(o.only) # 0
    BY <1>2, FS_EmptySet
  <1>5. Cardinality(o.only) = 1
    BY <1>3, <1>4
  <1>6. PICK x : o.only = {x}
    BY <1>2, <1>5, FS_Singleton
  <1>7. QED
    BY <1>6

(* A single stage is accepted. *)
LEMMA SingleAccepted ==
  ASSUME NEW o, o.only = {"link"}
  PROVE  ~Refused(o)
  <1>1. Cardinality(o.only) = 1
    BY FS_Singleton
  <1>2. QED
    BY <1>1 DEF Refused

(* What a run that ends leaves. *)
LEMMA ExitFacts ==
  ASSUME NEW rc, Exit(rc)
  PROVE  /\ pc' = "idle" /\ retval' = rc /\ RunInv' /\ SingleInv'
  BY DEF Exit, RunInv, SingleInv

(* What a stage leaves. *)
LEMMA AfterFacts ==
  ASSUME NEW outs, NEW temps, AfterStep(outs, temps), Runs(pc)
  PROVE  /\ opts' = opts /\ before' = before
         /\ ~perform_all_steps => pc \in opts.only /\ Exit(0)
         /\ perform_all_steps =>
              /\ pc' = StepAfter(pc) /\ input_files' = outs /\ output_files' = << >>
              /\ temp_files' = temps /\ retval' = retval
  BY DEF AfterStep, config, Runs, perform_all_steps

(* What a stage that fails leaves. *)
LEMMA FailFacts ==
  ASSUME FailStep
  PROVE  opts' = opts /\ before' = before /\ Exit(1)
  BY DEF FailStep, config

(* A run is under way in a stage that is asked for. *)
LEMMA StageRuns ==
  ASSUME TypeInv, RunInv, Runs(pc), pc # "idle"
  PROVE  ~perform_all_steps => opts.only = {pc}
  <1>1. opts \in Invocations
    BY TypeParts
  <1>2. QED
    BY <1>1, OneStage DEF RunInv, Runs

(* A stage that hands on files keeps the two invariants. *)
LEMMA AfterControl ==
  ASSUME RunInv, NEW outs, NEW temps, AfterStep(outs, temps), Runs(pc), pc \in Stages
  PROVE  RunInv' /\ SingleInv'
  <1>1. CASE ~perform_all_steps
    BY <1>1, AfterFacts, ExitFacts
  <1>2. CASE perform_all_steps
    <2>1. opts' = opts /\ pc' = StepAfter(pc) /\ retval' = retval
      BY <1>2, AfterFacts
    <2>2. pc # "idle"
      BY DEF Stages
    <2>3. retval' = 0 /\ ~Refused(opts') /\ opts'.only = {}
      BY <1>2, <2>1, <2>2 DEF RunInv, perform_all_steps
    <2>4. QED
      BY <2>3 DEF RunInv, SingleInv, perform_all_steps
  <1>3. QED
    BY <1>1, <1>2

(* Every step keeps the two invariants. *)
LEMMA ControlStep ==
  ASSUME TypeInv, RunInv, SingleInv, [Next]_vars
  PROVE  RunInv' /\ SingleInv'
  <1>1. ASSUME NEW s \in Edited, EditSource(s) PROVE RunInv' /\ SingleInv'
    BY <1>1 DEF EditSource, RunInv, SingleInv
  <1>2. ASSUME NEW o \in Invocations, Invoke(o) PROVE RunInv' /\ SingleInv'
    <2>1. CASE Refused(o)
      BY <1>2, <2>1, ExitFacts DEF Invoke
    <2>2. CASE ~Refused(o)
      <3>1. /\ pc' = "compile" /\ retval' = 0 /\ opts' = o /\ before' = files /\ files' = files
            /\ input_files' = o.inputs /\ output_files' = << >> /\ temp_files' = << >>
        BY <1>2, <2>2 DEF Invoke
      <3>2. QED
        BY <2>2, <3>1 DEF RunInv, SingleInv
    <2>3. QED
      BY <2>1, <2>2
  <1>3. CASE Skip
    <2>1. /\ pc \in Stages /\ ~Runs(pc) /\ pc' = StepAfter(pc) /\ files' = files
          /\ input_files' = input_files /\ output_files' = output_files
          /\ temp_files' = temp_files /\ retval' = retval /\ opts' = opts /\ before' = before
      BY <1>3 DEF Skip, lists, config
    <2>2. pc \notin opts.only /\ opts.only # {} /\ pc # "idle" /\ pc' # "idle"
      BY <2>1, StageOrder DEF Runs, perform_all_steps, Stages
    <2>3. SingleInv'
      BY <2>1, <2>2 DEF SingleInv, perform_all_steps
    <2>4. retval' = 0 /\ ~Refused(opts')
      BY <2>1, <2>2 DEF RunInv
    <2>5. opts.only \subseteq Stages
      BY TypeParts, LineFacts
    <2>6. RunInv'
      <3>1. CASE pc = "compile"
        BY <2>1, <2>2, <2>4, <3>1, StageOrder DEF RunInv
      <3>2. CASE pc = "merge"
        BY <2>1, <2>2, <2>4, <3>2, StageOrder DEF RunInv
      <3>3. CASE pc = "genasm"
        BY <2>1, <2>2, <2>4, <3>3, StageOrder DEF RunInv
      <3>4. CASE pc = "link"
        BY <2>1, <2>2, <2>4, <3>4, StageOrder DEF RunInv
      <3>5. CASE pc = "build"
        <4>1. opts.only = {}
          BY <2>2, <2>5, <3>5 DEF RunInv, Stages
        <4>2. QED
          BY <2>2, <4>1
      <3>6. QED
        BY <2>1, <3>1, <3>2, <3>3, <3>4, <3>5 DEF Stages
    <2>7. QED
      BY <2>3, <2>6
  <1>4. CASE CompileNext
    <2>1. pc = "compile" /\ Runs(pc)
      BY <1>4 DEF CompileNext
    <2>2. CASE FailStep
      BY <2>2, FailFacts, ExitFacts
    <2>3. CASE /\ \E out : temp_files' = TempIfAll(out)
               /\ UNCHANGED <<pc, input_files, retval, config>>
      <3>1. /\ pc' = pc /\ input_files' = input_files /\ retval' = retval
            /\ opts' = opts /\ before' = before
        BY <2>3 DEF config
      <3>2. ~perform_all_steps => opts.only = {"compile"} /\ temp_files' = temp_files
        BY <2>1, <2>3, StageRuns DEF TempIfAll
      <3>3. SingleInv'
        BY <2>1, <3>1, <3>2 DEF SingleInv, perform_all_steps
      <3>4. RunInv'
        BY <2>1, <3>1 DEF RunInv
      <3>5. QED
        BY <3>3, <3>4
    <2>4. QED
      BY <1>4, <2>2, <2>3, Zenon DEF CompileNext
  <1>5. CASE CompileDone
    BY <1>5, AfterControl DEF CompileDone, Stages
  <1>6. CASE Merge
    BY <1>6, MergeCases, AfterControl, FailFacts, ExitFacts DEF Stages
  <1>7. CASE CheckOptions
    <2>1. opts' = opts /\ before' = before /\ pc = "options" /\ files' = files
      BY <1>7 DEF CheckOptions, config
    <2>2. CASE Exit(-1)
      BY <2>2, ExitFacts
    <2>3. CASE pc' = StepAfter(pc) /\ UNCHANGED <<retval, lists>>
      <3>1. pc' = "genasm" /\ retval' = retval /\ input_files' = input_files
            /\ output_files' = output_files /\ temp_files' = temp_files
        BY <2>1, <2>3, StageOrder DEF lists
      <3>2. QED
        BY <2>1, <3>1 DEF RunInv, SingleInv, perform_all_steps
    <2>4. QED
      BY <1>7, <2>2, <2>3 DEF CheckOptions
  <1>8. CASE GenerateAsm
    BY <1>8, AsmCases, AfterControl, FailFacts, ExitFacts DEF Stages
  <1>9. CASE LinkAsm
    BY <1>9, LinkCases, AfterControl, FailFacts, ExitFacts DEF Stages
  <1>10. CASE BuildObject
    BY <1>10, BuildCases, AfterControl, FailFacts, ExitFacts DEF Stages
  <1>11. CASE Clean
    BY <1>11, ExitFacts DEF Clean
  <1>12. CASE UNCHANGED vars
    BY <1>12 DEF vars, RunInv, SingleInv, perform_all_steps
  <1>13. QED
    BY <1>1, <1>2, <1>3, <1>4, <1>5, <1>6, <1>7, <1>8, <1>9, <1>10, <1>11, <1>12 DEF Next


-----------------------------------------------------------------------------
(* Failed links *)

(* Why a link of command line o over the files then may fail. *)
Explained(o, then) ==
  LET in == o.inputs[1] IN
  \/ Len(o.inputs) # 1
  \/ Ext(in) \notin {".j", ".plj"} \/ in \notin DOMAIN then
  \/ \E l \in ToSet(o.libs) \ {Change(in, ".j")} :
        /\ Ext(l) = ".jar" => l[1] \notin DOMAIN Jars
        /\ Ext(l) = ".j" /\ l \in DOMAIN then => then[l].class = None

(* Symbol s is in none of the classes that count of jars. *)
Unfound(s, jars) ==
  \A i \in DOMAIN jars : \A c \in DOMAIN Jars[jars[i]] :
     s \in Jars[jars[i]][c] =>
       \E k \in DOMAIN jars : k > i /\ c \in DOMAIN Jars[jars[k]] /\ s \notin Jars[jars[k]][c]

(* A reference of file in that libs and the jars, in one of the orders, lack. *)
Missing(then, in, libs, orders) ==
  \E s \in ExternsOf(then[in]), jars \in orders :
     /\ \A l \in libs \ {Change(in, ".j")} : Ext(l) = ".j" => s \notin DefinedBy(then[l])
     /\ Unfound(s, jars)

(* A symbol the map of the jars lacks is in no class that was not replaced. *)
LEMMA UnfoundFacts ==
  ASSUME NEW jars, IsJarList(jars), NEW s, s \notin SymbolsOf(lib_classes(jars))
  PROVE  Unfound(s, jars)
  <1> SUFFICES ASSUME NEW i \in DOMAIN jars, NEW c \in DOMAIN Jars[jars[i]], s \in Jars[jars[i]][c]
               PROVE  \E k \in DOMAIN jars : /\ k > i /\ c \in DOMAIN Jars[jars[k]]
                                             /\ s \notin Jars[jars[k]][c]
    BY DEF Unfound
  <1>1. c \in DOMAIN lib_classes(jars)
    BY ClassFacts
  <1>2. PICK k \in DOMAIN jars :
          /\ c \in DOMAIN Jars[jars[k]] /\ lib_classes(jars)[c] = Jars[jars[k]][c]
          /\ \A h \in DOMAIN jars : c \in DOMAIN Jars[jars[h]] => k >= h
    BY <1>1, ClassFacts
  <1>3. s \notin Jars[jars[k]][c]
    BY <1>1, <1>2 DEF SymbolsOf
  <1>4. k # i /\ k >= i /\ k \in Nat /\ i \in Nat
    BY <1>2, <1>3 DEF IsJarList
  <1>5. k > i
    BY <1>4
  <1>6. QED
    BY <1>2, <1>3, <1>5

(* The symbols of the .j libraries a link reads. *)
LEMMA UnitFacts ==
  ASSUME NEW in, NEW out, NEW s, s \notin UnitSymbols(LinkUnits(in, out)),
         NEW l \in ToSet(opts.libs), Ext(l) = ".j", l \notin {in, out}
  PROVE  s \notin DefinedBy(files[l])
  <1> DEFINE K == {k \in DOMAIN opts.libs : Ext(opts.libs[k]) = ".j" /\ opts.libs[k] \notin {in, out}}
             units == LinkUnits(in, out)
  <1>1. /\ DOMAIN units = K
        /\ \A i \in K : units[i].defines = DefinedBy(files[opts.libs[i]])
    BY DEF LinkUnits
  <1>2. PICK i \in DOMAIN opts.libs : opts.libs[i] = l
    BY DEF ToSet
  <1>3. i \in K
    BY <1>2
  <1>4. units[i].defines = DefinedBy(files[l]) /\ i \in DOMAIN units
    BY <1>1, <1>2, <1>3
  <1> HIDE DEF units, K
  <1>5. s \notin units[i].defines
    BY <1>4 DEF UnitSymbols, units
  <1>6. QED
    BY <1>4, <1>5

(* A link that fails for a reference it cannot resolve. *)
LEMMA UnresolvedFacts ==
  ASSUME TypeInv, NEW in, NEW out, in \in DOMAIN files, out = Change(in, ".j"),
         ~LibraryRefused(in, out), NEW jars \in JarOrders(opts.dir, JarsNamed),
         linkStatic(ExternsOf(Text(in, out)), method_map(jars, LinkUnits(in, out))).unresolved > 0
  PROVE  Missing(files, in, ToSet(opts.libs), JarOrders(opts.dir, JarsNamed))
  <1> DEFINE map == method_map(jars, LinkUnits(in, out))
             externs == ExternsOf(Text(in, out))
  <1>1. TypeOK /\ opts \in Invocations /\ IsDirectory(files)
    BY TypeParts DEF TypeInv
  <1>2. externs \ DOMAIN map # {}
    <2>1. linkStatic(externs, map).unresolved = Cardinality(externs \ DOMAIN map)
      BY DEF linkStatic
    <2>2. Cardinality(externs \ DOMAIN map) > 0
      BY <2>1
    <2> HIDE DEF externs, map
    <2>3. QED
      BY <2>2, FS_EmptySet
  <1>3. PICK s \in externs : s \notin DOMAIN map
    BY <1>2
  <1>4. IsJarList(jars) /\ IsUnitList(LinkUnits(in, out))
    BY <1>1, LinkLists
  <1>5. s \notin UnitSymbols(LinkUnits(in, out)) /\ s \notin SymbolsOf(lib_classes(jars))
    BY <1>3, <1>4, MapFacts
  <1>6. Unfound(s, jars)
    BY <1>4, <1>5, UnfoundFacts
  <1>7. in # out
    <2>1. ExternsOf(NoText) = {}
      BY DEF ExternsOf, NoText, Made
    <2>2. QED
      BY <1>3, <2>1 DEF Text
  <1>8. s \in ExternsOf(files[in])
    BY <1>3, <1>7 DEF Text
  <1>9. ASSUME NEW l \in ToSet(opts.libs) \ {out}, Ext(l) = ".j"
        PROVE  s \notin DefinedBy(files[l])
    <2>1. in \in Names
      BY <1>1 DEF IsDirectory
    <2>2. in = <<in[1], in[2]>>
      BY <2>1 DEF Names
    <2>3. l # in
      BY <1>7, <1>9, <2>2 DEF Ext, Change
    <2>4. QED
      BY <1>5, <1>9, <2>3, UnitFacts
  <1>10. QED
    BY <1>6, <1>8, <1>9 DEF Missing

(* linkAsm, when it fails. *)
LEMMA LinkFails ==
  ASSUME TypeInv, RunInv, LinkAsm, opts.mode = "jvm", retval' = 1
  PROVE  LET in == input_files[1]
             out == Change(in, ".j")
         IN  \/ Len(input_files) # 1 \/ Ext(in) \notin {".j", ".plj"}
             \/ in \notin DOMAIN files
             \/ LibraryRefused(in, out)
             \/ Missing(files, in, ToSet(opts.libs), JarOrders(opts.dir, JarsNamed))
  <1> DEFINE in == input_files[1]
             out == Change(in, ".j")
             linked(jars) == linkStatic(ExternsOf(Text(in, out)), method_map(jars, LinkUnits(in, out)))
  <1>1. retval = 0
    BY DEF LinkAsm, RunInv
  <1>2. \/ Len(input_files) # 1 \/ Ext(in) \notin {".j", ".plj"}
        \/ in \notin DOMAIN files
        \/ LibraryRefused(in, out)
        \/ /\ in \in DOMAIN files /\ ~LibraryRefused(in, out)
           /\ \E jars \in JarOrders(opts.dir, JarsNamed) : linked(jars).unresolved > 0
        \/ \E outs, temps : AfterStep(outs, temps)
    BY Zenon DEF LinkAsm
  <1> HIDE DEF in, out, linked
  <1>3. ASSUME NEW outs, NEW temps, AfterStep(outs, temps) PROVE FALSE
    BY <1>1, <1>3 DEF AfterStep, Exit
  <1>4. ASSUME in \in DOMAIN files, ~LibraryRefused(in, out),
               NEW jars \in JarOrders(opts.dir, JarsNamed), linked(jars).unresolved > 0
        PROVE  Missing(files, in, ToSet(opts.libs), JarOrders(opts.dir, JarsNamed))
    BY <1>4, UnresolvedFacts DEF out, linked
  <1>5. QED
    BY <1>2, <1>3, <1>4 DEF in, out


(* A link can fail in its own stage only, over the files of its command line. *)
LEMMA FailureStep ==
  ASSUME TypeInv, RunInv, SingleInv, LinkFailureExplained, [Next]_vars
  PROVE  LinkFailureExplained'
  <1> DEFINE Fails == pc = "idle" /\ retval = 1 /\ opts.only = {"link"} /\ opts.mode = "jvm"
             Orders == JarOrders(opts.dir, JarsNamed)
             Why(o, then, orders) ==
               Explained(o, then) \/ Missing(then, o.inputs[1], ToSet(o.libs), orders)
  <1>1. LinkFailureExplained <=> (Fails => Why(opts, before, Orders))
    BY Zenon DEF LinkFailureExplained, Explained, Missing, Unfound
  <1>2. LinkFailureExplained' <=> (Fails' => Why(opts', before', Orders'))
    BY Zenon DEF LinkFailureExplained, Explained, Missing, Unfound
  <1>3. SUFFICES ASSUME Fails' PROVE Why(opts', before', Orders')
    BY <1>2
  <1>4. CASE UNCHANGED vars
    <2>1. opts' = opts /\ before' = before /\ pc' = pc /\ retval' = retval
      BY <1>4 DEF vars
    <2>2. Orders' = Orders
      BY <2>1 DEF JarsNamed
    <2> HIDE DEF Why, Orders
    <2>3. QED
      BY <1>1, <1>3, <2>1, <2>2
  <1>5. CASE LinkAsm
    <2> DEFINE in == input_files[1]
               out == Change(in, ".j")
    <2>1. pc = "link" /\ Runs(pc) /\ opts' = opts /\ before' = before
      BY <1>5, LinkCases, AfterFacts, FailFacts
    <2>2. Orders' = Orders
      BY <2>1 DEF JarsNamed
    <2>3. input_files = opts.inputs /\ files = before
      BY <1>3, <2>1 DEF SingleInv, perform_all_steps
    <2>4. \/ Len(input_files) # 1 \/ Ext(in) \notin {".j", ".plj"}
          \/ in \notin DOMAIN files
          \/ LibraryRefused(in, out)
          \/ Missing(files, in, ToSet(opts.libs), Orders)
      BY <1>3, <1>5, <2>1, LinkFails
    <2>5. LibraryRefused(in, out) =>
            \E l \in ToSet(opts.libs) \ {out} :
               /\ Ext(l) = ".jar" => l[1] \notin DOMAIN Jars
               /\ Ext(l) = ".j" /\ l \in DOMAIN files => files[l].class = None
      <3> SUFFICES ASSUME LibraryRefused(in, out)
                   PROVE  \E l \in ToSet(opts.libs) \ {out} :
                             /\ Ext(l) = ".jar" => l[1] \notin DOMAIN Jars
                             /\ Ext(l) = ".j" /\ l \in DOMAIN files => files[l].class = None
        OBVIOUS
      <3>1. Ext(out) = ".j"
        BY DEF Ext, Change
      <3> HIDE DEF in, out
      <3>2. PICK i \in DOMAIN opts.libs :
              ~ \/ Ext(opts.libs[i]) = ".jar" /\ opts.libs[i][1] \in DOMAIN Jars
                \/ /\ Ext(opts.libs[i]) = ".j"
                   /\ \/ opts.libs[i] \in {in, out}
                      \/ opts.libs[i] \in DOMAIN files /\ files[opts.libs[i]].class # None
        BY DEF LibraryRefused
      <3>3. opts.libs[i] \in ToSet(opts.libs) \ {out}
        BY <3>1, <3>2 DEF ToSet
      <3>4. QED
        BY <3>2, <3>3
    <2>6. Why(opts, before, Orders)
      BY <2>3, <2>4, <2>5 DEF Explained
    <2> HIDE DEF Why, Orders
    <2>7. QED
      BY <2>1, <2>2, <2>6
  <1>6. CASE Next /\ ~LinkAsm
    <2>1. ASSUME pc \in {"compile", "merge", "genasm", "build"}, Runs(pc), opts' = opts PROVE FALSE
      BY <1>3, <2>1 DEF Runs, perform_all_steps
    <2>2. CASE CompileNext
      <3>1. opts' = opts /\ pc = "compile" /\ Runs(pc)
        BY <2>2, FailFacts, Zenon DEF CompileNext, config
      <3>2. QED
        BY <2>1, <3>1
    <2>3. CASE CompileDone
      BY <2>1, <2>3, AfterFacts DEF CompileDone
    <2>4. CASE Merge
      BY <2>1, <2>4, MergeCases, AfterFacts, FailFacts
    <2>5. CASE GenerateAsm
      BY <2>1, <2>5, AsmCases, AfterFacts, FailFacts
    <2>6. CASE BuildObject
      BY <2>1, <2>6, BuildCases, AfterFacts, FailFacts
    <2>7. CASE Skip
      BY <1>3, <2>7, StageOrder DEF Skip, Stages
    <2>8. CASE CheckOptions
      BY <1>3, <2>8, StageOrder DEF CheckOptions, Exit
    <2>9. CASE Clean
      BY <1>3, <2>9 DEF Clean, Exit
    <2>10. ASSUME NEW o \in Invocations, Invoke(o) PROVE FALSE
      BY <1>3, <2>10 DEF Invoke, Exit
    <2>11. ASSUME NEW s \in Edited, EditSource(s) PROVE FALSE
      BY <1>3, <2>11 DEF EditSource
    <2>12. QED
      BY <1>6, <2>2, <2>3, <2>4, <2>5, <2>6, <2>7, <2>8, <2>9, <2>10, <2>11 DEF Next
  <1>7. QED
    BY <1>4, <1>5, <1>6

(* The run of a command line goes as RunInv and SingleInv say. *)
THEOREM RunInvariant == Spec => [](TypeInv /\ RunInv /\ SingleInv)
  <1>1. Init => RunInv /\ SingleInv
    BY DEF Init, RunInv, SingleInv
  <1>2. TypeInv /\ RunInv /\ SingleInv /\ [Next]_vars => RunInv' /\ SingleInv'
    BY ControlStep
  <1>3. QED
    BY <1>1, <1>2, TypeInvariant, PTL DEF Spec

(***************************************************************************)
(* A link that read its libraries fails only for a symbol that no library  *)
(* defines, or that a jar defines in a class which another jar, read after *)
(* it, holds without the symbol: lib_classes keeps one class of a name and *)
(* forgets what the others defined.                                        *)
(***************************************************************************)
THEOREM FailuresExplained == Spec => []LinkFailureExplained
  <1>1. Init => LinkFailureExplained
    BY DEF Init, LinkFailureExplained
  <1>2. TypeInv /\ RunInv /\ SingleInv /\ LinkFailureExplained /\ [Next]_vars
          => LinkFailureExplained'
    BY FailureStep
  <1>3. QED
    BY <1>1, <1>2, RunInvariant, PTL DEF Spec


-----------------------------------------------------------------------------
(* The files of a run *)

(* A run that writes files. *)
Real(o) == ~o.dry_run

(* The files of a full build of o, by extension. *)
Part(o, ext) == <<o.class, ext>>

(* Its assembler file. *)
Asm(o) == Part(o, IF o.mode = "jvm" THEN ".plj" ELSE ".plil")

(* All its inputs are sources, as do_compile demands. *)
Compilable(o) == \A f \in ToSet(o.inputs) : Ext(f) = ".c"

(* The bitcode of its sources. *)
Outs(o) == {Change(f, ".bc") : f \in ToSet(o.inputs)}

(* What a full build of o is to make, from the files then. *)
Wanted(o, then) == UNION {then[f].from : f \in ToSet(o.inputs)}

(* f was made from the versions from. *)
Has(now, f, from) == f \in DOMAIN now /\ now[f].from = from

(* f is the same in two directories. *)
Same(now, then, f) ==
  /\ f \in DOMAIN now <=> f \in DOMAIN then
  /\ f \in DOMAIN now => now[f] = then[f]

(* The output of a compilation. *)
CompileName(o, f) ==
  IF Len(o.inputs) = 1 /\ o.outfile # NoFile /\ o.only # {} THEN o.outfile ELSE Change(f, ".bc")

(* -o with several sources, which do_compile refuses. *)
Misused(o) == Len(o.inputs) > 1 /\ o.outfile # NoFile /\ o.only # {}

(* The sources compiled so far. *)
CompileInv ==
  pc = "compile" =>
    /\ input_files = opts.inputs /\ Len(output_files) <= Len(opts.inputs)
    /\ temp_files = IF opts.only = {} THEN output_files ELSE << >>
    /\ ~Real(opts) => files = before
    /\ output_files # << >> => ~Misused(opts)
    /\ \A i \in 1 .. Len(output_files) :
         /\ Ext(opts.inputs[i]) = ".c" /\ output_files[i] = CompileName(opts, opts.inputs[i])
         /\ Real(opts) => Has(files, output_files[i], before[opts.inputs[i]].from)
    /\ \A f : f \notin ToSet(output_files) => Same(files, before, f)

(* What a full build hands from stage to stage: the bitcode of its sources, *)
AtMerge ==
  /\ Len(input_files) = Len(opts.inputs) /\ temp_files = input_files
  /\ ~Real(opts) => files = before
  /\ \A i \in 1 .. Len(opts.inputs) :
       /\ input_files[i] = Change(opts.inputs[i], ".bc")
       /\ Real(opts) => Has(files, input_files[i], before[opts.inputs[i]].from)

(* the merged bitcode, made from all of them, *)
AtAsm ==
  /\ input_files = <<Part(opts, ".bc")>> /\ ToSet(temp_files) = Outs(opts)
  /\ ~Real(opts) => files = before
  /\ Real(opts) => Has(files, Part(opts, ".bc"), Wanted(opts, before))

(* the assembler file, with the class of the command line, *)
AtLink ==
  /\ input_files = <<Asm(opts)>> /\ ToSet(temp_files) = Outs(opts) \cup {Asm(opts)}
  /\ ~Real(opts) => files = before
  /\ Real(opts) =>
       /\ Has(files, Asm(opts), Wanted(opts, before)) /\ files[Asm(opts)].class = opts.class
       /\ Part(opts, ".bc") \in DOMAIN files

(* the temporary files to remove, and, of a dry run, the leftover it went on with, *)
Assembled ==
  /\ opts.mode = "jvm" /\ ToSet(temp_files) = Outs(opts) \cup {Asm(opts), Part(opts, ".j")}
  /\ ~Real(opts) => Asm(opts) \in DOMAIN before
  /\ Real(opts) => Part(opts, ".bc") \in DOMAIN files

(* the linked file, *)
AtBuild ==
  /\ Assembled /\ input_files = <<Part(opts, ".j")>>
  /\ Real(opts) => /\ Has(files, Part(opts, ".j"), Wanted(opts, before))
                   /\ files[Part(opts, ".j")].class = opts.class

(* and the class file. *)
AtClean == Assembled /\ (Real(opts) => Has(files, Part(opts, ".class"), Wanted(opts, before)))

(* The stages of a full build. *)
BuildInv ==
  opts.only = {} =>
    /\ pc \notin {"idle", "compile"} => Compilable(opts)
    /\ pc = "merge" => AtMerge
    /\ pc \in {"options", "genasm"} => AtAsm
    /\ pc = "link" => AtLink
    /\ pc = "build" => AtBuild
    /\ pc = "clean" => AtClean

(* The files the stages of command line o may write or remove. *)
MayChange(o, f) ==
  \/ /\ o.only = {} /\ Compilable(o)
     /\ \/ f \in {Part(o, ".bc"), Asm(o), Part(o, ".class")}
        \/ o.mode = "jvm" /\ f = Part(o, ".j")
        \/ ~Real(o) /\ Ext(f) = ".class"      \* after a leftover file that names another class
  \/ /\ o.only \in {{}, {"compile"}}
     /\ \E g \in ToSet(o.inputs) : Ext(g) = ".c" /\ f = Change(g, ".bc")
  \/ o.only \in {{"compile"}, {"merge"}} /\ f = o.outfile
  \/ /\ o.only = {"genasm"} /\ Len(o.inputs) = 1 /\ Ext(o.inputs[1]) \in {".bc", ".ll"}
     /\ f \in {Change(o.inputs[1], ".plj"), Change(o.inputs[1], ".plil")}
  \/ /\ o.only = {"link"} /\ o.mode = "jvm" /\ Len(o.inputs) = 1
     /\ Ext(o.inputs[1]) \in {".j", ".plj"} /\ f = Change(o.inputs[1], ".j")
  \/ o.only = {"build"} /\ Len(o.inputs) = 1 /\ Ext(o.inputs[1]) = ".j" /\ Ext(f) = ".class"

(* All others are as they were when the run started. *)
FrameInv == \A f : ~MayChange(opts, f) => Same(files, before, f)

(* A run's control and files. *)
RunsInv == TypeInv /\ RunInv /\ SingleInv /\ CompileInv /\ BuildInv /\ FrameInv


(* A run that ends, or is refused, is in no stage. *)
LEMMA IdleFacts ==
  ASSUME pc' = "idle"
  PROVE  CompileInv' /\ BuildInv'
  BY DEF CompileInv, BuildInv

(* A write or a removal leaves the other files. *)
LEMMA FrameKept ==
  ASSUME FrameInv, opts' = opts, before' = before,
         \/ files' = files
         \/ \E f, c : MayChange(opts, f) /\ files' = With(f, c)
         \/ \E rm : (\A f \in rm : MayChange(opts, f)) /\ files' = Without(rm)
  PROVE  FrameInv'
  <1>1. ASSUME NEW g, ~MayChange(opts, g)
        PROVE  Same(files', files, g)
    <2>1. CASE files' = files
      BY <2>1 DEF Same
    <2>2. ASSUME NEW f, NEW c, MayChange(opts, f), files' = With(f, c)
          PROVE  Same(files', files, g)
      <3>1. IsWritten(files', files, f, c) /\ f # g
        BY <1>1, <2>2, WithFacts
      <3>2. QED
        BY <3>1 DEF IsWritten, Same
    <2>3. ASSUME NEW rm, \A f \in rm : MayChange(opts, f), files' = Without(rm)
          PROVE  Same(files', files, g)
      <3>1. IsRemoved(files', files, rm) /\ g \notin rm
        BY <1>1, <2>3, WithoutFacts
      <3>2. QED
        BY <3>1 DEF IsRemoved, Same
    <2>4. QED
      BY <2>1, <2>2, <2>3
  <1>2. ASSUME NEW g, ~MayChange(opts, g)
        PROVE  Same(files', before, g)
    <2>1. Same(files', files, g) /\ Same(files, before, g)
      BY <1>1, <1>2 DEF FrameInv
    <2>2. QED
      BY <2>1 DEF Same
  <1>3. QED
    BY <1>2 DEF FrameInv

(* The steps between runs, and those that pass over a stage. *)
LEMMA QuietStep ==
  ASSUME RunsInv,
         \/ \E s \in Edited : EditSource(s)
         \/ \E o \in Invocations : Invoke(o)
         \/ Skip
         \/ UNCHANGED vars
  PROVE  CompileInv' /\ BuildInv' /\ FrameInv'
  <1>1. ASSUME NEW s \in Edited, EditSource(s)
        PROVE  CompileInv' /\ BuildInv' /\ FrameInv'
    <2>1. pc' = "idle" /\ before' = files'
      BY <1>1 DEF EditSource
    <2>2. QED
      BY <2>1, IdleFacts DEF FrameInv, Same
  <1>2. ASSUME NEW o \in Invocations, Invoke(o)
        PROVE  CompileInv' /\ BuildInv' /\ FrameInv'
    <2>1. before' = files' /\ opts' = o
      BY <1>2 DEF Invoke
    <2>2. FrameInv'
      BY <2>1 DEF FrameInv, Same
    <2>3. CASE Refused(o)
      BY <1>2, <2>2, <2>3, IdleFacts DEF Invoke, Exit
    <2>4. CASE ~Refused(o)
      <3>1. pc' = "compile" /\ input_files' = o.inputs /\ output_files' = << >> /\ temp_files' = << >>
        BY <1>2, <2>4 DEF Invoke
      <3>2. BuildInv'
        BY <3>1 DEF BuildInv
      <3>3. Len(o.inputs) \in Nat
        BY LineFacts, LenProperties
      <3>4. Len(<< >>) = 0 /\ 1 .. 0 = {} /\ 0 <= Len(o.inputs)
        BY <3>3
      <3>5. \A f : Same(files', before', f)
        BY <2>1 DEF Same
      <3>6. CompileInv'
        BY <2>1, <3>1, <3>4, <3>5 DEF CompileInv
      <3>7. QED
        BY <2>2, <3>2, <3>6
    <2>5. QED
      BY <2>3, <2>4
  <1>3. CASE Skip
    <2>1. /\ files' = files /\ opts' = opts /\ before' = before /\ pc \in Stages
          /\ ~Runs(pc) /\ pc' = StepAfter(pc)
      BY <1>3 DEF Skip, config
    <2>2. pc' # "compile" /\ opts'.only # {}
      BY <2>1, StageOrder DEF Stages, Runs, perform_all_steps
    <2>3. FrameInv'
      BY <2>1, FrameKept DEF RunsInv
    <2>4. QED
      BY <2>2, <2>3 DEF CompileInv, BuildInv
  <1>4. CASE UNCHANGED vars
    <2>1. /\ files' = files /\ opts' = opts /\ before' = before /\ pc' = pc
          /\ input_files' = input_files /\ output_files' = output_files
          /\ temp_files' = temp_files
      BY <1>4 DEF vars
    <2>2. FrameInv'
      BY <2>1, FrameKept DEF RunsInv
    <2>3. CompileInv'
      BY <2>1 DEF CompileInv, RunsInv
    <2>4. AtMerge' = AtMerge /\ AtAsm' = AtAsm /\ AtLink' = AtLink /\ AtBuild' = AtBuild
          /\ AtClean' = AtClean
      BY <2>1 DEF AtMerge, AtAsm, AtLink, AtBuild, AtClean, Assembled
    <2>5. BuildInv'
      BY <2>1, <2>4 DEF BuildInv, RunsInv
    <2>6. QED
      BY <2>2, <2>3, <2>5
  <1>5. QED
    BY <1>1, <1>2, <1>3, <1>4

(* A name is its stem and its extension. *)
LEMMA NameFacts ==
  ASSUME NEW f \in Names
  PROVE  /\ f = <<f[1], f[2]>> /\ Ext(f) = f[2]
         /\ \A e : Ext(Change(f, e)) = e /\ Change(f, e)[1] = f[1]
         /\ \A e : Ext(f) = e => Change(f, e) = f
  <1>1. f = <<f[1], f[2]>>
    BY DEF Names
  <1>2. QED
    BY <1>1 DEF Ext, Change

(* The files of a command line. *)
LEMMA InputFacts ==
  ASSUME NEW o \in Invocations
  PROVE  /\ Len(o.inputs) \in Nat /\ DOMAIN o.inputs = 1 .. Len(o.inputs)
         /\ \A i \in 1 .. Len(o.inputs) : o.inputs[i] \in Names /\ o.inputs[i] \in ToSet(o.inputs)
         /\ \A f \in ToSet(o.inputs) : f \in Names /\ \E i \in 1 .. Len(o.inputs) : o.inputs[i] = f
  <1>1. o.inputs \in Seq(Names)
    BY LineFacts
  <1>2. /\ Len(o.inputs) \in Nat /\ DOMAIN o.inputs = 1 .. Len(o.inputs)
        /\ \A i \in 1 .. Len(o.inputs) : o.inputs[i] \in Names
    BY <1>1, LenProperties, ElementOfSeq
  <1>3. QED
    BY <1>2 DEF ToSet


(* do_compile has compiled f to out, or said so in a dry run. *)
CompiledOne(f, out) ==
  /\ ~Misused(opts) /\ Ext(f) = ".c"
  /\ \/ ~Real(opts) /\ files' = files
     \/ Real(opts) /\ f \in DOMAIN files /\ files' = With(out, files[f])
  /\ output_files' = Append(output_files, out)
  /\ temp_files' = IF opts.only = {} THEN Append(temp_files, out) ELSE temp_files
  /\ pc' = pc /\ input_files' = input_files /\ opts' = opts /\ before' = before

(* do_compile and what it is about to do. *)
LEMMA CompileCases ==
  ASSUME RunsInv, CompileNext
  PROVE  LET n == Len(output_files)
             f == opts.inputs[n + 1]
             out == CompileName(opts, f)
         IN  /\ pc = "compile" /\ Runs(pc) /\ n \in Nat /\ n + 1 \in 1 .. Len(opts.inputs)
             /\ \/ CompiledOne(f, out)
                \/ FailStep /\ files' = files
                \/ Ext(f) = ".c" /\ Real(opts) /\ FailStep /\ files' = Without({out})
  <1> DEFINE n == Len(output_files)
             f == input_files[n + 1]
             out == CompileOutput(f)
  <1>1. pc = "compile" /\ Runs(pc) /\ n < Len(input_files)
    BY DEF CompileNext
  <1>2. input_files = opts.inputs
    BY <1>1 DEF RunsInv, CompileInv
  <1>3. TypeInv
    BY DEF RunsInv
  <1>4. n \in Nat /\ n + 1 \in 1 .. Len(opts.inputs)
    BY <1>1, <1>2, <1>3, CompileNames, InputFacts, TypeParts
  <1>5. CompileOutput(f) = CompileName(opts, f)
    BY <1>2 DEF CompileOutput, CompileName, perform_all_steps
  <1>6. OutfileMisused <=> Misused(opts)
    BY <1>2 DEF OutfileMisused, Misused, perform_all_steps
  <1>7. Dry <=> ~Real(opts)
    BY Zenon DEF Dry, Real
  <1>8. TempIfAll(out) = IF opts.only = {} THEN Append(temp_files, out) ELSE temp_files
    BY DEF TempIfAll, perform_all_steps
  <1>9. \/ /\ ~OutfileMisused /\ Ext(f) = ".c"
           /\ IF Dry THEN UNCHANGED files ELSE f \in DOMAIN files /\ files' = With(out, files[f])
           /\ output_files' = Append(output_files, out)
           /\ temp_files' = TempIfAll(out)
           /\ UNCHANGED <<pc, input_files, retval, config>>
        \/ FailStep /\ files' = files
        \/ Ext(f) = ".c" /\ ~Dry /\ FailStep /\ files' = Without({out})
    BY Zenon DEF CompileNext, Compiled
  <1> HIDE DEF f, out, n
  <1>10. \/ CompiledOne(f, out)
         \/ FailStep /\ files' = files
         \/ Ext(f) = ".c" /\ Real(opts) /\ FailStep /\ files' = Without({out})
    BY <1>6, <1>7, <1>8, <1>9 DEF config, CompiledOne
  <1>11. QED
    BY <1>1, <1>2, <1>4, <1>5, <1>10 DEF f, out, n

(* The output of a compilation is not a source it has still to read, and  *)
(* two compilations with one output have one source.                       *)
LEMMA CompileApart ==
  ASSUME NEW o \in Invocations, NEW n \in Nat, n + 1 \in 1 .. Len(o.inputs),
         Ext(o.inputs[n + 1]) = ".c", NEW i \in 1 .. n, Ext(o.inputs[i]) = ".c"
  PROVE  /\ CompileName(o, o.inputs[i]) # o.inputs[n + 1]
         /\ CompileName(o, o.inputs[i]) = CompileName(o, o.inputs[n + 1])
              => o.inputs[i] = o.inputs[n + 1]
  <1>1. Len(o.inputs) \in Nat /\ i \in 1 .. Len(o.inputs) /\ Len(o.inputs) # 1
    BY InputFacts
  <1>2. o.inputs[i] \in Names /\ o.inputs[n + 1] \in Names
    BY <1>1, InputFacts
  <1>3. /\ CompileName(o, o.inputs[i]) = Change(o.inputs[i], ".bc")
        /\ CompileName(o, o.inputs[n + 1]) = Change(o.inputs[n + 1], ".bc")
    BY <1>1 DEF CompileName
  <1>4. Ext(Change(o.inputs[i], ".bc")) = ".bc"
    BY <1>2, NameFacts
  <1>5. Change(o.inputs[i], ".bc") # o.inputs[n + 1]
    BY <1>4
  <1>6. ASSUME Change(o.inputs[i], ".bc") = Change(o.inputs[n + 1], ".bc")
        PROVE  o.inputs[i] = o.inputs[n + 1]
    <2>1. o.inputs[i][1] = o.inputs[n + 1][1] /\ o.inputs[i][2] = o.inputs[n + 1][2]
      BY <1>2, <1>6, NameFacts
    <2>2. QED
      BY <1>2, <2>1, NameFacts
  <1>7. QED
    BY <1>3, <1>5, <1>6

(* A compilation writes what it may. *)
LEMMA CompileMay ==
  ASSUME TypeInv, RunInv, pc = "compile", Runs(pc), NEW f \in ToSet(opts.inputs), Ext(f) = ".c"
  PROVE  MayChange(opts, CompileName(opts, f))
  <1>1. opts.only \in {{}, {"compile"}}
    BY StageRuns DEF perform_all_steps
  <1>2. QED
    BY <1>1 DEF MayChange, CompileName

(* do_compile keeps the invariants. *)
LEMMA CompileStep ==
  ASSUME RunsInv, CompileNext
  PROVE  CompileInv' /\ BuildInv' /\ FrameInv'
  <1> DEFINE n == Len(output_files)
             f == opts.inputs[n + 1]
             out == CompileName(opts, f)
  <1>1. /\ pc = "compile" /\ Runs(pc) /\ n \in Nat /\ n + 1 \in 1 .. Len(opts.inputs)
        /\ \/ CompiledOne(f, out)
           \/ FailStep /\ files' = files
           \/ Ext(f) = ".c" /\ FailStep /\ files' = Without({out})
    BY CompileCases
  <1>2. TypeInv /\ RunInv /\ FrameInv /\ CompileInv /\ opts \in Invocations
    BY TypeParts DEF RunsInv
  <1>3. f \in ToSet(opts.inputs) /\ f \in Names
    BY <1>1, <1>2, InputFacts
  <1>4. Ext(f) = ".c" => MayChange(opts, out)
    BY <1>1, <1>2, <1>3, CompileMay
  <1>5. CASE /\ FailStep
             /\ \/ files' = files
                \/ Ext(f) = ".c" /\ files' = Without({out})
    <2>1. pc' = "idle" /\ opts' = opts /\ before' = before
      BY <1>5, FailFacts, ExitFacts
    <2> HIDE DEF f, out, n
    <2>2. FrameInv'
      BY <1>2, <1>4, <1>5, <2>1, FrameKept
    <2>3. QED
      BY <2>1, <2>2, IdleFacts
  <1>6. CASE CompiledOne(f, out)
    <2>0. /\ ~Misused(opts) /\ Ext(f) = ".c"
          /\ \/ ~Real(opts) /\ files' = files
             \/ Real(opts) /\ f \in DOMAIN files /\ files' = With(out, files[f])
          /\ output_files' = Append(output_files, out)
          /\ temp_files' = IF opts.only = {} THEN Append(temp_files, out) ELSE temp_files
          /\ pc' = pc /\ input_files' = input_files /\ opts' = opts /\ before' = before
      BY <1>6 DEF CompiledOne
    <2> DEFINE outs == output_files'
    <2>1. FrameInv'
      <3> HIDE DEF f, out, n
      <3>1. QED
        BY <1>2, <1>4, <2>0, FrameKept
    <2>2. BuildInv'
      BY <1>1, <2>0 DEF BuildInv
    <2>3. output_files \in Seq(Names)
      BY <1>2, TypeParts DEF ControlType
    <2>4. /\ outs = Append(output_files, out) /\ Len(outs) = n + 1
          /\ \A i \in 1 .. n : outs[i] = output_files[i]
          /\ outs[n + 1] = out /\ ToSet(outs) = ToSet(output_files) \cup {out}
          /\ outs # << >>
      <3>1. output_files \in Seq(Names) /\ out \in Names
        BY <1>2, <1>3, <2>3, LineFacts, ChangeFacts, ExtFacts DEF CompileName
      <3> HIDE DEF f, out
      <3>2. /\ Append(output_files, out) \in Seq(Names)
            /\ Len(Append(output_files, out)) = n + 1
            /\ \A i \in 1 .. n : Append(output_files, out)[i] = output_files[i]
            /\ Append(output_files, out)[n + 1] = out
        BY <3>1, AppendProperties
      <3>3. /\ DOMAIN Append(output_files, out) = 1 .. n + 1 /\ DOMAIN output_files = 1 .. n
        BY <3>1, <3>2, LenProperties
      <3>4. 1 .. n + 1 = (1 .. n) \cup {n + 1}
        BY <1>1
      <3>5. ToSet(Append(output_files, out)) = ToSet(output_files) \cup {out}
        BY <3>2, <3>3, <3>4 DEF ToSet
      <3>6. Append(output_files, out) # << >>
        BY <1>1, <3>2
      <3>7. QED
        BY <2>0, <3>2, <3>5, <3>6
    <2>5. \A i \in 1 .. n : /\ Ext(opts.inputs[i]) = ".c"
                            /\ output_files[i] = CompileName(opts, opts.inputs[i])
                            /\ Real(opts) => Has(files, output_files[i], before[opts.inputs[i]].from)
      BY <1>1, <1>2 DEF CompileInv
    <2>6. f \notin ToSet(output_files)
      <3>1. \A i \in 1 .. n : output_files[i] # f
        BY <1>1, <1>2, <2>0, <2>5, CompileApart
      <3>2. DOMAIN output_files = 1 .. n
        BY <2>3, LenProperties
      <3>3. QED
        BY <3>1, <3>2 DEF ToSet
    <2>7. \A g : g \notin ToSet(output_files) => Same(files, before, g)
      BY <1>1, <1>2 DEF CompileInv
    <2>8. f \in DOMAIN files => files[f] = before[f]
      BY <2>6, <2>7 DEF Same
    <2>9. \A g : g \notin ToSet(outs) => Same(files', before, g)
      <3> HIDE DEF f, out, n
      <3>1. CASE files' = files
        BY <2>4, <2>7, <3>1
      <3>2. CASE files' = With(out, files[f])
        <4>1. IsWritten(files', files, out, files[f])
          BY <3>2, WithFacts
        <4>2. ASSUME NEW g, g \notin ToSet(outs) PROVE Same(files', before, g)
          <5>1. g # out /\ Same(files, before, g)
            BY <2>4, <2>7, <4>2
          <5>2. QED
            BY <4>1, <5>1 DEF IsWritten, Same
        <4>3. QED
          BY <4>2
      <3>3. QED
        BY <2>0, <3>1, <3>2
    <2>10. ASSUME NEW i \in 1 .. n + 1, Real(opts)
           PROVE  Has(files', outs[i], before[opts.inputs[i]].from)
      <3>1. /\ f \in DOMAIN files /\ files' = With(out, files[f])
        BY <2>0, <2>10
      <3>2. IsWritten(files', files, out, files[f])
        BY <3>1, WithFacts
      <3>3. files'[out].from = before[f].from /\ out \in DOMAIN files'
        BY <2>8, <3>1, <3>2 DEF IsWritten
      <3>4. CASE i = n + 1
        BY <2>4, <3>3, <3>4 DEF Has
      <3>5. CASE i # n + 1
        <4>1. i \in 1 .. n
          BY <1>1, <3>5
        <4>2. /\ outs[i] = CompileName(opts, opts.inputs[i]) /\ Ext(opts.inputs[i]) = ".c"
              /\ Has(files, outs[i], before[opts.inputs[i]].from)
          BY <2>4, <2>5, <2>10, <4>1
        <4>3. CASE outs[i] = out
          <5>1. opts.inputs[i] = f
            BY <1>1, <1>2, <2>0, <4>1, <4>2, <4>3, CompileApart
          <5>2. QED
            BY <3>3, <4>3, <5>1 DEF Has
        <4>4. CASE outs[i] # out
          <5> HIDE DEF f, out, n
          <5>1. QED
            BY <3>2, <4>2, <4>4 DEF Has, IsWritten
        <4>5. QED
          BY <4>3, <4>4
      <3>6. QED
        BY <3>4, <3>5
    <2>11. \A i \in 1 .. n + 1 : /\ Ext(opts.inputs[i]) = ".c"
                                 /\ outs[i] = CompileName(opts, opts.inputs[i])
      <3>1. \A i \in 1 .. n + 1 : i \in 1 .. n \/ i = n + 1
        BY <1>1
      <3>2. QED
        BY <2>0, <2>4, <2>5, <3>1
    <2>12. temp_files' = IF opts.only = {} THEN outs ELSE << >>
      <3>1. temp_files = IF opts.only = {} THEN output_files ELSE << >>
        BY <1>1, <1>2 DEF CompileInv
      <3> HIDE DEF f, out, n
      <3>2. QED
        BY <2>0, <3>1
    <2>13. ~Real(opts) => files' = before
      <3>1. ~Real(opts) => files = before
        BY <1>1, <1>2 DEF CompileInv
      <3>2. QED
        BY <2>0, <3>1
    <2>14. input_files' = opts.inputs /\ Len(outs) <= Len(opts.inputs)
      <3>1. input_files = opts.inputs /\ Len(opts.inputs) \in Nat
        BY <1>1, <1>2, InputFacts DEF CompileInv
      <3>2. QED
        BY <1>1, <2>0, <2>4, <3>1
    <2>15. CompileInv'
      <3> HIDE DEF f, out
      <3>1. QED
        BY <2>0, <2>4, <2>9, <2>10, <2>11, <2>12, <2>13, <2>14 DEF CompileInv
    <2>16. QED
      BY <2>1, <2>2, <2>15
  <1> HIDE DEF f, out, n
  <1>7. QED
    BY <1>1, <1>5, <1>6


(* A run that ends after a stage of its own, or on an error, with nothing  *)
(* but what it may change written.                                         *)
LEMMA EndStep ==
  ASSUME FrameInv, opts' = opts, before' = before, pc' = "idle",
         \/ files' = files
         \/ \E f, c : MayChange(opts, f) /\ files' = With(f, c)
         \/ \E rm : (\A f \in rm : MayChange(opts, f)) /\ files' = Without(rm)
  PROVE  CompileInv' /\ BuildInv' /\ FrameInv'
  BY FrameKept, IdleFacts

(* The end of the compilations keeps the invariants. *)
LEMMA CompileDoneStep ==
  ASSUME RunsInv, CompileDone
  PROVE  CompileInv' /\ BuildInv' /\ FrameInv'
  <1>1. /\ pc = "compile" /\ Runs(pc) /\ Len(output_files) = Len(input_files)
        /\ AfterStep(output_files, temp_files) /\ files' = files
    BY DEF CompileDone
  <1>2. TypeInv /\ RunInv /\ FrameInv /\ CompileInv /\ opts \in Invocations
    BY TypeParts DEF RunsInv
  <1>3. opts' = opts /\ before' = before
    BY <1>1, AfterFacts
  <1>4. CASE ~perform_all_steps
    BY <1>1, <1>2, <1>3, <1>4, AfterFacts, ExitFacts, EndStep
  <1>5. CASE perform_all_steps
    <2>1. /\ pc' = "merge" /\ input_files' = output_files /\ temp_files' = temp_files
          /\ opts.only = {}
      BY <1>1, <1>5, AfterFacts, StageOrder DEF perform_all_steps
    <2>2. FrameInv'
      BY <1>1, <1>2, <1>3, FrameKept
    <2>3. /\ Len(output_files) = Len(opts.inputs) /\ temp_files = output_files
          /\ ~Real(opts) => files = before
          /\ \A i \in 1 .. Len(opts.inputs) :
               /\ Ext(opts.inputs[i]) = ".c" /\ output_files[i] = CompileName(opts, opts.inputs[i])
               /\ Real(opts) => Has(files, output_files[i], before[opts.inputs[i]].from)
      BY <1>1, <1>2, <2>1 DEF CompileInv
    <2>4. Compilable(opts)
      BY <1>2, <2>3, InputFacts DEF Compilable
    <2>5. \A f : CompileName(opts, f) = Change(f, ".bc")
      BY <2>1 DEF CompileName
    <2>6. AtMerge'
      BY <1>1, <1>3, <2>1, <2>3, <2>5 DEF AtMerge
    <2>7. BuildInv' /\ CompileInv'
      BY <1>3, <2>1, <2>4, <2>6 DEF BuildInv, CompileInv
    <2>8. QED
      BY <2>2, <2>7
  <1>6. QED
    BY <1>4, <1>5

(* A run of one stage that is asked for starts from its command line. *)
LEMMA SingleFacts ==
  ASSUME RunsInv, Runs(pc), pc \in {"merge", "genasm", "link", "build"}, ~perform_all_steps
  PROVE  /\ opts.only = {pc} /\ input_files = opts.inputs /\ files = before
  <1>1. opts.only = {pc}
    BY StageRuns DEF RunsInv
  <1>2. opts.only # {"compile"}
    BY <1>1
  <1>3. QED
    BY <1>1, <1>2 DEF RunsInv, SingleInv

(* do_merge_bc keeps the invariants. *)
LEMMA MergeStep ==
  ASSUME RunsInv, Merge
  PROVE  CompileInv' /\ BuildInv' /\ FrameInv'
  <1> DEFINE from == UNION {files[f].from : f \in ToSet(input_files)}
             c == Made(from, None, NoMap)
  <1>1. /\ pc = "merge" /\ Runs(pc)
        /\ \/ Dry /\ files' = files /\ AfterStep(<<MergeOutput>>, temp_files)
           \/ ~Dry /\ files' = With(MergeOutput, c) /\ AfterStep(<<MergeOutput>>, temp_files)
           \/ FailStep /\ files' = files
    BY MergeCases
  <1>2. TypeInv /\ RunInv /\ FrameInv /\ BuildInv /\ opts \in Invocations
    BY TypeParts DEF RunsInv
  <1>3. opts' = opts /\ before' = before
    BY <1>1, AfterFacts, FailFacts
  <1>4. Dry <=> ~Real(opts)
    BY Zenon DEF Dry, Real
  <1>5. CASE FailStep
    <2>1. files' = files /\ pc' = "idle"
      BY <1>1, <1>5, FailFacts, ExitFacts, StageOrder DEF AfterStep, Exit
    <2>2. QED
      BY <1>2, <1>3, <2>1, EndStep
  <1>6. CASE ~perform_all_steps /\ AfterStep(<<MergeOutput>>, temp_files)
    <2>1. opts.only = {"merge"} /\ MergeOutput = opts.outfile /\ pc' = "idle"
      BY <1>1, <1>6, SingleFacts, AfterFacts, ExitFacts DEF MergeOutput
    <2>2. MayChange(opts, MergeOutput)
      BY <2>1 DEF MayChange
    <2> HIDE DEF c
    <2>3. QED
      BY <1>1, <1>2, <1>3, <2>1, <2>2, EndStep
  <1>7. CASE perform_all_steps /\ AfterStep(<<MergeOutput>>, temp_files)
    <2>1. MergeOutput = Part(opts, ".bc") /\ opts.only = {}
      BY <1>7 DEF MergeOutput, perform_all_steps, Part
    <2>2. pc' = "options" /\ input_files' = <<Part(opts, ".bc")>> /\ temp_files' = temp_files
      BY <1>1, <1>7, <2>1, AfterFacts, StageOrder
    <2>3. AtMerge /\ Compilable(opts)
      BY <1>1, <1>2, <2>1 DEF BuildInv
    <2>4. MayChange(opts, Part(opts, ".bc"))
      BY <2>1, <2>3 DEF MayChange
    <2>5. files' = files \/ files' = With(Part(opts, ".bc"), c)
      BY <1>1, <2>1, Zenon DEF FailStep
    <2>6. FrameInv'
      <3> HIDE DEF c
      <3>1. QED
        BY <1>2, <1>3, <2>4, <2>5, FrameKept
    <2>7. DOMAIN input_files = 1 .. Len(opts.inputs) /\ DOMAIN opts.inputs = 1 .. Len(opts.inputs)
      <3>1. input_files \in Seq(Names)
        BY <1>2, TypeParts DEF ControlType
      <3>2. QED
        BY <1>2, <2>3, <3>1, LenProperties, InputFacts DEF AtMerge
    <2>8. ToSet(input_files) = Outs(opts)
      BY <2>3, <2>7 DEF AtMerge, ToSet, Outs
    <2>9. ASSUME Real(opts) PROVE from = Wanted(opts, before)
      <3>1. \A i \in 1 .. Len(opts.inputs) : files[input_files[i]].from = before[opts.inputs[i]].from
        BY <2>3, <2>9 DEF AtMerge, Has
      <3>2. from = UNION {files[input_files[i]].from : i \in 1 .. Len(opts.inputs)}
        BY <2>7 DEF ToSet
      <3>3. Wanted(opts, before) = UNION {before[opts.inputs[i]].from : i \in 1 .. Len(opts.inputs)}
        BY <2>7 DEF ToSet, Wanted
      <3>4. QED
        BY <3>1, <3>2, <3>3
    <2>10. ASSUME Real(opts) PROVE Has(files', Part(opts, ".bc"), Wanted(opts, before))
      <3>1. files' = With(Part(opts, ".bc"), c)
        <4>1. ~FailStep
          BY <2>2, FailFacts, ExitFacts
        <4> HIDE DEF c
        <4>2. QED
          BY <1>1, <1>4, <2>1, <2>10, <4>1
      <3>2. IsWritten(files', files, Part(opts, ".bc"), c)
        BY <3>1, WithFacts
      <3>3. c.from = Wanted(opts, before)
        BY <2>9, <2>10 DEF Made
      <3> HIDE DEF c
      <3>4. QED
        BY <3>2, <3>3 DEF IsWritten, Has
    <2>11. ~Real(opts) => files' = before
      <3>1. ~Real(opts) => files = before
        BY <2>3 DEF AtMerge
      <3>2. QED
        BY <1>1, <1>4, <3>1
    <2>12. ToSet(temp_files) = Outs(opts)
      BY <2>3, <2>8 DEF AtMerge
    <2>13. AtAsm'
      BY <1>3, <2>2, <2>10, <2>11, <2>12 DEF AtAsm
    <2>14. BuildInv' /\ CompileInv'
      BY <1>3, <2>2, <2>3, <2>13 DEF BuildInv, CompileInv
    <2>15. QED
      BY <2>6, <2>14
  <1>8. QED
    BY <1>1, <1>5, <1>6, <1>7


(* Append adds an element. *)
LEMMA AppendSet ==
  ASSUME NEW S, NEW s \in Seq(S), NEW x \in S
  PROVE  ToSet(Append(s, x)) = ToSet(s) \cup {x}
  <1> DEFINE n == Len(s)
             t == Append(s, x)
  <1>1. /\ n \in Nat /\ t \in Seq(S) /\ Len(t) = n + 1
        /\ (\A i \in 1 .. n : t[i] = s[i]) /\ t[n + 1] = x
    BY AppendProperties, LenProperties
  <1> HIDE DEF t
  <1>2. DOMAIN t = 1 .. n + 1 /\ DOMAIN s = 1 .. n
    BY <1>1, LenProperties
  <1>3. 1 .. n + 1 = (1 .. n) \cup {n + 1}
    BY <1>1
  <1> HIDE DEF n
  <1>4. ToSet(t) = ToSet(s) \cup {x}
    BY <1>1, <1>2, <1>3 DEF ToSet
  <1>5. QED
    BY <1>4 DEF t

(* The check of the options keeps the invariants. *)
LEMMA OptionsStep ==
  ASSUME RunsInv, CheckOptions
  PROVE  CompileInv' /\ BuildInv' /\ FrameInv'
  <1>1. files' = files /\ opts' = opts /\ before' = before /\ pc = "options"
    BY DEF CheckOptions, config
  <1>2. FrameInv /\ BuildInv
    BY DEF RunsInv
  <1>3. CASE Exit(-1)
    BY <1>1, <1>2, <1>3, ExitFacts, EndStep
  <1>4. CASE pc' = StepAfter(pc) /\ UNCHANGED <<retval, lists>>
    <2>1. pc' = "genasm" /\ input_files' = input_files /\ temp_files' = temp_files
      BY <1>1, <1>4, StageOrder DEF lists
    <2>2. FrameInv'
      BY <1>1, <1>2, FrameKept
    <2>3. AtAsm' = AtAsm
      BY <1>1, <2>1 DEF AtAsm
    <2>4. BuildInv' /\ CompileInv'
      BY <1>1, <1>2, <2>1, <2>3 DEF BuildInv, CompileInv
    <2>5. QED
      BY <2>2, <2>4
  <1>5. QED
    BY <1>3, <1>4 DEF CheckOptions

(* The names of the files of a full build. *)
LEMMA PartNames ==
  ASSUME NEW o \in Invocations
  PROVE  /\ Part(o, ".bc") \in Names /\ Part(o, ".plj") \in Names /\ Part(o, ".plil") \in Names
         /\ Part(o, ".j") \in Names /\ Part(o, ".class") \in Names /\ Asm(o) \in Names
         /\ \A e : Ext(Part(o, e)) = e
         /\ \A e, d : Change(Part(o, e), d) = Part(o, d)
         /\ \A e, d : Part(o, e) = Part(o, d) => e = d
  <1>1. /\ Part(o, ".bc") \in Names /\ Part(o, ".plj") \in Names /\ Part(o, ".plil") \in Names
        /\ Part(o, ".j") \in Names /\ Part(o, ".class") \in Names
    BY PartFacts, ExtFacts DEF Part
  <1>2. Asm(o) \in Names
    BY <1>1 DEF Asm
  <1>3. /\ \A e : Ext(Part(o, e)) = e
        /\ \A e, d : Change(Part(o, e), d) = Part(o, d)
        /\ \A e, d : Part(o, e) = Part(o, d) => e = d
    BY DEF Part, Ext, Change
  <1>4. QED
    BY <1>1, <1>2, <1>3

(* Full builds may change their parts. *)
LEMMA PartsMay ==
  ASSUME NEW o, o.only = {}, Compilable(o)
  PROVE  /\ MayChange(o, Part(o, ".bc")) /\ MayChange(o, Asm(o))
         /\ o.mode = "jvm" => MayChange(o, Part(o, ".j"))
         /\ MayChange(o, Part(o, ".class"))
  BY DEF MayChange

(* generateAsm keeps the invariants. *)
LEMMA AsmStep ==
  ASSUME RunsInv, GenerateAsm
  PROVE  CompileInv' /\ BuildInv' /\ FrameInv'
  <1> DEFINE in == input_files[1]
             out == AsmOf(in)
             c == Made(files[in].from, opts.class, NoMap)
             made == /\ Len(input_files) = 1 /\ Ext(in) \in {".bc", ".ll"}
                     /\ \/ Dry /\ files' = files
                        \/ ~Dry /\ in \in DOMAIN files /\ files' = With(out, c)
                     /\ AfterStep(<<out>>, TempIfAll(out))
  <1>1. /\ pc = "genasm" /\ Runs(pc)
        /\ \/ made
           \/ FailStep /\ files' = files
           \/ /\ Len(input_files) = 1 /\ Ext(in) \in {".bc", ".ll"} /\ FailStep
              /\ \E x : files' = With(out, x)
    BY AsmCases
  <1>2. TypeInv /\ RunInv /\ FrameInv /\ BuildInv /\ opts \in Invocations
    BY TypeParts DEF RunsInv
  <1>3. opts' = opts /\ before' = before
    BY <1>1, AfterFacts, FailFacts
  <1>4. Dry <=> ~Real(opts)
    BY Zenon DEF Dry, Real
  <1>5. perform_all_steps =>
          /\ opts.only = {} /\ AtAsm /\ Compilable(opts)
          /\ in = Part(opts, ".bc") /\ out = Asm(opts)
    <2> SUFFICES ASSUME perform_all_steps
                 PROVE  /\ opts.only = {} /\ AtAsm /\ Compilable(opts)
                        /\ in = Part(opts, ".bc") /\ out = Asm(opts)
      OBVIOUS
    <2>1. opts.only = {} /\ AtAsm /\ Compilable(opts)
      BY <1>1, <1>2 DEF perform_all_steps, BuildInv
    <2>2. in = Part(opts, ".bc")
      BY <2>1 DEF AtAsm
    <2> HIDE DEF in
    <2>3. out = Asm(opts)
      BY <1>2, <2>2, PartNames DEF AsmOf, Asm
    <2>4. QED
      BY <2>1, <2>2, <2>3
  <1>6. Len(input_files) = 1 /\ Ext(in) \in {".bc", ".ll"} => MayChange(opts, out)
    <2>1. CASE perform_all_steps
      BY <1>5, <2>1, PartsMay
    <2>2. CASE ~perform_all_steps
      <3>1. opts.only = {"genasm"} /\ input_files = opts.inputs
        BY <1>1, <2>2, SingleFacts
      <3>2. QED
        BY <3>1 DEF MayChange, AsmOf
    <2>3. QED
      BY <2>1, <2>2
  <1> HIDE DEF in, out, c
  <1>7. CASE FailStep
    <2>1. pc' = "idle"
      BY <1>7, FailFacts, ExitFacts
    <2>2. files' = files \/ (MayChange(opts, out) /\ \E x : files' = With(out, x))
      BY <1>1, <1>6
    <2>3. QED
      BY <1>2, <1>3, <2>1, <2>2, EndStep
  <1>8. CASE made /\ ~perform_all_steps
    <2>1. pc' = "idle"
      BY <1>1, <1>8, AfterFacts, ExitFacts
    <2>2. QED
      BY <1>2, <1>3, <1>6, <1>8, <2>1, EndStep
  <1>9. CASE made /\ perform_all_steps
    <2>1. AtAsm /\ Compilable(opts) /\ in = Part(opts, ".bc") /\ out = Asm(opts) /\ opts.only = {}
      BY <1>5, <1>9
    <2>2. /\ pc' = "link" /\ input_files' = <<Asm(opts)>> /\ temp_files' = TempIfAll(out)
      BY <1>1, <1>9, <2>1, AfterFacts, StageOrder
    <2>3. FrameInv'
      BY <1>2, <1>3, <1>6, <1>9, FrameKept
    <2>4. temp_files \in Seq(Names) /\ out \in Names
      BY <1>2, <2>1, PartNames, TypeParts DEF ControlType
    <2>5. ToSet(temp_files') = ToSet(temp_files) \cup {Asm(opts)}
      BY <1>9, <2>1, <2>2, <2>4, AppendSet DEF TempIfAll
    <2>6. ToSet(temp_files') = Outs(opts) \cup {Asm(opts)}
      BY <2>1, <2>5 DEF AtAsm
    <2>7. ~Real(opts) => files' = before
      <3>1. ~Real(opts) => files = before
        BY <2>1 DEF AtAsm
      <3>2. QED
        BY <1>4, <1>9, <3>1
    <2>8. ASSUME Real(opts)
          PROVE  /\ Has(files', Asm(opts), Wanted(opts, before)) /\ files'[Asm(opts)].class = opts.class
                 /\ Part(opts, ".bc") \in DOMAIN files'
      <3>1. files' = With(Asm(opts), c)
        BY <1>4, <1>9, <2>1, <2>8
      <3>2. IsWritten(files', files, Asm(opts), c)
        BY <3>1, WithFacts
      <3>3. Has(files, Part(opts, ".bc"), Wanted(opts, before))
        BY <2>1, <2>8 DEF AtAsm
      <3>4. c.from = Wanted(opts, before) /\ c.class = opts.class
        BY <2>1, <3>3 DEF Made, Has, c
      <3>5. QED
        BY <3>2, <3>3, <3>4 DEF IsWritten, Has
    <2>9. AtLink'
      BY <1>3, <2>2, <2>6, <2>7, <2>8 DEF AtLink
    <2>10. BuildInv' /\ CompileInv'
      BY <1>3, <2>1, <2>2, <2>9 DEF BuildInv, CompileInv
    <2>11. QED
      BY <2>3, <2>10
  <1>10. QED
    BY <1>1, <1>7, <1>8, <1>9


(* linkAsm keeps the invariants. *)
LEMMA LinkStep ==
  ASSUME RunsInv, LinkAsm
  PROVE  CompileInv' /\ BuildInv' /\ FrameInv'
  <1> DEFINE in == input_files[1]
             out == Change(in, ".j")
             good == /\ Len(input_files) = 1 /\ Ext(in) \in {".j", ".plj"}
                     /\ opts.mode = "jvm" /\ in \in DOMAIN files
             idle == /\ Len(input_files) = 1 /\ Ext(in) \in {".j", ".plj"}
                     /\ opts.mode = "cil" /\ files' = files /\ AfterStep(<< >>, temp_files)
             made == /\ good /\ AfterStep(<<out>>, TempIfAll(out))
                     /\ \E c : IsLinked(c, in, out) /\ files' = With(out, c)
  <1>1. TypeInv /\ RunInv /\ FrameInv /\ BuildInv /\ opts \in Invocations
    BY TypeParts DEF RunsInv
  <1>2. /\ pc = "link" /\ Runs(pc)
        /\ \/ FailStep /\ files' = files
           \/ idle
           \/ good /\ FailStep /\ files' = Without({out})
           \/ made
    BY <1>1, LinkCases
  <1>3. opts' = opts /\ before' = before
    BY <1>2, AfterFacts, FailFacts
  <1>4. perform_all_steps =>
          /\ opts.only = {} /\ AtLink /\ Compilable(opts) /\ in = Asm(opts) /\ ~idle
          /\ good => in = Part(opts, ".plj") /\ out = Part(opts, ".j") /\ in # out
    <2> SUFFICES ASSUME perform_all_steps
                 PROVE  /\ opts.only = {} /\ AtLink /\ Compilable(opts) /\ in = Asm(opts) /\ ~idle
                        /\ good => in = Part(opts, ".plj") /\ out = Part(opts, ".j") /\ in # out
      OBVIOUS
    <2>1. opts.only = {} /\ AtLink /\ Compilable(opts)
      BY <1>1, <1>2 DEF perform_all_steps, BuildInv
    <2>2. in = Asm(opts)
      BY <2>1 DEF AtLink
    <2> HIDE DEF in
    <2>3. opts.mode = "cil" => Ext(in) = ".plil"
      BY <1>1, <2>2, PartNames DEF Asm
    <2>4. opts.mode = "jvm" => in = Part(opts, ".plj")
      BY <2>2 DEF Asm
    <2>5. in = Part(opts, ".plj") => out = Part(opts, ".j") /\ Part(opts, ".j") # Part(opts, ".plj")
      BY <1>1, PartNames
    <2>6. QED
      BY <2>1, <2>2, <2>3, <2>4, <2>5
  <1>5. good => MayChange(opts, out)
    <2>1. CASE perform_all_steps
      BY <1>4, <2>1, PartsMay
    <2>2. CASE ~perform_all_steps
      <3>1. opts.only = {"link"} /\ input_files = opts.inputs
        BY <1>2, <2>2, SingleFacts
      <3>2. QED
        BY <3>1 DEF MayChange
    <2>3. QED
      BY <2>1, <2>2
  <1> HIDE DEF in, out, good
  <1>6. CASE FailStep
    <2>1. pc' = "idle"
      BY <1>6, FailFacts, ExitFacts
    <2>2. \/ files' = files
          \/ \E f, c : MayChange(opts, f) /\ files' = With(f, c)
          \/ \E rm : (\A f \in rm : MayChange(opts, f)) /\ files' = Without(rm)
      BY <1>2, <1>5
    <2>3. QED
      BY <1>1, <1>3, <2>1, <2>2, EndStep
  <1>7. CASE idle
    <2>1. ~perform_all_steps
      BY <1>4, <1>7
    <2>2. pc' = "idle"
      BY <1>2, <1>7, <2>1, AfterFacts, ExitFacts
    <2>3. QED
      BY <1>1, <1>3, <1>7, <2>2, EndStep
  <1>8. CASE made /\ ~perform_all_steps
    <2>1. pc' = "idle"
      BY <1>2, <1>8, AfterFacts, ExitFacts
    <2>2. QED
      BY <1>1, <1>3, <1>5, <1>8, <2>1, EndStep
  <1>9. CASE made /\ perform_all_steps
    <2>1. /\ opts.only = {} /\ AtLink /\ Compilable(opts) /\ in = Part(opts, ".plj")
          /\ out = Part(opts, ".j") /\ in # out /\ in = Asm(opts)
      BY <1>4, <1>9
    <2>2. PICK c : IsLinked(c, in, out) /\ files' = With(out, c)
      BY <1>9
    <2>3. pc' = "build" /\ input_files' = <<out>> /\ temp_files' = TempIfAll(out)
      BY <1>2, <1>9, AfterFacts, StageOrder
    <2>4. FrameInv'
      BY <1>1, <1>3, <1>5, <1>9, FrameKept
    <2>5. temp_files \in Seq(Names) /\ out \in Names
      BY <1>1, <2>1, PartNames, TypeParts DEF ControlType
    <2>6. ToSet(temp_files') = ToSet(temp_files) \cup {out}
      BY <1>9, <2>3, <2>5, AppendSet DEF TempIfAll
    <2>7. ToSet(temp_files') = Outs(opts) \cup {Asm(opts), Part(opts, ".j")}
      BY <2>1, <2>6 DEF AtLink
    <2>8. opts.mode = "jvm" /\ in \in DOMAIN files
      BY <1>9 DEF good
    <2>9. ~Real(opts) => Asm(opts) \in DOMAIN before
      BY <2>1, <2>8 DEF AtLink
    <2>10. IsWritten(files', files, out, c)
      BY <2>2, WithFacts
    <2>11. Real(opts) =>
             /\ Part(opts, ".bc") \in DOMAIN files'
             /\ Has(files', Part(opts, ".j"), Wanted(opts, before))
             /\ files'[Part(opts, ".j")].class = opts.class
      <3>1. c.from = files[in].from /\ c.class = files[in].class
        BY <2>1, <2>2 DEF IsLinked, Text
      <3>2. Real(opts) =>
              /\ Has(files, in, Wanted(opts, before)) /\ files[in].class = opts.class
              /\ Part(opts, ".bc") \in DOMAIN files
        BY <2>1 DEF AtLink
      <3>3. QED
        BY <2>1, <2>10, <3>1, <3>2 DEF Has, IsWritten
    <2>12. AtBuild'
      BY <1>3, <2>1, <2>3, <2>7, <2>8, <2>9, <2>11 DEF AtBuild, Assembled
    <2>13. BuildInv' /\ CompileInv'
      BY <1>3, <2>1, <2>3, <2>12 DEF BuildInv, CompileInv
    <2>14. QED
      BY <2>4, <2>13
  <1>10. QED
    BY <1>2, <1>6, <1>7, <1>8, <1>9

(* buildObject keeps the invariants. *)
LEMMA BuildStep ==
  ASSUME RunsInv, BuildObject
  PROVE  CompileInv' /\ BuildInv' /\ FrameInv'
  <1> DEFINE in == input_files[1]
             class == <<files[in].class, ".class">>
             made == /\ Len(input_files) = 1 /\ Ext(in) = ".j" /\ in \in DOMAIN files
                     /\ files' = With(class, files[in])
                     /\ AfterStep(<< >>, temp_files)
  <1>1. TypeInv /\ RunInv /\ FrameInv /\ BuildInv /\ opts \in Invocations
    BY TypeParts DEF RunsInv
  <1>2. /\ pc = "build" /\ Runs(pc)
        /\ \/ made
           \/ FailStep /\ files' = files
    BY BuildCases
  <1>3. opts' = opts /\ before' = before
    BY <1>2, AfterFacts, FailFacts
  <1>4. CASE FailStep
    <2>1. pc' = "idle"
      BY <1>4, FailFacts, ExitFacts
    <2>2. CASE files' = files
      BY <1>1, <1>3, <2>1, <2>2, EndStep
    <2>3. CASE made
      <3>1. Exit(0) \/ pc' = StepAfter(pc)
        BY <1>2, <2>3, AfterFacts
      <3>2. FALSE
        BY <1>2, <1>4, <2>1, <3>1, StageOrder DEF FailStep, Exit
      <3>3. QED
        BY <3>2
    <2>4. QED
      BY <1>2, <2>2, <2>3
  <1>5. CASE made /\ ~perform_all_steps
    <2>1. pc' = "idle"
      BY <1>2, <1>5, AfterFacts, ExitFacts
    <2>2. opts.only = {"build"} /\ input_files = opts.inputs
      BY <1>2, <1>5, SingleFacts
    <2>3. Ext(class) = ".class"
      BY DEF Ext
    <2>4. MayChange(opts, class)
      BY <1>5, <2>2, <2>3 DEF MayChange
    <2> HIDE DEF class, in
    <2>5. QED
      BY <1>1, <1>3, <1>5, <2>1, <2>4, EndStep
  <1>6. CASE made /\ perform_all_steps
    <2>1. opts.only = {} /\ AtBuild /\ Compilable(opts)
      BY <1>1, <1>2, <1>6 DEF perform_all_steps, BuildInv
    <2>2. in = Part(opts, ".j")
      BY <2>1 DEF AtBuild
    <2>3. pc' = "clean" /\ temp_files' = temp_files
      BY <1>2, <1>6, AfterFacts, StageOrder
    <2>4. CASE Real(opts)
      <3>1. Has(files, in, Wanted(opts, before)) /\ files[in].class = opts.class
        BY <2>1, <2>2, <2>4 DEF AtBuild
      <3>2. class = Part(opts, ".class")
        BY <3>1 DEF Part
      <3>3. MayChange(opts, class)
        BY <2>1, <3>2, PartsMay
      <3> HIDE DEF class, in
      <3>4. FrameInv'
        BY <1>1, <1>3, <1>6, <3>3, FrameKept
      <3>5. IsWritten(files', files, class, files[in])
        BY <1>6, WithFacts
      <3>6. /\ Part(opts, ".bc") \in DOMAIN files'
            /\ Has(files', Part(opts, ".class"), Wanted(opts, before))
        BY <2>1, <2>4, <3>1, <3>2, <3>5 DEF AtBuild, Assembled, Has, IsWritten
      <3>7. AtClean'
        BY <1>3, <2>1, <2>3, <2>4, <3>6 DEF AtClean, AtBuild, Assembled
      <3>8. BuildInv' /\ CompileInv'
        BY <1>3, <2>1, <2>3, <3>7 DEF BuildInv, CompileInv
      <3>9. QED
        BY <3>4, <3>8
    <2>5. CASE ~Real(opts)
      <3>1. Ext(class) = ".class"
        BY DEF Ext
      <3>2. MayChange(opts, class)
        BY <2>1, <2>5, <3>1 DEF MayChange
      <3> HIDE DEF class, in
      <3>3. FrameInv'
        BY <1>1, <1>3, <1>6, <3>2, FrameKept
      <3>4. AtClean'
        BY <1>3, <2>1, <2>3, <2>5 DEF AtClean, AtBuild, Assembled
      <3>5. BuildInv' /\ CompileInv'
        BY <1>3, <2>1, <2>3, <3>4 DEF BuildInv, CompileInv
      <3>6. QED
        BY <3>3, <3>5
    <2>6. QED
      BY <2>4, <2>5
  <1>7. QED
    BY <1>2, <1>4, <1>5, <1>6

(* Temporary files are files a full build may change. *)
LEMMA TempMay ==
  ASSUME RunsInv, pc = "clean"
  PROVE  /\ opts.only = {} /\ Compilable(opts) /\ AtClean
         /\ \A f \in ToSet(temp_files) : MayChange(opts, f)
  <1>1. opts.only = {}
    BY DEF RunsInv, RunInv, perform_all_steps
  <1>2. Compilable(opts) /\ AtClean
    BY <1>1 DEF RunsInv, BuildInv
  <1>3. /\ ToSet(temp_files) = Outs(opts) \cup {Asm(opts), Part(opts, ".j")}
        /\ opts.mode = "jvm"
    BY <1>2 DEF AtClean, Assembled
  <1>4. \A f \in Outs(opts) : MayChange(opts, f)
    BY <1>1, <1>2 DEF MayChange, Outs, Compilable
  <1>5. QED
    BY <1>1, <1>2, <1>3, <1>4, PartsMay

(* The removal of the temporary files keeps the invariants. *)
LEMMA CleanStep ==
  ASSUME RunsInv, Clean
  PROVE  CompileInv' /\ BuildInv' /\ FrameInv'
  <1>1. pc = "clean" /\ (files' = files \/ files' = Without(ToSet(temp_files)))
    BY DEF Clean
  <1>2. Exit(0) /\ opts' = opts /\ before' = before
    BY DEF Clean, config
  <1>3. FrameInv
    BY DEF RunsInv
  <1>4. QED
    BY <1>1, <1>2, <1>3, TempMay, ExitFacts, EndStep

(* Every step keeps the invariants. *)
LEMMA FilesStep ==
  ASSUME RunsInv, [Next]_vars
  PROVE  RunsInv'
  <1>1. TypeInv' /\ RunInv' /\ SingleInv'
    BY TypeStep, ControlStep DEF RunsInv
  <1>2. CompileInv' /\ BuildInv' /\ FrameInv'
    BY QuietStep, CompileStep, CompileDoneStep, MergeStep, OptionsStep, AsmStep, LinkStep,
       BuildStep, CleanStep DEF Next
  <1>3. QED
    BY <1>1, <1>2 DEF RunsInv

(* A run hands on what it is to make, and changes nothing else. *)
THEOREM FilesInvariant == Spec => []RunsInv
  <1>1. Init => CompileInv /\ BuildInv /\ FrameInv
    BY DEF Init, CompileInv, BuildInv, FrameInv, Same
  <1>2. Init => RunsInv
    <2>1. Init => TypeInv
      BY InitType
    <2>2. Init => RunInv /\ SingleInv
      BY DEF Init, RunInv, SingleInv
    <2>3. QED
      BY <1>1, <2>1, <2>2 DEF RunsInv
  <1>3. RunsInv /\ [Next]_vars => RunsInv'
    BY FilesStep
  <1>4. QED
    BY <1>2, <1>3, PTL DEF Spec


-----------------------------------------------------------------------------
(* What runs that succeed leave *)

(* A run succeeds after the only stage it was asked for, or at its end. *)
LEMMA SuccessCases ==
  ASSUME RunsInv, [Next]_vars, Succeeded'
  PROVE  \/ UNCHANGED vars
         \/ Clean
         \/ /\ CompileDone \/ Merge \/ GenerateAsm \/ LinkAsm \/ BuildObject
            /\ ~FailStep /\ Runs(pc) /\ ~perform_all_steps /\ opts.only = {pc}
            /\ opts' = opts /\ before' = before
  <1>1. TypeInv /\ RunInv
    BY DEF RunsInv
  <1>2. pc' = "idle" /\ retval' = 0
    BY DEF Succeeded
  <1>3. ~FailStep
    BY <1>2, FailFacts, ExitFacts
  <1>4. CASE CompileDone \/ Merge \/ GenerateAsm \/ LinkAsm \/ BuildObject
    <2>1. /\ Runs(pc) /\ pc \in Stages
          /\ \E outs, temps : AfterStep(outs, temps)
      BY <1>1, <1>3, <1>4, MergeCases, AsmCases, LinkCases, BuildCases DEF CompileDone, Stages
    <2>2. ~perform_all_steps
      <3>1. pc \in Stages => StepAfter(pc) # "idle"
        BY StageOrder DEF Stages
      <3>2. QED
        BY <1>2, <2>1, <3>1, AfterFacts
    <2>3. opts' = opts /\ before' = before
      BY <2>1, AfterFacts
    <2>4. opts.only = {pc}
      BY <1>1, <2>1, <2>2, StageRuns DEF Stages
    <2>5. QED
      BY <1>3, <1>4, <2>1, <2>2, <2>3, <2>4
  <1>5. CASE CompileNext
    <2>1. pc' = pc /\ pc = "compile"
      BY <1>3, <1>5, CompileCases DEF CompiledOne
    <2>2. QED
      BY <1>2, <2>1
  <1>6. CASE Skip
    BY <1>2, <1>6, StageOrder DEF Skip, Stages
  <1>7. CASE CheckOptions
    BY <1>2, <1>7, StageOrder DEF CheckOptions, Exit
  <1>8. ASSUME NEW o \in Invocations, Invoke(o) PROVE FALSE
    BY <1>2, <1>8 DEF Invoke, Exit
  <1>9. ASSUME NEW s \in Edited, EditSource(s) PROVE FALSE
    BY <1>2, <1>9 DEF EditSource
  <1>10. QED
    BY <1>4, <1>5, <1>6, <1>7, <1>8, <1>9 DEF Next

(* The files of a full build that is not kept, after it. *)
LEMMA CleanLeftovers ==
  ASSUME RunsInv, Clean, Real(opts), ~opts.keep
  PROVE  /\ DOMAIN files' \ DOMAIN before \subseteq {Part(opts, ".class"), Part(opts, ".bc")}
         /\ Part(opts, ".bc") \in DOMAIN files' <=> Part(opts, ".c") \notin ToSet(opts.inputs)
         /\ \A f \in ToSet(opts.inputs) : Change(f, ".bc") \notin DOMAIN files'
  <1>1. pc = "clean" /\ opts \in Invocations /\ FrameInv
    BY TypeParts DEF Clean, RunsInv
  <1>2. opts.only = {} /\ Compilable(opts) /\ AtClean
    BY <1>1, TempMay
  <1>3. /\ opts.mode = "jvm" /\ Part(opts, ".bc") \in DOMAIN files
        /\ ToSet(temp_files) = Outs(opts) \cup {Asm(opts), Part(opts, ".j")}
    BY <1>2 DEF AtClean, Assembled
  <1>4. files' = Without(ToSet(temp_files))
    <2>1. ~Dry
      BY Zenon DEF Dry, Real
    <2>2. QED
      BY <2>1, Zenon DEF Clean
  <1>5. IsRemoved(files', files, ToSet(temp_files))
    BY <1>4, WithoutFacts
  <1>6. DOMAIN files' = DOMAIN files \ (Outs(opts) \cup {Asm(opts), Part(opts, ".j")})
    BY <1>3, <1>5 DEF IsRemoved
  <1>7. DOMAIN files' \ DOMAIN before \subseteq {Part(opts, ".class"), Part(opts, ".bc")}
    <2> SUFFICES ASSUME NEW f \in DOMAIN files, f \notin Outs(opts), f # Asm(opts),
                        f # Part(opts, ".j"), f \notin DOMAIN before
                 PROVE  f \in {Part(opts, ".class"), Part(opts, ".bc")}
      BY <1>6
    <2>1. MayChange(opts, f)
      BY <1>1 DEF FrameInv, Same
    <2>2. QED
      BY <1>2, <2>1 DEF MayChange, Outs
  <1>8. Part(opts, ".bc") \in Outs(opts) <=> Part(opts, ".c") \in ToSet(opts.inputs)
    <2>1. ASSUME NEW f \in ToSet(opts.inputs)
          PROVE  Change(f, ".bc") = Part(opts, ".bc") <=> f = Part(opts, ".c")
      <3>1. f = <<f[1], f[2]>> /\ f[2] = ".c"
        BY <1>1, <1>2, InputFacts, NameFacts DEF Compilable
      <3>2. QED
        BY <3>1 DEF Change, Part
    <2>2. QED
      BY <2>1 DEF Outs
  <1>9. Part(opts, ".bc") # Asm(opts) /\ Part(opts, ".bc") # Part(opts, ".j")
    BY <1>1, <1>3, PartNames DEF Asm
  <1>10. \A f \in ToSet(opts.inputs) : Change(f, ".bc") \in Outs(opts)
    BY DEF Outs
  <1>11. QED
    BY <1>3, <1>6, <1>7, <1>8, <1>9, <1>10

(***************************************************************************)
(* A full build without -K leaves the class file and the merged bitcode;   *)
(* the merged file goes too only where it has the name of a compiled       *)
(* source, whichever files were in the directory before.                   *)
(***************************************************************************)
THEOREM Leftovers == Spec => []OnlyLeftovers
  <1>1. Init => OnlyLeftovers
    BY DEF Init, OnlyLeftovers, Succeeded
  <1>2. ASSUME RunsInv, OnlyLeftovers, [Next]_vars PROVE OnlyLeftovers'
    <2> SUFFICES ASSUME Succeeded', perform_all_steps', ~opts'.dry_run, ~opts'.keep
                 PROVE  LET merged == <<opts'.class, ".bc">>
                            class == <<opts'.class, ".class">>
                        IN  /\ DOMAIN files' \ DOMAIN before' \subseteq {class, merged}
                            /\ merged \in DOMAIN files' <=> <<opts'.class, ".c">> \notin ToSet(opts'.inputs)
                            /\ \A f \in ToSet(opts'.inputs) :
                                 Change(f, ".bc") \in DOMAIN files' => Change(f, ".bc") = merged
      BY Zenon DEF OnlyLeftovers
    <2>1. CASE UNCHANGED vars
      <3>1. /\ files' = files /\ opts' = opts /\ before' = before /\ pc' = pc /\ retval' = retval
        BY <2>1 DEF vars
      <3>2. Succeeded /\ perform_all_steps /\ ~opts.dry_run /\ ~opts.keep
        BY <3>1 DEF Succeeded, perform_all_steps
      <3>3. QED
        BY <1>2, <3>1, <3>2 DEF OnlyLeftovers
    <2>2. CASE Clean
      <3>1. opts' = opts /\ before' = before
        BY <2>2 DEF Clean, config
      <3>2. Real(opts) /\ ~opts.keep
        BY <3>1, Zenon DEF Real
      <3>3. /\ DOMAIN files' \ DOMAIN before \subseteq {Part(opts, ".class"), Part(opts, ".bc")}
            /\ Part(opts, ".bc") \in DOMAIN files' <=> Part(opts, ".c") \notin ToSet(opts.inputs)
            /\ \A f \in ToSet(opts.inputs) : Change(f, ".bc") \notin DOMAIN files'
        BY <1>2, <2>2, <3>2, CleanLeftovers
      <3>4. QED
        BY <3>1, <3>3 DEF Part
    <2>3. CASE ~perform_all_steps /\ opts' = opts
      BY <2>3 DEF perform_all_steps
    <2>4. QED
      BY <1>2, <2>1, <2>2, <2>3, SuccessCases
  <1>3. QED
    BY <1>1, <1>2, FilesInvariant, PTL DEF Spec


(* Products, over the files then. *)
ProductsOf(o, then) ==
    CASE o.only = {} -> {<<Part(o, ".class"), ToSet(o.inputs)>>}
      [] o.only = {"compile"} ->
            {<<IF o.outfile = NoFile THEN Change(f, ".bc") ELSE o.outfile, {f}>> : f \in ToSet(o.inputs)}
      [] o.only = {"merge"} -> {<<o.outfile, ToSet(o.inputs)>>}
      [] o.only = {"genasm"} ->
            {<<Change(f, IF o.mode = "jvm" THEN ".plj" ELSE ".plil"), {f}>> : f \in ToSet(o.inputs)}
      [] o.only = {"link"} -> {<<Change(f, ".j"), {f}>> : f \in ToSet(o.inputs)}
      [] o.only = {"build"} -> {<< <<then[f].class, ".class">>, {f}>> : f \in ToSet(o.inputs)}

(* The same for each stage. *)
LEMMA ProductFacts ==
  ASSUME NEW o, NEW then
  PROVE  /\ o.only = {} => ProductsOf(o, then) = {<<Part(o, ".class"), ToSet(o.inputs)>>}
         /\ o.only = {"compile"} => ProductsOf(o, then) =
              {<<IF o.outfile = NoFile THEN Change(f, ".bc") ELSE o.outfile, {f}>> : f \in ToSet(o.inputs)}
         /\ o.only = {"merge"} => ProductsOf(o, then) = {<<o.outfile, ToSet(o.inputs)>>}
         /\ o.only = {"genasm"} => ProductsOf(o, then) =
              {<<Change(f, IF o.mode = "jvm" THEN ".plj" ELSE ".plil"), {f}>> : f \in ToSet(o.inputs)}
         /\ o.only = {"link"} => ProductsOf(o, then) =
              {<<Change(f, ".j"), {f}>> : f \in ToSet(o.inputs)}
         /\ o.only = {"build"} => ProductsOf(o, then) =
              {<< <<then[f].class, ".class">>, {f}>> : f \in ToSet(o.inputs)}
  <1>1. CASE o.only = {}
    BY <1>1 DEF ProductsOf
  <1>2. CASE o.only = {"compile"}
    BY <1>2 DEF ProductsOf
  <1>3. CASE o.only = {"merge"}
    BY <1>3 DEF ProductsOf
  <1>4. CASE o.only = {"genasm"}
    BY <1>4 DEF ProductsOf
  <1>5. CASE o.only = {"link"}
    BY <1>5 DEF ProductsOf
  <1>6. CASE o.only = {"build"}
    BY <1>6 DEF ProductsOf
  <1>7. QED
    BY <1>1, <1>2, <1>3, <1>4, <1>5, <1>6

(* The versions files F were made from. *)
VersionsOf(then, F) == UNION {then[f].from : f \in F}

(* All products of o are made from what they are to be made from. *)
AllMade(o, then, now) ==
  \A p \in ProductsOf(o, then) : Has(now, p[1], VersionsOf(then, p[2]))

(* Command lines that promise products. *)
Promises(o) == Real(o) /\ ~InPlace(o) /\ (o.mode = "cil" => o.only # {"link"})

(* OutputFromInputs, in these terms. *)
LEMMA OutputParts ==
  /\ OutputFromInputs <=> (Succeeded /\ Promises(opts) => AllMade(opts, before, files))
  /\ OutputFromInputs' <=> (Succeeded' /\ Promises(opts') => AllMade(opts', before', files'))
  <1>1. \A o : Products(o) = ProductsOf(o, before)
    BY DEF Products, ProductsOf, Part
  <1>2. Products(opts)' = ProductsOf(opts', before')
    BY DEF Products, ProductsOf, Part
  <1>3. Promises(opts) <=> ~opts.dry_run /\ ~InPlace(opts) /\ (opts.mode = "cil" => opts.only # {"link"})
    BY Zenon DEF Promises, Real
  <1>4. Promises(opts') <=> ~opts'.dry_run /\ ~InPlace(opts') /\ (opts'.mode = "cil" => opts'.only # {"link"})
    BY Zenon DEF Promises, Real
  <1>5. OutputFromInputs <=> (Succeeded /\ Promises(opts) => AllMade(opts, before, files))
    BY <1>1, <1>3, Zenon DEF OutputFromInputs, AllMade, Has, VersionsOf
  <1>6. OutputFromInputs' <=> (Succeeded' /\ Promises(opts') => AllMade(opts', before', files'))
    BY <1>2, <1>4, Zenon DEF OutputFromInputs, AllMade, Has, InPlace, VersionsOf
  <1>7. QED
    BY <1>5, <1>6

(* One product. *)
LEMMA OneMade ==
  ASSUME NEW o, NEW then, NEW now, NEW f, NEW F,
         ProductsOf(o, then) = {<<f, F>>}, Has(now, f, VersionsOf(then, F))
  PROVE  AllMade(o, then, now)
  <1>1. <<f, F>>[1] = f /\ <<f, F>>[2] = F
    OBVIOUS
  <1>2. QED
    BY <1>1 DEF AllMade

(* A directory with one input. *)
LEMMA OneWanted ==
  ASSUME NEW then, NEW f
  PROVE  VersionsOf(then, {f}) = then[f].from
  BY DEF VersionsOf

(* A compilation that succeeds. *)
LEMMA CompileMade ==
  ASSUME RunsInv, CompileDone, opts.only = {"compile"}, Real(opts)
  PROVE  AllMade(opts, before, files')
  <1>1. /\ pc = "compile" /\ Len(output_files) = Len(input_files) /\ files' = files
        /\ opts \in Invocations /\ CompileInv
    BY TypeParts DEF CompileDone, RunsInv
  <1>2. /\ Len(output_files) = Len(opts.inputs) /\ Len(opts.inputs) \in Nat
        /\ output_files # << >> => ~Misused(opts)
        /\ \A i \in 1 .. Len(opts.inputs) :
             /\ output_files[i] = CompileName(opts, opts.inputs[i])
             /\ Has(files, output_files[i], before[opts.inputs[i]].from)
    BY <1>1, InputFacts DEF CompileInv
  <1>3. ASSUME NEW f \in ToSet(opts.inputs)
        PROVE  LET out == IF opts.outfile = NoFile THEN Change(f, ".bc") ELSE opts.outfile
               IN  Has(files, out, VersionsOf(before, {f}))
    <2>1. PICK i \in 1 .. Len(opts.inputs) : opts.inputs[i] = f
      BY <1>1, InputFacts
    <2>2. Has(files, CompileName(opts, f), before[f].from)
      BY <1>2, <2>1
    <2>3. Len(output_files) # 0
      BY <1>2, <2>1
    <2>4. output_files # << >>
      BY <2>3
    <2>5. opts.outfile # NoFile => Len(opts.inputs) = 1
      <3>1. opts.only # {}
        OBVIOUS
      <3>2. opts.outfile # NoFile => ~(Len(opts.inputs) > 1)
        BY <1>2, <2>4, <3>1 DEF Misused
      <3>3. Len(opts.inputs) \in Nat /\ 1 <= Len(opts.inputs)
        BY <1>2, <2>1
      <3>4. \A n \in Nat : 1 <= n /\ ~(n > 1) => n = 1
        OBVIOUS
      <3>5. QED
        BY <3>2, <3>3, <3>4, Zenon
    <2>6. CompileName(opts, f) = IF opts.outfile = NoFile THEN Change(f, ".bc") ELSE opts.outfile
      BY <2>5 DEF CompileName
    <2>7. QED
      BY <2>2, <2>6, OneWanted
  <1>4. ProductsOf(opts, before) =
          {<<IF opts.outfile = NoFile THEN Change(f, ".bc") ELSE opts.outfile, {f}>> : f \in ToSet(opts.inputs)}
    BY ProductFacts
  <1>5. ASSUME NEW p \in ProductsOf(opts, before)
        PROVE  Has(files, p[1], VersionsOf(before, p[2]))
    <2>1. PICK f \in ToSet(opts.inputs) :
            p = <<IF opts.outfile = NoFile THEN Change(f, ".bc") ELSE opts.outfile, {f}>>
      BY <1>4, <1>5
    <2>2. p[1] = (IF opts.outfile = NoFile THEN Change(f, ".bc") ELSE opts.outfile) /\ p[2] = {f}
      BY <2>1
    <2>3. QED
      BY <1>3, <2>2
  <1>6. QED
    BY <1>1, <1>5 DEF AllMade

(* A single stage that succeeds with one input, and what it wrote. *)
LEMMA StageMade ==
  ASSUME RunsInv, pc \in {"genasm", "link", "build"}, Runs(pc), ~perform_all_steps,
         Len(input_files) = 1, NEW out, NEW c, files' = With(out, c),
         c.from = files[input_files[1]].from,
         ProductsOf(opts, before) = {<<out, {f}>> : f \in ToSet(opts.inputs)}
  PROVE  AllMade(opts, before, files')
  <1>1. input_files = opts.inputs /\ files = before /\ ControlType
    BY SingleFacts, TypeParts DEF RunsInv
  <1>2. ToSet(opts.inputs) = {opts.inputs[1]}
    BY <1>1, OneInput
  <1>3. IsWritten(files', files, out, c)
    BY WithFacts
  <1>4. Has(files', out, before[opts.inputs[1]].from)
    BY <1>1, <1>3 DEF IsWritten, Has
  <1>5. ProductsOf(opts, before) = {<<out, {opts.inputs[1]}>>}
    BY <1>2
  <1>6. Has(files', out, VersionsOf(before, {opts.inputs[1]}))
    BY <1>4, OneWanted
  <1>7. PICK F : F = {opts.inputs[1]}
    OBVIOUS
  <1>8. QED
    BY <1>5, <1>6, <1>7, OneMade


(* A full build that succeeds. *)
LEMMA CleanMade ==
  ASSUME RunsInv, Clean, Real(opts)
  PROVE  AllMade(opts, before, files')
  <1>1. pc = "clean" /\ opts \in Invocations
    BY TypeParts DEF Clean, RunsInv
  <1>2. opts.only = {} /\ AtClean
    BY <1>1, TempMay
  <1>3. /\ ToSet(temp_files) = Outs(opts) \cup {Asm(opts), Part(opts, ".j")}
        /\ Has(files, Part(opts, ".class"), Wanted(opts, before))
    BY <1>2 DEF AtClean, Assembled
  <1>4. Part(opts, ".class") \notin ToSet(temp_files)
    <2>1. Ext(Part(opts, ".class")) = ".class"
      BY <1>1, PartNames
    <2>2. \A f \in Outs(opts) : Ext(f) = ".bc"
      BY DEF Outs, Ext, Change
    <2>3. Ext(Asm(opts)) \in {".plj", ".plil"} /\ Ext(Part(opts, ".j")) = ".j"
      BY <1>1, PartNames DEF Asm
    <2>4. QED
      BY <1>3, <2>1, <2>2, <2>3
  <1>5. Has(files', Part(opts, ".class"), Wanted(opts, before))
    <2>1. CASE files' = files
      BY <1>3, <2>1
    <2>2. CASE files' = Without(ToSet(temp_files))
      <3>1. IsRemoved(files', files, ToSet(temp_files))
        BY <2>2, WithoutFacts
      <3>2. QED
        BY <1>3, <1>4, <3>1 DEF Has, IsRemoved
    <2>3. QED
      BY <2>1, <2>2 DEF Clean
  <1>6. PICK F : F = ToSet(opts.inputs)
    OBVIOUS
  <1>7. Wanted(opts, before) = VersionsOf(before, F)
    BY <1>6 DEF Wanted, VersionsOf
  <1>8. ProductsOf(opts, before) = {<<Part(opts, ".class"), F>>}
    BY <1>2, <1>6, ProductFacts
  <1>9. QED
    BY <1>5, <1>7, <1>8, OneMade

(* A merge that succeeds. *)
LEMMA MergeMade ==
  ASSUME RunsInv, Merge, ~FailStep, ~perform_all_steps, Real(opts)
  PROVE  AllMade(opts, before, files')
  <1> DEFINE from == UNION {files[f].from : f \in ToSet(input_files)}
             c == Made(from, None, NoMap)
  <1>1. ~Dry
    BY Zenon DEF Dry, Real
  <1>2. pc = "merge" /\ Runs(pc) /\ files' = With(MergeOutput, c)
    BY <1>1, MergeCases
  <1>3. opts.only = {"merge"} /\ input_files = opts.inputs /\ files = before
    BY <1>2, SingleFacts
  <1>4. MergeOutput = opts.outfile
    BY DEF MergeOutput
  <1>5. PICK F : F = ToSet(opts.inputs)
    OBVIOUS
  <1>6. c.from = VersionsOf(before, F)
    BY <1>3, <1>5 DEF Made, VersionsOf
  <1> HIDE DEF c
  <1>7. IsWritten(files', files, opts.outfile, c)
    BY <1>2, <1>4, WithFacts
  <1>8. Has(files', opts.outfile, VersionsOf(before, F))
    BY <1>6, <1>7 DEF IsWritten, Has
  <1>9. ProductsOf(opts, before) = {<<opts.outfile, F>>}
    BY <1>3, <1>5, ProductFacts
  <1>10. QED
    BY <1>8, <1>9, OneMade

(* The input of a stage of its own. *)
LEMMA SingleInput ==
  ASSUME RunsInv, Runs(pc), pc \in {"genasm", "link", "build"}, ~perform_all_steps,
         Len(input_files) = 1
  PROVE  /\ opts.only = {pc} /\ input_files = opts.inputs /\ files = before
         /\ ToSet(opts.inputs) = {input_files[1]} /\ input_files[1] \in Names
  <1>1. opts.only = {pc} /\ input_files = opts.inputs /\ files = before
    BY SingleFacts
  <1>2. ControlType
    BY TypeParts DEF RunsInv
  <1>3. QED
    BY <1>1, <1>2, OneInput

(* generateAsm, when it succeeds on its own. *)
LEMMA AsmMade ==
  ASSUME RunsInv, GenerateAsm, ~FailStep, ~perform_all_steps, Real(opts)
  PROVE  AllMade(opts, before, files')
  <1> DEFINE in == input_files[1]
             out == AsmOf(in)
             c == Made(files[in].from, opts.class, NoMap)
  <1>1. ~Dry
    BY Zenon DEF Dry, Real
  <1>2. pc = "genasm" /\ Runs(pc) /\ Len(input_files) = 1 /\ files' = With(out, c)
    BY <1>1, AsmCases
  <1>3. opts.only = {"genasm"} /\ ToSet(opts.inputs) = {in}
    BY <1>2, SingleInput
  <1>4. ProductsOf(opts, before) = {<<out, {f}>> : f \in ToSet(opts.inputs)}
    <2>1. ProductsOf(opts, before) =
            {<<Change(f, IF opts.mode = "jvm" THEN ".plj" ELSE ".plil"), {f}>> : f \in ToSet(opts.inputs)}
      BY <1>3, ProductFacts
    <2>2. \A f \in ToSet(opts.inputs) :
            Change(f, IF opts.mode = "jvm" THEN ".plj" ELSE ".plil") = out
      BY <1>3 DEF AsmOf
    <2> HIDE DEF out
    <2>3. QED
      BY <2>1, <2>2
  <1>5. c.from = files[in].from
    BY DEF Made
  <1> HIDE DEF c, out
  <1>6. QED
    BY <1>2, <1>4, <1>5, StageMade

(* A link that succeeds on its own. *)
LEMMA LinkMade ==
  ASSUME RunsInv, LinkAsm, ~FailStep, ~perform_all_steps, Promises(opts)
  PROVE  AllMade(opts, before, files')
  <1> DEFINE in == input_files[1]
             out == Change(in, ".j")
  <1>1. TypeInv
    BY DEF RunsInv
  <1>2. /\ pc = "link" /\ Runs(pc) /\ Len(input_files) = 1
        /\ \/ opts.mode = "cil"
           \/ \E c : IsLinked(c, in, out) /\ files' = With(out, c)
    BY <1>1, LinkCases
  <1>3. /\ opts.only = {"link"} /\ ToSet(opts.inputs) = {in} /\ input_files = opts.inputs
        /\ in \in Names
    BY <1>2, SingleInput
  <1>4. PICK c : IsLinked(c, in, out) /\ files' = With(out, c)
    BY <1>2, <1>3 DEF Promises
  <1>5. Ext(in) # ".j"
    BY <1>2, <1>3 DEF Promises, InPlace
  <1>6. in # out
    BY <1>3, <1>5, NameFacts
  <1>7. c.from = files[in].from
    BY <1>4, <1>6 DEF IsLinked, Text
  <1>8. ProductsOf(opts, before) = {<<out, {f}>> : f \in ToSet(opts.inputs)}
    <2>1. ProductsOf(opts, before) = {<<Change(f, ".j"), {f}>> : f \in ToSet(opts.inputs)}
      BY <1>3, ProductFacts
    <2>2. \A f \in ToSet(opts.inputs) : Change(f, ".j") = out
      BY <1>3
    <2> HIDE DEF out
    <2>3. QED
      BY <2>1, <2>2
  <1> HIDE DEF out
  <1>9. QED
    BY <1>2, <1>4, <1>7, <1>8, StageMade

(* buildObject, when it succeeds on its own. *)
LEMMA BuildMade ==
  ASSUME RunsInv, BuildObject, ~FailStep, ~perform_all_steps
  PROVE  AllMade(opts, before, files')
  <1> DEFINE in == input_files[1]
             out == <<files[in].class, ".class">>
  <1>1. pc = "build" /\ Runs(pc) /\ Len(input_files) = 1 /\ files' = With(out, files[in])
    BY BuildCases
  <1>2. opts.only = {"build"} /\ ToSet(opts.inputs) = {in} /\ files = before
    BY <1>1, SingleInput
  <1>3. ProductsOf(opts, before) = {<<out, {f}>> : f \in ToSet(opts.inputs)}
    <2>1. ProductsOf(opts, before) =
            {<< <<before[f].class, ".class">>, {f}>> : f \in ToSet(opts.inputs)}
      BY <1>2, ProductFacts
    <2>2. \A f \in ToSet(opts.inputs) : <<before[f].class, ".class">> = out
      BY <1>2
    <2> HIDE DEF out
    <2>3. QED
      BY <2>1, <2>2
  <1> HIDE DEF out
  <1>4. QED
    BY <1>1, <1>3, StageMade

(***************************************************************************)
(* A run that exits with 0 has made what it was asked for from the inputs  *)
(* as they were when it started, for any command lines in any order: no    *)
(* stage takes a file an earlier run left for one of its own.  Dry runs,   *)
(* links of a .j file and CIL links are left out.                          *)
(***************************************************************************)
THEOREM OutputsFromInputs == Spec => []OutputFromInputs
  <1>1. Init => OutputFromInputs
    BY DEF Init, OutputFromInputs, Succeeded
  <1>2. ASSUME RunsInv, OutputFromInputs, [Next]_vars PROVE OutputFromInputs'
    <2> SUFFICES ASSUME Succeeded', Promises(opts')
                 PROVE  AllMade(opts', before', files')
      BY OutputParts
    <2>1. CASE UNCHANGED vars
      <3>1. files' = files /\ opts' = opts /\ before' = before /\ pc' = pc /\ retval' = retval
        BY <2>1 DEF vars
      <3>2. Succeeded
        BY <3>1 DEF Succeeded
      <3>3. QED
        BY <1>2, <3>1, <3>2, OutputParts
    <2>2. CASE Clean
      <3>1. opts' = opts /\ before' = before
        BY <2>2 DEF Clean, config
      <3>2. QED
        BY <1>2, <2>2, <3>1, CleanMade DEF Promises
    <2>3. CASE /\ CompileDone \/ Merge \/ GenerateAsm \/ LinkAsm \/ BuildObject
               /\ ~FailStep /\ Runs(pc) /\ ~perform_all_steps /\ opts.only = {pc}
               /\ opts' = opts /\ before' = before
      <3>1. Promises(opts) /\ Real(opts)
        BY <2>3 DEF Promises
      <3>2. CompileDone => opts.only = {"compile"}
        BY <2>3 DEF CompileDone
      <3>3. AllMade(opts, before, files')
        BY <1>2, <2>3, <3>1, <3>2, CompileMade, MergeMade, AsmMade, LinkMade, BuildMade
      <3>4. QED
        BY <2>3, <3>3
    <2>4. QED
      BY <1>2, <2>1, <2>2, <2>3, SuccessCases
  <1>3. QED
    BY <1>1, <1>2, FilesInvariant, PTL DEF Spec


-----------------------------------------------------------------------------
(* The inputs of a run *)

(***************************************************************************)
(* With InputsApart, no stage may change an input or a .j library, but for *)
(* the file the link writes.                                               *)
(***************************************************************************)
LEMMA InputsSafe ==
  ASSUME InputsApart, NEW o \in Invocations,
         NEW f \in ToSet(o.inputs) \cup JLibs(o), f # LinkTarget(o)
  PROVE  ~MayChange(o, f)
  <1>1. Ext(f) # ".j" => f \in ToSet(o.inputs)
    BY DEF JLibs
  <1>2. Len(o.inputs) = 1 /\ f \in ToSet(o.inputs) => f = o.inputs[1]
    <2> SUFFICES ASSUME Len(o.inputs) = 1, f \in ToSet(o.inputs) PROVE f = o.inputs[1]
      OBVIOUS
    <2>1. PICK i \in 1 .. Len(o.inputs) : o.inputs[i] = f
      BY InputFacts
    <2>2. i = 1
      BY <2>1
    <2>3. QED
      BY <2>1, <2>2
  <1>3. \A g, e : Ext(Change(g, e)) = e
    BY DEF Ext, Change
  <1>4. f \in ToSet(o.inputs) \cup ToSet(o.libs)
    BY DEF JLibs
  <1>5. CASE o.only = {}
    <2>1. /\ Ext(Part(o, ".bc")) = ".bc" /\ Ext(Part(o, ".class")) = ".class"
          /\ Ext(Asm(o)) \in {".plj", ".plil"}
      BY PartNames DEF Asm
    <2>2. Compilable(o) /\ Ext(f) # ".j" => Ext(f) = ".c"
      BY <1>1 DEF Compilable
    <2>3. \A g \in ToSet(o.inputs) : Ext(g) = ".c" => f # Change(g, ".bc")
      <3>1. CASE Ext(f) = ".j"
        BY <1>3, <3>1
      <3>2. CASE f \in ToSet(o.inputs)
        BY <1>5, <3>2 DEF InputsApart
      <3>3. QED
        BY <1>1, <3>1, <3>2
    <2>4. o.mode = "jvm" => f # Part(o, ".j")
      BY <1>5 DEF LinkTarget, Part
    <2>5. QED
      BY <1>5, <2>1, <2>2, <2>3, <2>4 DEF MayChange
  <1>6. CASE o.only = {"compile"}
    <2>1. \A g \in ToSet(o.inputs) : Ext(g) = ".c" => f # Change(g, ".bc")
      <3>1. CASE Ext(f) = ".j"
        BY <1>3, <3>1
      <3>2. CASE f \in ToSet(o.inputs)
        BY <1>6, <3>2 DEF InputsApart
      <3>3. QED
        BY <1>1, <3>1, <3>2
    <2>2. f # o.outfile
      BY <1>4, <1>6 DEF InputsApart
    <2>3. QED
      BY <1>6, <2>1, <2>2 DEF MayChange
  <1>7. CASE o.only = {"merge"}
    <2>1. f # o.outfile
      BY <1>4, <1>7 DEF InputsApart
    <2>2. QED
      BY <1>7, <2>1 DEF MayChange
  <1>8. CASE o.only = {"genasm"}
    BY <1>1, <1>2, <1>3, <1>8 DEF MayChange
  <1>9. CASE o.only = {"link"}
    <2>1. /\ o.mode = "jvm" /\ Len(o.inputs) = 1 /\ Ext(o.inputs[1]) \in {".j", ".plj"}
          => f # Change(o.inputs[1], ".j")
      BY <1>9 DEF LinkTarget
    <2>2. QED
      BY <1>9, <2>1 DEF MayChange
  <1>10. CASE o.only = {"build"}
    BY <1>1, <1>2, <1>10 DEF MayChange
  <1>11. QED
    BY <1>5, <1>6, <1>7, <1>8, <1>9, <1>10 DEF MayChange

(***************************************************************************)
(* No run, failed runs included, changes or removes an input or a .j       *)
(* library of its command line, except where it is the file the run's own  *)
(* link writes: for any command lines in any order.                        *)
(***************************************************************************)
THEOREM InputsStay ==
  ASSUME InputsApart
  PROVE  Spec => []InputsKept
  <1>1. RunsInv => InputsKept
    <2> SUFFICES ASSUME RunsInv,
                        NEW f \in (ToSet(opts.inputs) \cup JLibs(opts)) \cap DOMAIN before,
                        f # LinkTarget(opts)
                 PROVE  f \in DOMAIN files /\ files[f] = before[f]
      BY DEF InputsKept
    <2>1. opts \in Invocations /\ FrameInv
      BY TypeParts DEF RunsInv
    <2>2. ~MayChange(opts, f)
      BY <2>1, InputsSafe
    <2>3. Same(files, before, f)
      BY <2>1, <2>2 DEF FrameInv
    <2>4. QED
      BY <2>3 DEF Same
  <1>2. QED
    BY <1>1, FilesInvariant, PTL DEF Spec
=============================================================================
