------------------------------- MODULE Linker -------------------------------
(***************************************************************************)
(* The Jasmin linker (llxvm-cc/jlinker/jasminlinker.cpp): which class an   *)
(* external reference of a .plj file is replaced by.                       *)
(*                                                                         *)
(* A symbol stands for a method signature or a field with its type: each   *)
(* kind has a map of its own, built and read in the same way.  A jar is    *)
(* the classes it holds, each with its public static symbols.  References  *)
(* without a prototype are left out: they become a stub that throws.       *)
(***************************************************************************)
EXTENDS Naturals, Sequences, SequencesExt, FiniteSets

CONSTANTS
    Jars,      \* readable jar -> (class name -> set of symbols)
    Dirs,      \* existing directory -> set of the jars in it
    ClassOrder \* the class names, in the order of std::map<std::string, ...>

ASSUME LibraryAssumption ==
    /\ ClassOrder \in Seq(STRING)
    /\ \A j \in DOMAIN Jars : DOMAIN Jars[j] \subseteq ToSet(ClassOrder)
    /\ \A d \in DOMAIN Dirs : IsFiniteSet(Dirs[d]) /\ Dirs[d] \subseteq DOMAIN Jars

NoMap == << >>

\* Entries of new replace those of map.
Put(map, new) ==
    [x \in DOMAIN map \cup DOMAIN new |-> IF x \in DOMAIN new THEN new[x] ELSE map[x]]

(***************************************************************************)
(* scan_dir, then scan_file of each -l: the entries of a directory come in *)
(* the order of the file system, which may be any; a missing directory is  *)
(* ignored.  Libraries are kept by their positions, of which those of the  *)
(* other kind are left out.                                                *)
(***************************************************************************)
DirOrders(dir) == IF dir \in DOMAIN Dirs THEN SetToSeqs(Dirs[dir]) ELSE {<< >>}
ReadAfter(o, jars) ==
    [i \in DOMAIN o \cup {Len(o) + k : k \in DOMAIN jars} |->
        IF i \in DOMAIN o THEN o[i] ELSE jars[i - Len(o)]]
JarOrders(dir, jars) == {ReadAfter(o, jars) : o \in DirOrders(dir)}

(***************************************************************************)
(* scan_jar: a class read later replaces one of the same name.             *)
(***************************************************************************)
lib_classes_First(jars) ==
    [c \in UNION {DOMAIN Jars[jars[i]] : i \in DOMAIN jars} |->
        Jars[jars[Min({i \in DOMAIN jars : c \in DOMAIN Jars[jars[i]]})]][c]]

lib_classes(jars) ==
    [c \in UNION {DOMAIN Jars[jars[i]] : i \in DOMAIN jars} |->
        Jars[jars[Max({i \in DOMAIN jars : c \in DOMAIN Jars[jars[i]]})]][c]]

SymbolsOf(classes) == UNION {classes[c] : c \in DOMAIN classes}

(***************************************************************************)
(* buildMethodMap, buildFieldMap: the classes are entered by name, so that *)
(* the last one that has the symbol stays.                                 *)
(***************************************************************************)
buildMethodMap(classes) ==
    [s \in SymbolsOf(classes) |->
        ClassOrder[Max({i \in DOMAIN ClassOrder :
                            /\ ClassOrder[i] \in DOMAIN classes
                            /\ s \in classes[ClassOrder[i]]})]]

(***************************************************************************)
(* scan_jasmin: the symbols of a .j library go to the map at once.         *)
(* units: the .j libraries read, each with its class and symbols; a later  *)
(* one replaces the entries of those before it.                            *)
(***************************************************************************)
scan_jasmin(units) ==
    [s \in UNION {units[i].defines : i \in DOMAIN units} |->
        units[Max({i \in DOMAIN units : s \in units[i].defines})].class]

\* Jar by jar instead of by class name.
method_map_LastJar(jars, units) ==
    FoldLeft(LAMBDA known, jar : Put(known, buildMethodMap(Jars[jar])), scan_jasmin(units), jars)

\* The symbols of jars take the place of those of .j libraries.
method_map(jars, units) == Put(scan_jasmin(units), buildMethodMap(lib_classes(jars)))

(***************************************************************************)
(* readExtern, linkStatic: the references that are resolved, and the       *)
(* number of those that are not.                                           *)
(***************************************************************************)
linkStatic_Lenient(externs, map) ==
    [refs |-> [s \in externs \cap DOMAIN map |-> map[s]], unresolved |-> 0]

linkStatic(externs, map) ==
    [refs |-> [s \in externs \cap DOMAIN map |-> map[s]],
     unresolved |-> Cardinality(externs \ DOMAIN map)]
=============================================================================
