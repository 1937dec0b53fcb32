------------------------------- MODULE Driver -------------------------------
(***************************************************************************)
(* The compiler driver (llxvm-cc/main.cpp, JvmAsmDriver.cpp, and           *)
(* CILAsmDriver.cpp as far as it differs) over the files of one directory, *)
(* with the linker it calls.  The user runs it again and again, with any   *)
(* of the command lines Invocations, and edits sources in between.         *)
(*                                                                         *)
(* A file is <<stem, extension>>.  Its contents are reduced to the source  *)
(* versions they were made from, the class they define, and the external   *)
(* references a link has resolved.  clang, llvm-link, the backend and the  *)
(* assembler are external: they make their output or fail.                 *)
(***************************************************************************)
EXTENDS Linker, Integers

CONSTANTS
    Defines, Uses, \* source stem -> symbols it defines, symbols it refers to
    Invocations,   \* the command lines
    Edited,        \* the sources the user edits, and
    MaxVersion,    \* up to which version
    MaxRuns        \* number of runs of the driver

None == "none"
NoFile == <<None, None>>

Sources == DOMAIN Defines
Symbols == UNION {Uses[s] : s \in Sources}
ClassNames == {o.class : o \in Invocations}
Stages == {"compile", "merge", "genasm", "link", "build"}
FileName == STRING \X STRING

ASSUME SourceAssumption ==
    /\ IsFiniteSet(Symbols) /\ Edited \subseteq Sources
    /\ MaxVersion \in Nat \ {0} /\ MaxRuns \in Nat

\* What the options parse to.
ASSUME InvocationAssumption ==
    /\ Invocations \subseteq
          [only : SUBSET Stages, class : STRING, inputs : Seq(FileName), outfile : FileName,
           libs : Seq(FileName), dir : STRING, dry_run : BOOLEAN, keep : BOOLEAN,
           mode : {"jvm", "cil"}]
    /\ ClassNames \subseteq ToSet(ClassOrder) \cup {None}

VARIABLES
    files,         \* the directory: file name -> contents
    pc,            \* the stage of the driver, or "idle"
    opts,          \* the command line of the current or last run
    input_files, output_files, temp_files,
    retval,        \* exit status: 0, 1, or -1 for a refused command line
    runs,          \* number of runs so far
    before         \* history: the directory when the run started

vars == <<files, pc, opts, input_files, output_files, temp_files, retval, runs, before>>
lists == <<input_files, output_files, temp_files>>
config == <<opts, runs, before>>   \* what a run keeps from its start to its end

Ext(f) == f[2]
Change(f, ext) == <<f[1], ext>>    \* filename_change_ext; stem() + suffix

Made(from, class, refs) == [from |-> from, class |-> class, refs |-> refs]
NoText == Made({}, None, NoMap)    \* an empty or unfinished file

DefinedBy(c) == UNION {Defines[v[1]] : v \in c.from}
ExternsOf(c) == UNION {Uses[v[1]] : v \in c.from} \ DefinedBy(c)

With(f, c) == Put(files, [x \in {f} |-> c])
Without(fs) == [f \in DOMAIN files \ fs |-> files[f]]

Init ==
    /\ \E exts \in {{".c"}, {".c", ".bc"}} :     \* bitcode may come from elsewhere
          files = [f \in Sources \X exts |-> Made({<<f[1], 1>>}, None, NoMap)]
    /\ pc = "idle"
    /\ opts \in {o \in Invocations : o.only = {}}
    /\ input_files = << >> /\ output_files = << >> /\ temp_files = << >>
    /\ retval = -1 /\ runs = 0
    /\ before = files

EditSource(s) ==
    /\ pc = "idle"
    /\ \E v \in 1 .. MaxVersion - 1 :
          /\ files[<<s, ".c">>].from = {<<s, v>>}
          /\ files' = With(<<s, ".c">>, Made({<<s, v + 1>>}, None, NoMap))
          /\ before' = files'
    /\ retval' = -1
    /\ UNCHANGED <<pc, opts, runs, lists>>

-----------------------------------------------------------------------------
Steps == <<"compile", "merge", "options", "genasm", "link", "build", "clean">>
StepAfter(step) == Steps[1 + CHOOSE i \in DOMAIN Steps : Steps[i] = step]

perform_all_steps == opts.only = {}
Runs(step) == perform_all_steps \/ step \in opts.only

Exit(rc) ==
    /\ pc' = "idle" /\ retval' = rc
    /\ input_files' = << >> /\ output_files' = << >> /\ temp_files' = << >>

(***************************************************************************)
(* The command line, up to the first stage.                                *)
(***************************************************************************)
Refused(o) ==
    \/ (o.only = {} \/ "genasm" \in o.only) /\ o.class = None
    \/ Cardinality(o.only) > 1

Invoke(o) ==
    /\ pc = "idle" /\ runs < MaxRuns
    /\ opts' = o /\ runs' = runs + 1 /\ before' = files
    /\ IF Refused(o)
       THEN Exit(-1)
       ELSE /\ pc' = "compile" /\ retval' = 0
            /\ input_files' = o.inputs /\ output_files' = << >> /\ temp_files' = << >>
    /\ UNCHANGED files

(***************************************************************************)
(* PERFORM_OPT_STEP: a stage that is not asked for is passed over.  One    *)
(* that is starts with no output files and hands those it makes to the     *)
(* next stage; the run ends on an error or after the only stage.           *)
(***************************************************************************)
Skip ==
    /\ pc \in Stages /\ ~Runs(pc)
    /\ pc' = StepAfter(pc)
    /\ UNCHANGED <<files, lists, retval, config>>

AfterStep(outs, temps) ==
    /\ IF pc \in opts.only
       THEN Exit(0)
       ELSE /\ pc' = StepAfter(pc)
            /\ input_files' = outs /\ output_files' = << >> /\ temp_files' = temps
            /\ UNCHANGED retval
    /\ UNCHANGED config

FailStep == Exit(1) /\ UNCHANGED config

TempIfAll_Never(f) == temp_files
TempIfAll(f) == IF perform_all_steps THEN Append(temp_files, f) ELSE temp_files

\* main passes the option on to the assembler driver.
Dry == opts.dry_run

(***************************************************************************)
(* do_compile, one file a step.                                            *)
(***************************************************************************)
OutfileMisused == Len(input_files) > 1 /\ opts.outfile # NoFile /\ ~perform_all_steps

CompileOutput_Object(f) == Change(f, ".o")
CompileOutput(f) ==
    IF Len(input_files) = 1 /\ opts.outfile # NoFile /\ ~perform_all_steps
    THEN opts.outfile ELSE Change(f, ".bc")

Compiled_UpToDate(f, out) == IF out \in DOMAIN files THEN files ELSE With(out, files[f])
Compiled(f, out) == With(out, files[f])

CompileNext ==
    /\ pc = "compile" /\ Runs(pc) /\ Len(output_files) < Len(input_files)
    /\ LET f == input_files[Len(output_files) + 1]
           out == CompileOutput(f)
       IN  \/ /\ ~OutfileMisused /\ Ext(f) = ".c"
              /\ IF Dry
                 THEN UNCHANGED files
                 ELSE f \in DOMAIN files /\ files' = Compiled(f, out)
              /\ output_files' = Append(output_files, out)
              /\ temp_files' = TempIfAll(out)
              /\ UNCHANGED <<pc, input_files, retval, config>>
           \/ /\ OutfileMisused \/ Ext(f) # ".c"
              /\ FailStep /\ UNCHANGED files
           \/ /\ ~OutfileMisused /\ Ext(f) = ".c" /\ ~Dry
              /\ FailStep /\ files' \in {files, Without({out})}    \* clang fails

CompileDone ==
    /\ pc = "compile" /\ Runs(pc) /\ Len(output_files) = Len(input_files)
    /\ AfterStep(output_files, temp_files)
    /\ UNCHANGED files

(***************************************************************************)
(* do_merge_bc.  The merged file of a full build is not a temporary file.  *)
(***************************************************************************)
MergeRefused ==
    \/ ~perform_all_steps /\ opts.outfile = NoFile
    \/ opts.class = None
    \/ \E i \in DOMAIN input_files : Ext(input_files[i]) # ".bc"

MergeOutput_First == input_files[1]
MergeOutput == IF perform_all_steps THEN <<opts.class, ".bc">> ELSE opts.outfile

Merge ==
    /\ pc = "merge" /\ Runs(pc)
    /\ \/ /\ ~MergeRefused /\ Dry
          /\ AfterStep(<<MergeOutput>>, temp_files)
          /\ UNCHANGED files
       \/ /\ ~MergeRefused /\ ~Dry
          /\ input_files # << >> /\ ToSet(input_files) \subseteq DOMAIN files
          /\ files' = With(MergeOutput,
                           Made(UNION {files[f].from : f \in ToSet(input_files)}, None, NoMap))
          /\ AfterStep(<<MergeOutput>>, temp_files)
       \/ /\ MergeRefused \/ ~Dry                         \* llvm-link fails
          /\ FailStep /\ UNCHANGED files

\* main between do_merge_bc and the assembler stages: -o with several files.
CheckOptions ==
    /\ pc = "options"
    /\ IF opts.outfile # NoFile /\ Len(input_files) > 1
       THEN Exit(-1)
       ELSE pc' = StepAfter(pc) /\ UNCHANGED <<retval, lists>>
    /\ UNCHANGED <<files, config>>

(***************************************************************************)
(* generateAsm.  The output files were cleared by PERFORM_OPT_STEP, so     *)
(* that -o names nothing here.  jvm_backend returns 0 or not at all: on    *)
(* bitcode it cannot handle the process ends, before or after it has begun *)
(* to write: nothing yet, the class, or the class and all its references.  *)
(***************************************************************************)
Unfinished(in) ==
    {NoText} \cup {Made(from, opts.class, NoMap) : from \in {{}, files[in].from}}

GenerateAsm ==
    /\ pc = "genasm" /\ Runs(pc)
    /\ LET bad == Len(input_files) # 1 \/ Ext(input_files[1]) \notin {".bc", ".ll"}
           in == input_files[1]
           out == Change(in, IF opts.mode = "jvm" THEN ".plj" ELSE ".plil")
       IN  \/ /\ ~bad
              /\ IF Dry
                 THEN UNCHANGED files
                 ELSE /\ in \in DOMAIN files
                      /\ files' = With(out, Made(files[in].from, opts.class, NoMap))
              /\ AfterStep(<<out>>, TempIfAll(out))
           \/ /\ bad
              /\ FailStep /\ UNCHANGED files
           \/ /\ ~bad /\ ~Dry
              /\ FailStep
              /\ \/ UNCHANGED files
                 \/ in \in DOMAIN files /\ \E text \in Unfinished(in) : files' = With(out, text)

(***************************************************************************)
(* linkAsm with JasminLinker::performLink.  The output is opened, and so   *)
(* emptied, before the input is read.  In CIL mode the stage only refuses  *)
(* what is not a .j or .plj file.                                          *)
(***************************************************************************)
LinkUnits(in, out) ==
    [i \in {k \in DOMAIN opts.libs : Ext(opts.libs[k]) = ".j" /\ opts.libs[k] \notin {in, out}} |->
        [class |-> files[opts.libs[i]].class, defines |-> DefinedBy(files[opts.libs[i]])]]

LibraryRefused(in, out) ==
    \E i \in DOMAIN opts.libs :
        LET l == opts.libs[i] IN
        ~ \/ Ext(l) = ".jar" /\ l[1] \in DOMAIN Jars
          \/ Ext(l) = ".j" /\ (l \in {in, out} \/ (l \in DOMAIN files /\ files[l].class # None))

JarsNamed == [i \in {k \in DOMAIN opts.libs : Ext(opts.libs[k]) = ".jar"} |-> opts.libs[i][1]]

Text(in, out) == IF in = out THEN NoText ELSE files[in]

LinkAsm ==
    /\ pc = "link" /\ Runs(pc)
    /\ LET bad == Len(input_files) # 1 \/ Ext(input_files[1]) \notin {".j", ".plj"}
           in == input_files[1]
           out == Change(in, ".j")
       IN  \/ /\ bad
              /\ FailStep /\ UNCHANGED files
           \/ /\ ~bad /\ opts.mode = "cil"
              /\ AfterStep(<< >>, temp_files) /\ UNCHANGED files
           \/ /\ ~bad /\ opts.mode = "jvm"
              /\ in \notin DOMAIN files
              /\ FailStep /\ UNCHANGED files
           \/ /\ ~bad /\ opts.mode = "jvm"
              /\ in \in DOMAIN files /\ LibraryRefused(in, out)
              /\ FailStep /\ files' = Without({out})
           \/ /\ ~bad /\ opts.mode = "jvm"
              /\ in \in DOMAIN files /\ ~LibraryRefused(in, out)
              /\ \E jars \in JarOrders(opts.dir, JarsNamed) :
                    LET text == Text(in, out)
                        linked == linkStatic(ExternsOf(text), method_map(jars, LinkUnits(in, out)))
                    IN  IF linked.unresolved > 0
                        THEN FailStep /\ files' = Without({out})
                        ELSE /\ files' = With(out, [text EXCEPT !.refs = linked.refs])
                             /\ AfterStep(<<out>>, TempIfAll(out))

(***************************************************************************)
(* buildObject: the assembler names the class file after the class in the  *)
(* .j file.  It is run in a dry run too; it adds no output file.           *)
(***************************************************************************)
BuildObject ==
    /\ pc = "build" /\ Runs(pc)
    /\ LET bad == Len(input_files) # 1 \/ Ext(input_files[1]) # ".j"
           in == input_files[1]
       IN  \/ /\ ~bad /\ in \in DOMAIN files /\ files[in].class # None
              /\ files' = With(<<files[in].class, ".class">>, files[in])
              /\ AfterStep(<< >>, temp_files)
           \/ FailStep /\ UNCHANGED files      \* bad input, no assembler, or it fails

Clean ==
    /\ pc = "clean"
    /\ files' = IF opts.keep \/ Dry THEN files ELSE Without(ToSet(temp_files))
    /\ Exit(0)
    /\ UNCHANGED config

Next ==
    \/ \E s \in Edited : EditSource(s)
    \/ \E o \in Invocations : Invoke(o)
    \/ Skip
    \/ CompileNext \/ CompileDone
    \/ Merge
    \/ CheckOptions
    \/ GenerateAsm
    \/ LinkAsm
    \/ BuildObject
    \/ Clean

Spec == Init /\ [][Next]_vars

-----------------------------------------------------------------------------
(***************************************************************************)
(* Two things the driver leaves to the user, on which InputsKept and       *)
(* JFilesLinked depend: -o of a compilation or a merge names no input or   *)
(* library, and no bitcode is given to be compiled beside the source of    *)
(* that name; and -o of those stages names no .j file.                     *)
(***************************************************************************)
InputsApart ==
    \A o \in Invocations :
        /\ o.only \cap {"compile", "merge"} # {} => o.outfile \notin ToSet(o.inputs) \cup ToSet(o.libs)
        /\ o.only \in {{}, {"compile"}} =>
              \A f, g \in ToSet(o.inputs) : Ext(g) = ".c" => f # Change(g, ".bc")

BitcodeNamed ==
    \A o \in Invocations : o.only \cap {"compile", "merge"} # {} => Ext(o.outfile) # ".j"

-----------------------------------------------------------------------------
Named == UNION {ToSet(o.inputs) \cup {o.outfile} : o \in Invocations}
Stems == Sources \cup ClassNames \cup {f[1] : f \in Named}
Exts == {".c", ".bc", ".plj", ".plil", ".j", ".class"} \cup {f[2] : f \in Named}
Contents == [from : SUBSET (Sources \X (1 .. MaxVersion)),
             class : ClassNames \cup {None},
             refs : UNION {[S -> ToSet(ClassOrder)] : S \in SUBSET Symbols}]

\* The files, the file lists and the stage stay within the model.
TypeOK ==
    /\ DOMAIN files \subseteq Stems \X Exts
    /\ \A f \in DOMAIN files : files[f] \in Contents
    /\ pc \in {"idle"} \cup ToSet(Steps)
    /\ opts \in Invocations
    /\ retval \in {-1, 0, 1}
    /\ {input_files, output_files, temp_files} \subseteq Seq(Stems \X Exts)

Succeeded == pc = "idle" /\ retval = 0
InPlace(o) == o.only = {"link"} /\ Len(o.inputs) = 1 /\ Ext(o.inputs[1]) = ".j"

\* What a command line that succeeds has made, and from which inputs.
Products(o) ==
    CASE o.only = {} -> {<< <<o.class, ".class">>, ToSet(o.inputs)>>}
      [] o.only = {"compile"} ->
            {<<IF o.outfile = NoFile THEN Change(f, ".bc") ELSE o.outfile, {f}>> : f \in ToSet(o.inputs)}
      [] o.only = {"merge"} -> {<<o.outfile, ToSet(o.inputs)>>}
      [] o.only = {"genasm"} -> {<<Change(f, IF o.mode = "jvm" THEN ".plj" ELSE ".plil"), {f}>> : f \in ToSet(o.inputs)}
      [] o.only = {"link"} -> {<<Change(f, ".j"), {f}>> : f \in ToSet(o.inputs)}
      [] o.only = {"build"} -> {<< <<before[f].class, ".class">>, {f}>> : f \in ToSet(o.inputs)}

(***************************************************************************)
(* A run that exits with 0 has made what it was asked for from the inputs  *)
(* as they were when it started, never from files earlier runs left        *)
(* behind, although every stage reads and overwrites files whose names it  *)
(* shares with those runs.  Three kinds of run do not promise it: a dry    *)
(* run, a link of a .j file, and a CIL link, which does nothing.           *)
(***************************************************************************)
OutputFromInputs ==
    Succeeded /\ ~opts.dry_run /\ ~InPlace(opts) /\ (opts.mode = "cil" => opts.only # {"link"}) =>
        \A p \in Products(opts) :
            /\ p[1] \in DOMAIN files
            /\ files[p[1]].from = UNION {before[f].from : f \in p[2]}

(***************************************************************************)
(* A full build without -K leaves the class file and the merged bitcode,   *)
(* which no list of temporary files holds; the merged file goes too only   *)
(* where it has the name of a compiled source.                             *)
(***************************************************************************)
OnlyLeftovers ==
    LET merged == <<opts.class, ".bc">>
        class == <<opts.class, ".class">>
    IN  Succeeded /\ perform_all_steps /\ ~opts.dry_run /\ ~opts.keep =>
            /\ DOMAIN files \ DOMAIN before \subseteq {class, merged}
            /\ merged \in DOMAIN files <=> <<opts.class, ".c">> \notin ToSet(opts.inputs)
            /\ \A f \in ToSet(opts.inputs) : Change(f, ".bc") \in DOMAIN files => Change(f, ".bc") = merged

(***************************************************************************)
(* -y "only prints commands": a dry run leaves the directory as it was.    *)
(* But the link and the assembler are carried out on what they find there. *)
(***************************************************************************)
DryRunPrintsOnly == opts.dry_run => files = before

\* The .j file a run's link writes, or removes when it fails.
LinkTarget(o) ==
    CASE o.mode = "cil" -> NoFile
      [] o.only = {} -> <<o.class, ".j">>
      [] o.only = {"link"} /\ Len(o.inputs) = 1 /\ Ext(o.inputs[1]) \in {".j", ".plj"} ->
            Change(o.inputs[1], ".j")
      [] OTHER -> NoFile

JLibs(o) == {l \in ToSet(o.libs) : Ext(l) = ".j"}

(***************************************************************************)
(* No run, failed runs included, changes or removes an input or a .j       *)
(* library of its command line, except where it is the file the run's own  *)
(* link writes, which has the name of the link's input or of the class.    *)
(***************************************************************************)
InputsKept ==
    \A f \in (ToSet(opts.inputs) \cup JLibs(opts)) \cap DOMAIN before :
        f # LinkTarget(opts) => f \in DOMAIN files /\ files[f] = before[f]

(***************************************************************************)
(* Every .j file, whichever runs made it and however they ended, has all   *)
(* its external references resolved: a failed link leaves none behind.     *)
(***************************************************************************)
JFilesLinked ==
    \A f \in DOMAIN files : Ext(f) = ".j" => ExternsOf(files[f]) = DOMAIN files[f].refs

LinkReady ==
    /\ pc = "link" /\ Runs(pc) /\ opts.mode = "jvm"
    /\ Len(input_files) = 1 /\ input_files[1] \in DOMAIN files
    /\ ~LibraryRefused(input_files[1], Change(input_files[1], ".j"))

ReadJars == ToSet(JarsNamed) \cup IF opts.dir \in DOMAIN Dirs THEN Dirs[opts.dir] ELSE {}
OneJarPerClass ==
    \A i, j \in ReadJars : i # j => DOMAIN Jars[i] \cap DOMAIN Jars[j] = {}
OneUnitPerSymbol(units) ==
    \A i, j \in DOMAIN units :
        units[i].class # units[j].class => units[i].defines \cap units[j].defines = {}

(***************************************************************************)
(* When no two jars hold a class of the same name, and no two .j libraries *)
(* define the same symbol for different classes, the class a symbol is     *)
(* resolved to does not depend on the order of the -l options, of jars or  *)
(* of .j files, or on that in which the file system lists a directory.     *)
(***************************************************************************)
LinkOrderIrrelevant ==
    LET units == LinkUnits(input_files[1], Change(input_files[1], ".j"))
    IN  LinkReady /\ OneJarPerClass /\ OneUnitPerSymbol(units) =>
            \A jars \in JarOrders(opts.dir, JarsNamed) :
                \A p \in SetToSeqs(ReadJars), u \in SetToSeqs(ToSet(units)) :
                    method_map(jars, units) = method_map(p, u)

(***************************************************************************)
(* A link that read its libraries fails only for a symbol that no library  *)
(* defines, or that a jar defines in a class which another jar, read after *)
(* it, holds without the symbol.                                           *)
(***************************************************************************)
LinkFailureExplained ==
    LET in == opts.inputs[1]
        read == ToSet(opts.libs) \ {Change(in, ".j")}
    IN  pc = "idle" /\ retval = 1 /\ opts.only = {"link"} /\ opts.mode = "jvm" =>
            \/ Len(opts.inputs) # 1
            \/ Ext(in) \notin {".j", ".plj"} \/ in \notin DOMAIN before
            \/ \E l \in read :
                  /\ Ext(l) = ".jar" => l[1] \notin DOMAIN Jars
                  /\ Ext(l) = ".j" /\ l \in DOMAIN before => before[l].class = None
            \/ \E s \in ExternsOf(before[in]), jars \in JarOrders(opts.dir, JarsNamed) :
                  /\ \A l \in read : Ext(l) = ".j" => s \notin DefinedBy(before[l])
                  /\ \A i \in DOMAIN jars : \A c \in DOMAIN Jars[jars[i]] :
                        s \in Jars[jars[i]][c] =>
                            \E k \in DOMAIN jars :
                                k > i /\ c \in DOMAIN Jars[jars[k]] /\ s \notin Jars[jars[k]][c]
=============================================================================
