------------------------------- MODULE Backend -------------------------------
(***************************************************************************)
(* The code the JVM backend emits for the body of a function, run beside   *)
(* the LLVM instructions it stands for.  Two values are live; each step    *)
(* is any instruction on them.  Arithmetic is done in one step; branches,  *)
(* selects and PHI copies run the emitted sequence, one JVM instruction a  *)
(* step.  A run is followed up to the first value that differs.            *)
(***************************************************************************)
EXTENDS Arithmetic, Sequences

CONSTANTS
    Constants,   \* type -> the constant operands tried
    EdgePhis     \* sequences of PHIs for an edge: [dest, src], src may be "undef"

Reg == {"x", "y"}
Block == {1, 2}

ASSUME OperandAssumption == \A ty \in Types : Constants[ty] \subseteq Values(ty)

\* A block has at most one PHI for a value.
ASSUME PhiAssumption ==
    \A phis \in EdgePhis :
        /\ phis \in Seq([dest : Reg, src : Reg \cup {"undef"}])
        /\ \A i, j \in DOMAIN phis : phis[i].dest = phis[j].dest => i = j

VARIABLES
    reg,      \* value -> its type, what it is to LLVM, what the JVM has for it
    code,     \* the emitted sequence being run, << >> between instructions
    ip, stack,\* position in it, and the operand stack
    block,    \* where the emitted code has got to
    target,   \* where LLVM's control is
    fault     \* what the last instruction is known to get wrong, see below

vars == <<reg, code, ip, stack, block, target, fault>>
machine == <<code, ip, stack, block>>

Encoded(v) == IF v.ty = "i1" THEN v.llvm ELSE Signed(v.ty, v.llvm)
Agrees(r) == reg[r].jvm = Encoded(reg[r])
ValuesOf(ty) == {[ty |-> ty, llvm |-> a, jvm |-> IF ty = "i1" THEN a ELSE Signed(ty, a)] : a \in Values(ty)}
Constant(ty, a) == [ty |-> ty, llvm |-> a, jvm |-> printConstLoad(ty, a)]

\* Operands of one type; two are not both constant: LLVM folds those.
Registers(ty) == {reg[r] : r \in {q \in Reg : reg[q].ty = ty}}
Operands(ty) == Registers(ty) \cup {Constant(ty, a) : a \in Constants[ty]}
NotFolded(ty, a, b) == a \in Registers(ty) \/ b \in Registers(ty)

Init ==
    /\ reg \in [Reg -> UNION {ValuesOf(ty) : ty \in Types}]
    /\ code = << >> /\ ip = 1 /\ stack = << >>
    /\ block = 1 /\ target = 1
    /\ fault = "none"

Between == code = << >> /\ \A r \in Reg : Agrees(r) /\ block = target

\* printBasicBlock: the instruction's result is stored to its own variable.
Result(ty, llvm, jvm) ==
    /\ reg' = [reg EXCEPT !["x"] = [ty |-> ty, llvm |-> llvm, jvm |-> printValueStore(ty, jvm)]]
    /\ UNCHANGED <<machine, target>>

NoMethod == {"udiv", "urem", "smax"}     \* not for boolean

Binary ==
    /\ Between
    /\ \E op \in BinaryOps : \E ty \in Types : \E a, b \in Operands(ty) :
          /\ NotFolded(ty, a, b) /\ Defined(op, ty, a.llvm, b.llvm)
          /\ ty = "i1" => op \notin NoMethod
          /\ Result(ty, LlvmBinary(op, ty, a.llvm, b.llvm), printArithmeticInstruction(op, ty, a.jvm, b.jvm))
          /\ fault' = IF op = "lshr" /\ ty \in Narrow /\ a.jvm < 0 /\ b.llvm > 0 THEN "value" ELSE "none"

Compare ==
    /\ Between
    /\ \E p \in Predicates : \E ty \in Types : \E a, b \in Operands(ty) :
          /\ NotFolded(ty, a, b)
          /\ Result("i1", Bool(LlvmCompare(p, ty, a.llvm, b.llvm)), Bool(icmp(p, a.jvm, b.jvm)))
          /\ fault' = IF ty = "i1" /\ (p \in SignedPredicates \/ -1 \in {a.jvm, b.jvm})
                      THEN "perhaps" ELSE "none"

Cast ==
    /\ Between
    /\ \E op \in {"sext", "zext", "trunc"} : \E ty \in Types :
          LET v == reg["x"]
          IN  /\ IF op = "trunc" THEN Width[ty] < Width[v.ty] ELSE Width[ty] > Width[v.ty]
              /\ Result(ty, LlvmCast(op, ty, v.ty, v.llvm), printCastInstruction(op, ty, v.ty, v.jvm))
              /\ fault' = IF op = "sext" /\ v.ty = "i1" /\ v.llvm = 1 THEN "value" ELSE "none"

Bswap ==
    LET v == reg["x"]
    IN  /\ Between /\ v.ty \notin {"i1", "i8"}
        /\ Result(v.ty, LlvmBswap(v.ty, v.llvm), printBitIntrinsic(v.jvm))
        /\ fault' = IF v.llvm # 0 THEN "value" ELSE "none"

-----------------------------------------------------------------------------
(* The emitted sequences. *)

load(r) == [op |-> "load", reg |-> r]
store(r, ty) == [op |-> "store", reg |-> r, ty |-> ty]
push(n) == [op |-> "push", n |-> n]
pop == [op |-> "pop"]
jump(op, l) == [op |-> op, to |-> l]
label(l) == [op |-> "label", at |-> l]
lookupswitch(table) == [op |-> "lookupswitch", table |-> table]

BlockLabel(b) == <<"block", b>>
Local(name) == <<name, 0>>

printPHICopy(phis) ==
    LET copies[i \in 0 .. Len(phis)] ==
            IF i = 0 THEN << >>
            ELSE copies[i - 1] \o
                 IF phis[i].src = "undef" THEN << >>
                 ELSE <<load(phis[i].src), store(phis[i].dest, reg[phis[i].src].ty)>>
    IN  copies[Len(phis)]

Goto(b, phis) == printPHICopy(phis[b]) \o <<jump("goto", BlockLabel(b))>>

\* rewriteBranch (the option jvm_rewrite_branches), or the plain instruction
Ifne_NotInverted(l, rewrite) ==
    IF rewrite
    THEN <<jump("ifne", Local("skip")), jump("goto", l), label(Local("skip"))>>
    ELSE <<jump("ifne", l)>>
Ifne(l, rewrite) ==
    IF rewrite
    THEN <<jump("ifeq", Local("skip")), jump("goto", l), label(Local("skip"))>>
    ELSE <<jump("ifne", l)>>

Branch_NoPop(cond, t, f, phis, rewrite) ==
    <<load(cond)>> \o
    IF t = f THEN Goto(t, phis)
    ELSE IF phis[t] = << >>
    THEN Ifne(BlockLabel(t), rewrite) \o Goto(f, phis)
    ELSE Ifne(Local("phi"), rewrite) \o Goto(f, phis) \o <<label(Local("phi"))>> \o Goto(t, phis)

Branch(cond, t, f, phis, rewrite) ==
    <<load(cond)>> \o
    IF t = f THEN <<pop>> \o Goto(t, phis)
    ELSE IF phis[t] = << >>
    THEN Ifne(BlockLabel(t), rewrite) \o Goto(f, phis)
    ELSE Ifne(Local("phi"), rewrite) \o Goto(f, phis) \o <<label(Local("phi"))>> \o Goto(t, phis)

Select(cond, p, q, ty) ==
    <<load(cond), jump("ifeq", Local("a")), load(p), jump("goto", Local("b")),
      label(Local("a")), load(q), label(Local("b")), store("x", ty)>>

\* printFunction numbers the blocks by name; where clang was told to discard
\* the names, the last one stays.
basicblock_map(b, named) == IF named THEN [id |-> 99 + b, block |-> b] ELSE [id |-> 101, block |-> 2]

IndirectBr(b, named) ==
    LET entry(d) == basicblock_map(d, named)
    IN  <<push(entry(b).id),
          lookupswitch([n \in {entry(d).id : d \in Block} |->
                           (CHOOSE e \in {entry(d) : d \in Block} : e.id = n).block])>>

-----------------------------------------------------------------------------
(* Starting one: LLVM's step is done at once, the PHIs all together.       *)

Legal(phis) == \A i \in DOMAIN phis : phis[i].src # "undef" => reg[phis[i].src].ty = reg[phis[i].dest].ty

Moves(p) == p.src \notin {"undef", p.dest} /\ reg[p.src].jvm # reg[p.dest].jvm

AfterPhis(phis) ==
    [r \in Reg |->
        IF \E i \in DOMAIN phis : phis[i].dest = r /\ phis[i].src # "undef"
        THEN LET p == phis[CHOOSE i \in DOMAIN phis : phis[i].dest = r]
             IN  [reg[p.src] EXCEPT !.jvm = reg[r].jvm]
        ELSE reg[r]]

\* One PHI reads another, whose new value is already in place.
ReadsEarlier(phis) ==
    \E i, j \in DOMAIN phis : i < j /\ phis[j].src = phis[i].dest /\ Moves(phis[i])

Emit(sequence) ==
    /\ code' = sequence /\ ip' = 1
    /\ UNCHANGED <<stack, block>>

Br ==
    /\ Between
    /\ \E b \in Block : \E phis \in EdgePhis :
          /\ Legal(phis)
          /\ Emit(Goto(b, [d \in Block |-> phis]))
          /\ reg' = AfterPhis(phis) /\ target' = b
          /\ fault' = IF ReadsEarlier(phis) THEN "value" ELSE "none"

CondBr ==
    /\ Between
    /\ \E c \in Reg : \E t, f \in Block : \E here, there \in EdgePhis :
          LET phis == [b \in Block |-> IF b = t THEN here ELSE there]
              b == IF reg[c].llvm = 1 THEN t ELSE f
          IN  /\ reg[c].ty = "i1" /\ Legal(here) /\ Legal(there)
              /\ \E rewrite \in BOOLEAN : Emit(Branch(c, t, f, phis, rewrite))
              /\ reg' = AfterPhis(phis[b]) /\ target' = b
              /\ fault' = IF ReadsEarlier(phis[b]) THEN "value" ELSE "none"

StartSelect ==
    /\ Between
    /\ \E c, p, q \in Reg :
          /\ reg[c].ty = "i1" /\ reg[p].ty = reg[q].ty
          /\ Emit(Select(c, p, q, reg[p].ty))
          /\ reg' = [reg EXCEPT !["x"] = [reg[IF reg[c].llvm = 1 THEN p ELSE q] EXCEPT !.jvm = reg["x"].jvm]]
    /\ fault' = "none" /\ UNCHANGED target

StartIndirectBr ==
    /\ Between
    /\ \E b \in Block : \E phis \in EdgePhis : \E named \in BOOLEAN :
          /\ Legal(phis)
          /\ Emit(IndirectBr(b, named))
          /\ reg' = AfterPhis(phis) /\ target' = b
          /\ fault' = IF basicblock_map(b, named).block # b THEN "block"
                      ELSE IF \E i \in DOMAIN phis : Moves(phis[i]) THEN "value" ELSE "none"

-----------------------------------------------------------------------------
(* The JVM (external). *)

Top == stack[Len(stack)]
Rest == SubSeq(stack, 1, Len(stack) - 1)

Advance == IF ip = Len(code) THEN code' = << >> /\ ip' = 1 ELSE ip' = ip + 1 /\ UNCHANGED code

JumpTo(l) ==
    IF l[1] = "block"
    THEN block' = l[2] /\ code' = << >> /\ ip' = 1
    ELSE /\ ip' = CHOOSE i \in DOMAIN code : code[i] = label(l)
         /\ UNCHANGED <<block, code>>

At(op) == code # << >> /\ code[ip].op = op

Push ==
    /\ \/ At("load") /\ stack' = Append(stack, reg[code[ip].reg].jvm)
       \/ At("push") /\ stack' = Append(stack, code[ip].n)
    /\ Advance /\ UNCHANGED <<reg, block, target, fault>>

Store ==
    /\ At("store")
    /\ reg' = [reg EXCEPT ![code[ip].reg].jvm = printValueStore(code[ip].ty, Top)]
    /\ stack' = Rest /\ Advance /\ UNCHANGED <<block, target, fault>>

Pop ==
    /\ At("pop")
    /\ stack' = Rest /\ Advance /\ UNCHANGED <<reg, block, target, fault>>

Label ==
    /\ At("label")
    /\ Advance /\ UNCHANGED <<reg, stack, block, target, fault>>

If ==
    /\ At("ifne") \/ At("ifeq")
    /\ IF (Top # 0) = (code[ip].op = "ifne") THEN JumpTo(code[ip].to) ELSE Advance /\ UNCHANGED block
    /\ stack' = Rest /\ UNCHANGED <<reg, target, fault>>

GotoLabel ==
    /\ At("goto")
    /\ JumpTo(code[ip].to) /\ UNCHANGED <<reg, stack, target, fault>>

Switch ==
    /\ At("lookupswitch")
    /\ JumpTo(BlockLabel(code[ip].table[Top]))
    /\ stack' = Rest /\ UNCHANGED <<reg, target, fault>>

Next ==
    \/ Binary \/ Compare \/ Cast \/ Bswap
    \/ Br \/ CondBr \/ StartSelect \/ StartIndirectBr
    \/ Push \/ Store \/ Pop \/ Label \/ If \/ GotoLabel \/ Switch

Spec == Init /\ [][Next]_vars

-----------------------------------------------------------------------------
\* The JVM's values fit the type they are computed with.
TypeOK ==
    /\ \A r \in Reg : reg[r].ty \in Types /\ reg[r].llvm \in Values(reg[r].ty)
    /\ code = << >> => \A r \in Reg : reg[r].jvm = Wrap(reg[r].jvm, expanded(reg[r].ty))
    /\ code # << >> => ip \in DOMAIN code
    /\ block \in Block /\ target \in Block
    /\ fault \in {"none", "perhaps", "value", "block"}

(***************************************************************************)
(* After every instruction the JVM has LLVM's values, however the          *)
(* instructions before it truncated, extended and moved them, except after *)
(* a logical shift of a negative i8 or i16, a sign extension of a true i1, *)
(* a bswap of anything but 0, PHIs that read each other, PHIs behind an    *)
(* indirectbr, which always go wrong, and some comparisons of i1.          *)
(***************************************************************************)
ValuesAgree ==
    code = << >> =>
        /\ fault = "none" => \A r \in Reg : Agrees(r)
        /\ fault = "value" => \E r \in Reg : ~Agrees(r)

(***************************************************************************)
(* Control arrives at the block LLVM branches to, with branches rewritten  *)
(* or not, also where PHI values go wrong; only an indirectbr among        *)
(* blocks without names does not.                                          *)
(***************************************************************************)
ControlAgrees == code = << >> => (block = target <=> fault # "block")

(***************************************************************************)
(* Every block and every instruction starts with an empty operand stack,   *)
(* whichever way control came: the JVM refuses a method where it does not. *)
(***************************************************************************)
StackEmpty == code = << >> => stack = << >>
=============================================================================
