----------------------------- MODULE JumpProofs -----------------------------
(***************************************************************************)
(* Theorems about Jump, for all programs (functions, setjmp sites and      *)
(* jmp_bufs) and for runs of any length.                                   *)
(***************************************************************************)
EXTENDS Jump, SequenceTheorems, TLAPS

-----------------------------------------------------------------------------
(* The inductive invariant *)

(* The registers, activations and setjmp calls of a state in which setjmp  *)
(* has returned n IDs.                                                     *)
Regs(n) == UNION {[Sites[f] -> 0 .. n] : f \in Functions}
Act(n) == [act : Nat, fn : Functions, regs : Regs(n)]
SetjmpCall == [act : Nat, site : {0} \cup UNION {Sites[f] : f \in Functions}]

(* Types of all variables, the history included, and no Jump has ID 0.     *)
FullTypeOK ==
  /\ acts \in Seq(Act(numJumps))
  /\ frames \in Seq(Nat)
  /\ env \in [Envs -> [id : 0 .. numJumps, depth : Nat]]
  /\ numJumps \in Nat /\ numActs \in Nat /\ base \in Nat
  /\ jump \in [id : 0 .. numJumps, to : SetjmpCall, live : BOOLEAN, held : BOOLEAN]
  /\ status \in {"running", "uncaught"}
  /\ setter \in [Envs -> SetjmpCall]
  /\ jump # NoJump => jump.id # 0

(* A register of a live method agrees with a jmp_buf on an ID only if the  *)
(* last setjmp with that jmp_buf was made by this method at this site, and *)
(* then the saved depth is the depth of the method's frame.                *)
IdsIdentify ==
  \A e \in Envs : \A i \in 1 .. Len(acts) : \A s \in DOMAIN acts[i].regs :
    env[e].id # 0 /\ acts[i].regs[s] = env[e].id =>
      /\ setter[e] = [act |-> acts[i].act, site |-> s]
      /\ env[e].depth = base + i

(* A Jump thrown while its register held its ID has that register still    *)
(* below it on the Java stack.                                             *)
HeldIsBelow ==
  status = "running" /\ jump.held => Held(jump.to, jump.id)

(* The inductive invariant. *)
JumpInv ==
  /\ FullTypeOK
  /\ IdsIdentify
  /\ FramesMatch
  /\ ResumesAtTarget
  /\ HeldIsBelow
  /\ HeldJumpNotLost

-----------------------------------------------------------------------------
(* Lemmas on the operators *)

(* An ID that setjmp returned stays one. *)
LEMMA RegsGrow ==
  ASSUME NEW n \in Nat
  PROVE  Act(n) \subseteq Act(n + 1)
  <1>1. ASSUME NEW f \in Functions
        PROVE  [Sites[f] -> 0 .. n] \subseteq [Sites[f] -> 0 .. n + 1]
    OBVIOUS
  <1>2. Regs(n) \subseteq Regs(n + 1)
    BY <1>1 DEF Regs
  <1>3. QED
    BY <1>2 DEF Act

(* Storing the next ID in a register keeps the registers a function on the *)
(* same sites.                                                             *)
LEMMA StoreId ==
  ASSUME NEW n \in Nat, NEW a \in Act(n), NEW s \in DOMAIN a.regs,
         NEW b, b = [a EXCEPT !.regs[s] = n + 1]
  PROVE  /\ b \in Act(n + 1) /\ b.act = a.act
         /\ DOMAIN b.regs = DOMAIN a.regs
         /\ b.regs[s] = n + 1
         /\ \A t \in DOMAIN b.regs \ {s} : b.regs[t] = a.regs[t]
  <1>1. PICK f \in Functions : a.regs \in [Sites[f] -> 0 .. n]
    BY DEF Act, Regs
  <1>2. [a.regs EXCEPT ![s] = n + 1] \in [Sites[f] -> 0 .. n + 1]
    BY <1>1
  <1>3. [a.regs EXCEPT ![s] = n + 1] \in Regs(n + 1)
    BY <1>2 DEF Regs
  <1>4. b \in Act(n + 1) /\ b.act = a.act
    BY <1>3 DEF Act
  <1>5. b.regs = [a.regs EXCEPT ![s] = n + 1]
    BY DEF Act
  <1>6. QED
    BY <1>1, <1>4, <1>5

(* The registers of a live method hold IDs, on the sites of a function.    *)
LEMMA RegsTyped ==
  ASSUME NEW n \in Nat, NEW a \in Act(n)
  PROVE  /\ \A t \in DOMAIN a.regs : a.regs[t] \in 0 .. n
         /\ DOMAIN a.regs \subseteq UNION {Sites[f] : f \in Functions}
  <1>1. PICK f \in Functions : a.regs \in [Sites[f] -> 0 .. n]
    BY DEF Act, Regs
  <1>2. QED
    BY <1>1

(* The first elements of a sequence. *)
LEMMA Prefix ==
  ASSUME NEW S, NEW q \in Seq(S), NEW n \in Int, n <= Len(q)
  PROVE  /\ SubSeq(q, 1, n) \in Seq(S)
         /\ n >= 0 => Len(SubSeq(q, 1, n)) = n
         /\ \A i \in 1 .. n : SubSeq(q, 1, n)[i] = q[i]
  <1>1. \A i \in 1 .. n : q[i] \in S
    BY ElementOfSeq
  <1>2. QED
    BY <1>1, SubSeqProperties

(* The stack without its top. *)
LEMMA FrontOf ==
  ASSUME NEW S, NEW q \in Seq(S), q # <<>>
  PROVE  /\ Len(q) \in Nat \ {0} /\ Front(q) \in Seq(S)
         /\ Len(Front(q)) = Len(q) - 1
         /\ \A i \in 1 .. Len(q) - 1 : Front(q)[i] = q[i]
  <1>1. Len(q) \in Nat \ {0}
    BY EmptySeq
  <1>2. /\ SubSeq(q, 1, Len(q) - 1) \in Seq(S)
        /\ Len(q) - 1 >= 0 => Len(SubSeq(q, 1, Len(q) - 1)) = Len(q) - 1
        /\ \A i \in 1 .. Len(q) - 1 : SubSeq(q, 1, Len(q) - 1)[i] = q[i]
    <2>1. Len(q) - 1 \in Int /\ Len(q) - 1 <= Len(q)
      BY <1>1
    <2>2. QED
      BY <2>1, Prefix
  <1>3. QED
    BY <1>1, <1>2 DEF Front

-----------------------------------------------------------------------------
(* The initial state *)

(* It holds when the program starts. *)
LEMMA InitInv == Init => JumpInv
  <1> SUFFICES ASSUME Init PROVE JumpInv
    OBVIOUS
  <1>1. acts = <<>> /\ Len(acts) = 0 /\ Len(frames) = 0
    BY EmptySeq DEF Init
  <1>2. NoCall \in SetjmpCall
    BY DEF NoCall, SetjmpCall
  <1>3. FullTypeOK
    BY <1>2, EmptySeq DEF Init, FullTypeOK, NoJump
  <1>4. QED
    BY <1>1, <1>3 DEF Init, JumpInv, IdsIdentify, FramesMatch, ResumesAtTarget,
                      HeldIsBelow, HeldJumpNotLost, NoJump
-----------------------------------------------------------------------------
(* Steps that change the Java stack while no Jump is in flight *)

(* The new method has a frame of its own on top and holds no ID. *)
LEMMA CallInv ==
  ASSUME JumpInv, NEW f \in Functions, Call(f)
  PROVE  JumpInv'
  <1> DEFINE a == [act |-> numActs + 1, fn |-> f, regs |-> NoIds(f)]
  <1> USE DEF JumpInv
  <1>1. a \in Act(numJumps)
    <2>1. NoIds(f) \in [Sites[f] -> 0 .. numJumps]
      BY DEF NoIds, FullTypeOK
    <2>2. NoIds(f) \in Regs(numJumps)
      BY <2>1 DEF Regs
    <2>3. QED
      BY <2>2 DEF Act, FullTypeOK
  <1>2. /\ acts' = Append(acts, a)
        /\ frames' = Append(frames, numActs + 1)
        /\ numActs' = numActs + 1
        /\ status = "running" /\ jump = NoJump
        /\ UNCHANGED <<env, numJumps, jump, status, base, setter>>
    BY DEF Call
  <1>3. /\ acts' \in Seq(Act(numJumps))
        /\ Len(acts) \in Nat /\ Len(acts') = Len(acts) + 1
        /\ \A i \in 1 .. Len(acts) : acts'[i] = acts[i]
        /\ acts'[Len(acts) + 1] = a
    BY <1>1, <1>2, AppendProperties, LenProperties DEF FullTypeOK
  <1>4. /\ frames' \in Seq(Nat)
        /\ Len(frames) \in Nat /\ Len(frames') = Len(frames) + 1
        /\ \A i \in 1 .. Len(frames) : frames'[i] = frames[i]
        /\ frames'[Len(frames) + 1] = numActs + 1
    <2>1. numActs + 1 \in Nat
      BY DEF FullTypeOK
    <2>2. QED
      BY <1>2, <2>1, AppendProperties, LenProperties DEF FullTypeOK
  <1>5. FullTypeOK'
    BY <1>2, <1>3, <1>4 DEF FullTypeOK
  <1>6. IdsIdentify'
    <2> SUFFICES ASSUME NEW e \in Envs, NEW i \in 1 .. Len(acts'),
                        NEW s \in DOMAIN acts'[i].regs,
                        env[e].id # 0, acts'[i].regs[s] = env[e].id
                 PROVE  /\ setter[e] = [act |-> acts'[i].act, site |-> s]
                        /\ env[e].depth = base + i
      BY <1>2 DEF IdsIdentify
    <2>1. i # Len(acts) + 1
      BY <1>3 DEF NoIds
    <2>2. i \in 1 .. Len(acts)
      BY <2>1, <1>3
    <2>3. QED
      BY <2>2, <1>3 DEF IdsIdentify
  <1>7. FramesMatch'
    <2>1. Len(frames) = base + Len(acts) /\ base \in Nat
      BY <1>2 DEF FramesMatch, FullTypeOK
    <2>2. ASSUME NEW i \in 1 .. Len(acts) + 1
          PROVE  frames'[base + i] = acts'[i].act
      <3>1. CASE i = Len(acts) + 1
        BY <3>1, <2>1, <1>3, <1>4
      <3>2. CASE i \in 1 .. Len(acts)
        <4>1. base + i \in 1 .. Len(frames)
          BY <3>2, <2>1, <1>3
        <4>2. frames[base + i] = acts[i].act
          BY <3>2, <1>2 DEF FramesMatch
        <4>3. QED
          BY <3>2, <4>1, <4>2, <1>3, <1>4
      <3>3. QED
        BY <3>1, <3>2, <1>3
    <2>3. Len(frames') = base + Len(acts')
      BY <2>1, <1>3, <1>4
    <2>4. QED
      BY <1>2, <1>3, <2>2, <2>3 DEF FramesMatch
  <1>8. ResumesAtTarget' /\ HeldIsBelow' /\ HeldJumpNotLost'
    BY <1>2 DEF ResumesAtTarget, HeldIsBelow, HeldJumpNotLost, NoJump
  <1>9. QED
    BY <1>5, <1>6, <1>7, <1>8

(* The frame on top is that of the returning method. *)
LEMMA ReturnInv ==
  ASSUME JumpInv, Return
  PROVE  JumpInv'
  <1> USE DEF JumpInv
  <1>1. /\ acts' = Front(acts) /\ acts # <<>>
        /\ frames' = SubSeq(frames, 1, Len(frames) - 1)
        /\ status = "running" /\ jump = NoJump
        /\ UNCHANGED <<env, numJumps, jump, status, numActs, base, setter>>
    BY DEF Return, InMethod, DestroyFrames, stackDepth
  <1>2. /\ Len(acts) \in Nat \ {0}
        /\ acts' \in Seq(Act(numJumps))
        /\ Len(acts') = Len(acts) - 1
        /\ \A i \in 1 .. Len(acts) - 1 : acts'[i] = acts[i]
    BY <1>1, FrontOf DEF FullTypeOK
  <1>3. Len(frames) = base + Len(acts)
    BY <1>1 DEF FramesMatch
  <1>4. /\ frames' \in Seq(Nat)
        /\ Len(frames') = Len(frames) - 1
        /\ \A i \in 1 .. Len(frames) - 1 : frames'[i] = frames[i]
    <2>1. Len(frames) - 1 \in Int /\ Len(frames) - 1 <= Len(frames)
          /\ Len(frames) - 1 >= 0
      BY <1>2, <1>3 DEF FullTypeOK
    <2>2. QED
      BY <1>1, <2>1, Prefix DEF FullTypeOK
  <1>5. FullTypeOK'
    BY <1>1, <1>2, <1>4 DEF FullTypeOK
  <1>6. IdsIdentify'
    BY <1>1, <1>2 DEF IdsIdentify
  <1>7. FramesMatch'
    <2>1. ASSUME NEW i \in 1 .. Len(acts) - 1
          PROVE  frames'[base + i] = acts'[i].act
      <3>1. base + i \in 1 .. Len(frames) - 1
        BY <1>2, <1>3 DEF FullTypeOK
      <3>2. frames[base + i] = acts[i].act
        BY <1>1, <1>2 DEF FramesMatch
      <3>3. QED
        BY <3>1, <3>2, <1>2, <1>4
    <2>2. Len(frames') = base + Len(acts')
      BY <1>2, <1>3, <1>4 DEF FullTypeOK
    <2>3. QED
      BY <1>1, <1>2, <2>1, <2>2 DEF FramesMatch
  <1>8. ResumesAtTarget' /\ HeldIsBelow' /\ HeldJumpNotLost'
    BY <1>1 DEF ResumesAtTarget, HeldIsBelow, HeldJumpNotLost, NoJump
  <1>9. QED
    BY <1>5, <1>6, <1>7, <1>8

(* No register or jmp_buf held the new ID before. *)
LEMMA SetjmpInv ==
  ASSUME JumpInv, NEW x, NEW e \in Envs, Setjmp(x, e)
  PROVE  JumpInv'
  <1> DEFINE n == Len(acts)
             a == [acts[n] EXCEPT !.regs[x] = numJumps + 1]
  <1> USE DEF JumpInv
  <1>1. /\ acts # <<>> /\ x \in DOMAIN acts[n].regs
        /\ numJumps' = numJumps + 1
        /\ env' = [env EXCEPT ![e] = [id |-> numJumps + 1, depth |-> Len(frames)]]
        /\ acts' = [acts EXCEPT ![n] = a]
        /\ setter' = [setter EXCEPT ![e] = [act |-> acts[n].act, site |-> x]]
        /\ status = "running" /\ jump = NoJump
        /\ UNCHANGED <<frames, jump, status, numActs, base>>
    BY DEF Setjmp, InMethod, Top, stackDepth
  <1>2. /\ n \in Nat \ {0} /\ n \in 1 .. n
        /\ \A i \in 1 .. n : acts[i] \in Act(numJumps)
        /\ numJumps \in Nat /\ numJumps' \in Nat
    <2>1. n \in Nat \ {0} /\ numJumps \in Nat
      BY <1>1, EmptySeq DEF FullTypeOK
    <2>2. \A i \in 1 .. n : acts[i] \in Act(numJumps)
      BY ElementOfSeq DEF FullTypeOK
    <2>3. QED
      BY <1>1, <2>1, <2>2
  <1>3. /\ a \in Act(numJumps') /\ a.act = acts[n].act
        /\ DOMAIN a.regs = DOMAIN acts[n].regs
        /\ a.regs[x] = numJumps'
        /\ \A t \in DOMAIN a.regs \ {x} : a.regs[t] = acts[n].regs[t]
    <2>1. acts[n] \in Act(numJumps) /\ x \in DOMAIN acts[n].regs
      BY <1>1, <1>2
    <2>2. /\ a \in Act(numJumps + 1) /\ a.act = acts[n].act
          /\ DOMAIN a.regs = DOMAIN acts[n].regs
          /\ a.regs[x] = numJumps + 1
          /\ \A t \in DOMAIN a.regs \ {x} : a.regs[t] = acts[n].regs[t]
      <3> HIDE DEF n
      <3> DEFINE b == a
      <3>1. b = [acts[n] EXCEPT !.regs[x] = numJumps + 1]
        OBVIOUS
      <3> HIDE DEF a, b
      <3>2. QED
        BY <1>2, <2>1, <3>1, StoreId DEF b
    <2>3. QED
      BY <1>1, <2>2
  <1>4. \A i \in 1 .. n : \A t \in DOMAIN acts[i].regs :
          acts[i].regs[t] \in 0 .. numJumps
    BY <1>2, RegsTyped
  <1>5. /\ acts' \in Seq(Act(numJumps')) /\ Len(acts') = n
        /\ \A i \in 1 .. n : acts'[i] = IF i = n THEN a ELSE acts[i]
    <2>1. acts \in Seq(Act(numJumps'))
      BY <1>1, <1>2, RegsGrow, SeqMonotonic DEF FullTypeOK
    <2>2. QED
      BY <1>1, <1>2, <1>3, <2>1, ExceptSeq
  <1>6. FullTypeOK'
    <2>1. Len(frames) \in Nat
      BY LenProperties DEF FullTypeOK
    <2>2. env' \in [Envs -> [id : 0 .. numJumps', depth : Nat]]
      BY <1>1, <1>2, <2>1 DEF FullTypeOK
    <2>3. [act |-> acts[n].act, site |-> x] \in SetjmpCall
      <3>1. x \in UNION {Sites[f] : f \in Functions} /\ acts[n].act \in Nat
        BY <1>1, <1>2, RegsTyped DEF Act
      <3>2. QED
        BY <3>1 DEF SetjmpCall
    <2>4. setter' \in [Envs -> SetjmpCall]
      BY <1>1, <2>3 DEF FullTypeOK
    <2>5. jump' \in [id : 0 .. numJumps', to : SetjmpCall,
                     live : BOOLEAN, held : BOOLEAN]
      BY <1>1, <1>2 DEF FullTypeOK
    <2>6. QED
      BY <1>1, <1>2, <1>5, <2>2, <2>4, <2>5 DEF FullTypeOK
  <1>7. IdsIdentify'
    <2> SUFFICES ASSUME NEW d \in Envs, NEW i \in 1 .. Len(acts'),
                        NEW s \in DOMAIN acts'[i].regs,
                        env'[d].id # 0, acts'[i].regs[s] = env'[d].id
                 PROVE  /\ setter'[d] = [act |-> acts'[i].act, site |-> s]
                        /\ env'[d].depth = base' + i
      BY DEF IdsIdentify
    <2>1. i \in 1 .. n /\ acts'[i].act = acts[i].act
          /\ s \in DOMAIN acts[i].regs
      BY <1>3, <1>5
    <2>2. CASE d = e
      <3>1. env'[d] = [id |-> numJumps', depth |-> Len(frames)]
        BY <1>1, <2>2 DEF FullTypeOK
      <3>2. i = n /\ s = x
        BY <1>1, <1>2, <1>3, <1>4, <1>5, <2>1, <3>1
      <3>3. Len(frames) = base + n
        BY <1>1 DEF FramesMatch
      <3>4. setter'[d] = [act |-> acts[n].act, site |-> x]
        BY <1>1, <2>2 DEF FullTypeOK
      <3>5. QED
        BY <1>1, <2>1, <3>1, <3>2, <3>3, <3>4
    <2>3. CASE d # e
      <3>1. env'[d] = env[d] /\ setter'[d] = setter[d] /\ env[d].id \in 0 .. numJumps
        BY <1>1, <2>3 DEF FullTypeOK
      <3>2. acts'[i].regs[s] = acts[i].regs[s]
        BY <1>1, <1>2, <1>3, <1>5, <2>1, <3>1
      <3>3. QED
        BY <1>1, <2>1, <3>1, <3>2 DEF IdsIdentify
    <2>4. QED
      BY <2>2, <2>3
  <1>8. FramesMatch'
    BY <1>1, <1>2, <1>3, <1>5 DEF FramesMatch
  <1>9. ResumesAtTarget' /\ HeldIsBelow' /\ HeldJumpNotLost'
    BY <1>1 DEF ResumesAtTarget, HeldIsBelow, HeldJumpNotLost, NoJump
  <1>10. QED
    BY <1>6, <1>7, <1>8, <1>9
(* Exit leaves all frames behind and no method. *)
LEMMA ExitInv ==
  ASSUME JumpInv, Exit
  PROVE  JumpInv'
  <1> USE DEF JumpInv
  <1>1. /\ acts' = <<>> /\ base' = Len(frames)
        /\ status = "running" /\ jump = NoJump
        /\ UNCHANGED <<frames, env, numJumps, jump, status, numActs, setter>>
    BY DEF Exit, InMethod, stackDepth
  <1>2. Len(acts') = 0 /\ acts' \in Seq(Act(numJumps))
    BY <1>1, EmptySeq
  <1>3. Len(frames) \in Nat
    BY LenProperties DEF FullTypeOK
  <1>4. FullTypeOK'
    BY <1>1, <1>2, <1>3 DEF FullTypeOK
  <1>5. IdsIdentify' /\ FramesMatch'
    BY <1>1, <1>2, <1>3 DEF IdsIdentify, FramesMatch
  <1>6. ResumesAtTarget' /\ HeldIsBelow' /\ HeldJumpNotLost'
    BY <1>1 DEF ResumesAtTarget, HeldIsBelow, HeldJumpNotLost, NoJump
  <1>7. QED
    BY <1>4, <1>5, <1>6

-----------------------------------------------------------------------------
(* Steps of a Jump *)

(* Only the target's register holds the ID, and the frames that remain are *)
(* those up to the target's.                                               *)
LEMMA LongjmpInv ==
  ASSUME JumpInv, NEW e \in Envs, Longjmp(e)
  PROVE  JumpInv'
  <1> DEFINE id == env[e].id
             k == Len(frames) - env[e].depth
             d == IF k > 0 THEN k ELSE 0
  <1> USE DEF JumpInv
  <1>1. /\ status = "running" /\ jump = NoJump /\ id # 0
        /\ frames' = SubSeq(frames, 1, Len(frames) - d)
        /\ jump' = [id |-> id, to |-> setter[e],
                    live |-> Live(setter[e]), held |-> Held(setter[e], id)]
        /\ UNCHANGED <<acts, env, numJumps, status, numActs, base, setter>>
    BY DEF Longjmp, InMethod, DestroyFrames, FramesAbove, stackDepth
  <1>2. /\ Len(frames) \in Nat /\ env[e].depth \in Nat /\ id \in 0 .. numJumps
        /\ setter[e] \in SetjmpCall /\ base \in Nat /\ Len(acts) \in Nat
        /\ Len(frames) = base + Len(acts)
    BY <1>1, LenProperties DEF FullTypeOK, FramesMatch
  <1>3. /\ frames' \in Seq(Nat)
        /\ Len(frames) - d >= 0 /\ Len(frames') = Len(frames) - d
        /\ \A i \in 1 .. Len(frames) - d : frames'[i] = frames[i]
    <2>1. Len(frames) - d \in Int /\ Len(frames) - d <= Len(frames)
          /\ Len(frames) - d >= 0
      BY <1>2
    <2>2. QED
      BY <1>1, <2>1, Prefix DEF FullTypeOK
  <1>4. FullTypeOK'
    <2>1. Live(setter[e]) \in BOOLEAN /\ Held(setter[e], id) \in BOOLEAN
      BY DEF Live, Held
    <2>2. jump' \in [id : 0 .. numJumps, to : SetjmpCall,
                     live : BOOLEAN, held : BOOLEAN] /\ jump'.id # 0
      BY <1>1, <1>2, <2>1
    <2>3. QED
      BY <1>1, <1>3, <2>2 DEF FullTypeOK
  <1>5. IdsIdentify'
    BY <1>1 DEF IdsIdentify
  <1>6. FramesMatch'
    BY <1>1 DEF FramesMatch, NoJump
  <1>7. ResumesAtTarget'
    <2> SUFFICES ASSUME NEW i \in 1 .. Len(acts), NEW s \in DOMAIN acts[i].regs,
                        acts[i].regs[s] = id
                 PROVE  /\ setter[e] = [act |-> acts[i].act, site |-> s]
                        /\ Len(frames') = base + i
                        /\ \A j \in 1 .. i : frames'[base + j] = acts[j].act
      BY <1>1 DEF ResumesAtTarget, CaughtAt
    <2>1. setter[e] = [act |-> acts[i].act, site |-> s] /\ env[e].depth = base + i
      BY <1>1 DEF IdsIdentify
    <2>2. Len(frames') = base + i
      BY <1>2, <1>3, <2>1
    <2>3. ASSUME NEW j \in 1 .. i
          PROVE  frames'[base + j] = acts[j].act
      <3>1. base + j \in 1 .. Len(frames) - d /\ j \in 1 .. Len(acts)
        BY <1>2, <1>3, <2>2
      <3>2. frames[base + j] = acts[j].act
        BY <1>1, <3>1 DEF FramesMatch
      <3>3. QED
        BY <1>3, <3>1, <3>2
    <2>4. QED
      BY <2>1, <2>2, <2>3
  <1>8. HeldIsBelow'
    BY <1>1 DEF HeldIsBelow, Held, CaughtAt
  <1>9. HeldJumpNotLost'
    BY <1>1 DEF HeldJumpNotLost
  <1>10. QED
    BY <1>4, <1>5, <1>6, <1>7, <1>8, <1>9

(* The method that catches the Jump has its own frame on top. *)
LEMMA CatchJumpInv ==
  ASSUME JumpInv, CatchJump
  PROVE  JumpInv'
  <1> USE DEF JumpInv
  <1>1. /\ jump # NoJump /\ jump' = NoJump /\ acts # <<>>
        /\ CaughtAt(acts[Len(acts)], jump.id) # {}
        /\ UNCHANGED <<acts, frames, env, numJumps, status, numActs, base, setter>>
    BY DEF CatchJump, Passes, Top
  <1>2. Len(acts) \in Nat \ {0}
    BY <1>1, EmptySeq DEF FullTypeOK
  <1>3. FullTypeOK'
    <2>1. jump' \in [id : 0 .. numJumps, to : SetjmpCall,
                     live : BOOLEAN, held : BOOLEAN]
      BY <1>1 DEF NoJump, NoCall, SetjmpCall, FullTypeOK
    <2>2. QED
      BY <1>1, <2>1 DEF FullTypeOK
  <1>4. IdsIdentify'
    BY <1>1 DEF IdsIdentify
  <1>5. FramesMatch'
    <2>1. PICK s : s \in CaughtAt(acts[Len(acts)], jump.id)
      BY <1>1
    <2>2. /\ Len(frames) = base + Len(acts)
          /\ \A j \in 1 .. Len(acts) : frames[base + j] = acts[j].act
      <3>1. Len(acts) \in 1 .. Len(acts)
        BY <1>2
      <3> HIDE DEF JumpInv
      <3>2. ResumesAtTarget
        BY DEF JumpInv
      <3>3. QED
        BY <1>1, <2>1, <3>1, <3>2, Zenon DEF ResumesAtTarget
    <2>3. QED
      BY <1>1, <2>2 DEF FramesMatch
  <1>6. ResumesAtTarget' /\ HeldIsBelow' /\ HeldJumpNotLost'
    BY <1>1 DEF ResumesAtTarget, HeldIsBelow, HeldJumpNotLost, NoJump
  <1>7. QED
    BY <1>3, <1>4, <1>5, <1>6

(* A method that lets the Jump pass is not its target. *)
LEMMA PropagateJumpInv ==
  ASSUME JumpInv, PropagateJump
  PROVE  JumpInv'
  <1> USE DEF JumpInv
  <1>1. /\ status = "running" /\ jump # NoJump /\ acts # <<>>
        /\ CaughtAt(acts[Len(acts)], jump.id) = {}
        /\ acts' = Front(acts)
        /\ UNCHANGED <<frames, env, numJumps, jump, status, numActs, base, setter>>
    BY DEF PropagateJump, Passes, Top, LeaveMethod
  <1>2. /\ Len(acts) \in Nat \ {0}
        /\ acts' \in Seq(Act(numJumps))
        /\ Len(acts') = Len(acts) - 1
        /\ \A i \in 1 .. Len(acts) - 1 : acts'[i] = acts[i]
    BY <1>1, FrontOf DEF FullTypeOK
  <1>3. FullTypeOK'
    BY <1>1, <1>2 DEF FullTypeOK
  <1>4. IdsIdentify'
    BY <1>1, <1>2 DEF IdsIdentify
  <1>5. FramesMatch'
    BY <1>1 DEF FramesMatch
  <1>6. ResumesAtTarget'
    <2> SUFFICES ASSUME NEW i \in 1 .. Len(acts) - 1,
                        NEW s \in CaughtAt(acts[i], jump.id)
                 PROVE  /\ jump.to = [act |-> acts[i].act, site |-> s]
                        /\ Len(frames) = base + i
                        /\ \A j \in 1 .. i : frames[base + j] = acts'[j].act
      BY <1>1, <1>2 DEF ResumesAtTarget, CaughtAt
    <2>1. i \in 1 .. Len(acts) /\ \A j \in 1 .. i : acts'[j] = acts[j]
      BY <1>2
    <2>2. QED
      BY <1>1, <2>1 DEF ResumesAtTarget
  <1>7. HeldIsBelow'
    <2> SUFFICES ASSUME jump.held
                 PROVE  \E i \in 1 .. Len(acts) - 1 :
                          /\ acts[i].act = jump.to.act
                          /\ jump.to.site \in CaughtAt(acts[i], jump.id)
      BY <1>1, <1>2 DEF HeldIsBelow, Held, CaughtAt
    <2>1. PICK i \in 1 .. Len(acts) : /\ acts[i].act = jump.to.act
                                     /\ jump.to.site \in CaughtAt(acts[i], jump.id)
      BY <1>1 DEF HeldIsBelow, Held
    <2>2. i # Len(acts)
      BY <1>1, <2>1
    <2>3. QED
      BY <1>2, <2>1, <2>2
  <1>8. HeldJumpNotLost'
    BY <1>1 DEF HeldJumpNotLost
  <1>9. QED
    BY <1>3, <1>4, <1>5, <1>6, <1>7, <1>8

(* No method is left to hold the ID. *)
LEMMA LeaveMainInv ==
  ASSUME JumpInv, LeaveMain
  PROVE  JumpInv'
  <1> USE DEF JumpInv
  <1>1. /\ status = "running" /\ acts = <<>> /\ status' = "uncaught"
        /\ UNCHANGED <<acts, frames, env, numJumps, jump, numActs, base, setter>>
    BY DEF LeaveMain
  <1>2. Len(acts) = 0
    BY <1>1, EmptySeq
  <1>3. ~ jump.held
    BY <1>1, <1>2 DEF HeldIsBelow, Held
  <1>4. QED
    BY <1>1, <1>2, <1>3 DEF FullTypeOK, IdsIdentify, FramesMatch, ResumesAtTarget,
                            HeldIsBelow, HeldJumpNotLost

-----------------------------------------------------------------------------
(* Theorems *)

(* Every step keeps it. *)
LEMMA StepInv == JumpInv /\ [Next]_vars => JumpInv'
  <1> SUFFICES ASSUME JumpInv, [Next]_vars PROVE JumpInv'
    OBVIOUS
  <1>1. ASSUME NEW f \in Functions, Call(f) PROVE JumpInv'
    BY <1>1, CallInv
  <1>2. CASE Return
    BY <1>2, ReturnInv
  <1>3. ASSUME NEW e \in Envs, Longjmp(e) PROVE JumpInv'
    BY <1>3, LongjmpInv
  <1>4. ASSUME NEW s \in DOMAIN Top.regs, NEW e \in Envs, Setjmp(s, e)
        PROVE  JumpInv'
    BY <1>4, SetjmpInv
  <1>5. CASE CatchJump
    BY <1>5, CatchJumpInv
  <1>6. CASE PropagateJump
    BY <1>6, PropagateJumpInv
  <1>7. CASE LeaveMain
    BY <1>7, LeaveMainInv
  <1>8. CASE Exit
    BY <1>8, ExitInv
  <1>9. CASE UNCHANGED vars
    BY <1>9 DEF vars, JumpInv, FullTypeOK, IdsIdentify, FramesMatch,
                ResumesAtTarget, HeldIsBelow, HeldJumpNotLost, Held, CaughtAt
  <1>10. QED
    BY <1>1, <1>2, <1>3, <1>4, <1>5, <1>6, <1>7, <1>8, <1>9 DEF Next, Unwind

(* The invariant holds in every state of every run. *)
THEOREM JumpInvariant == Spec => []JumpInv
  <1>1. QED
    BY InitInv, StepInv, PTL DEF Spec

(* Every ID in a register of a method or in a jmp_buf is one that setjmp   *)
(* has returned.                                                           *)
THEOREM TypeCorrect == Spec => []TypeOK
  <1>1. JumpInv => TypeOK
    BY DEF JumpInv, FullTypeOK, TypeOK, Act, Regs
  <1>2. QED
    BY <1>1, JumpInvariant, PTL

(* Between Jumps the frames in memory are those of the methods on the Java *)
(* stack, above what earlier runs of main left: createStackFrame and       *)
(* destroyStackFrame stay paired through longjmp and Exit.                 *)
THEOREM FramesAlwaysMatch == Spec => []FramesMatch
  <1>1. JumpInv => FramesMatch
    BY DEF JumpInv
  <1>2. QED
    BY <1>1, JumpInvariant, PTL

(* A method that catches a Jump is the activation whose setjmp call it     *)
(* goes to, at that site, and the frames are its own and its callers'.     *)
THEOREM JumpsResumeAtTarget == Spec => []ResumesAtTarget
  <1>1. JumpInv => ResumesAtTarget
    BY DEF JumpInv
  <1>2. QED
    BY <1>1, JumpInvariant, PTL

(* A Jump whose ID is still in its register is not lost. *)
THEOREM HeldJumpsAreCaught == Spec => []HeldJumpNotLost
  <1>1. JumpInv => HeldJumpNotLost
    BY DEF JumpInv
  <1>2. QED
    BY <1>1, JumpInvariant, PTL
=============================================================================
