-------------------------------- MODULE Jump --------------------------------
(***************************************************************************)
(* setjmp and longjmp: llxvm.runtime.Jump, the frames of                   *)
(* llxvm.runtime.Memory, and the code JVMWriter emits around them.         *)
(*                                                                         *)
(* A compiled function is a Java method.  On entry it creates a frame, on  *)
(* return it destroys it.  Each setjmp call site of the function has a JVM *)
(* register that keeps the ID of its last setjmp; a Jump exception that    *)
(* reaches the method is caught there if its ID is in one of these         *)
(* registers, and passes on otherwise, without destroying the frame:       *)
(* longjmp has destroyed all frames above the target before it throws.     *)
(* Exit, thrown by _exit for an embedding host, unwinds every method and   *)
(* destroys no frame; the host may call main again.                        *)
(*                                                                         *)
(* Frames are kept as a sequence, which is what Memory implements          *)
(* (ObjectStore).  An element names the activation that created the frame. *)
(***************************************************************************)
EXTENDS Integers, Sequences

CONSTANTS
  Functions,   \* compiled functions
  Sites,       \* Sites[f]: the setjmp call sites of f
  Envs,        \* jmp_buf objects
  MaxActs,     \* bound on activations made during a run
  MaxJumps,    \* bound on setjmp calls
  MaxLive      \* bound on methods on the Java stack

ASSUME FunctionAssumption == Functions # {}
ASSUME SiteAssumption == DOMAIN Sites = Functions
ASSUME BoundAssumption == MaxActs \in Nat /\ MaxJumps \in Nat /\ MaxLive \in Nat

VARIABLES
  acts,       \* Java stack: activations [act, fn, regs]
  frames,     \* Memory's stack: the activations that created its frames
  env,        \* contents of each jmp_buf: [id, depth]
  numJumps,   \* number of setjmp calls so far
  jump,       \* the Jump in flight, or NoJump
  status,     \* "running", or "uncaught" once a Jump has left main
  numActs,    \* history: number of activations so far
  base,       \* history: frames left behind by earlier runs of main
  setter      \* history: the last call of setjmp with each jmp_buf

vars == <<acts, frames, env, numJumps, jump, status, numActs, base, setter>>

(* A setjmp call: the activation that makes it and its site. *)
NoCall == [act |-> 0, site |-> 0]

(* A Jump has an ID.  The rest is history: the setjmp call it goes to,     *)
(* whether that activation was live when longjmp was called, and whether   *)
(* its site had made no later setjmp call.                                 *)
NoJump == [id |-> 0, to |-> NoCall, live |-> FALSE, held |-> FALSE]

stackDepth == Len(frames)

Top == acts[Len(acts)]

(* Jump IDs of a new activation are 0, the ID of no setjmp. *)
NoIds_Unset(f) == [s \in Sites[f] |-> -1]
NoIds(f) == [s \in Sites[f] |-> 0]

Front(s) == SubSeq(s, 1, Len(s) - 1)

(* destroyStackFrames: the loop runs n times, not at all if n is negative. *)
DestroyFrames(n) == SubSeq(frames, 1, stackDepth - (IF n > 0 THEN n ELSE 0))

(* How many frames longjmp destroys. *)
FramesAbove_ButOne(e) == stackDepth - env[e].depth - 1
FramesAbove(e) == stackDepth - env[e].depth

(* The registers printCatchJump compares with the ID of a Jump. *)
CaughtAt(a, id) == {s \in DOMAIN a.regs : a.regs[s] = id}

Init ==
  /\ acts = <<>>
  /\ frames = <<>>
  /\ env = [e \in Envs |-> [id |-> 0, depth |-> 0]]
  /\ numJumps = 0
  /\ jump = NoJump
  /\ status = "running"
  /\ numActs = 0
  /\ base = 0
  /\ setter = [e \in Envs |-> NoCall]

InMethod == status = "running" /\ jump = NoJump /\ acts # <<>>

(* Entry of a compiled function: jump IDs cleared, createStackFrame. *)
Call(f) ==
  /\ status = "running" /\ jump = NoJump
  /\ numActs < MaxActs /\ Len(acts) < MaxLive
  /\ numActs' = numActs + 1
  /\ acts' = Append(acts, [act |-> numActs', fn |-> f, regs |-> NoIds(f)])
  /\ frames' = Append(frames, numActs')
  /\ UNCHANGED <<env, numJumps, jump, status, base, setter>>

(* Ret: destroyStackFrame, then return. *)
Return ==
  /\ InMethod
  /\ acts' = Front(acts)
  /\ frames' = DestroyFrames(1)
  /\ UNCHANGED <<env, numJumps, jump, status, numActs, base, setter>>

(* setjmp returns a new ID, which the call site keeps in its register. *)
Setjmp(s, e) ==
  /\ InMethod
  /\ s \in DOMAIN Top.regs
  /\ numJumps < MaxJumps
  /\ numJumps' = numJumps + 1
  /\ env' = [env EXCEPT ![e] = [id |-> numJumps', depth |-> stackDepth]]
  /\ acts' = [acts EXCEPT ![Len(acts)].regs[s] = numJumps']
  /\ setter' = [setter EXCEPT ![e] = [act |-> Top.act, site |-> s]]
  /\ UNCHANGED <<frames, jump, status, numActs, base>>

(* Whether the activation that made a setjmp call still runs, and whether  *)
(* its register still keeps the ID.                                        *)
Live(call) == \E i \in 1 .. Len(acts) : acts[i].act = call.act
Held(call, id) ==
  \E i \in 1 .. Len(acts) :
    acts[i].act = call.act /\ call.site \in CaughtAt(acts[i], id)

(* longjmp with a jmp_buf that some setjmp has filled, its function live   *)
(* or not: destroys the frames above the saved depth, throws the Jump.     *)
Longjmp(e) ==
  LET id == env[e].id IN
  /\ InMethod
  /\ id # 0
  /\ frames' = DestroyFrames(FramesAbove(e))
  /\ jump' = [id |-> id, to |-> setter[e],
               live |-> Live(setter[e]), held |-> Held(setter[e], id)]
  /\ UNCHANGED <<acts, env, numJumps, status, numActs, base, setter>>

(* The handler of the method on top compares the ID with its registers.    *)
Passes_Unchecked == TRUE
Passes == CaughtAt(Top, jump.id) = {}

(* A match: setjmp returns a second time. *)
CatchJump ==
  /\ status = "running" /\ jump # NoJump /\ acts # <<>>
  /\ ~Passes
  /\ jump' = NoJump
  /\ UNCHANGED <<acts, frames, env, numJumps, status, numActs, base, setter>>

(* athrow, outside the guarded range, or no handler: the method ends and   *)
(* its frame is not touched.                                               *)
LeaveMethod_DestroysFrame == acts' = Front(acts) /\ frames' = DestroyFrames(1)
LeaveMethod_IntoHandler ==
  /\ acts' = IF DOMAIN Top.regs = {} THEN Front(acts) ELSE acts
  /\ UNCHANGED frames
LeaveMethod == acts' = Front(acts) /\ UNCHANGED frames

PropagateJump ==
  /\ status = "running" /\ jump # NoJump /\ acts # <<>>
  /\ Passes
  /\ LeaveMethod
  /\ UNCHANGED <<env, numJumps, jump, status, numActs, base, setter>>

(* The Jump leaves the Java main method. *)
LeaveMain ==
  /\ status = "running" /\ jump # NoJump /\ acts = <<>>
  /\ status' = "uncaught"
  /\ UNCHANGED <<acts, frames, env, numJumps, jump, numActs, base, setter>>

(* _exit with throwExit set: Exit passes every method, no frame is         *)
(* destroyed, and the host may call main again.                            *)
Exit ==
  /\ InMethod
  /\ acts' = <<>>
  /\ base' = stackDepth
  /\ UNCHANGED <<frames, env, numJumps, jump, status, numActs, setter>>

Unwind == CatchJump \/ PropagateJump \/ LeaveMain

Next ==
  \/ \E f \in Functions : Call(f)
  \/ Return
  \/ \E e \in Envs : Longjmp(e)
  \/ InMethod /\ \E s \in DOMAIN Top.regs, e \in Envs : Setjmp(s, e)
  \/ Unwind
  \/ Exit

(* The JVM dispatches an exception until it is caught or the thread ends.  *)
Spec == Init /\ [][Next]_vars /\ WF_vars(Unwind)

-----------------------------------------------------------------------------
(* Properties *)

(* Types; an ID in a register or in a jmp_buf is one that setjmp returned. *)
TypeOK ==
  /\ acts \in Seq([act : Nat, fn : Functions,
                   regs : UNION {[Sites[f] -> 0 .. numJumps] : f \in Functions}])
  /\ frames \in Seq(Nat)
  /\ env \in [Envs -> [id : 0 .. numJumps, depth : Nat]]
  /\ numJumps \in Nat /\ numActs \in Nat /\ base \in Nat
  /\ jump.id \in 0 .. numJumps
  /\ status \in {"running", "uncaught"}

(* While no Jump is in flight, the frames in memory are those of the       *)
(* methods on the Java stack, in their order, above the frames that        *)
(* earlier runs of main left behind.  So after any mixture of calls,       *)
(* returns, longjmps over several methods and exits, each return destroys  *)
(* the frame of its own activation.                                        *)
FramesMatch ==
  status = "running" /\ jump = NoJump =>
    /\ Len(frames) = base + Len(acts)
    /\ \A i \in 1 .. Len(acts) : frames[base + i] = acts[i].act

(* A method that catches a Jump is the activation whose setjmp call it     *)
(* goes to, at that very site, and the frames in memory are its own and    *)
(* those of its callers: longjmp has destroyed neither too few frames nor  *)
(* too many.  A jmp_buf filled by an activation that has ended is never    *)
(* mistaken for one of a later activation of the same function at the same *)
(* depth.                                                                  *)
ResumesAtTarget ==
  jump # NoJump =>
    \A i \in 1 .. Len(acts) : \A s \in CaughtAt(acts[i], jump.id) :
      /\ jump.to = [act |-> acts[i].act, site |-> s]
      /\ Len(frames) = base + i
      /\ \A j \in 1 .. i : frames[base + j] = acts[j].act

(* A Jump whose ID is still in its register does not leave main.           *)
HeldJumpNotLost == status = "uncaught" => ~jump.held

(* What Jump.longjmp documents: the last call of setjmp with this jmp_buf  *)
(* returns again.  (Not an invariant: a site that has called setjmp again  *)
(* with another jmp_buf has forgotten the first ID.)                       *)
LiveJumpNotLost == status = "uncaught" => ~jump.live

(* Every Jump is caught, or leaves main and ends the program.              *)
UnwindingEnds == jump # NoJump ~> (jump = NoJump \/ status = "uncaught")
=============================================================================
