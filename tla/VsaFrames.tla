------------------------------ MODULE VsaFrames ------------------------------
(***************************************************************************)
(* The frame map beside the register file (vm/engine.rs, vm/registry.rs).  *)
(* BIND_ROLE bundles bind(role, filler) into a register's hypervector and  *)
(* notes role and filler in vsa_frames under the register's key; UNBIND    *)
(* and the registry's recover() consult that note before they look at the  *)
(* vector.  Registers and notes must tell the same story while code binds, *)
(* overwrites, moves, calls and returns and the host calls, takes          *)
(* snapshots, restores and resets.                                         *)
(*                                                                         *)
(* A hypervector is the set of pairs bundled into it.  Unbinding a role it *)
(* holds finds a filler of that role if the pool has one; any other        *)
(* similarity is noise, and then any candidate may win.                    *)
(***************************************************************************)
EXTENDS Naturals, Sequences, FiniteSets

CONSTANTS
  Reg,          \* registers, which are also the names they are declared by
  ArgReg,       \* the register arg0
  Role, Filler, \* symbols of the loaded program: its name table spells them
  None,         \* no winner
  MaxCallDepth, \* nesting of intra-program calls
  MaxCalls,     \* bound: intra-program calls in a behaviour
  MaxBinds,     \* bound: BIND_ROLEs in a behaviour
  MaxStack      \* bound: values on the operand stack

ASSUME ArgRegAssumption == ArgReg \in Reg
ASSUME BoundsAssumption == {MaxCallDepth, MaxCalls, MaxBinds, MaxStack} \subseteq Nat

VARIABLES
  registers,  \* what each register holds
  vsaFrames,  \* roles and fillers noted per register
  stack,      \* operand stack
  named,      \* registers whose name the name table spells
  callers,    \* suspended activations, outermost first
  me,         \* the running activation (0: the one the host entered)
  calls,      \* intra-program calls made so far
  held,       \* the host's snapshot
  binds,      \* ghost: how many BIND_ROLEs ran
  bindings    \* ghost: every binding made, with the activation that made it

vars == <<registers, vsaFrames, stack, named, callers, me, calls, held,
          binds, bindings>>
machine == <<stack, named, callers, me, calls, held>>
ghosts  == <<binds, bindings>>

-----------------------------------------------------------------------------
(* Values.  inPlace is a ghost: the vector has been built by BIND_ROLEs in *)
(* the register it is in, which had no note when the first one ran.        *)
Pair   == Role \X Filler
Scalar == [kind |-> "scalar", pairs |-> {}, inPlace |-> FALSE]
Hvec(pairs, inPlace) == [kind |-> "hvec", pairs |-> pairs, inPlace |-> inPlace]
Value  == {Scalar} \cup [kind: {"hvec"}, pairs: SUBSET Pair, inPlace: BOOLEAN]
Moved(v) == IF v.kind = "hvec" THEN Hvec(v.pairs, FALSE) ELSE Scalar

NoFrame == [roles |-> {}, fillers |-> {}]
Frame   == {NoFrame} \cup [roles: (SUBSET Role) \ {{}}, fillers: (SUBSET Filler) \ {{}}]

Empty   == [r \in Reg |-> Scalar]
Unnoted == [r \in Reg |-> NoFrame]

Outcome(why, winner) == [reason |-> why, winner |-> winner]

FramesTypeOK ==
  /\ registers \in [Reg -> Value]
  /\ vsaFrames \in [Reg -> Frame]
  /\ stack \in Seq(Value) /\ Len(stack) <= MaxStack
  /\ named \subseteq Reg
  /\ callers \in Seq([registers: [Reg -> Value], vsaFrames: [Reg -> Frame], me: Nat])
  /\ Len(callers) <= MaxCallDepth
  /\ {me, calls, binds} \subseteq Nat
  /\ calls <= MaxCalls /\ binds <= MaxBinds
  /\ held \in [registers: [Reg -> Value], vsaFrames: [Reg -> Frame], stack: Seq(Value)]
  /\ Len(held.stack) <= MaxStack
  /\ bindings \subseteq [by: Nat, reg: Reg, role: Role, filler: Filler]

Init ==
  /\ registers = Empty /\ vsaFrames = Unnoted /\ stack = <<>>
  /\ named \in SUBSET Reg   \* a program's symbols may be register names too
  /\ callers = <<>> /\ me = 0 /\ calls = 0
  /\ held = [registers |-> Empty, vsaFrames |-> Unnoted, stack |-> <<>>]
  /\ binds = 0 /\ bindings = {}

-----------------------------------------------------------------------------
(* BIND_ROLE: vsa_bind_into.                                               *)
Combined(r, pair) ==
  IF registers[r].kind = "hvec"
  THEN Hvec(registers[r].pairs \cup {pair}, registers[r].inPlace)
  ELSE Hvec({pair}, vsaFrames[r] = NoFrame)

NotedFiller(frame, role, filler) ==                              \* mutant
  [frame EXCEPT !.fillers = @ \cup {filler}]
Noted(frame, role, filler) == [roles   |-> frame.roles \cup {role},
                               fillers |-> frame.fillers \cup {filler}]

BindRole(r, role, filler) ==
  /\ binds < MaxBinds
  /\ registers' = [registers EXCEPT ![r] = Combined(r, <<role, filler>>)]
  /\ vsaFrames' = [vsaFrames EXCEPT ![r] = Noted(@, role, filler)]
  /\ binds' = binds + 1
  /\ bindings' = bindings \cup {[by |-> me, reg |-> r, role |-> role, filler |-> filler]}
  /\ UNCHANGED machine

-----------------------------------------------------------------------------
(* vsa_unbind_cleanup_known: the note answers first, then the vector is    *)
(* cleaned up against the note's fillers, or against every known name when *)
(* there is no note.                                                       *)
AbsentFrom(frame, role) == frame.roles # {} /\ role \notin frame.roles

Known      == Role \cup Filler \cup named
Pool(frame) == IF frame.fillers = {} THEN Known ELSE frame.fillers
Signal(v, role) == {p[2] : p \in {q \in v.pairs : q[1] = role}}
Nearest(v, role, pool) == IF Signal(v, role) \cap pool # {}
                          THEN Signal(v, role) \cap pool ELSE pool

\* The outcomes a recovery of role may have on a value with this note.
Cleanup(v, frame, role) ==
  IF AbsentFrom(frame, role) THEN {Outcome("absent_role", None)}
  ELSE IF v.kind # "hvec" THEN {Outcome("no_frame", None)}
  ELSE {Outcome("recovered", w) : w \in Nearest(v, role, Pool(frame))}

(* UNBIND r role leaves the winner in the register, or Null for an absent  *)
(* role; a register that holds no vector is left alone.                    *)
Unbind(r, role) ==
  /\ \E outcome \in Cleanup(registers[r], vsaFrames[r], role) :
       registers' = IF outcome.reason = "no_frame" THEN registers
                    ELSE [registers EXCEPT ![r] = Scalar]
  /\ UNCHANGED <<vsaFrames, machine, ghosts>>

(* CALL recover(r, role), the registry's native function: the argument is  *)
(* resolved to the register's key only while the name table does not spell *)
(* its name, and no register has a spelling for its key.  What it returns  *)
(* is pushed.                                                              *)
ArgValue(r) == IF r \in named THEN Scalar ELSE registers[r]
ArgFrame(r) == IF r \in named THEN NoFrame ELSE vsaFrames[r]

Recover(r, role) ==
  /\ Len(stack) < MaxStack
  /\ \E outcome \in Cleanup(ArgValue(r), ArgFrame(r), role) :
       stack' = Append(stack, Scalar)
  /\ UNCHANGED <<registers, vsaFrames, named, callers, me, calls, held, ghosts>>

-----------------------------------------------------------------------------
(* Opcodes that write registers without a word to the frame map: CREATE,   *)
(* ASSIGN of a literal, arithmetic; COPY and ASSIGN of a register; PUSH and *)
(* POP, which stand for storage as well.                                   *)
Overwrite(r) ==
  /\ registers' = [registers EXCEPT ![r] = Scalar]
  /\ UNCHANGED <<vsaFrames, machine, ghosts>>

Copy(src, dst) ==
  /\ registers' = [registers EXCEPT ![dst] = Moved(registers[src])]
  /\ UNCHANGED <<vsaFrames, machine, ghosts>>

Push(r) ==
  /\ Len(stack) < MaxStack
  /\ stack' = Append(stack, Moved(registers[r]))
  /\ UNCHANGED <<registers, vsaFrames, named, callers, me, calls, held, ghosts>>

Pop(r) ==
  /\ registers' = [registers EXCEPT ![r] =
       IF stack = <<>> THEN Scalar ELSE stack[Len(stack)]]
  /\ stack' = IF stack = <<>> THEN stack ELSE SubSeq(stack, 1, Len(stack) - 1)
  /\ UNCHANGED <<vsaFrames, named, callers, me, calls, held, ghosts>>

-----------------------------------------------------------------------------
(* Intra-program calls: exec_intra_call.  The callee starts with its       *)
(* argument and nothing else, and the caller gets both maps back.          *)
FramesLeftInPlace == vsaFrames                                   \* mutant
CalleeFrames      == Unnoted

Call(r) ==
  /\ Len(callers) < MaxCallDepth /\ calls < MaxCalls
  /\ callers' = Append(callers, [registers |-> registers, vsaFrames |-> vsaFrames,
                                 me |-> me])
  /\ registers' = [Empty EXCEPT ![ArgReg] = Moved(registers[r])]
  /\ vsaFrames' = CalleeFrames
  /\ named' = named \cup {ArgReg}
  /\ calls' = calls + 1 /\ me' = calls'
  /\ UNCHANGED <<stack, held, ghosts>>

Resume(activation) == /\ registers' = activation.registers
                      /\ vsaFrames' = activation.vsaFrames
                      /\ me' = activation.me

Return(r) ==
  /\ callers # <<>> /\ Len(stack) < MaxStack
  /\ Resume(callers[Len(callers)])
  /\ callers' = SubSeq(callers, 1, Len(callers) - 1)
  /\ stack' = Append(stack, Moved(registers[r]))
  /\ UNCHANGED <<named, calls, held, ghosts>>

\* An error passes through every CALL on its way to the host.
Fault ==
  /\ callers # <<>>
  /\ Resume(callers[1])
  /\ callers' = <<>>
  /\ UNCHANGED <<stack, named, calls, held, ghosts>>

-----------------------------------------------------------------------------
(* The host, between runs: call binds an argument by its declared name and *)
(* as arg0; snapshot and restore; reset.                                   *)
HostCall(param) ==
  /\ callers = <<>>
  /\ registers' = [registers EXCEPT ![param] = Scalar, ![ArgReg] = Scalar]
  /\ named' = named \cup {param, ArgReg}
  /\ UNCHANGED <<vsaFrames, stack, callers, me, calls, held, ghosts>>

CapturedButFrames ==                                             \* mutant
  [registers |-> registers, vsaFrames |-> held.vsaFrames, stack |-> stack]
Captured == [registers |-> registers, vsaFrames |-> vsaFrames, stack |-> stack]

Snapshot ==
  /\ callers = <<>>
  /\ held' = Captured
  /\ UNCHANGED <<registers, vsaFrames, stack, named, callers, me, calls, ghosts>>

Restore ==
  /\ callers = <<>>
  /\ registers' = held.registers /\ vsaFrames' = held.vsaFrames
  /\ stack' = held.stack
  /\ UNCHANGED <<named, callers, me, calls, held, ghosts>>

Reset ==
  /\ callers = <<>>
  /\ registers' = Empty /\ stack' = <<>>
  /\ UNCHANGED <<vsaFrames, named, callers, me, calls, held, ghosts>>

-----------------------------------------------------------------------------
Next ==
  \/ \E r \in Reg, role \in Role, filler \in Filler : BindRole(r, role, filler)
  \/ \E r \in Reg, role \in Role : Unbind(r, role) \/ Recover(r, role)
  \/ \E r \in Reg : Overwrite(r) \/ Push(r) \/ Pop(r) \/ Call(r) \/ Return(r)
  \/ \E src, dst \in Reg : Copy(src, dst)
  \/ \E param \in Reg : HostCall(param)
  \/ Fault \/ Snapshot \/ Restore \/ Reset

Spec == Init /\ [][Next]_vars

-----------------------------------------------------------------------------
(* A frame's cleanup pool holds only fillers the running activation bound  *)
(* into that very register: a callee's bindings never reach its caller, nor *)
(* a caller's its callee, whatever the two call their registers            *)
(* (exec_intra_call, vsa_frames).                                          *)
BoundHere(who, r) == {b.filler : b \in {c \in bindings : c.by = who /\ c.reg = r}}
OwnFillers(frames, who) == \A r \in Reg : frames[r].fillers \subseteq BoundHere(who, r)
OwnFillersOnly == /\ OwnFillers(vsaFrames, me)
                  /\ \A i \in 1..Len(callers) :
                       OwnFillers(callers[i].vsaFrames, callers[i].me)

(* A frame built in place answers exactly, whatever calls, faults,         *)
(* snapshots and restores came before: a role in its vector recovers a     *)
(* filler of that role, and a role not in it is Null with reason           *)
(* absent_role (vsa_unbind_cleanup_known).                                 *)
Exact(v, role, outcome) ==
  IF Signal(v, role) = {} THEN outcome = Outcome("absent_role", None)
  ELSE outcome.reason = "recovered" /\ outcome.winner \in Signal(v, role)

InPlaceAnswersExact ==
  \A r \in Reg, role \in Role : registers[r].inPlace =>
    \A outcome \in Cleanup(registers[r], vsaFrames[r], role) :
      Exact(registers[r], role, outcome)

(* docs/STEP0.md: UNBIND of a role that is not in a noted frame is Null    *)
(* with reason absent_role, before any unbind runs.  The code keeps a note *)
(* after its register was overwritten, so a role of the old vector counts  *)
(* as present in the new one.                                              *)
AbsentRoleIsNull ==
  \A r \in Reg, role \in Role :
    /\ registers[r].kind = "hvec" /\ Signal(registers[r], role) = {}
    /\ vsaFrames[r] # NoFrame
    => Cleanup(registers[r], vsaFrames[r], role) = {Outcome("absent_role", None)}

(* vm/registry.rs: recover is Null "when `reg` never held a bound          *)
(* hypervector", and reads the register the caller names.  The code looks  *)
(* the spelled name up instead of the key once the name table spells it,   *)
(* and then finds no frame in a register that holds one.                   *)
RecoverSeesRegister ==
  \A r \in Reg, role \in Role : registers[r].kind = "hvec" =>
    Outcome("no_frame", None) \notin Cleanup(ArgValue(r), ArgFrame(r), role)

=============================================================================
