------------------------------- MODULE CubeVM -------------------------------
(***************************************************************************)
(* The CubeLang virtual machine (src/src/vm/engine.rs): one VM with one    *)
(* loaded program, the bytecode loop of exec_function, intra-program CALL, *)
(* the budgets of a request, ASK/resume, and the calls a host makes on the *)
(* machine between two executions.                                         *)
(*                                                                         *)
(* The machine is sequential.  While frames is non-empty exactly one       *)
(* opcode runs at a time; while it is empty the host holds the VM and may  *)
(* call, resume, snapshot, restore or reset it, in any order.  The only    *)
(* concurrent actor is the clock.                                          *)
(*                                                                         *)
(* Bytecode is a sequence of decoded instructions, so a pc is an index     *)
(* into it; the two-byte hashes of names are taken as collision-free, and  *)
(* spelled is what the name table can spell of them.                       *)
(* vsa_frames (BIND_ROLE, UNBIND, recover) is not part of this module.     *)
(***************************************************************************)
EXTENDS CubeValues, FiniteSets

CONSTANTS
  Programs,      (* the programs a VM may be loaded with                    *)
  Registry,      (* module -> function -> [overridable, value]              *)
  Knowledge,     (* the knowledge stores a VM may start from                *)
  Limits,        (* the budgets a host may set                              *)
  Reg,           (* register names                                          *)
  Key,           (* storage keys                                            *)
  FnName,        (* function names a host may ask for                       *)
  HostArgs,      (* argument lists a host may pass                          *)
  Answers,       (* values a host may answer an ASK with                    *)
  ArgReg,        (* the argN registers, in order                            *)
  MaxCallDepth,  (* MAX_CALL_DEPTH                                          *)
  WallStride,    (* the clock is read every WallStride opcodes              *)
  MaxHostCalls,  (* bound: calls the host makes on one VM                   *)
  CountCap       (* bound: where the u64 counters stop counting             *)

NoOperand == <<"none", 0>>
Operand   == ({"imm"} \X Integer) \cup ({"reg"} \X Reg) \cup ({"lit"} \X Sym)
                \cup ({"name"} \X STRING)
Instruction == [op : STRING, args : Seq(Operand)]
Function == [params : Seq(Reg), code : Seq(Instruction), once : BOOLEAN,
             access : {"external", "internal", "system"}, override : BOOLEAN]

ASSUME ProgramsAssumption ==
  \A p \in Programs :
    /\ \A f \in DOMAIN p.fns : p.fns[f] \in Function
    /\ p.used \in Seq(DOMAIN Registry)
    /\ DOMAIN p.fns \subseteq STRING /\ p.syms \subseteq STRING

ASSUME RegistryAssumption ==
  \A m \in DOMAIN Registry :
    /\ DOMAIN Registry[m] \subseteq STRING
    /\ \A f \in DOMAIN Registry[m] :
         Registry[m][f] \in [overridable : BOOLEAN, value : Value]

ASSUME KnowledgeAssumption == Knowledge \subseteq [Sym -> Seq(Map)]

ASSUME HostAssumption ==
  /\ HostArgs \subseteq Seq(Value)
  /\ Answers \subseteq Value
  /\ Reg \subseteq STRING /\ "__cmp" \in Reg
  /\ ArgReg \in Seq(Reg)

ASSUME BoundsAssumption ==
  /\ MaxCallDepth \in Nat /\ MaxHostCalls \in Nat
  /\ WallStride \in Nat \ {0} /\ CountCap \in Nat \ {0}
  /\ Limits \subseteq [ops : 0 .. CountCap - 1, queries : Nat, jumps : Nat,
                       wall : BOOLEAN]

VARIABLES
  prog,         (* the loaded program                                       *)
  limits,       (* op_budget, query_budget, jump_budget, deadline set       *)
  knowledge,    (* mention -> facts                                         *)
  registers,    (* register file, Unbound where absent                      *)
  stack,        (* operand stack, shared by every function                  *)
  storage,      (* the exact-key map beside the associative memory          *)
  memory,       (* hippocampal traces by key                                *)
  accumulator,
  frames,       (* activation records, innermost last; <<>> = the host runs *)
  result,       (* the last ExecResult handed to the host                   *)
  ops,          (* ops_executed                                             *)
  jumpsTaken,   (* jumps_taken                                              *)
  queried,      (* every QUERY made: mention and number of facts            *)
  once,         (* once_called                                              *)
  spelled,      (* name_table: the names it has a spelling for              *)
  late,         (* the deadline has passed                                  *)
  susps,        (* suspensions handed to the host, in order                 *)
  snaps,        (* snapshots the host holds                                 *)
  hostCalls,    (* history: calls the host has made                         *)
  runs          (* history: fresh entries into each function's body         *)

machine  == <<registers, stack, storage, memory, accumulator>>
counters == <<jumpsTaken, queried>>
entries  == <<once, runs, spelled>>
host     == <<prog, limits, knowledge, late, snaps, hostCalls>>
vars == <<prog, limits, knowledge, registers, stack, storage, memory,
          accumulator, frames, result, ops, jumpsTaken, queried, once, spelled,
          late, susps, snaps, hostCalls, runs>>

-----------------------------------------------------------------------------
(* The instruction under the program counter, and its operands.            *)

Top    == frames[Len(frames)]
Code   == prog.fns[Top.fn].code
Instr  == Code[Top.pc]
Arg(i) == IF i \in DOMAIN Instr.args THEN Instr.args[i] ELSE NoOperand
Name(i) == Arg(i)[2]
(* resolve_symbol_name: the spelling of an operand's hash, or the hash in  *)
(* print, which is no key of any store.                                    *)
Symbol(o) == IF o[1] \in {"reg", "lit", "name"} /\ o[2] \in spelled
             THEN o[2] ELSE "unnamed"

RegOr(r, default) == IF r \in Reg /\ registers[r] # Unbound THEN registers[r]
                     ELSE default

(* resolve_value (default Int(0)) and resolve_assign_rhs (default Null).   *)
Resolved(o, default) ==
  CASE o[1] = "imm" -> IntV(o[2])
    [] o[1] = "lit" -> StrV(Symbol(o))
    [] o[1] = "reg" -> RegOr(o[2], default)
    [] OTHER        -> default

Num(o) == Resolved(o, IntV(0))
Rhs(o) == Resolved(o, Null)

(* scan_labels keeps the last LABEL of a name; a name nothing labels has   *)
(* no target.                                                              *)
Labels(code, l) == {t \in DOMAIN code :
                      code[t].op = "LABEL" /\ code[t].args = <<<<"name", l>>>>}
Targets(code, l) == {t \in Labels(code, l) : \A u \in Labels(code, l) : u <= t}

(* ModuleRegistry::resolve: the first used module that exposes the name.   *)
NativeHits(f) == {i \in DOMAIN prog.used : f \in DOMAIN Registry[prog.used[i]]}
Native(f) == Registry[prog.used[CHOOSE i \in NativeHits(f) :
                                  \A j \in NativeHits(f) : i <= j]][f]
IsNative(f) == NativeHits(f) # {}
IsOwn(f)    == f \in DOMAIN prog.fns
Overrides(f) == IsOwn(f) /\ prog.fns[f].override /\ IsNative(f)
                  /\ Native(f).overridable

(* What VM::new and VM::load put into the name table.                      *)
NativeNames == UNION {DOMAIN Registry[m] : m \in DOMAIN Registry}
LoadedNames(p) == NativeNames \cup DOMAIN p.fns \cup p.syms

Tick(n) == IF n < CountCap THEN n + 1 ELSE n

NoResult      == [kind |-> "none", value |-> Null, why |-> "none"]
Done(kind, v) == [kind |-> kind, value |-> v, why |-> "none"]
Error(why)    == [kind |-> "error", value |-> Null, why |-> why]

NoRegisters == [r \in Reg |-> Unbound]
NewFrame(f, saved) == [fn |-> f, pc |-> 1, flag |-> FALSE,
                       jumps |-> limits.jumps, saved |-> saved]

-----------------------------------------------------------------------------
(* How a step leaves the control state.                                    *)

(* The opcode is counted, then the op budget and the clock are consulted,  *)
(* and only then does it run.                                              *)
Fetched      == frames # <<>> /\ Top.pc <= Len(Code)
CheckedBeforeCounting == limits.ops > 0 /\ ops > limits.ops     \* mutant
OverOps      == limits.ops > 0 /\ Tick(ops) > limits.ops
PastDeadline == late /\ Tick(ops) % WallStride = 0
Runs(opcodes) == /\ Fetched /\ ~OverOps /\ ~PastDeadline
                 /\ Instr.op \in opcodes
                 /\ ops' = Tick(ops)

Goto(pc) == /\ frames' = [frames EXCEPT ![Len(frames)].pc = pc]
            /\ UNCHANGED <<result, entries, susps>>
Advance  == Goto(Top.pc + 1)

(* An error unwinds every activation at once: each CALL on the way out     *)
(* restores its caller's registers and passes the error on.                *)
HostRegisters == IF Len(frames) > 1 THEN frames[2].saved ELSE registers
Unwind(res) == /\ frames' = <<>>
               /\ registers' = HostRegisters
               /\ result' = res
               /\ UNCHANGED <<stack, storage, memory, accumulator>>
Fault(why) == Unwind(Error(why)) /\ UNCHANGED <<counters, entries, susps>>

(* The innermost function ends: its caller gets its registers back and the *)
(* result on the stack, or the host gets the result.                       *)
Leave(kind, v) ==
  /\ UNCHANGED <<storage, memory, counters, entries, susps>>
  /\ IF Len(frames) = 1
     THEN /\ frames' = <<>>
          /\ result' = Done(kind, v)
          /\ UNCHANGED <<registers, stack>>
     ELSE /\ frames' = SubSeq(frames, 1, Len(frames) - 1)
          /\ registers' = Top.saved
          /\ stack' = Append(stack, v)
          /\ UNCHANGED result

(* A fresh entry into a function's body, unless @once refuses it.          *)
CheckedForHostOnly(f) == prog.fns[f].once /\ f \in once /\ frames = <<>>  \* mutant
OnceSpent(f) == prog.fns[f].once /\ f \in once
CountEntry(f) == /\ once' = IF prog.fns[f].once THEN once \cup {f} ELSE once
                 /\ runs' = [runs EXCEPT ![f] = Tick(@)]

-----------------------------------------------------------------------------
(* Budgets refused before the opcode runs.                                 *)

OutOfOps == /\ Fetched /\ OverOps
            /\ ops' = Tick(ops)
            /\ Fault("op budget")

OutOfTime == /\ Fetched /\ ~OverOps /\ PastDeadline
             /\ ops' = Tick(ops)
             /\ Fault("wall budget")

-----------------------------------------------------------------------------
(* Opcodes that write registers.                                           *)

Write(r, v) == /\ v \in Value    \* bound: values nest as CubeValues says
               /\ registers' = [registers EXCEPT ![r] = v]
               /\ Advance
               /\ UNCHANGED <<stack, storage, memory, accumulator, counters>>

Create == Runs({"CREATE"}) /\ Write(Name(1), Initial)
NewVar == Runs({"NEWVAR"}) /\ Write(Name(1), RegOr(Name(1), Null))
Assign == Runs({"ASSIGN"}) /\ Write(Name(1), Rhs(Arg(2)))
Copy   == Runs({"COPY"})   /\ Write(Name(2), RegOr(Name(1), Null))

Arithmetic ==
  /\ Runs({"ADD", "SUB", "MUL", "DIV"})
  /\ Instr.op = "DIV" => AsI64(Num(Arg(2))) # 0
  /\ Write(Name(1), BinOp(Instr.op, RegOr(Name(1), IntV(0)), Num(Arg(2))))

DivideByZero == /\ Runs({"DIV"})
                /\ AsI64(Num(Arg(2))) = 0
                /\ Fault("division by zero")

MakeArray ==
  /\ Runs({"MAKE_ARRAY"})
  /\ Write(Name(1), ArrayV([i \in 1 .. Name(2) |-> Rhs(Arg(i + 2))]))

Length == Runs({"LEN"}) /\ Write(Name(1), IntV(LenOf(RegOr(Name(2), Null))))

Index == /\ Runs({"INDEX"})
         /\ KeyFits(RegOr(Name(2), Null), Num(Arg(3)))
         /\ Write(Name(1), ElementAt(RegOr(Name(2), Null), Num(Arg(3))))

SetIndex ==
  LET c   == RegOr(Name(1), Null)
      key == Num(Arg(2))
  IN /\ Runs({"SET_INDEX"})
     /\ KeyFits(c, key)
     /\ CanSet(c, key)
     /\ Write(Name(1), Updated(c, key, Rhs(Arg(3))))

SetIndexFault == /\ Runs({"SET_INDEX"})
                 /\ ~CanSet(RegOr(Name(1), Null), Num(Arg(2)))
                 /\ Fault("set_index")

(* Both sides are read before either is written.                           *)
Transfer ==
  LET amount == AsI64(Num(Arg(3)))
      from   == AsI64(RegOr(Name(1), Null))
      to     == AsI64(RegOr(Name(2), Null))
  IN /\ Runs({"TRANSFER"})
     /\ registers' = [registers EXCEPT ![Name(1)] = IntV(Wrap(from - amount)),
                                       ![Name(2)] = IntV(Wrap(to + amount))]
     /\ Advance
     /\ UNCHANGED <<stack, storage, memory, accumulator, counters>>

Destroy == /\ Runs({"DESTROY"})
           /\ registers' = [registers EXCEPT ![Name(1)] = Unbound]
           /\ Advance
           /\ UNCHANGED <<stack, storage, memory, accumulator, counters>>

-----------------------------------------------------------------------------
(* Accumulator and stack.                                                  *)

Sum == /\ Runs({"SUM"})
       /\ accumulator' = RegOr(Name(1), Null)
       /\ Advance
       /\ UNCHANGED <<registers, stack, storage, memory, counters>>

Push == /\ Runs({"PUSH"})
        /\ stack' = Append(stack, RegOr(Name(1), Null))
        /\ Advance
        /\ UNCHANGED <<registers, storage, memory, accumulator, counters>>

(* POP of an empty stack binds Null.                                       *)
Pop == /\ Runs({"POP"})
       /\ registers' = [registers EXCEPT ![Name(1)] =
                          IF stack = <<>> THEN Null ELSE stack[Len(stack)]]
       /\ stack' = IF stack = <<>> THEN <<>>
                   ELSE SubSeq(stack, 1, Len(stack) - 1)
       /\ Advance
       /\ UNCHANGED <<storage, memory, accumulator, counters>>

(* COMPARE sets the flag COND tests, the __cmp register and the            *)
(* accumulator.                                                            *)
Compare ==
  LET kind == IF Len(Instr.args) < 3 THEN "eq" ELSE Name(3)
      va == Num(Arg(1))
      vb == IF kind = "truthy" THEN IntV(0) ELSE Num(Arg(2))
      a  == Side(va, vb)
      b  == Side(vb, va)
  IN /\ Runs({"COMPARE"})
     /\ registers' = [registers EXCEPT !["__cmp"] = StrV(CmpWord(kind, a, b))]
     /\ accumulator' = BoolV(Holds(kind, a, b))
     /\ frames' = [frames EXCEPT ![Len(frames)].pc = @ + 1,
                                 ![Len(frames)].flag = Holds(kind, a, b)]
     /\ UNCHANGED <<stack, storage, memory, counters, result, entries, susps>>

-----------------------------------------------------------------------------
(* Storage, associative memory and the knowledge store.                    *)

ForgottenInMemoryOnly(key, v) ==                                \* mutant
  /\ memory' = [memory EXCEPT ![key] = v]
  /\ storage' = IF v = Unbound THEN storage ELSE [storage EXCEPT ![key] = v]
Traced(key, v) == /\ memory'  = [memory EXCEPT ![key] = v]
                  /\ storage' = [storage EXCEPT ![key] = v]

Remembered(key, v) ==
  /\ Traced(key, v)
  /\ Advance
  /\ UNCHANGED <<registers, stack, accumulator, counters>>

Store == Runs({"STORE"}) /\ Remembered(Name(2), RegOr(Name(1), Null))
Remember == Runs({"REMEMBER"}) /\ Remembered(Name(1), RegOr(Name(1), Null))

Forget == /\ Runs({"FORGET"})
          /\ Traced(Name(1), Unbound)
          /\ Advance
          /\ UNCHANGED <<registers, stack, accumulator, counters>>

(* The nearest trace: the key's own if it is stored, otherwise a fixed     *)
(* choice among those that are (the similarity order is abstracted).       *)
Live == {k \in Key : memory[k] # Unbound}
Nearest(key) == IF key \in Live THEN key ELSE CHOOSE k \in Live : TRUE

Recall ==
  LET key == IF Len(Instr.args) >= 2 THEN Name(2) ELSE Name(1)
  IN /\ Runs({"RECALL"})
     /\ Write(Name(1), IF Live = {} THEN Null ELSE memory[Nearest(key)])

Mention == IF Arg(1)[1] = "reg" /\ IsStr(RegOr(Name(1), Null))
           THEN registers[Name(1)][2] ELSE Symbol(Arg(1))
Lookup(m) == IF m \in Sym THEN knowledge[m] ELSE <<>>
RefusedOneLate == limits.queries > 0 /\ Len(queried) > limits.queries  \* mutant
OverQueries == limits.queries > 0 /\ Len(queried) >= limits.queries

LogsOperand(m) == queried' = Append(queried, <<Symbol(Arg(1)), Len(Lookup(m))>>)  \* mutant
Logs(m) == queried' = Append(queried, <<m, Len(Lookup(m))>>)

Query == /\ Runs({"QUERY"})
         /\ ~OverQueries
         /\ Logs(Mention)
         /\ stack' = Append(stack, ArrayV(Lookup(Mention)))
         /\ Advance
         /\ UNCHANGED <<registers, storage, memory, accumulator, jumpsTaken>>

QueryRefused == Runs({"QUERY"}) /\ OverQueries /\ Fault("query budget")

-----------------------------------------------------------------------------
(* Control flow.                                                           *)

(* SKIP, LABEL, LOOP and the opcodes that only leave a trace line.         *)
Structural ==
  {"SKIP", "LABEL", "LOOP", "UNIFY", "INST", "GEN", "SEQ", "DIFF",
   "DETECT_PATTERN", "PREDICT", "MATCH", "DEBATE", "DISCOVER", "DECODE",
   "SCORE", "SPECIALIZE", "REWARD", "INFER", "MERGE", "SPLIT", "FILTER",
   "MAP_ROLES", "REDUCE", "TEMPORAL_BIND", "ANALOGY", "BROADCAST", "EXPLORE",
   "FORGE", "SYNC"}

PassOver == Runs(Structural) /\ Advance /\ UNCHANGED <<machine, counters>>

(* JMP jumps; COND jumps when the flag is false.                           *)
Wants == Instr.op = "COND" => ~Top.flag

Unspent(n) == n                                                  \* mutant
Spent(n)   == n - 1

JumpsLeftOrNone == Top.jumps >= 0                                \* mutant
JumpsLeft       == Top.jumps > 0

Jump == /\ Runs({"JMP", "COND"})
        /\ Wants
        /\ JumpsLeft
        /\ \E t \in Targets(Code, Name(1)) :
             frames' = [frames EXCEPT ![Len(frames)].pc = t,
                                      ![Len(frames)].jumps = Spent(@)]
        /\ jumpsTaken' = Tick(jumpsTaken)
        /\ UNCHANGED <<machine, queried, result, entries, susps>>

JumpRefused == /\ Runs({"JMP", "COND"})
               /\ Wants
               /\ Targets(Code, Name(1)) # {}
               /\ ~JumpsLeft
               /\ Fault("jump budget")

FallThrough == /\ Runs({"JMP", "COND"})
               /\ Wants => Targets(Code, Name(1)) = {}
               /\ Advance
               /\ UNCHANGED <<machine, counters>>

(* An intra-program call runs on a fresh register file that holds only     *)
(* arg0..argN; the caller's is kept in the callee's activation record.     *)
Calling == Runs({"CALL"}) /\ Name(1) \in spelled
CallArgs == [i \in 1 .. Len(Instr.args) - 1 |-> Rhs(Arg(i + 1))]
ArgRegisters(args) ==
  [r \in Reg |-> IF \E i \in DOMAIN args : i \in DOMAIN ArgReg /\ ArgReg[i] = r
                 THEN args[CHOOSE i \in DOMAIN args :
                             i \in DOMAIN ArgReg /\ ArgReg[i] = r]
                 ELSE Unbound]

(* The argN names are registered when an argument first needs them.        *)
ArgNames(args) == {ArgReg[i] : i \in DOMAIN args \cap DOMAIN ArgReg}

TooDeepOneLate == Len(frames) - 1 > MaxCallDepth                 \* mutant
TooDeep == Len(frames) - 1 >= MaxCallDepth
CallsBytecode(f) == Overrides(f) \/ (IsOwn(f) /\ ~IsNative(f))

CallFunction ==
  LET f == Name(1)
      caller == [Top EXCEPT !.pc = @ + 1]
  IN /\ Calling
     /\ ~TooDeep
     /\ CallsBytecode(f)
     /\ ~OnceSpent(f)
     /\ frames' = Append([frames EXCEPT ![Len(frames)] = caller],
                         NewFrame(f, registers))
     /\ registers' = ArgRegisters(CallArgs)
     /\ CountEntry(f)
     /\ spelled' = spelled \cup ArgNames(CallArgs)
     /\ UNCHANGED <<stack, storage, memory, accumulator, counters, result, susps>>

CallNative == /\ Calling
              /\ ~TooDeep
              /\ IsNative(Name(1)) /\ ~Overrides(Name(1))
              /\ stack' = Append(stack, Native(Name(1)).value)
              /\ Advance
              /\ UNCHANGED <<registers, storage, memory, accumulator, counters>>

CallDepthRefused == Calling /\ TooDeep /\ Fault("call depth")

(* A callee whose hash has no spelling, or one nothing is called.          *)
NoCallee == \/ Name(1) \notin spelled
            \/ ~TooDeep /\ ~IsNative(Name(1)) /\ ~IsOwn(Name(1))
CallUnresolved == /\ Runs({"CALL"})
                  /\ NoCallee
                  /\ Fault("call unresolved")

(* The refusal comes from the callee, after its arguments were named.      *)
CallOnceRefused == /\ Calling
                   /\ ~TooDeep
                   /\ CallsBytecode(Name(1))
                   /\ OnceSpent(Name(1))
                   /\ Unwind(Error("once"))
                   /\ spelled' = spelled \cup ArgNames(CallArgs)
                   /\ UNCHANGED <<counters, once, runs, susps>>

Return == /\ Runs({"RETURN"})
          /\ accumulator' = IF Instr.args = <<>> THEN accumulator
                            ELSE Num(Arg(1))
          /\ Leave("return", accumulator')

FallOffEnd == /\ frames # <<>> /\ Top.pc > Len(Code)
              /\ Leave("ok", accumulator)
              /\ UNCHANGED <<accumulator, ops>>

(* ASK suspends the function the host called; its locals go out with the   *)
(* question.  A single array of candidates is offered element by element.  *)
Candidates ==
  LET given == [i \in 1 .. Len(Instr.args) - 1 |-> Num(Arg(i + 1))]
  IN IF Len(given) = 1 /\ IsArray(given[1]) THEN given[1][2] ELSE given

Ask == /\ Runs({"ASK"})
       /\ Len(frames) = 1
       /\ susps' = Append(susps,
                     [question |-> Symbol(Arg(1)), candidates |-> Candidates,
                      fn |-> Top.fn, pc |-> Top.pc + 1,
                      flag |-> Top.flag, jumps |-> Top.jumps])
       /\ Unwind([kind |-> "suspend", value |-> Null, why |-> "ask"])
       /\ UNCHANGED <<counters, entries>>

AskRefused == Runs({"ASK"}) /\ Len(frames) > 1 /\ Fault("ask inside call")

Opcodes == Structural \cup
  {"CREATE", "NEWVAR", "ASSIGN", "COPY", "ADD", "SUB", "MUL", "DIV",
   "MAKE_ARRAY", "LEN", "INDEX", "SET_INDEX", "TRANSFER", "DESTROY", "SUM",
   "PUSH", "POP", "COMPARE", "STORE", "REMEMBER", "FORGET", "RECALL", "QUERY",
   "JMP", "COND", "CALL", "RETURN", "ASK"}

Unknown == /\ Fetched /\ ~OverOps /\ ~PastDeadline
           /\ Instr.op \notin Opcodes
           /\ ops' = Tick(ops)
           /\ Fault("unknown opcode")

Interpret ==
  \/ OutOfOps \/ OutOfTime
  \/ Create \/ NewVar \/ Assign \/ Copy \/ Arithmetic \/ DivideByZero
  \/ MakeArray \/ Length \/ Index \/ SetIndex \/ SetIndexFault
  \/ Transfer \/ Destroy \/ Sum \/ Push \/ Pop \/ Compare
  \/ Store \/ Remember \/ Forget \/ Recall \/ Query \/ QueryRefused
  \/ PassOver \/ Jump \/ JumpRefused \/ FallThrough
  \/ CallFunction \/ CallNative \/ CallDepthRefused \/ CallUnresolved
  \/ CallOnceRefused \/ Return \/ FallOffEnd \/ Ask \/ AskRefused \/ Unknown

Execute == Interpret /\ UNCHANGED host

-----------------------------------------------------------------------------
(* The host's calls on an idle machine.                                    *)

HostTurn == /\ frames = <<>>
            /\ hostCalls < MaxHostCalls
            /\ hostCalls' = hostCalls + 1
            /\ UNCHANGED <<prog, limits, late, ops, counters>>

Refuse(why) == result' = Error(why) /\ UNCHANGED <<frames, entries>>

(* VM::call binds an argument to the declared parameter and to its argN    *)
(* alias, over whatever the register file already holds; a later argument  *)
(* overwrites an earlier one.  Both names are registered.                  *)
Binds(f, args, r) == {i \in DOMAIN args :
  \/ i \in DOMAIN prog.fns[f].params /\ prog.fns[f].params[i] = r
  \/ i \in DOMAIN ArgReg /\ ArgReg[i] = r}
HostBound(f, args) ==
  [r \in Reg |-> IF Binds(f, args, r) = {} THEN registers[r]
                 ELSE args[CHOOSE i \in Binds(f, args, r) :
                             \A j \in Binds(f, args, r) : j <= i]]

ParamNames(f, args) ==
  LET params == prog.fns[f].params
  IN {params[i] : i \in DOMAIN args \cap DOMAIN params}

Call(f, args) ==
  /\ HostTurn
  /\ IsOwn(f)
  /\ registers' = HostBound(f, args)
  /\ spelled' = spelled \cup ParamNames(f, args) \cup ArgNames(args)
  /\ IF OnceSpent(f) THEN result' = Error("once") /\ UNCHANGED <<frames, once, runs>>
     ELSE /\ frames' = <<NewFrame(f, NoRegisters)>>
          /\ result' = NoResult
          /\ CountEntry(f)
  /\ UNCHANGED <<knowledge, stack, storage, memory, accumulator, susps, snaps>>

CallMissing(f) == /\ HostTurn
                  /\ ~IsOwn(f)
                  /\ Refuse("not found")
                  /\ UNCHANGED <<knowledge, machine, susps, snaps>>

(* VM::call_entry: @internal and @system functions are not the host's.     *)
EntryRefused(f) == /\ HostTurn
                   /\ IsOwn(f) /\ prog.fns[f].access # "external"
                   /\ Refuse("access")
                   /\ UNCHANGED <<knowledge, machine, susps, snaps>>

(* VM::resume.  A suspension is a value: the host may keep a copy of it    *)
(* and resume it again.                                                    *)
Offered(s) == {s.candidates[i] : i \in DOMAIN s.candidates}
Accepts(s, answer) == s.candidates = <<>> \/ answer \in Offered(s)

Resume(s, answer) ==
  /\ HostTurn
  /\ Accepts(s, answer)
  /\ stack' = Append(stack, answer)
  /\ frames' = <<[fn |-> s.fn, pc |-> s.pc, flag |-> s.flag, jumps |-> s.jumps,
                  saved |-> NoRegisters]>>
  /\ result' = NoResult
  /\ UNCHANGED <<knowledge, registers, storage, memory, accumulator, entries,
                 susps, snaps>>

ResumeRefused(s, answer) == /\ HostTurn
                            /\ ~Accepts(s, answer)
                            /\ Refuse("not a candidate")
                            /\ UNCHANGED <<knowledge, machine, susps, snaps>>

Snapshot ==
  /\ HostTurn
  /\ snaps' = snaps \cup {[registers |-> registers, stack |-> stack,
                           storage |-> storage, memory |-> memory,
                           accumulator |-> accumulator,
                           knowledge |-> knowledge]}
  /\ UNCHANGED <<knowledge, machine, frames, result, entries, susps>>

RevivedButStack(s) ==                                           \* mutant
  /\ registers' = s.registers /\ stack' = stack
  /\ storage' = s.storage     /\ memory' = s.memory
  /\ accumulator' = s.accumulator
  /\ knowledge' = s.knowledge
Revived(s) ==
  /\ registers' = s.registers /\ stack' = s.stack
  /\ storage' = s.storage     /\ memory' = s.memory
  /\ accumulator' = s.accumulator
  /\ knowledge' = s.knowledge

Restore(s) ==
  /\ HostTurn
  /\ Revived(s)
  /\ UNCHANGED <<frames, result, entries, susps, snaps>>

Reset == /\ HostTurn
         /\ registers' = NoRegisters /\ stack' = <<>> /\ accumulator' = Null
         /\ UNCHANGED <<knowledge, storage, memory, frames, result, entries,
                        susps, snaps>>

(* A branch takes a key out of the VM's own copy of the store, and every   *)
(* other name of the same facts.                                           *)
WithoutFacts(k, m) == [s \in Sym |-> IF k[s] = k[m] THEN <<>> ELSE k[s]]
Exclude(m) == /\ HostTurn
              /\ knowledge[m] # <<>>
              /\ knowledge' = WithoutFacts(knowledge, m)
              /\ UNCHANGED <<machine, frames, result, entries, susps, snaps>>

HostActs ==
  \/ \E f \in FnName, args \in HostArgs : IsOwn(f) /\ Call(f, args)
  \/ \E f \in FnName : CallMissing(f) \/ EntryRefused(f)
  \/ \E i \in DOMAIN susps, answer \in Answers :
       Resume(susps[i], answer) \/ ResumeRefused(susps[i], answer)
  \/ Snapshot \/ Reset
  \/ \E s \in snaps : Restore(s)
  \/ \E m \in Sym : Exclude(m)

(* The host needs nothing more of this VM.                                 *)
HostDone == frames = <<>> /\ UNCHANGED vars

DeadlinePasses == /\ limits.wall /\ ~late
                  /\ late' = TRUE
                  /\ UNCHANGED <<prog, limits, knowledge, machine, frames, result,
                                 ops, counters, entries, susps, snaps, hostCalls>>

-----------------------------------------------------------------------------

Init ==
  /\ prog \in Programs /\ limits \in Limits /\ knowledge \in Knowledge
  /\ registers = NoRegisters /\ stack = <<>> /\ accumulator = Null
  /\ storage = [k \in Key |-> Unbound] /\ memory = [k \in Key |-> Unbound]
  /\ frames = <<>> /\ result = NoResult
  /\ ops = 0 /\ jumpsTaken = 0 /\ queried = <<>>
  /\ once = {} /\ runs = [f \in DOMAIN prog.fns |-> 0]
  /\ spelled = LoadedNames(prog)
  /\ late = FALSE /\ susps = <<>> /\ snaps = {} /\ hostCalls = 0

Next == Execute \/ HostActs \/ DeadlinePasses \/ HostDone

(* The interpreter loop never waits: as long as frames are left it runs.   *)
Spec == Init /\ [][Next]_vars /\ WF_vars(Execute)

-----------------------------------------------------------------------------
(* What every state of the machine looks like.                             *)

RegisterFile == [Reg -> Value \cup {Unbound}]
Traces       == [Key -> Value \cup {Unbound}]
Frame == [fn : DOMAIN prog.fns, pc : Nat \ {0}, flag : BOOLEAN, jumps : Nat,
          saved : RegisterFile]
ExecResult == [kind : {"none", "ok", "return", "error", "suspend"},
               value : Value,
               why : {"none", "ask", "op budget", "wall budget", "query budget",
                      "jump budget", "call depth", "call unresolved", "once",
                      "division by zero", "set_index", "ask inside call",
                      "unknown opcode", "not found", "access", "not a candidate"}]
Suspension == [question : STRING, candidates : Seq(Value),
               fn : DOMAIN prog.fns, pc : Nat \ {0}, flag : BOOLEAN, jumps : Nat]
VmSnapshot == [registers : RegisterFile, stack : Seq(Value), storage : Traces,
               memory : Traces, accumulator : Value, knowledge : [Sym -> Seq(Map)]]

MachineOK ==
  /\ registers \in RegisterFile /\ stack \in Seq(Value) /\ accumulator \in Value
  /\ storage \in Traces /\ memory \in Traces
ControlOK ==
  /\ frames \in Seq(Frame) /\ Len(frames) <= MaxCallDepth + 1
  /\ result \in ExecResult
  /\ susps \in Seq(Suspension)
ReportOK ==
  /\ ops \in 0 .. CountCap /\ jumpsTaken \in 0 .. CountCap
  /\ queried \in Seq(STRING \X Nat)
  /\ spelled \subseteq STRING /\ LoadedNames(prog) \subseteq spelled
  /\ once \subseteq DOMAIN prog.fns /\ runs \in [DOMAIN prog.fns -> 0 .. CountCap]
HostOK ==
  /\ prog \in Programs /\ limits \in Limits /\ knowledge \in [Sym -> Seq(Map)]
  /\ late \in BOOLEAN /\ snaps \subseteq VmSnapshot
  /\ hostCalls \in 0 .. MaxHostCalls

(* The type invariant.  The call depth is part of it: there is never an    *)
(* activation beyond the MaxCallDepth-th nested call.                      *)
TypeOK ==
  /\ MachineOK /\ ControlOK /\ ReportOK /\ HostOK

-----------------------------------------------------------------------------
(* Safety.                                                                 *)

(* The query budget is for the whole life of the VM: no call, resume,      *)
(* restore or reset buys a program another QUERY.                          *)
QueryBudgetHeld == limits.queries > 0 => Len(queried) <= limits.queries

(* The body of an @once function is entered at most once in a VM, however  *)
(* the host and the program's own calls reach it, across restores.         *)
OnceRunsOnce == \A f \in DOMAIN prog.fns : prog.fns[f].once => runs[f] <= 1

(* The exact-key map and the associative memory hold the same things, in   *)
(* spite of being written by separate statements and restored separately.  *)
StorageMirrorsMemory == storage = memory

(* Provenance: a fact the program still holds, anywhere it can hold one,   *)
(* was delivered by a QUERY that is in the log the branch report carries.  *)
FactsIn(v)  == IF IsMap(v) THEN {v}
               ELSE IF IsArray(v) THEN {v[2][i] : i \in DOMAIN v[2]} ELSE {}
FactsOf(m)  == UNION {{k[m][i] : i \in DOMAIN k[m]} : k \in Knowledge}
Held == {accumulator} \cup {registers[r] : r \in Reg}
          \cup {stack[i] : i \in DOMAIN stack}
          \cup {storage[k] : k \in Key} \cup {memory[k] : k \in Key}
          \cup UNION {{frames[i].saved[r] : r \in Reg} : i \in DOMAIN frames}
Asked == {queried[i][1] : i \in DOMAIN queried}
FactsAreLogged ==
  \A m \in Sym : \A fact \in FactsOf(m) :
    (\E v \in Held : fact \in FactsIn(v))
      => \E q \in Asked \cap Sym : fact \in FactsOf(q)

(* An opcode that a spent op budget or a passed deadline refuses changes   *)
(* nothing the program or the report can see but the opcode count.         *)
RefusedBy(n) == (limits.ops > 0 /\ n > limits.ops) \/ (late /\ n % WallStride = 0)
NoEffectPastBudget ==
  [][ops' # ops /\ RefusedBy(ops')
       => /\ frames' = <<>> /\ result'.kind = "error"
          /\ UNCHANGED <<stack, storage, memory, accumulator, counters, runs>>]_vars

(* A suspended run only continues with one of the candidates its ASK       *)
(* offered: the host selects content, it never supplies any.               *)
ContinuesFrom(s) == frames'[1].fn = s.fn /\ frames'[1].pc = s.pc
AnswerWasOffered ==
  [][frames = <<>> /\ frames' # <<>> /\ frames'[1].pc # 1
       => \E i \in DOMAIN susps :
            ContinuesFrom(susps[i]) /\ stack'[Len(stack')] \in Offered(susps[i])]_vars

(* The comment of op::CREATE: "a declared container type now creates an    *)
(* EMPTY CONTAINER rather than Null".  Not so, and in no run: README,      *)
(* section 5.                                                              *)
EmptyContainer == [map |-> MapV(NoEntries), array |-> ArrayV(<<>>)]
ContainersStartEmpty ==
  [][Create /\ Name(2) \in DOMAIN EmptyContainer
       => registers'[Name(1)] = EmptyContainer[Name(2)]]_vars

(* Liveness: whatever the program, an execution ends.  The jump budget     *)
(* bounds every activation and the depth guard bounds their number.        *)
Termination == frames # <<>> ~> frames = <<>>

=============================================================================
