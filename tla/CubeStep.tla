------------------------------ MODULE CubeStep ------------------------------
(***************************************************************************)
(* One opcode of the interpreter (src/src/vm/engine.rs, exec_function) as  *)
(* a function of the machine before it, for proofs that compare two runs.  *)
(*                                                                         *)
(* Core is what an opcode may depend on; a snapshot, a suspension and the  *)
(* name table carry all of it.  What is left of the VM decides only        *)
(* whether the opcode is held back, which VM::restore does not undo.       *)
(***************************************************************************)
EXTENDS CubeVM

CoreNamed(nms, regs, stk, sto, mem, acc, fs, res) ==
  [spelled |-> nms, prog |-> prog, limits |-> limits, knowledge |-> knowledge,
   registers |-> regs, stack |-> stk, storage |-> sto, memory |-> mem,
   accumulator |-> acc, frames |-> fs, result |-> res]
CoreWith(regs, stk, sto, mem, acc, fs, res) ==
  CoreNamed(spelled, regs, stk, sto, mem, acc, fs, res)
Core == CoreWith(registers, stack, storage, memory, accumulator, frames, result)

(* Why an opcode is held back: budgets spent in earlier runs, the clock,   *)
(* and @once functions entered in earlier runs.                            *)
HeldBack ==
  IF ~Fetched THEN "none"
  ELSE IF OverOps THEN "op budget"
  ELSE IF PastDeadline THEN "wall budget"
  ELSE IF Instr.op = "QUERY" /\ OverQueries THEN "query budget"
  ELSE IF Instr.op = "CALL" /\ Name(1) \in spelled /\ ~TooDeep
            /\ CallsBytecode(Name(1)) /\ OnceSpent(Name(1))
       THEN "once"
  ELSE "none"

-----------------------------------------------------------------------------
(* What a single opcode makes of the core.                                 *)

Passed == [frames EXCEPT ![Len(frames)].pc = Top.pc + 1]
Stayed(acc) == CoreWith(registers, stack, storage, memory, acc, Passed, result)
Broken(res) ==
  CoreWith(HostRegisters, stack, storage, memory, accumulator, <<>>, res)
Faulted(why) == Broken(Error(why))
Wrote(r, v) == CoreWith([registers EXCEPT ![r] = v],
                        stack, storage, memory, accumulator, Passed, result)
Pushed(v) == CoreWith(registers, Append(stack, v),
                      storage, memory, accumulator, Passed, result)
Kept(k, v) == CoreWith(registers, stack, [storage EXCEPT ![k] = v],
                       [memory EXCEPT ![k] = v], accumulator, Passed, result)
Left(kind, v, acc) ==
  IF Len(frames) = 1
  THEN CoreWith(registers, stack, storage, memory, acc, <<>>, Done(kind, v))
  ELSE CoreWith(Top.saved, Append(stack, v), storage, memory, acc,
                SubSeq(frames, 1, Len(frames) - 1), result)

Popped == CoreWith(
  [registers EXCEPT ![Name(1)] = IF stack = <<>> THEN Null ELSE stack[Len(stack)]],
  IF stack = <<>> THEN <<>> ELSE SubSeq(stack, 1, Len(stack) - 1),
  storage, memory, accumulator, Passed, result)

Transferred ==
  LET amount == AsI64(Num(Arg(3)))
      from   == AsI64(RegOr(Name(1), Null))
      to     == AsI64(RegOr(Name(2), Null))
  IN CoreWith([registers EXCEPT ![Name(1)] = IntV(Wrap(from - amount)),
                                ![Name(2)] = IntV(Wrap(to + amount))],
              stack, storage, memory, accumulator, Passed, result)

Compared ==
  LET kind == IF Len(Instr.args) < 3 THEN "eq" ELSE Name(3)
      va == Num(Arg(1))
      vb == IF kind = "truthy" THEN IntV(0) ELSE Num(Arg(2))
      a  == Side(va, vb)
      b  == Side(vb, va)
  IN CoreWith([registers EXCEPT !["__cmp"] = StrV(CmpWord(kind, a, b))],
              stack, storage, memory, BoolV(Holds(kind, a, b)),
              [frames EXCEPT ![Len(frames)].pc = @ + 1,
                             ![Len(frames)].flag = Holds(kind, a, b)], result)

Recalled ==
  LET key == IF Len(Instr.args) >= 2 THEN Name(2) ELSE Name(1)
  IN Wrote(Name(1), IF Live = {} THEN Null ELSE memory[Nearest(key)])

Target == CHOOSE t \in Targets(Code, Name(1)) : TRUE
Jumps  == Instr.op \in {"JMP", "COND"} /\ Wants /\ Targets(Code, Name(1)) # {} /\ JumpsLeft
Jumped == CoreWith(registers, stack, storage, memory, accumulator,
                   [frames EXCEPT ![Len(frames)].pc = Target,
                                  ![Len(frames)].jumps = Spent(@)], result)

Enters  == Instr.op = "CALL" /\ Name(1) \in spelled /\ ~TooDeep /\ CallsBytecode(Name(1))
NamedArgs == spelled \cup ArgNames(CallArgs)
Entered == CoreNamed(NamedArgs, ArgRegisters(CallArgs), stack, storage, memory, accumulator,
                    Append([frames EXCEPT ![Len(frames)] = [Top EXCEPT !.pc = @ + 1]],
                           NewFrame(Name(1), registers)), result)

Asks      == Instr.op = "ASK" /\ Len(frames) = 1
Suspended == Broken([kind |-> "suspend", value |-> Null, why |-> "ask"])
Question  == [question |-> Symbol(Arg(1)), candidates |-> Candidates,
              fn |-> Top.fn, pc |-> Top.pc + 1, flag |-> Top.flag, jumps |-> Top.jumps]

(* The opcodes, by what they leave behind.                                 *)
Performed(op) ==
  CASE op = "CREATE"     -> Wrote(Name(1), Initial)
    [] op = "NEWVAR"     -> Wrote(Name(1), RegOr(Name(1), Null))
    [] op = "ASSIGN"     -> Wrote(Name(1), Rhs(Arg(2)))
    [] op = "COPY"       -> Wrote(Name(2), RegOr(Name(1), Null))
    [] op \in {"ADD", "SUB", "MUL", "DIV"} ->
         IF op = "DIV" /\ AsI64(Num(Arg(2))) = 0 THEN Faulted("division by zero")
         ELSE Wrote(Name(1), BinOp(op, RegOr(Name(1), IntV(0)), Num(Arg(2))))
    [] op = "MAKE_ARRAY" ->
         Wrote(Name(1), ArrayV([i \in 1 .. Name(2) |-> Rhs(Arg(i + 2))]))
    [] op = "LEN"        -> Wrote(Name(1), IntV(LenOf(RegOr(Name(2), Null))))
    [] op = "INDEX"      -> Wrote(Name(1), ElementAt(RegOr(Name(2), Null), Num(Arg(3))))
    [] op = "SET_INDEX"  ->
         IF CanSet(RegOr(Name(1), Null), Num(Arg(2)))
         THEN Wrote(Name(1), Updated(RegOr(Name(1), Null), Num(Arg(2)), Rhs(Arg(3))))
         ELSE Faulted("set_index")
    [] op = "TRANSFER"   -> Transferred
    [] op = "DESTROY"    -> Wrote(Name(1), Unbound)
    [] op = "SUM"        -> Stayed(RegOr(Name(1), Null))
    [] op = "PUSH"       -> Pushed(RegOr(Name(1), Null))
    [] op = "POP"        -> Popped
    [] op = "COMPARE"    -> Compared
    [] op = "STORE"      -> Kept(Name(2), RegOr(Name(1), Null))
    [] op = "REMEMBER"   -> Kept(Name(1), RegOr(Name(1), Null))
    [] op = "FORGET"     -> Kept(Name(1), Unbound)
    [] op = "RECALL"     -> Recalled
    [] op = "QUERY"      -> Pushed(ArrayV(Lookup(Mention)))
    [] op \in Structural -> Stayed(accumulator)
    [] op \in {"JMP", "COND"} ->
         IF Jumps THEN Jumped
         ELSE IF Wants /\ Targets(Code, Name(1)) # {} THEN Faulted("jump budget")
         ELSE Stayed(accumulator)
    [] op = "CALL"       ->
         IF Name(1) \notin spelled THEN Faulted("call unresolved")
         ELSE IF TooDeep THEN Faulted("call depth")
         ELSE IF Enters THEN Entered
         ELSE IF IsNative(Name(1)) THEN Pushed(Native(Name(1)).value)
         ELSE Faulted("call unresolved")
    [] op = "RETURN"     ->
         LET acc == IF Instr.args = <<>> THEN accumulator ELSE Num(Arg(1))
         IN Left("return", acc, acc)
    [] op = "ASK"        -> IF Asks THEN Suspended ELSE Faulted("ask inside call")
    [] OTHER             -> Faulted("unknown opcode")

After == IF Fetched THEN Performed(Instr.op) ELSE Left("ok", accumulator, accumulator)

-----------------------------------------------------------------------------
(* What it adds to the rest of the VM.                                     *)

Report == [ops |-> ops, jumpsTaken |-> jumpsTaken, queried |-> queried,
           once |-> once, susps |-> susps]

Free == Fetched /\ HeldBack = "none"
ReportAfter ==
  [ops        |-> IF Fetched THEN Tick(ops) ELSE ops,
   jumpsTaken |-> IF Free /\ Jumps THEN Tick(jumpsTaken) ELSE jumpsTaken,
   queried    |-> IF Free /\ Instr.op = "QUERY"
                  THEN Append(queried, <<Mention, Len(Lookup(Mention))>>) ELSE queried,
   once       |-> IF Free /\ Enters /\ prog.fns[Name(1)].once
                  THEN once \cup {Name(1)} ELSE once,
   susps      |-> IF Free /\ Asks THEN Append(susps, Question) ELSE susps]

Withheld == IF HeldBack = "once"
            THEN CoreNamed(NamedArgs, HostRegisters, stack, storage, memory,
                           accumulator, <<>>, Error("once"))
            ELSE Faulted(HeldBack)
CoreAfter == IF HeldBack = "none" THEN After ELSE Withheld

(* Every step of the program does what these functions say.                *)
StepIsFunction == [][Execute => Core' = CoreAfter /\ Report' = ReportAfter]_vars

=============================================================================
