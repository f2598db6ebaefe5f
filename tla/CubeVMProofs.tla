---------------------------- MODULE CubeVMProofs ----------------------------
(***************************************************************************)
(* Proofs about CubeVM for every program, registry, knowledge store,       *)
(* budget and bound.                                                       *)
(***************************************************************************)
EXTENDS CubeStep, SharedLemmas, SequenceTheorems, TLAPS

-----------------------------------------------------------------------------
(* Values.                                                                 *)

(* Arithmetic never leaves the integers of a release build.                *)
LEMMA WrapInteger == ASSUME NEW n \in Int PROVE Wrap(n) \in Integer
<1> DEFINE w == 2 * IntBound
<1>1. IntBound \in Nat /\ w \in Nat \ {0} BY IntBoundAssumption
<1>2. (n + IntBound) % w \in 0 .. w - 1
  <2> HIDE DEF w
  <2> QED BY <1>1
<1> QED BY <1>1, <1>2 DEF Wrap, Integer

(* What the tag of a value says of its payload.                            *)
LEMMA ValueTags ==
  /\ Null \in Value
  /\ \A b \in BOOLEAN : BoolV(b) \in Value
  /\ \A n \in Integer : IntV(n) \in Value
  /\ \A s \in Sym : StrV(s) \in Value
  /\ \A s \in Seq(Item) : ArrayV(s) \in Value
  /\ \A v \in Value : IsStr(v) => v[2] \in Sym
  /\ \A v \in Value : IsArray(v) => v[2] \in Seq(Item)
BY DEF Value, Item, Scalar, Map, Null, BoolV, IntV, StrV, ArrayV, IsStr, IsArray

LEMMA MapsAreItems == Map \subseteq Item /\ Item \subseteq Value
BY DEF Item, Value

LEMMA ItemsAreValues == ASSUME NEW s \in Seq(Item) PROVE s \in Seq(Value)
BY MapsAreItems

LEMMA FactsAreItems == ASSUME NEW s \in Seq(Map) PROVE s \in Seq(Item)
BY MapsAreItems

LEMMA AsI64Int == ASSUME NEW v \in Value PROVE AsI64(v) \in Int
BY IntBoundAssumption DEF Value, Item, Scalar, Map, Null, AsI64, Integer

LEMMA CmpWordSym == ASSUME NEW k, NEW a, NEW b PROVE CmpWord(k, a, b) \in Sym
BY SymAssumption DEF CmpWord

LEMMA SideInt ==
  ASSUME NEW v \in Value, NEW w \in Value PROVE Side(v, w) \in Int
BY ValueTags, AsI64Int, SymAssumption DEF Side

LEMMA HoldsBoolean ==
  ASSUME NEW k, NEW a \in Int, NEW b \in Int PROVE Holds(k, a, b) \in BOOLEAN
BY DEF Holds

-----------------------------------------------------------------------------
(* Instructions and operands.                                              *)

(* The instruction under the program counter is one of the program's.      *)
LEMMA FetchedInstruction ==
  ASSUME TypeOK, Fetched
  PROVE  /\ Top \in Frame /\ Len(frames) \in Nat \ {0}
         /\ prog.fns[Top.fn] \in Function /\ Code \in Seq(Instruction)
         /\ Instr \in Instruction
         /\ Instr.args \in Seq(Operand)
<1>1. /\ frames \in Seq(Frame) /\ frames # <<>> /\ prog \in Programs
  BY DEF TypeOK, ControlOK, HostOK, Fetched
<1>2. Len(frames) \in Nat \ {0} /\ Top \in Frame BY <1>1 DEF Top
<1>3. prog.fns[Top.fn] \in Function
  BY <1>1, <1>2, ProgramsAssumption DEF Frame
<1>4. Code \in Seq(Instruction) BY <1>3 DEF Code, Function
<1>5. Top.pc \in 1 .. Len(Code) BY <1>2, <1>4 DEF Fetched, Frame
<1>6. Instr \in Instruction BY <1>4, <1>5 DEF Instr
<1> QED BY <1>2, <1>3, <1>4, <1>6 DEF Instruction

LEMMA ArgOperand ==
  ASSUME TypeOK, Fetched, NEW i PROVE Arg(i) \in Operand \cup {NoOperand}
BY FetchedInstruction DEF Arg

LEMMA SymbolString ==
  ASSUME NEW o \in Operand \cup {NoOperand} PROVE Symbol(o) \in STRING
<1>1. CASE o \in {"reg"} \X Reg BY <1>1, HostAssumption, SymAssumption DEF Symbol
<1>2. CASE o \in {"lit"} \X Sym BY <1>2, SymAssumption DEF Symbol
<1>3. CASE o \in {"name"} \X STRING BY <1>3, SymAssumption DEF Symbol
<1>4. CASE o \in {"imm"} \X Integer BY <1>4, SymAssumption DEF Symbol
<1>5. CASE o = NoOperand BY <1>5, SymAssumption DEF Symbol, NoOperand
<1> QED BY <1>1, <1>2, <1>3, <1>4, <1>5 DEF Operand

(* A register read gives a value, or the default of the opcode.            *)
LEMMA RegOrValue ==
  ASSUME MachineOK, NEW r, NEW d \in Value PROVE RegOr(r, d) \in Value
BY DEF MachineOK, RegisterFile, RegOr

LEMMA ResolvedValue ==
  ASSUME MachineOK, NEW o \in Operand \cup {NoOperand}, NEW d \in Value
  PROVE  Resolved(o, d) \in Value
<1>1. CASE o[1] = "imm" BY <1>1, ValueTags DEF Resolved, Operand, NoOperand
<1>2. CASE o[1] = "lit"
  <2>1. o[2] \in Sym BY <1>2 DEF Operand, NoOperand
  <2>2. Symbol(o) \in Sym BY <2>1, SymAssumption DEF Symbol
  <2>3. Resolved(o, d) = StrV(Symbol(o)) BY <1>2 DEF Resolved
  <2> QED BY <2>2, <2>3, ValueTags
<1>3. CASE o[1] = "reg" BY <1>3, RegOrValue DEF Resolved
<1>4. CASE o[1] \notin {"imm", "lit", "reg"} BY <1>4 DEF Resolved
<1> QED BY <1>1, <1>2, <1>3, <1>4

LEMMA NumRhsValue ==
  ASSUME TypeOK, Fetched, NEW i
  PROVE  Num(Arg(i)) \in Value /\ Rhs(Arg(i)) \in Value
<1>1. MachineOK BY DEF TypeOK
<1>2. IntV(0) \in Value /\ Null \in Value
  BY ValueTags, IntBoundAssumption DEF Integer
<1> QED BY <1>1, <1>2, ArgOperand, ResolvedValue DEF Num, Rhs

(* The native a name resolves to returns a value.                          *)
LEMMA NativeValue ==
  ASSUME TypeOK, NEW f, IsNative(f) PROVE Native(f).value \in Value
<1>1. prog.used \in Seq(DOMAIN Registry)
  BY ProgramsAssumption DEF TypeOK, HostOK
<1>2. NativeHits(f) \in SUBSET Nat /\ NativeHits(f) # {}
  BY <1>1 DEF IsNative, NativeHits
<1> DEFINE first == CHOOSE i \in NativeHits(f) : \A j \in NativeHits(f) : i <= j
<1>3. \E i \in NativeHits(f) : \A j \in NativeHits(f) : i <= j BY <1>2, LeastOf
<1>4. first \in NativeHits(f) BY <1>3
<1> HIDE DEF first
<1>5. prog.used[first] \in DOMAIN Registry /\ f \in DOMAIN Registry[prog.used[first]]
  BY <1>1, <1>4 DEF NativeHits
<1> QED BY <1>5, RegistryAssumption DEF Native, first

-----------------------------------------------------------------------------
(* The ways a step leaves the control state.                               *)

LEMMA TickBounded ==
  ASSUME NEW n \in 0 .. CountCap PROVE Tick(n) \in 0 .. CountCap
BY BoundsAssumption DEF Tick

LEMMA HostKept == ASSUME TypeOK, UNCHANGED host PROVE HostOK'
BY DEF TypeOK, HostOK, VmSnapshot, RegisterFile, Traces, host

(* An opcode that counts itself and leaves the rest of the report alone.   *)
LEMMA ReportKept ==
  ASSUME TypeOK, UNCHANGED host, ops' \in {ops, Tick(ops)},
         UNCHANGED <<counters, entries>>
  PROVE  ReportOK'
BY TickBounded DEF TypeOK, ReportOK, host, counters, entries

LEMMA MachineKept == ASSUME TypeOK, UNCHANGED machine PROVE MachineOK'
BY DEF TypeOK, MachineOK, RegisterFile, Traces, machine

LEMMA GotoTyped ==
  ASSUME TypeOK, Fetched, UNCHANGED host, NEW pc \in Nat \ {0}, Goto(pc)
  PROVE  ControlOK'
<1>1. /\ frames \in Seq(Frame) /\ frames # <<>> /\ Len(frames) <= MaxCallDepth + 1
      /\ result \in ExecResult /\ susps \in Seq(Suspension)
  BY DEF TypeOK, ControlOK, Fetched
<1>2. Frame' = Frame /\ Suspension' = Suspension
  BY DEF host, Frame, Suspension, RegisterFile
<1>3. Len(frames) \in 1 .. Len(frames) /\ Top \in Frame BY <1>1 DEF Top
<1>4. [Top EXCEPT !.pc = pc] \in Frame BY <1>3 DEF Frame
<1>5. frames' = [frames EXCEPT ![Len(frames)] = [Top EXCEPT !.pc = pc]]
  BY <1>1 DEF Goto, Top
<1>6. frames' \in Seq(Frame) /\ Len(frames') = Len(frames)
  BY <1>1, <1>3, <1>4, <1>5
<1>7. result' = result /\ susps' = susps BY DEF Goto
<1> QED BY <1>1, <1>2, <1>6, <1>7 DEF ControlOK, ExecResult

LEMMA AdvanceTyped ==
  ASSUME TypeOK, Fetched, UNCHANGED host, Advance PROVE ControlOK'
<1>1. Top.pc + 1 \in Nat \ {0} BY FetchedInstruction DEF Frame
<1> QED BY <1>1, GotoTyped DEF Advance

(* An error gives the host back a register file.                           *)
LEMMA UnwindTyped ==
  ASSUME TypeOK, frames # <<>>, UNCHANGED host, NEW res \in ExecResult, Unwind(res)
  PROVE  /\ MachineOK'
         /\ frames' = <<>> /\ result' \in ExecResult
<1>1. frames \in Seq(Frame) BY DEF TypeOK, ControlOK
<1>2. ASSUME Len(frames) > 1 PROVE frames[2].saved \in RegisterFile
  <2>1. frames[2] \in Frame BY <1>1, <1>2
  <2> QED BY <2>1 DEF Frame
<1>3. registers' \in RegisterFile
  BY <1>2 DEF Unwind, HostRegisters, TypeOK, MachineOK
<1> QED BY <1>3 DEF Unwind, TypeOK, MachineOK, RegisterFile, Traces

LEMMA FaultTyped ==
  ASSUME TypeOK, Fetched, UNCHANGED host, NEW why, Error(why) \in ExecResult,
         Fault(why), ops' = Tick(ops)
  PROVE  TypeOK'
<1>1. HostOK' BY HostKept
<1>2. ReportOK' BY ReportKept DEF Fault
<1>3. MachineOK' /\ frames' = <<>> /\ result' \in ExecResult
  BY UnwindTyped DEF Fault, Fetched
<1>4. susps' \in Seq(Suspension) /\ Suspension' = Suspension
  BY DEF Fault, TypeOK, ControlOK, host, Suspension
<1>5. frames' \in Seq(Frame') /\ Len(frames') = 0 BY <1>3
<1>6. ControlOK'
  <2>1. ExecResult' = ExecResult BY DEF ExecResult
  <2>2. Len(frames') <= MaxCallDepth + 1 BY <1>5, BoundsAssumption
  <2> QED BY <1>3, <1>4, <1>5, <2>1, <2>2 DEF ControlOK
<1> QED BY <1>1, <1>2, <1>3, <1>6 DEF TypeOK

(* An opcode that only moves the program counter and the machine.          *)
LEMMA StepTyped ==
  ASSUME TypeOK, Fetched, UNCHANGED host, ops' = Tick(ops), Advance,
         UNCHANGED counters, MachineOK'
  PROVE  TypeOK'
<1>1. HostOK' BY HostKept
<1>2. ReportOK' BY ReportKept DEF Advance, Goto
<1>3. ControlOK' BY AdvanceTyped
<1> QED BY <1>1, <1>2, <1>3 DEF TypeOK

LEMMA WriteTyped ==
  ASSUME TypeOK, Fetched, UNCHANGED host, ops' = Tick(ops), NEW r, NEW v, Write(r, v)
  PROVE  TypeOK'
<1>1. registers' \in RegisterFile
  BY DEF Write, TypeOK, MachineOK, RegisterFile
<1>2. MachineOK'
  BY <1>1 DEF Write, TypeOK, MachineOK, RegisterFile, Traces
<1> QED BY <1>2, StepTyped DEF Write

-----------------------------------------------------------------------------
(* The opcodes, one by one.                                                *)

LEMMA RegisterOpcodesTyped ==
  ASSUME TypeOK, UNCHANGED host,
         \/ Create \/ NewVar \/ Assign \/ Copy \/ Arithmetic \/ MakeArray
         \/ Length \/ Index \/ SetIndex \/ Recall
  PROVE  TypeOK'
<1>1. CASE Create BY <1>1, WriteTyped DEF Create, Runs
<1>2. CASE NewVar BY <1>2, WriteTyped DEF NewVar, Runs
<1>3. CASE Assign BY <1>3, WriteTyped DEF Assign, Runs
<1>4. CASE Copy BY <1>4, WriteTyped DEF Copy, Runs
<1>5. CASE Arithmetic BY <1>5, WriteTyped DEF Arithmetic, Runs
<1>6. CASE MakeArray BY <1>6, WriteTyped DEF MakeArray, Runs
<1>7. CASE Length BY <1>7, WriteTyped DEF Length, Runs
<1>8. CASE Index BY <1>8, WriteTyped DEF Index, Runs
<1>9. CASE SetIndex BY <1>9, WriteTyped DEF SetIndex, Runs
<1>10. CASE Recall BY <1>10, WriteTyped DEF Recall, Runs
<1> QED BY <1>1, <1>2, <1>3, <1>4, <1>5, <1>6, <1>7, <1>8, <1>9, <1>10

LEMMA TransferTyped ==
  ASSUME TypeOK, UNCHANGED host, Transfer PROVE TypeOK'
<1>1. Fetched /\ ops' = Tick(ops) /\ Advance /\ UNCHANGED counters
  BY DEF Transfer, Runs
<1> DEFINE amount == AsI64(Num(Arg(3)))
           from   == AsI64(RegOr(Name(1), Null))
           to     == AsI64(RegOr(Name(2), Null))
<1>2. amount \in Int /\ from \in Int /\ to \in Int
  BY <1>1, NumRhsValue, RegOrValue, AsI64Int, ValueTags DEF TypeOK
<1>3. registers' = [registers EXCEPT ![Name(1)] = IntV(Wrap(from - amount)),
                                     ![Name(2)] = IntV(Wrap(to + amount))]
  BY DEF Transfer
<1> HIDE DEF amount, from, to
<1>4. /\ IntV(Wrap(from - amount)) \in Value
      /\ IntV(Wrap(to + amount)) \in Value
  BY <1>2, WrapInteger, ValueTags
<1>5. registers' \in RegisterFile
  BY <1>3, <1>4 DEF TypeOK, MachineOK, RegisterFile
<1>6. MachineOK'
  BY <1>5 DEF Transfer, TypeOK, MachineOK, RegisterFile, Traces
<1> QED BY <1>1, <1>6, StepTyped

LEMMA DestroyTyped ==
  ASSUME TypeOK, UNCHANGED host, Destroy PROVE TypeOK'
<1>1. registers' \in RegisterFile
  BY DEF Destroy, TypeOK, MachineOK, RegisterFile
<1>2. MachineOK'
  BY <1>1 DEF Destroy, TypeOK, MachineOK, RegisterFile, Traces
<1> QED BY <1>2, StepTyped DEF Destroy, Runs

LEMMA SumTyped ==
  ASSUME TypeOK, UNCHANGED host, Sum PROVE TypeOK'
<1>1. accumulator' \in Value BY RegOrValue, ValueTags DEF Sum, TypeOK
<1>2. MachineOK'
  BY <1>1 DEF Sum, TypeOK, MachineOK, RegisterFile, Traces
<1> QED BY <1>2, StepTyped DEF Sum, Runs

(* What an opcode pushes is a value.                                       *)
LEMMA PushTyped ==
  ASSUME MachineOK, NEW v \in Value, stack' = Append(stack, v),
         UNCHANGED <<registers, storage, memory, accumulator>>
  PROVE  MachineOK'
BY DEF MachineOK, RegisterFile, Traces

LEMMA StackOpcodesTyped ==
  ASSUME TypeOK, UNCHANGED host, Push \/ Pop \/ CallNative PROVE TypeOK'
<1>1. CASE Push
  <2>1. RegOr(Name(1), Null) \in Value BY RegOrValue, ValueTags DEF TypeOK
  <2>2. MachineOK' BY <1>1, <2>1, PushTyped DEF Push, TypeOK
  <2> QED BY <1>1, <2>2, StepTyped DEF Push, Runs
<1>2. CASE Pop
  <2>1. stack \in Seq(Value) BY DEF TypeOK, MachineOK
  <2>2. stack' \in Seq(Value) BY <1>2, <2>1 DEF Pop
  <2> DEFINE v == IF stack = <<>> THEN Null ELSE stack[Len(stack)]
  <2>3. v \in Value BY <2>1, ValueTags
  <2>4. registers' = [registers EXCEPT ![Name(1)] = v] BY <1>2 DEF Pop
  <2> HIDE DEF v
  <2>5. registers' \in RegisterFile
    BY <2>3, <2>4 DEF TypeOK, MachineOK, RegisterFile
  <2>6. MachineOK'
    BY <1>2, <2>2, <2>5 DEF Pop, TypeOK, MachineOK, RegisterFile, Traces
  <2> QED BY <1>2, <2>6, StepTyped DEF Pop, Runs
<1>3. CASE CallNative
  <2>1. Native(Name(1)).value \in Value BY <1>3, NativeValue DEF CallNative
  <2>2. MachineOK' BY <1>3, <2>1, PushTyped DEF CallNative, TypeOK
  <2> QED BY <1>3, <2>2, StepTyped DEF CallNative, Calling, Runs
<1> QED BY <1>1, <1>2, <1>3

LEMMA TracesTyped ==
  ASSUME TypeOK, Fetched, UNCHANGED host, ops' = Tick(ops),
         NEW key, NEW v \in Value \cup {Unbound}, Traced(key, v), Advance,
         UNCHANGED <<registers, stack, accumulator, counters>>
  PROVE  TypeOK'
<1>1. storage' \in Traces /\ memory' \in Traces
  BY DEF Traced, TypeOK, MachineOK, Traces
<1>2. MachineOK' BY <1>1 DEF TypeOK, MachineOK, RegisterFile, Traces
<1> QED BY <1>2, StepTyped

LEMMA StorageOpcodesTyped ==
  ASSUME TypeOK, UNCHANGED host, Store \/ Remember \/ Forget PROVE TypeOK'
<1>1. RegOr(Name(1), Null) \in Value BY RegOrValue, ValueTags DEF TypeOK
<1>2. CASE Store BY <1>1, <1>2, TracesTyped DEF Store, Remembered, Runs
<1>3. CASE Remember BY <1>1, <1>3, TracesTyped DEF Remember, Remembered, Runs
<1>4. CASE Forget BY <1>4, TracesTyped DEF Forget, Runs
<1> QED BY <1>2, <1>3, <1>4

LEMMA FrameMoved ==
  ASSUME NEW f \in Frame, NEW pc \in Nat \ {0}, NEW b \in BOOLEAN
  PROVE  [f EXCEPT !.pc = pc, !.flag = b] \in Frame
BY DEF Frame

LEMMA CompareTyped ==
  ASSUME TypeOK, UNCHANGED host, Compare PROVE TypeOK'
<1> DEFINE kind == IF Len(Instr.args) < 3 THEN "eq" ELSE Name(3)
           va == Num(Arg(1))
           vb == IF kind = "truthy" THEN IntV(0) ELSE Num(Arg(2))
           a  == Side(va, vb)
           b  == Side(vb, va)
           holds == Holds(kind, a, b)
           word  == StrV(CmpWord(kind, a, b))
<1>1. Fetched /\ ops' = Tick(ops) BY DEF Compare, Runs
<1>2. va \in Value /\ vb \in Value
  BY <1>1, NumRhsValue, ValueTags, IntBoundAssumption DEF Integer
<1>3. holds \in BOOLEAN /\ word \in Value
  <2> HIDE DEF va, vb, kind
  <2>1. a \in Int /\ b \in Int BY <1>2, SideInt
  <2> HIDE DEF a, b
  <2> QED BY <2>1, HoldsBoolean, CmpWordSym, ValueTags
<1>4. /\ registers' = [registers EXCEPT !["__cmp"] = word]
      /\ accumulator' = BoolV(holds)
      /\ frames' = [frames EXCEPT ![Len(frames)].pc = @ + 1,
                                  ![Len(frames)].flag = holds]
      /\ UNCHANGED <<stack, storage, memory, counters, result, entries, susps>>
  BY DEF Compare
<1> HIDE DEF holds, word
<1>5. MachineOK'
  <2>1. registers' \in RegisterFile
    BY <1>3, <1>4 DEF TypeOK, MachineOK, RegisterFile
  <2>2. accumulator' \in Value BY <1>3, <1>4, ValueTags
  <2> QED BY <1>4, <2>1, <2>2 DEF TypeOK, MachineOK, Traces, RegisterFile
<1>6. ControlOK'
  <2>1. frames \in Seq(Frame) /\ Len(frames) \in 1 .. Len(frames) /\ Top \in Frame
    BY <1>1, FetchedInstruction DEF TypeOK, ControlOK
  <2> DEFINE f == [Top EXCEPT !.pc = Top.pc + 1, !.flag = holds]
  <2>2. f \in Frame
    <3>1. Top.pc + 1 \in Nat \ {0} BY <2>1 DEF Frame
    <3> QED BY <2>1, <3>1, <1>3, FrameMoved
  <2>3. frames' = [frames EXCEPT ![Len(frames)] = f]
    BY <1>4, <2>1 DEF Top
  <2> HIDE DEF f
  <2>4. frames' \in Seq(Frame) /\ Len(frames') = Len(frames) BY <2>1, <2>2, <2>3
  <2>5. Frame' = Frame /\ Suspension' = Suspension /\ ExecResult' = ExecResult
    BY DEF host, Frame, Suspension, RegisterFile, ExecResult
  <2> QED BY <1>4, <2>4, <2>5 DEF TypeOK, ControlOK
<1>7. HostOK' /\ ReportOK' BY <1>1, <1>4, HostKept, ReportKept
<1> QED BY <1>5, <1>6, <1>7 DEF TypeOK

LEMMA MentionString ==
  ASSUME TypeOK, Fetched PROVE Mention \in STRING
<1>1. Symbol(Arg(1)) \in STRING BY ArgOperand, SymbolString
<1>2. ASSUME Arg(1)[1] = "reg", IsStr(RegOr(Name(1), Null))
      PROVE  registers[Name(1)][2] \in STRING
  <2>1. RegOr(Name(1), Null) \in Value BY RegOrValue, ValueTags DEF TypeOK
  <2>2. RegOr(Name(1), Null)[2] \in STRING
    BY <1>2, <2>1, ValueTags, SymAssumption
  <2>3. RegOr(Name(1), Null) = registers[Name(1)] BY <1>2 DEF RegOr, Null, IsStr
  <2> QED BY <2>2, <2>3
<1> QED BY <1>1, <1>2 DEF Mention

LEMMA QueryTyped ==
  ASSUME TypeOK, UNCHANGED host, Query PROVE TypeOK'
<1>1. Fetched /\ ops' = Tick(ops) BY DEF Query, Runs
<1>2. Lookup(Mention) \in Seq(Map)
  BY DEF Lookup, TypeOK, HostOK
<1>3. ArrayV(Lookup(Mention)) \in Value BY <1>2, FactsAreItems, ValueTags
<1>4. MachineOK' BY <1>3, PushTyped DEF Query, TypeOK
<1>5. ControlOK' BY <1>1, AdvanceTyped DEF Query
<1>6. queried' \in Seq(STRING \X Nat)
  <2>1. <<Mention, Len(Lookup(Mention))>> \in STRING \X Nat
    BY <1>1, <1>2, MentionString
  <2> QED BY <2>1 DEF Query, Logs, TypeOK, ReportOK
<1>7. ReportOK'
  BY <1>1, <1>6, TickBounded
  DEF Query, Advance, Goto, TypeOK, ReportOK, entries, host
<1> QED BY <1>4, <1>5, <1>7, HostKept DEF TypeOK

LEMMA PassingTyped ==
  ASSUME TypeOK, UNCHANGED host, PassOver \/ FallThrough PROVE TypeOK'
<1>1. CASE PassOver
  BY <1>1, MachineKept, StepTyped DEF PassOver, Runs
<1>2. CASE FallThrough
  BY <1>2, MachineKept, StepTyped DEF FallThrough, Runs
<1> QED BY <1>1, <1>2

LEMMA JumpTyped ==
  ASSUME TypeOK, UNCHANGED host, Jump PROVE TypeOK'
<1>1. Fetched /\ ops' = Tick(ops) /\ UNCHANGED machine BY DEF Jump, Runs
<1>2. /\ frames \in Seq(Frame) /\ Len(frames) \in 1 .. Len(frames)
      /\ Top \in Frame /\ Code \in Seq(Instruction)
  BY <1>1, FetchedInstruction DEF TypeOK, ControlOK
<1>3. PICK t \in Targets(Code, Name(1)) :
        frames' = [frames EXCEPT ![Len(frames)].pc = t,
                                 ![Len(frames)].jumps = Spent(@)]
  BY DEF Jump
<1>4. t \in Nat \ {0} BY <1>2, <1>3 DEF Targets, Labels
<1> DEFINE f == [Top EXCEPT !.pc = t, !.jumps = Spent(@)]
<1>5. f \in Frame
  <2>1. Top.jumps \in Nat /\ Top.jumps > 0 BY <1>2 DEF Jump, JumpsLeft, Frame
  <2>2. Spent(Top.jumps) \in Nat BY <2>1 DEF Spent
  <2> QED BY <1>2, <1>4, <2>2 DEF Frame
<1>6. frames' = [frames EXCEPT ![Len(frames)] = f] BY <1>2, <1>3 DEF Top
<1> HIDE DEF f
<1>7. frames' \in Seq(Frame) /\ Len(frames') = Len(frames) BY <1>2, <1>5, <1>6
<1>8. ControlOK'
  <2>1. Frame' = Frame /\ Suspension' = Suspension /\ ExecResult' = ExecResult
    BY DEF host, Frame, Suspension, RegisterFile, ExecResult
  <2> QED BY <1>7, <2>1 DEF Jump, TypeOK, ControlOK
<1>9. ReportOK'
  BY <1>1, TickBounded DEF Jump, TypeOK, ReportOK, entries, host
<1> QED BY <1>1, <1>8, <1>9, MachineKept, HostKept DEF TypeOK

LEMMA FaultsTyped ==
  ASSUME TypeOK, UNCHANGED host,
         \/ OutOfOps \/ OutOfTime \/ DivideByZero \/ SetIndexFault
         \/ QueryRefused \/ JumpRefused \/ CallDepthRefused \/ CallUnresolved
         \/ AskRefused \/ Unknown
  PROVE  TypeOK'
<1>1. \A w \in {"op budget", "wall budget", "query budget", "jump budget",
                "call depth", "call unresolved", "division by zero",
                "set_index", "ask inside call", "unknown opcode"} :
        Error(w) \in ExecResult
  BY ValueTags DEF Error, ExecResult
<1>2. Fetched /\ ops' = Tick(ops)
  BY DEF OutOfOps, OutOfTime, DivideByZero, SetIndexFault, QueryRefused,
         JumpRefused, CallDepthRefused, CallUnresolved,
         AskRefused, Unknown, Runs, Calling
<1>3. \E w \in {"op budget", "wall budget", "query budget", "jump budget",
                "call depth", "call unresolved", "division by zero",
                "set_index", "ask inside call", "unknown opcode"} : Fault(w)
  BY DEF OutOfOps, OutOfTime, DivideByZero, SetIndexFault, QueryRefused,
         JumpRefused, CallDepthRefused, CallUnresolved,
         AskRefused, Unknown
<1> QED BY <1>1, <1>2, <1>3, FaultTyped

(* A refused @once function leaves its argument names behind.              *)
LEMMA NamesTyped ==
  ASSUME TypeOK, NEW args
  PROVE  /\ ArgNames(args) \subseteq STRING
         /\ \A f \in DOMAIN prog.fns : ParamNames(f, args) \subseteq STRING
<1>1. ASSUME NEW n \in ArgNames(args) PROVE n \in STRING
  <2>1. PICK i \in DOMAIN ArgReg : n = ArgReg[i] BY <1>1 DEF ArgNames
  <2>2. ArgReg[i] \in Reg BY HostAssumption
  <2> QED BY <2>1, <2>2, HostAssumption
<1>2. ASSUME NEW f \in DOMAIN prog.fns PROVE ParamNames(f, args) \subseteq STRING
  <2>1. prog.fns[f].params \in Seq(Reg)
    BY ProgramsAssumption DEF TypeOK, HostOK, Function
  <2> DEFINE params == prog.fns[f].params
  <2> HIDE DEF params
  <2>2. params \in Seq(Reg) BY <2>1 DEF params
  <2>3. \A i \in DOMAIN params : params[i] \in Reg BY <2>2
  <2>4. ParamNames(f, args) = {params[i] : i \in DOMAIN args \cap DOMAIN params}
    BY DEF ParamNames, params
  <2>5. ASSUME NEW n \in ParamNames(f, args) PROVE n \in STRING
    <3>1. PICK i \in DOMAIN params : n = params[i] BY <2>4
    <3> QED BY <2>3, <3>1, HostAssumption
  <2> QED BY <2>5
<1> QED BY <1>1, <1>2

LEMMA OnceRefusalTyped ==
  ASSUME TypeOK, UNCHANGED host, CallOnceRefused PROVE TypeOK'
<1>1. /\ Fetched /\ ops' = Tick(ops) /\ Unwind(Error("once"))
      /\ spelled' = spelled \cup ArgNames(CallArgs)
      /\ UNCHANGED <<counters, once, runs, susps>>
  BY DEF CallOnceRefused, Calling, Runs
<1>2. Error("once") \in ExecResult BY ValueTags DEF Error, ExecResult
<1>3. MachineOK' /\ frames' = <<>> /\ result' \in ExecResult
  BY <1>1, <1>2, UnwindTyped DEF Fetched
<1>4. ReportOK'
  BY <1>1, NamesTyped, TickBounded DEF TypeOK, ReportOK, host, counters, LoadedNames
<1>5. ControlOK'
  <2>1. ExecResult' = ExecResult /\ Suspension' = Suspension
    BY DEF host, ExecResult, Suspension
  <2>2. frames' \in Seq(Frame') /\ Len(frames') <= MaxCallDepth + 1
    BY <1>3, BoundsAssumption
  <2> QED BY <1>1, <1>3, <2>1, <2>2 DEF TypeOK, ControlOK
<1> QED BY <1>3, <1>4, <1>5, HostKept DEF TypeOK

(* Calls and returns: what the activation records hold.                    *)

LEMMA NewFrameTyped ==
  ASSUME TypeOK, NEW f \in DOMAIN prog.fns, NEW saved \in RegisterFile
  PROVE  NewFrame(f, saved) \in Frame
<1>1. limits.jumps \in Nat BY BoundsAssumption DEF TypeOK, HostOK
<1> QED BY <1>1 DEF NewFrame, Frame

LEMMA CountEntryTyped ==
  ASSUME TypeOK, UNCHANGED host, NEW f \in DOMAIN prog.fns, CountEntry(f),
         ops' \in {ops, Tick(ops)}, UNCHANGED counters,
         spelled' \subseteq STRING, spelled \subseteq spelled'
  PROVE  ReportOK'
<1>1. /\ once \subseteq DOMAIN prog.fns /\ runs \in [DOMAIN prog.fns -> 0 .. CountCap]
      /\ prog' = prog
  BY DEF TypeOK, ReportOK, host
<1>2. Tick(runs[f]) \in 0 .. CountCap BY <1>1, TickBounded
<1>3. runs' \in [DOMAIN prog'.fns -> 0 .. CountCap] BY <1>1, <1>2 DEF CountEntry
<1>4. once' \subseteq DOMAIN prog'.fns BY <1>1 DEF CountEntry
<1> QED BY <1>1, <1>3, <1>4, TickBounded DEF TypeOK, ReportOK, counters, LoadedNames

LEMMA ArgRegistersTyped ==
  ASSUME NEW args \in Seq(Value) PROVE ArgRegisters(args) \in RegisterFile
<1>1. ASSUME NEW r \in Reg,
             \E i \in DOMAIN args : i \in DOMAIN ArgReg /\ ArgReg[i] = r
      PROVE  args[CHOOSE i \in DOMAIN args : i \in DOMAIN ArgReg /\ ArgReg[i] = r]
               \in Value
  BY <1>1
<1> QED BY <1>1 DEF ArgRegisters, RegisterFile

LEMMA CallArgsTyped == ASSUME TypeOK, Fetched PROVE CallArgs \in Seq(Value)
<1>1. Len(Instr.args) - 1 \in Int BY FetchedInstruction
<1>2. \A i \in 1 .. Len(Instr.args) - 1 : Rhs(Arg(i + 1)) \in Value
  BY NumRhsValue
<1> QED BY <1>1, <1>2 DEF CallArgs

LEMMA CallFunctionTyped ==
  ASSUME TypeOK, UNCHANGED host, CallFunction PROVE TypeOK'
<1> DEFINE f == Name(1)
           caller == [Top EXCEPT !.pc = @ + 1]
<1>1. /\ Fetched /\ ops' = Tick(ops) /\ ~TooDeep /\ CallsBytecode(f)
      /\ frames' = Append([frames EXCEPT ![Len(frames)] = caller],
                          NewFrame(f, registers))
      /\ registers' = ArgRegisters(CallArgs)
      /\ CountEntry(f) /\ spelled' = spelled \cup ArgNames(CallArgs)
      /\ UNCHANGED <<stack, storage, memory, accumulator, counters, result, susps>>
  BY DEF CallFunction, Calling, Runs
<1>2. f \in DOMAIN prog.fns BY <1>1 DEF CallsBytecode, Overrides, IsOwn
<1>3. MachineOK'
  BY <1>1, CallArgsTyped, ArgRegistersTyped
  DEF TypeOK, MachineOK, Traces, RegisterFile
<1>4. ControlOK'
  <2>1. /\ frames \in Seq(Frame) /\ Len(frames) \in 1 .. Len(frames)
        /\ Top \in Frame /\ registers \in RegisterFile
    BY <1>1, FetchedInstruction DEF TypeOK, ControlOK, MachineOK
  <2>2. caller \in Frame
    <3>1. Top.pc + 1 \in Nat \ {0} BY <2>1 DEF Frame
    <3>2. [Top EXCEPT !.pc = Top.pc + 1] \in Frame BY <2>1, <3>1 DEF Frame
    <3> QED BY <3>2
  <2>3. NewFrame(f, registers) \in Frame BY <1>2, <2>1, NewFrameTyped
  <2> HIDE DEF f, caller
  <2>4. frames' \in Seq(Frame) /\ Len(frames') = Len(frames) + 1
    BY <1>1, <2>1, <2>2, <2>3
  <2>5. Len(frames') <= MaxCallDepth + 1
    BY <1>1, <2>1, <2>4, BoundsAssumption DEF TooDeep
  <2>6. Frame' = Frame /\ Suspension' = Suspension /\ ExecResult' = ExecResult
    BY DEF host, Frame, Suspension, RegisterFile, ExecResult
  <2> QED BY <1>1, <2>4, <2>5, <2>6 DEF TypeOK, ControlOK
<1>5. ReportOK' BY <1>1, <1>2, NamesTyped, CountEntryTyped DEF TypeOK, ReportOK
<1> QED BY <1>3, <1>4, <1>5, HostKept DEF TypeOK

LEMMA LeaveTyped ==
  ASSUME TypeOK, frames # <<>>, UNCHANGED host, NEW kind \in {"ok", "return"},
         NEW v \in Value, Leave(kind, v), accumulator' \in Value,
         ops' \in {ops, Tick(ops)}
  PROVE  TypeOK'
<1>1. /\ frames \in Seq(Frame) /\ Len(frames) \in 1 .. Len(frames)
      /\ Len(frames) <= MaxCallDepth + 1 /\ stack \in Seq(Value)
  BY DEF TypeOK, ControlOK, MachineOK
<1>2. Frame' = Frame /\ Suspension' = Suspension /\ ExecResult' = ExecResult
  BY DEF host, Frame, Suspension, RegisterFile, ExecResult
<1>3. UNCHANGED <<storage, memory, counters, entries, susps>> BY DEF Leave
<1>4. HostOK' /\ ReportOK' BY <1>3, HostKept, ReportKept
<1>5. CASE Len(frames) = 1
  <2>1. frames' = <<>> /\ result' = Done(kind, v) /\ UNCHANGED <<registers, stack>>
    BY <1>5 DEF Leave
  <2>2. Done(kind, v) \in ExecResult BY DEF Done, ExecResult
  <2>3. frames' \in Seq(Frame) /\ Len(frames') <= MaxCallDepth + 1
    BY <2>1, BoundsAssumption
  <2>4. ControlOK' BY <1>2, <1>3, <2>1, <2>2, <2>3 DEF TypeOK, ControlOK
  <2>5. MachineOK'
    BY <1>3, <2>1 DEF TypeOK, MachineOK, RegisterFile, Traces
  <2> QED BY <1>4, <2>4, <2>5 DEF TypeOK
<1>6. CASE Len(frames) # 1
  <2>1. /\ frames' = SubSeq(frames, 1, Len(frames) - 1)
        /\ registers' = Top.saved /\ stack' = Append(stack, v)
        /\ UNCHANGED result
    BY <1>6 DEF Leave
  <2>2. Top \in Frame BY <1>1 DEF Top
  <2>3. registers' \in RegisterFile BY <2>1, <2>2 DEF Frame
  <2>4. MachineOK'
    BY <1>1, <1>3, <2>1, <2>3 DEF TypeOK, MachineOK, RegisterFile, Traces
  <2>5. frames' \in Seq(Frame) /\ Len(frames') <= MaxCallDepth + 1
    <3> DEFINE n == Len(frames)
    <3>1. n \in Nat /\ n >= 1 /\ n # 1 /\ n <= MaxCallDepth + 1 BY <1>1, <1>6
    <3>2. \A i \in 1 .. n - 1 : frames[i] \in Frame BY <1>1
    <3> HIDE DEF n
    <3>3. SubSeq(frames, 1, n - 1) \in Seq(Frame)
          /\ Len(SubSeq(frames, 1, n - 1)) = n - 1
      BY <3>1, <3>2, SubSeqProperties
    <3>4. frames' = SubSeq(frames, 1, n - 1) BY <2>1 DEF n
    <3> QED BY <3>1, <3>3, <3>4, BoundsAssumption
  <2>6. ControlOK' BY <1>2, <1>3, <2>1, <2>5 DEF TypeOK, ControlOK
  <2> QED BY <1>4, <2>4, <2>6 DEF TypeOK
<1> QED BY <1>5, <1>6

LEMMA EndingsTyped ==
  ASSUME TypeOK, UNCHANGED host, Return \/ FallOffEnd PROVE TypeOK'
<1>1. accumulator \in Value BY DEF TypeOK, MachineOK
<1>2. CASE Return
  <2>1. Fetched /\ ops' = Tick(ops) /\ Leave("return", accumulator')
    BY <1>2 DEF Return, Runs
  <2>2. accumulator' \in Value BY <1>1, <1>2, <2>1, NumRhsValue DEF Return
  <2> QED BY <2>1, <2>2, LeaveTyped DEF Fetched
<1>3. CASE FallOffEnd
  BY <1>1, <1>3, LeaveTyped DEF FallOffEnd
<1> QED BY <1>2, <1>3

(* A suspension carries a question, the candidates and the control state.  *)
LEMMA CandidatesTyped == ASSUME TypeOK, Fetched PROVE Candidates \in Seq(Value)
<1> DEFINE given == [i \in 1 .. Len(Instr.args) - 1 |-> Num(Arg(i + 1))]
<1>1. Len(Instr.args) - 1 \in Int BY FetchedInstruction
<1>2. \A i \in 1 .. Len(Instr.args) - 1 : Num(Arg(i + 1)) \in Value
  BY NumRhsValue
<1>3. given \in Seq(Value) BY <1>1, <1>2
<1>4. ASSUME Len(given) = 1, IsArray(given[1]) PROVE given[1][2] \in Seq(Value)
  <2> HIDE DEF given
  <2>1. given[1] \in Value BY <1>3, <1>4
  <2> QED BY <1>4, <2>1, ValueTags, ItemsAreValues
<1> QED BY <1>3, <1>4 DEF Candidates

LEMMA AskTyped ==
  ASSUME TypeOK, UNCHANGED host, Ask PROVE TypeOK'
<1> DEFINE res == [kind |-> "suspend", value |-> Null, why |-> "ask"]
           s == [question |-> Symbol(Arg(1)), candidates |-> Candidates,
                 fn |-> Top.fn, pc |-> Top.pc + 1,
                 flag |-> Top.flag, jumps |-> Top.jumps]
<1>1. /\ Fetched /\ ops' = Tick(ops) /\ Unwind(res) /\ susps' = Append(susps, s)
      /\ UNCHANGED <<counters, entries>>
  BY DEF Ask, Runs
<1>2. res \in ExecResult BY ValueTags DEF ExecResult
<1>3. MachineOK' /\ frames' = <<>> /\ result' \in ExecResult
  BY <1>1, <1>2, UnwindTyped DEF Fetched
<1>4. s \in Suspension
  <2>1. Top \in Frame BY <1>1, FetchedInstruction
  <2>2. Top.pc + 1 \in Nat \ {0} BY <2>1 DEF Frame
  <2>3. Symbol(Arg(1)) \in STRING BY <1>1, ArgOperand, SymbolString
  <2>4. Candidates \in Seq(Value) BY <1>1, CandidatesTyped
  <2> QED BY <2>1, <2>2, <2>3, <2>4 DEF Frame, Suspension
<1> HIDE DEF s
<1>5. susps' \in Seq(Suspension) BY <1>1, <1>4 DEF TypeOK, ControlOK
<1>6. Suspension' = Suspension /\ ExecResult' = ExecResult
  BY DEF host, Suspension, ExecResult
<1>7. frames' \in Seq(Frame') /\ Len(frames') <= MaxCallDepth + 1
  BY <1>3, BoundsAssumption
<1>8. ControlOK' BY <1>3, <1>5, <1>6, <1>7 DEF ControlOK
<1>9. ReportOK' BY <1>1, ReportKept
<1> QED BY <1>3, <1>8, <1>9, HostKept DEF TypeOK

LEMMA ExecuteTyped == TypeOK /\ Execute => TypeOK'
<1> SUFFICES ASSUME TypeOK, Interpret, UNCHANGED host PROVE TypeOK' BY DEF Execute
<1>1. CASE \/ Create \/ NewVar \/ Assign \/ Copy \/ Arithmetic \/ MakeArray
           \/ Length \/ Index \/ SetIndex \/ Recall
  BY <1>1, RegisterOpcodesTyped
<1>2. CASE Transfer BY <1>2, TransferTyped
<1>3. CASE Destroy BY <1>3, DestroyTyped
<1>4. CASE Sum BY <1>4, SumTyped
<1>5. CASE Push \/ Pop \/ CallNative BY <1>5, StackOpcodesTyped
<1>6. CASE Store \/ Remember \/ Forget BY <1>6, StorageOpcodesTyped
<1>7. CASE Compare BY <1>7, CompareTyped
<1>8. CASE Query BY <1>8, QueryTyped
<1>9. CASE PassOver \/ FallThrough BY <1>9, PassingTyped
<1>10. CASE Jump BY <1>10, JumpTyped
<1>11. CASE CallFunction BY <1>11, CallFunctionTyped
<1>12. CASE Return \/ FallOffEnd BY <1>12, EndingsTyped
<1>13. CASE Ask BY <1>13, AskTyped
<1>14. CASE \/ OutOfOps \/ OutOfTime \/ DivideByZero \/ SetIndexFault
            \/ QueryRefused \/ JumpRefused \/ CallDepthRefused \/ CallUnresolved
            \/ AskRefused \/ Unknown
  BY <1>14, FaultsTyped
<1>15. CASE CallOnceRefused BY <1>15, OnceRefusalTyped
<1> QED BY <1>1, <1>2, <1>3, <1>4, <1>5, <1>6, <1>7, <1>8, <1>9, <1>10, <1>11,
           <1>12, <1>13, <1>14, <1>15 DEF Interpret

-----------------------------------------------------------------------------
(* The host's calls.                                                       *)

LEMMA HostTurnKept ==
  ASSUME TypeOK, HostTurn
  PROVE  /\ hostCalls' \in 0 .. MaxHostCalls
         /\ UNCHANGED <<prog, limits, late, ops, counters>>
BY BoundsAssumption DEF HostTurn, TypeOK, HostOK

(* A call that leaves the store and the snapshots alone.                   *)
LEMMA HostTurnTyped ==
  ASSUME TypeOK, HostTurn, UNCHANGED <<knowledge, snaps>> PROVE HostOK'
BY HostTurnKept DEF TypeOK, HostOK, VmSnapshot, RegisterFile, Traces

LEMMA HostReportKept ==
  ASSUME TypeOK, HostTurn, UNCHANGED entries PROVE ReportOK'
BY HostTurnKept DEF TypeOK, ReportOK, counters, entries

LEMMA RefuseTyped ==
  ASSUME TypeOK, HostTurn, UNCHANGED <<knowledge, machine, susps, snaps>>,
         NEW why \in {"once", "not found", "access", "not a candidate"}, Refuse(why)
  PROVE  TypeOK'
<1>1. HostOK' /\ ReportOK' BY HostTurnTyped, HostReportKept DEF Refuse
<1>2. MachineOK' BY MachineKept
<1>3. Error(why) \in ExecResult BY ValueTags DEF Error, ExecResult
<1>4. ControlOK'
  <2>1. Frame' = Frame /\ Suspension' = Suspension /\ ExecResult' = ExecResult
    BY HostTurnKept DEF Frame, Suspension, RegisterFile, ExecResult
  <2> QED BY <1>3, <2>1 DEF TypeOK, ControlOK, Refuse
<1> QED BY <1>1, <1>2, <1>4 DEF TypeOK

(* The argument a register is bound to is one of the list.                 *)
LEMMA LastBinding ==
  ASSUME NEW f, NEW args \in Seq(Value), NEW r, Binds(f, args, r) # {}
  PROVE  (CHOOSE i \in Binds(f, args, r) : \A j \in Binds(f, args, r) : j <= i)
           \in DOMAIN args
<1> DEFINE B == Binds(f, args, r)
           C == {Len(args) - i : i \in B}
<1>1. B \subseteq 1 .. Len(args) /\ Len(args) \in Nat BY DEF Binds
<1>2. C \in SUBSET Nat /\ C # {} BY <1>1
<1>3. PICK m \in C : \A n \in C : m <= n BY <1>2, LeastOf
<1>4. \E i \in B : \A j \in B : j <= i
  <2>1. PICK i \in B : m = Len(args) - i BY <1>3
  <2>2. ASSUME NEW j \in B PROVE j <= i
    <3>1. Len(args) - i <= Len(args) - j BY <1>3, <2>1
    <3> QED BY <1>1, <3>1
  <2> QED BY <2>2
<1>5. (CHOOSE i \in B : \A j \in B : j <= i) \in B BY <1>4
<1> QED BY <1>1, <1>5

LEMMA HostBoundTyped ==
  ASSUME TypeOK, NEW f, NEW args \in Seq(Value)
  PROVE  HostBound(f, args) \in RegisterFile
<1>1. ASSUME NEW r \in Reg, Binds(f, args, r) # {}
      PROVE  args[CHOOSE i \in Binds(f, args, r) :
                    \A j \in Binds(f, args, r) : j <= i] \in Value
  <2> DEFINE last == CHOOSE i \in Binds(f, args, r) :
                       \A j \in Binds(f, args, r) : j <= i
  <2>1. last \in DOMAIN args BY <1>1, LastBinding
  <2> HIDE DEF last
  <2>2. args[last] \in Value BY <2>1
  <2> QED BY <2>2 DEF last
<1>2. \A r \in Reg : registers[r] \in Value \cup {Unbound}
  BY DEF TypeOK, MachineOK, RegisterFile
<1> QED BY <1>1, <1>2 DEF HostBound, RegisterFile

LEMMA CallTyped ==
  ASSUME TypeOK, NEW f, NEW args \in Seq(Value), IsOwn(f), Call(f, args)
  PROVE  TypeOK'
<1>1. HostTurn /\ UNCHANGED <<knowledge, stack, storage, memory, accumulator, susps, snaps>>
  BY DEF Call
<1>2. HostOK' BY <1>1, HostTurnTyped
<1>3. MachineOK'
  <2>1. registers' \in RegisterFile BY HostBoundTyped DEF Call
  <2> QED BY <1>1, <2>1 DEF TypeOK, MachineOK, RegisterFile, Traces
<1>4. Frame' = Frame /\ Suspension' = Suspension /\ ExecResult' = ExecResult
  BY <1>1, HostTurnKept DEF Frame, Suspension, RegisterFile, ExecResult
<1>7. /\ LoadedNames(prog)' \subseteq spelled' /\ spelled' \subseteq STRING
      /\ spelled \subseteq spelled'
  BY <1>1, HostTurnKept, NamesTyped DEF Call, IsOwn, TypeOK, ReportOK, LoadedNames
<1>5. CASE OnceSpent(f)
  <2>1. result' = Error("once") /\ UNCHANGED <<frames, once, runs>>
    BY <1>5 DEF Call
  <2>2. ReportOK' BY <1>1, <1>7, <2>1, HostTurnKept DEF TypeOK, ReportOK, counters
  <2>3. Error("once") \in ExecResult BY ValueTags DEF Error, ExecResult
  <2>4. ControlOK' BY <1>1, <1>4, <2>1, <2>3 DEF TypeOK, ControlOK
  <2> QED BY <1>2, <1>3, <2>2, <2>4 DEF TypeOK
<1>6. CASE ~OnceSpent(f)
  <2>1. frames' = <<NewFrame(f, NoRegisters)>> /\ result' = NoResult /\ CountEntry(f)
    BY <1>6 DEF Call
  <2>2. f \in DOMAIN prog.fns BY DEF IsOwn
  <2>3. ReportOK'
    <3>1. /\ once \subseteq DOMAIN prog.fns
          /\ runs \in [DOMAIN prog.fns -> 0 .. CountCap] /\ prog' = prog
      BY <1>1, HostTurnKept DEF TypeOK, ReportOK
    <3>2. Tick(runs[f]) \in 0 .. CountCap BY <2>2, <3>1, TickBounded
    <3>3. runs' \in [DOMAIN prog'.fns -> 0 .. CountCap]
      BY <2>1, <3>1, <3>2 DEF CountEntry
    <3>4. once' \subseteq DOMAIN prog'.fns BY <2>1, <2>2, <3>1 DEF CountEntry
    <3> QED BY <1>1, <1>7, <3>3, <3>4, HostTurnKept DEF TypeOK, ReportOK, counters
  <2>4. NewFrame(f, NoRegisters) \in Frame
    BY <2>2, NewFrameTyped DEF NoRegisters, RegisterFile
  <2>5. NoResult \in ExecResult BY ValueTags DEF NoResult, ExecResult
  <2>6. frames' \in Seq(Frame) /\ Len(frames') <= MaxCallDepth + 1
    BY <2>1, <2>4, BoundsAssumption
  <2>7. ControlOK' BY <1>1, <1>4, <2>1, <2>5, <2>6 DEF TypeOK, ControlOK
  <2> QED BY <1>2, <1>3, <2>3, <2>7 DEF TypeOK
<1> QED BY <1>5, <1>6

LEMMA ResumeTyped ==
  ASSUME TypeOK, NEW i \in DOMAIN susps, NEW answer \in Value,
         Resume(susps[i], answer)
  PROVE  TypeOK'
<1> DEFINE s == susps[i]
           f == [fn |-> s.fn, pc |-> s.pc, flag |-> s.flag, jumps |-> s.jumps,
                 saved |-> NoRegisters]
<1>1. /\ HostTurn /\ stack' = Append(stack, answer) /\ frames' = <<f>>
      /\ result' = NoResult
      /\ UNCHANGED <<knowledge, registers, storage, memory, accumulator, entries,
                     susps, snaps>>
  BY DEF Resume
<1>2. HostOK' /\ ReportOK' BY <1>1, HostTurnTyped, HostReportKept
<1>3. MachineOK' BY <1>1, PushTyped DEF TypeOK
<1>5. s \in Suspension BY DEF TypeOK, ControlOK
<1>6. f \in Frame BY <1>5 DEF Suspension, Frame, NoRegisters, RegisterFile
<1> HIDE DEF f
<1>7. frames' \in Seq(Frame) /\ Len(frames') <= MaxCallDepth + 1
  BY <1>1, <1>6, BoundsAssumption
<1>8. NoResult \in ExecResult BY ValueTags DEF NoResult, ExecResult
<1>9. Frame' = Frame /\ Suspension' = Suspension /\ ExecResult' = ExecResult
  BY <1>1, HostTurnKept DEF Frame, Suspension, RegisterFile, ExecResult
<1>10. ControlOK' BY <1>1, <1>7, <1>8, <1>9 DEF TypeOK, ControlOK
<1> QED BY <1>2, <1>3, <1>10 DEF TypeOK

(* The host calls between two executions that touch no control state.      *)
LEMMA BetweenRunsTyped ==
  ASSUME TypeOK, HostTurn, UNCHANGED <<frames, result, entries, susps>>
  PROVE  ControlOK' /\ ReportOK'
<1>1. Frame' = Frame /\ Suspension' = Suspension /\ ExecResult' = ExecResult
  BY HostTurnKept DEF Frame, Suspension, RegisterFile, ExecResult
<1> QED BY <1>1, HostReportKept DEF TypeOK, ControlOK

LEMMA SnapshotTyped ==
  ASSUME TypeOK, Snapshot PROVE TypeOK'
<1>1. HostTurn /\ UNCHANGED <<knowledge, machine, frames, result, entries, susps>>
  BY DEF Snapshot
<1> DEFINE s == [registers |-> registers, stack |-> stack, storage |-> storage,
                 memory |-> memory, accumulator |-> accumulator,
                 knowledge |-> knowledge]
<1>2. s \in VmSnapshot BY DEF TypeOK, MachineOK, HostOK, VmSnapshot
<1>3. snaps' = snaps \cup {s} BY DEF Snapshot
<1> HIDE DEF s
<1>4. VmSnapshot' = VmSnapshot BY DEF VmSnapshot, RegisterFile, Traces
<1>5. HostOK' BY <1>1, <1>2, <1>3, <1>4, HostTurnKept DEF TypeOK, HostOK
<1> QED BY <1>1, <1>5, BetweenRunsTyped, MachineKept DEF TypeOK

LEMMA RestoreTyped ==
  ASSUME TypeOK, NEW s \in snaps, Restore(s) PROVE TypeOK'
<1>1. /\ HostTurn /\ Revived(s)
      /\ UNCHANGED <<frames, result, entries, susps, snaps>>
  BY DEF Restore
<1>2. s \in VmSnapshot BY DEF TypeOK, HostOK
<1>3. MachineOK' /\ knowledge' \in [Sym -> Seq(Map)]
  BY <1>1, <1>2 DEF Revived, VmSnapshot, MachineOK, RegisterFile, Traces
<1>4. VmSnapshot' = VmSnapshot BY DEF VmSnapshot, RegisterFile, Traces
<1>5. HostOK' BY <1>1, <1>3, <1>4, HostTurnKept DEF TypeOK, HostOK
<1> QED BY <1>1, <1>3, <1>5, BetweenRunsTyped DEF TypeOK

LEMMA ResetTyped ==
  ASSUME TypeOK, Reset PROVE TypeOK'
<1>1. MachineOK'
  BY ValueTags DEF Reset, TypeOK, MachineOK, NoRegisters, RegisterFile, Traces
<1> QED BY <1>1, HostTurnTyped, BetweenRunsTyped DEF Reset, TypeOK

LEMMA ExcludeTyped ==
  ASSUME TypeOK, NEW m \in Sym, Exclude(m) PROVE TypeOK'
<1>1. HostTurn /\ UNCHANGED <<machine, frames, result, entries, susps, snaps>>
      /\ knowledge' = WithoutFacts(knowledge, m)
  BY DEF Exclude
<1>2. knowledge' \in [Sym -> Seq(Map)] BY <1>1 DEF WithoutFacts, TypeOK, HostOK
<1>3. VmSnapshot' = VmSnapshot BY DEF VmSnapshot, RegisterFile, Traces
<1>4. HostOK' BY <1>1, <1>2, <1>3, HostTurnKept DEF TypeOK, HostOK
<1> QED BY <1>1, <1>4, BetweenRunsTyped, MachineKept DEF TypeOK

LEMMA HostActsTyped == TypeOK /\ HostActs => TypeOK'
<1> SUFFICES ASSUME TypeOK, HostActs PROVE TypeOK' OBVIOUS
<1>1. ASSUME NEW f \in FnName, NEW args \in HostArgs, IsOwn(f), Call(f, args)
      PROVE  TypeOK'
  BY <1>1, CallTyped, HostAssumption
<1>2. ASSUME NEW f \in FnName, CallMissing(f) \/ EntryRefused(f) PROVE TypeOK'
  <2>1. HostTurn /\ UNCHANGED <<knowledge, machine, susps, snaps>>
    BY <1>2 DEF CallMissing, EntryRefused
  <2>2. Refuse("not found") \/ Refuse("access")
    BY <1>2 DEF CallMissing, EntryRefused
  <2> QED BY <2>1, <2>2, RefuseTyped
<1>3. ASSUME NEW i \in DOMAIN susps, NEW answer \in Answers,
             Resume(susps[i], answer)
      PROVE  TypeOK'
  BY <1>3, ResumeTyped, HostAssumption
<1>4. ASSUME NEW i \in DOMAIN susps, NEW answer \in Answers,
             ResumeRefused(susps[i], answer)
      PROVE  TypeOK'
  BY <1>4, RefuseTyped DEF ResumeRefused
<1>5. ASSUME NEW s \in snaps, Restore(s) PROVE TypeOK' BY <1>5, RestoreTyped
<1>6. ASSUME NEW m \in Sym, Exclude(m) PROVE TypeOK' BY <1>6, ExcludeTyped
<1>7. Snapshot \/ Reset => TypeOK' BY SnapshotTyped, ResetTyped
<1> QED BY <1>1, <1>2, <1>3, <1>4, <1>5, <1>6, <1>7 DEF HostActs

LEMMA InitTyped == Init => TypeOK
<1> SUFFICES ASSUME Init PROVE TypeOK OBVIOUS
<1>1. MachineOK
  BY ValueTags DEF Init, MachineOK, NoRegisters, RegisterFile, Traces
<1>2. ControlOK
  <2>1. NoResult \in ExecResult BY ValueTags DEF NoResult, ExecResult
  <2> QED BY <2>1, BoundsAssumption DEF Init, ControlOK
<1>3. ReportOK
  <2>1. LoadedNames(prog) \subseteq STRING
    BY ProgramsAssumption, RegistryAssumption DEF Init, LoadedNames, NativeNames
  <2> QED BY <2>1, BoundsAssumption DEF Init, ReportOK
<1>4. HostOK
  <2>1. knowledge \in [Sym -> Seq(Map)] BY KnowledgeAssumption DEF Init
  <2>2. hostCalls \in 0 .. MaxHostCalls BY BoundsAssumption DEF Init
  <2> QED BY <2>1, <2>2 DEF Init, HostOK
<1> QED BY <1>1, <1>2, <1>3, <1>4 DEF TypeOK

LEMMA StutterTyped == TypeOK /\ UNCHANGED vars => TypeOK'
BY DEF vars, TypeOK, MachineOK, ControlOK, ReportOK, HostOK, Frame, Suspension,
       ExecResult, VmSnapshot, RegisterFile, Traces

LEMMA DeadlineTyped == TypeOK /\ DeadlinePasses => TypeOK'
BY DEF DeadlinePasses, machine, counters, entries, TypeOK, MachineOK, ControlOK,
       ReportOK, HostOK, Frame, Suspension, ExecResult, VmSnapshot, RegisterFile,
       Traces

LEMMA NextTyped == TypeOK /\ [Next]_vars => TypeOK'
BY ExecuteTyped, HostActsTyped, DeadlineTyped, StutterTyped DEF Next, HostDone

(* Every reachable state of the machine is well typed, and the activations *)
(* never outnumber MAX_CALL_DEPTH + 1, whatever program is loaded and      *)
(* however the host interleaves its calls.                                 *)
THEOREM TypeCorrect == Spec => []TypeOK
BY InitTyped, NextTyped, PTL DEF Spec

-----------------------------------------------------------------------------
(* What each opcode may touch.                                             *)

(* Only QUERY logs a query, only CALL enters a function, and the traces    *)
(* and the storage map change together or not at all.                      *)
LEMMA OpcodeEffects ==
  ASSUME Interpret
  PROVE  /\ Query \/ UNCHANGED queried
         /\ CallFunction \/ UNCHANGED <<once, runs>>
         /\ (\E key, v : Traced(key, v)) \/ UNCHANGED <<storage, memory>>
<1> USE DEF Runs, Write, Advance, Goto, Fault, Unwind, Leave, Remembered, counters,
            entries, machine, Calling
<1>1. CASE OutOfOps \/ OutOfTime BY <1>1 DEF OutOfOps, OutOfTime
<1>2. CASE Create \/ NewVar \/ Assign \/ Copy
  BY <1>2 DEF Create, NewVar, Assign, Copy
<1>3. CASE Arithmetic \/ DivideByZero BY <1>3 DEF Arithmetic, DivideByZero
<1>4. CASE MakeArray \/ Length \/ Index BY <1>4 DEF MakeArray, Length, Index
<1>5. CASE SetIndex \/ SetIndexFault BY <1>5 DEF SetIndex, SetIndexFault
<1>6. CASE Transfer \/ Destroy \/ Sum BY <1>6 DEF Transfer, Destroy, Sum
<1>7. CASE Push \/ Pop \/ Compare BY <1>7 DEF Push, Pop, Compare
<1>8. CASE Store \/ Remember \/ Forget BY <1>8 DEF Store, Remember, Forget
<1>9. CASE Recall \/ Query \/ QueryRefused BY <1>9 DEF Recall, Query, QueryRefused
<1>10. CASE PassOver \/ Jump \/ JumpRefused \/ FallThrough
  BY <1>10 DEF PassOver, Jump, JumpRefused, FallThrough
<1>11. CASE CallFunction \/ CallNative BY <1>11 DEF CallFunction, CallNative
<1>12. CASE CallDepthRefused \/ CallUnresolved \/ CallOnceRefused
  BY <1>12 DEF CallDepthRefused, CallUnresolved, CallOnceRefused
<1>13. CASE Return \/ FallOffEnd BY <1>13 DEF Return, FallOffEnd
<1>14. CASE Ask \/ AskRefused \/ Unknown BY <1>14 DEF Ask, AskRefused, Unknown
<1> QED BY <1>1, <1>2, <1>3, <1>4, <1>5, <1>6, <1>7, <1>8, <1>9, <1>10, <1>11,
           <1>12, <1>13, <1>14 DEF Interpret

(* An opcode runs only in an activation.                                   *)
LEMMA OpcodesNeedFrames == Interpret => frames # <<>>
BY DEF Interpret, OutOfOps, OutOfTime, FallOffEnd, Unknown, Runs, Fetched, Create,
       NewVar, Assign, Copy, Arithmetic, DivideByZero, MakeArray, Length, Index,
       SetIndex, SetIndexFault, Transfer, Destroy, Sum, Push, Pop, Compare, Store,
       Remember, Forget, Recall, Query, QueryRefused, PassOver, Jump, JumpRefused,
       FallThrough, CallFunction, CallNative, CallDepthRefused, CallUnresolved,
       CallOnceRefused, Return, Ask, AskRefused, Calling

(* No host call, and not the clock, touches the query log or the budgets.  *)
LEMMA HostEffects ==
  ASSUME HostActs PROVE UNCHANGED <<prog, limits, late, ops, jumpsTaken, queried>>
BY DEF HostActs, Call, CallMissing, EntryRefused, Resume, ResumeRefused, Snapshot,
       Reset, Restore, Exclude, HostTurn, counters

-----------------------------------------------------------------------------
(* The query budget.                                                       *)

LEMMA QueryBudgetStep ==
  TypeOK /\ QueryBudgetHeld /\ [Next]_vars => QueryBudgetHeld'
<1> SUFFICES ASSUME TypeOK, QueryBudgetHeld, [Next]_vars PROVE QueryBudgetHeld' OBVIOUS
<1>1. limits.queries \in Nat /\ queried \in Seq(STRING \X Nat)
  BY BoundsAssumption DEF TypeOK, HostOK, ReportOK
<1>2. CASE UNCHANGED <<limits, queried>> BY <1>2 DEF QueryBudgetHeld
<1>3. CASE Execute
  <2>1. limits' = limits BY <1>3 DEF Execute, host
  <2>2. CASE UNCHANGED queried BY <1>2, <2>1, <2>2
  <2>3. CASE Query
    <3>1. limits.queries > 0 => Len(queried) < limits.queries
      BY <1>1, <2>3 DEF Query, OverQueries
    <3>2. Len(queried') = Len(queried) + 1 BY <1>1, <2>3 DEF Query, Logs
    <3> QED BY <1>1, <2>1, <3>1, <3>2 DEF QueryBudgetHeld
  <2> QED BY <1>3, <2>2, <2>3, OpcodeEffects DEF Execute
<1>4. CASE HostActs BY <1>2, <1>4, HostEffects
<1>5. CASE DeadlinePasses BY <1>2, <1>5 DEF DeadlinePasses, counters
<1>6. CASE HostDone \/ UNCHANGED vars BY <1>2, <1>6 DEF HostDone, vars
<1> QED BY <1>3, <1>4, <1>5, <1>6 DEF Next

(* No sequence of calls, resumes, restores and resets buys a program one   *)
(* QUERY more than the budget of its request.                              *)
THEOREM QueryBudgetSafe == Spec => []QueryBudgetHeld
<1>1. Init => QueryBudgetHeld BY BoundsAssumption DEF Init, QueryBudgetHeld
<1> QED BY <1>1, TypeCorrect, QueryBudgetStep, PTL DEF Spec

-----------------------------------------------------------------------------
(* @once.                                                                  *)

(* What makes OnceRunsOnce inductive: an @once function whose body was     *)
(* entered is marked.                                                      *)
EntriesMarked ==
  \A f \in DOMAIN prog.fns : prog.fns[f].once =>
    /\ runs[f] \in {0, 1}
    /\ runs[f] = 1 => f \in once

LEMMA EntryMarks ==
  ASSUME TypeOK, EntriesMarked, NEW f \in DOMAIN prog.fns, ~OnceSpent(f),
         CountEntry(f), prog' = prog
  PROVE  EntriesMarked'
<1>1. runs \in [DOMAIN prog.fns -> 0 .. CountCap] BY DEF TypeOK, ReportOK
<1>2. ASSUME NEW g \in DOMAIN prog.fns, prog.fns[g].once
      PROVE  runs'[g] \in {0, 1} /\ (runs'[g] = 1 => g \in once')
  <2>1. CASE g = f
    <3>1. f \notin once BY <1>2, <2>1 DEF OnceSpent
    <3>2. runs[f] = 0 BY <1>2, <2>1, <3>1 DEF EntriesMarked
    <3>3. runs'[f] = Tick(0) BY <1>1, <3>2 DEF CountEntry
    <3>4. f \in once' BY <1>2, <2>1 DEF CountEntry
    <3> QED BY <2>1, <3>3, <3>4, BoundsAssumption DEF Tick
  <2>2. CASE g # f
    BY <1>1, <1>2, <2>2 DEF CountEntry, EntriesMarked
  <2> QED BY <2>1, <2>2
<1> QED BY <1>2 DEF EntriesMarked

LEMMA EntriesMarkedStep ==
  TypeOK /\ EntriesMarked /\ [Next]_vars => EntriesMarked'
<1> SUFFICES ASSUME TypeOK, EntriesMarked, [Next]_vars PROVE EntriesMarked' OBVIOUS
<1>1. CASE UNCHANGED <<prog, once, runs>> BY <1>1 DEF EntriesMarked
<1>2. CASE Execute
  <2>1. prog' = prog BY <1>2 DEF Execute, host
  <2>2. CASE UNCHANGED <<once, runs>> BY <1>1, <2>1, <2>2
  <2>3. CASE CallFunction
    <3> DEFINE f == Name(1)
    <3>1. f \in DOMAIN prog.fns /\ ~OnceSpent(f) /\ CountEntry(f)
      BY <2>3 DEF CallFunction, CallsBytecode, Overrides, IsOwn
    <3> HIDE DEF f
    <3> QED BY <2>1, <3>1, EntryMarks
  <2> QED BY <1>2, <2>2, <2>3, OpcodeEffects DEF Execute
<1>3. CASE HostActs
  <2>1. prog' = prog BY <1>3, HostEffects
  <2>2. ASSUME NEW f \in FnName, NEW args \in HostArgs, IsOwn(f), Call(f, args)
        PROVE  EntriesMarked'
    <3>1. CASE OnceSpent(f) BY <1>1, <2>1, <2>2, <3>1 DEF Call
    <3>2. CASE ~OnceSpent(f)
      <4>1. CountEntry(f) /\ f \in DOMAIN prog.fns BY <2>2, <3>2 DEF Call, IsOwn
      <4> QED BY <2>1, <3>2, <4>1, EntryMarks
    <3> QED BY <3>1, <3>2
  <2>3. CASE UNCHANGED entries BY <1>1, <2>1, <2>3 DEF entries
  <2> QED BY <1>3, <2>2, <2>3
      DEF HostActs, CallMissing, EntryRefused, Resume, ResumeRefused, Snapshot,
          Reset, Restore, Exclude, Refuse
<1>4. CASE DeadlinePasses BY <1>1, <1>4 DEF DeadlinePasses, entries
<1>5. CASE HostDone \/ UNCHANGED vars BY <1>1, <1>5 DEF HostDone, vars
<1> QED BY <1>2, <1>3, <1>4, <1>5 DEF Next

(* The body of an @once function is entered at most once in the life of a  *)
(* VM, from the host or from a CALL, before or after a restore.            *)
THEOREM OnceSafe == Spec => []OnceRunsOnce
<1>1. Init => EntriesMarked BY DEF Init, EntriesMarked
<1>2. EntriesMarked => OnceRunsOnce BY DEF EntriesMarked, OnceRunsOnce
<1> QED BY <1>1, <1>2, TypeCorrect, EntriesMarkedStep, PTL DEF Spec

-----------------------------------------------------------------------------
(* Storage and memory.                                                     *)

(* What makes StorageMirrorsMemory inductive: every snapshot has it too.   *)
SnapshotsMirror == \A s \in snaps : s.storage = s.memory

Mirrors == StorageMirrorsMemory /\ SnapshotsMirror

LEMMA MirrorsStep == TypeOK /\ Mirrors /\ [Next]_vars => Mirrors'
<1> SUFFICES ASSUME TypeOK, Mirrors, [Next]_vars PROVE Mirrors' OBVIOUS
<1> USE DEF Mirrors, StorageMirrorsMemory, SnapshotsMirror
<1>1. CASE UNCHANGED <<storage, memory, snaps>> BY <1>1
<1>2. CASE Execute
  <2>1. snaps' = snaps BY <1>2 DEF Execute, host
  <2>2. CASE UNCHANGED <<storage, memory>> BY <1>1, <2>1, <2>2
  <2>3. ASSUME NEW key, NEW v, Traced(key, v) PROVE Mirrors'
    BY <2>1, <2>3 DEF Traced
  <2> QED BY <1>2, <2>2, <2>3, OpcodeEffects DEF Execute
<1>3. CASE Snapshot BY <1>3 DEF Snapshot, machine
<1>4. ASSUME NEW s \in snaps, Restore(s) PROVE Mirrors'
  BY <1>4 DEF Restore, Revived
<1>5. CASE HostActs
  <2>1. \/ Snapshot \/ \E s \in snaps : Restore(s)
        \/ UNCHANGED <<storage, memory, snaps>>
    BY <1>5 DEF HostActs, Call, CallMissing, EntryRefused, Resume, ResumeRefused,
                Reset, Exclude, machine
  <2> QED BY <1>1, <1>3, <1>4, <2>1
<1>6. CASE DeadlinePasses BY <1>1, <1>6 DEF DeadlinePasses, machine
<1>7. CASE HostDone \/ UNCHANGED vars BY <1>1, <1>7 DEF HostDone, vars
<1> QED BY <1>2, <1>5, <1>6, <1>7 DEF Next

(* RECALL and the exact-key map never disagree about what a program        *)
(* stored, whatever is snapshotted, restored and run again.                *)
THEOREM MirrorSafe == Spec => []StorageMirrorsMemory
<1>1. Init => Mirrors
  BY DEF Init, Mirrors, StorageMirrorsMemory, SnapshotsMirror
<1>2. Mirrors => StorageMirrorsMemory BY DEF Mirrors
<1> QED BY <1>1, <1>2, TypeCorrect, MirrorsStep, PTL DEF Spec

-----------------------------------------------------------------------------
(* Refused opcodes.                                                        *)

LEMMA OnlyAllowedOpcodesRun ==
  ASSUME Interpret
  PROVE  \/ OutOfOps \/ OutOfTime \/ ops' = ops
         \/ ops' = Tick(ops) /\ ~OverOps /\ ~PastDeadline
<1> USE DEF Runs, Calling
<1>1. CASE Create \/ NewVar \/ Assign \/ Copy \/ Arithmetic \/ DivideByZero
  BY <1>1 DEF Create, NewVar, Assign, Copy, Arithmetic, DivideByZero
<1>2. CASE MakeArray \/ Length \/ Index \/ SetIndex \/ SetIndexFault \/ Transfer
  BY <1>2 DEF MakeArray, Length, Index, SetIndex, SetIndexFault, Transfer
<1>3. CASE Destroy \/ Sum \/ Push \/ Pop \/ Compare \/ Store \/ Remember \/ Forget
  BY <1>3 DEF Destroy, Sum, Push, Pop, Compare, Store, Remember, Forget
<1>4. CASE Recall \/ Query \/ QueryRefused \/ PassOver \/ Jump \/ JumpRefused
  BY <1>4 DEF Recall, Query, QueryRefused, PassOver, Jump, JumpRefused
<1>5. CASE \/ FallThrough \/ CallFunction \/ CallNative \/ CallDepthRefused
           \/ CallUnresolved \/ CallOnceRefused
  BY <1>5 DEF FallThrough, CallFunction, CallNative, CallDepthRefused,
              CallUnresolved, CallOnceRefused
<1>6. CASE Return \/ FallOffEnd \/ Ask \/ AskRefused \/ Unknown
  BY <1>6 DEF Return, FallOffEnd, Ask, AskRefused, Unknown
<1> QED BY <1>1, <1>2, <1>3, <1>4, <1>5, <1>6 DEF Interpret

LEMMA RefusedStep ==
  ASSUME [Next]_vars, ops' # ops, RefusedBy(ops')
  PROVE  /\ frames' = <<>> /\ result'.kind = "error"
         /\ UNCHANGED <<stack, storage, memory, accumulator, counters, runs>>
<1>1. CASE Execute
  <2>1. CASE OutOfOps \/ OutOfTime
    <3>1. \E w \in {"op budget", "wall budget"} : Fault(w)
      BY <2>1 DEF OutOfOps, OutOfTime
    <3>2. PICK w \in {"op budget", "wall budget"} :
            Unwind(Error(w)) /\ UNCHANGED <<counters, entries, susps>>
      BY <3>1 DEF Fault
    <3>3. Error(w).kind = "error" BY DEF Error
    <3> QED BY <3>2, <3>3 DEF Unwind, entries
  <2>2. CASE ops' = Tick(ops) /\ ~OverOps /\ ~PastDeadline
    <3>1. RefusedBy(Tick(ops)) = (OverOps \/ PastDeadline)
      BY DEF RefusedBy, OverOps, PastDeadline
    <3>2. ~RefusedBy(ops') BY <2>2, <3>1
    <3> QED BY <3>2
  <2> QED BY <1>1, <2>1, <2>2, OnlyAllowedOpcodesRun DEF Execute
<1>2. CASE HostActs BY <1>2, HostEffects
<1>3. CASE DeadlinePasses \/ HostDone \/ UNCHANGED vars
  BY <1>3 DEF DeadlinePasses, HostDone, vars
<1> QED BY <1>1, <1>2, <1>3 DEF Next

(* An opcode past the op budget, or at a clock reading past the deadline,  *)
(* has no effect but its count and the error that names the budget.        *)
THEOREM RefusedOpcodesAreInert == Spec => NoEffectPastBudget
<1>1. [Next]_vars =>
        [ops' # ops /\ RefusedBy(ops')
           => /\ frames' = <<>> /\ result'.kind = "error"
              /\ UNCHANGED <<stack, storage, memory, accumulator, counters, runs>>]_vars
  BY RefusedStep
<1> QED BY <1>1, PTL DEF Spec, NoEffectPastBudget
-----------------------------------------------------------------------------
(* Provenance of facts.                                                    *)
(*                                                                         *)
(* A fact is a value like any other, so not every program logs the facts   *)
(* it holds: one that builds a map entry by entry may build a fact nobody  *)
(* delivered, and a host may pass one in.  What is proved is that these    *)
(* are the only ways.                                                      *)

AllFacts == UNION {FactsOf(m) : m \in Sym}
Logged   == UNION {FactsOf(q) : q \in Asked \cap Sym}

(* What a host passes and what a native returns is no fact of a store.     *)
HostIsFactFree ==
  /\ \A args \in HostArgs : \A i \in DOMAIN args : FactsIn(args[i]) \cap AllFacts = {}
  /\ \A m \in DOMAIN Registry : \A f \in DOMAIN Registry[m] :
       FactsIn(Registry[m][f].value) \cap AllFacts = {}

(* A SET_INDEX leaves a map that is a fact nobody delivered.               *)
Forges == /\ Fetched
          /\ Instr.op = "SET_INDEX"
          /\ registers'[Name(1)] \in AllFacts \ Logged

(* No question is put to the host without candidates.                      *)
OffersSomething == \A i \in DOMAIN susps : susps[i].candidates # <<>>

(* The values whose facts, if they are facts of a store, are all in L; and *)
(* the parts of a machine that hold only such values.                      *)
Sourced(L)       == {v \in Value : FactsIn(v) \cap AllFacts \subseteq L}
SourcedFile(L)   == [Reg -> Sourced(L) \cup {Unbound}]
SourcedTraces(L) == [Key -> Sourced(L) \cup {Unbound}]
SourcedStore     == {k \in [Sym -> Seq(Map)] :
                       \A m \in Sym : \A i \in DOMAIN k[m] : k[m][i] \in FactsOf(m)}
SourcedSnapshot(L) ==
  [registers : SourcedFile(L), stack : Seq(Sourced(L)),
   storage : SourcedTraces(L), memory : SourcedTraces(L),
   accumulator : Sourced(L), knowledge : SourcedStore]

MachineSourced(L) ==
  /\ registers \in SourcedFile(L) /\ stack \in Seq(Sourced(L))
  /\ storage \in SourcedTraces(L) /\ memory \in SourcedTraces(L)
  /\ accumulator \in Sourced(L)
FramesSourced(L) == \A i \in DOMAIN frames : frames[i].saved \in SourcedFile(L)
SuspsSourced(L)  == \A i \in DOMAIN susps :
                      susps[i].candidates \in Seq(Sourced(L)) /\ susps[i].pc > 1
StoresSourced(L) == knowledge \in SourcedStore /\ snaps \subseteq SourcedSnapshot(L)

(* What makes FactsAreLogged inductive: everything a program may still     *)
(* come to hold, in a suspension, a snapshot or the store, is sourced too. *)
Provenance(L) == /\ MachineSourced(L) /\ FramesSourced(L)
                 /\ SuspsSourced(L) /\ StoresSourced(L)

LEMMA FactsAreMaps == AllFacts \subseteq Map
<1> SUFFICES ASSUME NEW m \in Sym, NEW k \in Knowledge, NEW i \in DOMAIN k[m]
             PROVE  k[m][i] \in Map
  BY DEF AllFacts, FactsOf
<1>1. k[m] \in Seq(Map) BY KnowledgeAssumption
<1> QED BY <1>1

(* Which values are sourced, by their shape.                               *)
LEMMA ScalarsSourced ==
  ASSUME NEW L, NEW v \in Scalar PROVE v \in Sourced(L)
<1>1. ~IsMap(v) /\ ~IsArray(v) BY DEF Scalar, Null, IsMap, IsArray
<1>2. FactsIn(v) = {} BY <1>1 DEF FactsIn
<1> QED BY <1>2, MapsAreItems DEF Sourced, Item

LEMMA MapsSourced ==
  ASSUME NEW L, NEW v \in Map, v \notin AllFacts \ L PROVE v \in Sourced(L)
<1>1. IsMap(v) BY DEF Map, IsMap
<1>2. FactsIn(v) = {v} BY <1>1 DEF FactsIn
<1> QED BY <1>2, MapsAreItems DEF Sourced

LEMMA ArraysSourced ==
  ASSUME NEW L, NEW s \in Seq(Item), \A i \in DOMAIN s : s[i] \in Sourced(L)
  PROVE  ArrayV(s) \in Sourced(L)
<1>1. IsArray(ArrayV(s)) /\ ~IsMap(ArrayV(s)) /\ ArrayV(s)[2] = s
  BY DEF ArrayV, IsArray, IsMap
<1>2. FactsIn(ArrayV(s)) = {s[i] : i \in DOMAIN s} BY <1>1 DEF FactsIn
<1>3. ASSUME NEW i \in DOMAIN s, s[i] \in AllFacts PROVE s[i] \in L
  <2>1. IsMap(s[i]) BY <1>3, FactsAreMaps DEF Map, IsMap
  <2>2. s[i] \in FactsIn(s[i]) BY <2>1 DEF FactsIn
  <2> QED BY <1>3, <2>2 DEF Sourced
<1>4. ArrayV(s) \in Value BY ValueTags
<1> QED BY <1>2, <1>3, <1>4 DEF Sourced

LEMMA ItemsOfArray ==
  ASSUME NEW L, NEW v \in Sourced(L), IsArray(v)
  PROVE  /\ v[2] \in Seq(Item)
         /\ \A i \in DOMAIN v[2] : v[2][i] \in Sourced(L)
<1>1. v \in Value BY DEF Sourced
<1>2. v[2] \in Seq(Item) BY <1>1, ValueTags
<1>3. FactsIn(v) = {v[2][i] : i \in DOMAIN v[2]} BY DEF FactsIn, IsArray, IsMap
<1>4. ASSUME NEW i \in DOMAIN v[2] PROVE v[2][i] \in Sourced(L)
  <2>1. v[2][i] \in Item BY <1>2
  <2>2. CASE v[2][i] \in Scalar BY <2>2, ScalarsSourced
  <2>3. CASE v[2][i] \in Map
    <3>1. v[2][i] \in FactsIn(v) BY <1>3
    <3>2. v[2][i] \notin AllFacts \ L BY <3>1 DEF Sourced
    <3> QED BY <2>3, <3>2, MapsSourced
  <2> QED BY <2>1, <2>2, <2>3 DEF Item
<1> QED BY <1>2, <1>4

(* More facts logged, more values sourced.                                 *)
LEMMA SourcedGrows ==
  ASSUME NEW L, NEW M, L \subseteq M PROVE Sourced(L) \subseteq Sourced(M)
BY DEF Sourced

LEMMA NullSourced ==
  ASSUME NEW L
  PROVE  /\ Null \in Sourced(L)
         /\ \A b \in BOOLEAN : BoolV(b) \in Sourced(L)
         /\ \A n \in Integer : IntV(n) \in Sourced(L)
         /\ \A s \in Sym : StrV(s) \in Sourced(L)
<1>1. /\ Null \in Scalar
      /\ \A b \in BOOLEAN : BoolV(b) \in Scalar
      /\ \A n \in Integer : IntV(n) \in Scalar
      /\ \A s \in Sym : StrV(s) \in Scalar
  BY DEF Scalar, BoolV, IntV, StrV
<1> QED BY <1>1, ScalarsSourced

(* An element of a sourced container, and a sourced array with one element *)
(* replaced or added, is sourced.                                          *)
LEMMA ElementSourced ==
  ASSUME NEW L, NEW c \in Sourced(L), NEW key \in Value, KeyFits(c, key)
  PROVE  ElementAt(c, key) \in Sourced(L)
<1>1. CASE IsArray(c)
  <2>1. c[2] \in Seq(Item) /\ \A i \in DOMAIN c[2] : c[2][i] \in Sourced(L)
    BY <1>1, ItemsOfArray
  <2>2. AsI64(key) \in Int BY AsI64Int
  <2>3. CASE AsI64(key) \in 0 .. Len(c[2]) - 1
    <3>1. AsI64(key) + 1 \in DOMAIN c[2] BY <2>1, <2>2, <2>3
    <3>2. ElementAt(c, key) = c[2][AsI64(key) + 1]
      BY <1>1, <2>3 DEF ElementAt, IsArray, IsMap
    <3> QED BY <2>1, <3>1, <3>2
  <2>4. CASE AsI64(key) \notin 0 .. Len(c[2]) - 1
    <3>1. ElementAt(c, key) = Null BY <1>1, <2>4 DEF ElementAt, IsArray, IsMap
    <3> QED BY <3>1, NullSourced
  <2> QED BY <2>3, <2>4
<1>2. CASE IsMap(c)
  <2>1. c \in Map
    BY <1>2 DEF Sourced, Value, Item, Scalar, Map, Null, IsMap
  <2>2. key[2] \in Sym BY <1>2, ValueTags DEF KeyFits
  <2>3. c[2][key[2]] \in Scalar \cup {Unbound} BY <2>1, <2>2 DEF Map
  <2>4. ElementAt(c, key) \in {c[2][key[2]], Null}
        /\ (ElementAt(c, key) = c[2][key[2]] => c[2][key[2]] # Unbound \/ Null = c[2][key[2]])
    BY <1>2 DEF ElementAt, IsArray, IsMap
  <2> QED BY <2>3, <2>4, NullSourced, ScalarsSourced
<1>3. CASE ~IsArray(c) /\ ~IsMap(c)
  BY <1>3, NullSourced DEF ElementAt
<1> QED BY <1>1, <1>2, <1>3

LEMMA ArrayUpdateSourced ==
  ASSUME NEW L, NEW c \in Sourced(L), NEW key \in Value, NEW v \in Sourced(L),
         IsArray(c), CanSet(c, key), Updated(c, key, v) \in Value
  PROVE  Updated(c, key, v) \in Sourced(L)
<1> DEFINE n == AsI64(key)
           s == IF n = Len(c[2]) THEN Append(c[2], v) ELSE [c[2] EXCEPT ![n + 1] = v]
<1>1. c[2] \in Seq(Item) /\ \A i \in DOMAIN c[2] : c[2][i] \in Sourced(L)
  BY ItemsOfArray
<1>2. n \in 0 .. Len(c[2])
  <2>1. n \in Int BY AsI64Int
  <2> QED BY <1>1, <2>1 DEF CanSet, IsArray, IsMap, Null
<1>3. Updated(c, key, v) = ArrayV(s) BY DEF Updated, IsArray, IsMap, Null
<1> HIDE DEF n
<1>4. s \in Seq(Item)
  <2> HIDE DEF s
  <2>1. ArrayV(s) \in Value /\ IsArray(ArrayV(s)) /\ ArrayV(s)[2] = s
    BY <1>3 DEF ArrayV, IsArray
  <2> QED BY <2>1, ValueTags
<1>5. ASSUME NEW i \in DOMAIN s PROVE s[i] \in Sourced(L)
  <2>1. s[i] = v \/ (i \in DOMAIN c[2] /\ s[i] = c[2][i]) BY <1>1, <1>2
  <2> QED BY <1>1, <2>1
<1> HIDE DEF s
<1> QED BY <1>3, <1>4, <1>5, ArraysSourced

(* SET_INDEX leaves a sourced value unless it forges a fact.               *)
LEMMA MadeSourced ==
  ASSUME NEW L, NEW v \in Value, IsMap(v), v \notin AllFacts \ L
  PROVE  v \in Sourced(L)
<1>1. v \in Map BY DEF Value, Item, Scalar, Map, Null, IsMap
<1> QED BY <1>1, MapsSourced

LEMMA PartsGrow ==
  ASSUME NEW L, NEW M, L \subseteq M
  PROVE  /\ SourcedFile(L) \subseteq SourcedFile(M)
         /\ SourcedTraces(L) \subseteq SourcedTraces(M)
         /\ Seq(Sourced(L)) \subseteq Seq(Sourced(M))
         /\ SourcedSnapshot(L) \subseteq SourcedSnapshot(M)
<1>1. Sourced(L) \subseteq Sourced(M) BY SourcedGrows
<1>2. Seq(Sourced(L)) \subseteq Seq(Sourced(M))
  <2> SUFFICES ASSUME NEW s \in Seq(Sourced(L)) PROVE s \in Seq(Sourced(M)) OBVIOUS
  <2>1. \A i \in 1 .. Len(s) : s[i] \in Sourced(M) BY <1>1
  <2> QED BY <2>1
<1>3. /\ SourcedFile(L) \subseteq SourcedFile(M)
      /\ SourcedTraces(L) \subseteq SourcedTraces(M)
  BY <1>1 DEF SourcedFile, SourcedTraces
<1>4. SourcedSnapshot(L) \subseteq SourcedSnapshot(M)
  BY <1>1, <1>2, <1>3 DEF SourcedSnapshot
<1> QED BY <1>2, <1>3, <1>4

LEMMA ProvenanceGrows ==
  ASSUME NEW L, NEW M, L \subseteq M, Provenance(L) PROVE Provenance(M)
<1>1. MachineSourced(M)
  BY PartsGrow, SourcedGrows DEF Provenance, MachineSourced
<1>2. FramesSourced(M) BY PartsGrow DEF Provenance, FramesSourced
<1>3. SuspsSourced(M) BY PartsGrow DEF Provenance, SuspsSourced
<1>4. StoresSourced(M) BY PartsGrow DEF Provenance, StoresSourced
<1> QED BY <1>1, <1>2, <1>3, <1>4 DEF Provenance

(* What a program reads is sourced.                                        *)
LEMMA ReadSourced ==
  ASSUME NEW L, MachineSourced(L), NEW r, NEW d \in Sourced(L)
  PROVE  RegOr(r, d) \in Sourced(L)
BY DEF MachineSourced, SourcedFile, RegOr

LEMMA ResolvedSourced ==
  ASSUME NEW L, MachineSourced(L), NEW o \in Operand \cup {NoOperand},
         NEW d \in Sourced(L)
  PROVE  Resolved(o, d) \in Sourced(L)
<1>1. CASE o[1] = "imm" BY <1>1, NullSourced DEF Resolved, Operand, NoOperand
<1>2. CASE o[1] = "lit"
  <2>1. o[2] \in Sym BY <1>2 DEF Operand, NoOperand
  <2>2. Symbol(o) \in Sym BY <2>1, SymAssumption DEF Symbol
  <2> QED BY <1>2, <2>2, NullSourced DEF Resolved
<1>3. CASE o[1] = "reg" BY <1>3, ReadSourced DEF Resolved
<1>4. CASE o[1] \notin {"imm", "lit", "reg"} BY <1>4 DEF Resolved
<1> QED BY <1>1, <1>2, <1>3, <1>4

LEMMA OperandSourced ==
  ASSUME NEW L, TypeOK, MachineSourced(L), Fetched, NEW i
  PROVE  Num(Arg(i)) \in Sourced(L) /\ Rhs(Arg(i)) \in Sourced(L)
<1>1. IntV(0) \in Sourced(L) /\ Null \in Sourced(L)
  BY NullSourced, IntBoundAssumption DEF Integer
<1> QED BY <1>1, ArgOperand, ResolvedSourced DEF Num, Rhs

-----------------------------------------------------------------------------
(* The ways a step leaves the parts of the machine.                        *)

LEMMA FramesKept ==
  ASSUME NEW L, FramesSourced(L), DOMAIN frames' = DOMAIN frames,
         \A i \in DOMAIN frames : frames'[i].saved = frames[i].saved
  PROVE  FramesSourced(L)'
BY DEF FramesSourced

LEMMA AdvanceSourced ==
  ASSUME NEW L, TypeOK, Provenance(L), Fetched, UNCHANGED host, NEW pc, Goto(pc)
  PROVE  FramesSourced(L)' /\ SuspsSourced(L)'
<1>1. frames \in Seq(Frame) /\ frames # <<>> BY DEF TypeOK, ControlOK, Fetched
<1>2. frames' = [frames EXCEPT ![Len(frames)].pc = pc] BY DEF Goto
<1>3. DOMAIN frames' = DOMAIN frames BY <1>1, <1>2
<1>4. ASSUME NEW i \in DOMAIN frames PROVE frames'[i].saved = frames[i].saved
  <2>1. frames[i] \in Frame BY <1>1
  <2> QED BY <1>1, <1>2, <2>1 DEF Frame
<1>5. FramesSourced(L)' BY <1>3, <1>4, FramesKept DEF Provenance
<1>6. susps' = susps BY DEF Goto
<1> QED BY <1>5, <1>6 DEF Provenance, SuspsSourced

LEMMA StoresKept ==
  ASSUME NEW L, StoresSourced(L), UNCHANGED <<knowledge, snaps>>
  PROVE  StoresSourced(L)'
BY DEF StoresSourced

(* An opcode that moves the program counter and the machine.               *)
LEMMA StepSourced ==
  ASSUME NEW L, TypeOK, Provenance(L), Fetched, UNCHANGED host, Advance,
         MachineSourced(L)'
  PROVE  Provenance(L)'
<1>1. FramesSourced(L)' /\ SuspsSourced(L)' BY AdvanceSourced DEF Advance
<1>2. StoresSourced(L)' BY StoresKept DEF Provenance, host
<1> QED BY <1>1, <1>2 DEF Provenance

LEMMA WriteSourced ==
  ASSUME NEW L, TypeOK, Provenance(L), Fetched, UNCHANGED host, NEW r,
         NEW v \in Sourced(L), Write(r, v)
  PROVE  Provenance(L)'
<1>1. registers' \in SourcedFile(L)
  BY DEF Write, Provenance, MachineSourced, SourcedFile
<1>2. MachineSourced(L)' BY <1>1 DEF Write, Provenance, MachineSourced
<1> QED BY <1>2, StepSourced DEF Write

LEMMA UnwindSourced ==
  ASSUME NEW L, TypeOK, Provenance(L), frames # <<>>, UNCHANGED host,
         NEW res, Unwind(res)
  PROVE  MachineSourced(L)' /\ FramesSourced(L)' /\ StoresSourced(L)'
<1>1. ASSUME Len(frames) > 1 PROVE frames[2].saved \in SourcedFile(L)
  <2>1. 2 \in DOMAIN frames BY <1>1 DEF TypeOK, ControlOK
  <2> QED BY <2>1 DEF Provenance, FramesSourced
<1>2. registers' \in SourcedFile(L)
  BY <1>1 DEF Unwind, HostRegisters, Provenance, MachineSourced
<1>3. MachineSourced(L)' BY <1>2 DEF Unwind, Provenance, MachineSourced
<1>4. DOMAIN frames' = {} BY DEF Unwind
<1>5. FramesSourced(L)' BY <1>4 DEF FramesSourced
<1>6. StoresSourced(L)' BY StoresKept DEF Provenance, host
<1> QED BY <1>3, <1>5, <1>6

LEMMA LeaveSourced ==
  ASSUME NEW L, TypeOK, Provenance(L), frames # <<>>, UNCHANGED host,
         NEW kind, NEW v \in Sourced(L), Leave(kind, v),
         accumulator' \in Sourced(L)
  PROVE  Provenance(L)'
<1>1. StoresSourced(L)' BY StoresKept DEF Provenance, host
<1>2. SuspsSourced(L)' BY DEF Leave, Provenance, SuspsSourced
<1>3. CASE Len(frames) = 1
  <2>1. frames' = <<>> /\ UNCHANGED <<registers, stack, storage, memory>>
    BY <1>3 DEF Leave
  <2>2. MachineSourced(L)' BY <2>1 DEF Provenance, MachineSourced
  <2>3. DOMAIN frames' = {} BY <2>1
  <2>4. FramesSourced(L)' BY <2>3 DEF FramesSourced
  <2> QED BY <1>1, <1>2, <2>2, <2>4 DEF Provenance
<1>4. CASE Len(frames) # 1
  <2>1. /\ frames' = SubSeq(frames, 1, Len(frames) - 1)
        /\ registers' = Top.saved /\ stack' = Append(stack, v)
        /\ UNCHANGED <<storage, memory>>
    BY <1>4 DEF Leave
  <2>2. frames \in Seq(Frame) /\ Len(frames) \in DOMAIN frames
    BY DEF TypeOK, ControlOK
  <2>3. Top.saved \in SourcedFile(L) BY <2>2 DEF Top, Provenance, FramesSourced
  <2>4. MachineSourced(L)'
    BY <2>1, <2>3 DEF Provenance, MachineSourced
  <2>5. \A i \in DOMAIN frames' : i \in DOMAIN frames /\ frames'[i] = frames[i]
    BY <2>1, <2>2
  <2>6. FramesSourced(L)' BY <2>5 DEF Provenance, FramesSourced
  <2> QED BY <1>1, <1>2, <2>4, <2>6 DEF Provenance
<1> QED BY <1>3, <1>4

-----------------------------------------------------------------------------
(* The opcodes, one by one.                                                *)

LEMMA ReadersSourced ==
  ASSUME NEW L, TypeOK, Provenance(L), UNCHANGED host,
         Create \/ NewVar \/ Assign \/ Copy \/ Arithmetic \/ Length \/ Index \/ Recall
  PROVE  Provenance(L)'
<1>1. Fetched
  BY DEF Create, NewVar, Assign, Copy, Arithmetic, Length, Index, Recall, Runs
<1>2. MachineSourced(L) /\ Null \in Sourced(L) BY NullSourced DEF Provenance
<1>3. \A i : RegOr(Name(i), Null) \in Sourced(L) BY <1>2, ReadSourced
<1>4. \A i : Num(Arg(i)) \in Sourced(L) /\ Rhs(Arg(i)) \in Sourced(L)
  BY <1>1, <1>2, OperandSourced
<1>5. CASE NewVar BY <1>1, <1>3, <1>5, WriteSourced DEF NewVar
<1>6. CASE Assign BY <1>1, <1>4, <1>6, WriteSourced DEF Assign
<1>7. CASE Copy BY <1>1, <1>3, <1>7, WriteSourced DEF Copy
<1>8. CASE Arithmetic
  <2> DEFINE v == BinOp(Instr.op, RegOr(Name(1), IntV(0)), Num(Arg(2)))
  <2>1. Write(Name(1), v) /\ Instr.op \in {"ADD", "SUB", "MUL", "DIV"}
    BY <1>8 DEF Arithmetic, Runs
  <2>2. v[1] \in {"int", "float"} BY <2>1 DEF BinOp, IntV
  <2>3. v \in Value BY <2>1 DEF Write
  <2> HIDE DEF v
  <2>4. FactsIn(v) = {} BY <2>2 DEF FactsIn, IsMap, IsArray
  <2>5. v \in Sourced(L) BY <2>3, <2>4 DEF Sourced
  <2> QED BY <1>1, <2>1, <2>5, WriteSourced
<1>9. CASE Length
  <2> DEFINE v == IntV(LenOf(RegOr(Name(2), Null)))
  <2>1. Write(Name(1), v) BY <1>9 DEF Length
  <2>2. FactsIn(v) = {} BY DEF FactsIn, IsMap, IsArray, IntV
  <2>3. v \in Value BY <2>1 DEF Write
  <2> HIDE DEF v
  <2>4. v \in Sourced(L) BY <2>2, <2>3 DEF Sourced
  <2> QED BY <1>1, <2>1, <2>4, WriteSourced
<1>10. CASE Index
  <2> DEFINE c == RegOr(Name(2), Null)
             key == Num(Arg(3))
  <2>1. KeyFits(c, key) /\ Write(Name(1), ElementAt(c, key)) BY <1>10 DEF Index
  <2>2. key \in Value /\ c \in Sourced(L) BY <1>3, <1>4 DEF Sourced
  <2> HIDE DEF c, key
  <2>3. ElementAt(c, key) \in Sourced(L) BY <2>1, <2>2, ElementSourced
  <2> QED BY <1>1, <2>1, <2>3, WriteSourced
<1>11. CASE Recall
  <2> DEFINE key == IF Len(Instr.args) >= 2 THEN Name(2) ELSE Name(1)
             v   == IF Live = {} THEN Null ELSE memory[Nearest(key)]
  <2>1. Write(Name(1), v) BY <1>11 DEF Recall
  <2>2. v \in Sourced(L)
    <3>1. CASE Live = {} BY <1>2, <3>1
    <3>2. CASE Live # {}
      <4> HIDE DEF key
      <4>1. Nearest(key) \in Live BY <3>2 DEF Nearest
      <4>2. memory[Nearest(key)] \in Sourced(L)
        BY <1>2, <4>1 DEF Live, MachineSourced, SourcedTraces
      <4> QED BY <3>2, <4>2
    <3> QED BY <3>1, <3>2
  <2> HIDE DEF v
  <2> QED BY <1>1, <2>1, <2>2, WriteSourced
<1>12. CASE Create BY <1>1, <1>2, <1>12, WriteSourced DEF Create, Initial
<1> QED BY <1>5, <1>6, <1>7, <1>8, <1>9, <1>10, <1>11, <1>12

LEMMA MakeArraySourced ==
  ASSUME NEW L, TypeOK, Provenance(L), UNCHANGED host, MakeArray
  PROVE  Provenance(L)'
<1> DEFINE s == [i \in 1 .. Name(2) |-> Rhs(Arg(i + 2))]
<1>1. Fetched /\ Write(Name(1), ArrayV(s)) BY DEF MakeArray, Runs
<1>2. ArrayV(s) \in Value BY <1>1 DEF Write
<1>3. \A i \in DOMAIN s : s[i] \in Sourced(L)
  BY <1>1, OperandSourced DEF Provenance
<1> HIDE DEF s
<1>4. s \in Seq(Item)
  <2>1. IsArray(ArrayV(s)) /\ ArrayV(s)[2] = s BY DEF ArrayV, IsArray
  <2> QED BY <1>2, <2>1, ValueTags
<1>5. ArrayV(s) \in Sourced(L) BY <1>3, <1>4, ArraysSourced
<1> QED BY <1>1, <1>5, WriteSourced

(* The opcode that builds a map.                                           *)
LEMMA SetIndexSourced ==
  ASSUME NEW L, TypeOK, Provenance(L), UNCHANGED host, SetIndex,
         registers'[Name(1)] \notin AllFacts \ L
  PROVE  Provenance(L)'
<1>1. Fetched BY DEF SetIndex, Runs
<1>2. registers \in RegisterFile BY DEF TypeOK, MachineOK
<1>3. ASSUME NEW v \in Value, Write(Name(1), v), IsMap(v) PROVE Provenance(L)'
  <2>1. CASE Name(1) \in Reg
    <3>1. registers'[Name(1)] = v BY <1>2, <1>3, <2>1 DEF Write, RegisterFile
    <3>2. v \in Sourced(L) BY <1>3, <3>1, MadeSourced
    <3> QED BY <1>1, <1>3, <3>2, WriteSourced
  <2>2. CASE Name(1) \notin Reg
    <3>1. registers' = registers BY <1>2, <1>3, <2>2 DEF Write, RegisterFile
    <3>2. MachineSourced(L)' BY <1>3, <3>1 DEF Write, Provenance, MachineSourced
    <3> QED BY <1>1, <1>3, <3>2, StepSourced DEF Write
  <2> QED BY <2>1, <2>2
<1> DEFINE c   == RegOr(Name(1), Null)
           key == Num(Arg(2))
           v   == Rhs(Arg(3))
<1>4. /\ KeyFits(c, key) /\ CanSet(c, key)
      /\ Write(Name(1), Updated(c, key, v)) /\ Updated(c, key, v) \in Value
  BY DEF SetIndex, Write
<1>5. c \in Sourced(L) BY ReadSourced, NullSourced DEF Provenance
<1>6. key \in Sourced(L) /\ v \in Sourced(L) /\ key \in Value
  BY <1>1, OperandSourced DEF Provenance, Sourced
<1> HIDE DEF c, key, v
<1>7. CASE IsArray(c)
  BY <1>1, <1>4, <1>5, <1>6, <1>7, ArrayUpdateSourced, WriteSourced
<1>8. CASE IsMap(c)
  <2>1. IsMap(Updated(c, key, v)) BY <1>8 DEF Updated, IsMap, IsArray, MapV, Null
  <2> QED BY <1>3, <1>4, <2>1
<1>9. CASE c = Null /\ IsStr(key)
  <2>1. IsMap(Updated(c, key, v)) BY <1>9 DEF Updated, IsMap, IsArray, MapV, Null
  <2> QED BY <1>3, <1>4, <2>1
<1>10. CASE c = Null /\ ~IsStr(key)
  <2>1. Updated(c, key, v) = ArrayV(<<v>>)
    BY <1>10 DEF Updated, IsMap, IsArray, Null
  <2>2. <<v>> \in Seq(Item)
    <3>1. IsArray(ArrayV(<<v>>)) /\ ArrayV(<<v>>)[2] = <<v>>
      BY DEF ArrayV, IsArray
    <3> QED BY <1>4, <2>1, <3>1, ValueTags
  <2>3. \A i \in DOMAIN <<v>> : <<v>>[i] \in Sourced(L) BY <1>6
  <2>4. ArrayV(<<v>>) \in Sourced(L)
    <3> DEFINE one == <<v>>
    <3>1. one \in Seq(Item) /\ \A i \in DOMAIN one : one[i] \in Sourced(L)
      BY <2>2, <2>3
    <3> HIDE DEF one
    <3>2. ArrayV(one) \in Sourced(L) BY <3>1, ArraysSourced
    <3> QED BY <3>2 DEF one
  <2> QED BY <1>1, <1>4, <2>1, <2>4, WriteSourced
<1> QED BY <1>4, <1>7, <1>8, <1>9, <1>10 DEF CanSet

LEMMA TransferSourced ==
  ASSUME NEW L, TypeOK, Provenance(L), UNCHANGED host, Transfer \/ Destroy \/ Sum
  PROVE  Provenance(L)'
<1>1. CASE Transfer
  <2> DEFINE amount == AsI64(Num(Arg(3)))
             from   == AsI64(RegOr(Name(1), Null))
             to     == AsI64(RegOr(Name(2), Null))
  <2>1. Fetched /\ Advance /\ UNCHANGED <<stack, storage, memory, accumulator>>
    BY <1>1 DEF Transfer, Runs
  <2>2. amount \in Int /\ from \in Int /\ to \in Int
    BY <2>1, NumRhsValue, RegOrValue, AsI64Int, ValueTags DEF TypeOK
  <2>3. registers' = [registers EXCEPT ![Name(1)] = IntV(Wrap(from - amount)),
                                       ![Name(2)] = IntV(Wrap(to + amount))]
    BY <1>1 DEF Transfer
  <2> HIDE DEF amount, from, to
  <2>4. /\ IntV(Wrap(from - amount)) \in Sourced(L)
        /\ IntV(Wrap(to + amount)) \in Sourced(L)
    BY <2>2, WrapInteger, NullSourced
  <2>5. registers' \in SourcedFile(L)
    BY <2>3, <2>4 DEF Provenance, MachineSourced, SourcedFile
  <2>6. MachineSourced(L)' BY <2>1, <2>5 DEF Provenance, MachineSourced
  <2> QED BY <2>1, <2>6, StepSourced
<1>2. CASE Destroy
  <2>1. registers' \in SourcedFile(L)
    BY <1>2 DEF Destroy, Provenance, MachineSourced, SourcedFile
  <2>2. MachineSourced(L)' BY <1>2, <2>1 DEF Destroy, Provenance, MachineSourced
  <2> QED BY <1>2, <2>2, StepSourced DEF Destroy, Runs
<1>3. CASE Sum
  <2>1. accumulator' \in Sourced(L)
    BY <1>3, ReadSourced, NullSourced DEF Sum, Provenance
  <2>2. MachineSourced(L)' BY <1>3, <2>1 DEF Sum, Provenance, MachineSourced
  <2> QED BY <1>3, <2>2, StepSourced DEF Sum, Runs
<1> QED BY <1>1, <1>2, <1>3

LEMMA NativeSourced ==
  ASSUME HostIsFactFree, TypeOK, NEW L, NEW f, IsNative(f)
  PROVE  Native(f).value \in Sourced(L)
<1>1. prog.used \in Seq(DOMAIN Registry)
  BY ProgramsAssumption DEF TypeOK, HostOK
<1>2. NativeHits(f) \in SUBSET Nat /\ NativeHits(f) # {}
  BY <1>1 DEF IsNative, NativeHits
<1> DEFINE first == CHOOSE i \in NativeHits(f) : \A j \in NativeHits(f) : i <= j
<1>3. \E i \in NativeHits(f) : \A j \in NativeHits(f) : i <= j BY <1>2, LeastOf
<1>4. first \in NativeHits(f) BY <1>3
<1> HIDE DEF first
<1>5. prog.used[first] \in DOMAIN Registry /\ f \in DOMAIN Registry[prog.used[first]]
  BY <1>1, <1>4 DEF NativeHits
<1>6. FactsIn(Native(f).value) \cap AllFacts = {}
  BY <1>5 DEF HostIsFactFree, Native, first
<1> QED BY <1>6, NativeValue DEF Sourced

LEMMA StackSourced ==
  ASSUME HostIsFactFree, NEW L, TypeOK, Provenance(L), UNCHANGED host,
         Push \/ Pop \/ CallNative
  PROVE  Provenance(L)'
<1>1. stack \in Seq(Sourced(L)) BY DEF Provenance, MachineSourced
<1>2. CASE Push
  <2>1. RegOr(Name(1), Null) \in Sourced(L)
    BY ReadSourced, NullSourced DEF Provenance
  <2>2. MachineSourced(L)' BY <1>2, <2>1 DEF Push, Provenance, MachineSourced
  <2> QED BY <1>2, <2>2, StepSourced DEF Push, Runs
<1>3. CASE Pop
  <2>1. stack' \in Seq(Sourced(L)) BY <1>1, <1>3 DEF Pop
  <2> DEFINE v == IF stack = <<>> THEN Null ELSE stack[Len(stack)]
  <2>2. v \in Sourced(L) BY <1>1, NullSourced
  <2>3. registers' = [registers EXCEPT ![Name(1)] = v] BY <1>3 DEF Pop
  <2> HIDE DEF v
  <2>4. registers' \in SourcedFile(L)
    BY <2>2, <2>3 DEF Provenance, MachineSourced, SourcedFile
  <2>5. MachineSourced(L)'
    BY <1>3, <2>1, <2>4 DEF Pop, Provenance, MachineSourced
  <2> QED BY <1>3, <2>5, StepSourced DEF Pop, Runs
<1>4. CASE CallNative
  <2>1. Native(Name(1)).value \in Sourced(L)
    BY <1>4, NativeSourced DEF CallNative
  <2>2. MachineSourced(L)' BY <1>4, <2>1 DEF CallNative, Provenance, MachineSourced
  <2> QED BY <1>4, <2>2, StepSourced DEF CallNative, Calling, Runs
<1> QED BY <1>2, <1>3, <1>4

LEMMA StorageSourced ==
  ASSUME NEW L, TypeOK, Provenance(L), UNCHANGED host, Store \/ Remember \/ Forget
  PROVE  Provenance(L)'
<1>1. Fetched /\ Advance /\ UNCHANGED <<registers, stack, accumulator>>
  BY DEF Store, Remember, Forget, Remembered, Runs
<1>2. PICK v \in Sourced(L) \cup {Unbound} : \E key : Traced(key, v)
  <2>1. RegOr(Name(1), Null) \in Sourced(L)
    BY ReadSourced, NullSourced DEF Provenance
  <2>2. \/ Traced(Name(2), RegOr(Name(1), Null))
        \/ Traced(Name(1), RegOr(Name(1), Null))
        \/ Traced(Name(1), Unbound)
    BY DEF Store, Remember, Forget, Remembered
  <2> QED BY <2>1, <2>2
<1>3. storage' \in SourcedTraces(L) /\ memory' \in SourcedTraces(L)
  BY <1>2 DEF Traced, Provenance, MachineSourced, SourcedTraces
<1>4. MachineSourced(L)' BY <1>1, <1>3 DEF Provenance, MachineSourced
<1> QED BY <1>1, <1>4, StepSourced

LEMMA CompareSourced ==
  ASSUME NEW L, TypeOK, Provenance(L), UNCHANGED host, Compare
  PROVE  Provenance(L)'
<1> DEFINE kind == IF Len(Instr.args) < 3 THEN "eq" ELSE Name(3)
           va == Num(Arg(1))
           vb == IF kind = "truthy" THEN IntV(0) ELSE Num(Arg(2))
           a  == Side(va, vb)
           b  == Side(vb, va)
           holds == Holds(kind, a, b)
           word  == StrV(CmpWord(kind, a, b))
<1>1. Fetched BY DEF Compare, Runs
<1>2. va \in Value /\ vb \in Value
  BY <1>1, NumRhsValue, ValueTags, IntBoundAssumption DEF Integer
<1>3. holds \in BOOLEAN /\ word \in Sourced(L)
  <2> HIDE DEF va, vb, kind
  <2>1. a \in Int /\ b \in Int BY <1>2, SideInt
  <2> HIDE DEF a, b
  <2> QED BY <2>1, HoldsBoolean, CmpWordSym, NullSourced
<1>4. /\ registers' = [registers EXCEPT !["__cmp"] = word]
      /\ accumulator' = BoolV(holds)
      /\ frames' = [frames EXCEPT ![Len(frames)].pc = @ + 1,
                                  ![Len(frames)].flag = holds]
      /\ UNCHANGED <<stack, storage, memory, susps>>
  BY DEF Compare
<1> HIDE DEF holds, word
<1>5. MachineSourced(L)'
  <2>1. registers' \in SourcedFile(L)
    BY <1>3, <1>4 DEF Provenance, MachineSourced, SourcedFile
  <2>2. accumulator' \in Sourced(L) BY <1>3, <1>4, NullSourced
  <2> QED BY <1>4, <2>1, <2>2 DEF Provenance, MachineSourced
<1>6. FramesSourced(L)'
  <2>1. frames \in Seq(Frame) /\ frames # <<>>
    BY <1>1 DEF TypeOK, ControlOK, Fetched
  <2>2. DOMAIN frames' = DOMAIN frames BY <1>4, <2>1
  <2>3. ASSUME NEW i \in DOMAIN frames PROVE frames'[i].saved = frames[i].saved
    <3>1. frames[i] \in Frame BY <2>1
    <3> QED BY <1>4, <2>1, <3>1 DEF Frame
  <2> QED BY <2>2, <2>3, FramesKept DEF Provenance
<1>7. StoresSourced(L)' /\ SuspsSourced(L)'
  BY <1>4, StoresKept DEF Provenance, SuspsSourced, host
<1> QED BY <1>5, <1>6, <1>7 DEF Provenance

LEMMA PassingSourced ==
  ASSUME NEW L, TypeOK, Provenance(L), UNCHANGED host,
         PassOver \/ FallThrough \/ Jump
  PROVE  Provenance(L)'
<1>1. Fetched /\ UNCHANGED machine BY DEF PassOver, FallThrough, Jump, Runs
<1>2. MachineSourced(L)' BY <1>1 DEF Provenance, MachineSourced, machine
<1>3. CASE PassOver \/ FallThrough
  BY <1>1, <1>2, <1>3, StepSourced DEF PassOver, FallThrough
<1>4. CASE Jump
  <2>1. frames \in Seq(Frame) /\ frames # <<>>
    BY <1>1 DEF TypeOK, ControlOK, Fetched
  <2>2. PICK t : frames' = [frames EXCEPT ![Len(frames)].pc = t,
                                          ![Len(frames)].jumps = Spent(@)]
    BY <1>4 DEF Jump
  <2>3. DOMAIN frames' = DOMAIN frames BY <2>1, <2>2
  <2>4. ASSUME NEW i \in DOMAIN frames PROVE frames'[i].saved = frames[i].saved
    <3>1. frames[i] \in Frame BY <2>1
    <3> QED BY <2>1, <2>2, <3>1 DEF Frame
  <2>5. FramesSourced(L)' BY <2>3, <2>4, FramesKept DEF Provenance
  <2>6. StoresSourced(L)' /\ SuspsSourced(L)'
    BY <1>4, StoresKept DEF Jump, Provenance, SuspsSourced, host
  <2> QED BY <1>2, <2>5, <2>6 DEF Provenance
<1> QED BY <1>3, <1>4

(* The callee's fresh file holds sourced arguments; the caller's is kept.  *)
LEMMA CallFunctionSourced ==
  ASSUME NEW L, TypeOK, Provenance(L), UNCHANGED host, CallFunction
  PROVE  Provenance(L)'
<1> DEFINE caller == [Top EXCEPT !.pc = @ + 1]
           new    == NewFrame(Name(1), registers)
<1>1. /\ Fetched
      /\ frames' = Append([frames EXCEPT ![Len(frames)] = caller], new)
      /\ registers' = ArgRegisters(CallArgs)
      /\ UNCHANGED <<stack, storage, memory, accumulator, susps>>
  BY DEF CallFunction, Calling, Runs
<1>2. /\ frames \in Seq(Frame) /\ Len(frames) \in 1 .. Len(frames) /\ Top \in Frame
  BY <1>1, FetchedInstruction DEF TypeOK, ControlOK
<1>3. registers' \in SourcedFile(L)
  <2>1. \A i \in DOMAIN CallArgs : CallArgs[i] \in Sourced(L)
    BY <1>1, OperandSourced DEF CallArgs, Provenance
  <2> DEFINE args == CallArgs
  <2> HIDE DEF args
  <2>2. ASSUME NEW r \in Reg,
               \E i \in DOMAIN args : i \in DOMAIN ArgReg /\ ArgReg[i] = r
        PROVE  args[CHOOSE i \in DOMAIN args : i \in DOMAIN ArgReg /\ ArgReg[i] = r]
                 \in Sourced(L)
    BY <2>1, <2>2 DEF args
  <2>3. registers' = ArgRegisters(args) BY <1>1 DEF args
  <2> QED BY <2>2, <2>3 DEF ArgRegisters, SourcedFile
<1>4. MachineSourced(L)' BY <1>1, <1>3 DEF Provenance, MachineSourced
<1>5. FramesSourced(L)'
  <2>1. caller.saved = Top.saved /\ new.saved = registers
    BY <1>2 DEF Frame, NewFrame
  <2> HIDE DEF caller, new
  <2>2. ASSUME NEW i \in DOMAIN frames'
        PROVE  \/ i \in DOMAIN frames /\ frames'[i].saved = frames[i].saved
               \/ frames'[i].saved = registers
    BY <1>1, <1>2, <2>1 DEF Top
  <2>3. \A i \in DOMAIN frames : frames[i].saved \in SourcedFile(L)
    BY DEF Provenance, FramesSourced
  <2>4. registers \in SourcedFile(L) BY DEF Provenance, MachineSourced
  <2> QED BY <2>2, <2>3, <2>4 DEF FramesSourced
<1>6. StoresSourced(L)' /\ SuspsSourced(L)'
  BY <1>1, StoresKept DEF Provenance, SuspsSourced, host
<1> QED BY <1>4, <1>5, <1>6 DEF Provenance

LEMMA EndingsSourced ==
  ASSUME NEW L, TypeOK, Provenance(L), UNCHANGED host, Return \/ FallOffEnd
  PROVE  Provenance(L)'
<1>1. accumulator \in Sourced(L) /\ MachineSourced(L)
  BY DEF Provenance, MachineSourced
<1>2. CASE Return
  <2>1. Fetched /\ Leave("return", accumulator') BY <1>2 DEF Return, Runs
  <2>2. accumulator' \in Sourced(L)
    BY <1>1, <1>2, <2>1, OperandSourced DEF Return
  <2> QED BY <2>1, <2>2, LeaveSourced DEF Fetched
<1>3. CASE FallOffEnd BY <1>1, <1>3, LeaveSourced DEF FallOffEnd
<1> QED BY <1>2, <1>3

LEMMA AskSourced ==
  ASSUME NEW L, TypeOK, Provenance(L), UNCHANGED host, Ask
  PROVE  Provenance(L)'
<1> DEFINE given == [i \in 1 .. Len(Instr.args) - 1 |-> Num(Arg(i + 1))]
           s == [question |-> Symbol(Arg(1)), candidates |-> Candidates,
                 fn |-> Top.fn, pc |-> Top.pc + 1,
                 flag |-> Top.flag, jumps |-> Top.jumps]
<1>1. /\ Fetched /\ susps' = Append(susps, s)
      /\ \E res : Unwind(res)
  BY DEF Ask, Runs
<1>2. MachineSourced(L)' /\ FramesSourced(L)' /\ StoresSourced(L)'
  BY <1>1, UnwindSourced DEF Fetched
<1>3. Candidates \in Seq(Sourced(L))
  <2>1. Len(Instr.args) - 1 \in Int BY <1>1, FetchedInstruction
  <2>2. \A i \in 1 .. Len(Instr.args) - 1 : Num(Arg(i + 1)) \in Sourced(L)
    BY <1>1, OperandSourced DEF Provenance
  <2>3. given \in Seq(Sourced(L)) BY <2>1, <2>2
  <2>4. ASSUME Len(given) = 1, IsArray(given[1])
        PROVE  given[1][2] \in Seq(Sourced(L))
    <3> HIDE DEF given
    <3>1. given[1] \in Sourced(L) BY <2>3, <2>4
    <3>2. /\ given[1][2] \in Seq(Item)
          /\ \A i \in DOMAIN given[1][2] : given[1][2][i] \in Sourced(L)
      BY <2>4, <3>1, ItemsOfArray
    <3> DEFINE q == given[1][2]
    <3> HIDE DEF q
    <3>3. q \in Seq(Item) /\ \A i \in DOMAIN q : q[i] \in Sourced(L)
      BY <3>2 DEF q
    <3>4. q \in Seq(Sourced(L)) BY <3>3
    <3> QED BY <3>4 DEF q
  <2> QED BY <2>3, <2>4 DEF Candidates
<1>4. Top.pc \in Nat \ {0} BY <1>1, FetchedInstruction DEF Frame
<1>5. s.candidates \in Seq(Sourced(L)) /\ s.pc > 1 BY <1>3, <1>4
<1> HIDE DEF s
<1>6. susps \in Seq(Suspension) BY DEF TypeOK, ControlOK
<1>7. ASSUME NEW i \in DOMAIN susps'
      PROVE  susps'[i] = s \/ (i \in DOMAIN susps /\ susps'[i] = susps[i])
  BY <1>1, <1>6
<1>8. SuspsSourced(L)' BY <1>5, <1>7 DEF Provenance, SuspsSourced
<1> QED BY <1>2, <1>8 DEF Provenance

LEMMA FaultsSourced ==
  ASSUME NEW L, TypeOK, Provenance(L), UNCHANGED host,
         \/ OutOfOps \/ OutOfTime \/ DivideByZero \/ SetIndexFault
         \/ QueryRefused \/ JumpRefused \/ CallDepthRefused \/ CallUnresolved
         \/ CallOnceRefused \/ AskRefused \/ Unknown
  PROVE  Provenance(L)'
<1>1. /\ frames # <<>> /\ UNCHANGED susps
      /\ \E res : Unwind(res)
  BY DEF OutOfOps, OutOfTime, DivideByZero, SetIndexFault, QueryRefused,
         JumpRefused, CallDepthRefused, CallUnresolved, CallOnceRefused,
         AskRefused, Unknown, Calling, Runs, Fetched, Fault
<1>2. MachineSourced(L)' /\ FramesSourced(L)' /\ StoresSourced(L)'
  BY <1>1, UnwindSourced
<1> QED BY <1>1, <1>2 DEF Provenance, SuspsSourced

(* QUERY delivers facts of the mention it logs.                            *)
LEMMA QuerySourced ==
  ASSUME NEW L, TypeOK, Provenance(L), UNCHANGED host, Query,
         Mention \in Sym => FactsOf(Mention) \subseteq L
  PROVE  Provenance(L)'
<1> DEFINE s == Lookup(Mention)
<1>1. Fetched /\ Advance /\ stack' = Append(stack, ArrayV(s))
      /\ UNCHANGED <<registers, storage, memory, accumulator>>
  BY DEF Query, Runs
<1>2. knowledge \in SourcedStore BY DEF Provenance, StoresSourced
<1>3. s \in Seq(Map) BY <1>2 DEF Lookup, SourcedStore
<1>4. \A i \in DOMAIN s : s[i] \in L BY <1>2 DEF Lookup, SourcedStore
<1> HIDE DEF s
<1>5. \A i \in DOMAIN s : s[i] \in Sourced(L) BY <1>3, <1>4, MapsSourced
<1>6. ArrayV(s) \in Sourced(L) BY <1>3, <1>5, FactsAreItems, ArraysSourced
<1>7. MachineSourced(L)' BY <1>1, <1>6 DEF Provenance, MachineSourced
<1> QED BY <1>1, <1>7, StepSourced

LEMMA ExecuteSourced ==
  ASSUME HostIsFactFree, NEW L, TypeOK, Provenance(L), Execute,
         SetIndex => registers'[Name(1)] \notin AllFacts \ L,
         Query /\ Mention \in Sym => FactsOf(Mention) \subseteq L
  PROVE  Provenance(L)'
<1>1. Interpret /\ UNCHANGED host BY DEF Execute
<1>2. CASE Create \/ NewVar \/ Assign \/ Copy \/ Arithmetic \/ Length \/ Index \/ Recall
  BY <1>1, <1>2, ReadersSourced
<1>3. CASE MakeArray BY <1>1, <1>3, MakeArraySourced
<1>4. CASE SetIndex BY <1>1, <1>4, SetIndexSourced
<1>5. CASE Transfer \/ Destroy \/ Sum BY <1>1, <1>5, TransferSourced
<1>6. CASE Push \/ Pop \/ CallNative BY <1>1, <1>6, StackSourced
<1>7. CASE Store \/ Remember \/ Forget BY <1>1, <1>7, StorageSourced
<1>8. CASE Compare BY <1>1, <1>8, CompareSourced
<1>9. CASE Query BY <1>1, <1>9, QuerySourced
<1>10. CASE PassOver \/ FallThrough \/ Jump BY <1>1, <1>10, PassingSourced
<1>11. CASE CallFunction BY <1>1, <1>11, CallFunctionSourced
<1>12. CASE Return \/ FallOffEnd BY <1>1, <1>12, EndingsSourced
<1>13. CASE Ask BY <1>1, <1>13, AskSourced
<1>14. CASE \/ OutOfOps \/ OutOfTime \/ DivideByZero \/ SetIndexFault
            \/ QueryRefused \/ JumpRefused \/ CallDepthRefused \/ CallUnresolved
            \/ CallOnceRefused \/ AskRefused \/ Unknown
  BY <1>1, <1>14, FaultsSourced
<1> QED BY <1>1, <1>2, <1>3, <1>4, <1>5, <1>6, <1>7, <1>8, <1>9, <1>10, <1>11,
           <1>12, <1>13, <1>14 DEF Interpret

-----------------------------------------------------------------------------
(* The host's calls.                                                       *)

(* A call that hands the machine over as it is, or empties part of it.     *)
LEMMA IdleSourced ==
  ASSUME NEW L, Provenance(L), UNCHANGED <<machine, frames, susps, knowledge, snaps>>
  PROVE  Provenance(L)'
BY DEF Provenance, MachineSourced, FramesSourced, SuspsSourced, StoresSourced, machine

LEMMA EmptyFileSourced == ASSUME NEW L PROVE NoRegisters \in SourcedFile(L)
BY DEF NoRegisters, SourcedFile

LEMMA HostBoundSourced ==
  ASSUME NEW L, TypeOK, MachineSourced(L), NEW f, NEW args \in Seq(Value),
         \A i \in DOMAIN args : args[i] \in Sourced(L)
  PROVE  HostBound(f, args) \in SourcedFile(L)
<1>1. ASSUME NEW r \in Reg, Binds(f, args, r) # {}
      PROVE  args[CHOOSE i \in Binds(f, args, r) :
                    \A j \in Binds(f, args, r) : j <= i] \in Sourced(L)
  <2> DEFINE last == CHOOSE i \in Binds(f, args, r) :
                       \A j \in Binds(f, args, r) : j <= i
  <2>1. last \in DOMAIN args BY <1>1, LastBinding
  <2> HIDE DEF last
  <2>2. args[last] \in Sourced(L) BY <2>1
  <2> QED BY <2>2 DEF last
<1>2. \A r \in Reg : registers[r] \in Sourced(L) \cup {Unbound}
  BY DEF MachineSourced, SourcedFile
<1> QED BY <1>1, <1>2 DEF HostBound, SourcedFile

LEMMA CallSourced ==
  ASSUME HostIsFactFree, NEW L, TypeOK, Provenance(L), NEW f,
         NEW args \in HostArgs, Call(f, args)
  PROVE  Provenance(L)'
<1>1. /\ registers' = HostBound(f, args) /\ frames = <<>>
      /\ UNCHANGED <<knowledge, stack, storage, memory, accumulator, susps, snaps>>
  BY DEF Call, HostTurn
<1>2. args \in Seq(Value) BY HostAssumption
<1>3. \A i \in DOMAIN args : args[i] \in Sourced(L)
  BY <1>2 DEF HostIsFactFree, Sourced
<1>4. MachineSourced(L)'
  BY <1>1, <1>2, <1>3, HostBoundSourced DEF Provenance, MachineSourced
<1>5. frames' = <<>> \/ frames' = <<NewFrame(f, NoRegisters)>>
  BY <1>1 DEF Call
<1>6. \A i \in DOMAIN frames' : frames'[i].saved = NoRegisters
  BY <1>5 DEF NewFrame
<1>7. FramesSourced(L)' BY <1>6, EmptyFileSourced DEF FramesSourced
<1>8. SuspsSourced(L)' /\ StoresSourced(L)'
  BY <1>1 DEF Provenance, SuspsSourced, StoresSourced
<1> QED BY <1>4, <1>7, <1>8 DEF Provenance

LEMMA ResumeSourced ==
  ASSUME NEW L, TypeOK, Provenance(L), NEW i \in DOMAIN susps,
         NEW answer \in Sourced(L), Resume(susps[i], answer)
  PROVE  Provenance(L)'
<1>1. /\ stack' = Append(stack, answer)
      /\ \A j \in DOMAIN frames' : frames'[j].saved = NoRegisters
      /\ UNCHANGED <<knowledge, registers, storage, memory, accumulator, susps, snaps>>
  BY DEF Resume
<1>2. MachineSourced(L)' BY <1>1 DEF Provenance, MachineSourced
<1>3. FramesSourced(L)' BY <1>1, EmptyFileSourced DEF FramesSourced
<1>4. SuspsSourced(L)' /\ StoresSourced(L)'
  BY <1>1 DEF Provenance, SuspsSourced, StoresSourced
<1> QED BY <1>2, <1>3, <1>4 DEF Provenance

(* Resume takes an offered candidate; with no candidates it takes anything.*)
LEMMA OfferedSourced ==
  ASSUME NEW L, TypeOK, Provenance(L), OffersSomething, NEW i \in DOMAIN susps,
         NEW answer, Resume(susps[i], answer)
  PROVE  answer \in Offered(susps[i]) /\ answer \in Sourced(L)
<1>1. answer \in Offered(susps[i]) BY DEF Resume, Accepts, OffersSomething
<1>2. susps[i].candidates \in Seq(Sourced(L)) BY DEF Provenance, SuspsSourced
<1> QED BY <1>1, <1>2 DEF Offered

LEMMA SnapshotSourced ==
  ASSUME NEW L, TypeOK, Provenance(L), Snapshot PROVE Provenance(L)'
<1> DEFINE s == [registers |-> registers, stack |-> stack, storage |-> storage,
                 memory |-> memory, accumulator |-> accumulator,
                 knowledge |-> knowledge]
<1>1. snaps' = snaps \cup {s} /\ UNCHANGED <<knowledge, machine, frames, susps>>
  BY DEF Snapshot
<1>2. s \in SourcedSnapshot(L)
  BY DEF Provenance, MachineSourced, StoresSourced, SourcedSnapshot
<1> HIDE DEF s
<1>3. StoresSourced(L)' BY <1>1, <1>2 DEF Provenance, StoresSourced
<1> QED BY <1>1, <1>3
    DEF Provenance, MachineSourced, FramesSourced, SuspsSourced, machine

LEMMA RestoreSourced ==
  ASSUME NEW L, TypeOK, Provenance(L), NEW s \in snaps, Restore(s)
  PROVE  Provenance(L)'
<1>1. s \in SourcedSnapshot(L) BY DEF Provenance, StoresSourced
<1>2. Revived(s) /\ UNCHANGED <<frames, susps, snaps>> BY DEF Restore
<1>3. MachineSourced(L)' /\ knowledge' \in SourcedStore
  BY <1>1, <1>2 DEF Revived, MachineSourced, SourcedSnapshot
<1>4. FramesSourced(L)' /\ SuspsSourced(L)' /\ StoresSourced(L)'
  BY <1>2, <1>3 DEF Provenance, FramesSourced, SuspsSourced, StoresSourced
<1> QED BY <1>3, <1>4 DEF Provenance

LEMMA ResetSourced ==
  ASSUME NEW L, TypeOK, Provenance(L), Reset PROVE Provenance(L)'
<1>1. MachineSourced(L)'
  BY EmptyFileSourced, NullSourced DEF Reset, Provenance, MachineSourced
<1>2. UNCHANGED <<frames, susps, knowledge, snaps>> BY DEF Reset
<1> QED BY <1>1, <1>2 DEF Provenance, FramesSourced, SuspsSourced, StoresSourced

LEMMA ExcludeSourced ==
  ASSUME NEW L, TypeOK, Provenance(L), NEW m \in Sym, Exclude(m)
  PROVE  Provenance(L)'
<1>1. /\ knowledge' = WithoutFacts(knowledge, m)
      /\ UNCHANGED <<machine, frames, susps, snaps>>
  BY DEF Exclude
<1>2. knowledge \in SourcedStore BY DEF Provenance, StoresSourced
<1>3. knowledge' \in [Sym -> Seq(Map)]
  BY <1>1, <1>2 DEF WithoutFacts, SourcedStore
<1>4. ASSUME NEW n \in Sym, NEW i \in DOMAIN knowledge'[n]
      PROVE  knowledge'[n][i] \in FactsOf(n)
  BY <1>1, <1>2, <1>4 DEF WithoutFacts, SourcedStore
<1>5. knowledge' \in SourcedStore BY <1>3, <1>4 DEF SourcedStore
<1>6. StoresSourced(L)' BY <1>1, <1>5 DEF Provenance, StoresSourced
<1> QED BY <1>1, <1>6
    DEF Provenance, MachineSourced, FramesSourced, SuspsSourced, machine

LEMMA HostActsSourced ==
  ASSUME HostIsFactFree, NEW L, TypeOK, Provenance(L), OffersSomething, HostActs
  PROVE  Provenance(L)'
<1>1. ASSUME NEW f \in FnName, NEW args \in HostArgs, Call(f, args)
      PROVE  Provenance(L)'
  BY <1>1, CallSourced
<1>2. ASSUME NEW f, CallMissing(f) \/ EntryRefused(f) PROVE Provenance(L)'
  BY <1>2, IdleSourced DEF CallMissing, EntryRefused, Refuse
<1>3. ASSUME NEW i \in DOMAIN susps, NEW answer, Resume(susps[i], answer)
      PROVE  Provenance(L)'
  BY <1>3, OfferedSourced, ResumeSourced
<1>4. ASSUME NEW s, NEW answer, ResumeRefused(s, answer) PROVE Provenance(L)'
  BY <1>4, IdleSourced DEF ResumeRefused, Refuse
<1>5. Snapshot \/ Reset => Provenance(L)' BY SnapshotSourced, ResetSourced
<1>6. ASSUME NEW s \in snaps, Restore(s) PROVE Provenance(L)'
  BY <1>6, RestoreSourced
<1>7. ASSUME NEW m \in Sym, Exclude(m) PROVE Provenance(L)'
  BY <1>7, ExcludeSourced
<1> QED BY <1>1, <1>2, <1>3, <1>4, <1>5, <1>6, <1>7 DEF HostActs

-----------------------------------------------------------------------------
(* The log and the machine together.                                       *)

(* The log only grows, and QUERY logs the mention it looked up.            *)
LEMMA LogGrows ==
  ASSUME TypeOK, [Next]_vars
  PROVE  /\ Logged \subseteq Logged'
         /\ Query /\ Mention \in Sym => FactsOf(Mention) \subseteq Logged'
<1>1. queried \in Seq(STRING \X Nat) BY DEF TypeOK, ReportOK
<1>2. Query \/ UNCHANGED queried
  <2>1. CASE Execute BY <2>1, OpcodeEffects DEF Execute
  <2>2. CASE HostActs \/ DeadlinePasses \/ HostDone \/ UNCHANGED vars
    BY <2>2, HostEffects DEF DeadlinePasses, HostDone, vars, counters
  <2> QED BY <2>1, <2>2 DEF Next
<1>3. CASE Query
  <2> DEFINE entry == <<Mention, Len(Lookup(Mention))>>
  <2>1. queried' = Append(queried, entry) BY <1>3 DEF Query, Logs
  <2>2. entry[1] = Mention OBVIOUS
  <2> HIDE DEF entry
  <2>3. Asked' = Asked \cup {Mention} BY <1>1, <2>1, <2>2 DEF Asked
  <2> QED BY <2>3 DEF Logged
<1>4. CASE ~Query BY <1>2, <1>4 DEF Logged, Asked
<1> QED BY <1>3, <1>4

LEMMA ProvenanceStep ==
  ASSUME HostIsFactFree, TypeOK, Provenance(Logged), OffersSomething, ~Forges,
         [Next]_vars
  PROVE  Provenance(Logged)'
<1>1. PICK L : L = Logged' OBVIOUS
<1>2. Provenance(L) BY <1>1, LogGrows, ProvenanceGrows
<1>3. SetIndex => registers'[Name(1)] \notin AllFacts \ L
  BY <1>1, LogGrows DEF SetIndex, Runs, Forges
<1>4. Provenance(L)'
  <2>1. CASE Execute BY <1>1, <1>2, <1>3, <2>1, LogGrows, ExecuteSourced
  <2>2. CASE HostActs BY <1>2, <2>2, HostActsSourced
  <2>3. CASE DeadlinePasses \/ HostDone \/ UNCHANGED vars
    BY <1>2, <2>3, IdleSourced DEF DeadlinePasses, HostDone, vars, machine
  <2> QED BY <2>1, <2>2, <2>3 DEF Next
<1> QED BY <1>1, <1>4
    DEF Provenance, MachineSourced, FramesSourced, SuspsSourced, StoresSourced

LEMMA ProvenanceStarts == Init => Provenance(Logged)
<1> SUFFICES ASSUME Init PROVE Provenance(Logged) OBVIOUS
<1>1. MachineSourced(Logged)
  BY EmptyFileSourced, NullSourced DEF Init, MachineSourced, SourcedTraces
<1>2. DOMAIN frames = {} /\ DOMAIN susps = {} BY DEF Init
<1>3. FramesSourced(Logged) /\ SuspsSourced(Logged)
  BY <1>2 DEF FramesSourced, SuspsSourced
<1>4. knowledge \in SourcedStore
  BY KnowledgeAssumption DEF Init, SourcedStore, FactsOf
<1>5. StoresSourced(Logged) BY <1>4 DEF Init, StoresSourced
<1> QED BY <1>1, <1>3, <1>5 DEF Provenance

LEMMA HeldAreSourced ==
  ASSUME TypeOK, Provenance(Logged), NEW v \in Held
  PROVE  v \in Sourced(Logged) \cup {Unbound}
BY DEF Held, Provenance, MachineSourced, FramesSourced, SourcedFile, SourcedTraces

LEMMA SourcedIsLogged ==
  TypeOK /\ Provenance(Logged) => FactsAreLogged
<1> SUFFICES ASSUME TypeOK, Provenance(Logged), NEW m \in Sym,
                    NEW fact \in FactsOf(m), NEW v \in Held, fact \in FactsIn(v)
             PROVE  \E q \in Asked \cap Sym : fact \in FactsOf(q)
  BY DEF FactsAreLogged
<1>1. v # Unbound BY DEF FactsIn, IsMap, IsArray, Unbound
<1>2. v \in Sourced(Logged) BY <1>1, HeldAreSourced
<1>3. fact \in Logged BY <1>2 DEF Sourced, AllFacts
<1> QED BY <1>3 DEF Logged

(* Provenance, for every program, store, registry and budget.  A fact that *)
(* a program holds in a register, on the stack, in storage, in a caller's  *)
(* saved registers or as its result was delivered by a QUERY of the log,   *)
(* across snapshots, restores, exclusions and resumed questions, unless    *)
(* one of three things happens: the host passes the fact as an argument,   *)
(* a question without candidates lets the host answer with it, or the      *)
(* program writes that very map entry by entry.                            *)
THEOREM FactsLoggedUnlessForged ==
  ASSUME HostIsFactFree
  PROVE  Spec /\ []OffersSomething /\ [][~Forges]_vars => []FactsAreLogged
<1>1. TypeOK /\ Provenance(Logged) /\ OffersSomething /\ [Next]_vars /\ [~Forges]_vars
        => Provenance(Logged)'
  <2>1. CASE UNCHANGED vars
    <3>1. TypeOK /\ Provenance(Logged) => Provenance(Logged)'
      BY <2>1 DEF vars, Provenance, MachineSourced, FramesSourced, SuspsSourced,
                  StoresSourced, Logged, Asked
    <3> QED BY <3>1
  <2>2. CASE ~UNCHANGED vars BY <2>2, ProvenanceStep
  <2> QED BY <2>1, <2>2
<1>2. Init => Provenance(Logged) BY ProvenanceStarts
<1>3. TypeOK /\ Provenance(Logged) => FactsAreLogged BY SourcedIsLogged
<1> QED BY <1>1, <1>2, <1>3, TypeCorrect, PTL DEF Spec

(* The host supplies content of its own only where a question offered no   *)
(* candidates: as long as every question offers some, a suspended run      *)
(* continues with one of them.                                             *)
THEOREM AnswersComeFromTheOffer ==
  Spec /\ []OffersSomething => AnswerWasOffered
<1> DEFINE Chosen ==
      frames = <<>> /\ frames' # <<>> /\ frames'[1].pc # 1
        => \E i \in DOMAIN susps :
             ContinuesFrom(susps[i]) /\ stack'[Len(stack')] \in Offered(susps[i])
<1>1. OffersSomething /\ TypeOK /\ [Next]_vars => [Chosen]_vars
  <2> SUFFICES ASSUME OffersSomething, TypeOK, Next, frames = <<>>, frames' # <<>>,
                      frames'[1].pc # 1
               PROVE  \E i \in DOMAIN susps :
                        /\ ContinuesFrom(susps[i])
                        /\ stack'[Len(stack')] \in Offered(susps[i])
    OBVIOUS
  <2>1. HostActs
    BY OpcodesNeedFrames DEF Next, Execute, DeadlinePasses, HostDone, vars
  <2>2. ASSUME NEW f, NEW args, Call(f, args) PROVE frames' = <<>> \/ frames'[1].pc = 1
    BY <2>2 DEF Call, NewFrame
  <2>3. \E i \in DOMAIN susps, answer \in Answers : Resume(susps[i], answer)
    BY <2>1, <2>2 DEF HostActs, CallMissing, EntryRefused, ResumeRefused, Refuse,
                      Snapshot, Reset, Restore, Exclude
  <2>4. PICK i \in DOMAIN susps, answer \in Answers : Resume(susps[i], answer)
    BY <2>3
  <2>5. answer \in Offered(susps[i])
    BY <2>4 DEF Resume, Accepts, OffersSomething
  <2>6. stack \in Seq(Value) /\ answer \in Value
    BY HostAssumption DEF TypeOK, MachineOK
  <2>7. stack'[Len(stack')] = answer BY <2>4, <2>6 DEF Resume
  <2>8. ContinuesFrom(susps[i]) BY <2>4 DEF Resume, ContinuesFrom
  <2> QED BY <2>5, <2>7, <2>8
<1> QED BY <1>1, TypeCorrect, PTL DEF Spec, AnswerWasOffered

-----------------------------------------------------------------------------
(* The interpreter is a function: every action is the step CubeStep says.  *)

Stepped == Core' = CoreAfter /\ Report' = ReportAfter

LEMMA RunsFree ==
  ASSUME NEW O, Runs(O), Instr.op \notin {"QUERY", "CALL"}
  PROVE  Free /\ HeldBack = "none" /\ CoreAfter = Performed(Instr.op)
BY DEF Runs, Free, HeldBack, CoreAfter, After

(* What an opcode that neither jumps, asks, queries nor enters reports.    *)
Plain == UNCHANGED <<counters, entries, susps>> /\ ops' = Tick(ops)

LEMMA PlainReport ==
  ASSUME Fetched, Plain, Free => Instr.op # "QUERY" /\ ~Jumps /\ ~Enters /\ ~Asks
  PROVE  Report' = ReportAfter
BY DEF Plain, counters, entries, Report, ReportAfter

LEMMA FaultSteps ==
  ASSUME UNCHANGED host, NEW why, Fault(why)
  PROVE  Core' = Faulted(why)
BY DEF Fault, Unwind, host, Core, CoreWith, CoreNamed, entries, Faulted, Broken

LEMMA WriteSteps ==
  ASSUME UNCHANGED host, NEW r, NEW v, Write(r, v)
  PROVE  Core' = Wrote(r, v) /\ UNCHANGED <<counters, entries, susps>>
BY DEF Write, Advance, Goto, host, Core, CoreWith, CoreNamed, entries, Wrote, Passed

(* An opcode that goes on to the next and leaves the report alone but for  *)
(* the count of opcodes.                                                   *)
Quiet == {"CREATE", "NEWVAR", "ASSIGN", "COPY", "ADD", "SUB", "MUL", "DIV",
          "MAKE_ARRAY", "LEN", "INDEX", "SET_INDEX", "RECALL", "TRANSFER", "DESTROY",
          "SUM", "PUSH", "POP", "COMPARE", "STORE", "REMEMBER", "FORGET", "RETURN"}
            \cup Structural

LEMMA QuietOpcodes ==
  /\ \A op \in Quiet : op \notin {"QUERY", "CALL", "ASK", "JMP", "COND"}
BY DEF Quiet, Structural

LEMMA QuietSteps ==
  ASSUME NEW O, Runs(O), Instr.op \in Quiet,
         UNCHANGED <<counters, entries, susps>>, Core' = Performed(Instr.op)
  PROVE  Stepped
<1>1. Instr.op \notin {"QUERY", "CALL", "ASK", "JMP", "COND"} BY QuietOpcodes
<1>2. Core' = CoreAfter BY <1>1, RunsFree
<1>3. ~Jumps /\ ~Enters /\ ~Asks BY <1>1 DEF Jumps, Enters, Asks
<1>4. Fetched /\ Plain BY DEF Runs, Plain
<1> QED BY <1>1, <1>2, <1>3, <1>4, PlainReport DEF Stepped

LEMMA WriterSteps ==
  ASSUME UNCHANGED host, NEW O, Runs(O), Instr.op \in Quiet,
         NEW r, NEW v, Write(r, v), Performed(Instr.op) = Wrote(r, v)
  PROVE  Stepped
BY WriteSteps, QuietSteps

LEMMA WritersStep ==
  ASSUME UNCHANGED host,
         \/ Create \/ NewVar \/ Assign \/ Copy \/ Arithmetic \/ MakeArray
         \/ Length \/ Index \/ SetIndex \/ Recall
  PROVE  Stepped
<1>1. CASE Create
  <2>1. Runs({"CREATE"}) /\ Write(Name(1), Initial)
    BY <1>1 DEF Create
  <2>2. Instr.op = "CREATE" /\ "CREATE" \in Quiet BY <2>1 DEF Runs, Quiet
  <2>3. Performed("CREATE") = Wrote(Name(1), Initial)
    BY DEF Performed, Structural
  <2> QED BY <2>1, <2>2, <2>3, WriterSteps
<1>2. CASE NewVar
  <2>1. Runs({"NEWVAR"}) /\ Write(Name(1), RegOr(Name(1), Null))
    BY <1>2 DEF NewVar
  <2>2. Instr.op = "NEWVAR" /\ "NEWVAR" \in Quiet BY <2>1 DEF Runs, Quiet
  <2>3. Performed("NEWVAR") = Wrote(Name(1), RegOr(Name(1), Null))
    BY DEF Performed, Structural
  <2> QED BY <2>1, <2>2, <2>3, WriterSteps
<1>3. CASE Assign
  <2>1. Runs({"ASSIGN"}) /\ Write(Name(1), Rhs(Arg(2)))
    BY <1>3 DEF Assign
  <2>2. Instr.op = "ASSIGN" /\ "ASSIGN" \in Quiet BY <2>1 DEF Runs, Quiet
  <2>3. Performed("ASSIGN") = Wrote(Name(1), Rhs(Arg(2)))
    BY DEF Performed, Structural
  <2> QED BY <2>1, <2>2, <2>3, WriterSteps
<1>4. CASE Copy
  <2>1. Runs({"COPY"}) /\ Write(Name(2), RegOr(Name(1), Null))
    BY <1>4 DEF Copy
  <2>2. Instr.op = "COPY" /\ "COPY" \in Quiet BY <2>1 DEF Runs, Quiet
  <2>3. Performed("COPY") = Wrote(Name(2), RegOr(Name(1), Null))
    BY DEF Performed, Structural
  <2> QED BY <2>1, <2>2, <2>3, WriterSteps
<1>5. CASE MakeArray
  <2>1. /\ Runs({"MAKE_ARRAY"})
        /\ Write(Name(1), ArrayV([i \in 1 .. Name(2) |-> Rhs(Arg(i + 2))]))
    BY <1>5 DEF MakeArray
  <2>2. Instr.op = "MAKE_ARRAY" /\ "MAKE_ARRAY" \in Quiet BY <2>1 DEF Runs, Quiet
  <2>3. Performed("MAKE_ARRAY")
          = Wrote(Name(1), ArrayV([i \in 1 .. Name(2) |-> Rhs(Arg(i + 2))]))
    BY DEF Performed, Structural
  <2> QED BY <2>1, <2>2, <2>3, WriterSteps
<1>6. CASE Length
  <2>1. Runs({"LEN"}) /\ Write(Name(1), IntV(LenOf(RegOr(Name(2), Null))))
    BY <1>6 DEF Length
  <2>2. Instr.op = "LEN" /\ "LEN" \in Quiet BY <2>1 DEF Runs, Quiet
  <2>3. Performed("LEN") = Wrote(Name(1), IntV(LenOf(RegOr(Name(2), Null))))
    BY DEF Performed, Structural
  <2> QED BY <2>1, <2>2, <2>3, WriterSteps
<1>7. CASE Index
  <2>1. Runs({"INDEX"}) /\ Write(Name(1), ElementAt(RegOr(Name(2), Null), Num(Arg(3))))
    BY <1>7 DEF Index
  <2>2. Instr.op = "INDEX" /\ "INDEX" \in Quiet BY <2>1 DEF Runs, Quiet
  <2>3. Performed("INDEX") = Wrote(Name(1), ElementAt(RegOr(Name(2), Null), Num(Arg(3))))
    BY DEF Performed, Structural
  <2> QED BY <2>1, <2>2, <2>3, WriterSteps
<1>8. CASE Arithmetic
  <2>1. /\ Runs({"ADD", "SUB", "MUL", "DIV"})
        /\ Instr.op = "DIV" => AsI64(Num(Arg(2))) # 0
        /\ Write(Name(1), BinOp(Instr.op, RegOr(Name(1), IntV(0)), Num(Arg(2))))
    BY <1>8 DEF Arithmetic
  <2>2. Instr.op \in {"ADD", "SUB", "MUL", "DIV"} /\ Instr.op \in Quiet
    BY <2>1 DEF Runs, Quiet
  <2>3. Performed(Instr.op)
          = Wrote(Name(1), BinOp(Instr.op, RegOr(Name(1), IntV(0)), Num(Arg(2))))
    BY <2>1, <2>2 DEF Performed, Structural
  <2> QED BY <2>1, <2>2, <2>3, WriterSteps
<1>9. CASE SetIndex
  <2> DEFINE c == RegOr(Name(1), Null)
             w == Updated(c, Num(Arg(2)), Rhs(Arg(3)))
  <2>1. Runs({"SET_INDEX"}) /\ CanSet(c, Num(Arg(2))) /\ Write(Name(1), w)
    BY <1>9 DEF SetIndex
  <2>2. Instr.op = "SET_INDEX" /\ "SET_INDEX" \in Quiet BY <2>1 DEF Runs, Quiet
  <2>3. Performed("SET_INDEX") = Wrote(Name(1), w) BY <2>1 DEF Performed, Structural
  <2> QED BY <2>1, <2>2, <2>3, WriterSteps
<1>10. CASE Recall
  <2> DEFINE key == IF Len(Instr.args) >= 2 THEN Name(2) ELSE Name(1)
             w == IF Live = {} THEN Null ELSE memory[Nearest(key)]
  <2>1. Runs({"RECALL"}) /\ Write(Name(1), w) BY <1>10 DEF Recall
  <2>2. Instr.op = "RECALL" /\ "RECALL" \in Quiet BY <2>1 DEF Runs, Quiet
  <2>3. Performed("RECALL") = Wrote(Name(1), w) BY DEF Performed, Structural, Recalled
  <2> QED BY <2>1, <2>2, <2>3, WriterSteps
<1> QED BY <1>1, <1>2, <1>3, <1>4, <1>5, <1>6, <1>7, <1>8, <1>9, <1>10

LEMMA MoversStep ==
  ASSUME UNCHANGED host, \/ Transfer \/ Destroy \/ Sum \/ Push \/ Pop
  PROVE  Stepped
<1> USE DEF host, Advance, Goto, Core, CoreWith, CoreNamed, entries
<1>1. CASE Transfer
  <2>1. Runs({"TRANSFER"}) /\ UNCHANGED <<counters, entries, susps>>
    BY <1>1 DEF Transfer
  <2>2. Instr.op = "TRANSFER" /\ "TRANSFER" \in Quiet BY <2>1 DEF Runs, Quiet
  <2>3. Core' = Transferred BY <1>1 DEF Transfer, Transferred, Passed
  <2>4. Performed("TRANSFER") = Transferred BY DEF Performed, Structural
  <2> QED BY <2>1, <2>2, <2>3, <2>4, QuietSteps
<1>2. CASE Destroy
  <2>1. Runs({"DESTROY"}) /\ UNCHANGED <<counters, entries, susps>>
    BY <1>2 DEF Destroy
  <2>2. Instr.op = "DESTROY" /\ "DESTROY" \in Quiet BY <2>1 DEF Runs, Quiet
  <2>3. Core' = Wrote(Name(1), Unbound) BY <1>2 DEF Destroy, Wrote, Passed
  <2>4. Performed("DESTROY") = Wrote(Name(1), Unbound) BY DEF Performed, Structural
  <2> QED BY <2>1, <2>2, <2>3, <2>4, QuietSteps
<1>3. CASE Sum
  <2>1. Runs({"SUM"}) /\ UNCHANGED <<counters, entries, susps>> BY <1>3 DEF Sum
  <2>2. Instr.op = "SUM" /\ "SUM" \in Quiet BY <2>1 DEF Runs, Quiet
  <2>3. Core' = Stayed(RegOr(Name(1), Null)) BY <1>3 DEF Sum, Stayed, Passed
  <2>4. Performed("SUM") = Stayed(RegOr(Name(1), Null)) BY DEF Performed, Structural
  <2> QED BY <2>1, <2>2, <2>3, <2>4, QuietSteps
<1>4. CASE Push
  <2>1. Runs({"PUSH"}) /\ UNCHANGED <<counters, entries, susps>> BY <1>4 DEF Push
  <2>2. Instr.op = "PUSH" /\ "PUSH" \in Quiet BY <2>1 DEF Runs, Quiet
  <2>3. Core' = Pushed(RegOr(Name(1), Null)) BY <1>4 DEF Push, Pushed, Passed
  <2>4. Performed("PUSH") = Pushed(RegOr(Name(1), Null)) BY DEF Performed, Structural
  <2> QED BY <2>1, <2>2, <2>3, <2>4, QuietSteps
<1>5. CASE Pop
  <2>1. Runs({"POP"}) /\ UNCHANGED <<counters, entries, susps>> BY <1>5 DEF Pop
  <2>2. Instr.op = "POP" /\ "POP" \in Quiet BY <2>1 DEF Runs, Quiet
  <2>3. Core' = Popped BY <1>5 DEF Pop, Popped, Passed
  <2>4. Performed("POP") = Popped BY DEF Performed, Structural
  <2> QED BY <2>1, <2>2, <2>3, <2>4, QuietSteps
<1> QED BY <1>1, <1>2, <1>3, <1>4, <1>5

LEMMA CompareSteps == ASSUME UNCHANGED host, Compare PROVE Stepped
<1>1. Runs({"COMPARE"}) /\ UNCHANGED <<counters, entries, susps>> BY DEF Compare
<1>2. Instr.op = "COMPARE" /\ "COMPARE" \in Quiet BY <1>1 DEF Runs, Quiet
<1>3. Core' = Compared BY DEF Compare, Compared, host, Core, CoreWith, CoreNamed, entries
<1>4. Performed("COMPARE") = Compared BY DEF Performed, Structural
<1> QED BY <1>1, <1>2, <1>3, <1>4, QuietSteps

LEMMA KeepersStep ==
  ASSUME UNCHANGED host, Store \/ Remember \/ Forget
  PROVE  Stepped
<1> USE DEF host, Advance, Goto, Core, CoreWith, CoreNamed, entries, Remembered, Traced
<1>1. CASE Store
  <2> DEFINE v == RegOr(Name(1), Null)
  <2>1. Runs({"STORE"}) /\ UNCHANGED <<counters, entries, susps>> BY <1>1 DEF Store
  <2>2. Instr.op = "STORE" /\ "STORE" \in Quiet BY <2>1 DEF Runs, Quiet
  <2>3. Core' = Kept(Name(2), v) BY <1>1 DEF Store, Kept, Passed
  <2>4. Performed("STORE") = Kept(Name(2), v) BY DEF Performed, Structural
  <2> QED BY <2>1, <2>2, <2>3, <2>4, QuietSteps
<1>2. CASE Remember
  <2> DEFINE v == RegOr(Name(1), Null)
  <2>1. Runs({"REMEMBER"}) /\ UNCHANGED <<counters, entries, susps>>
    BY <1>2 DEF Remember
  <2>2. Instr.op = "REMEMBER" /\ "REMEMBER" \in Quiet BY <2>1 DEF Runs, Quiet
  <2>3. Core' = Kept(Name(1), v) BY <1>2 DEF Remember, Kept, Passed
  <2>4. Performed("REMEMBER") = Kept(Name(1), v) BY DEF Performed, Structural
  <2> QED BY <2>1, <2>2, <2>3, <2>4, QuietSteps
<1>3. CASE Forget
  <2>1. Runs({"FORGET"}) /\ UNCHANGED <<counters, entries, susps>> BY <1>3 DEF Forget
  <2>2. Instr.op = "FORGET" /\ "FORGET" \in Quiet BY <2>1 DEF Runs, Quiet
  <2>3. Core' = Kept(Name(1), Unbound) BY <1>3 DEF Forget, Kept, Passed
  <2>4. Performed("FORGET") = Kept(Name(1), Unbound) BY DEF Performed, Structural
  <2> QED BY <2>1, <2>2, <2>3, <2>4, QuietSteps
<1> QED BY <1>1, <1>2, <1>3

LEMMA PassOverSteps == ASSUME UNCHANGED host, PassOver PROVE Stepped
<1>1. Runs(Structural) /\ UNCHANGED <<counters, entries, susps>>
  BY DEF PassOver, Advance, Goto
<1>2. Instr.op \in Structural /\ Instr.op \in Quiet BY <1>1 DEF Runs, Quiet
<1>3. Core' = Stayed(accumulator)
  BY DEF PassOver, Advance, Goto, machine, host, Core, CoreWith, CoreNamed, entries, Stayed, Passed
<1>4. Performed(Instr.op) = Stayed(accumulator) BY <1>2 DEF Performed, Structural
<1> QED BY <1>1, <1>2, <1>3, <1>4, QuietSteps

LEMMA LeaveSteps ==
  ASSUME UNCHANGED host, NEW kind, Leave(kind, accumulator')
  PROVE  Core' = Left(kind, accumulator', accumulator')
BY DEF Leave, Left, host, Core, CoreWith, CoreNamed, entries

LEMMA ReturnSteps == ASSUME UNCHANGED host, Return PROVE Stepped
<1> DEFINE acc == IF Instr.args = <<>> THEN accumulator ELSE Num(Arg(1))
<1>1. /\ Runs({"RETURN"}) /\ UNCHANGED <<counters, entries, susps>>
      /\ accumulator' = acc /\ Leave("return", accumulator')
  BY DEF Return, Leave
<1>2. Instr.op = "RETURN" /\ "RETURN" \in Quiet BY <1>1 DEF Runs, Quiet
<1>3. Core' = Left("return", accumulator', accumulator') BY <1>1, LeaveSteps
<1>4. Performed("RETURN") = Left("return", acc, acc) BY DEF Performed, Structural
<1> HIDE DEF acc
<1> QED BY <1>1, <1>2, <1>3, <1>4, QuietSteps

LEMMA FallOffSteps == ASSUME TypeOK, UNCHANGED host, FallOffEnd PROVE Stepped
<1>1. frames \in Seq(Frame) /\ frames # <<>> /\ prog \in Programs
  BY DEF TypeOK, ControlOK, HostOK, FallOffEnd
<1>2. Top \in Frame BY <1>1 DEF Top
<1>3. Top.pc \in Nat /\ Len(Code) \in Nat
  <2>1. prog.fns[Top.fn] \in Function BY <1>1, <1>2, ProgramsAssumption DEF Frame
  <2> QED BY <1>2, <2>1 DEF Code, Function, Frame
<1>4. /\ ~Fetched /\ UNCHANGED <<counters, entries, susps, accumulator, ops>>
      /\ Leave("ok", accumulator')
  BY <1>3 DEF FallOffEnd, Leave, Fetched
<1>5. Core' = Left("ok", accumulator', accumulator') BY <1>4, LeaveSteps
<1>6. Core' = CoreAfter BY <1>4, <1>5 DEF CoreAfter, After, HeldBack
<1>7. Report' = ReportAfter
  BY <1>4 DEF Report, ReportAfter, Free, counters, entries
<1> QED BY <1>6, <1>7 DEF Stepped

(* Refusals.                                                               *)
LEMMA FaultedSteps ==
  ASSUME UNCHANGED host, Fetched, ops' = Tick(ops), NEW why, Fault(why),
         CoreAfter = Faulted(why),
         Free => Instr.op # "QUERY" /\ ~Jumps /\ ~Enters /\ ~Asks
  PROVE  Stepped
<1>1. Core' = CoreAfter BY FaultSteps
<1>2. Plain BY DEF Plain, Fault
<1> QED BY <1>1, <1>2, PlainReport DEF Stepped

LEMMA BudgetFaultsStep ==
  ASSUME UNCHANGED host, OutOfOps \/ OutOfTime \/ QueryRefused
  PROVE  Stepped
<1>1. CASE OutOfOps
  <2>1. Fetched /\ OverOps /\ ops' = Tick(ops) /\ Fault("op budget")
    BY <1>1 DEF OutOfOps
  <2>2. HeldBack = "op budget" BY <2>1 DEF HeldBack
  <2> QED BY <2>1, <2>2, FaultedSteps DEF CoreAfter, Withheld, Free
<1>2. CASE OutOfTime
  <2>1. /\ Fetched /\ ~OverOps /\ PastDeadline /\ ops' = Tick(ops)
        /\ Fault("wall budget")
    BY <1>2 DEF OutOfTime
  <2>2. HeldBack = "wall budget" BY <2>1 DEF HeldBack
  <2> QED BY <2>1, <2>2, FaultedSteps DEF CoreAfter, Withheld, Free
<1>3. CASE QueryRefused
  <2>1. /\ Fetched /\ ~OverOps /\ ~PastDeadline /\ ops' = Tick(ops)
        /\ Instr.op = "QUERY" /\ OverQueries /\ Fault("query budget")
    BY <1>3 DEF QueryRefused, Runs
  <2>2. HeldBack = "query budget" BY <2>1 DEF HeldBack
  <2> QED BY <2>1, <2>2, FaultedSteps DEF CoreAfter, Withheld, Free
<1> QED BY <1>1, <1>2, <1>3

(* The callee refuses, and by then its argN names are spelled.             *)
LEMMA OnceRefusalSteps == ASSUME UNCHANGED host, CallOnceRefused PROVE Stepped
<1>1. /\ Fetched /\ ~OverOps /\ ~PastDeadline /\ ops' = Tick(ops)
      /\ Instr.op = "CALL" /\ Name(1) \in spelled /\ ~TooDeep
      /\ CallsBytecode(Name(1)) /\ OnceSpent(Name(1))
  BY DEF CallOnceRefused, Calling, Runs
<1>2. HeldBack = "once" /\ ~Free BY <1>1 DEF HeldBack, Free
<1>3. /\ Unwind(Error("once")) /\ spelled' = NamedArgs
      /\ UNCHANGED <<counters, once, susps>>
  BY DEF CallOnceRefused, NamedArgs
<1>4. Core' = Withheld
  BY <1>2, <1>3 DEF Unwind, host, Core, CoreWith, CoreNamed, entries, Withheld
<1>5. Report' = ReportAfter
  BY <1>1, <1>2, <1>3 DEF counters, Report, ReportAfter
<1> QED BY <1>2, <1>4, <1>5 DEF CoreAfter, Stepped

LEMMA DataFaultsStep ==
  ASSUME UNCHANGED host, DivideByZero \/ SetIndexFault
  PROVE  Stepped
<1>1. CASE DivideByZero
  <2>1. Runs({"DIV"}) /\ AsI64(Num(Arg(2))) = 0 /\ Fault("division by zero")
    BY <1>1 DEF DivideByZero
  <2>2. Instr.op = "DIV" /\ "DIV" \in Quiet /\ Fetched /\ ops' = Tick(ops)
    BY <2>1 DEF Runs, Quiet
  <2>3. Performed("DIV") = Faulted("division by zero")
    BY <2>1 DEF Performed, Structural
  <2> QED BY <2>1, <2>2, <2>3, QuietSteps, FaultSteps DEF Fault
<1>2. CASE SetIndexFault
  <2>1. /\ Runs({"SET_INDEX"}) /\ ~CanSet(RegOr(Name(1), Null), Num(Arg(2)))
        /\ Fault("set_index")
    BY <1>2 DEF SetIndexFault
  <2>2. Instr.op = "SET_INDEX" /\ "SET_INDEX" \in Quiet BY <2>1 DEF Runs, Quiet
  <2>3. Performed("SET_INDEX") = Faulted("set_index")
    BY <2>1 DEF Performed, Structural
  <2> QED BY <2>1, <2>2, <2>3, QuietSteps, FaultSteps DEF Fault
<1> QED BY <1>1, <1>2

LEMMA UnknownSteps == ASSUME UNCHANGED host, Unknown PROVE Stepped
<1>1. /\ Fetched /\ ~OverOps /\ ~PastDeadline /\ ops' = Tick(ops)
      /\ Instr.op \notin Opcodes /\ Fault("unknown opcode")
  BY DEF Unknown
<1>2. Instr.op \notin {"QUERY", "CALL", "JMP", "COND", "ASK"} BY <1>1 DEF Opcodes
<1>3. HeldBack = "none" /\ CoreAfter = Performed(Instr.op)
  BY <1>1, <1>2 DEF HeldBack, CoreAfter, After
<1>4. Performed(Instr.op) = Faulted("unknown opcode") BY <1>1 DEF Performed, Opcodes
<1> QED BY <1>1, <1>2, <1>3, <1>4, FaultedSteps DEF Jumps, Enters, Asks

(* Control flow.                                                           *)
LEMMA TargetIs ==
  ASSUME TypeOK, Fetched, NEW t \in Targets(Code, Name(1))
  PROVE  t = Target
<1>1. DOMAIN Code \subseteq Nat BY FetchedInstruction
<1>2. \A u, w \in Targets(Code, Name(1)) : u = w BY <1>1 DEF Targets, Labels
<1> QED BY <1>2 DEF Target

LEMMA JumpsStep ==
  ASSUME TypeOK, UNCHANGED host, Jump \/ JumpRefused \/ FallThrough
  PROVE  Stepped
<1> DEFINE branch == IF Jumps THEN Jumped
                     ELSE IF Wants /\ Targets(Code, Name(1)) # {}
                          THEN Faulted("jump budget") ELSE Stayed(accumulator)
<1>1. /\ Fetched /\ ~OverOps /\ ~PastDeadline /\ ops' = Tick(ops)
      /\ Instr.op \in {"JMP", "COND"}
  BY DEF Jump, JumpRefused, FallThrough, Runs
<1>2. HeldBack = "none" /\ CoreAfter = Performed(Instr.op) /\ Free
  BY <1>1 DEF HeldBack, CoreAfter, After, Free
<1>3. Performed(Instr.op) = branch
  <2>1. \A op \in {"JMP", "COND"} : Performed(op) = branch
    BY DEF Performed, Structural
  <2> HIDE DEF branch
  <2> QED BY <1>1, <2>1
<1>4. ~Enters /\ ~Asks /\ Instr.op # "QUERY" BY <1>1 DEF Enters, Asks
<1>5. CASE Jump
  <2>1. PICK t \in Targets(Code, Name(1)) :
          frames' = [frames EXCEPT ![Len(frames)].pc = t,
                                   ![Len(frames)].jumps = Spent(@)]
    BY <1>5 DEF Jump
  <2>2. t = Target BY <1>1, <2>1, TargetIs
  <2>3. Jumps BY <1>1, <1>5, <2>1 DEF Jumps, Jump
  <2>4. Core' = Jumped
    BY <1>5, <2>1, <2>2 DEF Jump, machine, host, Core, CoreWith, CoreNamed, entries, Jumped
  <2>5. Report' = ReportAfter
    BY <1>1, <1>2, <1>4, <1>5, <2>3 DEF Jump, entries, Report, ReportAfter
  <2> QED BY <1>2, <1>3, <2>3, <2>4, <2>5 DEF Stepped
<1>6. CASE JumpRefused
  <2>1. Wants /\ Targets(Code, Name(1)) # {} /\ ~Jumps /\ Fault("jump budget")
    BY <1>6 DEF JumpRefused, Jumps
  <2> QED BY <1>1, <1>2, <1>3, <1>4, <2>1, FaultedSteps
<1>7. CASE FallThrough
  <2>1. (Wants => Targets(Code, Name(1)) = {}) /\ ~Jumps
    BY <1>7 DEF FallThrough, Jumps
  <2>2. Core' = Stayed(accumulator) /\ Plain
    BY <1>1, <1>7 DEF FallThrough, Advance, Goto, machine, host, Core, CoreWith, CoreNamed, entries,
                      Stayed, Passed, Plain
  <2> QED BY <1>1, <1>2, <1>3, <1>4, <2>1, <2>2, PlainReport DEF Stepped
<1> QED BY <1>5, <1>6, <1>7

LEMMA QuerySteps == ASSUME UNCHANGED host, Query PROVE Stepped
<1>1. /\ Fetched /\ ~OverOps /\ ~PastDeadline /\ ops' = Tick(ops)
      /\ Instr.op = "QUERY" /\ ~OverQueries
  BY DEF Query, Runs
<1>2. HeldBack = "none" /\ CoreAfter = Performed("QUERY") /\ Free
  BY <1>1 DEF HeldBack, CoreAfter, After, Free
<1>3. Performed("QUERY") = Pushed(ArrayV(Lookup(Mention)))
  BY DEF Performed, Structural
<1>4. Core' = Pushed(ArrayV(Lookup(Mention)))
  BY DEF Query, Advance, Goto, host, Core, CoreWith, CoreNamed, entries, Pushed, Passed
<1>5. ~Jumps /\ ~Enters /\ ~Asks BY <1>1 DEF Jumps, Enters, Asks
<1>6. Report' = ReportAfter
  BY <1>1, <1>2, <1>5 DEF Query, Logs, Advance, Goto, entries, Report, ReportAfter
<1> QED BY <1>2, <1>3, <1>4, <1>6 DEF Stepped

LEMMA CallsStep ==
  ASSUME UNCHANGED host,
         CallFunction \/ CallNative \/ CallDepthRefused \/ CallUnresolved
  PROVE  Stepped
<1> DEFINE called == IF Name(1) \notin spelled THEN Faulted("call unresolved")
                     ELSE IF TooDeep THEN Faulted("call depth")
                     ELSE IF Enters THEN Entered
                     ELSE IF IsNative(Name(1)) THEN Pushed(Native(Name(1)).value)
                     ELSE Faulted("call unresolved")
<1>1. /\ Fetched /\ ~OverOps /\ ~PastDeadline /\ ops' = Tick(ops)
      /\ Instr.op = "CALL"
  BY DEF CallFunction, CallNative, CallDepthRefused, CallUnresolved, Calling, Runs
<1>2. ~Jumps /\ ~Asks BY <1>1 DEF Jumps, Asks
<1>3. Performed("CALL") = called BY DEF Performed, Structural
<1> HIDE DEF called
<1>4. CASE CallFunction
  <2>1. /\ HeldBack = "none" /\ CoreAfter = called /\ Free
        /\ Enters /\ Name(1) \in spelled /\ ~TooDeep
    BY <1>1, <1>3, <1>4 DEF CallFunction, Calling, HeldBack, CoreAfter, After, Free, Enters
  <2>2. Core' = Entered
    BY <1>4 DEF CallFunction, host, Core, CoreWith, CoreNamed, entries, Entered, NamedArgs
  <2>3. Report' = ReportAfter
    BY <1>1, <1>2, <1>4, <2>1
    DEF CallFunction, CountEntry, counters, Report, ReportAfter
  <2> QED BY <2>1, <2>2, <2>3 DEF Stepped, called
<1>5. CASE CallNative
  <2>1. /\ HeldBack = "none" /\ CoreAfter = called
        /\ ~Enters /\ Name(1) \in spelled /\ ~TooDeep /\ IsNative(Name(1))
    BY <1>1, <1>3, <1>5
    DEF CallNative, Calling, HeldBack, CoreAfter, After, Enters, CallsBytecode
  <2>2. Core' = Pushed(Native(Name(1)).value)
    BY <1>5 DEF CallNative, Advance, Goto, host, Core, CoreWith, CoreNamed, entries, Pushed, Passed
  <2>3. Plain BY <1>1, <1>5 DEF CallNative, Advance, Goto, Plain
  <2> QED BY <1>1, <1>2, <2>1, <2>2, <2>3, PlainReport DEF Stepped, called
<1>6. CASE CallDepthRefused
  <2>1. /\ HeldBack = "none" /\ CoreAfter = called /\ ~Enters
        /\ Name(1) \in spelled /\ TooDeep /\ Fault("call depth")
    BY <1>1, <1>3, <1>6 DEF CallDepthRefused, Calling, HeldBack, CoreAfter, After, Enters
  <2> QED BY <1>1, <1>2, <2>1, FaultedSteps DEF called
<1>7. CASE CallUnresolved
  <2>1. /\ HeldBack = "none" /\ CoreAfter = called /\ ~Enters
        /\ Name(1) \notin spelled \/ (~TooDeep /\ ~IsNative(Name(1)))
        /\ Fault("call unresolved")
    BY <1>1, <1>3, <1>7
    DEF CallUnresolved, NoCallee, HeldBack, CoreAfter, After, Enters, CallsBytecode, Overrides
  <2> QED BY <1>1, <1>2, <2>1, FaultedSteps DEF called
<1> QED BY <1>4, <1>5, <1>6, <1>7

LEMMA AsksStep == ASSUME TypeOK, UNCHANGED host, Ask \/ AskRefused PROVE Stepped
<1>1. /\ Fetched /\ ~OverOps /\ ~PastDeadline /\ ops' = Tick(ops)
      /\ Instr.op = "ASK"
  BY DEF Ask, AskRefused, Runs
<1>2. HeldBack = "none" /\ CoreAfter = Performed("ASK") /\ Free
  BY <1>1 DEF HeldBack, CoreAfter, After, Free
<1>3. Performed("ASK") = IF Asks THEN Suspended ELSE Faulted("ask inside call")
  BY DEF Performed, Structural
<1>4. ~Jumps /\ ~Enters BY <1>1 DEF Jumps, Enters
<1>5. CASE Ask
  <2>1. Asks BY <1>1, <1>5 DEF Ask, Asks
  <2>2. Core' = Suspended
    BY <1>5 DEF Ask, Unwind, host, Core, CoreWith, CoreNamed, entries, Suspended, Broken
  <2>3. Report' = ReportAfter
    BY <1>1, <1>2, <1>4, <1>5, <2>1
    DEF Ask, counters, entries, Report, ReportAfter, Question
  <2> QED BY <1>2, <1>3, <2>1, <2>2, <2>3 DEF Stepped
<1>6. CASE AskRefused
  <2>1. Len(frames) \in Nat BY DEF TypeOK, ControlOK
  <2>2. Len(frames) > 1 BY <1>6 DEF AskRefused
  <2>3. Fault("ask inside call") BY <1>6 DEF AskRefused
  <2>4. Len(frames) # 1 BY <2>1, <2>2
  <2>5. ~Asks BY <2>4 DEF Asks
  <2> QED BY <1>1, <1>2, <1>3, <1>4, <2>3, <2>5, FaultedSteps
<1> QED BY <1>5, <1>6

LEMMA ExecuteSteps == ASSUME TypeOK, Execute PROVE Stepped
BY WritersStep, MoversStep, CompareSteps, KeepersStep, PassOverSteps, ReturnSteps,
   FallOffSteps, BudgetFaultsStep, OnceRefusalSteps, DataFaultsStep, UnknownSteps, JumpsStep,
   QuerySteps, CallsStep, AsksStep
DEF Execute, Interpret

(* Whatever the program, an opcode leaves what these functions say of the  *)
(* machine before it: nothing else of the VM, and no choice, plays a part. *)
THEOREM StepsAreFunctions == Spec => StepIsFunction
<1>1. TypeOK /\ [Next]_vars
        => [Execute => Core' = CoreAfter /\ Report' = ReportAfter]_vars
  BY ExecuteSteps DEF Stepped
<1> QED BY <1>1, TypeCorrect, PTL DEF Spec, StepIsFunction

-----------------------------------------------------------------------------
(* The same function at any state it is told.                              *)

(* The interpreter at a core, with the rest of the VM as a report has it   *)
(* and no deadline passed.                                                 *)
At(c, q) == INSTANCE CubeStep WITH
  prog <- c.prog, limits <- c.limits, knowledge <- c.knowledge,
  registers <- c.registers, stack <- c.stack, storage <- c.storage,
  memory <- c.memory, accumulator <- c.accumulator, frames <- c.frames,
  result <- c.result, ops <- q.ops, jumpsTaken <- q.jumpsTaken,
  queried <- q.queried, once <- q.once, susps <- q.susps,
  spelled <- c.spelled, late <- FALSE, snaps <- {}, hostCalls <- 0, runs <- <<>>

LEMMA CoreFields ==
  /\ Core.prog = prog /\ Core.limits = limits /\ Core.knowledge = knowledge
  /\ Core.registers = registers /\ Core.stack = stack /\ Core.storage = storage
  /\ Core.memory = memory /\ Core.accumulator = accumulator
  /\ Core.frames = frames /\ Core.result = result /\ Core.spelled = spelled
BY DEF Core, CoreWith, CoreNamed

(* Every operator the interpreter is built from means the same there.      *)
LEMMA SameConstants == ASSUME NEW c, NEW q PROVE
  /\ At(c, q)!Unbound = Unbound /\ At(c, q)!Null = Null /\ At(c, q)!NoOperand = NoOperand
  /\ At(c, q)!Structural = Structural /\ At(c, q)!NoRegisters = NoRegisters
  /\ At(c, q)!NoEntries = NoEntries /\ At(c, q)!Integer = Integer
BY DEF At!Unbound, At!Null, At!NoOperand, At!Structural, At!NoRegisters, At!NoEntries,
   Unbound, Null, NoOperand, Structural, NoRegisters, NoEntries, At!Integer, Integer

LEMMA SameTags == ASSUME NEW c, NEW q PROVE
  /\ \A b : At(c, q)!BoolV(b) = BoolV(b)
  /\ \A n : At(c, q)!IntV(n) = IntV(n)
  /\ \A s : At(c, q)!StrV(s) = StrV(s)
  /\ \A s : At(c, q)!ArrayV(s) = ArrayV(s)
  /\ \A f : At(c, q)!MapV(f) = MapV(f)
  /\ \A v : At(c, q)!IsStr(v) = IsStr(v)
  /\ \A v : At(c, q)!IsArray(v) = IsArray(v)
  /\ \A v : At(c, q)!IsMap(v) = IsMap(v)
BY DEF At!BoolV, At!IntV, At!StrV, At!ArrayV, At!MapV, At!IsStr, At!IsArray, At!IsMap,
   BoolV, IntV, StrV, ArrayV, MapV, IsStr, IsArray, IsMap

LEMMA SameArithmetic == ASSUME NEW c, NEW q PROVE
  /\ \A n : At(c, q)!Wrap(n) = Wrap(n)
  /\ \A v : At(c, q)!AsI64(v) = AsI64(v)
  /\ \A x, y : At(c, q)!Exact(x, y) = Exact(x, y)
BY DEF At!Wrap, At!AsI64, At!Exact, Wrap, AsI64, Exact, At!Integer, Integer

LEMMA SameBinOp == ASSUME NEW c, NEW q PROVE
  \A op, a, b : At(c, q)!BinOp(op, a, b) = BinOp(op, a, b)
BY DEF At!BinOp, At!AsI64, At!IntV, At!Wrap, At!Exact, At!Integer,
   BinOp, AsI64, IntV, Wrap, Exact, Integer

LEMMA SameComparison == ASSUME NEW c, NEW q PROVE
  /\ \A v, w : At(c, q)!Side(v, w) = Side(v, w)
  /\ \A k, a, b : At(c, q)!Holds(k, a, b) = Holds(k, a, b)
  /\ \A k, a, b : At(c, q)!CmpWord(k, a, b) = CmpWord(k, a, b)
<1>1. \A v, w : At(c, q)!Side(v, w) = Side(v, w)
  BY SameTags, SameArithmetic DEF At!Side, Side
<1>2. \A k, a, b : At(c, q)!Holds(k, a, b) = Holds(k, a, b)
  BY DEF At!Holds, Holds
<1>3. \A k, a, b : At(c, q)!CmpWord(k, a, b) = CmpWord(k, a, b)
  BY <1>2 DEF At!CmpWord, CmpWord
<1> QED BY <1>1, <1>2, <1>3

LEMMA SameContainers == ASSUME NEW c, NEW q PROVE
  /\ At(c, q)!Initial = Initial
  /\ \A v : At(c, q)!LenOf(v) = LenOf(v)
  /\ \A d, k : At(c, q)!ElementAt(d, k) = ElementAt(d, k)
  /\ \A d, k : At(c, q)!CanSet(d, k) = CanSet(d, k)
  /\ \A d, k, v : At(c, q)!Updated(d, k, v) = Updated(d, k, v)
<1>1. At(c, q)!Initial = Initial
  BY SameTags, SameConstants DEF At!Initial, Initial
<1>2. \A v : At(c, q)!LenOf(v) = LenOf(v)
  BY SameTags DEF At!LenOf, LenOf
<1>3. \A d, k : At(c, q)!ElementAt(d, k) = ElementAt(d, k)
  BY SameTags, SameConstants, SameArithmetic DEF At!ElementAt, ElementAt
<1>4. \A d, k : At(c, q)!CanSet(d, k) = CanSet(d, k)
  BY SameTags, SameConstants, SameArithmetic DEF At!CanSet, CanSet
<1>5. \A d, k, v : At(c, q)!Updated(d, k, v) = Updated(d, k, v)
  <2> SUFFICES ASSUME NEW d, NEW k, NEW v
               PROVE  At(c, q)!Updated(d, k, v) = Updated(d, k, v)
    OBVIOUS
  <2> DEFINE n == AsI64(k)
             put == [d[2] EXCEPT ![k[2]] = v]
             new == [NoEntries EXCEPT ![k[2]] = v]
             set == IF n = Len(d[2]) THEN Append(d[2], v)
                    ELSE [d[2] EXCEPT ![n + 1] = v]
  <2>1. /\ At(c, q)!IsMap(d) = IsMap(d) /\ At(c, q)!IsArray(d) = IsArray(d)
        /\ At(c, q)!IsStr(k) = IsStr(k) /\ At(c, q)!AsI64(k) = n
        /\ At(c, q)!NoEntries = NoEntries /\ At(c, q)!Null = Null
        /\ At(c, q)!MapV(put) = MapV(put) /\ At(c, q)!MapV(new) = MapV(new)
        /\ At(c, q)!ArrayV(set) = ArrayV(set) /\ At(c, q)!ArrayV(<<v>>) = ArrayV(<<v>>)
    BY SameTags, SameConstants, SameArithmetic
  <2>2. Updated(d, k, v)
          = CASE IsMap(d) -> MapV(put) [] IsArray(d) -> ArrayV(set)
              [] d = Null -> IF IsStr(k) THEN MapV(new) ELSE ArrayV(<<v>>)
    BY DEF Updated
  <2>3. At(c, q)!Updated(d, k, v)
          = CASE At(c, q)!IsMap(d) -> At(c, q)!MapV(put)
              [] At(c, q)!IsArray(d) -> At(c, q)!ArrayV(set)
              [] d = At(c, q)!Null -> IF At(c, q)!IsStr(k) THEN At(c, q)!MapV(new)
                                      ELSE At(c, q)!ArrayV(<<v>>)
    BY <2>1 DEF At!Updated
  <2> HIDE DEF put, new, set
  <2> QED BY <2>1, <2>2, <2>3
<1> QED BY <1>1, <1>2, <1>3, <1>4, <1>5

LEMMA SameInstruction == ASSUME NEW q PROVE
  /\ At(Core, q)!Top = Top /\ At(Core, q)!Code = Code /\ At(Core, q)!Instr = Instr
  /\ At(Core, q)!Fetched = Fetched
  /\ \A i : At(Core, q)!Arg(i) = Arg(i)
  /\ \A i : At(Core, q)!Name(i) = Name(i)
  /\ \A o : At(Core, q)!Symbol(o) = Symbol(o)
<1>1. At(Core, q)!Top = Top BY CoreFields DEF At!Top, Top
<1>2. At(Core, q)!Code = Code BY <1>1, CoreFields DEF At!Code, Code
<1>3. At(Core, q)!Instr = Instr BY <1>1, <1>2 DEF At!Instr, Instr
<1>4. At(Core, q)!Fetched = Fetched
  BY <1>1, <1>2, CoreFields DEF At!Fetched, Fetched
<1>5. \A i : At(Core, q)!Arg(i) = Arg(i)
  BY <1>3, SameConstants DEF At!Arg, Arg
<1>6. \A i : At(Core, q)!Name(i) = Name(i) BY <1>5 DEF At!Name, Name
<1>7. \A o : At(Core, q)!Symbol(o) = Symbol(o) BY CoreFields DEF At!Symbol, Symbol
<1> QED BY <1>1, <1>2, <1>3, <1>4, <1>5, <1>6, <1>7

LEMMA SameOperands == ASSUME NEW q PROVE
  /\ \A r, d : At(Core, q)!RegOr(r, d) = RegOr(r, d)
  /\ \A o : At(Core, q)!Num(o) = Num(o)
  /\ \A o : At(Core, q)!Rhs(o) = Rhs(o)
<1>1. \A r, d : At(Core, q)!RegOr(r, d) = RegOr(r, d)
  BY CoreFields, SameConstants DEF At!RegOr, RegOr
<1>2. \A o, d : At(Core, q)!Resolved(o, d) = Resolved(o, d)
  BY <1>1, SameTags, SameInstruction DEF At!Resolved, Resolved
<1>3. \A o : At(Core, q)!Num(o) = Num(o)
  BY <1>2, SameTags DEF At!Num, Num
<1>4. \A o : At(Core, q)!Rhs(o) = Rhs(o)
  BY <1>2, SameConstants DEF At!Rhs, Rhs
<1> QED BY <1>1, <1>3, <1>4

LEMMA SameMemory == ASSUME NEW q PROVE
  /\ At(Core, q)!Live = Live
  /\ \A k : At(Core, q)!Nearest(k) = Nearest(k)
  /\ At(Core, q)!Mention = Mention
  /\ \A m : At(Core, q)!Lookup(m) = Lookup(m)
<1>1. At(Core, q)!Live = Live BY CoreFields, SameConstants DEF At!Live, Live
<1>2. \A k : At(Core, q)!Nearest(k) = Nearest(k)
  BY <1>1 DEF At!Nearest, Nearest
<1>3. At(Core, q)!Mention = Mention
  BY CoreFields, SameInstruction, SameOperands, SameConstants, SameTags
  DEF At!Mention, Mention
<1>4. \A m : At(Core, q)!Lookup(m) = Lookup(m)
  BY CoreFields DEF At!Lookup, Lookup
<1> QED BY <1>1, <1>2, <1>3, <1>4

LEMMA SameCalls == ASSUME NEW q PROVE
  /\ \A f : At(Core, q)!IsOwn(f) = IsOwn(f)
  /\ \A f : At(Core, q)!Native(f) = Native(f)
  /\ \A f : At(Core, q)!IsNative(f) = IsNative(f)
  /\ \A f : At(Core, q)!CallsBytecode(f) = CallsBytecode(f)
  /\ At(Core, q)!TooDeep = TooDeep
  /\ At(Core, q)!CallArgs = CallArgs
  /\ At(Core, q)!NamedArgs = NamedArgs
  /\ \A args : At(Core, q)!ArgRegisters(args) = ArgRegisters(args)
  /\ \A f, regs : At(Core, q)!NewFrame(f, regs) = NewFrame(f, regs)
<1>1. \A f : At(Core, q)!IsOwn(f) = IsOwn(f) BY CoreFields DEF At!IsOwn, IsOwn
<1>2. \A f : At(Core, q)!Native(f) = Native(f)
  BY CoreFields DEF At!Native, At!NativeHits, Native, NativeHits
<1>3. \A f : At(Core, q)!IsNative(f) = IsNative(f)
  BY CoreFields DEF At!IsNative, At!NativeHits, IsNative, NativeHits
<1>4. \A f : At(Core, q)!Overrides(f) = Overrides(f)
  BY <1>1, <1>2, <1>3, CoreFields DEF At!Overrides, Overrides
<1>5. \A f : At(Core, q)!CallsBytecode(f) = CallsBytecode(f)
  BY <1>1, <1>3, <1>4 DEF At!CallsBytecode, CallsBytecode
<1>6. At(Core, q)!TooDeep = TooDeep BY CoreFields DEF At!TooDeep, TooDeep
<1>7. At(Core, q)!CallArgs = CallArgs
  BY SameInstruction, SameOperands DEF At!CallArgs, CallArgs
<1>8. \A args : At(Core, q)!ArgRegisters(args) = ArgRegisters(args)
  BY SameConstants DEF At!ArgRegisters, ArgRegisters
<1>9. \A f, regs : At(Core, q)!NewFrame(f, regs) = NewFrame(f, regs)
  BY CoreFields DEF At!NewFrame, NewFrame
<1>10. At(Core, q)!NamedArgs = NamedArgs
  BY <1>7, CoreFields DEF At!NamedArgs, At!ArgNames, NamedArgs, ArgNames
<1> QED BY <1>1, <1>2, <1>3, <1>5, <1>6, <1>7, <1>8, <1>9, <1>10

LEMMA SameJumps == ASSUME NEW q PROVE
  /\ At(Core, q)!Wants = Wants /\ At(Core, q)!JumpsLeft = JumpsLeft
  /\ \A code, l : At(Core, q)!Targets(code, l) = Targets(code, l)
<1>1. At(Core, q)!Wants = Wants BY SameInstruction DEF At!Wants, Wants
<1>2. At(Core, q)!JumpsLeft = JumpsLeft BY SameInstruction DEF At!JumpsLeft, JumpsLeft
<1>3. \A code, l : At(Core, q)!Targets(code, l) = Targets(code, l)
  BY DEF At!Targets, At!Labels, Targets, Labels
<1> QED BY <1>1, <1>2, <1>3

LEMMA SameCoreNamed == ASSUME NEW q PROVE
  \A nms, regs, stk, sto, mem, acc, fs, res :
     At(Core, q)!CoreNamed(nms, regs, stk, sto, mem, acc, fs, res)
       = CoreNamed(nms, regs, stk, sto, mem, acc, fs, res)
BY CoreFields DEF At!CoreNamed, CoreNamed

LEMMA SameCoreWith == ASSUME NEW q PROVE
  /\ \A regs, stk, sto, mem, acc, fs, res :
        At(Core, q)!CoreWith(regs, stk, sto, mem, acc, fs, res)
          = CoreWith(regs, stk, sto, mem, acc, fs, res)
  /\ At(Core, q)!Passed = Passed
<1>1. At(Core, q)!Passed = Passed
  BY CoreFields, SameInstruction DEF At!Passed, Passed
<1> QED BY <1>1, SameCoreNamed, CoreFields DEF At!CoreWith, CoreWith

LEMMA SameEffects == ASSUME NEW q PROVE
  /\ \A acc : At(Core, q)!Stayed(acc) = Stayed(acc)
  /\ \A why : At(Core, q)!Faulted(why) = Faulted(why)
  /\ \A r, v : At(Core, q)!Wrote(r, v) = Wrote(r, v)
  /\ \A v : At(Core, q)!Pushed(v) = Pushed(v)
  /\ \A k, v : At(Core, q)!Kept(k, v) = Kept(k, v)
  /\ \A kind, v, acc : At(Core, q)!Left(kind, v, acc) = Left(kind, v, acc)
  /\ At(Core, q)!Suspended = Suspended
  /\ At(Core, q)!HostRegisters = HostRegisters
  /\ At(Core, q)!Error("once") = Error("once")
<1>1. \A acc : At(Core, q)!Stayed(acc) = Stayed(acc)
  BY SameCoreWith, CoreFields DEF At!Stayed, Stayed
<1>2. \A r, v : At(Core, q)!Wrote(r, v) = Wrote(r, v)
  BY SameCoreWith, CoreFields DEF At!Wrote, Wrote
<1>3. \A v : At(Core, q)!Pushed(v) = Pushed(v)
  BY SameCoreWith, CoreFields DEF At!Pushed, Pushed
<1>4. \A k, v : At(Core, q)!Kept(k, v) = Kept(k, v)
  BY SameCoreWith, CoreFields DEF At!Kept, Kept
<1>5. At(Core, q)!HostRegisters = HostRegisters
  BY CoreFields DEF At!HostRegisters, HostRegisters
<1>6. \A res : At(Core, q)!Broken(res) = Broken(res)
  BY SameCoreWith, <1>5, CoreFields DEF At!Broken, Broken
<1>7. \A why : At(Core, q)!Faulted(why) = Faulted(why)
  BY <1>6, SameConstants DEF At!Faulted, Faulted, At!Error, Error
<1>8. \A kind, v : At(Core, q)!Done(kind, v) = Done(kind, v) BY DEF At!Done, Done
<1>9. \A kind, v, acc : At(Core, q)!Left(kind, v, acc) = Left(kind, v, acc)
  BY SameCoreWith, <1>8, CoreFields, SameInstruction DEF At!Left, Left
<1>10. At(Core, q)!Suspended = Suspended
  BY <1>6, SameConstants DEF At!Suspended, Suspended
<1>11. At(Core, q)!Error("once") = Error("once")
  BY SameConstants DEF At!Error, Error
<1> QED BY <1>1, <1>2, <1>3, <1>4, <1>5, <1>7, <1>9, <1>10, <1>11

LEMMA SameTransfer == ASSUME NEW q PROVE At(Core, q)!Transferred = Transferred
<1> DEFINE moved(f, v, t, w) == [registers EXCEPT ![f] = v, ![t] = w]
           amount == AsI64(Num(Arg(3)))
           from   == AsI64(RegOr(Name(1), Null))
           to     == AsI64(RegOr(Name(2), Null))
           less   == At(Core, q)!AsI64(At(Core, q)!Num(At(Core, q)!Arg(3)))
           val(i) == At(Core, q)!RegOr(At(Core, q)!Name(i), At(Core, q)!Null)
           left   == At(Core, q)!AsI64(val(1))
           right  == At(Core, q)!AsI64(val(2))
           drawn  == At(Core, q)!IntV(At(Core, q)!Wrap(left - less))
           paid   == At(Core, q)!IntV(At(Core, q)!Wrap(right + less))
<1>1. less = amount /\ left = from /\ right = to
  BY SameInstruction, SameOperands, SameConstants, SameArithmetic
<1>2. Transferred
        = CoreWith(moved(Name(1), IntV(Wrap(from - amount)),
                         Name(2), IntV(Wrap(to + amount))),
                   stack, storage, memory, accumulator, Passed, result)
  BY DEF Transferred
<1>3. At(Core, q)!Transferred
        = At(Core, q)!CoreWith(moved(At(Core, q)!Name(1), drawn, At(Core, q)!Name(2), paid),
                       stack, storage, memory, accumulator, At(Core, q)!Passed, result)
  BY CoreFields DEF At!Transferred
<1> HIDE DEF moved, amount, from, to, less, left, right
<1>4. drawn = IntV(Wrap(from - amount)) /\ paid = IntV(Wrap(to + amount))
  BY <1>1, SameTags, SameArithmetic
<1> QED BY SameCoreWith, <1>2, <1>3, <1>4, SameInstruction

LEMMA SameStack == ASSUME NEW q PROVE
  /\ At(Core, q)!Popped = Popped
  /\ At(Core, q)!Recalled = Recalled
<1>1. At(Core, q)!Popped = Popped
  <2> DEFINE top  == IF stack = <<>> THEN Null ELSE stack[Len(stack)]
             rest == IF stack = <<>> THEN <<>> ELSE SubSeq(stack, 1, Len(stack) - 1)
             regs == [registers EXCEPT ![Name(1)] = top]
  <2>1. Popped = CoreWith(regs, rest, storage, memory, accumulator, Passed, result)
    BY DEF Popped
  <2>2. At(Core, q)!Popped
          = At(Core, q)!CoreWith(regs, rest, storage, memory, accumulator,
                                 At(Core, q)!Passed, result)
    BY CoreFields, SameInstruction, SameConstants DEF At!Popped
  <2> HIDE DEF regs, rest
  <2> QED BY SameCoreWith, <2>1, <2>2
<1>2. At(Core, q)!Recalled = Recalled
  <2>1. /\ At(Core, q)!Instr = Instr /\ \A i : At(Core, q)!Name(i) = Name(i)
        /\ At(Core, q)!Live = Live /\ \A k : At(Core, q)!Nearest(k) = Nearest(k)
        /\ At(Core, q)!Null = Null
        /\ \A r, v : At(Core, q)!Wrote(r, v) = Wrote(r, v)
    BY SameInstruction, SameConstants, SameMemory, SameEffects
  <2> QED BY <2>1, CoreFields DEF At!Recalled, Recalled
<1> QED BY <1>1, <1>2

LEMMA SameCompare == ASSUME NEW q PROVE At(Core, q)!Compared = Compared
<1> DEFINE kind == IF Len(Instr.args) < 3 THEN "eq" ELSE Name(3)
           va == Num(Arg(1))
           vb == IF kind = "truthy" THEN IntV(0) ELSE Num(Arg(2))
           a  == Side(va, vb)
           b  == Side(vb, va)
           sort == IF Len(At(Core, q)!Instr.args) < 3 THEN "eq" ELSE At(Core, q)!Name(3)
           wa == At(Core, q)!Num(At(Core, q)!Arg(1))
           wb == IF sort = "truthy" THEN At(Core, q)!IntV(0)
                 ELSE At(Core, q)!Num(At(Core, q)!Arg(2))
           x  == At(Core, q)!Side(wa, wb)
           y  == At(Core, q)!Side(wb, wa)
           n  == Len(frames)
           word(w) == [registers EXCEPT !["__cmp"] = w]
           moved(h) == [frames EXCEPT ![n].pc = @ + 1, ![n].flag = h]
<1>1. sort = kind /\ wa = va /\ wb = vb
  BY SameInstruction, SameOperands, SameTags
<1>2. x = a /\ y = b
  <2> HIDE DEF sort, kind, wa, va, wb, vb
  <2> QED BY <1>1, SameComparison
<1>3. Compared = CoreWith(word(StrV(CmpWord(kind, a, b))), stack, storage, memory,
                          BoolV(Holds(kind, a, b)), moved(Holds(kind, a, b)), result)
  BY DEF Compared
<1>4. At(Core, q)!Compared
        = At(Core, q)!CoreWith(word(At(Core, q)!StrV(At(Core, q)!CmpWord(sort, x, y))),
                            stack, storage, memory,
                            At(Core, q)!BoolV(At(Core, q)!Holds(sort, x, y)),
                            moved(At(Core, q)!Holds(sort, x, y)), result)
  BY CoreFields DEF At!Compared
<1> HIDE DEF word, moved, sort, kind, x, a, y, b
<1>5. /\ At(Core, q)!StrV(At(Core, q)!CmpWord(sort, x, y)) = StrV(CmpWord(kind, a, b))
      /\ At(Core, q)!Holds(sort, x, y) = Holds(kind, a, b)
      /\ At(Core, q)!BoolV(At(Core, q)!Holds(sort, x, y)) = BoolV(Holds(kind, a, b))
  BY <1>1, <1>2, SameTags, SameComparison
<1> QED BY SameCoreWith, <1>3, <1>4, <1>5

LEMMA SameControl == ASSUME NEW q PROVE
  /\ At(Core, q)!Jumps = Jumps /\ At(Core, q)!Jumped = Jumped
  /\ At(Core, q)!Enters = Enters /\ At(Core, q)!Entered = Entered
  /\ At(Core, q)!Asks = Asks
<1>1. At(Core, q)!Jumps = Jumps BY SameInstruction, SameJumps DEF At!Jumps, Jumps
<1>2. At(Core, q)!Target = Target BY SameInstruction, SameJumps DEF At!Target, Target
<1>3. \A n : At(Core, q)!Spent(n) = Spent(n) BY DEF At!Spent, Spent
<1>4. At(Core, q)!Jumped = Jumped
  <2> DEFINE n == Len(frames)
             moved(t, j) == [frames EXCEPT ![n].pc = t, ![n].jumps = j]
  <2>1. Jumped = CoreWith(registers, stack, storage, memory, accumulator,
                          moved(Target, Spent(frames[n].jumps)), result)
    BY DEF Jumped
  <2>2. At(Core, q)!Jumped
          = At(Core, q)!CoreWith(registers, stack, storage, memory, accumulator,
                      moved(At(Core, q)!Target, At(Core, q)!Spent(frames[n].jumps)), result)
    BY CoreFields DEF At!Jumped
  <2> HIDE DEF moved
  <2> QED BY SameCoreWith, <1>2, <1>3, <2>1, <2>2
<1>5. At(Core, q)!Enters = Enters
  <2>1. /\ At(Core, q)!Instr = Instr /\ At(Core, q)!Name(1) = Name(1)
        /\ At(Core, q)!TooDeep = TooDeep /\ Core.spelled = spelled
        /\ At(Core, q)!CallsBytecode(Name(1)) = CallsBytecode(Name(1))
    BY SameInstruction, SameCalls, CoreFields
  <2> QED BY <2>1 DEF At!Enters, Enters
<1>6. At(Core, q)!Entered = Entered
  <2>1. /\ At(Core, q)!Top = Top /\ \A i : At(Core, q)!Name(i) = Name(i)
        /\ At(Core, q)!CallArgs = CallArgs /\ At(Core, q)!NamedArgs = NamedArgs
        /\ \A args : At(Core, q)!ArgRegisters(args) = ArgRegisters(args)
        /\ \A f, regs : At(Core, q)!NewFrame(f, regs) = NewFrame(f, regs)
    BY SameInstruction, SameCalls
  <2> DEFINE caller == [Top EXCEPT !.pc = @ + 1]
             regs   == ArgRegisters(CallArgs)
             deeper == Append([frames EXCEPT ![Len(frames)] = caller],
                              NewFrame(Name(1), registers))
  <2>2. Entered = CoreNamed(NamedArgs, regs, stack, storage, memory, accumulator,
                            deeper, result)
    BY DEF Entered
  <2>3. At(Core, q)!Entered
          = At(Core, q)!CoreNamed(NamedArgs, regs, stack, storage, memory, accumulator,
                                  deeper, result)
    BY <2>1, CoreFields DEF At!Entered
  <2> HIDE DEF regs, deeper
  <2> QED BY SameCoreNamed, <2>2, <2>3
<1>7. At(Core, q)!Asks = Asks BY CoreFields, SameInstruction DEF At!Asks, Asks
<1> QED BY <1>1, <1>4, <1>5, <1>6, <1>7

LEMMA SamePerformed ==
  ASSUME NEW q PROVE At(Core, q)!Performed(Instr.op) = Performed(Instr.op)
<1> DEFINE reg(i) == At(Core, q)!Name(i)
           val(i) == At(Core, q)!RegOr(reg(i), At(Core, q)!Null)
           num(i) == At(Core, q)!Num(At(Core, q)!Arg(i))
           rhs(i) == At(Core, q)!Rhs(At(Core, q)!Arg(i))
           sum    == At(Core, q)!BinOp(Instr.op,
                       At(Core, q)!RegOr(reg(1), At(Core, q)!IntV(0)), num(2))
<1>1. /\ At(Core, q)!Wrote(reg(1), At(Core, q)!Initial) = Wrote(Name(1), Initial)
      /\ At(Core, q)!Wrote(reg(1), val(1)) = Wrote(Name(1), RegOr(Name(1), Null))
      /\ At(Core, q)!Wrote(reg(1), rhs(2)) = Wrote(Name(1), Rhs(Arg(2)))
      /\ At(Core, q)!Wrote(reg(2), val(1)) = Wrote(Name(2), RegOr(Name(1), Null))
      /\ At(Core, q)!Wrote(reg(1), At(Core, q)!Unbound) = Wrote(Name(1), Unbound)
      /\ At(Core, q)!Stayed(val(1)) = Stayed(RegOr(Name(1), Null))
      /\ At(Core, q)!Pushed(val(1)) = Pushed(RegOr(Name(1), Null))
      /\ At(Core, q)!Kept(reg(2), val(1)) = Kept(Name(2), RegOr(Name(1), Null))
      /\ At(Core, q)!Kept(reg(1), val(1)) = Kept(Name(1), RegOr(Name(1), Null))
      /\ At(Core, q)!Kept(reg(1), At(Core, q)!Unbound) = Kept(Name(1), Unbound)
  BY SameInstruction, SameOperands, SameConstants, SameContainers, SameEffects
<1>2. /\ At(Core, q)!AsI64(num(2)) = AsI64(Num(Arg(2)))
      /\ At(Core, q)!Wrote(reg(1), sum)
          = Wrote(Name(1), BinOp(Instr.op, RegOr(Name(1), IntV(0)), Num(Arg(2))))
  BY SameInstruction, SameOperands, SameConstants, SameTags, SameArithmetic, SameBinOp,
     SameEffects
<1>3. At(Core, q)!Wrote(reg(1), At(Core, q)!ArrayV(
          [i \in 1 .. reg(2) |-> At(Core, q)!Rhs(At(Core, q)!Arg(i + 2))]))
        = Wrote(Name(1), ArrayV([i \in 1 .. Name(2) |-> Rhs(Arg(i + 2))]))
  <2>1. /\ \A i : At(Core, q)!Name(i) = Name(i)
        /\ \A i : At(Core, q)!Arg(i) = Arg(i)
        /\ \A o : At(Core, q)!Rhs(o) = Rhs(o)
        /\ \A t : At(Core, q)!ArrayV(t) = ArrayV(t)
        /\ \A r, v : At(Core, q)!Wrote(r, v) = Wrote(r, v)
    BY SameInstruction, SameOperands, SameTags, SameEffects
  <2> QED BY <2>1
<1>4. /\ At(Core, q)!Wrote(reg(1), At(Core, q)!IntV(At(Core, q)!LenOf(val(2))))
          = Wrote(Name(1), IntV(LenOf(RegOr(Name(2), Null))))
      /\ At(Core, q)!Wrote(reg(1), At(Core, q)!ElementAt(val(2), num(3)))
          = Wrote(Name(1), ElementAt(RegOr(Name(2), Null), Num(Arg(3))))
      /\ At(Core, q)!CanSet(val(1), num(2)) = CanSet(RegOr(Name(1), Null), Num(Arg(2)))
      /\ At(Core, q)!Wrote(reg(1), At(Core, q)!Updated(val(1), num(2), rhs(3)))
          = Wrote(Name(1), Updated(RegOr(Name(1), Null), Num(Arg(2)), Rhs(Arg(3))))
  BY SameInstruction, SameOperands, SameConstants, SameTags, SameContainers, SameEffects
<1>5. /\ At(Core, q)!Pushed(At(Core, q)!ArrayV(At(Core, q)!Lookup(At(Core, q)!Mention)))
          = Pushed(ArrayV(Lookup(Mention)))
      /\ At(Core, q)!Pushed(At(Core, q)!Native(reg(1)).value)
          = Pushed(Native(Name(1)).value)
  BY SameInstruction, SameTags, SameMemory, SameCalls, SameEffects
<1> DEFINE acc == IF Instr.args = <<>> THEN accumulator ELSE Num(Arg(1))
           now == IF At(Core, q)!Instr.args = <<>> THEN Core.accumulator
                  ELSE num(1)
<1>6. At(Core, q)!Left("return", now, now) = Left("return", acc, acc)
  <2>1. now = acc BY CoreFields, SameInstruction, SameOperands
  <2> HIDE DEF now, acc
  <2> QED BY <2>1, SameEffects
<1>7. /\ \A why : At(Core, q)!Faulted(why) = Faulted(why)
      /\ At(Core, q)!Stayed(Core.accumulator) = Stayed(accumulator)
      /\ At(Core, q)!Suspended = Suspended
      /\ At(Core, q)!Structural = Structural
  BY CoreFields, SameConstants, SameEffects
<1>8. /\ At(Core, q)!Targets(At(Core, q)!Code, reg(1)) = Targets(Code, Name(1))
      /\ At(Core, q)!IsNative(reg(1)) = IsNative(Name(1))
      /\ At(Core, q)!TooDeep = TooDeep
      /\ At(Core, q)!Wants = Wants
  BY SameInstruction, SameCalls, SameJumps
<1>9. CASE Instr.op = "ASK"
  <2>1. Performed("ASK") = IF Asks THEN Suspended ELSE Faulted("ask inside call")
    BY DEF Performed, Structural
  <2>2. At(Core, q)!Performed("ASK")
          = IF At(Core, q)!Asks THEN At(Core, q)!Suspended
            ELSE At(Core, q)!Faulted("ask inside call")
    BY DEF At!Performed, At!Structural
  <2>3. At(Core, q)!Asks = Asks BY SameControl
  <2> QED BY <1>7, <1>9, <2>1, <2>2, <2>3
<1>10. CASE Instr.op \in {"JMP", "COND"}
  <2>1. Performed(Instr.op)
          = IF Jumps THEN Jumped
            ELSE IF Wants /\ Targets(Code, Name(1)) # {} THEN Faulted("jump budget")
            ELSE Stayed(accumulator)
    BY <1>10 DEF Performed, Structural
  <2>2. At(Core, q)!Performed(Instr.op)
          = IF At(Core, q)!Jumps THEN At(Core, q)!Jumped
            ELSE IF /\ At(Core, q)!Wants
                    /\ At(Core, q)!Targets(At(Core, q)!Code, reg(1)) # {}
            THEN At(Core, q)!Faulted("jump budget")
            ELSE At(Core, q)!Stayed(Core.accumulator)
    BY <1>10 DEF At!Performed, At!Structural
  <2>3. CASE Jumps BY <2>1, <2>2, <2>3, SameControl
  <2>4. CASE ~Jumps /\ ~Wants BY <1>7, <1>8, <2>1, <2>2, <2>4, SameControl
  <2>5. CASE ~Jumps /\ Targets(Code, Name(1)) = {}
    BY <1>7, <1>8, <2>1, <2>2, <2>5, SameControl
  <2>6. CASE ~Jumps /\ Wants /\ Targets(Code, Name(1)) # {}
    BY <1>7, <1>8, <2>1, <2>2, <2>6, SameControl
  <2> QED BY <2>3, <2>4, <2>5, <2>6
<1>11. CASE Instr.op = "CALL"
  <2>1. Performed("CALL")
          = IF Name(1) \notin spelled THEN Faulted("call unresolved")
            ELSE IF TooDeep THEN Faulted("call depth")
            ELSE IF Enters THEN Entered
            ELSE IF IsNative(Name(1)) THEN Pushed(Native(Name(1)).value)
            ELSE Faulted("call unresolved")
    BY DEF Performed, Structural
  <2>2. At(Core, q)!Performed("CALL")
          = IF reg(1) \notin Core.spelled THEN At(Core, q)!Faulted("call unresolved")
            ELSE IF At(Core, q)!TooDeep THEN At(Core, q)!Faulted("call depth")
            ELSE IF At(Core, q)!Enters THEN At(Core, q)!Entered
            ELSE IF At(Core, q)!IsNative(reg(1))
            THEN At(Core, q)!Pushed(At(Core, q)!Native(reg(1)).value)
            ELSE At(Core, q)!Faulted("call unresolved")
    BY DEF At!Performed, At!Structural
  <2>3. At(Core, q)!Enters = Enters /\ At(Core, q)!Entered = Entered BY SameControl
  <2>4. (reg(1) \notin Core.spelled) = (Name(1) \notin spelled)
    BY SameInstruction, CoreFields
  <2> QED BY <1>5, <1>7, <1>8, <1>11, <2>1, <2>2, <2>3, <2>4
<1>12. CASE Instr.op \in {"CREATE", "NEWVAR", "ASSIGN", "COPY", "DESTROY"}
  BY <1>1, <1>12 DEF At!Performed, Performed, At!Structural, Structural
<1>13. CASE Instr.op \in {"SUM", "PUSH", "STORE", "REMEMBER", "FORGET"}
  BY <1>1, <1>13 DEF At!Performed, Performed, At!Structural, Structural
<1>14. CASE Instr.op \in {"ADD", "SUB", "MUL", "DIV"}
  <2>1. Performed(Instr.op)
          = IF Instr.op = "DIV" /\ AsI64(Num(Arg(2))) = 0
            THEN Faulted("division by zero")
            ELSE Wrote(Name(1), BinOp(Instr.op, RegOr(Name(1), IntV(0)), Num(Arg(2))))
    BY <1>14 DEF Performed, Structural
  <2>2. At(Core, q)!Performed(Instr.op)
          = IF Instr.op = "DIV" /\ At(Core, q)!AsI64(num(2)) = 0
            THEN At(Core, q)!Faulted("division by zero")
            ELSE At(Core, q)!Wrote(reg(1), sum)
    BY <1>14 DEF At!Performed, At!Structural
  <2>3. CASE Instr.op = "DIV" /\ AsI64(Num(Arg(2))) = 0
    BY <1>2, <1>7, <2>1, <2>2, <2>3
  <2>4. CASE ~(Instr.op = "DIV" /\ AsI64(Num(Arg(2))) = 0)
    BY <1>2, <2>1, <2>2, <2>4
  <2> QED BY <2>3, <2>4
<1>15. CASE Instr.op \in {"MAKE_ARRAY", "LEN", "INDEX"}
  BY <1>3, <1>4, <1>15 DEF At!Performed, Performed, At!Structural, Structural
<1>16. CASE Instr.op = "SET_INDEX"
  <2>1. Performed("SET_INDEX")
          = IF CanSet(RegOr(Name(1), Null), Num(Arg(2)))
            THEN Wrote(Name(1), Updated(RegOr(Name(1), Null), Num(Arg(2)), Rhs(Arg(3))))
            ELSE Faulted("set_index")
    BY DEF Performed, Structural
  <2>2. At(Core, q)!Performed("SET_INDEX")
          = IF At(Core, q)!CanSet(val(1), num(2))
            THEN At(Core, q)!Wrote(reg(1), At(Core, q)!Updated(val(1), num(2), rhs(3)))
            ELSE At(Core, q)!Faulted("set_index")
    BY DEF At!Performed, At!Structural
  <2> QED BY <1>4, <1>7, <1>16, <2>1, <2>2
<1>17. CASE Instr.op \in {"TRANSFER", "POP", "COMPARE", "RECALL"}
  BY SameTransfer, SameStack, SameCompare, <1>17
  DEF At!Performed, Performed, At!Structural, Structural
<1>18. CASE Instr.op \in {"QUERY", "RETURN"}
  BY <1>5, <1>6, <1>18 DEF At!Performed, Performed, At!Structural, Structural
<1>19. CASE Instr.op \in Structural
  BY <1>7, <1>19 DEF At!Performed, Performed, At!Structural, Structural
<1>20. CASE Instr.op \notin Opcodes
  BY <1>7, <1>20 DEF At!Performed, Performed, At!Structural, Structural, Opcodes
<1> QED
  BY <1>9, <1>10, <1>11, <1>12, <1>13, <1>14, <1>15, <1>16, <1>17, <1>18, <1>19, <1>20
  DEF Opcodes

LEMMA SameAfter == ASSUME NEW q PROVE At(Core, q)!After = After
BY SameInstruction, SamePerformed, SameEffects, CoreFields DEF At!After, After

LEMMA ReportFields ==
  /\ Report.ops = ops /\ Report.jumpsTaken = jumpsTaken /\ Report.queried = queried
  /\ Report.once = once /\ Report.susps = susps
BY DEF Report

LEMMA SameHeldBack == ASSUME ~late PROVE At(Core, Report)!HeldBack = HeldBack
<1>1. \A n : At(Core, Report)!Tick(n) = Tick(n) BY DEF At!Tick, Tick
<1>2. At(Core, Report)!OverOps = OverOps
  BY <1>1, CoreFields, ReportFields DEF At!OverOps, OverOps
<1>3. ~At(Core, Report)!PastDeadline /\ ~PastDeadline
  BY DEF At!PastDeadline, PastDeadline
<1>4. At(Core, Report)!OverQueries = OverQueries
  BY CoreFields, ReportFields DEF At!OverQueries, OverQueries
<1>5. \A f : At(Core, Report)!OnceSpent(f) = OnceSpent(f)
  BY CoreFields, ReportFields DEF At!OnceSpent, OnceSpent
<1>6. /\ At(Core, Report)!Fetched = Fetched /\ At(Core, Report)!Instr = Instr
      /\ At(Core, Report)!Name(1) = Name(1) /\ At(Core, Report)!TooDeep = TooDeep
      /\ At(Core, Report)!CallsBytecode(Name(1)) = CallsBytecode(Name(1))
      /\ Core.spelled = spelled
  BY SameInstruction, SameCalls, CoreFields
<1> QED BY <1>2, <1>3, <1>4, <1>5, <1>6 DEF At!HeldBack, HeldBack

LEMMA SameQuestion == ASSUME NEW q PROVE At(Core, q)!Question = Question
<1>1. At(Core, q)!Candidates = Candidates
  <2> DEFINE mine  == [i \in 1 .. Len(Instr.args) - 1 |-> Num(Arg(i + 1))]
             given == [i \in 1 .. Len(At(Core, q)!Instr.args) - 1 |->
                         At(Core, q)!Num(At(Core, q)!Arg(i + 1))]
  <2>1. given = mine BY SameInstruction, SameOperands
  <2>2. Candidates = IF Len(mine) = 1 /\ IsArray(mine[1]) THEN mine[1][2] ELSE mine
    BY DEF Candidates
  <2>3. At(Core, q)!Candidates
          = IF Len(given) = 1 /\ At(Core, q)!IsArray(given[1]) THEN given[1][2] ELSE given
    BY DEF At!Candidates
  <2>4. At(Core, q)!IsArray(mine[1]) = IsArray(mine[1]) BY SameTags
  <2> HIDE DEF given, mine
  <2> QED BY <2>1, <2>2, <2>3, <2>4
<1> QED BY <1>1, SameInstruction DEF At!Question, Question

(* A step of the program without a deadline is the same function of the    *)
(* state of the machine at whatever state it is told.                      *)
LEMMA SameStep ==
  ASSUME ~late
  PROVE  /\ At(Core, Report)!CoreAfter = CoreAfter
         /\ At(Core, Report)!ReportAfter = ReportAfter
<1>8. At(Core, Report)!Withheld = Withheld
  <2> DEFINE why == HeldBack
             once1 == CoreNamed(NamedArgs, HostRegisters, stack, storage, memory,
                                accumulator, <<>>, Error("once"))
             once2 == At(Core, Report)!CoreNamed(
                        At(Core, Report)!NamedArgs, At(Core, Report)!HostRegisters,
                        stack, storage, memory, accumulator, <<>>,
                        At(Core, Report)!Error("once"))
  <2>1. once2 = once1
    <3>1. /\ At(Core, Report)!NamedArgs = NamedArgs
          /\ At(Core, Report)!HostRegisters = HostRegisters
          /\ At(Core, Report)!Error("once") = Error("once")
      BY SameCalls, SameEffects
    <3> QED BY <3>1, SameCoreNamed
  <2>2. At(Core, Report)!Faulted(why) = Faulted(why) BY SameEffects
  <2>3. Withheld = IF why = "once" THEN once1 ELSE Faulted(why) BY DEF Withheld
  <2>4. At(Core, Report)!Withheld
          = IF why = "once" THEN once2 ELSE At(Core, Report)!Faulted(why)
    BY SameHeldBack, CoreFields DEF At!Withheld
  <2> HIDE DEF once1, once2, why
  <2> QED BY <2>1, <2>2, <2>3, <2>4
<1>1. At(Core, Report)!CoreAfter = CoreAfter
  BY <1>8, SameHeldBack, SameAfter DEF At!CoreAfter, CoreAfter
<1>2. \A n : At(Core, Report)!Tick(n) = Tick(n) BY DEF At!Tick, Tick
<1>3. At(Core, Report)!Fetched = Fetched /\ At(Core, Report)!Instr = Instr
  BY SameInstruction
<1>4. At(Core, Report)!Free = Free BY <1>3, SameHeldBack DEF At!Free, Free
<1>5. /\ At(Core, Report)!Name(1) = Name(1)
      /\ At(Core, Report)!Jumps = Jumps /\ At(Core, Report)!Enters = Enters
      /\ At(Core, Report)!Asks = Asks /\ At(Core, Report)!Question = Question
  BY SameInstruction, SameControl, SameQuestion
<1>6. At(Core, Report)!Mention = Mention
      /\ At(Core, Report)!Lookup(Mention) = Lookup(Mention)
  BY SameMemory
<1>7. At(Core, Report)!ReportAfter = ReportAfter
  BY <1>2, <1>3, <1>4, <1>5, <1>6, CoreFields, ReportFields
  DEF At!ReportAfter, ReportAfter
<1> QED BY <1>1, <1>7

-----------------------------------------------------------------------------
(* The run of a program, as what a function on cores reaches.              *)

FrameOf(p) == [fn : DOMAIN p.fns, pc : Nat \ {0}, flag : BOOLEAN, jumps : Nat,
               saved : RegisterFile]
CoresOf(p) == [spelled : SUBSET STRING, prog : {p}, limits : Limits,
               knowledge : [Sym -> Seq(Map)], registers : RegisterFile,
               stack : Seq(Value), storage : Traces, memory : Traces,
               accumulator : Value, frames : Seq(FrameOf(p)),
               result : ExecResult]
Cores == UNION {CoresOf(p) : p \in Programs}

NoReport == [ops |-> 0, jumpsTaken |-> 0, queried |-> <<>>, once |-> {}, susps |-> <<>>]

(* The program, as a function on cores: where it has ended it stays.       *)
Running == [c \in Cores |-> IF c.frames = <<>> THEN c ELSE At(c, NoReport)!After]

LEMMA CoreTyped == ASSUME TypeOK PROVE Core \in Cores
<1>1. FrameOf(prog) = Frame BY DEF FrameOf, Frame
<1>2. Core \in CoresOf(prog)
  BY <1>1 DEF TypeOK, MachineOK, ControlOK, ReportOK, HostOK, Core, CoreWith, CoreNamed, CoresOf
<1>3. prog \in Programs BY DEF TypeOK, HostOK
<1> QED BY <1>2, <1>3 DEF Cores

LEMMA RunningStep ==
  ASSUME TypeOK, TypeOK', Execute, HeldBack = "none"
  PROVE  Core' = Running[Core] /\ Core' \in Cores
<1>1. Core' = After BY ExecuteSteps DEF Stepped, CoreAfter
<1>2. Core \in Cores BY CoreTyped
<1>3. frames # <<>> BY OpcodesNeedFrames DEF Execute
<1>4. Running[Core] = After BY <1>2, <1>3, SameAfter, CoreFields DEF Running
<1>5. Core' \in Cores
  <2>1. FrameOf(prog') = Frame' BY DEF FrameOf, Frame
  <2>2. Core' \in CoresOf(prog')
    BY <2>1 DEF TypeOK, MachineOK, ControlOK, ReportOK, HostOK, Core, CoreWith, CoreNamed, CoresOf,
                RegisterFile, Traces, ExecResult
  <2>3. prog' \in Programs BY DEF TypeOK, HostOK
  <2> QED BY <2>2, <2>3 DEF Cores
<1> QED BY <1>1, <1>4, <1>5

=============================================================================
