----------------------------- MODULE HostProofs -----------------------------
(***************************************************************************)
(* Proofs about the two hosts of the machine, RunRequest and BranchReplay, *)
(* for every request, program, knowledge store, budget and bound, however  *)
(* often the client resends and whatever branches the host explores.       *)
(***************************************************************************)
EXTENDS RunRequest, BranchReplay, CubeVMProofs

-----------------------------------------------------------------------------
(* What one step of the program leaves of the control state.               *)

(* An error names its cause, and only an error names a budget.             *)
BudgetIsError == result.why \in Budgets => result.kind = "error"

Continues == /\ frames' # <<>> /\ frames'[1].fn = frames[1].fn
             /\ UNCHANGED <<result, susps>>
Ends      == /\ frames' = <<>> /\ UNCHANGED susps
             /\ result'.kind # "suspend" /\ BudgetIsError'
Suspends  == /\ frames' = <<>>
             /\ result'.kind = "suspend" /\ BudgetIsError'
             /\ susps' # <<>> /\ susps'[Len(susps')].fn = frames[1].fn

LEMMA FaultEnds == ASSUME NEW why, Fault(why) PROVE Ends
BY DEF Fault, Unwind, Error, Ends, BudgetIsError

LEMMA GotoContinues ==
  ASSUME TypeOK, Fetched, NEW pc, Goto(pc) PROVE Continues
<1>1. frames \in Seq(Frame) /\ Len(frames) \in Nat \ {0}
  BY FetchedInstruction DEF TypeOK, ControlOK
<1>2. frames' = [frames EXCEPT ![Len(frames)].pc = pc] /\ UNCHANGED <<result, susps>>
  BY DEF Goto
<1>3. frames[1] \in Frame BY <1>1
<1>4. frames' # <<>> BY <1>1, <1>2
<1>5. frames'[1].fn = frames[1].fn BY <1>1, <1>2, <1>3 DEF Frame
<1> QED BY <1>2, <1>4, <1>5 DEF Continues

LEMMA AdvanceContinues == ASSUME TypeOK, Fetched, Advance PROVE Continues
BY GotoContinues DEF Advance

(* COMPARE and JMP write other fields of the innermost activation.         *)
LEMMA TopRewritten ==
  ASSUME TypeOK, Fetched, NEW g, g.fn = Top.fn,
         frames' = [frames EXCEPT ![Len(frames)] = g], UNCHANGED <<result, susps>>
  PROVE  Continues
<1>1. frames \in Seq(Frame) /\ Len(frames) \in Nat \ {0}
  BY FetchedInstruction DEF TypeOK, ControlOK
<1>2. frames' # <<>> BY <1>1
<1>3. frames'[1].fn = frames[1].fn BY <1>1 DEF Top
<1> QED BY <1>2, <1>3 DEF Continues

LEMMA FaultsEnd ==
  ASSUME \/ OutOfOps \/ OutOfTime \/ DivideByZero \/ SetIndexFault
         \/ QueryRefused \/ JumpRefused \/ CallDepthRefused \/ CallUnresolved
         \/ CallOnceRefused \/ AskRefused \/ Unknown
  PROVE  Ends
<1>1. CASE CallOnceRefused
  <2>1. Unwind(Error("once")) /\ UNCHANGED susps BY <1>1 DEF CallOnceRefused
  <2>2. frames' = <<>> /\ result' = Error("once") BY <2>1 DEF Unwind
  <2> QED BY <2>1, <2>2 DEF Error, Ends, BudgetIsError
<1>2. CASE ~CallOnceRefused
  <2>1. \E why : Fault(why)
    BY <1>2 DEF OutOfOps, OutOfTime, DivideByZero, SetIndexFault, QueryRefused,
                JumpRefused, CallDepthRefused, CallUnresolved, AskRefused, Unknown
  <2> QED BY <2>1, FaultEnds
<1> QED BY <1>1, <1>2

LEMMA AdvancesContinue ==
  ASSUME TypeOK,
         \/ Create \/ NewVar \/ Assign \/ Copy \/ Arithmetic \/ MakeArray
         \/ Length \/ Index \/ SetIndex \/ Recall \/ Transfer \/ Destroy \/ Sum
         \/ Push \/ Pop \/ Store \/ Remember \/ Forget \/ Query \/ PassOver
         \/ FallThrough \/ CallNative
  PROVE  Continues
<1> USE DEF Runs, Write, Remembered
<1>1. Fetched /\ Advance
  <2>1. CASE \/ Create \/ NewVar \/ Assign \/ Copy \/ Arithmetic \/ MakeArray
             \/ Length \/ Index \/ SetIndex \/ Recall
    BY <2>1 DEF Create, NewVar, Assign, Copy, Arithmetic, MakeArray, Length, Index,
                SetIndex, Recall
  <2>2. CASE Transfer \/ Destroy \/ Sum \/ Push \/ Pop
    BY <2>2 DEF Transfer, Destroy, Sum, Push, Pop
  <2>3. CASE Store \/ Remember \/ Forget \/ Query
    BY <2>3 DEF Store, Remember, Forget, Query
  <2>4. CASE PassOver \/ FallThrough \/ CallNative
    BY <2>4 DEF PassOver, FallThrough, CallNative, Calling
  <2> QED BY <2>1, <2>2, <2>3, <2>4
<1> QED BY <1>1, AdvanceContinues

LEMMA CompareContinues == ASSUME TypeOK, Compare PROVE Continues
<1> DEFINE kind == IF Len(Instr.args) < 3 THEN "eq" ELSE Name(3)
           va == Num(Arg(1))
           vb == IF kind = "truthy" THEN IntV(0) ELSE Num(Arg(2))
           holds == Holds(kind, Side(va, vb), Side(vb, va))
           g == [Top EXCEPT !.pc = @ + 1, !.flag = holds]
<1>1. /\ Fetched /\ UNCHANGED <<result, susps>>
      /\ frames' = [frames EXCEPT ![Len(frames)].pc = @ + 1,
                                  ![Len(frames)].flag = holds]
  BY DEF Compare, Runs
<1>2. frames \in Seq(Frame) /\ Len(frames) \in Nat \ {0} /\ Top \in Frame
  BY <1>1, FetchedInstruction DEF TypeOK, ControlOK
<1> HIDE DEF holds
<1>3. frames' = [frames EXCEPT ![Len(frames)] = g] BY <1>1, <1>2 DEF Top
<1>4. g.fn = Top.fn BY <1>2 DEF Frame
<1> HIDE DEF g
<1> QED BY <1>1, <1>2, <1>3, <1>4, TopRewritten

LEMMA JumpContinues == ASSUME TypeOK, Jump PROVE Continues
<1>1. Fetched /\ UNCHANGED <<result, susps>> BY DEF Jump, Runs
<1>2. frames \in Seq(Frame) /\ Len(frames) \in Nat \ {0} /\ Top \in Frame
  BY <1>1, FetchedInstruction DEF TypeOK, ControlOK
<1>3. PICK t \in Targets(Code, Name(1)) :
        frames' = [frames EXCEPT ![Len(frames)].pc = t,
                                 ![Len(frames)].jumps = Spent(@)]
  BY DEF Jump
<1> DEFINE g == [Top EXCEPT !.pc = t, !.jumps = Spent(@)]
<1>4. frames' = [frames EXCEPT ![Len(frames)] = g] BY <1>2, <1>3 DEF Top
<1>5. g.fn = Top.fn BY <1>2 DEF Frame
<1> HIDE DEF g
<1> QED BY <1>1, <1>2, <1>4, <1>5, TopRewritten

(* A nested call goes on top of the activations, and a nested return takes *)
(* it off again: neither changes the function at the bottom.               *)
LEMMA CallContinues == ASSUME TypeOK, CallFunction PROVE Continues
<1> DEFINE caller == [Top EXCEPT !.pc = @ + 1]
           g == NewFrame(Name(1), registers)
<1>1. /\ Fetched /\ UNCHANGED <<result, susps>>
      /\ frames' = Append([frames EXCEPT ![Len(frames)] = caller], g)
  BY DEF CallFunction, Calling, Runs
<1>2. frames \in Seq(Frame) /\ Len(frames) \in Nat \ {0} /\ Top \in Frame
  BY <1>1, FetchedInstruction DEF TypeOK, ControlOK
<1>3. caller.fn = Top.fn BY <1>2 DEF Frame
<1> HIDE DEF caller, g
<1>4. frames' # <<>> BY <1>1, <1>2
<1>5. frames'[1].fn = frames[1].fn BY <1>1, <1>2, <1>3 DEF Top
<1> QED BY <1>1, <1>4, <1>5 DEF Continues

LEMMA LeaveControl ==
  ASSUME TypeOK, frames # <<>>, NEW kind \in {"ok", "return"}, NEW v, Leave(kind, v)
  PROVE  Continues \/ Ends
<1>1. frames \in Seq(Frame) /\ Len(frames) \in Nat \ {0} BY DEF TypeOK, ControlOK
<1>2. CASE Len(frames) = 1
  <2>1. frames' = <<>> /\ result' = Done(kind, v) /\ UNCHANGED susps
    BY <1>2 DEF Leave
  <2>2. Done(kind, v).kind = kind /\ Done(kind, v).why = "none" BY DEF Done
  <2>3. result'.kind # "suspend" /\ result'.why \notin Budgets
    BY <2>1, <2>2 DEF Budgets
  <2> QED BY <2>1, <2>3 DEF Ends, BudgetIsError
<1>3. CASE Len(frames) # 1
  <2>1. frames' = SubSeq(frames, 1, Len(frames) - 1) /\ UNCHANGED <<result, susps>>
    BY <1>3 DEF Leave
  <2> DEFINE n == Len(frames)
  <2>2. n \in Nat /\ n - 1 \in Nat \ {0} BY <1>1, <1>3
  <2>3. \A i \in 1 .. n - 1 : frames[i] \in Frame BY <1>1
  <2> HIDE DEF n
  <2>4. /\ Len(SubSeq(frames, 1, n - 1)) = n - 1
        /\ SubSeq(frames, 1, n - 1)[1] = frames[1]
    BY <2>2, <2>3, SubSeqProperties
  <2>5. Len(frames') = n - 1 /\ frames'[1] = frames[1] BY <2>1, <2>4 DEF n
  <2>6. frames' # <<>> BY <2>2, <2>5
  <2> QED BY <2>1, <2>5, <2>6 DEF Continues
<1> QED BY <1>2, <1>3

LEMMA AskSuspends == ASSUME TypeOK, Ask PROVE Suspends
<1>1. /\ Fetched /\ Len(frames) = 1
      /\ susps' = Append(susps,
                    [question |-> Symbol(Arg(1)), candidates |-> Candidates,
                     fn |-> Top.fn, pc |-> Top.pc + 1,
                     flag |-> Top.flag, jumps |-> Top.jumps])
      /\ Unwind([kind |-> "suspend", value |-> Null, why |-> "ask"])
  BY DEF Ask, Runs
<1>2. susps \in Seq(Suspension) BY DEF TypeOK, ControlOK
<1>3. susps' # <<>> /\ susps'[Len(susps')].fn = frames[1].fn
  BY <1>1, <1>2 DEF Top
<1> QED BY <1>1, <1>3 DEF Suspends, Unwind, BudgetIsError, Budgets

LEMMA ExecuteControl ==
  ASSUME TypeOK, Execute
  PROVE  frames # <<>> /\ (Continues \/ Ends \/ Suspends)
<1>1. frames # <<>>
  BY DEF Execute, Interpret, OutOfOps, OutOfTime, FallOffEnd, Unknown, Fetched, Runs,
         Create, NewVar, Assign, Copy, Arithmetic, DivideByZero, MakeArray, Length,
         Index, SetIndex, SetIndexFault, Transfer, Destroy, Sum, Push, Pop, Compare,
         Store, Remember, Forget, Recall, Query, QueryRefused, PassOver, Jump,
         JumpRefused, FallThrough, Calling, CallFunction, CallNative,
         CallDepthRefused, CallUnresolved, CallOnceRefused, Return, Ask, AskRefused
<1>2. CASE Return
  <2>1. Leave("return", accumulator') BY <1>2 DEF Return
  <2> QED BY <1>1, <2>1, LeaveControl
<1>3. CASE FallOffEnd
  <2>1. Leave("ok", accumulator) BY <1>3 DEF FallOffEnd
  <2> QED BY <1>1, <2>1, LeaveControl
<1>4. Interpret BY DEF Execute
<1> QED BY <1>1, <1>2, <1>3, <1>4, FaultsEnd, AdvancesContinue, CompareContinues,
           JumpContinues, CallContinues, AskSuspends DEF Interpret

-----------------------------------------------------------------------------
(* The inductive invariant.                                                *)

(* The phases in which a program may be on the stack, and what is known of *)
(* the result while one is: the last one was taken away when it started.   *)
RunsInPhase ==
  frames # <<>> => phase \in {"constructing", "running"} /\ result = NoResult

(* A suspension is kept for as long as anybody may answer it.              *)
SuspensionKept ==
  /\ Asking => susps # <<>>
  /\ phase = "replied" /\ reply.kind = "suspend" => susps # <<>>

(* What makes EntryIsExternal inductive: the suspension the answers loop   *)
(* would resume is the requested function's, never the constructor's.      *)
AskIsExternal ==
  phase = "running" /\ Asking
    => prog.fns[susps[Len(susps)].fn].access = "external"

(* What makes TargetRefusalsSurface inductive: from the refusal to the     *)
(* reply, the error is there.                                              *)
RefusalIsPending ==
  \A b \in Budgets : <<"running", b>> \in refusals =>
    \/ phase = "running" /\ frames = <<>> /\ result.kind = "error"
    \/ phase = "replied" /\ reply.kind = "error"

ServingInv ==
  /\ RunsInPhase /\ SuspensionKept
  /\ EntryIsExternal /\ AskIsExternal
  /\ BudgetIsError /\ RefusalIsPending

-----------------------------------------------------------------------------
(* Types.                                                                  *)

Phases  == {"received", "constructor", "constructing", "running", "replied"}
ReplyOK == \/ reply \in ExecResult
           \/ reply.why \in {"compile", "knowledge", "assume", "bad answer"}

LEMMA RequestFields ==
  ASSUME NEW r \in Request
  PROVE  /\ r.args \in Seq(Value) /\ r.answers \in Seq(Value \cup {Garbled})
         /\ r.assume \in [Sym -> Seq(Map)]
         /\ \A as \in Seq(Value \cup {Garbled}) : [r EXCEPT !.answers = as] \in Request
BY DEF Request

(* A step of the server: it leaves the wire alone.                         *)
LEMMA ServedTyped ==
  ASSUME RequestTypeOK, TypeOK', UNCHANGED wire, prog' = prog, phase' \in Phases,
         answersLeft' \in {answersLeft, Tail(answersLeft)},
         answersLeft' # answersLeft => answersLeft # <<>>, ReplyOK',
         refusals' \subseteq {"constructing", "running"} \X Budgets
  PROVE  RequestTypeOK'
<1>1. Suspension' = Suspension /\ ExecResult' = ExecResult
  BY DEF Suspension, ExecResult
<1>2. answersLeft \in Seq(Value \cup {Garbled}) BY DEF RequestTypeOK
<1>3. answersLeft' \in Seq(Value \cup {Garbled}) BY <1>2, HeadTailProperties
<1> QED BY <1>1, <1>3 DEF RequestTypeOK, wire, Phases, ReplyOK

LEMMA VarsKeptTyped == ASSUME TypeOK, UNCHANGED vars PROVE TypeOK' /\ prog' = prog
BY StutterTyped DEF vars

LEMMA ReplyKept == ASSUME RequestTypeOK, UNCHANGED reply PROVE ReplyOK'
BY DEF RequestTypeOK, ReplyOK, ExecResult

LEMMA ErrorReply ==
  ASSUME NEW why \in {"compile", "knowledge", "assume", "bad answer"},
         reply' = Error(why)
  PROVE  ReplyOK'
BY DEF Error, ReplyOK

LEMMA RefusalTyped == ASSUME RequestTypeOK, Refusal PROVE RequestTypeOK'
<1>1. TypeOK' /\ prog' = prog BY VarsKeptTyped DEF Refusal, RequestTypeOK
<1>2. Obstacle \in {"compile", "knowledge", "assume"} BY DEF Refusal, Obstacle
<1>3. ReplyOK' BY <1>2, ErrorReply DEF Refusal
<1> QED BY <1>1, <1>3, ServedTyped DEF Refusal, RequestTypeOK, Phases

(* A branch makes a store out of a store.                                  *)
LEMMA BranchedTyped ==
  ASSUME RequestTypeOK PROVE Branched(store) \in [Sym -> Seq(Map)]
<1>1. request.assume \in [Sym -> Seq(Map)] /\ store \in [Sym -> Seq(Map)]
  BY RequestFields DEF RequestTypeOK
<1>2. ASSUME NEW m \in Sym
      PROVE  (IF Excluded(store, m) THEN <<>> ELSE store[m]) \o request.assume[m]
               \in Seq(Map)
  <2>1. store[m] \in Seq(Map) /\ request.assume[m] \in Seq(Map) BY <1>1
  <2>2. (IF Excluded(store, m) THEN <<>> ELSE store[m]) \in Seq(Map) BY <2>1
  <2> QED BY <2>1, <2>2
<1> QED BY <1>2 DEF Branched

LEMMA PrepareTyped == ASSUME RequestTypeOK, Prepare PROVE RequestTypeOK'
<1>1. /\ knowledge' \in [Sym -> Seq(Map)]
      /\ UNCHANGED <<prog, limits, machine, frames, result, ops, counters,
                     entries, late, susps, snaps, hostCalls>>
  BY BranchedTyped DEF Prepare
<1>2. TypeOK' /\ prog' = prog
  BY <1>1 DEF machine, counters, entries, RequestTypeOK, TypeOK, MachineOK,
     ControlOK, ReportOK, HostOK, Frame, Suspension, ExecResult, VmSnapshot,
     RegisterFile, Traces, LoadedNames
<1>3. ReplyOK' BY ReplyKept DEF Prepare
<1> QED BY <1>2, <1>3, ServedTyped DEF Prepare, RequestTypeOK, Phases

LEMMA CallOfTyped ==
  ASSUME TypeOK, NEW f, NEW args \in Seq(Value), CallOf(f, args)
  PROVE  TypeOK' /\ prog' = prog
<1>1. CASE IsOwn(f) /\ Call(f, args)
  BY <1>1, CallTyped, HostTurnKept DEF Call
<1>2. CASE CallMissing(f)
  BY <1>2, RefuseTyped, HostTurnKept DEF CallMissing
<1> QED BY <1>1, <1>2 DEF CallOf

LEMMA CallsTyped ==
  ASSUME RequestTypeOK, RunConstructor \/ RunTarget PROVE RequestTypeOK'
<1> DEFINE args == request.args
<1>1. args \in Seq(Value) /\ <<>> \in Seq(Value)
  <2>1. request \in Request BY DEF RequestTypeOK
  <2>2. args \in Seq(Value) BY <2>1, RequestFields
  <2> HIDE DEF args
  <2>3. <<>> \in Seq(Value) OBVIOUS
  <2> QED BY <2>2, <2>3
<1>2. TypeOK' /\ prog' = prog
  <2>1. CASE RunConstructor
    BY <1>1, <2>1, CallOfTyped DEF RunConstructor, RequestTypeOK
  <2>2. CASE RunTarget /\ EntryRefused(request.fn)
    BY <2>2, RefuseTyped, HostTurnKept DEF EntryRefused, RequestTypeOK
  <2>3. CASE RunTarget /\ CallOf(request.fn, request.args)
    BY <1>1, <2>3, CallOfTyped DEF RequestTypeOK
  <2> QED BY <2>1, <2>2, <2>3 DEF RunTarget
<1>3. ReplyOK' BY ReplyKept DEF RunConstructor, RunTarget
<1> QED BY <1>2, <1>3, ServedTyped DEF RunConstructor, RunTarget, RequestTypeOK, Phases

LEMMA ProgramTyped ==
  ASSUME RequestTypeOK, RunsInPhase, RunProgram PROVE RequestTypeOK'
<1>1. Execute /\ UNCHANGED <<wire, phase, answersLeft, reply>> BY DEF RunProgram
<1>2. TypeOK' /\ prog' = prog
  BY <1>1, ExecuteTyped DEF RequestTypeOK, Execute, host
<1>3. phase \in {"constructing", "running"}
  BY <1>1, ExecuteControl DEF RequestTypeOK, RunsInPhase
<1>4. refusals' \subseteq {"constructing", "running"} \X Budgets
  <2>1. refusals \subseteq {"constructing", "running"} \X Budgets
    BY DEF RequestTypeOK
  <2>2. \/ refusals' = refusals
        \/ /\ result'.why \in Budgets
           /\ refusals' = refusals \cup {<<phase, result'.why>>}
    BY DEF RunProgram
  <2> QED BY <1>3, <2>1, <2>2
<1>5. ReplyOK' BY <1>1, ReplyKept
<1> QED BY <1>1, <1>2, <1>4, <1>5, ServedTyped DEF RequestTypeOK, Phases

LEMMA AnswerTyped ==
  ASSUME RequestTypeOK, SuspensionKept, Answer PROVE RequestTypeOK'
<1> DEFINE n == Len(susps)
           a == Head(answersLeft)
<1>1. /\ Asking /\ answersLeft # <<>> /\ a # Garbled
      /\ Resume(susps[n], a) \/ ResumeRefused(susps[n], a)
      /\ answersLeft' = Tail(answersLeft)
      /\ UNCHANGED <<wire, phase, reply, refusals>>
  BY DEF Answer
<1>2. a \in Value
  <2>1. answersLeft \in Seq(Value \cup {Garbled}) BY DEF RequestTypeOK
  <2>2. a \in Value \cup {Garbled} BY <1>1, <2>1, HeadTailProperties
  <2> QED BY <1>1, <2>2
<1>3. n \in DOMAIN susps
  <2>1. susps \in Seq(Suspension) BY DEF RequestTypeOK, TypeOK, ControlOK
  <2>2. susps # <<>> BY <1>1 DEF SuspensionKept
  <2> QED BY <2>1, <2>2
<1> HIDE DEF n, a
<1>4. TypeOK' /\ prog' = prog
  <2>1. CASE Resume(susps[n], a)
    BY <1>2, <1>3, <2>1, ResumeTyped, HostTurnKept DEF Resume, RequestTypeOK
  <2>2. CASE ResumeRefused(susps[n], a)
    BY <2>2, RefuseTyped, HostTurnKept DEF ResumeRefused, RequestTypeOK
  <2> QED BY <1>1, <2>1, <2>2
<1>5. ReplyOK' BY <1>1, ReplyKept
<1> QED BY <1>1, <1>4, <1>5, ServedTyped DEF RequestTypeOK, Phases

LEMMA RepliesTyped ==
  ASSUME RequestTypeOK, BadAnswer \/ Reply PROVE RequestTypeOK'
<1>1. TypeOK' /\ prog' = prog BY VarsKeptTyped DEF BadAnswer, Reply, RequestTypeOK
<1>2. ReplyOK'
  <2>1. CASE BadAnswer BY <2>1, ErrorReply DEF BadAnswer
  <2>2. CASE Reply
    <3>1. result \in ExecResult BY DEF RequestTypeOK, TypeOK, ControlOK
    <3>2. Reported(result) \in ExecResult BY <3>1 DEF Reported, Done, ExecResult
    <3>3. ExecResult' = ExecResult BY DEF ExecResult
    <3> QED BY <2>2, <3>2, <3>3 DEF Reply, ReplyOK
  <2> QED BY <2>1, <2>2
<1> QED BY <1>1, <1>2, ServedTyped DEF BadAnswer, Reply, RequestTypeOK, Phases

LEMMA LoadedNamesTyped == ASSUME NEW p \in Programs PROVE LoadedNames(p) \subseteq STRING
BY ProgramsAssumption, RegistryAssumption DEF LoadedNames, NativeNames

(* A resent request starts on a machine like a new one.                    *)
LEMMA ResendTyped ==
  ASSUME RequestTypeOK, SuspensionKept, Resend PROVE RequestTypeOK'
<1>1. susps \in Seq(Suspension) /\ susps # <<>>
  BY DEF Resend, SuspensionKept, RequestTypeOK, TypeOK, ControlOK
<1> DEFINE s == susps[Len(susps)]
<1>2. s \in Suspension BY <1>1
<1>3. PICK a \in IF s.candidates = <<>> THEN Answers ELSE Offered(s) :
        /\ request' = [request EXCEPT !.answers = Append(@, a)]
        /\ answersLeft' = Append(request.answers, a)
  BY DEF Resend
<1>4. a \in Value
  <2>1. s.candidates \in Seq(Value) BY <1>2 DEF Suspension
  <2>2. Offered(s) \subseteq Value BY <2>1 DEF Offered
  <2> QED BY <1>3, <2>2, HostAssumption
<1> HIDE DEF s
<1>5. request \in Request /\ request.answers \in Seq(Value \cup {Garbled})
  BY RequestFields DEF RequestTypeOK
<1>6. answersLeft' \in Seq(Value \cup {Garbled}) BY <1>3, <1>4, <1>5
<1>7. request' \in Request
  <2>1. request' = [request EXCEPT !.answers = answersLeft'] BY <1>3
  <2> QED BY <1>5, <1>6, <2>1, RequestFields
<1>8. UNCHANGED <<prog, limits, store>> BY DEF Resend
<1>9. Suspension' = Suspension /\ ExecResult' = ExecResult
  BY <1>8 DEF Suspension, ExecResult
<1>10. MachineOK'
  BY ValueTags DEF Resend, VMFresh, MachineOK, NoRegisters, RegisterFile, Traces
<1>11. ControlOK'
  <2>1. NoResult \in ExecResult BY ValueTags DEF NoResult, ExecResult
  <2> QED BY <1>9, <2>1, BoundsAssumption DEF Resend, ControlOK
<1>12. ReportOK'
  <2>1. prog \in Programs BY DEF RequestTypeOK, TypeOK, HostOK
  <2>2. LoadedNames(prog) \subseteq STRING BY <2>1, LoadedNamesTyped
  <2>3. spelled' = LoadedNames(prog) /\ LoadedNames(prog)' = LoadedNames(prog)
    BY <1>8 DEF Resend, LoadedNames
  <2> QED BY <1>8, <2>2, <2>3, BoundsAssumption DEF Resend, ReportOK
<1>13. HostOK'
  <2>1. /\ prog \in Programs /\ limits \in Limits /\ store \in [Sym -> Seq(Map)]
    BY DEF RequestTypeOK, TypeOK, HostOK
  <2>2. late' = FALSE /\ snaps' = {} /\ hostCalls' = 0 /\ knowledge' = store
    BY DEF Resend
  <2>3. prog' \in Programs /\ limits' \in Limits BY <1>8, <2>1
  <2>4. knowledge' \in [Sym -> Seq(Map)] BY <2>1, <2>2
  <2>5. hostCalls' \in 0 .. MaxHostCalls BY <2>2, BoundsAssumption
  <2>6. snaps' \subseteq VmSnapshot' BY <2>2
  <2> QED BY <2>2, <2>3, <2>4, <2>5, <2>6 DEF HostOK
<1>14. earlier' \in Seq(Suspension') BY <1>1, <1>9 DEF Resend
<1>15. ReplyOK'
  BY <1>9, ValueTags DEF Resend, ReplyOK, NoReply, ExecResult
<1> QED BY <1>6, <1>7, <1>8, <1>10, <1>11, <1>12, <1>13, <1>14, <1>15
        DEF Resend, RequestTypeOK, TypeOK, ReplyOK, Phases

LEMMA ClockTyped == ASSUME RequestTypeOK, ClockPasses PROVE RequestTypeOK'
<1>1. TypeOK' /\ prog' = prog
  BY DeadlineTyped DEF ClockPasses, DeadlinePasses, RequestTypeOK
<1>2. ReplyOK' BY ReplyKept DEF ClockPasses, serving
<1> QED BY <1>1, <1>2, ServedTyped DEF ClockPasses, serving, RequestTypeOK, Phases

LEMMA RequestStutterTyped ==
  ASSUME RequestTypeOK, UNCHANGED requestVars PROVE RequestTypeOK'
<1>1. UNCHANGED vars /\ UNCHANGED wire /\ UNCHANGED serving BY DEF requestVars
<1>2. TypeOK' /\ prog' = prog BY <1>1, VarsKeptTyped DEF RequestTypeOK
<1>3. ReplyOK' BY <1>1, ReplyKept DEF serving
<1> QED BY <1>1, <1>2, <1>3, ServedTyped DEF serving, RequestTypeOK, Phases

LEMMA RequestNextTyped ==
  RequestTypeOK /\ ServingInv /\ [RequestNext]_requestVars => RequestTypeOK'
BY RefusalTyped, PrepareTyped, CallsTyped, ProgramTyped, AnswerTyped, RepliesTyped,
   ResendTyped, ClockTyped, RequestStutterTyped
DEF ServingInv, RequestNext, Serve, Replied

-----------------------------------------------------------------------------
(* ServingInv, action by action.                                           *)

(* Nothing runs and nothing is refused before the program is started.      *)
LEMMA BeforeRun ==
  ASSUME RequestTypeOK, ServingInv, phase \in {"received", "constructor"}
  PROVE  frames = <<>> /\ \A b \in Budgets : <<"running", b>> \notin refusals
BY DEF ServingInv, RunsInPhase, RefusalIsPending

LEMMA RefusalServes ==
  ASSUME RequestTypeOK, ServingInv, Refusal PROVE ServingInv'
<1>1. /\ phase = "received" /\ phase' = "replied" /\ reply'.kind = "error"
      /\ UNCHANGED <<result, refusals, frames>>
  BY DEF Refusal, Error, vars
<1>2. frames' = <<>> /\ \A b \in Budgets : <<"running", b>> \notin refusals'
  BY <1>1, BeforeRun
<1>3. UNCHANGED susps BY DEF Refusal, vars
<1> QED
  BY <1>1, <1>2, <1>3 DEF ServingInv, RunsInPhase, SuspensionKept, EntryIsExternal,
     AskIsExternal, BudgetIsError, RefusalIsPending, Asking

LEMMA PrepareServes ==
  ASSUME RequestTypeOK, ServingInv, Prepare PROVE ServingInv'
<1>1. /\ phase = "received" /\ phase' = "constructor"
      /\ UNCHANGED <<result, refusals, frames, susps>>
  BY DEF Prepare
<1>2. frames' = <<>> /\ \A b \in Budgets : <<"running", b>> \notin refusals'
  BY <1>1, BeforeRun
<1> QED
  BY <1>1, <1>2 DEF ServingInv, RunsInPhase, SuspensionKept, EntryIsExternal,
     AskIsExternal, BudgetIsError, RefusalIsPending, Asking

(* What a host's call leaves: the function at the bottom of the stack and  *)
(* no result, or an error that is no budget's.                             *)
Begun(f)  == /\ frames' # <<>> /\ frames'[1].fn = f
             /\ result' = NoResult
Rejects   == /\ frames' = <<>> /\ result'.kind = "error"
             /\ result'.why \notin Budgets

LEMMA HostCallResult ==
  ASSUME NEW f, Begun(f) \/ Rejects
  PROVE  /\ frames' # <<>> => result' = NoResult
         /\ result'.kind # "suspend" /\ BudgetIsError'
<1>1. NoResult.kind = "none" /\ NoResult.why \notin Budgets
  BY DEF NoResult, Budgets
<1>2. result'.kind # "suspend" /\ result'.why \notin Budgets
  BY <1>1 DEF Begun, Rejects
<1> QED BY <1>2 DEF Begun, Rejects, BudgetIsError

LEMMA CallControl ==
  ASSUME NEW f, NEW args, CallOf(f, args)
  PROVE  /\ frames = <<>> /\ UNCHANGED <<prog, susps>>
         /\ (IsOwn(f) /\ Begun(f)) \/ Rejects
<1>1. CASE IsOwn(f) /\ Call(f, args)
  <2>1. frames = <<>> /\ UNCHANGED <<prog, susps>> BY <1>1 DEF Call, HostTurn
  <2>2. \/ UNCHANGED frames /\ result' = Error("once")
        \/ frames' = <<NewFrame(f, NoRegisters)>> /\ result' = NoResult
    BY <1>1 DEF Call
  <2>3. CASE UNCHANGED frames /\ result' = Error("once")
    BY <2>1, <2>3 DEF Rejects, Error, Budgets
  <2>4. CASE frames' = <<NewFrame(f, NoRegisters)>> /\ result' = NoResult
    <3>1. NewFrame(f, NoRegisters).fn = f BY DEF NewFrame
    <3>2. frames' # <<>> /\ frames'[1].fn = f BY <2>4, <3>1
    <3> QED BY <1>1, <2>1, <2>4, <3>2 DEF Begun
  <2> QED BY <2>2, <2>3, <2>4
<1>2. CASE CallMissing(f)
  BY <1>2 DEF CallMissing, HostTurn, Refuse, Rejects, Error, Budgets
<1> QED BY <1>1, <1>2 DEF CallOf

LEMMA ConstructorServes ==
  ASSUME RequestTypeOK, ServingInv, RunConstructor PROVE ServingInv'
<1>1. /\ phase = "constructor" /\ phase' = "constructing" /\ UNCHANGED refusals
      /\ CallOf("constructor", <<>>)
  BY DEF RunConstructor
<1>2. \A b \in Budgets : <<"running", b>> \notin refusals' BY <1>1, BeforeRun
<1>3. Begun("constructor") \/ Rejects BY <1>1, CallControl
<1>4. /\ frames' # <<>> => result' = NoResult
      /\ result'.kind # "suspend" /\ BudgetIsError'
  BY <1>3, HostCallResult
<1> QED
  BY <1>1, <1>2, <1>4 DEF ServingInv, RunsInPhase, SuspensionKept, EntryIsExternal,
     AskIsExternal, RefusalIsPending, Asking

(* call_entry: the requested function is external, or the call is refused. *)
LEMMA TargetServes ==
  ASSUME RequestTypeOK, ServingInv, RunTarget PROVE ServingInv'
<1> DEFINE f == request.fn
<1>1. /\ phase = "constructing" /\ phase' = "running" /\ UNCHANGED refusals
      /\ \/ Admits(f) /\ CallOf(f, request.args)
         \/ ~Admits(f) /\ EntryRefused(f)
  BY DEF RunTarget
<1> HIDE DEF f
<1>2. \A b \in Budgets : <<"running", b>> \notin refusals'
  BY <1>1 DEF ServingInv, RefusalIsPending
<1>3. UNCHANGED prog /\ (Rejects \/ (Begun(f) /\ prog.fns[f].access = "external"))
  <2>1. CASE Admits(f) /\ CallOf(f, request.args)
    BY <2>1, CallControl DEF Admits, External
  <2>2. CASE EntryRefused(f)
    BY <2>2 DEF EntryRefused, HostTurn, Refuse, Rejects, Error, Budgets
  <2> QED BY <1>1, <2>1, <2>2
<1>4. /\ frames' # <<>> => result' = NoResult
      /\ result'.kind # "suspend" /\ BudgetIsError'
  BY <1>3, HostCallResult
<1>5. EntryIsExternal' BY <1>3 DEF Begun, Rejects, EntryIsExternal
<1> QED
  BY <1>1, <1>2, <1>4, <1>5 DEF ServingInv, RunsInPhase, SuspensionKept,
     AskIsExternal, RefusalIsPending, Asking

(* The program's own step: a budget refusal is recorded in the very step   *)
(* that leaves its error, a suspension is the running function's.          *)
LEMMA ProgramServes ==
  ASSUME RequestTypeOK, ServingInv, RunProgram PROVE ServingInv'
<1>1. Execute /\ UNCHANGED <<phase, reply>> BY DEF RunProgram
<1>2. UNCHANGED prog BY <1>1 DEF Execute, host
<1>3. frames # <<>> /\ (Continues \/ Ends \/ Suspends)
  BY <1>1, ExecuteControl DEF RequestTypeOK
<1>4. phase \in {"constructing", "running"} /\ result = NoResult
  BY <1>3 DEF ServingInv, RunsInPhase
<1>5. \A b \in Budgets : <<"running", b>> \notin refusals
  BY <1>3, <1>4 DEF ServingInv, RefusalIsPending
<1>6. result'.why \notin Budgets => refusals' = refusals BY DEF RunProgram
<1>7. CASE Continues
  <2>1. frames' # <<>> /\ result' = NoResult /\ UNCHANGED susps
    BY <1>4, <1>7 DEF Continues
  <2>2. result'.why \notin Budgets /\ result'.kind # "suspend"
    BY <2>1 DEF NoResult, Budgets
  <2>3. refusals' = refusals BY <1>6, <2>2
  <2>4. EntryIsExternal'
    BY <1>1, <1>2, <1>3, <1>7 DEF Continues, ServingInv, EntryIsExternal
  <2> QED
    BY <1>1, <1>4, <1>5, <2>1, <2>2, <2>3, <2>4 DEF ServingInv, RunsInPhase,
       SuspensionKept, AskIsExternal, BudgetIsError, RefusalIsPending, Asking
<1>8. CASE Ends
  <2>1. /\ frames' = <<>> /\ result'.kind # "suspend" /\ BudgetIsError'
    BY <1>8 DEF Ends
  <2>2. RefusalIsPending'
    <3> SUFFICES ASSUME NEW b \in Budgets, <<"running", b>> \in refusals'
                 PROVE  phase' = "running" /\ result'.kind = "error"
      BY <2>1 DEF RefusalIsPending, Budgets
    <3>1. result'.why \in Budgets /\ refusals' = refusals \cup {<<phase, result'.why>>}
      BY <1>5, <1>6 DEF RunProgram
    <3>2. <<"running", b>> = <<phase, result'.why>> BY <1>5, <3>1
    <3> QED BY <1>1, <2>1, <3>1, <3>2 DEF BudgetIsError
  <2> QED
    BY <1>1, <1>4, <2>1, <2>2 DEF ServingInv, RunsInPhase, SuspensionKept,
       EntryIsExternal, AskIsExternal, Asking
<1>9. CASE Suspends
  <2>1. /\ frames' = <<>> /\ result'.kind = "suspend" /\ BudgetIsError'
        /\ susps' # <<>> /\ susps'[Len(susps')].fn = frames[1].fn
    BY <1>9 DEF Suspends
  <2>2. refusals' = refusals BY <1>6, <2>1 DEF BudgetIsError
  <2>3. AskIsExternal'
    BY <1>1, <1>2, <1>3, <2>1 DEF AskIsExternal, ServingInv, EntryIsExternal
  <2> QED
    BY <1>1, <1>4, <1>5, <2>1, <2>2, <2>3 DEF ServingInv, RunsInPhase,
       SuspensionKept, EntryIsExternal, RefusalIsPending, Asking
<1> QED BY <1>3, <1>7, <1>8, <1>9

(* While the result asks, no budget has refused the requested function.    *)
LEMMA NoRefusalWhileAsking ==
  ASSUME ServingInv, phase = "running", Asking
  PROVE  \A b \in Budgets : <<"running", b>> \notin refusals
BY DEF ServingInv, RefusalIsPending, Asking

LEMMA BadAnswerServes ==
  ASSUME RequestTypeOK, ServingInv, BadAnswer PROVE ServingInv'
<1>1. /\ phase = "running" /\ frames = <<>> /\ Asking
      /\ phase' = "replied" /\ reply'.kind = "error"
      /\ UNCHANGED <<result, refusals, frames, susps>>
  BY DEF BadAnswer, Idle, Error, vars
<1>2. \A b \in Budgets : <<"running", b>> \notin refusals'
  BY <1>1, NoRefusalWhileAsking
<1> QED
  BY <1>1, <1>2 DEF ServingInv, RunsInPhase, SuspensionKept, EntryIsExternal,
     AskIsExternal, BudgetIsError, RefusalIsPending, Asking

(* The answers loop goes on with the function that asked.                  *)
LEMMA AnswerServes ==
  ASSUME RequestTypeOK, ServingInv, Answer PROVE ServingInv'
<1> DEFINE s == susps[Len(susps)]
           a == Head(answersLeft)
<1>1. /\ phase = "running" /\ Asking
      /\ Resume(s, a) \/ ResumeRefused(s, a)
      /\ UNCHANGED <<phase, reply, refusals>>
  BY DEF Answer, Idle
<1>2. prog.fns[s.fn].access = "external" BY <1>1 DEF ServingInv, AskIsExternal
<1> HIDE DEF s, a
<1>3. \A b \in Budgets : <<"running", b>> \notin refusals'
  BY <1>1, NoRefusalWhileAsking
<1>4. UNCHANGED prog /\ (Begun(s.fn) \/ Rejects)
  <2>1. CASE Resume(s, a)
    BY <2>1 DEF Resume, HostTurn, Begun
  <2>2. CASE ResumeRefused(s, a)
    BY <2>2 DEF ResumeRefused, HostTurn, Refuse, Rejects, Error, Budgets
  <2> QED BY <1>1, <2>1, <2>2
<1>5. /\ frames' # <<>> => result' = NoResult
      /\ result'.kind # "suspend" /\ BudgetIsError'
  BY <1>4, HostCallResult
<1>6. EntryIsExternal' BY <1>2, <1>4 DEF Begun, Rejects, EntryIsExternal
<1> QED
  BY <1>1, <1>3, <1>5, <1>6 DEF ServingInv, RunsInPhase, SuspensionKept,
     AskIsExternal, RefusalIsPending, Asking

LEMMA ReplyServes ==
  ASSUME RequestTypeOK, ServingInv, Reply PROVE ServingInv'
<1>1. /\ phase = "running" /\ frames = <<>>
      /\ reply' = Reported(result) /\ phase' = "replied"
      /\ UNCHANGED <<result, refusals, frames, susps>>
  BY DEF Reply, Idle, vars
<1>2. /\ result.kind = "error" => reply'.kind = "error"
      /\ reply'.kind = "suspend" => result.kind = "suspend"
  BY <1>1 DEF Reported, Done
<1> QED
  BY <1>1, <1>2 DEF ServingInv, RunsInPhase, SuspensionKept, EntryIsExternal,
     AskIsExternal, BudgetIsError, RefusalIsPending, Asking

LEMMA ResendServes == ASSUME Resend PROVE ServingInv'
<1>1. /\ phase' = "received" /\ refusals' = {} /\ frames' = <<>>
      /\ result' = NoResult
  BY DEF Resend
<1> QED
  BY <1>1 DEF ServingInv, RunsInPhase, SuspensionKept, EntryIsExternal,
     AskIsExternal, BudgetIsError, RefusalIsPending, Asking, NoResult, Budgets

LEMMA OthersServe ==
  ASSUME ServingInv, ClockPasses \/ UNCHANGED requestVars PROVE ServingInv'
<1>1. UNCHANGED <<prog, frames, result, susps, phase, reply, refusals>>
  BY DEF ClockPasses, DeadlinePasses, serving, requestVars, vars
<1> QED
  BY <1>1 DEF ServingInv, RunsInPhase, SuspensionKept, EntryIsExternal,
     AskIsExternal, BudgetIsError, RefusalIsPending, Asking

LEMMA RequestNextServes ==
  RequestTypeOK /\ ServingInv /\ [RequestNext]_requestVars => ServingInv'
BY RefusalServes, PrepareServes, ConstructorServes, TargetServes, ProgramServes,
   BadAnswerServes, AnswerServes, ReplyServes, ResendServes, OthersServe
DEF RequestNext, Serve, Replied

-----------------------------------------------------------------------------

LEMMA RequestInitInv == RequestInit => RequestTypeOK /\ ServingInv
<1> SUFFICES ASSUME RequestInit PROVE RequestTypeOK /\ ServingInv OBVIOUS
<1>1. TypeOK BY InitTyped DEF RequestInit
<1>2. request \in Request BY RequestsAssumption DEF RequestInit
<1>3. request.answers \in Seq(Value \cup {Garbled}) BY <1>2, RequestFields
<1>4. store \in [Sym -> Seq(Map)] BY <1>1 DEF RequestInit, TypeOK, HostOK
<1>5. NoReply \in ExecResult BY ValueTags DEF NoReply, ExecResult
<1>6. earlier = <<>> /\ <<>> \in Seq(Suspension) BY DEF RequestInit
<1>7. refusals = {} /\ reply = NoReply /\ phase = "received"
      /\ answersLeft = request.answers
  BY DEF RequestInit
<1>8. RequestTypeOK
  BY <1>1, <1>2, <1>3, <1>4, <1>5, <1>6, <1>7 DEF RequestTypeOK
<1>9. ServingInv
  BY DEF RequestInit, Init, ServingInv, RunsInPhase, SuspensionKept, EntryIsExternal,
     AskIsExternal, BudgetIsError, RefusalIsPending, Asking, NoResult, Budgets
<1> QED BY <1>8, <1>9

LEMMA RequestInvariant == RequestSpec => [](RequestTypeOK /\ ServingInv)
BY RequestInitInv, RequestNextTyped, RequestNextServes, PTL DEF RequestSpec

(* run_request_result keeps the state of the VM and of the request well    *)
(* formed through every refusal, call, answer, reply and resent request,   *)
(* whatever the client sends.                                              *)
THEOREM RequestTypeCorrect == RequestSpec => []RequestTypeOK
BY RequestInvariant, PTL

(* While the requested function runs, the function at the bottom of the    *)
(* call stack is external: call_entry checks it once, and the answers loop *)
(* never resumes a suspension the constructor left behind in its place.    *)
THEOREM EntryAlwaysExternal == RequestSpec => []EntryIsExternal
<1>1. ServingInv => EntryIsExternal BY DEF ServingInv
<1> QED BY <1>1, RequestInvariant, PTL

(* A budget that stops the requested function reaches the client as an     *)
(* error, in whichever of its runs between two answers it struck.          *)
THEOREM RefusalsAlwaysSurface == RequestSpec => []TargetRefusalsSurface
<1>1. ServingInv => TargetRefusalsSurface
  BY DEF ServingInv, RefusalIsPending, TargetRefusalsSurface
<1> QED BY <1>1, RequestInvariant, PTL

-----------------------------------------------------------------------------
(* A request and its repetition: where run_request_result stands.          *)

(* Where a request stands: the machine, the phase and the answers used.    *)
Used == Len(request.answers) - Len(answersLeft)
Now  == [core |-> Core, report |-> Report, phase |-> phase, used |-> Used]

(* Where a call of the host leaves it: program, budgets, knowledge and     *)
(* both memories are as they were.                                         *)
Stand(q, names, regs, stk, fs, res, marks, ph, n) ==
  [core |-> [spelled |-> names, prog |-> q.core.prog, limits |-> q.core.limits,
             knowledge |-> q.core.knowledge, registers |-> regs, stack |-> stk,
             storage |-> q.core.storage, memory |-> q.core.memory,
             accumulator |-> q.core.accumulator, frames |-> fs, result |-> res],
   report |-> [ops |-> q.report.ops, jumpsTaken |-> q.report.jumpsTaken,
               queried |-> q.report.queried, once |-> marks,
               susps |-> q.report.susps],
   phase |-> ph, used |-> n]

Refuses(q, why, ph, n) ==
  Stand(q, q.core.spelled, q.core.registers, q.core.stack, <<>>, Error(why),
        q.report.once, ph, n)

Called(q, f, args, ph) ==
  LET regs == At(q.core, q.report)!HostBound(f, args)
      names == q.core.spelled \cup At(q.core, q.report)!ParamNames(f, args)
                              \cup At(q.core, q.report)!ArgNames(args)
      once1 == q.core.prog.fns[f].once
      marks == q.report.once
  IN IF f \notin DOMAIN q.core.prog.fns THEN Refuses(q, "not found", ph, q.used)
     ELSE IF once1 /\ f \in marks
     THEN Stand(q, names, regs, q.core.stack, <<>>, Error("once"), marks, ph, q.used)
     ELSE Stand(q, names, regs, q.core.stack,
                <<At(q.core, q.report)!NewFrame(f, NoRegisters)>>, NoResult,
                IF once1 THEN marks \cup {f} ELSE marks, ph, q.used)

Targeted(r, q) ==
  IF r.fn \in DOMAIN q.core.prog.fns /\ q.core.prog.fns[r.fn].access # "external"
  THEN Refuses(q, "access", "running", q.used)
  ELSE Called(q, r.fn, r.args, "running")

Answered(q, a) ==
  LET s == q.report.susps[Len(q.report.susps)]
  IN IF Accepts(s, a)
     THEN Stand(q, q.core.spelled, q.core.registers, Append(q.core.stack, a),
                <<[fn |-> s.fn, pc |-> s.pc, flag |-> s.flag, jumps |-> s.jumps,
                   saved |-> NoRegisters]>>,
                NoResult, q.report.once, q.phase, q.used + 1)
     ELSE Refuses(q, "not a candidate", q.phase, q.used + 1)

Awaits(r, q) == /\ q.core.result.kind = "suspend"
                /\ q.used < Len(r.answers) /\ r.answers[q.used + 1] # Garbled

(* What the server makes of where a request stands: run_request_result,    *)
(* between the preparation and the reply, as a function.                   *)
Turn(r, q) ==
  IF q.core.frames # <<>>
  THEN [core |-> At(q.core, q.report)!CoreAfter,
        report |-> At(q.core, q.report)!ReportAfter,
        phase |-> q.phase, used |-> q.used]
  ELSE IF q.phase = "constructor" THEN Called(q, "constructor", <<>>, "constructing")
  ELSE IF q.phase = "constructing" THEN Targeted(r, q)
  ELSE IF Awaits(r, q) THEN Answered(q, r.answers[q.used + 1])
  ELSE q

SuspensionsOf(p) == [question : STRING, candidates : Seq(Value), fn : DOMAIN p.fns,
                     pc : Nat \ {0}, flag : BOOLEAN, jumps : Nat]
ReportsOf(p) == [ops : 0 .. CountCap, jumpsTaken : 0 .. CountCap,
                 queried : Seq(STRING \X Nat), once : SUBSET DOMAIN p.fns,
                 susps : Seq(SuspensionsOf(p))]
Standings == UNION {[core : CoresOf(p), report : ReportsOf(p), phase : Phases,
                     used : Nat] : p \in Programs}
Served(r) == [q \in Standings |-> Turn(r, q)]

(* What a request starts from.                                             *)
Start ==
  [core |-> [spelled |-> LoadedNames(prog), prog |-> prog, limits |-> limits,
             knowledge |-> Branched(store), registers |-> NoRegisters, stack |-> <<>>,
             storage |-> [k \in Key |-> Unbound], memory |-> [k \in Key |-> Unbound],
             accumulator |-> Null, frames |-> <<>>, result |-> NoResult],
   report |-> [ops |-> 0, jumpsTaken |-> 0, queried |-> <<>>, once |-> {},
               susps |-> <<>>],
   phase |-> "constructor", used |-> 0]

Working == {"constructor", "constructing", "running"}

(* What is left of the answers is their end.                               *)
AnswersAreSuffix ==
  /\ Len(answersLeft) <= Len(request.answers)
  /\ \A i \in 1 .. Len(answersLeft) : answersLeft[i] = request.answers[Used + i]

FreshMachine ==
  /\ registers = NoRegisters /\ stack = <<>> /\ accumulator = Null
  /\ storage = [k \in Key |-> Unbound] /\ memory = [k \in Key |-> Unbound]
  /\ frames = <<>> /\ result = NoResult
  /\ ops = 0 /\ jumpsTaken = 0 /\ queried = <<>> /\ once = {} /\ susps = <<>>
  /\ spelled = LoadedNames(prog)

(* The request meets these questions, in this order.                       *)
Meets(questions) ==
  \E e \in Standings : Reached(Served(request), Start, e) /\ e.report.susps = questions

(* The inductive invariant: what the request asks now and what it asked    *)
(* before it was resent are both on the one path its turns take.           *)
ClockNeedsBudget == late => limits.wall
Replays ==
  /\ phase = "received" => FreshMachine /\ answersLeft = request.answers
  /\ phase \in Working => AnswersAreSuffix /\ Reached(Served(request), Start, Now)
  /\ phase = "replied" => susps = <<>> \/ Meets(susps)
  /\ earlier = <<>> \/ Meets(earlier)
ReplayInv == ClockNeedsBudget /\ (~limits.wall => Replays)

LEMMA StandingTyped ==
  ASSUME RequestTypeOK, Used \in Nat PROVE Now \in Standings
<1>1. FrameOf(prog) = Frame /\ SuspensionsOf(prog) = Suspension
  BY DEF FrameOf, Frame, SuspensionsOf, Suspension
<1>2. Core \in CoresOf(prog)
  BY <1>1 DEF RequestTypeOK, TypeOK, MachineOK, ControlOK, HostOK, ReportOK,
              Core, CoreWith, CoreNamed, CoresOf
<1>3. Report \in ReportsOf(prog)
  BY <1>1 DEF RequestTypeOK, TypeOK, ReportOK, ControlOK, Report, ReportsOf
<1>4. phase \in Phases BY DEF RequestTypeOK, Phases
<1>5. prog \in Programs BY DEF RequestTypeOK, TypeOK, HostOK
<1> QED BY <1>2, <1>3, <1>4, <1>5 DEF Standings, Now

LEMMA StandingTypedNext ==
  ASSUME RequestTypeOK', Used' \in Nat PROVE Now' \in Standings
<1>1. FrameOf(prog') = Frame' /\ SuspensionsOf(prog') = Suspension'
  BY DEF FrameOf, Frame, SuspensionsOf, Suspension
<1>2. Core' \in CoresOf(prog')
  BY <1>1 DEF RequestTypeOK, TypeOK, MachineOK, ControlOK, ReportOK, HostOK, Core,
              CoreWith, CoreNamed, CoresOf, RegisterFile, Traces, ExecResult
<1>3. Report' \in ReportsOf(prog')
  BY <1>1 DEF RequestTypeOK, TypeOK, ReportOK, ControlOK, Report, ReportsOf
<1>4. phase' \in Phases BY DEF RequestTypeOK, Phases
<1>5. prog' \in Programs BY DEF RequestTypeOK, TypeOK, HostOK
<1> QED BY <1>2, <1>3, <1>4, <1>5 DEF Standings, Now

(* The fields of where a request stands.                                   *)
LEMMA NowFields ==
  /\ Now.core = Core /\ Now.report = Report /\ Now.phase = phase /\ Now.used = Used
BY DEF Now

LEMMA SameEntry ==
  /\ \A f, args : At(Core, Report)!HostBound(f, args) = HostBound(f, args)
  /\ \A f, regs : At(Core, Report)!NewFrame(f, regs) = NewFrame(f, regs)
  /\ \A f, args : At(Core, Report)!ParamNames(f, args) = ParamNames(f, args)
  /\ \A args : At(Core, Report)!ArgNames(args) = ArgNames(args)
<1>1. \A f, args, r : At(Core, Report)!Binds(f, args, r) = Binds(f, args, r)
  BY CoreFields DEF At!Binds, Binds
<1>2. \A f, args : At(Core, Report)!HostBound(f, args) = HostBound(f, args)
  <2> SUFFICES ASSUME NEW f, NEW args
               PROVE  At(Core, Report)!HostBound(f, args) = HostBound(f, args)
    OBVIOUS
  <2> DEFINE last(S) == CHOOSE i \in S : \A j \in S : j <= i
  <2>1. HostBound(f, args) = [r \in Reg |-> IF Binds(f, args, r) = {} THEN registers[r]
                                            ELSE args[last(Binds(f, args, r))]]
    BY DEF HostBound
  <2>2. At(Core, Report)!HostBound(f, args)
          = [r \in Reg |->
               IF At(Core, Report)!Binds(f, args, r) = {} THEN registers[r]
               ELSE args[last(At(Core, Report)!Binds(f, args, r))]]
    BY CoreFields DEF At!HostBound
  <2> HIDE DEF last
  <2> QED BY <1>1, <2>1, <2>2
<1>3. \A f, args : At(Core, Report)!ParamNames(f, args) = ParamNames(f, args)
  BY CoreFields DEF At!ParamNames, ParamNames
<1>4. \A args : At(Core, Report)!ArgNames(args) = ArgNames(args)
  BY DEF At!ArgNames, ArgNames
<1> QED BY <1>2, <1>3, <1>4, SameCalls

-----------------------------------------------------------------------------
(* Every step of the server is the next turn of where it stands.           *)

Carried == UNCHANGED <<prog, limits, knowledge, storage, memory, accumulator,
                       ops, jumpsTaken, queried, susps>>

LEMMA CarriedStands ==
  ASSUME Carried
  PROVE  Now' = Stand(Now, spelled', registers', stack', frames', result', once',
                      phase', Used')
BY DEF Carried, Now, Core, CoreWith, CoreNamed, Report, Stand

LEMMA RefusesStands ==
  ASSUME Carried, UNCHANGED <<registers, stack, once, spelled>>, frames' = <<>>,
         NEW why, result' = Error(why)
  PROVE  Now' = Refuses(Now, why, phase', Used')
<1>1. /\ Now.core.registers = registers /\ Now.core.stack = stack
      /\ Now.report.once = once /\ Now.core.spelled = spelled
  BY NowFields, CoreFields, ReportFields
<1> QED BY <1>1, CarriedStands DEF Refuses

LEMMA CallStands ==
  ASSUME NEW f, NEW args, CallOf(f, args), Used' = Used
  PROVE  Now' = Called(Now, f, args, phase')
<1>1. /\ Now.core.prog = prog /\ Now.core.stack = stack /\ Now.report.once = once
      /\ Now.used = Used /\ Now.core = Core /\ Now.report = Report
      /\ Now.core.spelled = spelled
  BY NowFields, CoreFields, ReportFields
<1>2. CASE CallMissing(f)
  <2>1. Carried /\ UNCHANGED <<registers, stack, once, spelled>> /\ frames' = <<>>
        /\ result' = Error("not found")
    BY <1>2 DEF CallMissing, HostTurn, Refuse, Carried, machine, entries, counters
  <2>2. f \notin DOMAIN prog.fns BY <1>2 DEF CallMissing, IsOwn
  <2> QED BY <1>1, <2>1, <2>2, RefusesStands DEF Called
<1>3. CASE IsOwn(f) /\ Call(f, args)
  <2>1. /\ Carried /\ UNCHANGED stack /\ registers' = HostBound(f, args)
        /\ spelled' = spelled \cup ParamNames(f, args) \cup ArgNames(args)
        /\ frames = <<>> /\ f \in DOMAIN prog.fns
    BY <1>3 DEF Call, HostTurn, Carried, counters, IsOwn
  <2>2. At(Core, Report)!HostBound(f, args) = HostBound(f, args)
        /\ At(Core, Report)!NewFrame(f, NoRegisters) = NewFrame(f, NoRegisters)
        /\ At(Core, Report)!ParamNames(f, args) = ParamNames(f, args)
        /\ At(Core, Report)!ArgNames(args) = ArgNames(args)
    BY SameEntry
  <2>3. CASE OnceSpent(f)
    <3>1. frames' = <<>> /\ result' = Error("once") /\ once' = once
      BY <1>3, <2>1, <2>3 DEF Call
    <3>2. prog.fns[f].once /\ f \in once BY <2>3 DEF OnceSpent
    <3> QED BY <1>1, <2>1, <2>2, <3>1, <3>2, CarriedStands DEF Called
  <2>4. CASE ~OnceSpent(f)
    <3>1. /\ frames' = <<NewFrame(f, NoRegisters)>> /\ result' = NoResult
          /\ once' = IF prog.fns[f].once THEN once \cup {f} ELSE once
      BY <1>3, <2>4 DEF Call, CountEntry
    <3>2. ~(prog.fns[f].once /\ f \in once) BY <2>4 DEF OnceSpent
    <3> QED BY <1>1, <2>1, <2>2, <3>1, <3>2, CarriedStands DEF Called
  <2> QED BY <2>3, <2>4
<1> QED BY <1>2, <1>3 DEF CallOf

LEMMA UsedKept == ASSUME UNCHANGED <<request, answersLeft>> PROVE Used' = Used
BY DEF Used

LEMMA ConstructorTurns == ASSUME RunConstructor PROVE Now' = Turn(request, Now)
<1>1. CallOf("constructor", <<>>) /\ phase = "constructor" /\ phase' = "constructing"
  BY DEF RunConstructor
<1>2. frames = <<>> BY <1>1, CallControl
<1>3. Used' = Used BY UsedKept DEF RunConstructor, wire
<1>4. Now.core.frames = <<>> /\ Now.phase = "constructor"
  BY <1>1, <1>2, NowFields, CoreFields
<1> QED BY <1>1, <1>3, <1>4, CallStands DEF Turn

LEMMA TargetTurns == ASSUME RunTarget PROVE Now' = Turn(request, Now)
<1> DEFINE f == request.fn
<1>1. phase = "constructing" /\ phase' = "running" BY DEF RunTarget
<1>2. Used' = Used BY UsedKept DEF RunTarget, wire
<1>3. Now.core.prog = prog /\ Now.used = Used BY NowFields, CoreFields
<1>4. CASE Admits(f) /\ CallOf(f, request.args)
  <2>1. frames = <<>> BY <1>4, CallControl
  <2>2. Now.core.frames = <<>> /\ Now.phase = "constructing"
    BY <1>1, <2>1, NowFields, CoreFields
  <2>3. ~(f \in DOMAIN prog.fns /\ prog.fns[f].access # "external")
    BY <1>4 DEF Admits, External, IsOwn
  <2> QED BY <1>1, <1>2, <1>3, <1>4, <2>2, <2>3, CallStands DEF Turn, Targeted
<1>5. CASE EntryRefused(f)
  <2>1. /\ Carried /\ UNCHANGED <<registers, stack, once, spelled>>
        /\ frames' = <<>> /\ result' = Error("access") /\ frames = <<>>
        /\ f \in DOMAIN prog.fns /\ prog.fns[f].access # "external"
    BY <1>5 DEF EntryRefused, HostTurn, Refuse, Carried, machine, entries, counters, IsOwn
  <2>2. Now.core.frames = <<>> /\ Now.phase = "constructing"
    BY <1>1, <2>1, NowFields, CoreFields
  <2> QED BY <1>1, <1>2, <1>3, <2>1, <2>2, RefusesStands DEF Turn, Targeted
<1> QED BY <1>4, <1>5 DEF RunTarget

LEMMA ProgramTurns ==
  ASSUME RequestTypeOK, ~late, RunProgram PROVE Now' = Turn(request, Now)
<1>1. Execute /\ UNCHANGED phase BY DEF RunProgram
<1>2. frames # <<>> BY <1>1, OpcodesNeedFrames DEF Execute
<1>3. Used' = Used BY UsedKept DEF RunProgram, wire
<1>4. Core' = CoreAfter /\ Report' = ReportAfter
  BY <1>1, ExecuteSteps DEF RequestTypeOK, Stepped
<1>5. Now' = [core |-> CoreAfter, report |-> ReportAfter, phase |-> phase, used |-> Used]
  BY <1>1, <1>3, <1>4 DEF Now
<1> QED BY <1>2, <1>5, NowFields, CoreFields, SameStep DEF Turn

LEMMA AnswerTaken ==
  ASSUME RequestTypeOK, AnswersAreSuffix, answersLeft # <<>>,
         answersLeft' = Tail(answersLeft), UNCHANGED request
  PROVE  /\ Used \in Nat /\ Used < Len(request.answers) /\ Used' = Used + 1
         /\ request.answers[Used + 1] = Head(answersLeft)
         /\ AnswersAreSuffix'
<1> DEFINE n == Len(answersLeft)
           m == Len(request.answers)
<1>1. /\ answersLeft \in Seq(Value \cup {Garbled})
      /\ request.answers \in Seq(Value \cup {Garbled})
  BY RequestFields DEF RequestTypeOK
<1>2. n \in Nat /\ m \in Nat /\ n <= m /\ n > 0 BY <1>1 DEF AnswersAreSuffix
<1>3. /\ Len(answersLeft') = n - 1 /\ Len(request'.answers) = m
      /\ \A i \in 1 .. n - 1 : answersLeft'[i] = answersLeft[i + 1]
  BY <1>1
<1>4. Used = m - n /\ Used' = m - (n - 1) BY <1>3 DEF Used
<1> HIDE DEF n, m
<1>5. Used \in Nat /\ Used < m /\ Used' = Used + 1 BY <1>2, <1>4
<1>6. \A i \in 1 .. n : answersLeft[i] = request.answers[Used + i]
  BY DEF AnswersAreSuffix, n
<1>7. request.answers[Used + 1] = Head(answersLeft) BY <1>1, <1>2, <1>6
<1>8. \A i \in 1 .. n - 1 : answersLeft'[i] = request.answers[Used' + i]
  <2> SUFFICES ASSUME NEW i \in 1 .. n - 1
               PROVE  answersLeft'[i] = request.answers[Used' + i]
    OBVIOUS
  <2>1. i + 1 \in 1 .. n /\ Used + (i + 1) = Used' + i BY <1>2, <1>5
  <2> QED BY <1>3, <1>6, <2>1
<1>9. AnswersAreSuffix' BY <1>2, <1>3, <1>8 DEF AnswersAreSuffix
<1> QED BY <1>5, <1>7, <1>9 DEF m

LEMMA AnswerTurns ==
  ASSUME RequestTypeOK, AnswersAreSuffix, Answer
  PROVE  Now' = Turn(request, Now) /\ AnswersAreSuffix' /\ Used' \in Nat
<1> DEFINE s == susps[Len(susps)]
           a == Head(answersLeft)
<1>1. /\ phase = "running" /\ frames = <<>> /\ result.kind = "suspend"
      /\ answersLeft # <<>> /\ a # Garbled
      /\ answersLeft' = Tail(answersLeft) /\ UNCHANGED <<request, phase>>
      /\ Resume(s, a) \/ ResumeRefused(s, a)
  BY DEF Answer, Idle, Asking, wire
<1>2. /\ Used \in Nat /\ Used < Len(request.answers) /\ Used' = Used + 1
      /\ request.answers[Used + 1] = a /\ AnswersAreSuffix'
  BY <1>1, AnswerTaken
<1>3. /\ Now.core.frames = <<>> /\ Now.core.result = result
      /\ Now.core.registers = registers /\ Now.core.stack = stack
      /\ Now.report.once = once /\ Now.report.susps = susps
      /\ Now.core.spelled = spelled /\ Now.phase = "running" /\ Now.used = Used
  BY <1>1, NowFields, CoreFields, ReportFields
<1>4. Awaits(request, Now) BY <1>1, <1>2, <1>3 DEF Awaits
<1>5. Turn(request, Now) = Answered(Now, a) BY <1>2, <1>3, <1>4 DEF Turn
<1> HIDE DEF a
<1>6. CASE Resume(s, a)
  <2>1. /\ Carried /\ UNCHANGED <<registers, once, spelled>> /\ stack' = Append(stack, a)
        /\ frames' = <<[fn |-> s.fn, pc |-> s.pc, flag |-> s.flag, jumps |-> s.jumps,
                        saved |-> NoRegisters]>>
        /\ result' = NoResult /\ Accepts(s, a)
    BY <1>6 DEF Resume, HostTurn, Carried, entries, counters
  <2>2. Answered(Now, a)
          = Stand(Now, spelled, registers, Append(stack, a), frames', NoResult, once,
                  "running", Used + 1)
    BY <1>3, <2>1 DEF Answered
  <2> QED BY <1>1, <1>2, <1>5, <2>1, <2>2, CarriedStands
<1>7. CASE ResumeRefused(s, a)
  <2>1. /\ Carried /\ UNCHANGED <<registers, stack, once, spelled>> /\ frames' = <<>>
        /\ result' = Error("not a candidate") /\ ~Accepts(s, a)
    BY <1>1, <1>7 DEF ResumeRefused, HostTurn, Refuse, Carried, entries, counters, machine
  <2>2. Answered(Now, a) = Refuses(Now, "not a candidate", "running", Used + 1)
    BY <1>3, <2>1 DEF Answered
  <2>3. Now' = Refuses(Now, "not a candidate", phase', Used')
    BY <2>1, RefusesStands
  <2>4. phase' = "running" /\ Used' = Used + 1 BY <1>1, <1>2
  <2>5. Now' = Refuses(Now, "not a candidate", "running", Used + 1) BY <2>3, <2>4
  <2>6. Now' = Turn(request, Now) BY <1>5, <2>2, <2>5
  <2>7. Used' \in Nat BY <1>2
  <2> QED BY <1>2, <2>6, <2>7
<1> QED BY <1>1, <1>2, <1>6, <1>7

-----------------------------------------------------------------------------
(* What a resent request keeps of the one it repeats.                      *)

(* The answers a request had are used as they were: with one more of them  *)
(* it goes wherever it went, and perhaps further.                          *)
LEMMA ReachedAgain ==
  ASSUME NEW r \in Request, NEW a, NEW t, t = [r EXCEPT !.answers = Append(@, a)],
         NEW b \in Standings, NEW c, Reached(Served(r), b, c)
  PROVE  Reached(Served(t), b, c)
<1> DEFINE S == {x \in Standings : Reached(Served(t), b, x)}
<1>1. DOMAIN Served(r) = Standings /\ DOMAIN Served(t) = Standings BY DEF Served
<1>2. /\ t.fn = r.fn /\ t.args = r.args /\ t.answers = Append(r.answers, a)
      /\ r.answers \in Seq(Value \cup {Garbled})
  BY DEF Request
<1>3. ClosedUnder(Served(r), S)
  <2> SUFFICES ASSUME NEW x \in S, Served(r)[x] \in Standings
               PROVE  Served(r)[x] \in S
    BY <1>1 DEF ClosedUnder
  <2>1. Served(r)[x] = Turn(r, x) /\ Served(t)[x] = Turn(t, x) BY DEF Served
  <2>2. Turn(r, x) = x \/ Turn(r, x) = Turn(t, x)
    <3>1. Targeted(r, x) = Targeted(t, x) BY <1>2 DEF Targeted
    <3>2. ASSUME Awaits(r, x)
          PROVE  Awaits(t, x) /\ t.answers[x.used + 1] = r.answers[x.used + 1]
      <4>1. x.used \in Nat BY DEF Standings
      <4>2. x.used + 1 \in 1 .. Len(r.answers) BY <1>2, <3>2, <4>1 DEF Awaits
      <4>3. t.answers[x.used + 1] = r.answers[x.used + 1] BY <1>2, <4>2
      <4>4. Len(t.answers) = Len(r.answers) + 1 BY <1>2
      <4> QED BY <1>2, <3>2, <4>1, <4>3, <4>4 DEF Awaits
    <3> QED BY <3>1, <3>2 DEF Turn
  <2>3. CASE Turn(r, x) = x BY <2>1, <2>3
  <2>4. CASE Turn(r, x) = Turn(t, x)
    <3>1. Served(t)[x] \in DOMAIN Served(t) BY <1>1, <2>1, <2>4
    <3> QED BY <2>1, <2>4, <3>1, ReachedStep
  <2> QED BY <2>2, <2>3, <2>4
<1>4. b \in S BY ReachedSelf
<1>5. c \in S BY <1>1, <1>3, <1>4 DEF Reached
<1> QED BY <1>5

(* Questions are only ever added.                                          *)
Extends(long, short) ==
  /\ Len(short) <= Len(long)
  /\ \A i \in 1 .. Len(short) : long[i] = short[i]

LEMMA TurnAsks ==
  ASSUME NEW r, NEW x
  PROVE  \/ Turn(r, x).report.susps = x.report.susps
         \/ \E s : Turn(r, x).report.susps = Append(x.report.susps, s)
<1>1. \A names, regs, stk, fs, res, marks, ph, n :
        Stand(x, names, regs, stk, fs, res, marks, ph, n).report.susps = x.report.susps
  BY DEF Stand
<1>2. \A why, ph, n : Refuses(x, why, ph, n).report.susps = x.report.susps
  BY <1>1 DEF Refuses
<1>3. \A f, args, ph : Called(x, f, args, ph).report.susps = x.report.susps
  <2> SUFFICES ASSUME NEW f, NEW args, NEW ph
               PROVE  Called(x, f, args, ph).report.susps = x.report.susps
    OBVIOUS
  <2>1. \/ Called(x, f, args, ph) = Refuses(x, "not found", ph, x.used)
        \/ \E names, regs, stk, fs, res, marks, n :
             Called(x, f, args, ph) = Stand(x, names, regs, stk, fs, res, marks, ph, n)
    BY Zenon DEF Called
  <2>2. CASE Called(x, f, args, ph) = Refuses(x, "not found", ph, x.used)
    <3>1. Refuses(x, "not found", ph, x.used).report.susps = x.report.susps
      BY DEF Refuses, Stand
    <3> QED BY <2>2, <3>1
  <2>3. CASE \E names, regs, stk, fs, res, marks, n :
               Called(x, f, args, ph) = Stand(x, names, regs, stk, fs, res, marks, ph, n)
    <3>1. PICK names, regs, stk, fs, res, marks, n :
            Called(x, f, args, ph) = Stand(x, names, regs, stk, fs, res, marks, ph, n)
      BY <2>3
    <3>2. Stand(x, names, regs, stk, fs, res, marks, ph, n).report.susps = x.report.susps
      BY DEF Stand
    <3> QED BY <3>1, <3>2
  <2> QED BY <2>1, <2>2, <2>3
<1>4. Targeted(r, x).report.susps = x.report.susps BY <1>2, <1>3 DEF Targeted
<1>5. \A a : Answered(x, a).report.susps = x.report.susps
  <2> SUFFICES ASSUME NEW a PROVE Answered(x, a).report.susps = x.report.susps
    OBVIOUS
  <2>1. \/ Answered(x, a) = Refuses(x, "not a candidate", x.phase, x.used + 1)
        \/ \E names, regs, stk, fs, res, marks, ph, n :
             Answered(x, a) = Stand(x, names, regs, stk, fs, res, marks, ph, n)
    BY Zenon DEF Answered
  <2> QED BY <1>1, <1>2, <2>1
<1>6. \/ At(x.core, x.report)!ReportAfter.susps = x.report.susps
      \/ \E s : At(x.core, x.report)!ReportAfter.susps = Append(x.report.susps, s)
  BY DEF At!ReportAfter
<1> QED BY <1>3, <1>4, <1>5, <1>6 DEF Turn

LEMMA LaterAsksExtend ==
  ASSUME NEW r, NEW b \in Standings, NEW c, Reached(Served(r), b, c)
  PROVE  Extends(c.report.susps, b.report.susps)
<1> DEFINE q == b.report.susps
           S == {x \in Standings : Extends(x.report.susps, q)}
<1>1. DOMAIN Served(r) = Standings BY DEF Served
<1>2. \A x \in Standings : \E p \in Programs : x.report.susps \in Seq(SuspensionsOf(p))
  BY DEF Standings, ReportsOf
<1>3. \A x \in Standings : Len(x.report.susps) \in Nat BY <1>2
<1>4. ClosedUnder(Served(r), S)
  <2> SUFFICES ASSUME NEW x \in S, Served(r)[x] \in Standings
               PROVE  Extends(Turn(r, x).report.susps, q)
    BY <1>1 DEF ClosedUnder, Served
  <2> DEFINE old == x.report.susps
  <2>1. Extends(old, q) OBVIOUS
  <2>2. PICK p \in Programs : old \in Seq(SuspensionsOf(p)) BY <1>2
  <2>3. CASE Turn(r, x).report.susps = old BY <2>1, <2>3
  <2>4. CASE \E s : Turn(r, x).report.susps = Append(old, s)
    <3>1. PICK s : Turn(r, x).report.susps = Append(old, s) BY <2>4
    <3>2. /\ Len(Append(old, s)) = Len(old) + 1
          /\ \A i \in 1 .. Len(old) : Append(old, s)[i] = old[i]
      BY <2>2
    <3>3. Len(q) \in Nat /\ Len(old) \in Nat BY <1>3
    <3> HIDE DEF q, old
    <3> QED BY <2>1, <3>1, <3>2, <3>3 DEF Extends
  <2> QED BY <2>3, <2>4, TurnAsks
<1>5. b \in S BY <1>3 DEF Extends
<1>6. c \in S BY <1>1, <1>4, <1>5 DEF Reached
<1> QED BY <1>6

-----------------------------------------------------------------------------
(* Steps.                                                                  *)

LEMMA StartTyped == ASSUME RequestTypeOK PROVE Start \in Standings
<1>1. Branched(store) \in [Sym -> Seq(Map)] BY BranchedTyped
<1>2. /\ NoRegisters \in RegisterFile /\ [k \in Key |-> Unbound] \in Traces
      /\ Null \in Value /\ NoResult \in ExecResult
  BY ValueTags DEF NoRegisters, RegisterFile, Traces, NoResult, ExecResult
<1>3. prog \in Programs /\ limits \in Limits BY DEF RequestTypeOK, TypeOK, HostOK
<1>4. Start.core \in CoresOf(prog) BY <1>1, <1>2, <1>3, LoadedNamesTyped DEF Start, CoresOf
<1>5. Start.report \in ReportsOf(prog) BY BoundsAssumption DEF Start, ReportsOf
<1>6. Start = [core |-> Start.core, report |-> Start.report, phase |-> "constructor",
               used |-> 0]
  BY DEF Start
<1> QED BY <1>3, <1>4, <1>5, <1>6 DEF Standings, Phases

LEMMA UsedNat == ASSUME RequestTypeOK, AnswersAreSuffix PROVE Used \in Nat
<1>1. /\ answersLeft \in Seq(Value \cup {Garbled})
      /\ request.answers \in Seq(Value \cup {Garbled})
  BY RequestFields DEF RequestTypeOK
<1>2. Len(answersLeft) \in Nat /\ Len(request.answers) \in Nat BY <1>1
<1> QED BY <1>2 DEF Used, AnswersAreSuffix

LEMMA WireKept ==
  ASSUME UNCHANGED wire, UNCHANGED <<prog, limits>>
  PROVE  Start' = Start /\ Served(request)' = Served(request)
BY DEF wire, Start, Branched, Excluded, LoadedNames

LEMMA EarlierKept ==
  ASSUME Replays, UNCHANGED wire, UNCHANGED <<prog, limits>>
  PROVE  earlier' = <<>> \/ Meets(earlier)'
BY WireKept DEF wire, Replays, Meets

LEMMA SuffixKept ==
  ASSUME AnswersAreSuffix, UNCHANGED <<request, answersLeft>> PROVE AnswersAreSuffix'
BY DEF AnswersAreSuffix, Used

(* The server's turns.                                                     *)
LEMMA TurnReplays ==
  ASSUME Replays, UNCHANGED wire, UNCHANGED <<prog, limits>>, RequestTypeOK',
         phase \in Working, phase' \in Working, Now \in Standings,
         Now' = Turn(request, Now), Used' \in Nat, AnswersAreSuffix'
  PROVE  Replays'
<1>1. Now' \in Standings BY StandingTypedNext
<1>2. Served(request)[Now] = Now' /\ DOMAIN Served(request) = Standings BY DEF Served
<1>3. Reached(Served(request), Start, Now) BY DEF Replays
<1>4. Reached(Served(request), Start, Now') BY <1>1, <1>2, <1>3, ReachedStep
<1>5. Reached(Served(request), Start, Now)' BY <1>4, WireKept
<1> QED BY <1>5, EarlierKept DEF Replays, Working

LEMMA WorkReplays ==
  ASSUME RequestTypeOK, RequestTypeOK', ServingInv, ~late, Replays,
         RunConstructor \/ RunTarget \/ RunProgram \/ Answer
  PROVE  Replays'
<1>1. UNCHANGED wire /\ UNCHANGED <<prog, limits>>
  <2>1. CASE RunConstructor \/ RunTarget
    BY <2>1 DEF RunConstructor, RunTarget, CallOf, Call, CallMissing, EntryRefused,
                HostTurn
  <2>2. CASE RunProgram BY <2>2 DEF RunProgram, Execute, host
  <2>3. CASE Answer BY <2>3 DEF Answer, Resume, ResumeRefused, HostTurn
  <2> QED BY <2>1, <2>2, <2>3
<1>2. phase \in Working /\ phase' \in Working
  <2>1. CASE RunProgram
    <3>1. frames # <<>> BY <2>1, OpcodesNeedFrames DEF RunProgram, Execute
    <3> QED BY <2>1, <3>1 DEF RunProgram, ServingInv, RunsInPhase, Working
  <2>2. CASE ~RunProgram
    BY <2>2 DEF RunConstructor, RunTarget, Answer, Idle, Working
  <2> QED BY <2>1, <2>2
<1>3. AnswersAreSuffix /\ Used \in Nat BY <1>2, UsedNat DEF Replays
<1>4. Now \in Standings BY <1>3, StandingTyped
<1>5. Now' = Turn(request, Now) /\ Used' \in Nat /\ AnswersAreSuffix'
  <2>1. CASE Answer BY <1>3, <2>1, AnswerTurns
  <2>2. CASE ~Answer
    <3>1. UNCHANGED <<request, answersLeft>>
      BY <2>2 DEF RunConstructor, RunTarget, RunProgram, wire
    <3>2. Used' = Used /\ AnswersAreSuffix' BY <1>3, <3>1, UsedKept, SuffixKept
    <3>3. Now' = Turn(request, Now)
      BY <2>2, ConstructorTurns, TargetTurns, ProgramTurns
    <3> QED BY <1>3, <3>2, <3>3
  <2> QED BY <2>1, <2>2
<1> QED BY <1>1, <1>2, <1>4, <1>5, TurnReplays

LEMMA PrepareReplays ==
  ASSUME RequestTypeOK, Replays, Prepare PROVE Replays'
<1>1. /\ UNCHANGED wire /\ UNCHANGED <<prog, limits>> /\ FreshMachine
      /\ answersLeft = request.answers /\ UNCHANGED <<request, answersLeft>>
      /\ phase' = "constructor" /\ knowledge' = Branched(store)
  BY DEF Prepare, Replays, wire
<1>2. /\ UNCHANGED <<registers, stack, storage, memory, accumulator, frames, result>>
      /\ UNCHANGED <<ops, jumpsTaken, queried, once, susps, spelled>>
  BY DEF Prepare, machine, counters, entries
<1>3. Len(answersLeft) \in Nat
  <2>1. answersLeft \in Seq(Value \cup {Garbled}) BY DEF RequestTypeOK
  <2> QED BY <2>1
<1>4. Used = 0 /\ Used' = 0 BY <1>1, <1>3 DEF Used
<1>5. AnswersAreSuffix' BY <1>1, <1>3, <1>4 DEF AnswersAreSuffix
<1>6. Now' = Start
  <2>1. Core' = Start.core
    BY <1>1, <1>2 DEF Core, CoreWith, CoreNamed, Start, FreshMachine
  <2>2. Report' = Start.report BY <1>1, <1>2 DEF Report, Start, FreshMachine
  <2> QED BY <1>1, <1>4, <2>1, <2>2 DEF Now, Start
<1>7. Reached(Served(request), Start, Now)' BY <1>1, <1>6, WireKept, ReachedSelf
<1> QED BY <1>1, <1>5, <1>7, EarlierKept DEF Replays, Working

LEMMA RefusalReplays == ASSUME Replays, Refusal PROVE Replays'
<1>1. /\ UNCHANGED wire /\ UNCHANGED <<prog, limits, susps>> /\ susps = <<>>
      /\ phase' = "replied"
  BY DEF Refusal, Replays, FreshMachine, vars
<1> QED BY <1>1, EarlierKept DEF Replays, Working

LEMMA ReplyReplays ==
  ASSUME RequestTypeOK, Replays, Reply \/ BadAnswer PROVE Replays'
<1>1. /\ UNCHANGED wire /\ UNCHANGED <<prog, limits, susps>>
      /\ phase = "running" /\ phase' = "replied"
  BY DEF Reply, BadAnswer, Idle, vars
<1>2. AnswersAreSuffix /\ Reached(Served(request), Start, Now)
  BY <1>1 DEF Replays, Working
<1>3. Now \in Standings BY <1>2, UsedNat, StandingTyped
<1>4. Now.report.susps = susps BY NowFields, ReportFields
<1>5. Meets(susps) BY <1>2, <1>3, <1>4 DEF Meets
<1>6. Meets(susps)' BY <1>1, <1>5, WireKept DEF Meets, wire
<1> QED BY <1>1, <1>6, EarlierKept DEF Replays, Working

LEMMA ResendReplays == ASSUME RequestTypeOK, Replays, Resend PROVE Replays'
<1>1. PICK a : /\ request' = [request EXCEPT !.answers = Append(@, a)]
               /\ answersLeft' = Append(request.answers, a)
  BY DEF Resend
<1>2. request \in Request BY DEF RequestTypeOK
<1>3. /\ phase = "replied" /\ phase' = "received" /\ earlier' = susps
      /\ UNCHANGED <<prog, limits, store>>
  BY DEF Resend
<1>4. /\ request'.answers = Append(request.answers, a)
      /\ request'.exclude = request.exclude /\ request'.assume = request.assume
  BY <1>1, <1>2 DEF Request
<1>5. FreshMachine' /\ answersLeft' = request'.answers
  BY <1>1, <1>4 DEF Resend, VMFresh, FreshMachine, LoadedNames
<1>6. Start' = Start BY <1>3, <1>4 DEF Start, Branched, Excluded, LoadedNames
<1>7. earlier' = <<>> \/ Meets(earlier)'
  <2>1. CASE susps = <<>> BY <1>3, <2>1
  <2>2. CASE susps # <<>>
    <3>1. PICK e \in Standings : /\ Reached(Served(request), Start, e)
                                 /\ e.report.susps = susps
      BY <1>3, <2>2 DEF Replays, Meets
    <3>2. Reached(Served(request'), Start, e)
      BY <1>1, <1>2, <3>1, StartTyped, ReachedAgain
    <3>3. Reached(Served(request)', Start', e) BY <1>6, <3>2
    <3> QED BY <1>3, <3>1, <3>3 DEF Meets
  <2> QED BY <2>1, <2>2
<1> QED BY <1>3, <1>5, <1>7 DEF Replays, Working

LEMMA OthersReplay ==
  ASSUME Replays, UNCHANGED requestVars PROVE Replays'
<1>1. /\ UNCHANGED wire /\ UNCHANGED <<prog, limits, susps, phase, request>>
      /\ UNCHANGED <<answersLeft, frames>>
  BY DEF requestVars, vars, wire, serving
<1>2. UNCHANGED <<Core, Report, Used>>
  BY <1>1 DEF requestVars, vars, machine, counters, entries, Core, CoreWith,
              CoreNamed, Report, Used
<1>3. FreshMachine => FreshMachine'
  BY DEF requestVars, vars, machine, counters, entries, FreshMachine, LoadedNames
<1>4. AnswersAreSuffix => AnswersAreSuffix' BY <1>1, SuffixKept
<1>5. Now' = Now BY <1>1, <1>2 DEF Now
<1>6. /\ Reached(Served(request), Start, Now)' = Reached(Served(request), Start, Now)
      /\ Meets(susps)' = Meets(susps)
  BY <1>1, <1>5, WireKept DEF Meets
<1> QED BY <1>1, <1>3, <1>4, <1>6, EarlierKept DEF Replays

LEMMA ClockKept ==
  ASSUME ClockNeedsBudget, [RequestNext]_requestVars
  PROVE  ClockNeedsBudget' /\ limits' = limits
<1>1. CASE Resend \/ ClockPasses
  BY <1>1 DEF Resend, ClockPasses, DeadlinePasses, ClockNeedsBudget
<1>2. CASE ~(Resend \/ ClockPasses)
  <2>1. UNCHANGED <<late, limits>>
    <3>1. CASE Refusal \/ BadAnswer \/ Reply \/ Replied \/ UNCHANGED requestVars
      BY <3>1 DEF Refusal, BadAnswer, Reply, Replied, requestVars, vars
    <3>2. CASE Prepare BY <3>2 DEF Prepare
    <3>3. CASE RunConstructor
      BY <3>3 DEF RunConstructor, CallOf, Call, CallMissing, HostTurn
    <3>4. CASE RunTarget
      BY <3>4 DEF RunTarget, CallOf, Call, CallMissing, EntryRefused, HostTurn
    <3>5. CASE RunProgram BY <3>5 DEF RunProgram, Execute, host
    <3>6. CASE Answer
      <4> DEFINE s == susps[Len(susps)]
                 a == Head(answersLeft)
      <4>1. Resume(s, a) \/ ResumeRefused(s, a) BY <3>6 DEF Answer
      <4> HIDE DEF s, a
      <4> QED BY <4>1 DEF Resume, ResumeRefused, HostTurn
    <3> QED BY <1>2, <3>1, <3>2, <3>3, <3>4, <3>5, <3>6 DEF RequestNext, Serve
  <2> QED BY <2>1 DEF ClockNeedsBudget
<1> QED BY <1>1, <1>2

LEMMA RequestNextReplays ==
  ASSUME RequestTypeOK, RequestTypeOK', ServingInv, ReplayInv, [RequestNext]_requestVars
  PROVE  ReplayInv'
<1>1. ClockNeedsBudget' /\ limits' = limits BY ClockKept DEF ReplayInv
<1>2. ASSUME ~limits.wall PROVE Replays'
  <2>1. Replays /\ ~late BY <1>2 DEF ReplayInv, ClockNeedsBudget
  <2>2. ~ClockPasses BY <1>2 DEF ClockPasses, DeadlinePasses
  <2> QED BY <2>1, <2>2, WorkReplays, PrepareReplays, RefusalReplays, ReplyReplays,
             ResendReplays, OthersReplay
          DEF RequestNext, Serve, Replied
<1> QED BY <1>1, <1>2 DEF ReplayInv

LEMMA RequestInitReplays == RequestInit => ReplayInv
BY DEF RequestInit, Init, ReplayInv, ClockNeedsBudget, Replays, FreshMachine, Working

(* Two questions in the same place, of what was asked before the request   *)
(* was resent and of what it asks now, are one.                            *)
LEMMA SameAsks ==
  ASSUME RequestTypeOK, ServingInv, ReplayInv PROVE ReplayReachesSameAsk
<1> SUFFICES ASSUME ~limits.wall, NEW i \in DOMAIN susps \cap DOMAIN earlier
             PROVE  susps[i] = earlier[i]
  BY DEF ReplayReachesSameAsk
<1>1. Replays BY DEF ReplayInv
<1>2. susps # <<>> /\ earlier # <<>> OBVIOUS
<1>3. PICK e \in Standings : /\ Reached(Served(request), Start, e)
                             /\ e.report.susps = earlier
  BY <1>1, <1>2 DEF Replays, Meets
<1>4. PICK n \in Standings : /\ Reached(Served(request), Start, n)
                             /\ n.report.susps = susps
  <2>1. CASE phase \in Working
    <3>1. AnswersAreSuffix /\ Reached(Served(request), Start, Now)
      BY <1>1, <2>1 DEF Replays
    <3>2. Now \in Standings BY <3>1, UsedNat, StandingTyped
    <3>3. Now.report.susps = susps BY NowFields, ReportFields
    <3> QED BY <3>1, <3>2, <3>3
  <2>2. CASE phase = "replied" BY <1>1, <1>2, <2>2 DEF Replays, Meets
  <2>3. phase # "received" BY <1>1, <1>2 DEF Replays, FreshMachine
  <2> QED BY <2>1, <2>2, <2>3 DEF RequestTypeOK, Working
<1>5. Reached(Served(request), e, n) \/ Reached(Served(request), n, e)
  <2>1. Start \in DOMAIN Served(request) BY StartTyped DEF Served
  <2> QED BY <1>3, <1>4, <2>1, ReachedLinear
<1>6. Extends(susps, earlier) \/ Extends(earlier, susps)
  BY <1>3, <1>4, <1>5, LaterAsksExtend
<1>7. i \in 1 .. Len(susps) /\ i \in 1 .. Len(earlier)
  <2>1. susps \in Seq(Suspension) /\ earlier \in Seq(Suspension)
    BY DEF RequestTypeOK, TypeOK, ControlOK
  <2> QED BY <2>1
<1> QED BY <1>6, <1>7 DEF Extends

(* What makes it sound that no VM state crosses the wire: under whatever   *)
(* budgets but the clock's, a request sent again with one more answer      *)
(* meets the questions it met before, with the same candidates and in the  *)
(* same order, so the new answer goes to the question it was given for.    *)
THEOREM ResentRequestsReplay == RequestSpec => []ReplayReachesSameAsk
<1>1. RequestInit => RequestTypeOK /\ ServingInv /\ ReplayInv
  BY RequestInitInv, RequestInitReplays
<1>2. RequestTypeOK /\ ServingInv /\ ReplayInv /\ [RequestNext]_requestVars
        => RequestTypeOK' /\ ServingInv' /\ ReplayInv'
  BY RequestNextTyped, RequestNextServes, RequestNextReplays
<1>3. RequestTypeOK /\ ServingInv /\ ReplayInv => ReplayReachesSameAsk BY SameAsks
<1> QED BY <1>1, <1>2, <1>3, PTL DEF RequestSpec

-----------------------------------------------------------------------------
(* Branches.                                                               *)

(* What a trial starts its run from.                                       *)
StartOf(t) ==
  LET v == CHOOSE v \in t.from : TRUE
      s == CHOOSE s \in t.susp : TRUE
  IN [spelled |-> t.spelled, prog |-> prog, limits |-> limits,
      knowledge |-> v.knowledge, registers |-> v.registers, stack |-> Append(v.stack, t.answer),
      storage |-> v.storage, memory |-> v.memory, accumulator |-> v.accumulator,
      frames |-> <<[fn |-> s.fn, pc |-> s.pc, flag |-> s.flag, jumps |-> s.jumps,
                    saved |-> NoRegisters]>>,
      result |-> NoResult]

ViewOf(c) == [registers |-> c.registers, stack |-> c.stack, storage |-> c.storage,
              memory |-> c.memory, accumulator |-> c.accumulator,
              knowledge |-> c.knowledge]

(* The inductive invariant: a trial under way and every finished one are   *)
(* where the program gets from what they started with.                     *)
HeldIsView == at # {} => at = {View} /\ frames = <<>>
TrialRuns ==
  trial.from # {} => /\ frames # <<>>
                     /\ StartOf(trial) \in Cores
                     /\ Reached(Running, StartOf(trial), Core)
OutcomesReached ==
  \A o \in outcomes :
    \/ Refused(o)
    \/ /\ StartOf(o.start) \in Cores
       /\ \E e \in Cores : /\ Reached(Running, StartOf(o.start), e)
                           /\ e.frames = <<>> /\ o.end = <<e.result, ViewOf(e)>>
BranchInv == HeldIsView /\ TrialRuns /\ OutcomesReached

LEMMA BranchInvSafe == TypeOK /\ BranchInv => SameBranchSameEnd
<1> SUFFICES ASSUME TypeOK, BranchInv, NEW a \in outcomes, NEW b \in outcomes,
                    a.start = b.start, ~Refused(a), ~Refused(b)
             PROVE  a.end = b.end
  BY DEF SameBranchSameEnd
<1> DEFINE s == StartOf(a.start)
<1>1. PICK e \in Cores : /\ s \in Cores /\ Reached(Running, s, e)
                         /\ e.frames = <<>> /\ a.end = <<e.result, ViewOf(e)>>
  BY DEF BranchInv, OutcomesReached
<1>2. PICK d \in Cores : /\ Reached(Running, s, d)
                         /\ d.frames = <<>> /\ b.end = <<d.result, ViewOf(d)>>
  BY DEF BranchInv, OutcomesReached
<1> HIDE DEF s
<1>3. Running[e] = e /\ Running[d] = d BY <1>1, <1>2 DEF Running
<1>4. s \in DOMAIN Running BY <1>1 DEF Running
<1>5. e = d BY <1>1, <1>2, <1>3, <1>4, ReachedEnd
<1> QED BY <1>1, <1>2, <1>5

LEMMA HeldBackRefuses ==
  ASSUME TypeOK, Execute, HeldBack # "none"
  PROVE  frames' = <<>> /\ result'.why \in NotRestored
<1>1. Core' = Withheld BY ExecuteSteps DEF Stepped, CoreAfter
<1>2. HeldBack \in NotRestored BY DEF HeldBack, NotRestored
<1>3. Core'.frames = frames' /\ Core'.result = result'
  BY DEF Core, CoreWith, CoreNamed
<1>4. Withheld.frames = <<>> /\ Withheld.result = Error(HeldBack)
  BY DEF Withheld, Faulted, Broken, CoreWith, CoreNamed
<1> QED BY <1>1, <1>2, <1>3, <1>4 DEF Error

LEMMA BranchInitInv == BranchInit => BranchInv
BY DEF BranchInit, NoTrial, BranchInv, HeldIsView, TrialRuns, OutcomesReached

(* The start of a trial is the same state whenever it is told.             *)
LEMMA StartKept ==
  ASSUME UNCHANGED <<prog, limits>>, NEW t PROVE StartOf(t)' = StartOf(t)
BY DEF StartOf

LEMMA OutcomesKept ==
  ASSUME OutcomesReached, UNCHANGED <<prog, limits, outcomes>>
  PROVE  OutcomesReached'
BY StartKept DEF OutcomesReached, Refused

(* The host's calls end no run.                                            *)
LEMMA EnterInv ==
  ASSUME BranchInv, NEW f, NEW args, Enter(f, args) PROVE BranchInv'
<1>1. UNCHANGED <<prog, limits>> /\ frames = <<>> BY DEF Enter, Call, HostTurn
<1>2. at' = {} /\ UNCHANGED <<trial, outcomes>> BY DEF Enter
<1>3. trial'.from = {} BY <1>1, <1>2 DEF BranchInv, TrialRuns
<1>4. OutcomesReached' BY <1>1, <1>2, OutcomesKept DEF BranchInv
<1> QED BY <1>2, <1>3, <1>4 DEF BranchInv, HeldIsView, TrialRuns

LEMMA BetweenInv ==
  ASSUME BranchInv, HostTurn, UNCHANGED <<frames, trial, outcomes>>,
         at' = {} \/ at' = {View'}
  PROVE  BranchInv'
<1>1. UNCHANGED <<prog, limits>> /\ frames' = <<>> BY DEF HostTurn
<1>2. trial'.from = {} BY <1>1 DEF BranchInv, TrialRuns, HostTurn
<1>3. OutcomesReached' BY <1>1, OutcomesKept DEF BranchInv
<1> QED BY <1>1, <1>2, <1>3 DEF BranchInv, HeldIsView, TrialRuns

LEMMA HoldInv == ASSUME BranchInv, Hold PROVE BranchInv'
<1>1. HostTurn /\ UNCHANGED <<frames, trial, outcomes>> BY DEF Hold, Snapshot
<1>2. at' = {View'} BY DEF Hold, Snapshot, View, machine
<1> QED BY <1>1, <1>2, BetweenInv

LEMMA GoBackInv ==
  ASSUME TypeOK, BranchInv, NEW s \in snaps, GoBack(s) PROVE BranchInv'
<1>1. HostTurn /\ UNCHANGED <<frames, trial, outcomes>> BY DEF GoBack, Restore
<1>2. s \in VmSnapshot BY DEF TypeOK, HostOK
<1>3. at' = {View'}
  BY <1>2 DEF GoBack, Restore, Revived, View, VmSnapshot
<1> QED BY <1>1, <1>3, BetweenInv

LEMMA WithoutInv == ASSUME BranchInv, NEW m, Without(m) PROVE BranchInv'
<1>1. HostTurn /\ UNCHANGED <<frames, trial, outcomes>> /\ at' = {}
  BY DEF Without, Exclude
<1> QED BY <1>1, BetweenInv

LEMMA ContinueInv ==
  ASSUME TypeOK, TypeOK', BranchInv, NEW s, NEW answer, Continue(s, answer)
  PROVE  BranchInv'
<1>1. UNCHANGED <<prog, limits, outcomes>> /\ frames = <<>> /\ frames' # <<>>
  BY DEF Continue, Resume, HostTurn
<1>2. at' = {}
      /\ trial' = [from |-> at, spelled |-> spelled, susp |-> {s}, answer |-> answer]
  BY DEF Continue
<1>3. OutcomesReached' BY <1>1, OutcomesKept DEF BranchInv
<1>4. ASSUME at # {} PROVE StartOf(trial)' = Core'
  <2>1. at = {View} BY <1>4 DEF BranchInv, HeldIsView
  <2>2. trial' = [from |-> {View}, spelled |-> spelled, susp |-> {s}, answer |-> answer]
    BY <1>2, <2>1
  <2>3. StartOf(trial)'
         = [spelled |-> spelled, prog |-> prog, limits |-> limits,
            knowledge |-> knowledge, registers |-> registers, stack |-> Append(stack, answer),
            storage |-> storage, memory |-> memory, accumulator |-> accumulator,
            frames |-> <<[fn |-> s.fn, pc |-> s.pc, flag |-> s.flag, jumps |-> s.jumps,
                          saved |-> NoRegisters]>>,
            result |-> NoResult]
    <3>1. trial'.from = {View} /\ trial'.susp = {s} /\ trial'.answer = answer
          /\ trial'.spelled = spelled
      BY <2>2
    <3>2. (CHOOSE v \in trial'.from : TRUE) = View BY <3>1
    <3>3. (CHOOSE q \in trial'.susp : TRUE) = s BY <3>1
    <3> DEFINE v == CHOOSE v \in trial'.from : TRUE
               q == CHOOSE q \in trial'.susp : TRUE
    <3>4. StartOf(trial)'
           = [spelled |-> spelled, prog |-> prog, limits |-> limits,
              knowledge |-> v.knowledge, registers |-> v.registers, stack |-> Append(v.stack, answer),
              storage |-> v.storage, memory |-> v.memory,
              accumulator |-> v.accumulator,
              frames |-> <<[fn |-> q.fn, pc |-> q.pc, flag |-> q.flag,
                            jumps |-> q.jumps, saved |-> NoRegisters]>>,
              result |-> NoResult]
      BY <1>1, <3>1 DEF StartOf
    <3> HIDE DEF v, q
    <3>5. v = View /\ q = s BY <3>2, <3>3 DEF v, q
    <3> QED BY <3>4, <3>5 DEF View
  <2> QED BY <1>1, <2>3 DEF Continue, Resume, entries, Core, CoreWith, CoreNamed
<1>5. Core' \in Cores
  <2>1. FrameOf(prog') = Frame' BY DEF FrameOf, Frame
  <2>2. Core' \in CoresOf(prog')
    BY <2>1 DEF TypeOK, MachineOK, ControlOK, ReportOK, HostOK, Core, CoreWith,
                CoreNamed, CoresOf, RegisterFile, Traces, ExecResult
  <2>3. prog' \in Programs BY DEF TypeOK, HostOK
  <2> QED BY <2>2, <2>3 DEF Cores
<1>6. TrialRuns'
  BY <1>1, <1>2, <1>4, <1>5, ReachedSelf DEF TrialRuns
<1> QED BY <1>2, <1>3, <1>6 DEF BranchInv, HeldIsView

LEMMA RunInv == ASSUME TypeOK, TypeOK', BranchInv, Run PROVE BranchInv'
<1>1. Execute /\ UNCHANGED <<prog, limits, at>> BY DEF Run, Execute, host
<1>2. frames # <<>> BY <1>1, OpcodesNeedFrames DEF Execute
<1>3. at' = {} BY <1>1, <1>2 DEF BranchInv, HeldIsView
<1>4. CASE frames' # <<>>
  <2>1. UNCHANGED <<trial, outcomes>> BY <1>4 DEF Run
  <2>2. OutcomesReached' BY <1>1, <2>1, OutcomesKept DEF BranchInv
  <2>3. HeldBack = "none" BY <1>1, <1>4, HeldBackRefuses
  <2>4. StartOf(trial)' = StartOf(trial) BY <1>1, <2>1, StartKept
  <2>5. Core' = Running[Core] /\ Core' \in Cores BY <1>1, <2>3, RunningStep
  <2>6. ASSUME trial.from # {} PROVE Reached(Running, StartOf(trial), Core')
    <3>1. Running[Core] \in DOMAIN Running BY <2>5 DEF Running
    <3> QED BY <2>5, <2>6, <3>1, ReachedStep DEF BranchInv, TrialRuns
  <2>7. TrialRuns' BY <1>4, <2>1, <2>4, <2>6 DEF BranchInv, TrialRuns
  <2> QED BY <1>3, <2>2, <2>7 DEF BranchInv, HeldIsView
<1>5. CASE frames' = <<>>
  <2> DEFINE o == [start |-> trial, end |-> <<result', View'>>]
  <2>1. trial' = NoTrial BY <1>5 DEF Run
  <2>2. outcomes' = IF trial.from # {} THEN outcomes \cup {o} ELSE outcomes
    BY <1>5 DEF Run
  <2>3. ASSUME trial.from # {}, HeldBack = "none"
        PROVE  /\ StartOf(trial) \in Cores
               /\ \E e \in Cores : /\ Reached(Running, StartOf(trial), e)
                                   /\ e.frames = <<>> /\ o.end = <<e.result, ViewOf(e)>>
    <3>1. Core' = Running[Core] /\ Core' \in Cores BY <1>1, <2>3, RunningStep
    <3>2. Running[Core] \in DOMAIN Running BY <3>1 DEF Running
    <3>3. Reached(Running, StartOf(trial), Core')
      BY <2>3, <3>1, <3>2, ReachedStep DEF BranchInv, TrialRuns
    <3>4. Core'.frames = <<>> /\ o.end = <<Core'.result, ViewOf(Core')>>
      BY <1>5 DEF Core, CoreWith, CoreNamed, ViewOf, View
    <3>5. StartOf(trial) \in Cores BY <2>3 DEF BranchInv, TrialRuns
    <3> QED BY <3>1, <3>3, <3>4, <3>5
  <2>4. ASSUME HeldBack # "none" PROVE Refused(o)
    BY <1>1, <2>4, HeldBackRefuses DEF Refused
  <2>5. OutcomesReached'
    <3> SUFFICES ASSUME NEW q \in outcomes'
                 PROVE  \/ Refused(q)
                        \/ /\ StartOf(q.start) \in Cores
                           /\ \E e \in Cores :
                                /\ Reached(Running, StartOf(q.start), e)
                                /\ e.frames = <<>> /\ q.end = <<e.result, ViewOf(e)>>
      BY <1>1, StartKept DEF OutcomesReached, Refused
    <3>1. CASE q \in outcomes BY <3>1 DEF BranchInv, OutcomesReached
    <3>2. CASE q \notin outcomes
      <4>1. q = o /\ trial.from # {} /\ q.start = trial BY <2>2, <3>2
      <4> HIDE DEF o
      <4> QED BY <2>3, <2>4, <4>1
    <3> QED BY <3>1, <3>2
  <2>6. TrialRuns' BY <2>1 DEF TrialRuns, NoTrial
  <2> QED BY <1>3, <2>5, <2>6 DEF BranchInv, HeldIsView
<1> QED BY <1>4, <1>5

LEMMA BranchNextVm == BranchNext => [Next]_vars
BY DEF BranchNext, Enter, Continue, Run, Hold, GoBack, Without, Next, HostActs, HostDone

LEMMA BranchNextInv ==
  TypeOK /\ BranchInv /\ [BranchNext]_<<vars, branchVars>> => TypeOK' /\ BranchInv'
<1> SUFFICES ASSUME TypeOK, BranchInv, [BranchNext]_<<vars, branchVars>>
             PROVE  TypeOK' /\ BranchInv'
  OBVIOUS
<1>1. TypeOK' BY BranchNextVm, NextTyped
<1>2. CASE UNCHANGED <<vars, branchVars>>
  <2>1. BranchInv'
    BY <1>2, StartKept
    DEF vars, branchVars, BranchInv, HeldIsView, TrialRuns, OutcomesReached, Refused,
        View, Core, CoreWith, CoreNamed
  <2> QED BY <1>1, <2>1
<1>3. CASE BranchNext
  BY <1>1, <1>2, <1>3, EnterInv, ContinueInv, RunInv, HoldInv, GoBackInv, WithoutInv
  DEF BranchNext, HostDone
<1> QED BY <1>2, <1>3

(* What VM::snapshot and the name table hold is all a resumed run depends  *)
(* on: whatever program, knowledge, budgets and order of host calls, a     *)
(* candidate tried again from the same snapshot ends as it did, provided   *)
(* that what ran in between left the name table as it was then, and but    *)
(* for what VM::restore keeps by design.  The snapshot alone is not        *)
(* enough: see SnapshotDecidesEnd.                                         *)
THEOREM BranchesRepeat == BranchSpec => []SameBranchSameEnd
<1>1. BranchInit => TypeOK /\ BranchInv
  BY InitTyped, BranchInitInv DEF BranchInit
<1>2. BranchSpec => [](TypeOK /\ BranchInv)
  BY <1>1, BranchNextInv, PTL DEF BranchSpec
<1> QED BY <1>2, BranchInvSafe, PTL

=============================================================================
