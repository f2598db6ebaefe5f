------------------------------ MODULE Compiler ------------------------------
(***************************************************************************)
(* The compiler (src/src/compiler.rs): a merged syntax tree in, programs   *)
(* of CubeVM instructions out, or the kinds of error it was refused for.   *)
(*                                                                         *)
(* The compiler's mutable fields are a record threaded through the         *)
(* statements: the code emitted so far, the label counter (which no        *)
(* function or program resets), the symbols recorded for the VM's name     *)
(* table, the errors, whether every instruction's operand count byte says  *)
(* how many operands follow it, and what is compiled so far.               *)
(***************************************************************************)
EXTENDS CubeVM, CubeAst, Cubebin, TLC

CONSTANT Interfaces  (* InterfaceRegistry: interface -> {<<member, arity>>} *)

Fresh == [code |-> <<>>, n |-> 0, syms |-> {}, errors |-> {}, framed |-> TRUE,
          functions |-> <<>>, programs |-> <<>>]

-----------------------------------------------------------------------------
(* Operands and emission.                                                  *)

Unencodable == <<"unencodable", "">>
Encoded(x) ==
  CASE x.e = "int"  -> <<"imm", x.n>>
    [] x.e = "str"  -> <<"lit", x.text>>
    [] x.e = "bool" -> <<"imm", IF x.b THEN 1 ELSE 0>>
    [] x.e = "null" -> <<"imm", 0>>
    [] x.e \in {"ident", "self"} -> <<"reg", x.name>>
    [] x.e = "field" -> <<"reg", IF x.base.e = "ident"
                                 THEN x.base.name \o "." \o x.name ELSE x.name>>
    [] x.e = "role" -> <<"role", x.name>>
    [] x.e = "type" -> <<"type", x.name>>
    [] OTHER        -> Unencodable
EncodedAll(xs) == [i \in DOMAIN xs |-> Encoded(xs[i])]

Named(x) == <<"reg", x>>
Text(l)  == <<"name", l>>
Kind(k)  == <<"kind", k>>
Auto     == <<"type", "auto">>

(* Literals, labels, callees and roles are hashes in the bytecode; their   *)
(* spelling goes to the symbol table.                                      *)
Unrecorded(cells) == {cells[i][2] : i \in {j \in DOMAIN cells : cells[j][1] = "role"}}  \* mutant
Recorded(cells) ==
  {cells[i][2] : i \in {j \in DOMAIN cells : cells[j][1] \in {"lit", "name", "role"}}}

(* One instruction: opcode, operand count, operands.  An operand that has  *)
(* no encoding is an error in every mode.                                  *)
EmitCounted(c, op, count, cells) ==
  [c EXCEPT !.code   = Append(@, [op |-> op, args |-> cells]),
            !.syms   = @ \cup Recorded(cells),
            !.errors = @ \cup {"operand" : i \in {j \in DOMAIN cells :
                                                    cells[j][1] = "unencodable"}},
            !.framed = @ /\ count = Len(cells)]
Emit(c, op, cells) == EmitCounted(c, op, Len(cells), cells)
Refused(c, why) == [c EXCEPT !.errors = @ \cup {why}]

(* A label's name carries the counter that made it.                        *)
LabelAt(prefix, n) == "_" \o prefix \o "_" \o ToString(n)
Uncounted(c, k) == c                                               \* mutant
Counted(c, k)  == [c EXCEPT !.n = @ + k]
Label(c, l)    == Emit(c, "LABEL", <<Text(l)>>)
JumpTo(c, l)   == Emit(c, "JMP", <<Text(l)>>)
JumpUnless(c, l) == Emit(c, "COND", <<Text(l)>>)

(* CALL leaves the callee's result on the stack.  The operand count is a   *)
(* byte.  A callee that is not a name is emitted as no name at all.        *)
EmitCall(c, callee, args) ==
  EmitCounted(c, "CALL", (Len(args) + 1) % ByteBase,
              <<IF callee.e = "ident" THEN Text(callee.name) ELSE <<"none", "">>>>
                \o EncodedAll(args))
PopInto(c, x) == Emit(c, "POP", <<Named(x)>>)
CallInto(c, call, x) == PopInto(EmitCall(c, call.callee, call.args), x)

(* An expression evaluated for its effect: only calls have one.  A method  *)
(* call passes its arguments but not its receiver.                         *)
Discard(c, x) ==
  CASE x.e = "call"   -> CallInto(c, x, "__call_discard")
    [] x.e = "method" -> PopInto(EmitCall(c, Ident(x.name), x.args), "__call_discard")
    [] OTHER          -> Emit(c, "SKIP", <<>>)

-----------------------------------------------------------------------------
(* What strict mode refuses.                                               *)

TraceOnly ==
  {"INFER", "MAP_ROLES", "FILTER", "SCORE", "DETECT_PATTERN", "DECODE", "REDUCE",
   "MERGE", "SPLIT", "DEBATE", "PREDICT", "DISCOVER", "DIFF", "SEQ", "SPECIALIZE",
   "REWARD", "MATCH", "TEMPORAL_BIND", "ANALOGY", "GEN", "INST", "BROADCAST",
   "EXPLORE", "FORGE", "SYNC"}
Mnemonics == (Opcodes \ {"SET_INDEX"}) \cup {"BIND_ROLE", "UNBIND"}

IsCall(x) == x.e \in {"call", "method"}
AcceptsAsserts(st) ==                                              \* mutant
  \/ st.s = "opcode" /\ st.op \in TraceOnly \cup {"UNIFY"}
  \/ st.s = "expr" /\ ~IsCall(st.v)
  \/ st.s = "throw"
AcceptsUnify(st) ==                                                \* mutant
  \/ st.s = "opcode" /\ st.op \in TraceOnly
  \/ st.s = "assert" /\ ~IsCall(st.cond)
  \/ st.s = "expr" /\ ~IsCall(st.v)
  \/ st.s = "throw"
NonExecuting(st) ==
  \/ st.s = "opcode" /\ st.op \in TraceOnly \cup {"UNIFY"}
  \/ st.s = "assert" /\ ~IsCall(st.cond)
  \/ st.s = "expr" /\ ~IsCall(st.v)
  \/ st.s = "throw"

StrictChecked(c, st) == IF NonExecuting(st) THEN Refused(c, "strict") ELSE c

-----------------------------------------------------------------------------
(* Statements.                                                             *)

IsWildcard(pattern) == pattern.e = "ident" /\ pattern.name = "_"
Container(x) == x.e \in {"ident", "self"}

CompareKind == [Eq |-> "eq", NotEq |-> "ne", Lt |-> "lt", LtEq |-> "le",
                Gt |-> "gt", GtEq |-> "ge"]
AssignOpcode == [Eq |-> "ASSIGN", PlusEq |-> "ADD", MinusEq |-> "SUB",
                 StarEq |-> "MUL", SlashEq |-> "DIV"]

(* A comparison sets the flag by its kind; anything else is compared with  *)
(* the immediate 6, in the place of the second operand.                    *)
Condition(c, cond) ==
  IF cond.e = "bin" /\ cond.op \in DOMAIN CompareKind
  THEN Emit(c, "COMPARE", <<Encoded(cond.l), Encoded(cond.r),
                            Kind(CompareKind[cond.op])>>)
  ELSE Emit(c, "COMPARE", <<Encoded(cond), <<"imm", 6>>>>)

(* let: CREATE first, then the right-hand side by its form.  The operand   *)
(* count of MAKE_ARRAY saturates, after the length was cut to a byte.      *)
ArrayCount(n) == IF (n % ByteBase) + 2 < ByteBase THEN (n % ByteBase) + 2
                 ELSE ByteBase - 1
IsLen(v) == v.e = "method" /\ v.name = "len" /\ v.args = <<>> /\ v.obj.e = "ident"
Let(c0, x, type, v) ==
  LET c == Emit(c0, "CREATE", <<Named(x), <<"type", type>>>>)
  IN CASE v.e = "call"  -> CallInto(c, v, x)
       [] v.e = "array" -> EmitCounted(c, "MAKE_ARRAY", ArrayCount(Len(v.elems)),
                             <<Named(x), <<"imm", Len(v.elems)>>>> \o EncodedAll(v.elems))
       [] v.e = "method" /\ IsLen(v) -> Emit(c, "LEN", <<Named(x), Named(v.obj.name)>>)
       [] v.e = "index" /\ Container(v.base) ->
            Emit(c, "INDEX", <<Named(x), Named(v.base.name), Encoded(v.key)>>)
       [] OTHER -> Emit(c, "ASSIGN", <<Named(x), Encoded(v)>>)

(* A name or self.field takes any operator, an element plain assignment    *)
(* only, and nothing else is a target.                                     *)
Assignment(c, target, op, v) ==
  CASE Container(target) -> Emit(c, AssignOpcode[op], <<Named(target.name), Encoded(v)>>)
    [] target.e = "index" /\ Container(target.base) /\ op = "Eq" ->
         Emit(c, "SET_INDEX", <<Named(target.base.name), Encoded(target.key), Encoded(v)>>)
    [] OTHER -> Refused(c, "operand")

Returned(c, v) ==
  CASE v = <<>> -> Emit(c, "RETURN", <<>>)
    [] v # <<>> /\ v[1].e = "call" ->
         Emit(CallInto(c, v[1], "__return_call"), "RETURN", <<Named("__return_call")>>)
    [] OTHER -> Emit(c, "RETURN", <<Encoded(v[1])>>)

(* Opcode statements are one instruction each; bind_role binds a register  *)
(* to itself, and a bind records its filler as well as its role.           *)
OpcodeInstr(c, op, xs) ==
  CASE op = "BINDROLE"  -> [Emit(c, "BIND_ROLE", EncodedAll(<<xs[1], xs[2], xs[1]>>))
                              EXCEPT !.syms = @ \cup {xs[1].name}]
    [] op = "BIND_ROLE" -> [Emit(c, op, EncodedAll(xs))
                              EXCEPT !.syms = @ \cup (IF xs[3].e = "ident"
                                                      THEN {xs[3].name} ELSE {})]
    [] OTHER -> EmitCounted(c, op, Len(xs) % ByteBase, EncodedAll(xs))

(* An asm instruction is emitted with its operand count whatever the       *)
(* opcode, SKIP included, which the VM reads without one.                  *)
AsmInstruction(c, instr) ==
  IF instr.mnemonic \notin Mnemonics THEN Refused(c, "asm")
  ELSE [EmitCounted(c, instr.mnemonic, Len(instr.operands) % ByteBase,
                    EncodedAll(instr.operands))
          EXCEPT !.framed = @ /\ instr.mnemonic # "SKIP"]
RECURSIVE AsmBlock(_, _)
AsmBlock(c, instrs) == IF instrs = <<>> THEN c
                       ELSE AsmBlock(AsmInstruction(c, Head(instrs)), Tail(instrs))

RECURSIVE Lower(_, _), Lowered(_, _), Arms(_, _, _, _)
Lowered(c, body) == IF body = <<>> THEN c
                    ELSE Lowered(Lower(c, Head(body)), Tail(body))
Optional(c, body) == IF body = <<>> THEN c ELSE Lowered(c, body[1])

(* if: the jump over the else branch is there only when there is one.      *)
SkipElse(c, els, end)   == IF els = <<>> THEN c ELSE JumpTo(c, end)
If(c, st) ==
  LET else == LabelAt("else", c.n + 1)
      end  == LabelAt("endif", c.n + 2)
      then == Lowered(JumpUnless(Condition(Counted(c, 2), st.cond), else), st.body)
  IN Label(Optional(Label(SkipElse(then, st.els, end), else), st.els), end)

While(c, st) ==
  LET top == LabelAt("while", c.n + 1)
      end == LabelAt("endwhile", c.n + 2)
      tested == JumpUnless(Condition(Label(Counted(c, 2), top), st.cond), end)
  IN Label(JumpTo(Lowered(tested, st.body), top), end)

(* for: an index over an array held in a register; the index, the length   *)
(* and a materialised array are registers named after the counter, so that *)
(* nested loops do not share them.                                         *)
SharedIndex(n) == "__for_i"                                        \* mutant
ForIndex(n) == "__for_i_" \o ToString(n)
For(c, st) ==
  LET i    == ForIndex(c.n + 1)
      n    == "__for_n_" \o ToString(c.n + 1)
      top  == LabelAt("for_top", c.n + 2)
      end  == LabelAt("for_end", c.n + 3)
      temp == "__for_arr_" \o ToString(c.n + 1)
      xs   == IF st.iter.e = "ident" THEN st.iter.name ELSE temp
      held == IF st.iter.e = "ident" THEN Counted(c, 3)
              ELSE Let(Counted(c, 3), temp, "auto", st.iter)
      zero == Emit(Emit(held, "CREATE", <<Named(i), Auto>>), "ASSIGN", <<Named(i), <<"imm", 0>>>>)
      size == Label(Emit(zero, "LEN", <<Named(n), Named(xs)>>), top)
      more == JumpUnless(Emit(size, "COMPARE", <<Named(i), Named(n), Kind("lt")>>), end)
      item == Emit(Emit(more, "CREATE", <<Named(st.x), Auto>>),
                   "INDEX", <<Named(st.x), Named(xs), Named(i)>>)
      next == Emit(Lowered(item, st.body), "ADD", <<Named(i), <<"imm", 1>>>>)
  IN Label(JumpTo(next, top), end)

(* match: a chain of equality tests; every arm leaves for the end, and     *)
(* nothing after a wildcard arm is compiled.                               *)
LeaveArm(c, end) == JumpTo(c, end)
Arms(c, subject, arms, end) ==
  IF arms = <<>> THEN c
  ELSE IF IsWildcard(Head(arms).pattern) THEN Lowered(c, Head(arms).body)
  ELSE LET next   == LabelAt("arm", c.n + 1)
           tested == Emit(Counted(c, 1), "COMPARE",
                       <<Encoded(subject), Encoded(Head(arms).pattern), Kind("eq")>>)
           body   == Lowered(JumpUnless(tested, next), Head(arms).body)
       IN Arms(Label(LeaveArm(body, end), next), subject, Tail(arms), end)
Match(c, st) ==
  LET end == LabelAt("endmatch", c.n + 1)
  IN Label(Arms(Counted(c, 1), st.subject, st.arms, end), end)

(* try: nothing jumps to the catch label; both paths meet before finally.  *)
TryCatch(c, st) ==
  LET catch == LabelAt("catch", c.n + 1)
      join  == LabelAt(IF st.finally = <<>> THEN "try_end" ELSE "finally", c.n + 2)
      tried == JumpTo(Lowered(Counted(c, 2), st.body), join)
      met   == Label(Lowered(Label(tried, catch), st.catch), join)
  IN Optional(met, st.finally)

Atomic(c, st) == Lowered(Label(Counted(c, 1), LabelAt("atomic", c.n + 1)), st.body)

Lower(c0, st) ==
  LET c == StrictChecked(c0, st)
  IN CASE st.s = "let"    -> Let(c, st.x, st.type, st.v)
       [] st.s = "assign" -> Assignment(c, st.target, st.op, st.v)
       [] st.s = "if"     -> If(c, st)
       [] st.s = "for"    -> For(c, st)
       [] st.s = "while"  -> While(c, st)
       [] st.s = "match"  -> Match(c, st)
       [] st.s = "return" -> Returned(c, st.v)
       [] st.s = "atomic" -> Atomic(c, st)
       [] st.s = "assert" -> Discard(c, st.cond)
       [] st.s = "expr"   -> Discard(c, st.v)
       [] st.s = "emit"   -> Emit(c, "STORE", <<Named("__event__"), <<"lit", st.event>>>>)
       [] st.s = "try"    -> TryCatch(c, st)
       [] st.s = "asm"    -> AsmBlock(c, st.instrs)
       [] st.s = "opcode" -> OpcodeInstr(c, st.op, st.operands)
       [] OTHER           -> Emit(c, "SKIP", <<>>)

-----------------------------------------------------------------------------
(* Declarations.                                                           *)

(* The registry as the compiler asks it: any used module for an override,  *)
(* the first used module for a plain function.                             *)
Exposes(m, f) == m \in DOMAIN Registry /\ f \in DOMAIN Registry[m]
CanOverride(used, f) ==
  \E i \in DOMAIN used : Exposes(used[i], f) /\ Registry[used[i]][f].overridable
IsSealed(used, f) ==
  \E i \in DOMAIN used : /\ Exposes(used[i], f) /\ ~Registry[used[i]][f].overridable
                        /\ \A j \in 1 .. i - 1 : ~Exposes(used[j], f)

IgnoresSealed(f, used) ==                                          \* mutant
  f.override => CanOverride(used, f.name)
CapabilityAllows(f, used) == IF f.override THEN CanOverride(used, f.name)
                             ELSE ~IsSealed(used, f.name)

(* Access attributes: the last of external, internal and system; the VM    *)
(* honours those and once, and strict refuses every other.                 *)
Honoured == {"external", "internal", "system", "once"}
AccessOf(f) ==
  LET given == SelectSeq(f.permissions, LAMBDA p : p \in Honoured \ {"once"})
  IN IF given = <<>> THEN "external" ELSE given[Len(given)]
PermissionsHonoured(f) == \A i \in DOMAIN f.permissions : f.permissions[i] \in Honoured

Opened(c, f, used) ==
  [c EXCEPT !.code = <<>>, !.framed = TRUE,
            !.errors = @ \cup (IF CapabilityAllows(f, used) THEN {} ELSE {"capability"})
                         \cup (IF PermissionsHonoured(f) THEN {} ELSE {"strict"})]
Filed(c, f) ==
  [c EXCEPT !.functions = Append(@,
     [name |-> f.name, params |-> f.params, code |-> c.code,
      override |-> f.override, access |-> AccessOf(f),
      once |-> \E i \in DOMAIN f.permissions : f.permissions[i] = "once",
      framed |-> c.framed])]
CompileFunction(c, f, used) == Filed(Lowered(Opened(c, f, used), f.body), f)

RECURSIVE CompileFunctions(_, _, _)
CompileFunctions(c, fs, used) ==
  IF fs = <<>> THEN c
  ELSE CompileFunctions(CompileFunction(c, Head(fs), used), Tail(fs), used)

(* implements: at least one interface; a registry name always means the    *)
(* registry's, and every required member has a function of its name and    *)
(* arity.                                                                  *)
LastInline(items, name) ==
  LET at == {i \in DOMAIN items : items[i].k = "interface" /\ items[i].name = name}
  IN items[CHOOSE i \in at : \A j \in at : j <= i]
IsInline(items, name) ==
  \E i \in DOMAIN items : items[i].k = "interface" /\ items[i].name = name
InlineMembers(items, name) ==
  {<<m.name, m.arity>> : m \in {n \in {LastInline(items, name).members[i] :
                                       i \in DOMAIN LastInline(items, name).members} :
                                n.required}}
InlineFirst(items, name) == IF IsInline(items, name) THEN InlineMembers(items, name)  \* mutant
                            ELSE Interfaces[name]
Required(items, name) == IF name \in DOMAIN Interfaces THEN Interfaces[name]
                         ELSE InlineMembers(items, name)
Provides(p, member) ==
  \E i \in DOMAIN p.functions :
    p.functions[i].name = member[1] /\ Len(p.functions[i].params) = member[2]
Implements(p, items) ==
  /\ p.implements # <<>>
  /\ \A i \in DOMAIN p.implements :
       /\ p.implements[i] \in DOMAIN Interfaces \/ IsInline(items, p.implements[i])
       /\ \A m \in Required(items, p.implements[i]) : Provides(p, m)

Begun(c, p, items) ==
  [c EXCEPT !.syms = {}, !.functions = <<>>,
            !.errors = @ \cup (IF Implements(p, items) THEN {} ELSE {"interface"})]
Ended(c, p, used) ==
  [c EXCEPT !.programs = Append(@,
     [name |-> p.name, implements |-> p.implements, storage |-> p.storage,
      functions |-> c.functions, syms |-> c.syms, used |-> used])]
CompileProgram(c, p, items, used) ==
  Ended(CompileFunctions(Begun(c, p, items), p.functions, used), p, used)

RECURSIVE CompilePrograms(_, _, _, _)
CompilePrograms(c, ps, items, used) ==
  IF ps = <<>> THEN c
  ELSE CompilePrograms(CompileProgram(c, Head(ps), items, used), Tail(ps), items, used)

(* Every use and every interface of the merged file is gathered first.     *)
UsedModules(items) ==
  LET uses == SelectSeq(items, LAMBDA item : item.k = "use")
  IN [i \in DOMAIN uses |-> uses[i].module]
IsProgram(item) == item.k = "program"
CompiledUnit(c) == [programs |-> c.programs, errors |-> c.errors]
CompileUnit(items) ==
  CompiledUnit(CompilePrograms(Fresh, SelectSeq(items, IsProgram), items,
                               UsedModules(items)))

(* compile_ast and compile_ast_strict.                                     *)
Accepted(unit, strict) == unit.errors \ (IF strict THEN {} ELSE {"strict"}) = {}

=============================================================================
