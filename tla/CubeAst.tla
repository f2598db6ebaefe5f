------------------------------- MODULE CubeAst -------------------------------
(***************************************************************************)
(* The syntax trees the compiler, the import loader and the validator are  *)
(* handed (src/src/ast.rs), as records.  Source positions, defaults and    *)
(* types the compiler never looks at are left out, and so are float        *)
(* literals; an optional part is a sequence of at most one element.        *)
(***************************************************************************)

(* Expr.  "opaque" stands for the forms the compiler never looks into:     *)
(* unary operators, struct and map literals, lambdas, await, deploy, proxy.*)
IntLit(n)            == [e |-> "int", n |-> n]
StringLit(t)         == [e |-> "str", text |-> t]
BoolLit(b)           == [e |-> "bool", b |-> b]
NullLit              == [e |-> "null"]
Ident(x)             == [e |-> "ident", name |-> x]
SelfAccess(f)        == [e |-> "self", name |-> f]
FieldOf(base, f)     == [e |-> "field", base |-> base, name |-> f]
IndexOf(base, key)   == [e |-> "index", base |-> base, key |-> key]
CallOf(callee, args) == [e |-> "call", callee |-> callee, args |-> args]
MethodOf(obj, m, args) == [e |-> "method", obj |-> obj, name |-> m, args |-> args]
Binary(l, op, r)     == [e |-> "bin", l |-> l, op |-> op, r |-> r]
ArrayLit(elems)      == [e |-> "array", elems |-> elems]
Opaque               == [e |-> "opaque"]
(* Operands only opcode statements and asm have: a role and a type.        *)
RoleRef(r)           == [e |-> "role", name |-> r]
TypeRef(t)           == [e |-> "type", name |-> t]

(* Stmt. *)
LetStmt(x, type, v)       == [s |-> "let", x |-> x, type |-> type, v |-> v]
AssignStmt(target, op, v) == [s |-> "assign", target |-> target, op |-> op, v |-> v]
IfStmt(cond, then, els)   == [s |-> "if", cond |-> cond, body |-> then, els |-> els]
ForStmt(x, iter, body)    == [s |-> "for", x |-> x, iter |-> iter, body |-> body]
WhileStmt(cond, body)     == [s |-> "while", cond |-> cond, body |-> body]
MatchStmt(subject, arms)  == [s |-> "match", subject |-> subject, arms |-> arms]
MatchArm(pattern, body)   == [pattern |-> pattern, body |-> body]
ReturnStmt(v)             == [s |-> "return", v |-> v]
AtomicStmt(body)          == [s |-> "atomic", body |-> body]
Commit                    == [s |-> "commit"]
Rollback                  == [s |-> "rollback"]
ThrowStmt                 == [s |-> "throw"]
AssertStmt(cond)          == [s |-> "assert", cond |-> cond]
ExprStmt(v)               == [s |-> "expr", v |-> v]
EmitStmt(event)           == [s |-> "emit", event |-> event]
TryCatchStmt(body, catch, finally) ==
  [s |-> "try", body |-> body, catch |-> catch, finally |-> finally]
AsmInstr(mnemonic, operands) == [mnemonic |-> mnemonic, operands |-> operands]
AsmStmt(instrs)           == [s |-> "asm", instrs |-> instrs]
OpcodeStmt(op, operands)  == [s |-> "opcode", op |-> op, operands |-> operands]

(* Declarations.  "decl" stands for the items that only declare a name:    *)
(* containers, structs, enums, type aliases and events.                    *)
FunctionDecl(name, params, body) ==
  [name |-> name, params |-> params, permissions |-> <<>>, override |-> FALSE,
   body |-> body]
InterfaceMember(name, arity, required) ==
  [name |-> name, arity |-> arity, required |-> required]
InterfaceDecl(name, members) == [k |-> "interface", name |-> name, members |-> members]
ProgramDecl(name, implements, storage, functions) ==
  [k |-> "program", name |-> name, implements |-> implements,
   storage |-> storage, functions |-> functions]
OtherDecl(name)   == [k |-> "decl", name |-> name]
ExtendBlock       == [k |-> "extend"]
UseModule(module) == [k |-> "use", module |-> module]

=============================================================================
