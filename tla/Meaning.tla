------------------------------- MODULE Meaning -------------------------------
(***************************************************************************)
(* What a program means, told from its source: the abstract specification  *)
(* the compiler and the virtual machine together implement.  Names, not    *)
(* registers; loops, not labels and jumps; calls that return a value, not  *)
(* a stack.                                                                *)
(*                                                                         *)
(* An activation is a record: env binds names; stack and store outlive     *)
(* it; entered are the once functions begun; end is "go" while statements  *)
(* follow, else "return", "error", "never" (a statement the machine does   *)
(* not execute was reached) or "open" (the language leaves the outcome     *)
(* unspecified, or fuel ran out).  truthy, method and asm note that a bare *)
(* condition was tested, a method called as a statement, or the run ended  *)
(* in an asm block.                                                        *)
(***************************************************************************)
EXTENDS Compiler

CONSTANT Fuel   \* bound: loop turns and calls a meaning is worked out for

Unspecified == <<"unspecified", 0>>
Blank == [env |-> NoRegisters, stack |-> <<>>, store |-> [k \in Key |-> Unbound],
          entered |-> {}, end |-> "go", value |-> Null, truthy |-> FALSE,
          method |-> FALSE, asm |-> FALSE, fuel |-> Fuel]
Goes(s) == s.end = "go"
Ends(s, how) == [s EXCEPT !.end = how]

(* A name nothing is bound to reads as the default of its place.           *)
Bound(s, x, default) == IF s.env[x] = Unbound THEN default ELSE s.env[x]
Read(s, x, default) ==
  CASE x.e = "int"  -> IntV(x.n)
    [] x.e = "str"  -> StrV(x.text)
    [] x.e = "bool" -> IntV(IF x.b THEN 1 ELSE 0)
    [] x.e = "null" -> IntV(0)
    [] x.e \in {"ident", "self"} -> Bound(s, x.name, default)
    [] OTHER -> default
Listed(s, xs) == [i \in DOMAIN xs |-> Read(s, xs[i], Null)]
Binding(s, x, v) == IF v = Unspecified THEN Ends(s, "open")
                    ELSE [s EXCEPT !.env[x] = v]

IsComparison(cond) == cond.e = "bin"
True(s, cond) ==
  IF IsComparison(cond)
  THEN LET l == Read(s, cond.l, IntV(0))
           r == Read(s, cond.r, IntV(0))
       IN Holds(CompareKind[cond.op], Side(l, r), Side(r, l))
  ELSE AsI64(Read(s, cond, IntV(0))) # 0
Tested(s, cond) == [s EXCEPT !.truthy = @ \/ ~IsComparison(cond)]

(* Names resolve to the used modules' functions unless the program         *)
(* overrides one that allows it, and to the program's own otherwise.       *)
Own(p, f)  == {i \in DOMAIN p.functions : p.functions[i].name = f}
Decl(p, f) == p.functions[CHOOSE i \in Own(p, f) : \A j \in Own(p, f) : i <= j]
Modules(p, f) == {i \in DOMAIN p.used : Exposes(p.used[i], f)}
NativeOf(p, f) == Registry[p.used[CHOOSE i \in Modules(p, f) :
                                    \A j \in Modules(p, f) : i <= j]][f]
MeansNative(p, f) == /\ Modules(p, f) # {}
                     /\ ~(/\ Own(p, f) # {} /\ Decl(p, f).override
                          /\ NativeOf(p, f).overridable)
IsOnce(f) == \E i \in DOMAIN f.permissions : f.permissions[i] = "once"

Positional(args) ==
  [r \in Reg |-> LET at == {i \in DOMAIN args \cap DOMAIN ArgReg : ArgReg[i] = r}
                 IN IF at = {} THEN Unbound ELSE args[CHOOSE i \in at : TRUE]]

RECURSIVE Do(_, _, _), Block(_, _, _), Turns(_, _, _, _, _), Rounds(_, _, _),
          Chosen(_, _, _, _), Asm(_, _)
Block(p, body, s) == IF body = <<>> \/ ~Goes(s) THEN s
                     ELSE Block(p, Tail(body), Do(p, Head(body), s))

(* A call: its value is in .value, and the caller's names are as before.   *)
Enters(p, f, env, s) ==
  IF s.fuel = 0 THEN Ends(s, "open")
  ELSE IF IsOnce(f) /\ f.name \in s.entered THEN Ends(s, "error")
  ELSE Block(p, f.body,
         [s EXCEPT !.env = env, !.fuel = @ - 1,
                   !.entered = IF IsOnce(f) THEN @ \cup {f.name} ELSE @])
Calls(p, callee, args, s) ==
  LET f == callee.name
      r == Enters(p, Decl(p, f), Positional(Listed(s, args)), s)
  IN IF MeansNative(p, f) THEN [s EXCEPT !.value = NativeOf(p, f).value]
     ELSE IF Own(p, f) = {} THEN Ends(s, "error")
     ELSE [r EXCEPT !.env = s.env,
                    !.value = IF r.end = "return" THEN @ ELSE Unspecified,
                    !.end = IF @ = "return" THEN "go" ELSE @]
CallBound(p, call, x, s) ==
  LET r == Calls(p, call.callee, call.args, s)
  IN IF Goes(r) THEN Binding(r, x, r.value) ELSE r

Evaluated(p, st, s) ==
  LET v == st.v IN
  CASE v.e = "call"  -> CallBound(p, v, st.x, s)
    [] v.e = "array" -> Binding(s, st.x, ArrayV(Listed(s, v.elems)))
    [] v.e = "method" -> Binding(s, st.x, IntV(LenOf(Bound(s, v.obj.name, Null))))
    [] v.e = "index" -> Binding(s, st.x, ElementAt(Bound(s, v.base.name, Null),
                                                   Read(s, v.key, IntV(0))))
    [] OTHER -> Binding(s, st.x, Read(s, v, Null))

Assigned(st, s) ==
  LET target == IF st.target.e = "index" THEN st.target.base.name ELSE st.target.name
      old == Bound(s, target, IF st.target.e = "index" THEN Null ELSE IntV(0))
      n   == Read(s, st.v, IntV(0))
      key == Read(s, st.target.key, IntV(0))
  IN IF st.target.e = "index"
     THEN IF CanSet(old, key) THEN Binding(s, target, Updated(old, key, Read(s, st.v, Null)))
          ELSE Ends(s, "error")
     ELSE CASE st.op = "Eq"      -> Binding(s, target, Read(s, st.v, Null))
            [] st.op = "PlusEq"  -> Binding(s, target, BinOp("ADD", old, n))
            [] st.op = "MinusEq" -> Binding(s, target, BinOp("SUB", old, n))
            [] st.op = "StarEq"  -> Binding(s, target, BinOp("MUL", old, n))
            [] OTHER -> IF AsI64(n) = 0 THEN Ends(s, "error")
                        ELSE Binding(s, target, BinOp("DIV", old, n))

(* for: as many turns as there are elements at the start, each reading its *)
(* element when it comes.                                                  *)
Turns(p, st, i, n, s) ==
  LET xs == IF st.iter.e = "ident" THEN Bound(s, st.iter.name, Null)
            ELSE ArrayV(Listed(s, st.iter.elems))
      r  == Block(p, st.body,
              [Binding(s, st.x, ElementAt(xs, IntV(i))) EXCEPT !.fuel = @ - 1])
  IN IF i = n \/ ~Goes(s) THEN s
     ELSE IF s.fuel = 0 THEN Ends(s, "open")
     ELSE Turns(p, st, i + 1, n, r)
Rounds(p, st, s0) ==
  LET s == Tested(s0, st.cond)
  IN IF ~Goes(s) \/ ~True(s, st.cond) THEN s
     ELSE IF s.fuel = 0 THEN Ends(s, "open")
     ELSE Rounds(p, st, Block(p, st.body, [s EXCEPT !.fuel = @ - 1]))
Chosen(p, st, arms, s) ==
  LET subject == Read(s, st.subject, IntV(0))
      pattern == Read(s, Head(arms).pattern, IntV(0))
  IN IF arms = <<>> THEN s
     ELSE IF IsWildcard(Head(arms).pattern) \/ Side(subject, pattern) = Side(pattern, subject)
     THEN Block(p, Head(arms).body, s)
     ELSE Chosen(p, st, Tail(arms), s)

Effect(op, xs, s) ==
  CASE op = "PUSH" -> [s EXCEPT !.stack = Append(@, Read(s, xs[1], Null))]
    [] op = "POP"  -> [Binding(s, xs[1].name, IF s.stack = <<>> THEN Null
                                              ELSE s.stack[Len(s.stack)])
                         EXCEPT !.stack = IF @ = <<>> THEN <<>>
                                          ELSE SubSeq(@, 1, Len(@) - 1)]
    [] op = "REMEMBER" -> [s EXCEPT !.store[xs[1].name] = Read(s, xs[1], Null)]
    [] op \in TraceOnly \cup {"UNIFY"} -> Ends(s, "never")
    [] op \in Structural -> s
    [] OTHER -> Ends(s, "open")
Asm(instrs, s) == IF instrs = <<>> \/ ~Goes(s) THEN s
                  ELSE Asm(Tail(instrs), Effect(Head(instrs).mnemonic,
                                                Head(instrs).operands, s))

(* A discarded call leaves nothing behind but its effects.  The receiver   *)
(* of a method is its first argument.                                      *)
Discarded(p, x, s) ==
  IF x.e = "call" THEN Calls(p, x.callee, x.args, s)
  ELSE IF x.e = "method"
  THEN Calls(p, Ident(x.name), <<x.obj>> \o x.args, [s EXCEPT !.method = TRUE])
  ELSE Ends(s, "never")
Gives(p, v, s) ==
  LET r == Calls(p, v[1].callee, v[1].args, s)
  IN CASE v = <<>> -> Ends([s EXCEPT !.value = Unspecified], "return")
       [] v # <<>> /\ v[1].e = "call" ->
            IF Goes(r) THEN Ends(r, IF r.value = Unspecified THEN "open" ELSE "return") ELSE r
       [] OTHER -> Ends([s EXCEPT !.value = Read(s, v[1], IntV(0))], "return")

Do(p, st, s) ==
  CASE st.s = "let"    -> Evaluated(p, st, s)
    [] st.s = "assign" -> Assigned(st, s)
    [] st.s = "if"     -> LET t == Tested(s, st.cond)
                          IN IF True(s, st.cond) THEN Block(p, st.body, t)
                             ELSE IF st.els = <<>> THEN t ELSE Block(p, st.els[1], t)
    [] st.s = "for"    -> Turns(p, st, 0, IF st.iter.e = "ident"
                                          THEN LenOf(Bound(s, st.iter.name, Null))
                                          ELSE Len(st.iter.elems), s)
    [] st.s = "while"  -> Rounds(p, st, s)
    [] st.s = "match"  -> Chosen(p, st, st.arms, s)
    [] st.s = "return" -> Gives(p, st.v, s)
    [] st.s = "atomic" -> Block(p, st.body, s)
    [] st.s = "assert" -> Discarded(p, st.cond, s)
    [] st.s = "expr"   -> Discarded(p, st.v, s)
    [] st.s = "emit"   -> [s EXCEPT !.store[st.event] = Null]
    [] st.s = "try"    -> LET tried == Block(p, st.body, s)
                          IN IF st.finally = <<>> THEN tried
                             ELSE IF tried.end = "return" THEN Ends(tried, "open")
                             ELSE Block(p, st.finally[1], tried)
    [] st.s = "asm"    -> LET r == Asm(st.instrs, s) IN [r EXCEPT !.asm = ~Goes(r)]
    [] st.s = "opcode" -> Effect(st.op, st.operands, s)
    [] st.s \in {"commit", "rollback"} -> s
    [] OTHER -> Ends(s, "never")

(* The constructor if there is one, whatever becomes of it, then the       *)
(* function asked for, with its parameters bound by name and position.     *)
Parameters(f, args) ==
  [r \in Reg |-> LET at == {i \in DOMAIN args \cap DOMAIN f.params : f.params[i] = r}
                 IN IF at = {} THEN Positional(args)[r] ELSE args[CHOOSE i \in at : TRUE]]
Entered(p, f, args, s) ==
  IF Own(p, f) = {} THEN s ELSE Enters(p, Decl(p, f), Parameters(Decl(p, f), args), s)
MeaningOf(p, f, args) ==
  LET built == Entered(p, "constructor", <<>>, Blank)
  IN IF built.end \in {"never", "open"} THEN built
     ELSE IF Own(p, f) = {} \/ AccessOf(Decl(p, f)) # "external" THEN Ends(built, "error")
     ELSE Entered(p, f, args, [built EXCEPT !.end = "go"])

=============================================================================
