---------------------------- MODULE MCToolchain ----------------------------
(***************************************************************************)
(* Projects for model-checking Toolchain: every composite statement around *)
(* every other around small leaves, then the programs and the file layouts *)
(* that reach each check, each error and each way a command can end.       *)
(***************************************************************************)
EXTENDS Toolchain

MCSym == {"moon", "mars", "equal", "less", "greater", "true", "false", "unnamed"}
MCSymRank == [s \in MCSym |->
  CASE s = "equal" -> 1 [] s = "false" -> 2 [] s = "greater" -> 3 [] s = "less" -> 4
    [] s = "mars" -> 5 [] s = "moon" -> 6 [] s = "true" -> 7 [] s = "unnamed" -> 8]
MCSymLen == [s \in MCSym |-> IF s \in {"moon", "mars", "less", "true"} THEN 4 ELSE 5]
MCRegistry == [demo |-> [greet  |-> [overridable |-> TRUE,  value |-> IntV(5)],
                         sealed |-> [overridable |-> FALSE, value |-> IntV(3)]],
               vsa  |-> [recover |-> [overridable |-> FALSE, value |-> Null]]]
MCInterfaces == [ISolve |-> {<<"solve", 1>>},
                 ISolver |-> {<<"parse", 1>>, <<"solve", 1>>, <<"verify", 2>>}]
MCKnowledge == {[s \in MCSym |-> <<>>]}
MCLimits == {[ops |-> 0, queries |-> 0, jumps |-> 60, wall |-> FALSE]}
MCReg == {"n", "x", "y", "z", "i", "j", "xs", "arg0", "arg1", "__cmp", "__event__",
          "__call_discard", "__return_call"}
           \cup {ForIndex(k) : k \in 1 .. 12} \cup {"__for_i"}
           \cup {"__for_n_" \o ToString(k) : k \in 1 .. 12}
           \cup {"__for_arr_" \o ToString(k) : k \in 1 .. 12}
MCArgReg == <<"arg0", "arg1">>
MCKey == {"Done", "x"}
MCCommands == {[verb |-> v, strict |-> s] : v \in {"run", "check", "compile"}, s \in {TRUE}}
                \cup {[verb |-> "validate", strict |-> TRUE], [verb |-> "run", strict |-> FALSE]}
MCLowerCase == [P |-> "p", p |-> "p", Q |-> "q"]

-----------------------------------------------------------------------------

I(n) == IntLit(n)
S(t) == StringLit(t)
V(x) == Ident(x)
Do1(f, args) == CallOf(V(f), args)
Let1(x, v) == LetStmt(x, "auto", v)
Set(x, v) == AssignStmt(V(x), "Eq", v)
Plus(x, v) == AssignStmt(V(x), "PlusEq", v)
Push1(x) == OpcodeStmt("PUSH", <<V(x)>>)

Solve(body) == FunctionDecl("solve", <<"n">>, body)
Helper == FunctionDecl("inc", <<"n">>,
            <<Plus("arg0", I(1)), EmitStmt("Done"), ReturnStmt(<<V("arg0")>>)>>)
Program(fns) == ProgramDecl("P", <<"ISolve">>, <<>>, fns)
Files(items, imports, resolve) ==
  [entry |-> "main.cube", target |-> "solve", args |-> <<StrV("moon")>>,
   resolve |-> (<<"cwd", "main.cube">> :> "main") @@ resolve,
   status  |-> [f \in File |-> "ok"], items |-> items, imports |-> imports]
NoItems == [f \in File |-> <<>>]
Unit(items) == Files([NoItems EXCEPT !["main"] = items], NoItems, <<>>)
Only(fns) == Unit(<<Program(fns)>>)
Body(stmts) == Only(<<Solve(stmts), Helper>>)

(* Every composite statement k1 around every k2, around two leaves.        *)
Leaves == << <<Plus("x", I(1)), Set("y", V("n"))>>,
             <<Let1("z", Do1("inc", <<V("x")>>)), ExprStmt(Do1("inc", <<V("y")>>))>>,
             <<ReturnStmt(<<V("x")>>), Push1("x")>> >>
Wrapped(k, x, a, b) ==
  CASE k = 1 -> IfStmt(Binary(V("x"), "Lt", I(2)), <<a>>, << <<b>> >>)
    [] k = 2 -> IfStmt(Binary(V("n"), "NotEq", S("moon")), <<a, b>>, <<>>)
    [] k = 3 -> WhileStmt(Binary(V("y"), "LtEq", I(1)), <<a, Plus("y", I(1)), b>>)
    [] k = 4 -> ForStmt(x, ArrayLit(<<I(2), V("n")>>), <<a, b>>)
    [] k = 5 -> ForStmt(x, V("xs"), <<a, b>>)
    [] k = 6 -> MatchStmt(V("x"), <<MatchArm(I(0), <<a>>), MatchArm(I(0), <<b>>),
                                    MatchArm(V("_"), <<b, a>>),
                                    MatchArm(I(7), <<Push1("y")>>)>>)
    [] k = 7 -> TryCatchStmt(<<a>>, <<Push1("y")>>, << <<b>> >>)
    [] k = 8 -> AtomicStmt(<<a, b>>)
Around(k1, k2, leaf) ==
  Body(<<Let1("x", I(0)), Let1("y", I(0)), Let1("xs", ArrayLit(<<I(3), I(4), I(5)>>)),
         Wrapped(k1, "i", Wrapped(k2, "j", leaf[1], leaf[2]), leaf[1]),
         Push1("i"), Push1("j"), Push1("z"), ReturnStmt(<<V("x")>>)>>)
Nested == [q \in 1 .. 8 * 8 * 3 |->
  Around(1 + ((q - 1) % 8), 1 + (((q - 1) \div 8) % 8), Leaves[1 + ((q - 1) \div 64)])]

(* Expressions, targets and opcodes.                                       *)
Simple == <<
  Body(<<ReturnStmt(<<Do1("inc", <<I(4)>>)>>)>>), Body(<<ReturnStmt(<<>>)>>), Body(<<>>),
  Body(<<Let1("xs", ArrayLit(<<S("moon"), NullLit, BoolLit(TRUE)>>)),
         AssignStmt(IndexOf(V("xs"), I(1)), "Eq", V("n")),
         LetStmt("x", "number", IndexOf(V("xs"), I(1))), Let1("y", MethodOf(V("xs"), "len", <<>>)),
         Push1("x"), ReturnStmt(<<V("y")>>)>>),
  Body(<<LetStmt("xs", "map", NullLit), LetStmt("y", "array", ArrayLit(<<>>)),
         AssignStmt(IndexOf(V("y"), I(2)), "Eq", I(1))>>),
  Body(<<Let1("x", I(6)), AssignStmt(V("x"), "SlashEq", I(2)), AssignStmt(V("x"), "StarEq", I(3)),
         AssignStmt(V("x"), "MinusEq", BoolLit(TRUE)), Push1("x"),
         AssignStmt(V("x"), "SlashEq", V("z"))>>),
  Body(<<MatchStmt(V("n"), <<MatchArm(S("mars"), <<Set("x", I(1))>>),
                             MatchArm(S("moon"), <<Set("x", I(2))>>)>>),
         OpcodeStmt("REMEMBER", <<V("x")>>), OpcodeStmt("POP", <<V("y")>>), Commit, Rollback,
         ReturnStmt(<<V("x")>>)>>),
  Body(<<AsmStmt(<<AsmInstr("PUSH", <<V("n")>>), AsmInstr("INFER", <<V("n")>>),
                   AsmInstr("POP", <<V("x")>>)>>), ReturnStmt(<<V("x")>>)>>),
  Body(<<WhileStmt(Binary(I(1), "Eq", I(1)), <<Commit>>)>>),
  Body(<<ExprStmt(Do1("solve", <<V("n")>>))>>), Body(<<ExprStmt(Do1("nobody", <<>>))>>),
  Body(<<OpcodeStmt("BINDROLE", <<V("n"), RoleRef("Q")>>),
         OpcodeStmt("BIND_ROLE", <<V("n"), RoleRef("Q"), V("n")>>)>>),
  Body(<<OpcodeStmt("ASK", <<S("moon"), S("mars"), V("n")>>), OpcodeStmt("POP", <<V("x")>>),
         MatchStmt(V("x"), <<MatchArm(S("mars"), <<ReturnStmt(<<V("x")>>)>>),
                             MatchArm(V("_"), <<OpcodeStmt("ASK", <<S("moon"), V("n")>>)>>)>>)>>)>>

(* What strict mode refuses, at the top and inside, and what no mode       *)
(* accepts.                                                                *)
Inert == <<ThrowStmt, AssertStmt(Binary(V("n"), "Eq", S("mars"))), ExprStmt(V("n")),
           OpcodeStmt("INFER", <<V("n")>>), OpcodeStmt("UNIFY", <<V("n"), V("n")>>)>>
Idle == [q \in 1 .. Len(Inert) |-> Body(<<Inert[q]>>)]
          \o [q \in 1 .. Len(Inert) |->
                Body(<<IfStmt(Binary(V("n"), "Eq", S("mars")), <<>>, << <<Inert[q]>> >>)>>)]
Refusals == <<
  Body(<<AssertStmt(Do1("inc", <<I(1)>>))>>), Body(<<Let1("x", Opaque)>>),
  Body(<<AssignStmt(IndexOf(V("x"), I(0)), "PlusEq", I(1))>>),
  Body(<<AssignStmt(CallOf(V("x"), <<>>), "Eq", I(1))>>),
  Body(<<ReturnStmt(<<Binary(V("n"), "Lt", I(1))>>)>>), Body(<<AsmStmt(<<AsmInstr("SET_INDEX", <<>>)>>)>>),
  Body(<<Let1("x", FieldOf(V("n"), "x")), AssignStmt(SelfAccess("x"), "Eq", I(1)), ReturnStmt(<<SelfAccess("x")>>)>>)>>

(* A condition that is no comparison.                                      *)
Bare == <<
  Body(<<IfStmt(V("n"), <<ReturnStmt(<<I(1)>>)>>, << <<ReturnStmt(<<I(2)>>)>> >>)>>),
  Body(<<IfStmt(BoolLit(TRUE), <<ReturnStmt(<<I(1)>>)>>, << <<ReturnStmt(<<I(2)>>)>> >>)>>),
  Body(<<Let1("x", I(3)), WhileStmt(V("x"), <<AssignStmt(V("x"), "MinusEq", I(1))>>),
         ReturnStmt(<<V("x")>>)>>)>>

(* A method called as a statement.                                         *)
Methods == <<
  Body(<<Let1("x", I(1)), ExprStmt(MethodOf(V("n"), "inc", <<V("x")>>)), ReturnStmt(<<V("x")>>)>>),
  Only(<<Solve(<<ExprStmt(MethodOf(V("n"), "keep", <<>>)), ReturnStmt(<<I(1)>>)>>),
         FunctionDecl("keep", <<>>, <<Push1("arg0"), ReturnStmt(<<I(2)>>)>>)>>)>>

-----------------------------------------------------------------------------

(* use, override, access attributes and interfaces.                        *)
Named1(name, body) == FunctionDecl(name, <<>>, body)
Override(f) == [f EXCEPT !.override = TRUE]
Marked(f, permissions) == [f EXCEPT !.permissions = permissions]
Asking(f) == Solve(<<Let1("x", Do1(f, <<>>)), ReturnStmt(<<V("x")>>)>>)
One == <<ReturnStmt(<<I(1)>>)>>
Uses(m, fns) == Unit(<<UseModule(m), Program(fns)>>)
Capabilities == <<
  Uses("demo", <<Asking("greet")>>), Uses("demo", <<Asking("greet"), Named1("greet", One)>>),
  Uses("demo", <<Asking("greet"), Override(Named1("greet", One))>>),
  Uses("demo", <<Asking("sealed"), Override(Named1("sealed", One))>>),
  Uses("demo", <<Asking("sealed"), Named1("sealed", One)>>),
  Uses("demo", <<Asking("recover"), Override(Named1("recover", One))>>),
  Uses("nosuch", <<Asking("sealed"), Named1("sealed", One)>>),
  Only(<<Asking("greet"), Named1("greet", One)>>), Only(<<Asking("greet"), Override(Named1("greet", One))>>),
  Only(<<Marked(Asking("inc"), <<"system", "external", "once">>), Marked(Helper, <<"internal", "once">>)>>),
  Only(<<Solve(<<ExprStmt(Do1("once", <<>>)), ExprStmt(Do1("once", <<>>))>>),
         Marked(Named1("once", One), <<"once">>)>>),
  Only(<<Marked(Solve(One), <<"internal">>)>>), Only(<<Marked(Solve(One), <<"view">>)>>),
  Only(<<Solve(<<OpcodeStmt("POP", <<V("x")>>), ReturnStmt(<<V("x")>>)>>),
         Marked(Named1("constructor", <<Let1("z", S("mars")), Push1("z"), EmitStmt("Done"),
                                        ReturnStmt(<<Do1("nobody", <<>>)>>)>>), <<"system", "once">>)>>),
  Only(<<Solve(One), Named1("constructor", <<OpcodeStmt("ASK", <<S("moon"), S("mars")>>)>>),
         Solve(<<ReturnStmt(<<I(2)>>)>>)>>),
  [Only(<<Solve(One)>>) EXCEPT !.target = "nobody"]>>

Implementing(which, items) ==
  Unit(items \o <<ProgramDecl("P", which, <<"x">>, <<Solve(One)>>)>>)
InterfaceCases == <<
  Implementing(<<>>, <<>>), Implementing(<<"ISolver">>, <<>>), Implementing(<<"INone">>, <<>>),
  Implementing(<<"ISolve", "IMine">>,
    <<InterfaceDecl("IMine", <<InterfaceMember("solve", 1, TRUE), InterfaceMember("plan", 2, FALSE)>>)>>),
  Implementing(<<"IMine">>, <<InterfaceDecl("IMine", <<InterfaceMember("solve", 2, TRUE)>>)>>),
  Implementing(<<"ISolver">>, <<InterfaceDecl("ISolver", <<InterfaceMember("solve", 1, TRUE)>>)>>)>>

(* Files that import each other.                                           *)
P1 == Program(<<Solve(One)>>)
Q1 == ProgramDecl("Q", <<"ISolve">>, <<>>, <<Solve(<<ReturnStmt(<<I(2)>>)>>), Override(Named1("greet", One))>>)
Of(main, lib, util) == [f \in File |-> CASE f = "main" -> main [] f = "lib" -> lib [] f = "util" -> util]
Paths == (<<"main", "lib.cube">> :> "lib") @@ (<<"main", "./lib.cube">> :> "lib")
           @@ (<<"main", "util.cube">> :> "util") @@ (<<"main", "gone.cube">> :> "nofile")
           @@ (<<"lib", "util.cube">> :> "util") @@ (<<"lib", "../main.cube">> :> "main")
           @@ (<<"util", "lib.cube">> :> "lib")
Diamond == Files(Of(<<P1>>, <<OtherDecl("Lib")>>, <<OtherDecl("Util"), ExtendBlock>>),
                 Of(<<"lib.cube", "./lib.cube", "util.cube">>, <<"util.cube", "../main.cube">>,
                    <<"lib.cube">>), Paths)
Importing == <<
  Diamond,
  [Diamond EXCEPT !.imports["util"] = <<>>, !.imports["main"] = <<"lib.cube">>],
  [Diamond EXCEPT !.imports["lib"] = <<"../main.cube">>, !.imports["main"] = <<"./lib.cube">>],
  [Diamond EXCEPT !.imports["lib"] = <<"../main.cube">>, !.imports["main"] = <<"./lib.cube", "util.cube">>],
  [Diamond EXCEPT !.imports["main"] = <<"util.cube", "gone.cube">>],
  [Diamond EXCEPT !.items["util"] = <<OtherDecl("Lib")>>],
  [Diamond EXCEPT !.items["util"] = <<OtherDecl("Util"), OtherDecl("Util")>>],
  [Diamond EXCEPT !.items["main"] = <<OtherDecl("P")>>],
  [Diamond EXCEPT !.items["lib"] = <<UseModule("demo"), Q1>>],
  [Diamond EXCEPT !.items["lib"] = <<Q1>>],
  [Diamond EXCEPT !.items["main"] = <<P1, ProgramDecl("Q", <<"ISolve">>, <<>>, <<Solve(<<>>)>>)>>],
  [Diamond EXCEPT !.items["main"] = <<P1, ProgramDecl("p", <<"ISolve">>, <<>>, <<Solve(<<>>)>>)>>],
  [Diamond EXCEPT !.items["main"] = <<>>],
  [Diamond EXCEPT !.status["util"] = "unreadable"], [Diamond EXCEPT !.status["lib"] = "garbled"],
  [Diamond EXCEPT !.status["main"] = "garbled"],
  [Diamond EXCEPT !.resolve[<<"cwd", "main.cube">>] = "nofile"]>>

MCProjects == Nested \o Simple \o Idle \o Refusals \o Bare \o Methods \o Capabilities
                \o InterfaceCases \o Importing

=============================================================================
