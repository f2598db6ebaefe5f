------------------------------ MODULE MCCubeVM ------------------------------
(***************************************************************************)
(* Small programs, stores and budgets for model-checking CubeVM.  The      *)
(* programs have the shapes the compiler emits (CALL then POP, COMPARE     *)
(* then COND, labels around a loop) plus the bytecode that reaches each    *)
(* error of the interpreter.                                               *)
(***************************************************************************)
EXTENDS CubeVM

R(r) == <<"reg", r>>
I(n) == <<"imm", n>>
S(s) == <<"lit", s>>
N(n) == <<"name", n>>
Ins(op, args) == [op |-> op, args |-> args]

MCSym == {"moon", "mars", "luna", "apollo", "text", "source", "equal", "less",
          "greater", "true", "false", "unnamed"}
MCSymRank == [s \in MCSym |->
  CASE s = "apollo" -> 1 [] s = "equal" -> 2 [] s = "false" -> 3 [] s = "greater" -> 4
    [] s = "less" -> 5 [] s = "luna" -> 6 [] s = "mars" -> 7 [] s = "moon" -> 8
    [] s = "source" -> 9 [] s = "text" -> 10 [] s = "true" -> 11 [] s = "unnamed" -> 12]
MCSymLen == [s \in MCSym |-> CASE s \in {"equal", "false"} -> 5
                              [] s \in {"apollo", "source"} -> 6
                              [] s \in {"greater", "unnamed"} -> 7
                              [] OTHER -> 4]

Fact(text) == MapV([NoEntries EXCEPT !["text"] = StrV(text), !["source"] = StrV("unnamed")])
MCKnowledge ==
  {[s \in MCSym |-> CASE s = "moon" -> <<Fact("luna"), Fact("apollo")>>
                      [] s = "mars" -> <<Fact("mars")>>
                      [] OTHER -> <<>>]}

MCRegistry == [demo |-> [greet  |-> [overridable |-> TRUE,  value |-> IntV(5)],
                         sealed |-> [overridable |-> FALSE, value |-> IntV(3)]]]

(* A program as the compiler leaves it: its symbols are the literals and   *)
(* the other names of its code that are no registers.                      *)
SymbolsOf(f) ==
  UNION {{f.code[k].args[i][2] : i \in {j \in DOMAIN f.code[k].args :
                                         f.code[k].args[j][1] \in {"lit", "name"}}}
           : k \in DOMAIN f.code}
Prog(fns, used) == [fns |-> fns, used |-> used,
                    syms |-> UNION {SymbolsOf(fns[f]) : f \in DOMAIN fns}]

Fun(params, code) == [params |-> params, code |-> code, once |-> FALSE,
                      access |-> "external", override |-> FALSE]

(* solve(m): one fact is the answer, several are asked about, none is a    *)
(* gap.  audit() recalls what solve stored, forgets it and looks again.    *)
Solve == Fun(<<"m">>, <<
  Ins("QUERY", <<R("m")>>), Ins("POP", <<R("hits")>>),
  Ins("LEN", <<R("x"), R("hits")>>),
  Ins("COMPARE", <<R("x"), I(1), N("gt")>>), Ins("COND", <<N("few")>>),
  Ins("ASK", <<S("unnamed"), R("hits")>>), Ins("POP", <<R("x")>>),
  Ins("JMP", <<N("keep")>>), Ins("LABEL", <<N("few")>>),
  Ins("COMPARE", <<R("x"), I(1)>>), Ins("COND", <<N("gap")>>),
  Ins("INDEX", <<R("x"), R("hits"), I(0)>>), Ins("LABEL", <<N("keep")>>),
  Ins("STORE", <<R("x"), N("k")>>), Ins("CALL", <<N("log"), R("x")>>),
  Ins("POP", <<R("hits")>>), Ins("SUM", <<R("x")>>), Ins("RETURN", <<>>),
  Ins("LABEL", <<N("gap")>>), Ins("RETURN", <<S("unnamed")>>)>>)
Log == Fun(<<>>, <<Ins("REMEMBER", <<R("arg0")>>), Ins("RETURN", <<R("arg0")>>)>>)
Audit == Fun(<<>>, <<
  Ins("RECALL", <<R("x"), N("k")>>), Ins("FORGET", <<N("k")>>),
  Ins("RECALL", <<R("hits"), N("k")>>), Ins("QUERY", <<S("mars")>>),
  Ins("POP", <<R("m")>>), Ins("SUM", <<R("hits")>>)>>)
SetUp == [Fun(<<>>, <<Ins("CREATE", <<R("x"), N("number")>>),
                      Ins("STORE", <<R("x"), N("k")>>), Ins("CALL", <<N("lock")>>),
                      Ins("POP", <<R("x")>>)>>)
            EXCEPT !.access = "system", !.once = TRUE]
Lock == [Fun(<<>>, <<Ins("STORE", <<R("m"), N("k")>>)>>)
            EXCEPT !.access = "internal", !.once = TRUE]
Grounding == Prog([constructor |-> SetUp, solve |-> Solve, audit |-> Audit,
                       log |-> Log, lock |-> Lock],
              <<>>)

(* Loops, recursion, overrides, and an ASK where it is not allowed.        *)
Count == Fun(<<"x">>, <<
  Ins("ASSIGN", <<R("x"), I(0)>>), Ins("LABEL", <<N("top")>>),
  Ins("COMPARE", <<R("x"), I(2), N("lt")>>), Ins("COND", <<N("end")>>),
  Ins("CALL", <<N("next"), R("x")>>), Ins("POP", <<R("x")>>),
  Ins("JMP", <<N("top")>>), Ins("LABEL", <<N("end")>>),
  Ins("RETURN", <<R("x")>>)>>)
Step1 == Fun(<<>>, <<Ins("COPY", <<R("arg0"), R("x")>>), Ins("ADD", <<R("x"), I(1)>>),
                     Ins("QUERY", <<S("moon")>>), Ins("POP", <<R("m")>>),
                     Ins("RETURN", <<R("x")>>)>>)
Spin == Fun(<<>>, <<Ins("LABEL", <<N("top")>>), Ins("SKIP", <<>>),
                    Ins("JMP", <<N("nowhere")>>), Ins("JMP", <<N("top")>>)>>)
Recur == Fun(<<>>, <<Ins("PUSH", <<R("m")>>), Ins("CALL", <<N("recur")>>),
                     Ins("POP", <<R("x")>>)>>)
Nested == Fun(<<>>, <<Ins("CALL", <<N("asks")>>)>>)
Asks == Fun(<<"m">>, <<Ins("ASK", <<S("unnamed"), S("luna"), S("mars")>>),
                       Ins("POP", <<R("x")>>), Ins("SUM", <<R("x")>>)>>)
Greets == Fun(<<>>, <<Ins("CALL", <<N("greet")>>), Ins("CALL", <<N("sealed")>>),
                      Ins("POP", <<R("x")>>), Ins("POP", <<R("m")>>),
                      Ins("CALL", <<N("nobody")>>)>>)
Greet == [Fun(<<>>, <<Ins("RETURN", <<I(1)>>)>>) EXCEPT !.override = TRUE]
Flow == Prog([count |-> Count, next |-> Step1, spin |-> Spin, recur |-> Recur,
                  nested |-> Nested, asks |-> Asks, greets |-> Greets,
                  greet |-> Greet, sealed |-> Greet],
         <<"demo">>)

(* The data opcodes and their errors.                                      *)
Data == Fun(<<>>, <<
  Ins("CREATE", <<R("hits"), N("array")>>), Ins("MAKE_ARRAY", <<R("hits"), I(2), I(3), S("luna")>>),
  Ins("SET_INDEX", <<R("hits"), I(2), I(4)>>), Ins("INDEX", <<R("x"), R("hits"), I(2)>>),
  Ins("SUB", <<R("x"), I(1)>>), Ins("MUL", <<R("x"), I(2)>>), Ins("DIV", <<R("x"), I(3)>>),
  Ins("NEWVAR", <<R("m")>>), Ins("TRANSFER", <<R("x"), R("m"), I(1)>>),
  Ins("CREATE", <<R("hits"), N("map")>>), Ins("SET_INDEX", <<R("hits"), S("text"), R("m")>>),
  Ins("INDEX", <<R("m"), R("hits"), S("text")>>), Ins("LEN", <<R("x"), R("m")>>),
  Ins("COMPARE", <<R("x"), N("unnamed"), N("truthy")>>), Ins("DESTROY", <<R("x")>>),
  Ins("PUSH", <<R("m")>>), Ins("POP", <<R("x")>>), Ins("POP", <<R("hits")>>),
  Ins("RETURN", <<R("x")>>)>>)
Faulty(ins) == Fun(<<>>, <<Ins("PUSH", <<R("m")>>), ins>>)
Values == Prog([data |-> Data, divide |-> Faulty(Ins("DIV", <<R("x"), R("x")>>)),
                    setindex |-> Faulty(Ins("SET_INDEX", <<R("x"), I(1), I(1)>>)),
                    unknown |-> Faulty(Ins("BOGUS", <<>>)),
                    callbad |-> Fun(<<>>, <<Ins("ASSIGN", <<R("m"), S("mars")>>),
                                            Ins("CALL", <<N("divide")>>)>>)],
           <<>>)

(* A question whose candidates are the facts of a mention nobody loaded.    *)
Gap == Prog([solve |-> Fun(<<"m">>, <<
                   Ins("QUERY", <<R("m")>>), Ins("POP", <<R("hits")>>),
                   Ins("ASK", <<S("unnamed"), R("hits")>>), Ins("POP", <<R("x")>>),
                   Ins("RETURN", <<R("x")>>)>>)],
        <<>>)

MCPrograms == {Grounding, Flow, Values}
MCGap      == {Gap}

MCReg == {"m", "hits", "x", "arg0", "__cmp"}
MCKey == {"k", "arg0"}
MCFnName == {"constructor", "solve", "audit", "lock", "count", "spin", "recur",
             "nested", "asks", "greets", "data", "callbad", "setindex", "unknown",
             "missing"}
MCHostArgs == {<<>>, <<StrV("moon")>>, <<StrV("mars")>>}
MCAnswers == {StrV("luna"), Fact("luna"), Fact("mars")}
MCArgReg == <<"arg0">>
MCLimits ==
  {[ops |-> 0, queries |-> 0, jumps |-> 3, wall |-> FALSE],
   [ops |-> 0, queries |-> 1, jumps |-> 8, wall |-> FALSE],
   [ops |-> 13, queries |-> 2, jumps |-> 8, wall |-> FALSE],
   [ops |-> 0, queries |-> 0, jumps |-> 8, wall |-> TRUE]}

=============================================================================
