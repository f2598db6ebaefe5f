---------------------------- MODULE MCRunRequest ----------------------------
(***************************************************************************)
(* Requests and programs for RunRequest: a program that asks twice and     *)
(* whose second question depends on what it stored, and constructors that  *)
(* ask, loop and query.                                                    *)
(***************************************************************************)
EXTENDS MCCubeVM, RunRequest

Ctor(code) == [Fun(<<>>, code) EXCEPT !.access = "system", !.once = TRUE]

(* The first question is about the moon unless something is stored.        *)
Twice == Fun(<<"m">>, <<
  Ins("RECALL", <<R("x"), N("k")>>),
  Ins("LEN", <<R("x"), R("x")>>),
  Ins("COMPARE", <<R("x"), I(0), N("gt")>>), Ins("COND", <<N("first")>>),
  Ins("ASK", <<S("text"), S("luna"), S("mars")>>), Ins("LABEL", <<N("first")>>),
  Ins("QUERY", <<R("m")>>), Ins("POP", <<R("hits")>>),
  Ins("ASK", <<S("source"), R("hits")>>), Ins("POP", <<R("hits")>>),
  Ins("ASK", <<S("unnamed"), S("luna"), S("mars")>>), Ins("POP", <<R("x")>>),
  Ins("STORE", <<R("x"), N("k")>>),
  Ins("COMPARE", <<R("x"), S("mars")>>), Ins("COND", <<N("end")>>),
  Ins("LABEL", <<N("loop")>>), Ins("JMP", <<N("loop")>>),
  Ins("LABEL", <<N("end")>>),
  Ins("ASK", <<S("text"), R("hits"), R("x")>>), Ins("RETURN", <<R("x")>>)>>)
Hidden == [Fun(<<>>, <<Ins("RETURN", <<I(1)>>)>>) EXCEPT !.access = "internal"]

WithCtor(code) == Prog([constructor |-> Ctor(code), solve |-> Twice, hidden |-> Hidden],
                   <<>>)
(* A constructor that calls itself, and a function that calls another in  *)
(* a loop: the jumps of one activation do not count against another's.     *)
Restless ==
  Prog([constructor |-> Ctor(<<Ins("CALL", <<N("recur")>>)>>),
            recur |-> Fun(<<>>, <<Ins("CALL", <<N("recur")>>)>>),
            solve |-> Fun(<<"m">>, <<
              Ins("LABEL", <<N("loop")>>), Ins("CALL", <<N("hidden")>>),
              Ins("POP", <<R("x")>>), Ins("JMP", <<N("loop")>>)>>),
            hidden |-> [Fun(<<>>, <<
              Ins("LABEL", <<N("loop")>>), Ins("COMPARE", <<R("x"), I(0), N("ne")>>),
              Ins("COND", <<N("loop")>>), Ins("JMP", <<N("nowhere")>>),
              Ins("RETURN", <<I(1)>>)>>) EXCEPT !.access = "internal"]],
   <<>>)
MCServed ==
  {Prog([solve |-> Twice, hidden |-> Hidden], <<>>),
   WithCtor(<<Ins("QUERY", <<S("moon")>>), Ins("POP", <<R("hits")>>),
              Ins("ASK", <<S("unnamed"), S("luna")>>)>>),
   WithCtor(<<Ins("LABEL", <<N("loop")>>), Ins("QUERY", <<S("moon")>>),
              Ins("JMP", <<N("loop")>>)>>),
   Restless}

Opening == [compiles |-> TRUE, readable |-> TRUE, assumable |-> TRUE,
            fn |-> "solve", args |-> <<StrV("moon")>>, answers |-> <<>>,
            exclude |-> {}, assume |-> [s \in MCSym |-> <<>>]]
Assumed == [s \in MCSym |-> IF s = "moon" THEN <<Fact("mars")>> ELSE <<>>]
MCRequests ==
  {Opening,
   [Opening EXCEPT !.compiles = FALSE], [Opening EXCEPT !.readable = FALSE],
   [Opening EXCEPT !.assumable = FALSE],
   [Opening EXCEPT !.fn = "hidden"], [Opening EXCEPT !.fn = "missing"],
   [Opening EXCEPT !.fn = "constructor", !.answers = <<StrV("luna")>>],
   [Opening EXCEPT !.exclude = {"moon"}],
   [Opening EXCEPT !.exclude = {"moon"}, !.assume = Assumed],
   [Opening EXCEPT !.assume = Assumed],
   [Opening EXCEPT !.answers = <<Garbled>>],
   [Opening EXCEPT !.answers = <<StrV("apollo")>>],
   [Opening EXCEPT !.answers = <<Fact("luna"), StrV("luna"), StrV("luna"), StrV("luna")>>]}

MCRequestLimits ==
  {[ops |-> 0, queries |-> 0, jumps |-> 3, wall |-> FALSE],
   [ops |-> 0, queries |-> 1, jumps |-> 3, wall |-> FALSE],
   [ops |-> 12, queries |-> 0, jumps |-> 3, wall |-> FALSE],
   [ops |-> 0, queries |-> 0, jumps |-> 3, wall |-> TRUE]}

=============================================================================
