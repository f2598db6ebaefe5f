--------------------------- MODULE MCBranchReplay ---------------------------
(***************************************************************************)
(* A program worth branching: what follows its ASK reads the stack, the    *)
(* storage, the knowledge store and an @once function; and one that reads  *)
(* the name table: its mention is a register no literal spells, and only   *)
(* a host call of helper gives it a spelling.                              *)
(***************************************************************************)
EXTENDS MCCubeVM, BranchReplay

Choose == Fun(<<"m">>, <<
  Ins("QUERY", <<R("m")>>), Ins("POP", <<R("hits")>>),
  Ins("PUSH", <<R("m")>>), Ins("STORE", <<R("m"), N("k")>>),
  Ins("ASK", <<S("unnamed"), R("hits")>>), Ins("POP", <<R("x")>>),
  Ins("POP", <<R("m")>>), Ins("COMPARE", <<R("m"), S("moon")>>),
  Ins("COND", <<N("end")>>),
  Ins("STORE", <<R("x"), N("k")>>), Ins("CALL", <<N("seal")>>),
  Ins("LABEL", <<N("end")>>),
  Ins("QUERY", <<S("mars")>>), Ins("POP", <<R("hits")>>),
  Ins("RECALL", <<R("m"), N("k")>>), Ins("RETURN", <<R("hits")>>)>>)
Seal == [Fun(<<>>, <<Ins("RETURN", <<I(1)>>)>>) EXCEPT !.once = TRUE]
Mentions == Fun(<<"m">>, <<
  Ins("ASK", <<S("unnamed"), S("luna")>>), Ins("POP", <<R("x")>>),
  Ins("QUERY", <<R("mars")>>), Ins("POP", <<R("hits")>>),
  Ins("RETURN", <<R("hits")>>)>>)
Helper == Fun(<<"mars">>, <<Ins("RETURN", <<R("arg0")>>)>>)
MCBranching == {Prog([choose |-> Choose, seal |-> Seal], <<>>),
                Prog([choose |-> [Choose EXCEPT !.code[11] = Ins("SKIP", <<>>)]],
                 <<>>),
                Prog([choose |-> Mentions, helper |-> Helper], <<>>)}

MCBranchLimits == {[ops |-> 0, queries |-> 0, jumps |-> 8, wall |-> FALSE]}
MCBranchReg    == MCReg \cup {"mars"}
MCBranchFn     == {"choose", "helper"}
MCBranchArgs   == {<<StrV("moon")>>}

=============================================================================
