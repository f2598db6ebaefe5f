----------------------------- MODULE MCResident -----------------------------
(***************************************************************************)
(* One knowledge file with three possible contents: an alias after its     *)
(* facts; an alias of nothing, names that fold to nothing and a fact after *)
(* its alias; a bad last line.  The requests exclude a name by its         *)
(* canonical form and by its alias.                                        *)
(***************************************************************************)
EXTENDS Resident

MCSurface == {"Moon", "moon!", "Luna", "?"}
MCFactKey == {"moon", "luna"}
MCNormalize == [s \in MCSurface |-> CASE s \in {"Moon", "moon!"} -> "moon"
                                      [] s = "Luna" -> "luna"
                                      [] OTHER -> "blank"]
F(s, f) == [kind |-> "fact", name |-> s, fact |-> f]
A(s, c) == [kind |-> "alias", name |-> s, of |-> c]
Other(k) == [kind |-> k]

MCDoc == {<<F("Moon", "f1"), Other("none"), A("Luna", "moon!")>>,
          <<A("Luna", "Moon"), F("moon!", "f1"), A("Luna", "Moon"), F("?", "f1"),
            A("?", "Luna"), F("Moon", "f2")>>,
          <<F("Moon", "f2"), Other("bad")>>}

ByName == [compiles |-> TRUE, path |-> "facts", exclude |-> <<"moon!">>, assume |-> <<>>]
MCRequests ==
  {ByName,
   [ByName EXCEPT !.exclude = <<"Luna", "Moon">>, !.assume = <<F("Luna", "f2")>>],
   [ByName EXCEPT !.exclude = <<>>, !.assume = <<F("Luna", "f2"), Other("bad")>>],
   [ByName EXCEPT !.compiles = FALSE],
   [ByName EXCEPT !.path = "nopath"]}

=============================================================================
