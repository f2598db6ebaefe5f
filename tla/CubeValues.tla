----------------------------- MODULE CubeValues -----------------------------
(***************************************************************************)
(* The runtime values of the CubeLang VM (enum Value, src/src/vm/engine.rs)*)
(* and the pure functions the interpreter applies to them.                 *)
(*                                                                         *)
(* A value is a pair <<tag, payload>>.  Hypervectors and floats are not    *)
(* values of this module: the first are the subject of the frame model,    *)
(* the second of the numeric one.  Values nest two levels deep: an array   *)
(* holds scalars and maps, a map holds scalars.  That is the shape QUERY   *)
(* delivers (an array of fact maps); deeper nesting is outside the bound.  *)
(***************************************************************************)
EXTENDS Integers, Sequences

CONSTANTS
  Sym,        (* the strings a program, a fact or an answer can mention     *)
  SymRank,    (* their lexicographic order: [Sym -> Int], injective         *)
  SymLen,     (* their length in bytes: [Sym -> Nat]                        *)
  IntBound    (* integers are two's complement over -IntBound..IntBound-1   *)

ASSUME SymAssumption ==
  /\ {"equal", "less", "greater", "true", "false", "unnamed"} \subseteq Sym
  /\ Sym \subseteq STRING
  /\ SymRank \in [Sym -> Int]
  /\ \A s, t \in Sym : SymRank[s] = SymRank[t] => s = t
  /\ SymLen \in [Sym -> Nat]

ASSUME IntBoundAssumption == IntBound \in Nat \ {0, 1}

Integer == (-IntBound) .. (IntBound - 1)

(* An absent register, map key, storage key or memory trace.               *)
Unbound   == <<"unbound", 0>>

Null      == <<"null", 0>>
BoolV(b)  == <<"bool", b>>
IntV(n)   == <<"int", n>>
StrV(s)   == <<"str", s>>
ArrayV(s) == <<"array", s>>
MapV(f)   == <<"map", f>>

Scalar == {Null} \cup ({"bool"} \X BOOLEAN) \cup ({"int"} \X Integer)
                 \cup ({"str"} \X Sym)
Map    == {"map"} \X [Sym -> Scalar \cup {Unbound}]
Item   == Scalar \cup Map
Value  == Item \cup ({"array"} \X Seq(Item))

NoEntries == [s \in Sym |-> Unbound]

IsStr(v)   == v[1] = "str"
IsArray(v) == v[1] = "array"
IsMap(v)   == v[1] = "map"

(* i64 arithmetic of a release build. *)
Wrap(n) == ((n + IntBound) % (2 * IntBound)) - IntBound

(* Everything that is not a number or a boolean reads as zero. *)
AsI64(v) == IF v[1] = "int" THEN v[2]
            ELSE IF v[1] = "bool" THEN IF v[2] THEN 1 ELSE 0
            ELSE 0

(* num_binop on integer operands.  A quotient that is not integral becomes *)
(* a float in the code; here it is no Value, so no state reaches it.       *)
Exact(x, y)  == \E q \in Integer : q * y = x
BinOp(op, a, b) ==
  LET x == AsI64(a)
      y == AsI64(b)
  IN CASE op = "ADD" -> IntV(Wrap(x + y))
       [] op = "SUB" -> IntV(Wrap(x - y))
       [] op = "MUL" -> IntV(Wrap(x * y))
       [] op = "DIV" -> IF y # 0 /\ Exact(x, y)
                        THEN IntV(CHOOSE q \in Integer : q * y = x)
                        ELSE <<"float", <<x, y>>>>

(* COMPARE: two strings compare as strings, everything else as integers.   *)
Side(v, w) == IF IsStr(v) /\ IsStr(w) THEN SymRank[v[2]] ELSE AsI64(v)

Holds(kind, a, b) ==
  \/ kind = "eq" /\ a = b
  \/ kind = "ne" /\ a # b
  \/ kind = "lt" /\ a < b
  \/ kind = "le" /\ a <= b
  \/ kind = "gt" /\ a > b
  \/ kind = "ge" /\ a >= b
  \/ kind = "truthy" /\ a # 0

CmpWord(kind, a, b) ==
  IF kind \in {"eq", "ne"}
  THEN IF a = b THEN "equal" ELSE IF a < b THEN "less" ELSE "greater"
  ELSE IF Holds(kind, a, b) THEN "true" ELSE "false"

(* CREATE: the type is a hash in the bytecode and never reads "map" or     *)
(* "array", so a declared container starts Null like everything else.      *)
Initial == Null

(* LEN counts the elements of an array and the bytes of a string.          *)
LenOf(v) == IF IsArray(v) THEN Len(v[2])
            ELSE IF IsStr(v) THEN SymLen[v[2]]
            ELSE 0

(* The code reads and writes a map at key.as_str(); the model's map keys   *)
(* are strings, so a program that indexes a map by a number is outside it. *)
KeyFits(c, key) == IsMap(c) => IsStr(key)

(* INDEX never fails: a bad index or a missing key reads as Null.          *)
ElementAt(c, key) ==
  CASE IsArray(c) /\ AsI64(key) \in 0 .. Len(c[2]) - 1 -> c[2][AsI64(key) + 1]
    [] IsMap(c) /\ c[2][key[2]] # Unbound -> c[2][key[2]]
    [] OTHER -> Null

(* SET_INDEX: where it may write, and the container it leaves.             *)
CanSet(c, key) ==
  \/ IsMap(c)
  \/ IsArray(c) /\ AsI64(key) \in 0 .. Len(c[2])
  \/ c = Null /\ (IsStr(key) \/ AsI64(key) = 0)

Updated(c, key, v) ==
  CASE IsMap(c)   -> MapV([c[2] EXCEPT ![key[2]] = v])
    [] IsArray(c) -> ArrayV(IF AsI64(key) = Len(c[2]) THEN Append(c[2], v)
                            ELSE [c[2] EXCEPT ![AsI64(key) + 1] = v])
    [] c = Null   -> IF IsStr(key) THEN MapV([NoEntries EXCEPT ![key[2]] = v])
                     ELSE ArrayV(<<v>>)

=============================================================================
