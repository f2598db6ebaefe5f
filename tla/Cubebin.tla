------------------------------ MODULE Cubebin ------------------------------
(***************************************************************************)
(* The .cubebin format (to_cubebin and from_cubebin of                     *)
(* src/src/compiler.rs) as a stream of tokens: counts, which are one byte, *)
(* names, bytecode, and the symbol table with its two-byte count.  Access, *)
(* once, override and the used modules are not in the format.              *)
(***************************************************************************)
EXTENDS Naturals, Sequences

CONSTANT ByteBase   (* what a count in one byte wraps at: 256              *)

ASSUME ByteBaseAssumption == ByteBase \in Nat \ {0}

Count(n)  == <<"count", n % ByteBase>>
NameToken(x)  == <<"text", x>>
Names(xs) == <<Count(Len(xs))>> \o [i \in DOMAIN xs |-> NameToken(xs[i])]

(* Version 1 has neither parameters nor symbols, version 2 no parameters.  *)
CurrentVersion == 3
FunctionTokens(f, version) ==
  <<NameToken(f.name)>>
    \o (IF version < 3 THEN <<>> ELSE Names(f.params))
    \o <<<<"code", [code |-> f.code, framed |-> f.framed]>>>>

FunctionsWritten(fs, version) ==
  LET written[i \in 0 .. Len(fs)] ==
        IF i = 0 THEN <<>> ELSE written[i - 1] \o FunctionTokens(fs[i], version)
  IN written
WriteFunctions(fs, version) == FunctionsWritten(fs, version)[Len(fs)]

ToCubebin(p, version) ==
  <<<<"version", version>>, NameToken(p.name)>> \o Names(p.implements) \o Names(p.storage)
    \o <<Count(Len(p.functions))>> \o WriteFunctions(p.functions, version)
    \o (IF version < 2 THEN <<>> ELSE <<<<"syms", p.syms>>>>)

(* save refuses what the format would lose of use and override.            *)
CapabilityConflict(p) ==
  p.used # <<>> \/ \E i \in DOMAIN p.functions : p.functions[i].override

-----------------------------------------------------------------------------

(* Reading at a position: a count followed by that many names.             *)
Is(s, at, kind) == at \in DOMAIN s /\ s[at][1] = kind
NamesFit(s, at) ==
  Is(s, at, "count") /\ \A i \in 1 .. s[at][2] : Is(s, at + i, "text")
NamesAt(s, at)  == [i \in 1 .. s[at][2] |-> s[at + i][2]]
LastName(s, at) == at + s[at][2]                                   \* mutant
After(s, at)    == at + 1 + s[at][2]

BadFile == [ok |-> FALSE]
ReadFunction(s, r) ==
  LET at     == r.next
      old    == s[1][2] < 3
      params == IF old THEN <<>> ELSE NamesAt(s, at + 1)
      body   == IF old THEN at + 1 ELSE After(s, at + 1)
  IN IF \/ ~r.ok \/ ~Is(s, at, "text")
        \/ ~old /\ ~NamesFit(s, at + 1)
        \/ ~Is(s, body, "code")
     THEN BadFile
     ELSE [ok |-> TRUE, next |-> body + 1, functions |-> Append(r.functions,
             [name |-> s[at][2], params |-> params, code |-> s[body][2].code,
              override |-> FALSE, access |-> "external", once |-> FALSE,
              framed |-> s[body][2].framed])]

FunctionsRead(s, at, n) ==
  LET read[i \in 0 .. n] == IF i = 0 THEN [ok |-> TRUE, functions |-> <<>>, next |-> at]
                            ELSE ReadFunction(s, read[i - 1])
  IN read
ReadFunctions(s, at, n) == FunctionsRead(s, at, n)[n]

(* A symbol table that is not where it should be is no symbol table; any   *)
(* other misplaced token ends the reader.                                  *)
FromCubebin(s) ==
  LET fields == After(s, 3)
      fns     == After(s, fields)
      read    == ReadFunctions(s, fns + 1, s[fns][2])
  IN IF ~(NamesFit(s, 3) /\ NamesFit(s, fields) /\ Is(s, fns, "count")) THEN BadFile
     ELSE IF ~read.ok THEN BadFile
     ELSE [ok |-> TRUE,
           program |-> [name |-> s[2][2], implements |-> NamesAt(s, 3),
                        storage |-> NamesAt(s, fields), functions |-> read.functions,
                        syms |-> IF Is(s, read.next, "syms") THEN s[read.next][2] ELSE {},
                        used |-> <<>>]]

-----------------------------------------------------------------------------

(* What a file of a version holds of a program, and that it reads back.    *)
CarriedOf(f, version) ==
  [f EXCEPT !.params = IF version < 3 THEN <<>> ELSE @, !.override = FALSE,
            !.access = "external", !.once = FALSE]
Carried(p, version) ==
  [p EXCEPT !.used = <<>>, !.syms = IF version < 2 THEN {} ELSE @,
            !.functions = [i \in DOMAIN @ |-> CarriedOf(@[i], version)]]
ReadsBack(p, version) ==
  FromCubebin(ToCubebin(p, version)) = [ok |-> TRUE, program |-> Carried(p, version)]

=============================================================================
