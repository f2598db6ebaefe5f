--------------------------- MODULE CubebinProofs ---------------------------
(***************************************************************************)
(* Proof about the .cubebin format, for programs of any size its one-byte  *)
(* counts can hold: a file of any version reads back as what that version  *)
(* carries of the program it was written from.                             *)
(***************************************************************************)
EXTENDS Cubebin, SharedLemmas, SequenceTheorems, TLAPS

CONSTANTS Txt, Bytecode, Grant, Symbol, Module   (* what programs are made of *)

Function == [name : Txt, params : Seq(Txt), code : Bytecode, override : BOOLEAN,
             access : Grant, once : BOOLEAN, framed : BOOLEAN]
Program  == [name : Txt, implements : Seq(Txt), storage : Seq(Txt),
             functions : Seq(Function), syms : SUBSET Symbol, used : Seq(Module)]
Token == ({"count", "version"} \X Nat) \cup ({"text"} \X Txt)
           \cup ({"code"} \X [code : Bytecode, framed : BOOLEAN])
           \cup ({"syms"} \X SUBSET Symbol)

(* Every count of the program is below the base its byte wraps at.         *)
Fits(p) ==
  /\ Len(p.implements) < ByteBase /\ Len(p.storage) < ByteBase
  /\ Len(p.functions) < ByteBase
  /\ \A i \in DOMAIN p.functions : Len(p.functions[i].params) < ByteBase

-----------------------------------------------------------------------------
(* Where a piece of a file is.                                             *)

Occurs(s, at, t) ==
  \A i \in 1 .. Len(t) : at - 1 + i \in DOMAIN s /\ s[at - 1 + i] = t[i]

LEMMA OccursWhole == ASSUME NEW s \in Seq(Token) PROVE Occurs(s, 1, s)
<1>1. \A i \in 1 .. Len(s) : 1 - 1 + i = i /\ i \in DOMAIN s OBVIOUS
<1> QED BY <1>1 DEF Occurs

LEMMA OccursSplit ==
  ASSUME NEW s \in Seq(Token), NEW at \in Nat \ {0}, NEW t \in Seq(Token),
         NEW u \in Seq(Token), Occurs(s, at, t \o u)
  PROVE  Occurs(s, at, t) /\ Occurs(s, at + Len(t), u)
<1>1. /\ Len(t) \in Nat /\ Len(u) \in Nat /\ Len(t \o u) = Len(t) + Len(u)
      /\ \A i \in 1 .. Len(t) : (t \o u)[i] = t[i]
      /\ \A i \in 1 .. Len(u) : (t \o u)[Len(t) + i] = u[i]
  OBVIOUS
<1>2. ASSUME NEW i \in 1 .. Len(t) PROVE at - 1 + i \in DOMAIN s /\ s[at - 1 + i] = t[i]
  <2>1. i \in 1 .. Len(t \o u) BY <1>1
  <2> QED BY <1>1, <2>1 DEF Occurs
<1>3. ASSUME NEW i \in 1 .. Len(u)
      PROVE  at + Len(t) - 1 + i \in DOMAIN s /\ s[at + Len(t) - 1 + i] = u[i]
  <2>1. Len(t) + i \in 1 .. Len(t \o u) /\ at - 1 + (Len(t) + i) = at + Len(t) - 1 + i
    BY <1>1
  <2>2. /\ at - 1 + (Len(t) + i) \in DOMAIN s
        /\ s[at - 1 + (Len(t) + i)] = (t \o u)[Len(t) + i]
    BY <2>1 DEF Occurs
  <2> QED BY <1>1, <2>1, <2>2
<1> QED BY <1>2, <1>3 DEF Occurs

-----------------------------------------------------------------------------
(* Lists of names.                                                         *)

LEMMA SmallCount == ASSUME NEW n \in Nat, n < ByteBase PROVE n % ByteBase = n
<1>1. ByteBase \in Nat \ {0} BY ByteBaseAssumption
<1> QED BY <1>1

LEMMA NamesTokens ==
  ASSUME NEW xs \in Seq(Txt)
  PROVE  /\ Names(xs) \in Seq(Token)
         /\ Len(Names(xs)) = Len(xs) + 1
         /\ Names(xs)[1] = Count(Len(xs))
         /\ \A i \in 1 .. Len(xs) : Names(xs)[i + 1] = NameToken(xs[i])
<1> DEFINE c == <<Count(Len(xs))>>
           t == [i \in DOMAIN xs |-> NameToken(xs[i])]
<1>1. Len(xs) \in Nat /\ DOMAIN xs = 1 .. Len(xs) /\ \A i \in 1 .. Len(xs) : xs[i] \in Txt
  OBVIOUS
<1>2. Len(xs) % ByteBase \in Nat BY <1>1, ByteBaseAssumption
<1>3. Count(Len(xs)) \in Token BY <1>2 DEF Count, Token
<1>4. c \in Seq(Token) /\ Len(c) = 1 /\ c[1] = Count(Len(xs)) BY <1>3
<1>5. \A i \in 1 .. Len(xs) : NameToken(xs[i]) \in Token BY <1>1 DEF NameToken, Token
<1>6. /\ t \in Seq(Token) /\ Len(t) = Len(xs)
      /\ \A i \in 1 .. Len(xs) : t[i] = NameToken(xs[i])
  <2>1. t \in [1 .. Len(xs) -> Token] BY <1>1, <1>5
  <2> QED BY <1>1, <2>1
<1>7. Names(xs) = c \o t BY DEF Names
<1> HIDE DEF c, t
<1>8. /\ c \o t \in Seq(Token) /\ Len(c \o t) = Len(xs) + 1 /\ (c \o t)[1] = c[1]
      /\ \A i \in 1 .. Len(t) : (c \o t)[i + 1] = t[i]
  <2>4. /\ c \o t \in Seq(Token) /\ Len(c \o t) = Len(c) + Len(t)
        /\ \A i \in 1 .. Len(c) + Len(t) :
             (c \o t)[i] = IF i <= Len(c) THEN c[i] ELSE t[i - Len(c)]
    <3>1. c \in Seq(Token) /\ t \in Seq(Token) BY <1>4, <1>6
    <3>2. c \o t \in Seq(Token) BY <3>1, ConcatProperties
    <3>3. Len(c \o t) = Len(c) + Len(t) BY <3>1, ConcatProperties
    <3>4. \A i \in 1 .. Len(c) + Len(t) :
            (c \o t)[i] = IF i <= Len(c) THEN c[i] ELSE t[i - Len(c)]
      BY <3>1, ConcatProperties, Zenon
    <3> QED BY <3>2, <3>3, <3>4
  <2>1. /\ c \o t \in Seq(Token) /\ Len(c \o t) = 1 + Len(t)
        /\ \A i \in 1 .. 1 + Len(t) : (c \o t)[i] = IF i <= 1 THEN c[i] ELSE t[i - 1]
    BY <1>4, <2>4
  <2>2. ASSUME NEW i \in 1 .. Len(t) PROVE (c \o t)[i + 1] = t[i]
    <3>1. i + 1 \in 1 .. 1 + Len(t) /\ ~(i + 1 <= 1) /\ (i + 1) - 1 = i
      BY <1>1, <1>6
    <3> QED BY <2>1, <3>1
  <2>3. 1 \in 1 .. 1 + Len(t) BY <1>1, <1>6
  <2> QED BY <1>1, <1>6, <2>1, <2>2, <2>3
<1> QED BY <1>4, <1>6, <1>7, <1>8

LEMMA NamesRead ==
  ASSUME NEW s \in Seq(Token), NEW at \in Nat \ {0}, NEW xs \in Seq(Txt),
         Len(xs) < ByteBase, Occurs(s, at, Names(xs))
  PROVE  /\ NamesFit(s, at) /\ NamesAt(s, at) = xs
         /\ After(s, at) = at + Len(Names(xs))
<1>1. Len(xs) \in Nat /\ DOMAIN xs = 1 .. Len(xs) OBVIOUS
<1>2. at \in DOMAIN s /\ s[at] = Count(Len(xs))
  <2>1. 1 \in 1 .. Len(Names(xs)) /\ at - 1 + 1 = at BY <1>1, NamesTokens
  <2> QED BY <2>1, NamesTokens DEF Occurs
<1>3. Len(xs) % ByteBase = Len(xs) BY <1>1, SmallCount
<1>4. s[at][1] = "count" /\ s[at][2] = Len(xs) BY <1>2, <1>3 DEF Count
<1>5. ASSUME NEW i \in 1 .. Len(xs)
      PROVE  at + i \in DOMAIN s /\ s[at + i] = NameToken(xs[i])
  <2>1. i + 1 \in 1 .. Len(Names(xs)) /\ at - 1 + (i + 1) = at + i BY <1>1, NamesTokens
  <2>2. at - 1 + (i + 1) \in DOMAIN s /\ s[at - 1 + (i + 1)] = Names(xs)[i + 1]
    BY <2>1 DEF Occurs
  <2> QED BY <2>1, <2>2, NamesTokens
<1>6. \A i \in 1 .. Len(xs) : /\ at + i \in DOMAIN s
                              /\ s[at + i][1] = "text" /\ s[at + i][2] = xs[i]
  BY <1>5 DEF NameToken
<1>7. NamesFit(s, at) BY <1>2, <1>4, <1>6 DEF NamesFit, Is
<1>8. NamesAt(s, at) = xs
  <2>1. NamesAt(s, at) = [i \in 1 .. Len(xs) |-> s[at + i][2]] BY <1>4 DEF NamesAt
  <2>2. xs = [i \in 1 .. Len(xs) |-> xs[i]] BY <1>1
  <2> QED BY <1>6, <2>1, <2>2
<1>9. After(s, at) = at + Len(Names(xs))
  <2>1. After(s, at) = at + 1 + Len(xs) BY <1>4 DEF After
  <2>2. Len(Names(xs)) = Len(xs) + 1 BY NamesTokens
  <2> QED BY <1>1, <2>1, <2>2
<1> QED BY <1>7, <1>8, <1>9

-----------------------------------------------------------------------------
(* One function.                                                           *)

ParamTokens(f, version) == IF version < 3 THEN <<>> ELSE Names(f.params)
Body(f) == <<"code", [code |-> f.code, framed |-> f.framed]>>

LEMMA FunctionTokensTyped ==
  ASSUME NEW f \in Function, NEW version \in 1 .. CurrentVersion
  PROVE  /\ <<NameToken(f.name)>> \in Seq(Token) /\ ParamTokens(f, version) \in Seq(Token)
         /\ <<Body(f)>> \in Seq(Token)
         /\ FunctionTokens(f, version) \in Seq(Token)
         /\ FunctionTokens(f, version)
              = (<<NameToken(f.name)>> \o ParamTokens(f, version)) \o <<Body(f)>>
         /\ Len(FunctionTokens(f, version)) = Len(ParamTokens(f, version)) + 2
<1>1. f.name \in Txt /\ f.params \in Seq(Txt) /\ f.code \in Bytecode /\ f.framed \in BOOLEAN
  BY DEF Function
<1>2. NameToken(f.name) \in Token BY <1>1 DEF NameToken, Token
<1>3. Body(f) \in Token BY <1>1 DEF Body, Token
<1>4. ParamTokens(f, version) \in Seq(Token) BY <1>1, NamesTokens DEF ParamTokens
<1>5. FunctionTokens(f, version)
        = (<<NameToken(f.name)>> \o ParamTokens(f, version)) \o <<Body(f)>>
  BY DEF FunctionTokens, ParamTokens, Body
<1>6. <<NameToken(f.name)>> \in Seq(Token) /\ Len(<<NameToken(f.name)>>) = 1 BY <1>2
<1>7. <<Body(f)>> \in Seq(Token) /\ Len(<<Body(f)>>) = 1 BY <1>3
<1> QED BY <1>4, <1>5, <1>6, <1>7

LEMMA FunctionReads ==
  ASSUME NEW s \in Seq(Token), NEW at \in Nat \ {0}, NEW f \in Function,
         NEW version \in 1 .. CurrentVersion, s[1] = <<"version", version>>,
         Len(f.params) < ByteBase, Occurs(s, at, FunctionTokens(f, version)),
         NEW fs
  PROVE  ReadFunction(s, [ok |-> TRUE, functions |-> fs, next |-> at])
           = [ok |-> TRUE, functions |-> Append(fs, CarriedOf(f, version)),
              next |-> at + Len(FunctionTokens(f, version))]
<1> DEFINE n == <<NameToken(f.name)>>
           h == ParamTokens(f, version)
           b == <<Body(f)>>
           body == at + 1 + Len(h)
           r == [ok |-> TRUE, functions |-> fs, next |-> at]
           old == s[1][2] < 3
<1>1. version \in Nat /\ (old <=> version < 3) BY DEF CurrentVersion
<1>2. n \in Seq(Token) /\ h \in Seq(Token) /\ b \in Seq(Token) /\ n \o h \in Seq(Token)
      /\ Len(n) = 1 /\ Len(b) = 1 /\ Len(n \o h) = 1 + Len(h) /\ Len(h) \in Nat
  <2>1. n \in Seq(Token) /\ h \in Seq(Token) /\ b \in Seq(Token) BY FunctionTokensTyped
  <2>2. Len(n) = 1 /\ Len(b) = 1 OBVIOUS
  <2> HIDE DEF n, h, b, body
  <2>3. n \o h \in Seq(Token) /\ Len(n \o h) = Len(n) + Len(h)
    BY <2>1, ConcatProperties
  <2>4. Len(h) \in Nat BY <2>1
  <2> QED BY <2>1, <2>2, <2>3, <2>4
<1>3. /\ Occurs(s, at, n) /\ Occurs(s, at + 1, h) /\ Occurs(s, body, b)
  <2>1. Occurs(s, at, (n \o h) \o b) BY FunctionTokensTyped
  <2> HIDE DEF n, h, b
  <2>2. Occurs(s, at, n \o h) /\ Occurs(s, at + Len(n \o h), b) BY <1>2, <2>1, OccursSplit
  <2>3. at + Len(n \o h) = body BY <1>2
  <2>4. Occurs(s, at, n) /\ Occurs(s, at + Len(n), h) BY <1>2, <2>2, OccursSplit
  <2> QED BY <1>2, <2>2, <2>3, <2>4
<1>4. at \in DOMAIN s /\ s[at] = NameToken(f.name)
  <2>1. 1 \in 1 .. Len(n) /\ at - 1 + 1 = at /\ n[1] = NameToken(f.name) BY <1>2
  <2> HIDE DEF n
  <2> QED BY <1>3, <2>1 DEF Occurs
<1>5. body \in DOMAIN s /\ s[body] = Body(f)
  <2>1. 1 \in 1 .. Len(b) /\ body - 1 + 1 = body /\ b[1] = Body(f) BY <1>2
  <2> HIDE DEF b, body
  <2> QED BY <1>3, <2>1 DEF Occurs
<1>6. ~old => /\ NamesFit(s, at + 1) /\ NamesAt(s, at + 1) = f.params
              /\ After(s, at + 1) = body
  <2> SUFFICES ASSUME ~old PROVE /\ NamesFit(s, at + 1) /\ NamesAt(s, at + 1) = f.params
                                 /\ After(s, at + 1) = body
    OBVIOUS
  <2>1. h = Names(f.params) BY <1>1 DEF ParamTokens
  <2>2. f.params \in Seq(Txt) /\ at + 1 \in Nat \ {0} BY DEF Function
  <2> HIDE DEF h
  <2> QED BY <1>3, <2>1, <2>2, NamesRead DEF body
<1>7. old => body = at + 1 BY <1>1, <1>2 DEF ParamTokens
<1>8. /\ Is(s, at, "text") /\ s[at][2] = f.name /\ Is(s, body, "code")
      /\ s[body][2].code = f.code /\ s[body][2].framed = f.framed
  BY <1>4, <1>5 DEF Is, NameToken, Body
<1>9. r.ok = TRUE /\ r.next = at /\ r.functions = fs OBVIOUS
<1>10. CarriedOf(f, version) =
        [name |-> f.name, params |-> IF version < 3 THEN <<>> ELSE f.params,
         code |-> f.code, override |-> FALSE, access |-> "external", once |-> FALSE,
         framed |-> f.framed]
  <2>1. f = [name |-> f.name, params |-> f.params, code |-> f.code,
             override |-> f.override, access |-> f.access, once |-> f.once,
             framed |-> f.framed]
    BY DEF Function
  <2> DEFINE g == [f EXCEPT !.params = IF version < 3 THEN <<>> ELSE @]
  <2>2. g = [name |-> f.name, params |-> IF version < 3 THEN <<>> ELSE f.params,
             code |-> f.code, override |-> f.override, access |-> f.access,
             once |-> f.once, framed |-> f.framed]
    BY <2>1
  <2>3. CarriedOf(f, version)
          = [g EXCEPT !.override = FALSE, !.access = "external", !.once = FALSE]
    BY DEF CarriedOf
  <2> HIDE DEF g
  <2> QED BY <2>2, <2>3
<1>11. at + Len(FunctionTokens(f, version)) = body + 1
  <2>1. Len(FunctionTokens(f, version)) = Len(h) + 2 BY FunctionTokensTyped
  <2> HIDE DEF h
  <2> QED BY <1>2, <2>1
<1> HIDE DEF body, r, old
<1>12. CASE old
  BY <1>1, <1>7, <1>8, <1>9, <1>10, <1>11, <1>12 DEF ReadFunction, old, r
<1>13. CASE ~old
  BY <1>1, <1>6, <1>8, <1>9, <1>10, <1>11, <1>13 DEF ReadFunction, old, r
<1> QED BY <1>12, <1>13

-----------------------------------------------------------------------------
(* All functions.                                                          *)

LEMMA FunctionsWrittenIs ==
  ASSUME NEW fs \in Seq(Function), NEW version \in 1 .. CurrentVersion
  PROVE  LET w == FunctionsWritten(fs, version)
         IN /\ w \in [0 .. Len(fs) -> Seq(Token)]
            /\ w[0] = <<>>
            /\ \A i \in 1 .. Len(fs) : w[i] = w[i - 1] \o FunctionTokens(fs[i], version)
<1> DEFINE n == Len(fs)
           A == Seq(Token)
           step == [x \in A \X (1 .. n) |-> x[1] \o FunctionTokens(fs[x[2]], version)]
<1>1. n \in Nat /\ <<>> \in A OBVIOUS
<1>2. step \in Steps(A, n)
  <2>1. ASSUME NEW x \in A \X (1 .. n)
        PROVE  x[1] \o FunctionTokens(fs[x[2]], version) \in A
    <3>1. x[1] \in A /\ x[2] \in 1 .. n OBVIOUS
    <3>2. fs[x[2]] \in Function BY <3>1
    <3>3. FunctionTokens(fs[x[2]], version) \in A BY <3>2, FunctionTokensTyped
    <3> QED BY <3>1, <3>3, ConcatProperties
  <2> QED BY <2>1 DEF Steps
<1> HIDE DEF n, step
<1>3. PICK r : Solution(r, A, n, <<>>, step) BY <1>1, <1>2, RecursionSolved
<1>4. \A i \in 0 .. n : i # 0 =>
        step[<<r[i - 1], i>>] = r[i - 1] \o FunctionTokens(fs[i], version)
  <2> TAKE i \in 0 .. n
  <2> HAVE i # 0
  <2>1. i - 1 \in 0 .. n /\ i \in 1 .. n BY <1>1
  <2>2. <<r[i - 1], i>> \in A \X (1 .. n) BY <1>3, <2>1 DEF Solution
  <2> QED BY <2>2 DEF step
<1> DEFINE Rec(w) == w = [i \in 0 .. n |->
                            IF i = 0 THEN <<>>
                            ELSE w[i - 1] \o FunctionTokens(fs[i], version)]
<1>5. Rec(r) BY <1>3, <1>4 DEF Solution
<1> DEFINE w == FunctionsWritten(fs, version)
<1>6. Rec(w) BY <1>5 DEF FunctionsWritten, n
<1> HIDE DEF w
<1>7. w[0] = <<>> /\ DOMAIN w = 0 .. n BY <1>1, <1>6
<1>8. \A i \in 1 .. n : w[i] = w[i - 1] \o FunctionTokens(fs[i], version)
  BY <1>1, <1>6
<1>9. \A i \in 0 .. n : w[i] \in A
  <2> DEFINE S == {i \in 0 .. n : w[i] \in A}
  <2>1. 0 \in S BY <1>1, <1>7
  <2>2. ASSUME NEW i \in 0 .. n - 1, i \in S PROVE i + 1 \in S
    <3> DEFINE j == i + 1
    <3>1. j \in 1 .. n /\ j - 1 = i BY <1>1
    <3>2. fs[j] \in Function BY <3>1 DEF n
    <3>3. FunctionTokens(fs[j], version) \in A BY <3>2, FunctionTokensTyped
    <3> HIDE DEF j
    <3>4. w[j] = w[j - 1] \o FunctionTokens(fs[j], version) BY <1>8, <3>1
    <3>5. w[j] \in A BY <2>2, <3>1, <3>3, <3>4, ConcatProperties
    <3>6. j \in S BY <1>1, <3>1, <3>5
    <3> QED BY <3>6 DEF j
  <2> HIDE DEF S
  <2>3. \A i \in 0 .. n : i \in S BY <1>1, <2>1, <2>2, UpTo
  <2> QED BY <2>3 DEF S
<1>10. w \in [0 .. n -> A] BY <1>6, <1>9
<1> QED BY <1>7, <1>8, <1>10 DEF w, n

LEMMA FunctionsReadBack ==
  ASSUME NEW s \in Seq(Token), NEW at \in Nat \ {0}, NEW fs \in Seq(Function),
         NEW version \in 1 .. CurrentVersion, s[1] = <<"version", version>>,
         \A i \in DOMAIN fs : Len(fs[i].params) < ByteBase,
         Occurs(s, at, WriteFunctions(fs, version))
  PROVE  ReadFunctions(s, at, Len(fs))
           = [ok |-> TRUE, next |-> at + Len(WriteFunctions(fs, version)),
              functions |-> [i \in DOMAIN fs |-> CarriedOf(fs[i], version)]]
<1> DEFINE n == Len(fs)
           w == FunctionsWritten(fs, version)
           t(i) == FunctionTokens(fs[i], version)
           back(k) == [i \in 1 .. k |-> CarriedOf(fs[i], version)]
           e == [k \in 0 .. n |-> [ok |-> TRUE, functions |-> back(k),
                                   next |-> at + Len(w[k])]]
           base == [ok |-> TRUE, functions |-> <<>>, next |-> at]
           Rec(r) == r = [k \in 0 .. n |-> IF k = 0 THEN base
                                           ELSE ReadFunction(s, r[k - 1])]
<1>1. n \in Nat /\ DOMAIN fs = 1 .. n /\ \A i \in 1 .. n : fs[i] \in Function OBVIOUS
<1>2. /\ w[0] = <<>> /\ \A k \in 0 .. n : w[k] \in Seq(Token)
      /\ \A i \in 1 .. n : w[i] = w[i - 1] \o t(i)
  BY FunctionsWrittenIs
<1>3. \A i \in 1 .. n : t(i) \in Seq(Token) BY <1>1, FunctionTokensTyped
<1>4. WriteFunctions(fs, version) = w[n] BY DEF WriteFunctions
<1> HIDE DEF n, w, t
<1>5. \A j \in 0 .. n : Occurs(s, at, w[n - j])
  <2> DEFINE S == {j \in 0 .. n : Occurs(s, at, w[n - j])}
  <2>1. 0 \in S
    <3>1. n - 0 = n /\ 0 \in 0 .. n BY <1>1
    <3> QED BY <1>4, <3>1
  <2>2. ASSUME NEW j \in 0 .. n - 1, j \in S PROVE j + 1 \in S
    <3>1. /\ n - j \in 1 .. n /\ n - j - 1 = n - (j + 1) /\ n - j - 1 \in 0 .. n
          /\ j + 1 \in 0 .. n
      BY <1>1
    <3>2. Occurs(s, at, w[n - j - 1] \o t(n - j)) BY <1>2, <2>2, <3>1
    <3>3. Occurs(s, at, w[n - j - 1]) BY <1>2, <1>3, <3>1, <3>2, OccursSplit
    <3> QED BY <3>1, <3>3
  <2> HIDE DEF S
  <2>3. \A j \in 0 .. n : j \in S BY <1>1, <2>1, <2>2, UpTo
  <2> QED BY <2>3 DEF S
<1>6. ASSUME NEW k \in 1 .. n PROVE ReadFunction(s, e[k - 1]) = e[k]
  <2>1. k - 1 \in 0 .. n /\ k \in 0 .. n /\ n - k \in 0 .. n /\ n - (n - k) = k
    BY <1>1
  <2>2. Occurs(s, at, w[k - 1] \o t(k)) BY <1>2, <1>5, <2>1
  <2>3. Occurs(s, at + Len(w[k - 1]), t(k)) BY <1>2, <1>3, <2>1, <2>2, OccursSplit
  <2>4. Len(w[k - 1]) \in Nat /\ at + Len(w[k - 1]) \in Nat \ {0} BY <1>2, <2>1
  <2>5. ReadFunction(s, [ok |-> TRUE, functions |-> back(k - 1),
                         next |-> at + Len(w[k - 1])])
          = [ok |-> TRUE, functions |-> Append(back(k - 1), CarriedOf(fs[k], version)),
             next |-> at + Len(w[k - 1]) + Len(t(k))]
    <3> DEFINE a == at + Len(w[k - 1])
               f == fs[k]
               b == back(k - 1)
    <3>1. f \in Function /\ Len(f.params) < ByteBase BY <1>1
    <3>2. a \in Nat \ {0} /\ Occurs(s, a, FunctionTokens(f, version))
      BY <2>3, <2>4 DEF t
    <3> HIDE DEF a, f, b
    <3>3. ReadFunction(s, [ok |-> TRUE, functions |-> b, next |-> a])
            = [ok |-> TRUE, functions |-> Append(b, CarriedOf(f, version)),
               next |-> a + Len(FunctionTokens(f, version))]
      BY <3>1, <3>2, FunctionReads
    <3> QED BY <3>3 DEF a, f, b, t
  <2>6. Len(w[k]) = Len(w[k - 1]) + Len(t(k))
    <3>1. w[k] = w[k - 1] \o t(k) BY <1>2
    <3> QED BY <1>2, <1>3, <2>1, <3>1, ConcatProperties
  <2>7. at + Len(w[k - 1]) + Len(t(k)) = at + Len(w[k])
    <3>1. Len(t(k)) \in Nat BY <1>3
    <3> QED BY <2>4, <2>6, <3>1
  <2>8. Append(back(k - 1), CarriedOf(fs[k], version)) = back(k)
    <3> DEFINE V == {CarriedOf(fs[i], version) : i \in 1 .. n}
    <3>1. back(k - 1) \in [1 .. k - 1 -> V] /\ back(k) \in [1 .. k -> V] BY <1>1
    <3>2. back(k - 1) \in Seq(V) /\ Len(back(k - 1)) = k - 1
      <4> DEFINE b == back(k - 1)
      <4>1. b \in [1 .. k - 1 -> V] /\ k - 1 \in Nat BY <2>1, <3>1
      <4> HIDE DEF b, V
      <4>2. b \in Seq(V) /\ Len(b) = k - 1 BY <4>1
      <4> QED BY <4>2 DEF b
    <3>3. Append(back(k - 1), CarriedOf(fs[k], version)) =
            [i \in 1 .. k - 1 + 1 |-> IF i = k - 1 + 1 THEN CarriedOf(fs[k], version)
                                      ELSE back(k - 1)[i]]
      BY <3>2
    <3>4. k - 1 + 1 = k OBVIOUS
    <3>5. \A i \in 1 .. k : i # k => back(k - 1)[i] = CarriedOf(fs[i], version) OBVIOUS
    <3> HIDE DEF V
    <3> QED BY <3>3, <3>4, <3>5
  <2>9. /\ e[k - 1] = [ok |-> TRUE, functions |-> back(k - 1), next |-> at + Len(w[k - 1])]
        /\ e[k] = [ok |-> TRUE, functions |-> back(k), next |-> at + Len(w[k])]
    BY <2>1
  <2> HIDE DEF e, back
  <2> QED BY <2>5, <2>7, <2>8, <2>9
<1>7. e[0] = base
  <2>1. 0 \in 0 .. n /\ Len(w[0]) = 0 /\ at + 0 = at BY <1>1, <1>2
  <2>2. back(0) = <<>> OBVIOUS
  <2> HIDE DEF back
  <2> QED BY <2>1, <2>2
<1>8. Rec(e)
  <2>1. \A k \in 0 .. n : e[k] = IF k = 0 THEN base ELSE ReadFunction(s, e[k - 1])
    <3> HIDE DEF e, base
    <3> QED BY <1>1, <1>6, <1>7
  <2>2. e = [k \in 0 .. n |-> e[k]] OBVIOUS
  <2> HIDE DEF e, base
  <2> QED BY <2>1, <2>2
<1> DEFINE r == FunctionsRead(s, at, n)
<1>9. Rec(r) BY <1>8 DEF FunctionsRead
<1> HIDE DEF r, e, base
<1>10. \A k \in 0 .. n : r[k] = e[k]
  <2> DEFINE S == {k \in 0 .. n : r[k] = e[k]}
  <2>1. 0 \in S BY <1>1, <1>7, <1>9
  <2>2. ASSUME NEW k \in 0 .. n - 1, k \in S PROVE k + 1 \in S
    <3> DEFINE j == k + 1
    <3>1. j \in 1 .. n /\ j \in 0 .. n /\ j - 1 = k /\ j # 0 BY <1>1
    <3> HIDE DEF j
    <3>2. r[j] = ReadFunction(s, r[j - 1]) BY <1>9, <3>1
    <3>3. e[j] = ReadFunction(s, e[j - 1]) BY <1>6, <3>1
    <3>4. j \in S BY <2>2, <3>1, <3>2, <3>3
    <3> QED BY <3>4 DEF j
  <2> HIDE DEF S
  <2>3. \A k \in 0 .. n : k \in S BY <1>1, <2>1, <2>2, UpTo
  <2> QED BY <2>3 DEF S
<1>11. r[n] = [ok |-> TRUE, functions |-> back(n), next |-> at + Len(w[n])]
  <2>1. n \in 0 .. n BY <1>1
  <2>2. r[n] = e[n] BY <1>10, <2>1
  <2> QED BY <2>1, <2>2 DEF e
<1>12. ReadFunctions(s, at, Len(fs)) = r[n] BY DEF ReadFunctions, r, n
<1>13. back(n) = [i \in DOMAIN fs |-> CarriedOf(fs[i], version)] BY <1>1
<1> QED BY <1>4, <1>11, <1>12, <1>13

-----------------------------------------------------------------------------
(* Whatever the number of functions, parameters and storage fields, up to  *)
(* what a count byte holds, a file of any version reads back as what that  *)
(* version carries: nothing is dropped, shifted or taken for its neighbour. *)
THEOREM EveryFileReadsBack ==
  ASSUME NEW p \in Program, Fits(p), NEW version \in 1 .. CurrentVersion
  PROVE  ReadsBack(p, version)
<1> DEFINE h  == <<<<"version", version>>, NameToken(p.name)>>
           im == Names(p.implements)
           st == Names(p.storage)
           c  == <<Count(Len(p.functions))>>
           w  == WriteFunctions(p.functions, version)
           y  == IF version < 2 THEN <<>> ELSE <<<<"syms", p.syms>>>>
           s  == ToCubebin(p, version)
           n  == Len(p.functions)
<1>1. /\ p.name \in Txt /\ p.implements \in Seq(Txt) /\ p.storage \in Seq(Txt)
      /\ p.functions \in Seq(Function) /\ p.syms \in SUBSET Symbol
      /\ version \in Nat /\ version < 4 /\ n \in Nat
  BY DEF Program, CurrentVersion
<1>2. h \in Seq(Token) /\ Len(h) = 2
  <2>1. <<"version", version>> \in Token /\ NameToken(p.name) \in Token
    BY <1>1 DEF Token, NameToken
  <2> QED BY <2>1
<1>3. im \in Seq(Token) /\ st \in Seq(Token) BY <1>1, NamesTokens
<1>4. n % ByteBase = n
  <2>1. n < ByteBase BY DEF Fits
  <2> HIDE DEF n
  <2> QED BY <1>1, <2>1, SmallCount
<1>5. c \in Seq(Token) /\ Len(c) = 1 /\ c[1] = <<"count", n>>
  <2>1. Count(n) \in Token /\ Count(n) = <<"count", n>> BY <1>1, <1>4 DEF Count, Token
  <2> QED BY <2>1
<1>6. w \in Seq(Token)
  <2>1. n \in 0 .. n BY <1>1
  <2>2. FunctionsWritten(p.functions, version) \in [0 .. n -> Seq(Token)]
    BY <1>1, FunctionsWrittenIs
  <2> QED BY <2>1, <2>2 DEF WriteFunctions
<1>7. y \in Seq(Token)
  <2>1. <<"syms", p.syms>> \in Token BY <1>1 DEF Token
  <2> QED BY <2>1
<1>8. s = ((((h \o im) \o st) \o c) \o w) \o y BY DEF ToCubebin
<1> DEFINE a1 == 3
           a2 == a1 + Len(im)
           a3 == a2 + Len(st)
           a4 == a3 + 1
           a5 == a4 + Len(w)
<1>9. /\ a2 \in Nat \ {0} /\ a3 \in Nat \ {0} /\ a4 \in Nat \ {0} /\ a5 \in Nat \ {0}
      /\ Len(im) \in Nat /\ Len(st) \in Nat /\ Len(w) \in Nat /\ Len(y) \in Nat
  <2>1. Len(im) \in Nat /\ Len(st) \in Nat /\ Len(w) \in Nat /\ Len(y) \in Nat
    BY <1>3, <1>6, <1>7
  <2> HIDE DEF im, st, w, y
  <2> QED BY <2>1
<1> DEFINE t2 == h \o im
           t3 == t2 \o st
           t4 == t3 \o c
           t5 == t4 \o w
<1>10. s = t5 \o y BY <1>8
<1> HIDE DEF h, im, st, c, w, y, s, n
<1>11. /\ t2 \in Seq(Token) /\ Len(t2) = Len(h) + Len(im) BY <1>2, <1>3, ConcatProperties
<1> HIDE DEF t2
<1>12. /\ t3 \in Seq(Token) /\ Len(t3) = Len(t2) + Len(st) BY <1>3, <1>11, ConcatProperties
<1> HIDE DEF t3
<1>13. /\ t4 \in Seq(Token) /\ Len(t4) = Len(t3) + Len(c) BY <1>5, <1>12, ConcatProperties
<1> HIDE DEF t4
<1>14. /\ t5 \in Seq(Token) /\ Len(t5) = Len(t4) + Len(w) BY <1>6, <1>13, ConcatProperties
<1> HIDE DEF t5
<1>15. s \in Seq(Token) /\ Len(s) = Len(t5) + Len(y)
  BY <1>7, <1>10, <1>14, ConcatProperties
<1>16. /\ Occurs(s, 1, h) /\ Occurs(s, 3, im) /\ Occurs(s, a2, st) /\ Occurs(s, a3, c)
       /\ Occurs(s, a4, w)
  <2>1. Occurs(s, 1, t5 \o y) BY <1>10, <1>15, OccursWhole
  <2>2. Occurs(s, 1, t5) BY <1>7, <1>14, <1>15, <2>1, OccursSplit
  <2>3. Occurs(s, 1, t4) /\ Occurs(s, 1 + Len(t4), w)
    BY <1>6, <1>13, <1>15, <2>2, OccursSplit DEF t5
  <2>4. Occurs(s, 1, t3) /\ Occurs(s, 1 + Len(t3), c)
    BY <1>5, <1>12, <1>15, <2>3, OccursSplit DEF t4
  <2>5. Occurs(s, 1, t2) /\ Occurs(s, 1 + Len(t2), st)
    BY <1>3, <1>11, <1>15, <2>4, OccursSplit DEF t3
  <2>6. Occurs(s, 1, h) /\ Occurs(s, 1 + Len(h), im)
    <3>1. Occurs(s, 1, h \o im) BY <2>5 DEF t2
    <3>2. h \in Seq(Token) /\ im \in Seq(Token) BY <1>2, <1>3
    <3> QED BY <1>15, <3>1, <3>2, OccursSplit
  <2>7. 1 + Len(h) = 3 BY <1>2
  <2>8. 1 + Len(t2) = a2 /\ 1 + Len(t3) = a3 /\ 1 + Len(t4) = a4
    BY <1>2, <1>5, <1>9, <1>11, <1>12, <1>13
  <2> QED BY <2>3, <2>4, <2>5, <2>6, <2>7, <2>8
<1> HIDE DEF a2, a3, a4, a5
<1>17. s[1] = <<"version", version>> /\ s[2] = NameToken(p.name)
  <2>1. h[1] = <<"version", version>> /\ h[2] = NameToken(p.name) BY DEF h
  <2>2. 1 \in 1 .. Len(h) /\ 2 \in 1 .. Len(h) /\ 1 - 1 + 1 = 1 /\ 1 - 1 + 2 = 2 BY <1>2
  <2> QED BY <1>16, <2>1, <2>2 DEF Occurs
<1>18. NamesFit(s, 3) /\ NamesAt(s, 3) = p.implements /\ After(s, 3) = a2
  <2>1. Len(p.implements) < ByteBase BY DEF Fits
  <2> QED BY <1>1, <1>15, <1>16, <2>1, NamesRead DEF im, a2
<1>19. NamesFit(s, a2) /\ NamesAt(s, a2) = p.storage /\ After(s, a2) = a3
  <2>1. Len(p.storage) < ByteBase BY DEF Fits
  <2> QED BY <1>1, <1>9, <1>15, <1>16, <2>1, NamesRead DEF st, a3
<1>20. Is(s, a3, "count") /\ s[a3][2] = n
  <2>1. 1 \in 1 .. Len(c) /\ a3 - 1 + 1 = a3 BY <1>5, <1>9
  <2>2. a3 \in DOMAIN s /\ s[a3] = <<"count", n>> BY <1>5, <1>16, <2>1 DEF Occurs
  <2> QED BY <2>2 DEF Is
<1>21. ReadFunctions(s, a4, n)
         = [ok |-> TRUE, next |-> a5,
            functions |-> [i \in DOMAIN p.functions |-> CarriedOf(p.functions[i], version)]]
  <2>1. \A i \in DOMAIN p.functions : Len(p.functions[i].params) < ByteBase BY DEF Fits
  <2>2. Occurs(s, a4, WriteFunctions(p.functions, version)) BY <1>16 DEF w
  <2> QED BY <1>1, <1>9, <1>15, <1>17, <2>1, <2>2, FunctionsReadBack DEF w, n, a5
<1>22. (IF Is(s, a5, "syms") THEN s[a5][2] ELSE {}) = IF version < 2 THEN {} ELSE p.syms
  <2>1. a5 = 1 + Len(t5)
    BY <1>2, <1>5, <1>9, <1>11, <1>12, <1>13, <1>14 DEF a5, a4, a3, a2
  <2>2. CASE version < 2
    <3>1. y = <<>> /\ Len(y) = 0 BY <2>2 DEF y
    <3>2. a5 \notin DOMAIN s BY <1>14, <1>15, <2>1, <3>1
    <3> QED BY <2>2, <3>2 DEF Is
  <2>3. CASE ~(version < 2)
    <3>1. Len(y) = 1 /\ y[1] = <<"syms", p.syms>> BY <2>3 DEF y
    <3>2. Occurs(s, 1 + Len(t5), y)
      <4>1. Occurs(s, 1, t5 \o y) BY <1>10, <1>15, OccursWhole
      <4> QED BY <1>7, <1>14, <1>15, <4>1, OccursSplit
    <3>3. 1 \in 1 .. Len(y) /\ a5 - 1 + 1 = a5 BY <1>9, <3>1
    <3>4. a5 \in DOMAIN s /\ s[a5] = <<"syms", p.syms>>
      BY <2>1, <3>1, <3>2, <3>3 DEF Occurs
    <3> QED BY <2>3, <3>4 DEF Is
  <2> QED BY <2>2, <2>3
<1>23. a3 + 1 = a4 BY DEF a4
<1>24. s[2][2] = p.name BY <1>17 DEF NameToken
<1>25. FromCubebin(s) =
         [ok |-> TRUE,
          program |-> [name |-> p.name, implements |-> p.implements,
                       storage |-> p.storage,
                       functions |-> [i \in DOMAIN p.functions |->
                                        CarriedOf(p.functions[i], version)],
                       syms |-> IF version < 2 THEN {} ELSE p.syms,
                       used |-> <<>>]]
  <2> DEFINE read == ReadFunctions(s, a4, n)
             back == [i \in DOMAIN p.functions |-> CarriedOf(p.functions[i], version)]
  <2>1. read.ok = TRUE /\ read.next = a5 /\ read.functions = back
    <3> HIDE DEF back
    <3> QED BY <1>21 DEF back
  <2> HIDE DEF read, back
  <2>2. FromCubebin(s) =
          [ok |-> TRUE,
           program |-> [name |-> s[2][2], implements |-> NamesAt(s, 3),
                        storage |-> NamesAt(s, a2), functions |-> read.functions,
                        syms |-> IF Is(s, read.next, "syms") THEN s[read.next][2] ELSE {},
                        used |-> <<>>]]
    BY <1>18, <1>19, <1>20, <1>23, <2>1 DEF FromCubebin, read
  <2> QED BY <1>18, <1>19, <1>22, <1>24, <2>1, <2>2 DEF back
<1>26. Carried(p, version) =
         [name |-> p.name, implements |-> p.implements, storage |-> p.storage,
          functions |-> [i \in DOMAIN p.functions |-> CarriedOf(p.functions[i], version)],
          syms |-> IF version < 2 THEN {} ELSE p.syms, used |-> <<>>]
  <2>1. p = [name |-> p.name, implements |-> p.implements, storage |-> p.storage,
             functions |-> p.functions, syms |-> p.syms, used |-> p.used]
    BY DEF Program
  <2> DEFINE b == [i \in DOMAIN p.functions |-> CarriedOf(p.functions[i], version)]
             x == IF version < 2 THEN {} ELSE p.syms
  <2>2. Carried(p, version)
          = [[p EXCEPT !.used = <<>>, !.syms = x] EXCEPT !.functions = b]
    BY <2>1 DEF Carried
  <2> HIDE DEF b, x
  <2>3. [p EXCEPT !.used = <<>>, !.syms = x] =
          [name |-> p.name, implements |-> p.implements, storage |-> p.storage,
           functions |-> p.functions, syms |-> x, used |-> <<>>]
    <3> DEFINE q == [p EXCEPT !.used = <<>>]
    <3>1. q = [name |-> p.name, implements |-> p.implements, storage |-> p.storage,
               functions |-> p.functions, syms |-> p.syms, used |-> <<>>]
      BY <2>1
    <3>2. [p EXCEPT !.used = <<>>, !.syms = x] = [q EXCEPT !.syms = x] OBVIOUS
    <3> HIDE DEF q
    <3> QED BY <3>1, <3>2
  <2> QED BY <2>2, <2>3 DEF b, x
<1> QED BY <1>25, <1>26 DEF ReadsBack, s

=============================================================================
