---------------------------- MODULE MemoryProofs ----------------------------
(***************************************************************************)
(* Proofs about hippocampal memory, for every dimension, codebook and set  *)
(* of keys: the algebra of the vectors, the agreement of the memory's      *)
(* three structures, what a recall matches, and that the memory implements *)
(* the exact map of TraceMap.                                              *)
(***************************************************************************)
EXTENDS Memory, SharedLemmas, FiniteSetTheorems, SequenceTheorems, TLAPS

-----------------------------------------------------------------------------
(* The algebra.                                                            *)

(* Binding is its own inverse (hypervec.rs, unbind).                       *)
THEOREM UnbindUndoesBind ==
  ASSUME NEW v \in Hypervec, NEW w \in Hypervec
  PROVE  Unbind(Bind(v, w), w) = v
<1>1. ASSUME NEW i \in Component PROVE (v[i] * w[i]) * w[i] = v[i]
  <2>1. v[i] \in {-1, 1} /\ w[i] \in {-1, 1}
    BY DEF Hypervec
  <2>2. QED BY <2>1
<1>2. QED BY <1>1 DEF Unbind, Bind, Hypervec

(* Rotating by k and then by Dim - k turns the vector all the way round,   *)
(* for every shift, multiples of the dimension included.                   *)
THEOREM UnpermuteUndoesPermute ==
  ASSUME NEW v \in Hypervec, NEW k \in Nat
  PROVE  Unpermute(Permute(v, k), k) = v
<1> DEFINE r == k % Dim
<1>1. Dim \in Nat \ {0}
  BY DimAssumption
<1>2. r \in 0 .. Dim - 1
  BY <1>1
<1>3. CASE r = 0
  <2>1. Dim - r = Dim /\ Dim % Dim = 0
    BY <1>1, <1>3
  <2>2. \A w \in Hypervec : Rotated(w, 0) = w
    BY <1>1 DEF Rotated, Hypervec, Component
  <2>3. QED BY <1>3, <2>1, <2>2 DEF Unpermute, Permute
<1>4. CASE r # 0
  <2>1. (Dim - r) % Dim = Dim - r
    BY <1>1, <1>2, <1>4
  <2> HIDE DEF r
  <2>2. ASSUME NEW i \in Component
        PROVE  Rotated(Rotated(v, r), Dim - r)[i] = v[i]
    BY <1>1, <1>2, <1>4, <2>2 DEF Rotated, Component, Hypervec
  <2>3. Rotated(Rotated(v, r), Dim - r) = v
    BY <2>2 DEF Rotated, Hypervec
  <2> USE DEF r
  <2>4. QED BY <2>1, <2>3 DEF Unpermute, Permute
<1>5. QED BY <1>3, <1>4

(* Distinct components are packed into distinct bits.                      *)
LEMMA BitInjective ==
  ASSUME NEW i \in Component, NEW j \in Component, Bit(i) = Bit(j)
  PROVE  i = j
<1>1. WordBits \in Nat \ {0} /\ i - 1 \in Nat /\ j - 1 \in Nat
  BY DimAssumption DEF Component
<1>2. \A n \in Nat : n = WordBits * (n \div WordBits) + (n % WordBits)
  BY <1>1
<1>3. (i - 1) \div WordBits = (j - 1) \div WordBits /\ (i - 1) % WordBits = (j - 1) % WordBits
  BY DEF Bit
<1>4. i - 1 = j - 1
  BY <1>1, <1>2, <1>3
<1>5. QED BY <1>4 DEF Component

(* Packing loses nothing.                                                  *)
LEMMA PackInjective ==
  ASSUME NEW v \in Hypervec, NEW w \in Hypervec, Pack(v) = Pack(w)
  PROVE  v = w
<1>1. ASSUME NEW i \in Component PROVE v[i] > 0 <=> w[i] > 0
  <2>1. ASSUME NEW u \in Hypervec PROVE u[i] > 0 <=> Bit(i) \in Pack(u)
    BY BitInjective DEF Pack
  <2>2. QED BY <2>1
<1>2. ASSUME NEW i \in Component PROVE v[i] = w[i]
  BY <1>1, v[i] \in {-1, 1}, w[i] \in {-1, 1} DEF Hypervec
<1>3. QED BY <1>2 DEF Hypervec

LEMMA PackFinite ==
  ASSUME NEW v
  PROVE  IsFiniteSet(Pack(v))
<1> DEFINE P == {j \in Component : v[j] > 0}
<1>1. IsFiniteSet(Component)
  BY DimAssumption, FS_Interval DEF Component
<1>2. IsFiniteSet(P)
  BY <1>1, FS_Subset
<1> DEFINE f == [j \in P |-> Bit(j)]
<1> HIDE DEF P
<1>3. f \in Surjection(P, {Bit(j) : j \in P})
  BY DEF Surjection
<1>4. IsFiniteSet({Bit(j) : j \in P})
  BY <1>2, <1>3, FS_Surjection
<1>5. QED BY <1>4 DEF Pack, P

(* The distance is a natural number, and 0 only between equal vectors.     *)
LEMMA DistanceFacts ==
  ASSUME NEW v \in Hypervec, NEW w \in Hypervec
  PROVE  /\ HammingDist(Pack(v), Pack(w)) \in Nat
         /\ HammingDist(Pack(v), Pack(w)) = 0 <=> v = w
<1> DEFINE p == Pack(v)  q == Pack(w)
<1>1. IsFiniteSet(p) /\ IsFiniteSet(q)
  BY PackFinite
<1> HIDE DEF p, q
<1>2. IsFiniteSet(Xor(p, q))
  BY <1>1, FS_Difference, FS_Union DEF Xor
<1>3. Cardinality(Xor(p, q)) \in Nat /\ (Cardinality(Xor(p, q)) = 0 <=> Xor(p, q) = {})
  BY <1>2, FS_CardinalityType, FS_EmptySet
<1>4. Xor(p, q) = {} <=> p = q
  BY DEF Xor
<1>5. p = q <=> v = w
  BY PackInjective DEF p, q
<1>6. QED BY <1>3, <1>4, <1>5 DEF HammingDist, p, q

-----------------------------------------------------------------------------
(* Sums.  MapThenSumSet takes the elements of a set in an order CHOOSE     *)
(* picks; whatever the order, it computes any h that starts at 0 and gains *)
(* g[x] with each x.                                                       *)

FoldsTo(iter, g, S) ==
  iter = [s \in SUBSET S |->
            IF s = {} THEN 0
            ELSE g[CHOOSE x \in s : TRUE] + iter[s \ {CHOOSE x \in s : TRUE}]]

Sums(h, g, S) ==
  /\ h \in [SUBSET S -> Int]
  /\ h[{}] = 0
  /\ \A s \in SUBSET S : \A x \in s : h[s] = g[x] + h[s \ {x}]

LEMMA SumFolds == ASSUME NEW h, NEW g, NEW S, Sums(h, g, S) PROVE FoldsTo(h, g, S)
<1> DEFINE k == [s \in SUBSET S |->
                   IF s = {} THEN 0
                   ELSE g[CHOOSE x \in s : TRUE] + h[s \ {CHOOSE x \in s : TRUE}]]
<1>1. ASSUME NEW s \in SUBSET S PROVE h[s] = k[s]
  <2>1. CASE s = {} BY <2>1 DEF Sums
  <2>2. CASE s # {}
    <3>1. (CHOOSE x \in s : TRUE) \in s BY <2>2
    <3> QED BY <2>2, <3>1 DEF Sums
  <2> QED BY <2>1, <2>2
<1>2. h \in [SUBSET S -> Int] BY DEF Sums
<1>3. DOMAIN h = SUBSET S /\ DOMAIN k = SUBSET S BY <1>2
<1>4. h = [s \in SUBSET S |-> h[s]] BY <1>2
<1>5. [s \in SUBSET S |-> h[s]] = k BY <1>1
<1> QED BY <1>4, <1>5 DEF FoldsTo

LEMMA FoldIs ==
  ASSUME NEW S, IsFiniteSet(S), NEW g, NEW h, Sums(h, g, S),
         NEW iter, FoldsTo(iter, g, S)
  PROVE  iter[S] = h[S]
<1> DEFINE Bad == {s \in SUBSET S : iter[s] # h[s]}
           C   == {Cardinality(s) : s \in Bad}
<1> SUFFICES ASSUME Bad # {} PROVE FALSE OBVIOUS
<1>1. \A s \in SUBSET S : IsFiniteSet(s) /\ Cardinality(s) \in Nat
  BY FS_Subset, FS_CardinalityType
<1>2. C \in SUBSET Nat /\ C # {} BY <1>1
<1>3. PICK n \in C : \A m \in C : n <= m
  <2> HIDE DEF C
  <2> QED BY <1>2, LeastOf
<1>4. PICK s \in Bad : n = Cardinality(s) BY <1>3
<1>5. s # {} BY <1>4 DEF Sums, FoldsTo
<1> DEFINE x == CHOOSE y \in s : TRUE
           t == s \ {x}
<1>6. x \in s BY <1>5
<1>7. iter[s] = g[x] + iter[t] BY <1>4, <1>5 DEF FoldsTo
<1> HIDE DEF x
<1>8. Cardinality(t) = Cardinality(s) - 1 BY <1>1, <1>4, <1>6, FS_RemoveElement
<1>9. t \notin Bad
  <2>1. ASSUME t \in Bad PROVE FALSE
    <3>1. n <= Cardinality(t) BY <1>3, <2>1
    <3> QED BY <1>1, <1>2, <1>4, <1>8, <3>1
  <2> QED BY <2>1
<1>10. iter[t] = h[t] BY <1>4, <1>9
<1>11. h[s] = g[x] + h[t] BY <1>4, <1>6 DEF Sums
<1> QED BY <1>4, <1>7, <1>10, <1>11

(* The sum of signs is the number of elements less twice the minuses.      *)
Minuses(g, s) == {x \in s : g[x] = -1}
Signed(g, S)  == [s \in SUBSET S |-> Cardinality(s) - 2 * Cardinality(Minuses(g, s))]

LEMMA SignedSums ==
  ASSUME NEW S, IsFiniteSet(S), NEW g \in [S -> {-1, 1}]
  PROVE  Sums(Signed(g, S), g, S)
<1> DEFINE h == Signed(g, S)
<1>1. \A s \in SUBSET S : /\ IsFiniteSet(s) /\ Cardinality(s) \in Nat
                          /\ IsFiniteSet(Minuses(g, s))
                          /\ Cardinality(Minuses(g, s)) \in Nat
  BY FS_Subset, FS_CardinalityType DEF Minuses
<1>2. h \in [SUBSET S -> Int] BY <1>1 DEF Signed
<1>3. h[{}] = 0
  <2>1. Minuses(g, {}) = {} BY DEF Minuses
  <2> QED BY <2>1, FS_EmptySet DEF Signed
<1>4. ASSUME NEW s \in SUBSET S, NEW x \in s PROVE h[s] = g[x] + h[s \ {x}]
  <2> DEFINE t == s \ {x}
  <2>1. h[s] = Cardinality(s) - 2 * Cardinality(Minuses(g, s))
        /\ h[t] = Cardinality(t) - 2 * Cardinality(Minuses(g, t))
    BY DEF Signed
  <2>2. Cardinality(t) = Cardinality(s) - 1 BY <1>1, FS_RemoveElement
  <2>3. g[x] = -1 => /\ Minuses(g, t) = Minuses(g, s) \ {x}
                     /\ x \in Minuses(g, s)
    BY DEF Minuses
  <2>4. g[x] = 1 => Minuses(g, t) = Minuses(g, s) BY DEF Minuses
  <2>5. g[x] = -1 => Cardinality(Minuses(g, t)) = Cardinality(Minuses(g, s)) - 1
    <3> DEFINE m == Minuses(g, s)
    <3>1. IsFiniteSet(m) BY <1>1
    <3> HIDE DEF m, t
    <3>2. x \in m => Cardinality(m \ {x}) = Cardinality(m) - 1 BY <3>1, FS_RemoveElement
    <3> USE DEF m
    <3> QED BY <2>3, <3>2
  <2>6. Cardinality(s) \in Nat /\ Cardinality(Minuses(g, s)) \in Nat BY <1>1
  <2>7. g[x] \in {-1, 1} OBVIOUS
  <2>8. h[s] = g[x] + h[t]
    <3> HIDE DEF h, t
    <3> QED BY <2>1, <2>2, <2>4, <2>5, <2>6, <2>7
  <2> QED BY <2>8
<1> QED BY <1>2, <1>3, <1>4 DEF Sums

(* Distinct positions have distinct bits, so the distance of two packed    *)
(* vectors counts the components in which they differ.                     *)
LEMMA DistanceCounts ==
  ASSUME NEW v \in Hypervec, NEW w \in Hypervec
  PROVE  HammingDist(Pack(v), Pack(w)) = Cardinality({i \in Component : v[i] # w[i]})
<1> DEFINE D == {i \in Component : v[i] # w[i]}
           f == [i \in D |-> Bit(i)]
<1>1. \A u \in Hypervec : \A i \in Component : u[i] > 0 <=> Bit(i) \in Pack(u)
  BY BitInjective DEF Pack
<1>2. \A i \in Component : v[i] \in {-1, 1} /\ w[i] \in {-1, 1} BY DEF Hypervec
<1>3. Xor(Pack(v), Pack(w)) = {Bit(i) : i \in D}
  <2>1. ASSUME NEW b \in Xor(Pack(v), Pack(w)) PROVE b \in {Bit(i) : i \in D}
    <3>1. PICK i \in Component : b = Bit(i) BY DEF Xor, Pack
    <3>2. v[i] > 0 <=> ~(w[i] > 0) BY <1>1, <3>1 DEF Xor
    <3> QED BY <1>2, <3>1, <3>2
  <2>2. ASSUME NEW i \in D PROVE Bit(i) \in Xor(Pack(v), Pack(w))
    <3>1. v[i] > 0 <=> ~(w[i] > 0) BY <1>2
    <3> QED BY <1>1, <3>1 DEF Xor
  <2> QED BY <2>1, <2>2
<1>4. IsFiniteSet(D)
  <2>1. IsFiniteSet(Component) BY DimAssumption, FS_Interval DEF Component
  <2> QED BY <2>1, FS_Subset
<1>5. f \in Bijection(D, {Bit(i) : i \in D})
  BY BitInjective DEF Bijection, Injection, Surjection, IsInjective
<1>6. ExistsBijection(D, {Bit(i) : i \in D}) BY <1>5 DEF ExistsBijection
<1> QED BY <1>3, <1>4, <1>6, FS_Bijection DEF HammingDist

(* The bit-packed cosine is the dot product.                               *)
THEOREM CosineIsDot ==
  ASSUME NEW v \in Hypervec, NEW w \in Hypervec
  PROVE  CosineSim(v, w) = Dot(v, w)
<1> DEFINE g == [i \in Component |-> v[i] * w[i]]
           h == Signed(g, Component)
           c(s) == CHOOSE x \in s : TRUE
           Rec(it) == [s \in SUBSET Component |->
                         IF s = {} THEN 0 ELSE v[c(s)] * w[c(s)] + it[s \ {c(s)}]]
           It == CHOOSE it : it = Rec(it)
<1>1. IsFiniteSet(Component) BY DimAssumption, FS_Interval DEF Component
<1>2. \A i \in Component : /\ v[i] \in {-1, 1} /\ w[i] \in {-1, 1}
                           /\ g[i] \in {-1, 1} /\ g[i] = v[i] * w[i]
                           /\ (g[i] = -1 <=> v[i] # w[i])
  BY DEF Hypervec
<1>3. g \in [Component -> {-1, 1}] BY <1>2
<1>4. \A s \in SUBSET Component : s # {} => c(s) \in Component OBVIOUS
<1>5. \A it : FoldsTo(it, g, Component) <=> it = Rec(it)
  BY <1>4 DEF FoldsTo
<1>6. Sums(h, g, Component) BY <1>1, <1>3, SignedSums
<1>7. FoldsTo(h, g, Component) BY <1>6, SumFolds
<1>8. FoldsTo(It, g, Component)
  <2> HIDE DEF g, h, Rec
  <2>1. h = Rec(h) BY <1>5, <1>7
  <2>2. It = Rec(It) BY <2>1
  <2> QED BY <1>5, <2>2
<1>9. Dot(v, w) = It[Component] BY DEF Dot, MapThenSumSet, MapThenFoldSet
<1> HIDE DEF It, g, h
<1>10. Dot(v, w) = h[Component] BY <1>1, <1>6, <1>8, <1>9, FoldIs
<1>11. Minuses(g, Component) = {i \in Component : v[i] # w[i]}
  BY <1>2 DEF Minuses
<1>12. Cardinality(Component) = Dim
  BY DimAssumption, FS_Interval DEF Component
<1> QED BY <1>10, <1>11, <1>12, DistanceCounts DEF h, Signed, CosineSim

(* The number of votes less twice the votes against.                       *)
Votes(vs, i) == [j \in DOMAIN vs |-> vs[j][i]]

LEMMA VotesType ==
  ASSUME NEW vs \in Seq(Hypervec), NEW i \in Component
  PROVE  /\ Len(vs) \in Nat /\ DOMAIN vs = 1 .. Len(vs)
         /\ IsFiniteSet(DOMAIN vs) /\ Cardinality(DOMAIN vs) = Len(vs)
         /\ Votes(vs, i) \in [DOMAIN vs -> {-1, 1}]
<1>1. Len(vs) \in Nat /\ DOMAIN vs = 1 .. Len(vs) OBVIOUS
<1>2. IsFiniteSet(1 .. Len(vs)) /\ Cardinality(1 .. Len(vs)) = Len(vs)
  <2>1. /\ IsFiniteSet(1 .. Len(vs))
        /\ Cardinality(1 .. Len(vs)) = IF 1 > Len(vs) THEN 0 ELSE Len(vs) - 1 + 1
    BY <1>1, FS_Interval
  <2> QED BY <1>1, <2>1
<1>3. \A j \in DOMAIN vs : vs[j][i] \in {-1, 1}
  <2>1. \A j \in DOMAIN vs : vs[j] \in Hypervec OBVIOUS
  <2> QED BY <2>1 DEF Hypervec
<1> QED BY <1>1, <1>2, <1>3 DEF Votes

LEMMA ComponentSumIs ==
  ASSUME NEW vs \in Seq(Hypervec), NEW i \in Component
  PROVE  ComponentSum(vs, i) = Signed(Votes(vs, i), DOMAIN vs)[DOMAIN vs]
<1> DEFINE S == DOMAIN vs
           g == Votes(vs, i)
           h == Signed(g, S)
           c(s) == CHOOSE x \in s : TRUE
           Rec(it) == [s \in SUBSET S |->
                         IF s = {} THEN 0 ELSE vs[c(s)][i] + it[s \ {c(s)}]]
           It == CHOOSE it : it = Rec(it)
<1>1. IsFiniteSet(S) /\ g \in [S -> {-1, 1}] BY VotesType
<1>2. \A s \in SUBSET S : s # {} => g[c(s)] = vs[c(s)][i]
  <2>1. \A s \in SUBSET S : s # {} => c(s) \in S OBVIOUS
  <2> QED BY <2>1 DEF Votes
<1>3. \A it : FoldsTo(it, g, S) <=> it = Rec(it)
  BY <1>2 DEF FoldsTo
<1>4. Sums(h, g, S) BY <1>1, SignedSums
<1>5. FoldsTo(h, g, S) BY <1>4, SumFolds
<1>6. FoldsTo(It, g, S)
  <2> HIDE DEF g, h, S, Rec
  <2>1. h = Rec(h) BY <1>3, <1>5
  <2>2. It = Rec(It) BY <2>1
  <2> QED BY <1>3, <2>2
<1>7. ComponentSum(vs, i) = It[S] BY DEF ComponentSum, MapThenSumSet, MapThenFoldSet
<1> HIDE DEF It, g, h
<1> QED BY <1>1, <1>4, <1>6, <1>7, FoldIs DEF h, g

LEMMA SignedAdds ==
  ASSUME NEW S, IsFiniteSet(S), NEW g \in [S -> {-1, 1}],
         NEW a \in SUBSET S, NEW b \in SUBSET S, a \cap b = {}
  PROVE  Signed(g, S)[a \cup b] = Signed(g, S)[a] + Signed(g, S)[b]
<1> DEFINE ma == Minuses(g, a)
           mb == Minuses(g, b)
<1>1. IsFiniteSet(a) /\ IsFiniteSet(b) /\ IsFiniteSet(ma) /\ IsFiniteSet(mb)
  BY FS_Subset DEF Minuses
<1>2. Minuses(g, a \cup b) = ma \cup mb /\ ma \cap mb = {} BY DEF Minuses
<1>3. Signed(g, S)[a] = Cardinality(a) - 2 * Cardinality(ma)
      /\ Signed(g, S)[b] = Cardinality(b) - 2 * Cardinality(mb)
      /\ Signed(g, S)[a \cup b] = Cardinality(a \cup b) - 2 * Cardinality(ma \cup mb)
  BY <1>2 DEF Signed
<1> HIDE DEF ma, mb
<1>4. /\ Cardinality(a) \in Nat /\ Cardinality(b) \in Nat
      /\ Cardinality(ma) \in Nat /\ Cardinality(mb) \in Nat
  BY <1>1, FS_CardinalityType
<1>5. Cardinality(a \cup b) = Cardinality(a) + Cardinality(b)
  <2>1. Cardinality(a \cup b) = Cardinality(a) + Cardinality(b) - Cardinality(a \cap b)
    BY <1>1, FS_Union
  <2>2. Cardinality(a \cap b) = 0 BY FS_EmptySet
  <2> QED BY <1>4, <2>1, <2>2
<1>6. Cardinality(ma \cup mb) = Cardinality(ma) + Cardinality(mb)
  <2>1. Cardinality(ma \cup mb) = Cardinality(ma) + Cardinality(mb) - Cardinality(ma \cap mb)
    BY <1>1, FS_Union
  <2>2. Cardinality(ma \cap mb) = 0 BY <1>2, FS_EmptySet
  <2> QED BY <1>4, <2>1, <2>2
<1> QED BY <1>3, <1>5, <1>6, <1>4

(* The positions of chunk c.                                               *)
Last(vs, c) == IF c * BundleChunk < Len(vs) THEN c * BundleChunk ELSE Len(vs)
Positions(vs, c) == (c - 1) * BundleChunk + 1 .. Last(vs, c)

LEMMA ChunkPositions ==
  ASSUME NEW vs \in Seq(Hypervec)
  PROVE  /\ Chunks(vs) \in Nat
         /\ \A c \in 1 .. Chunks(vs) :
              /\ (c - 1) * BundleChunk \in Nat /\ Last(vs, c) \in Nat
              /\ (c - 1) * BundleChunk < Len(vs)
              /\ (c - 1) * BundleChunk < Last(vs, c) /\ Last(vs, c) <= Len(vs)
              /\ Last(vs, c) <= c * BundleChunk
         /\ \A c, d \in 1 .. Chunks(vs) : c < d => c * BundleChunk <= (d - 1) * BundleChunk
         /\ \A j \in 1 .. Len(vs) : \E c \in 1 .. Chunks(vs) : j \in Positions(vs, c)
<1> DEFINE B == BundleChunk
           n == Len(vs)
           q == (n + B - 1) \div B
           r == (n + B - 1) % B
<1>1. B \in Nat \ {0} /\ n \in Nat BY DimAssumption
<1> HIDE DEF B, n
<1>2. \A m \in Nat : /\ m \div B \in Nat /\ m % B \in Nat /\ m % B < B
                     /\ m = B * (m \div B) + (m % B)
  BY <1>1
<1>3. n + B - 1 \in Nat BY <1>1
<1>4. q \in Nat /\ r \in Nat /\ r < B /\ n + B - 1 = B * q + r BY <1>2, <1>3
<1>5. Chunks(vs) = q BY DEF Chunks, B, n
<1> HIDE DEF q, r
<1>6. \A x, y \in Nat : x <= y => x * B <= y * B
  <2>1. ASSUME NEW x \in Nat, NEW y \in Nat, x <= y PROVE x * B <= y * B
    <3>1. PICK z \in Nat : y = x + z
      <4>1. y - x \in Nat /\ y = x + (y - x) BY <2>1
      <4> QED BY <4>1
    <3>2. y * B = x * B + z * B /\ z * B \in Nat /\ x * B \in Nat BY <1>1, <3>1
    <3> QED BY <3>2
  <2> QED BY <2>1
<1>7. ASSUME NEW c \in 1 .. q
      PROVE  /\ (c - 1) * B \in Nat /\ c * B = (c - 1) * B + B /\ (c - 1) * B < n
  <2>1. c \in Nat /\ c - 1 \in Nat /\ c - 1 <= q - 1 /\ q - 1 \in Nat BY <1>4
  <2>2. (c - 1) * B \in Nat /\ c * B = (c - 1) * B + B BY <1>1, <2>1
  <2>3. (c - 1) * B <= (q - 1) * B BY <1>6, <2>1
  <2>4. (q - 1) * B = B * q - B /\ B * q \in Nat BY <1>1, <1>4
  <2>5. B * q - B < n BY <1>1, <1>4, <2>4
  <2> QED BY <1>1, <2>2, <2>3, <2>4, <2>5
<1>8. ASSUME NEW c \in 1 .. q
      PROVE  /\ Last(vs, c) \in Nat /\ (c - 1) * B < Last(vs, c)
             /\ Last(vs, c) <= n /\ Last(vs, c) <= c * B
  <2>1. Last(vs, c) = IF c * B < n THEN c * B ELSE n BY DEF Last, B, n
  <2> DEFINE m == (c - 1) * B
             l == c * B
  <2>2. m \in Nat /\ l = m + B /\ m < n BY <1>7
  <2> HIDE DEF m, l
  <2>3. Last(vs, c) \in Nat /\ m < Last(vs, c) /\ Last(vs, c) <= n /\ Last(vs, c) <= l
    BY <1>1, <2>1, <2>2 DEF l
  <2> QED BY <2>3 DEF m, l
<1>9. ASSUME NEW c \in 1 .. q, NEW d \in 1 .. q, c < d PROVE c * B <= (d - 1) * B
  <2>1. c \in Nat /\ d - 1 \in Nat /\ c <= d - 1 BY <1>4, <1>9
  <2> QED BY <1>6, <2>1
<1>10. ASSUME NEW j \in 1 .. n PROVE \E c \in 1 .. q : j \in Positions(vs, c)
  <2> DEFINE k == (j - 1) \div B
  <2>1. k \in Nat /\ j - 1 = B * k + ((j - 1) % B) /\ (j - 1) % B < B /\ (j - 1) % B \in Nat
    BY <1>1, <1>2
  <2> HIDE DEF k
  <2>2. B * k <= j - 1 /\ j - 1 < B * k + B /\ B * k \in Nat BY <1>1, <2>1
  <2>3. k < q
    <3>1. ASSUME q <= k PROVE FALSE
      <4>1. q * B <= k * B BY <1>4, <1>6, <2>1, <3>1
      <4>2. q * B = B * q /\ k * B = B * k /\ B * q \in Nat BY <1>1, <1>4, <2>1
      <4> QED BY <1>1, <1>4, <2>2, <4>1, <4>2
    <3> QED BY <1>4, <2>1, <3>1
  <2>4. (k + 1) * B = B * k + B /\ k * B = B * k BY <1>1, <2>1
  <2>5. j \in Positions(vs, k + 1)
    <3> DEFINE c == k + 1
    <3>6. c - 1 = k BY <2>1
    <3>1. Last(vs, c) = IF c * B < n THEN c * B ELSE n BY DEF Last, B, n
    <3> HIDE DEF c
    <3>2. Positions(vs, c) = (c - 1) * B + 1 .. Last(vs, c) BY DEF Positions, B
    <3>3. Positions(vs, c) = k * B + 1 .. Last(vs, c) BY <3>6, <3>2
    <3>4. c * B = B * k + B BY <2>4 DEF c
    <3>5. j \in Positions(vs, c) BY <1>1, <2>2, <2>4, <3>1, <3>3, <3>4
    <3> QED BY <3>5 DEF c
  <2>6. k + 1 \in 1 .. q BY <1>4, <2>1, <2>3
  <2> QED BY <2>5, <2>6
<1> QED BY <1>4, <1>5, <1>7, <1>8, <1>9, <1>10 DEF B, n

LEMMA ChunkSumIs ==
  ASSUME NEW vs \in Seq(Hypervec), NEW i \in Component, NEW c \in 1 .. Chunks(vs)
  PROVE  ComponentSum(Chunk(vs, c), i)
           = Signed(Votes(vs, i), DOMAIN vs)[Positions(vs, c)]
<1> DEFINE lo == (c - 1) * BundleChunk
           hi == Last(vs, c)
           P  == Positions(vs, c)
           ws == Chunk(vs, c)
           g  == Votes(vs, i)
           gw == Votes(ws, i)
           f  == [j \in 1 .. hi - lo |-> lo + j]
           M  == Minuses(gw, DOMAIN ws)
           N  == Minuses(g, P)
           fm == [j \in M |-> lo + j]
<1>1. lo \in Nat /\ hi \in Nat /\ lo < hi /\ hi <= Len(vs) /\ Len(vs) \in Nat
  BY ChunkPositions, VotesType
<1>2. P = lo + 1 .. hi BY DEF Positions
<1>3. ws = SubSeq(vs, lo + 1, hi) BY DEF Chunk, Last
<1> HIDE DEF lo, hi, P, ws
<1>4. /\ ws \in Seq(Hypervec) /\ Len(ws) = hi - lo
      /\ \A j \in 1 .. hi - lo : ws[j] = vs[lo + j]
  <2>1. lo + 1 \in 1 .. Len(vs) /\ hi \in 1 .. Len(vs) BY <1>1
  <2>2. ws \in Seq(Hypervec) BY <1>3, <2>1, SubSeqProperties
  <2>3. Len(ws) = hi - lo /\ \A j \in 1 .. Len(ws) : ws[j] = vs[(lo + 1) + j - 1]
    <3>1. Len(ws) = hi - (lo + 1) + 1 BY <1>1, <1>3, <2>1, SubSeqProperties
    <3>2. \A j \in 1 .. Len(ws) : ws[j] = vs[(lo + 1) + j - 1]
      BY <1>1, <1>3, <2>1, <3>1, SubSeqProperties
    <3> QED BY <1>1, <3>1, <3>2
  <2>4. \A j \in 1 .. hi - lo : (lo + 1) + j - 1 = lo + j BY <1>1
  <2> QED BY <2>2, <2>3, <2>4
<1>5. DOMAIN ws = 1 .. hi - lo BY <1>4
<1>6. P \subseteq DOMAIN vs /\ DOMAIN vs = 1 .. Len(vs) BY <1>1, <1>2, VotesType
<1>7. \A j \in DOMAIN ws : gw[j] = g[lo + j] /\ lo + j \in P
  <2>1. \A j \in 1 .. hi - lo : lo + j \in P BY <1>1, <1>2
  <2> QED BY <1>4, <1>5, <1>6, <2>1 DEF Votes
<1>8. \A p \in P : p - lo \in DOMAIN ws /\ lo + (p - lo) = p BY <1>1, <1>2, <1>5
<1>9. Cardinality(DOMAIN ws) = Cardinality(P)
  <2>1. f \in Bijection(DOMAIN ws, P)
    <3>1. f \in [DOMAIN ws -> P] /\ \A j \in DOMAIN ws : f[j] = lo + j BY <1>5, <1>7
    <3>2. \A j, k \in DOMAIN ws : f[j] = f[k] => j = k BY <1>1, <1>5
    <3>3. \A p \in P : \E j \in DOMAIN ws : f[j] = p BY <1>8, <3>1
    <3> HIDE DEF f
    <3> QED BY <3>1, <3>2, <3>3 DEF Bijection, Injection, Surjection, IsInjective
  <2>2. IsFiniteSet(DOMAIN ws) BY <1>4, VotesType
  <2> QED BY <2>1, <2>2, FS_Bijection DEF ExistsBijection
<1> HIDE DEF g, gw
<1>10. Cardinality(M) = Cardinality(N)
  <2>1. \A j \in M : lo + j \in N /\ j \in Int BY <1>5, <1>7 DEF Minuses
  <2>2. \A p \in N : p - lo \in M /\ lo + (p - lo) = p BY <1>7, <1>8 DEF Minuses
  <2>3. IsFiniteSet(M)
    <3>1. IsFiniteSet(DOMAIN ws) BY <1>4, VotesType
    <3> QED BY <3>1, FS_Subset DEF Minuses
  <2> HIDE DEF M, N
  <2>4. fm \in Bijection(M, N)
    BY <1>1, <2>1, <2>2 DEF Bijection, Injection, Surjection, IsInjective
  <2> QED BY <2>3, <2>4, FS_Bijection DEF ExistsBijection
<1>11. ComponentSum(ws, i) = Cardinality(DOMAIN ws) - 2 * Cardinality(M)
  <2>1. ComponentSum(ws, i) = Signed(gw, DOMAIN ws)[DOMAIN ws]
    BY <1>4, ComponentSumIs DEF gw
  <2> QED BY <2>1 DEF Signed
<1>12. Signed(g, DOMAIN vs)[P] = Cardinality(P) - 2 * Cardinality(N)
  BY <1>6 DEF Signed
<1> QED BY <1>9, <1>10, <1>11, <1>12 DEF ws, P, g

(* However the sum is chunked, it counts every vote once.                  *)
LEMMA ChunkedSumIs ==
  ASSUME NEW vs \in Seq(Hypervec), NEW i \in Component
  PROVE  ChunkedSum(vs, i) = Signed(Votes(vs, i), DOMAIN vs)[DOMAIN vs]
<1> DEFINE C  == 1 .. Chunks(vs)
           H  == Signed(Votes(vs, i), DOMAIN vs)
           U(s) == UNION {Positions(vs, d) : d \in s}
           g  == [d \in C |-> H[Positions(vs, d)]]
           h  == [s \in SUBSET C |-> H[U(s)]]
           c(s) == CHOOSE x \in s : TRUE
           Rec(it) == [s \in SUBSET C |->
                         IF s = {} THEN 0
                         ELSE ComponentSum(Chunk(vs, c(s)), i) + it[s \ {c(s)}]]
           It == CHOOSE it : it = Rec(it)
<1>1. IsFiniteSet(C) /\ IsFiniteSet(DOMAIN vs) /\ DOMAIN vs = 1 .. Len(vs)
      /\ Len(vs) \in Nat /\ Votes(vs, i) \in [DOMAIN vs -> {-1, 1}]
  BY VotesType, ChunkPositions, FS_Interval
<1>2. \A d \in C : Positions(vs, d) \subseteq DOMAIN vs
  BY <1>1, ChunkPositions DEF Positions
<1>3. \A s \in SUBSET C : U(s) \in SUBSET (DOMAIN vs) BY <1>2
<1>4. \A d, e \in C : d # e => Positions(vs, d) \cap Positions(vs, e) = {}
  <2>1. ASSUME NEW d \in C, NEW e \in C, d < e
        PROVE  Positions(vs, d) \cap Positions(vs, e) = {}
    <3> DEFINE x == d * BundleChunk
               y == (e - 1) * BundleChunk
               l == Last(vs, d)
               z == (d - 1) * BundleChunk
               m == Last(vs, e)
    <3>1. x <= y /\ l <= x /\ y \in Nat /\ l \in Nat /\ z \in Nat /\ m \in Nat
      BY <2>1, ChunkPositions
    <3>2. x \in Nat
      BY DimAssumption, ChunkPositions
    <3>3. Positions(vs, d) = z + 1 .. l /\ Positions(vs, e) = y + 1 .. m
      BY DEF Positions
    <3> HIDE DEF x, y, l, z, m
    <3> QED BY <3>1, <3>2, <3>3
  <2>2. C \subseteq Nat BY ChunkPositions
  <2> QED BY <2>1, <2>2
<1>5. H \in [SUBSET (DOMAIN vs) -> Int] /\ H[{}] = 0
  BY <1>1, SignedSums DEF Sums
<1>6. \A a, b \in SUBSET (DOMAIN vs) : a \cap b = {} => H[a \cup b] = H[a] + H[b]
  <2> DEFINE S == DOMAIN vs
             V == Votes(vs, i)
  <2>1. IsFiniteSet(S) /\ V \in [S -> {-1, 1}] BY <1>1
  <2> HIDE DEF S, V
  <2>2. \A a, b \in SUBSET S : a \cap b = {} =>
          Signed(V, S)[a \cup b] = Signed(V, S)[a] + Signed(V, S)[b]
    BY <2>1, SignedAdds
  <2> QED BY <2>2 DEF S, V
<1> HIDE DEF H
<1>7. Sums(h, g, C)
  <2>1. h \in [SUBSET C -> Int] BY <1>3, <1>5
  <2>2. h[{}] = 0
    <3>1. U({}) = {} OBVIOUS
    <3> QED BY <1>5, <3>1
  <2>3. ASSUME NEW s \in SUBSET C, NEW d \in s PROVE h[s] = g[d] + h[s \ {d}]
    <3>1. U(s) = Positions(vs, d) \cup U(s \ {d}) OBVIOUS
    <3>2. Positions(vs, d) \cap U(s \ {d}) = {} BY <1>4
    <3>3. Positions(vs, d) \in SUBSET (DOMAIN vs) /\ U(s \ {d}) \in SUBSET (DOMAIN vs)
      BY <1>2, <1>3
    <3>4. H[Positions(vs, d) \cup U(s \ {d})] = H[Positions(vs, d)] + H[U(s \ {d})]
      <4> HIDE DEF U
      <4> QED BY <1>6, <3>2, <3>3
    <3>5. h[s] = H[U(s)] /\ h[s \ {d}] = H[U(s \ {d})] /\ g[d] = H[Positions(vs, d)]
      OBVIOUS
    <3> HIDE DEF h, g, U
    <3> QED BY <3>1, <3>4, <3>5
  <2> HIDE DEF h, g
  <2> QED BY <2>1, <2>2, <2>3 DEF Sums
<1>8. FoldsTo(h, g, C) BY <1>7, SumFolds
<1>9. \A s \in SUBSET C : s # {} => g[c(s)] = ComponentSum(Chunk(vs, c(s)), i)
  <2>1. \A s \in SUBSET C : s # {} => c(s) \in C OBVIOUS
  <2> HIDE DEF c
  <2> QED BY <2>1, ChunkSumIs DEF H
<1>10. \A it : FoldsTo(it, g, C) <=> it = Rec(it)
  <2> HIDE DEF g
  <2> QED BY <1>9 DEF FoldsTo
<1>11. FoldsTo(It, g, C)
  <2> HIDE DEF g, h, C, Rec
  <2>1. h = Rec(h) BY <1>8, <1>10
  <2>2. It = Rec(It) BY <2>1
  <2> QED BY <1>10, <2>2
<1>12. ChunkedSum(vs, i) = It[C] BY DEF ChunkedSum, MapThenSumSet, MapThenFoldSet
<1>13. U(C) = DOMAIN vs
  <2>1. DOMAIN vs \subseteq U(C) BY <1>1, ChunkPositions
  <2> QED BY <1>3, <2>1
<1>14. h[C] = H[U(C)] OBVIOUS
<1> HIDE DEF It, g, h, C, U
<1>15. ChunkedSum(vs, i) = h[C] BY <1>1, <1>7, <1>11, <1>12, FoldIs
<1> QED BY <1>13, <1>14, <1>15 DEF H

(* A bundle is the majority vote, a tie going to +1, whatever the chunk.   *)
THEOREM BundleIsMajority ==
  ASSUME NEW vs \in Seq(Hypervec), NEW i \in Component
  PROVE  Bundle(vs)[i] = 1 <=> Majority(vs, i)
<1> DEFINE D == DOMAIN vs
           g == Votes(vs, i)
           M == Minuses(g, D)
           P == {j \in D : vs[j][i] = 1}
<1>1. IsFiniteSet(D) /\ Cardinality(D) = Len(vs) /\ Len(vs) \in Nat
      /\ g \in [D -> {-1, 1}]
  BY VotesType
<1>2. IsFiniteSet(M) /\ IsFiniteSet(P) BY <1>1, FS_Subset DEF Minuses
<1>3. Cardinality(M) \in Nat /\ Cardinality(P) \in Nat BY <1>2, FS_CardinalityType
<1>4. M \cup P = D /\ M \cap P = {}
  <2>1. \A j \in D : g[j] \in {-1, 1} /\ g[j] = vs[j][i] BY <1>1 DEF Votes
  <2>2. \A j \in D : (j \in M <=> vs[j][i] = -1) /\ (j \in P <=> vs[j][i] = 1)
    BY <2>1 DEF Minuses
  <2>3. M \subseteq D /\ P \subseteq D BY DEF Minuses
  <2> HIDE DEF M, P, g, D
  <2> QED BY <2>1, <2>2, <2>3
<1>5. ChunkedSum(vs, i) = Len(vs) - 2 * Cardinality(M)
  <2>1. ChunkedSum(vs, i) = Signed(g, D)[D] BY ChunkedSumIs
  <2> QED BY <1>1, <2>1 DEF Signed
<1>6. Bundle(vs)[i] = SignOf(ChunkedSum(vs, i)) BY DEF Bundle
<1>7. Majority(vs, i) <=> Cardinality(P) * 2 >= Len(vs) BY DEF Majority
<1> HIDE DEF M, P, D, g
<1>8. Len(vs) = Cardinality(M) + Cardinality(P)
  <2>1. Cardinality(M \cup P) = Cardinality(M) + Cardinality(P) - Cardinality(M \cap P)
    BY <1>2, FS_Union
  <2>2. Cardinality(M \cap P) = 0 BY <1>4, FS_EmptySet
  <2>3. Cardinality(M \cup P) = Len(vs) BY <1>1, <1>4
  <2> QED BY <1>3, <2>1, <2>2, <2>3
<1> QED BY <1>3, <1>5, <1>6, <1>7, <1>8 DEF SignOf

-----------------------------------------------------------------------------
(* The inductive invariant: StructuresAgree and the types it needs.        *)

Packs == {Pack(v) : v \in Hypervec}
Shape(m) ==
  /\ \A k \in Name : m.cache[k] # Absent => m.cache[k] = book[k]
  /\ m.cache \in [Name -> Hypervec \cup {Absent}]
  /\ m.traces \in Seq(Trace \cup {Absent})
  /\ m.byKey \in [Name -> Nat \cup {Absent}]
  /\ m.index \in SUBSET (Nat \X Packs)
Inv == /\ book \in Books
       /\ \A m \in saved \cup {Clone} : Shape(m) /\ Agrees(m)

(* The live memory's part of it, spelled out on the variables.             *)
Typed ==
  /\ book \in [Name -> Hypervec]
  /\ \A j, k \in Name : book[j] = book[k] => j = k
  /\ \A k \in Name : cache[k] # Absent => cache[k] = book[k]
  /\ cache \in [Name -> Hypervec \cup {Absent}]
  /\ traces \in Seq(Trace \cup {Absent})
  /\ byKey \in [Name -> Nat \cup {Absent}]
  /\ index \in SUBSET (Nat \X Packs)
Consistent ==
  /\ \A k \in Name : byKey[k] # Absent =>
       byKey[k] \in Ids /\ traces[byKey[k]] # Absent /\ traces[byKey[k]].key = k
  /\ \A i \in Ids : traces[i] # Absent =>
       byKey[traces[i].key] = i /\ <<i, Pack(book[traces[i].key])>> \in index
  /\ \A e \in index : /\ e[1] \in Ids /\ traces[e[1]] # Absent
                      /\ e[2] = Pack(book[traces[e[1]].key])

LEMMA Unpacked == ASSUME Inv PROVE Typed /\ Consistent
<1>1. Shape(Clone) /\ Agrees(Clone) /\ book \in Books
  BY DEF Inv
<1>2. QED BY <1>1, BooksAssumption DEF Shape, Agrees, Clone, Typed, Consistent, Ids

LEMMA Packed == ASSUME book \in Books, Typed, Consistent
                PROVE  Shape(Clone) /\ Agrees(Clone)
BY DEF Shape, Agrees, Clone, Typed, Consistent, Ids

LEMMA KeyVecIsBook == ASSUME Typed, NEW k \in Name PROVE KeyVec(k) = book[k]
BY DEF Typed, KeyVec

LEMMA AllocateKeeps ==
  ASSUME Typed, Consistent, NEW k \in Name, NEW v \in Payload, Allocate(k, v),
         UNCHANGED book
  PROVE  (Typed /\ Consistent)'
<1> DEFINE n == Len(traces) + 1
           t == [key |-> k, value |-> v]
<1>1. t \in Trace /\ t # Absent
  BY MemoryAssumption DEF Trace
<1>2. /\ traces' = Append(traces, t)
      /\ traces \in Seq(Trace \cup {Absent})
      /\ byKey' = [byKey EXCEPT ![k] = n]
      /\ index' = index \cup {<<n, Pack(book[k])>>}
      /\ cache' = [cache EXCEPT ![k] = book[k]]
      /\ book' = book
  BY KeyVecIsBook DEF Allocate, NextId, Fetched, Typed
<1> HIDE DEF t
<1>3. /\ n \in Nat /\ n # Absent /\ n \notin Ids
      /\ Ids' = Ids \cup {n}
      /\ traces'[n] = t /\ \A i \in Ids : traces'[i] = traces[i]
  BY <1>1, <1>2, MemoryAssumption DEF Ids
<1>4. book[k] \in Hypervec /\ Pack(book[k]) \in Packs
  BY DEF Typed, Packs
<1> HIDE DEF n
<1>5. Typed'
  <2>1. traces' \in Seq(Trace \cup {Absent})
    BY <1>1, <1>2
  <2>2. index' \in SUBSET (Nat \X Packs)
    BY <1>2, <1>3, <1>4 DEF Typed
  <2>3. cache' \in [Name -> Hypervec \cup {Absent}]
    BY <1>2, <1>4 DEF Typed
  <2>4. byKey' \in [Name -> Nat \cup {Absent}]
    BY <1>2, <1>3 DEF Typed
  <2>5. QED BY <1>2, <2>1, <2>2, <2>3, <2>4 DEF Typed
<1>6. byKey[k] = Absent /\ t.key = k
  BY DEF Allocate, t
<1>7. ASSUME NEW i \in Ids, traces[i] # Absent
      PROVE  traces[i].key \in Name /\ traces[i].key # k /\ byKey[traces[i].key] = i
  <2>1. traces[i] \in Trace
    BY <1>2, <1>7 DEF Ids
  <2>2. i \in Nat /\ i # Absent
    BY <1>2, MemoryAssumption DEF Ids
  <2>3. QED BY <1>6, <1>7, <2>1, <2>2 DEF Consistent, Trace
<1>8. byKey'[k] = n /\ \A j \in Name : j # k => byKey'[j] = byKey[j]
  BY <1>2 DEF Typed
<1>9. Consistent'
  <2>1. ASSUME NEW j \in Name, byKey'[j] # Absent
        PROVE  byKey'[j] \in Ids' /\ traces'[byKey'[j]] # Absent /\ traces'[byKey'[j]].key = j
    <3>1. CASE j = k
      BY <1>1, <1>3, <1>6, <1>8, <3>1
    <3>2. CASE j # k
      BY <1>3, <1>8, <2>1, <3>2 DEF Consistent
    <3>3. QED BY <3>1, <3>2
  <2>2. ASSUME NEW i \in Ids', traces'[i] # Absent
        PROVE  byKey'[traces'[i].key] = i /\ <<i, Pack(book'[traces'[i].key])>> \in index'
    <3>1. CASE i = n
      BY <1>2, <1>3, <1>6, <1>8, <3>1
    <3>2. CASE i \in Ids
      <4>1. traces'[i] = traces[i]
        BY <1>3, <3>2
      <4>2. <<i, Pack(book[traces[i].key])>> \in index
        BY <2>2, <3>2, <4>1 DEF Consistent
      <4>3. QED BY <1>2, <1>7, <1>8, <2>2, <3>2, <4>1, <4>2
    <3>3. QED BY <1>3, <3>1, <3>2
  <2>3. ASSUME NEW e \in index'
        PROVE  e[1] \in Ids' /\ traces'[e[1]] # Absent /\ e[2] = Pack(book'[traces'[e[1]].key])
    <3>1. CASE e \in index
      BY <1>2, <1>3, <3>1 DEF Consistent
    <3>2. CASE e = <<n, Pack(book[k])>>
      BY <1>1, <1>2, <1>3, <1>6, <3>2
    <3>3. QED BY <1>2, <3>1, <3>2
  <2>4. QED BY <2>1, <2>2, <2>3 DEF Consistent
<1>10. QED BY <1>5, <1>9

LEMMA OverwriteKeeps ==
  ASSUME Typed, Consistent, NEW k \in Name, NEW v \in Payload, Overwrite(k, v),
         UNCHANGED book
  PROVE  (Typed /\ Consistent)'
<1> DEFINE t == [key |-> k, value |-> v]
<1>1. t \in Trace /\ t # Absent /\ t.key = k
  BY MemoryAssumption DEF Trace
<1>2. /\ byKey[k] # Absent /\ byKey[k] \in Ids
      /\ traces[byKey[k]] # Absent /\ traces[byKey[k]].key = k
      /\ UNCHANGED <<book, byKey, index, cache>>
      /\ traces' = [i \in Ids |-> IF i = byKey[k] THEN t ELSE traces[i]]
  BY DEF Overwrite, Consistent
<1> HIDE DEF t
<1>3. traces \in Seq(Trace \cup {Absent}) /\ Ids = 1 .. Len(traces)
  BY DEF Typed, Ids
<1>4. \A i \in Ids : traces[i] \in Trace \cup {Absent}
  BY <1>3
<1>5. traces' \in Seq(Trace \cup {Absent}) /\ Ids' = Ids
  <2>1. traces' \in [1 .. Len(traces) -> Trace \cup {Absent}]
    BY <1>1, <1>2, <1>3, <1>4
  <2>2. Len(traces) \in Nat
    BY <1>3
  <2>3. QED BY <1>3, <2>1, <2>2 DEF Ids
<1>6. traces'[byKey[k]] = t /\ \A i \in Ids : i # byKey[k] => traces'[i] = traces[i]
  BY <1>2
<1>7. Typed'
  BY <1>2, <1>5 DEF Typed
<1>8. \A i \in Ids : /\ traces'[i] = Absent <=> traces[i] = Absent
                     /\ traces'[i] # Absent => traces'[i].key = traces[i].key
  BY <1>1, <1>2, <1>6
<1>9. Consistent'
  <2>1. \A j \in Name : byKey'[j] # Absent =>
          byKey'[j] \in Ids' /\ traces'[byKey'[j]] # Absent /\ traces'[byKey'[j]].key = j
    BY <1>2, <1>5, <1>8 DEF Consistent
  <2>2. \A i \in Ids' : traces'[i] # Absent =>
          byKey'[traces'[i].key] = i /\ <<i, Pack(book'[traces'[i].key])>> \in index'
    BY <1>2, <1>5, <1>8 DEF Consistent
  <2>3. \A e \in index' : /\ e[1] \in Ids' /\ traces'[e[1]] # Absent
                          /\ e[2] = Pack(book'[traces'[e[1]].key])
    BY <1>2, <1>5, <1>8 DEF Consistent
  <2>4. QED BY <2>1, <2>2, <2>3 DEF Consistent
<1>10. QED BY <1>7, <1>9

LEMMA ForgetKeeps ==
  ASSUME Typed, Consistent, NEW k \in Name, Forget(k)
  PROVE  (Typed /\ Consistent)'
<1>1. CASE byKey[k] = Absent
  BY <1>1 DEF Forget, Typed, Consistent, Ids
<1>2. CASE byKey[k] # Absent
  <2> DEFINE n == byKey[k]
  <2>1. /\ n \in Ids /\ n # Absent
        /\ traces' = [i \in Ids |-> IF i = n THEN Absent ELSE traces[i]]
        /\ byKey' = [byKey EXCEPT ![k] = Absent]
        /\ index' = {e \in index : e[1] # n}
        /\ cache' = cache /\ book' = book
        /\ traces[n] # Absent /\ traces[n].key = k
    BY <1>2 DEF Forget, Unindex, Consistent
  <2> HIDE DEF n
  <2>2. traces \in Seq(Trace \cup {Absent}) /\ Ids = 1 .. Len(traces)
    BY DEF Typed, Ids
  <2>3. \A i \in Ids : traces[i] \in Trace \cup {Absent}
    BY <2>2
  <2>4. traces' \in Seq(Trace \cup {Absent}) /\ Ids' = Ids
    <3>1. traces' \in [1 .. Len(traces) -> Trace \cup {Absent}]
      BY <2>1, <2>2, <2>3
    <3>2. Len(traces) \in Nat
      BY <2>2
    <3>3. QED BY <2>2, <3>1, <3>2 DEF Ids
  <2>5. traces'[n] = Absent /\ \A i \in Ids : i # n => traces'[i] = traces[i]
    BY <2>1
  <2>6. byKey'[k] = Absent /\ \A j \in Name : j # k => byKey'[j] = byKey[j]
    BY <2>1 DEF Typed
  <2>7. Typed'
    <3>1. byKey' \in [Name -> Nat \cup {Absent}]
      BY <2>1 DEF Typed
    <3>2. QED BY <2>1, <2>4, <3>1 DEF Typed
  <2>8. Consistent'
    <3>1. ASSUME NEW j \in Name, byKey'[j] # Absent
          PROVE  byKey'[j] \in Ids' /\ traces'[byKey'[j]] # Absent /\ traces'[byKey'[j]].key = j
      <4>1. j # k /\ byKey'[j] = byKey[j] /\ byKey[j] # Absent
        BY <2>6, <3>1
      <4>2. byKey[j] \in Ids /\ traces[byKey[j]] # Absent /\ traces[byKey[j]].key = j
        BY <4>1 DEF Consistent
      <4>3. byKey[j] # n
        BY <2>1, <4>1, <4>2
      <4>4. QED BY <2>4, <2>5, <4>1, <4>2, <4>3
    <3>2. ASSUME NEW i \in Ids', traces'[i] # Absent
          PROVE  byKey'[traces'[i].key] = i /\ <<i, Pack(book'[traces'[i].key])>> \in index'
      <4>1. i \in Ids /\ i # n /\ traces'[i] = traces[i] /\ traces[i] # Absent
        BY <2>4, <2>5, <3>2
      <4>2. byKey[traces[i].key] = i /\ <<i, Pack(book[traces[i].key])>> \in index
        BY <4>1 DEF Consistent
      <4>3. traces[i].key \in Name
        BY <2>3, <4>1 DEF Trace
      <4>4. traces[i].key # k
        BY <4>1, <4>2 DEF n
      <4>5. QED BY <2>1, <2>6, <4>1, <4>2, <4>3, <4>4
    <3>3. ASSUME NEW e \in index'
          PROVE  e[1] \in Ids' /\ traces'[e[1]] # Absent /\ e[2] = Pack(book'[traces'[e[1]].key])
      BY <2>1, <2>4, <2>5 DEF Consistent
    <3>4. QED BY <3>1, <3>2, <3>3 DEF Consistent
  <2>9. QED BY <2>7, <2>8
<1>3. QED BY <1>1, <1>2

LEMMA RecallKeeps ==
  ASSUME Typed, Consistent, NEW k \in Name, Recall(k)
  PROVE  (Typed /\ Consistent)'
<1>1. UNCHANGED <<book, traces, byKey, index>>
  BY DEF Recall
<1>2. cache' = cache \/ cache' = [cache EXCEPT ![k] = book[k]]
  BY KeyVecIsBook DEF Recall, Fetched
<1>3. \A j \in Name : cache'[j] # Absent => cache'[j] = book[j]
  BY <1>2 DEF Typed
<1>4. cache' \in [Name -> Hypervec \cup {Absent}]
  BY <1>2 DEF Typed
<1>5. QED BY <1>1, <1>3, <1>4 DEF Typed, Consistent, Ids

(* The three structures agree, in the memory and in every clone of it.     *)
THEOREM MemoryInvariant == Spec => []Inv
<1>1. Init => Inv
  <2> SUFFICES ASSUME Init PROVE Inv
    OBVIOUS
  <2>1. book \in Books /\ book \in [Name -> Hypervec]
    BY BooksAssumption DEF Init
  <2>2. Typed
    BY <2>1, BooksAssumption DEF Init, Typed
  <2>3. Consistent
    BY DEF Init, Consistent, Ids
  <2>4. saved = {}
    BY DEF Init
  <2>5. QED BY <2>1, <2>2, <2>3, <2>4, Packed DEF Inv
<1>2. Inv /\ [Next]_vars => Inv'
  <2> SUFFICES ASSUME Inv, [Next]_vars PROVE Inv'
    OBVIOUS
  <2>1. Typed /\ Consistent
    BY Unpacked
  <2>2. book' = book
    BY DEF Next, Store, Forget, Recall, Snapshot, Restore, vars
  <2>3. book \in Books /\ \A m \in saved : Shape(m) /\ Agrees(m)
    BY DEF Inv
  <2>4. \A m : (Shape(m) <=> Shape(m)') /\ (Agrees(m) <=> Agrees(m)')
    BY <2>2 DEF Shape, Agrees
  <2>5. ASSUME Typed', Consistent', saved' = saved PROVE Inv'
    <3>1. (Shape(Clone) /\ Agrees(Clone))'
      BY <2>2, <2>3, <2>5 DEF Shape, Agrees, Clone, Typed, Consistent, Ids
    <3>2. QED BY <2>2, <2>3, <2>4, <2>5, <3>1 DEF Inv
  <2>6. ASSUME NEW k \in Name, NEW v \in Payload, Store(k, v) PROVE Inv'
    <3>1. (Typed /\ Consistent)'
      BY <2>1, <2>2, <2>6, AllocateKeeps, OverwriteKeeps DEF Store
    <3>2. QED BY <2>5, <2>6, <3>1 DEF Store
  <2>7. ASSUME NEW k \in Name, Forget(k) PROVE Inv'
    BY <2>1, <2>5, <2>7, ForgetKeeps DEF Forget
  <2>8. ASSUME NEW k \in Name, Recall(k) PROVE Inv'
    BY <2>1, <2>5, <2>8, RecallKeeps DEF Recall
  <2>9. CASE Snapshot
    <3>1. saved' = saved \cup {Clone} /\ Clone' = Clone
      BY <2>9 DEF Snapshot, Clone, state
    <3>2. Shape(Clone) /\ Agrees(Clone)
      BY DEF Inv
    <3>3. QED BY <2>2, <2>3, <2>4, <3>1, <3>2 DEF Inv
  <2>10. CASE Restore
    <3>1. PICK s \in saved : Restored(s)
      BY <2>10 DEF Restore
    <3>2. Shape(s) /\ Agrees(s)
      BY <2>3
    <3>3. Typed' /\ Consistent'
      BY <2>1, <2>2, <3>1, <3>2 DEF Restored, Shape, Agrees, Typed, Consistent, Ids
    <3>4. QED BY <2>5, <2>10, <3>3 DEF Restore
  <2>11. CASE UNCHANGED vars
    BY <2>1, <2>5, <2>11 DEF vars, Typed, Consistent, Ids
  <2>12. QED BY <2>6, <2>7, <2>8, <2>9, <2>10, <2>11 DEF Next
<1>3. QED BY <1>1, <1>2, PTL DEF Spec

(* No drift between by_key, the slots and the index, ever.                 *)
THEOREM StructuresAlwaysAgree == Spec => []StructuresAgree
<1>1. Inv => StructuresAgree
  BY DEF Inv, StructuresAgree
<1>2. QED BY <1>1, MemoryInvariant, PTL

-----------------------------------------------------------------------------
(* The refinement.                                                         *)

(* A stored key's own entry is at distance 0 of a query for it; every      *)
(* other entry is farther.                                                 *)
LEMMA EntryDistance ==
  ASSUME Typed, Consistent, NEW k \in Name, NEW e \in index
  PROVE  /\ Distance(e, k) \in Nat
         /\ Distance(e, k) = 0 <=> traces[e[1]].key = k
         /\ IsLive(e)
<1>1. e[1] \in Ids /\ traces[e[1]] # Absent /\ e[2] = Pack(book[traces[e[1]].key])
  BY DEF Consistent
<1>2. traces[e[1]].key \in Name
  <2>1. traces[e[1]] \in Trace
    BY <1>1 DEF Typed, Ids
  <2>2. QED BY <2>1 DEF Trace
<1>3. book[k] \in Hypervec /\ book[traces[e[1]].key] \in Hypervec
  BY <1>2 DEF Typed
<1>4. Distance(e, k) = HammingDist(Pack(book[traces[e[1]].key]), Pack(book[k]))
  BY <1>1, KeyVecIsBook DEF Distance
<1>5. book[traces[e[1]].key] = book[k] <=> traces[e[1]].key = k
  BY <1>2 DEF Typed
<1>6. QED BY <1>1, <1>3, <1>4, <1>5, DistanceFacts DEF IsLive

LEMMA NoneCloser ==
  ASSUME Typed, Consistent, NEW k \in Name, NEW e \in index,
         \A f \in index : Distance(e, k) <= Distance(f, k)
  PROVE  e \in Hits(k)
<1>1. \A f \in index : Distance(f, k) \in Nat
  BY EntryDistance
<1>2. Closer(e, k) = {}
  BY <1>1 DEF Closer
<1>3. Cardinality(Closer(e, k)) < TopK
  BY <1>2, FS_EmptySet, MemoryAssumption
<1>4. IsLive(e)
  BY EntryDistance
<1>5. QED BY <1>2, <1>3, <1>4 DEF Hits

(* A recall finds something whenever anything is indexed.                  *)
LEMMA SomethingFound ==
  ASSUME Typed, Consistent, NEW k \in Name, index # {}
  PROVE  Hits(k) # {}
<1> DEFINE D == {Distance(e, k) : e \in index}
<1>1. \A e \in index : Distance(e, k) \in Nat
  BY EntryDistance
<1>2. D \in SUBSET Nat /\ D # {}
  BY <1>1
<1> HIDE DEF D
<1>3. PICK m \in D : \A d \in D : m <= d
  BY <1>2, LeastOf
<1>4. PICK e \in index : m = Distance(e, k)
  BY DEF D
<1>5. \A f \in index : Distance(e, k) <= Distance(f, k)
  BY <1>3, <1>4 DEF D
<1>6. QED BY <1>5, NoneCloser

(* A recall of a stored key finds that key's trace and no other.           *)
LEMMA OwnTraceFound ==
  ASSUME Typed, Consistent, NEW k \in Name, byKey[k] # Absent, NEW e \in Hits(k)
  PROVE  traces[e[1]] = traces[byKey[k]]
<1> DEFINE own == <<byKey[k], Pack(book[k])>>
<1>1. /\ byKey[k] \in Ids /\ traces[byKey[k]] # Absent
      /\ traces[byKey[k]].key = k /\ own \in index
  BY DEF Consistent
<1>2. own[1] = byKey[k]
  OBVIOUS
<1> HIDE DEF own
<1>3. Distance(own, k) = 0 /\ IsLive(own)
  BY <1>1, <1>2, EntryDistance
<1>4. e \in index /\ own \notin Closer(e, k)
  BY <1>3 DEF Hits
<1>5. Distance(e, k) \in Nat /\ ~ (0 < Distance(e, k))
  BY <1>1, <1>3, <1>4, EntryDistance DEF Closer
<1>6. Distance(e, k) = 0
  BY <1>5
<1>7. traces[e[1]].key = k /\ e[1] \in Ids /\ traces[e[1]] # Absent
  BY <1>4, <1>6, EntryDistance DEF Consistent
<1>8. byKey[k] = e[1]
  BY <1>7 DEF Consistent
<1>9. QED BY <1>8

Content == ContentOf(Clone)

LEMMA ContentIs ==
  Content = [k \in Name |-> IF byKey[k] = Absent THEN Absent ELSE traces[byKey[k]].value]
BY DEF Content, ContentOf, Clone

LEMMA ContentStored ==
  ASSUME Typed, Consistent, NEW k \in Name
  PROVE  /\ k \in Abstract!Stored <=> byKey[k] # Absent
         /\ byKey[k] # Absent => Content[k] = traces[byKey[k]].value
<1>1. Content[k] = IF byKey[k] = Absent THEN Absent ELSE traces[byKey[k]].value
  BY ContentIs
<1>2. ASSUME byKey[k] # Absent PROVE traces[byKey[k]].value # Absent
  <2>1. traces[byKey[k]] \in Trace
    BY <1>2 DEF Typed, Consistent, Ids
  <2>2. QED BY <2>1, MemoryAssumption DEF Trace
<1>3. QED BY <1>1, <1>2 DEF Abstract!Stored, Content

LEMMA StoreRefines ==
  ASSUME Typed, Consistent, NEW k \in Name, NEW v \in Payload, Store(k, v)
  PROVE  Abstract!Store(k, v)
<1>1. answer' = Absent /\ saved' = saved
  BY DEF Store, Silent
<1>2. Content' = [Content EXCEPT ![k] = v]
  <2>1. CASE Allocate(k, v)
    <3> DEFINE n == Len(traces) + 1
    <3>1. /\ traces' = Append(traces, [key |-> k, value |-> v])
          /\ traces \in Seq(Trace \cup {Absent})
          /\ byKey' = [byKey EXCEPT ![k] = n]
      BY <2>1 DEF Allocate, NextId, Typed
    <3>2. n # Absent /\ traces'[n].value = v /\ \A i \in Ids : traces'[i] = traces[i]
      BY <3>1, MemoryAssumption DEF Ids
    <3> HIDE DEF n
    <3>3. \A j \in Name : byKey[j] # Absent => byKey[j] \in Ids
      BY DEF Consistent
    <3>4. byKey'[k] = n /\ \A j \in Name : j # k => byKey'[j] = byKey[j]
      BY <3>1 DEF Typed
    <3>5. \A j \in Name : Content'[j] = IF j = k THEN v ELSE Content[j]
      BY <3>2, <3>3, <3>4 DEF Content, ContentOf, Clone
    <3>6. Content' = [j \in Name |-> Content'[j]] /\ Content = [j \in Name |-> Content[j]]
      BY DEF Content, ContentOf
    <3>7. QED BY <3>5, <3>6
  <2>2. CASE Overwrite(k, v)
    <3>1. /\ byKey[k] \in Ids /\ byKey' = byKey /\ byKey[k] # Absent
          /\ traces' = [i \in Ids |-> IF i = byKey[k] THEN [key |-> k, value |-> v]
                                      ELSE traces[i]]
      BY <2>2 DEF Overwrite, Consistent
    <3>2. traces'[byKey[k]].value = v
      BY <3>1
    <3>3. ASSUME NEW j \in Name, j # k, byKey[j] # Absent
          PROVE  traces'[byKey[j]] = traces[byKey[j]]
      <4>1. byKey[j] \in Ids /\ byKey[j] # byKey[k]
        BY <3>1, <3>3 DEF Consistent
      <4>2. QED BY <3>1, <4>1
    <3>4. \A j \in Name : Content'[j] = IF j = k THEN v ELSE Content[j]
      BY <3>1, <3>2, <3>3 DEF Content, ContentOf, Clone
    <3>5. Content' = [j \in Name |-> Content'[j]] /\ Content = [j \in Name |-> Content[j]]
      BY DEF Content, ContentOf
    <3>6. QED BY <3>4, <3>5
  <2>3. QED BY <2>1, <2>2 DEF Store
<1>3. QED BY <1>1, <1>2 DEF Abstract!Store, Content

LEMMA ForgetRefines ==
  ASSUME Typed, Consistent, NEW k \in Name, Forget(k)
  PROVE  Abstract!Forget(k)
<1>1. answer' = Absent /\ saved' = saved
  BY DEF Forget, Silent
<1>2. \A j \in Name : Content'[j] = IF j = k THEN Absent ELSE Content[j]
  <2>1. CASE byKey[k] = Absent
    BY <2>1 DEF Forget, Content, ContentOf, Clone
  <2>2. CASE byKey[k] # Absent
    <3>1. /\ traces' = [i \in Ids |-> IF i = byKey[k] THEN Absent ELSE traces[i]]
          /\ byKey' = [byKey EXCEPT ![k] = Absent]
      BY <2>2 DEF Forget
    <3>2. byKey'[k] = Absent /\ \A j \in Name : j # k => byKey'[j] = byKey[j]
      BY <3>1 DEF Typed
    <3>3. ASSUME NEW j \in Name, j # k, byKey[j] # Absent
          PROVE  traces'[byKey[j]] = traces[byKey[j]]
      <4>1. byKey[j] \in Ids /\ byKey[j] # byKey[k]
        BY <2>2, <3>3 DEF Consistent
      <4>2. QED BY <3>1, <4>1
    <3>4. QED BY <3>2, <3>3 DEF Content, ContentOf, Clone
  <2>3. QED BY <2>1, <2>2
<1>3. Content' = [j \in Name |-> Content'[j]] /\ Content = [j \in Name |-> Content[j]]
  BY DEF Content, ContentOf
<1>4. Content' = [Content EXCEPT ![k] = Absent]
  BY <1>2, <1>3
<1>5. QED BY <1>1, <1>4 DEF Abstract!Forget, Content

LEMMA RecallRefines ==
  ASSUME Typed, Consistent, NEW k \in Name, Recall(k)
  PROVE  Abstract!Recall(k)
<1>1. saved' = saved /\ Content' = Content
  BY DEF Recall, Content, ContentOf, Clone
<1>2. CASE Found(k)
  <2>1. PICK e \in Hits(k) : answer' = <<k, traces[e[1]].value>>
    BY <1>2 DEF Found
  <2>2. e \in index /\ e[1] \in Ids /\ traces[e[1]] # Absent
    BY DEF Hits, IsLive
  <2> DEFINE j == traces[e[1]].key
  <2>3. j \in Name /\ byKey[j] = e[1] /\ e[1] # Absent
    <3>1. traces[e[1]] \in Trace
      BY <2>2 DEF Typed, Ids
    <3>2. e[1] \in Nat
      BY <2>2 DEF Typed
    <3>3. QED BY <2>2, <3>1, <3>2, MemoryAssumption DEF Trace, Consistent
  <2> HIDE DEF j
  <2>4. j \in Abstract!Stored /\ answer' = <<k, Content[j]>>
    BY <2>1, <2>3, ContentStored
  <2>5. CASE byKey[k] # Absent
    BY <1>1, <2>1, <2>5, OwnTraceFound, ContentStored DEF Abstract!Recall, Content
  <2>6. CASE byKey[k] = Absent
    BY <1>1, <2>4, <2>6, ContentStored DEF Abstract!Recall, Content
  <2>7. QED BY <2>5, <2>6
<1>3. CASE Hits(k) = {} /\ answer' = <<k, Absent>>
  <2>1. index = {}
    BY <1>3, SomethingFound
  <2>2. \A j \in Name : byKey[j] = Absent
    BY <2>1 DEF Consistent
  <2>3. Abstract!Stored = {}
    BY <2>2, ContentStored DEF Abstract!Stored
  <2>4. QED BY <1>1, <1>3, <2>3 DEF Abstract!Recall, Content
<1>4. QED BY <1>2, <1>3 DEF Recall

(* The memory implements the exact-key map, snapshots included.            *)
THEOREM MemoryImplementsTraceMap == Spec => ImplementsTraceMap
<1>1. Init => Abstract!Init
  <2> SUFFICES ASSUME Init PROVE Abstract!Init
    OBVIOUS
  <2>1. ContentOf(Clone) = [k \in Name |-> Absent]
    BY DEF Init, ContentOf, Clone
  <2>2. saved = {} /\ answer = Absent
    BY DEF Init
  <2>3. QED BY <2>1, <2>2 DEF Abstract!Init
<1>2. Inv /\ [Next]_vars => [Abstract!Next]_(Abstract!vars)
  <2> SUFFICES ASSUME Inv, [Next]_vars PROVE [Abstract!Next]_(Abstract!vars)
    OBVIOUS
  <2>1. Typed /\ Consistent
    BY Unpacked
  <2>2. ASSUME NEW k \in Name, NEW v \in Payload, Store(k, v) PROVE Abstract!Next
    BY <2>1, <2>2, StoreRefines DEF Abstract!Next
  <2>3. ASSUME NEW k \in Name, Forget(k) PROVE Abstract!Next
    BY <2>1, <2>3, ForgetRefines DEF Abstract!Next
  <2>4. ASSUME NEW k \in Name, Recall(k) PROVE Abstract!Next
    BY <2>1, <2>4, RecallRefines DEF Abstract!Next
  <2>5. CASE Snapshot
    <3>1. Content' = Content /\ answer' = Absent /\ saved' = saved \cup {Clone}
      BY <2>5 DEF Snapshot, Silent, Content, ContentOf, Clone, state
    <3>2. {ContentOf(m) : m \in saved'} = {ContentOf(m) : m \in saved} \cup {Content}
      BY <3>1 DEF Content
    <3>3. Abstract!Snapshot
      BY <3>1, <3>2 DEF Abstract!Snapshot, Content, ContentOf
    <3>4. QED BY <3>3 DEF Abstract!Next
  <2>6. CASE Restore
    <3>1. PICK s \in saved : Restored(s)
      BY <2>6 DEF Restore
    <3>2. Content' = ContentOf(s) /\ saved' = saved /\ answer' = Absent
      BY <2>6, <3>1 DEF Restore, Restored, Silent, Content, ContentOf, Clone
    <3>3. Abstract!Restore
      BY <3>1, <3>2 DEF Abstract!Restore, Content, ContentOf
    <3>4. QED BY <3>3 DEF Abstract!Next
  <2>7. CASE UNCHANGED vars
    BY <2>7 DEF vars, Abstract!vars, ContentOf, Clone
  <2>8. QED BY <2>2, <2>3, <2>4, <2>5, <2>6, <2>7 DEF Next
<1>3. QED BY <1>1, <1>2, MemoryInvariant, PTL DEF Spec, Abstract!Spec, ImplementsTraceMap

-----------------------------------------------------------------------------
(* The algebra of the vectors a codebook draws: unbinding, unpermuting by  *)
(* every shift, the packed cosine and the chunked bundle are what they     *)
(* claim to be.                                                            *)
THEOREM AlgebraAlwaysHolds == Spec => []AlgebraHolds
<1>1. Inv => AlgebraHolds
  <2> SUFFICES ASSUME Inv PROVE AlgebraHolds OBVIOUS
  <2>1. Drawn \subseteq Hypervec BY Unpacked DEF Typed, Drawn
  <2>2. \A v, w \in Drawn : Unbind(Bind(v, w), w) = v /\ CosineSim(v, w) = Dot(v, w)
    BY <2>1, UnbindUndoesBind, CosineIsDot
  <2>3. \A v \in Drawn : \A k \in 0 .. 2 * Dim : Unpermute(Permute(v, k), k) = v
    <3>1. 0 .. 2 * Dim \subseteq Nat BY DimAssumption
    <3> QED BY <2>1, <3>1, UnpermuteUndoesPermute
  <2>4. ASSUME NEW u \in Drawn, NEW v \in Drawn, NEW w \in Drawn, NEW i \in Component
        PROVE  Bundle(<<u, v, w>>)[i] = 1 <=> Majority(<<u, v, w>>, i)
    <3>1. <<u, v, w>> \in Seq(Hypervec) BY <2>1
    <3> QED BY <3>1, BundleIsMajority
  <2> QED BY <2>2, <2>3, <2>4 DEF AlgebraHolds
<1> QED BY <1>1, MemoryInvariant, PTL

(* A smaller distance is a larger dot product.                             *)
LEMMA NearerIsMoreAlike ==
  ASSUME NEW u \in Hypervec, NEW v \in Hypervec, NEW w \in Hypervec,
         ~ (HammingDist(Pack(v), Pack(u)) < HammingDist(Pack(w), Pack(u)))
  PROVE  Dot(u, v) <= Dot(u, w)
<1>1. \A p, q : Xor(p, q) = Xor(q, p) BY DEF Xor
<1>2. \A p, q : HammingDist(p, q) = HammingDist(q, p) BY <1>1 DEF HammingDist
<1>3. /\ HammingDist(Pack(v), Pack(u)) \in Nat
      /\ HammingDist(Pack(w), Pack(u)) \in Nat
  BY DistanceFacts
<1>4. /\ Dot(u, v) = Dim - 2 * HammingDist(Pack(v), Pack(u))
      /\ Dot(u, w) = Dim - 2 * HammingDist(Pack(w), Pack(u))
  BY <1>2, CosineIsDot DEF CosineSim
<1> QED BY <1>3, <1>4, DimAssumption

(* What a recall matches is a stored key whose vector has the largest dot  *)
(* product with the query's, for every seed, dimension and TopK: every     *)
(* entry of the index is live, so the first hit is never passed over.      *)
THEOREM RecallAlwaysNearest == Spec => RecallIsNearest
<1> DEFINE Best == nearest' # Absent
                     => \A j \in Name : byKey[j] # Absent =>
                          Dot(book[answer'[1]], book[j])
                            <= Dot(book[answer'[1]], book[nearest'])
<1>1. ASSUME Inv, NEW k \in Name, Found(k) PROVE Best
  <2>1. Typed /\ Consistent BY <1>1, Unpacked
  <2>2. PICK e \in Hits(k) : /\ answer' = <<k, traces[e[1]].value>>
                             /\ nearest' = traces[e[1]].key
    BY <1>1 DEF Found
  <2>3. e \in index /\ e[1] \in Ids /\ traces[e[1]] # Absent BY DEF Hits, IsLive
  <2>4. traces[e[1]].key \in Name
    <3>1. traces[e[1]] \in Trace BY <2>1, <2>3 DEF Typed, Ids
    <3> QED BY <3>1 DEF Trace
  <2>5. KeyVec(k) = book[k] BY <2>1, KeyVecIsBook
  <2>6. e[2] = Pack(book[nearest']) BY <2>1, <2>2, <2>3 DEF Consistent
  <2>7. ASSUME NEW j \in Name, byKey[j] # Absent
        PROVE  Dot(book[k], book[j]) <= Dot(book[k], book[nearest'])
    <3> DEFINE f == <<byKey[j], Pack(book[j])>>
    <3>1. f \in index /\ f[2] = Pack(book[j]) BY <2>1, <2>7 DEF Consistent
    <3> HIDE DEF f
    <3>2. IsLive(f) BY <2>1, <3>1, EntryDistance
    <3>3. f \notin Closer(e, k) BY <3>2 DEF Hits
    <3>4. ~ (HammingDist(Pack(book[j]), Pack(book[k]))
               < HammingDist(Pack(book[nearest']), Pack(book[k])))
      BY <2>5, <2>6, <3>1, <3>3 DEF Closer, Distance
    <3>5. /\ book[j] \in Hypervec /\ book[k] \in Hypervec
          /\ book[nearest'] \in Hypervec
      BY <2>1, <2>2, <2>4 DEF Typed
    <3> QED BY <3>4, <3>5, NearerIsMoreAlike
  <2>8. answer'[1] = k BY <2>2
  <2> QED BY <2>7, <2>8
<1>2. Inv /\ [Next]_vars => [Best]_vars
  <2> SUFFICES ASSUME Inv, Next PROVE Best OBVIOUS
  <2>1. ASSUME NEW k \in Name, Recall(k) PROVE Best
    BY <1>1, <2>1 DEF Recall
  <2>2. ASSUME Silent PROVE Best BY <2>2 DEF Silent
  <2> QED BY <2>1, <2>2 DEF Next, Store, Forget, Snapshot, Restore
<1> QED BY <1>2, MemoryInvariant, PTL DEF Spec, RecallIsNearest

=============================================================================
