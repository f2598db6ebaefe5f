---------------------------- MODULE Hypervectors ----------------------------
(***************************************************************************)
(* The bipolar hypervector algebra (src/src/vm/hypervec.rs) at a small     *)
(* dimension: binding, bundling, permutation, and the bit-packed distance  *)
(* that stands in for the cosine.  A vector is a function into {-1, 1}; a  *)
(* packed vector is the set of its one bits, each a <<word, bit>> pair.    *)
(***************************************************************************)
EXTENDS Integers, Sequences, FiniteSetsExt

CONSTANTS
  Dim,        (* components of a vector (MEM_DIM)                           *)
  WordBits,   (* bits of a packed word (64)                                 *)
  BundleChunk (* vectors summed before the narrow accumulator is flushed    *)

ASSUME DimAssumption == Dim \in Nat \ {0} /\ WordBits \in Nat \ {0}
                          /\ BundleChunk \in Nat \ {0}

Component  == 1 .. Dim
Hypervec   == [Component -> {-1, 1}]

SignOf(n)  == IF n >= 0 THEN 1 ELSE -1

Bind(v, w)   == [i \in Component |-> v[i] * w[i]]
Unbind(v, w) == Bind(v, w)

(* Left rotation by k, and its inverse, a left rotation by Dim - k.        *)
Rotated(v, k) == [i \in Component |-> IF i + k <= Dim THEN v[i + k]
                                      ELSE v[i + k - Dim]]
Permute(v, k)    == Rotated(v, k % Dim)
Unpermute(v, k)  == Permute(v, Dim - (k % Dim))

(* Sums are taken chunk by chunk in a narrow accumulator, then signed; a   *)
(* tie goes to +1.                                                         *)
ComponentSum(vs, i) == MapThenSumSet(LAMBDA j : vs[j][i], DOMAIN vs)
WholeChunks(vs) == Len(vs) \div BundleChunk                      \* mutant
Chunks(vs) == (Len(vs) + BundleChunk - 1) \div BundleChunk
Chunk(vs, c) == SubSeq(vs, (c - 1) * BundleChunk + 1,
                       IF c * BundleChunk < Len(vs) THEN c * BundleChunk ELSE Len(vs))
ChunkedSum(vs, i) ==
  MapThenSumSet(LAMBDA c : ComponentSum(Chunk(vs, c), i), 1 .. Chunks(vs))
Bundle(vs) == [i \in Component |-> SignOf(ChunkedSum(vs, i))]

(* Packing, XOR and popcount.                                              *)
Bit(i) == <<(i - 1) \div WordBits, (i - 1) % WordBits>>
Pack(v) == {Bit(i) : i \in {j \in Component : v[j] > 0}}
Xor(p, q) == (p \ q) \cup (q \ p)
HammingDist(p, q) == Cardinality(Xor(p, q))

(* cosine_sim, scaled by Dim.                                              *)
CosineSim(v, w) == Dim - 2 * HammingDist(Pack(v), Pack(w))

-----------------------------------------------------------------------------
(* What the algebra is meant to compute, without packing or chunks.        *)

Dot(v, w) == MapThenSumSet(LAMBDA i : v[i] * w[i], Component)
Majority(vs, i) == Cardinality({j \in DOMAIN vs : vs[j][i] = 1}) * 2 >= Len(vs)

=============================================================================
