------------------------------ MODULE MCMemory ------------------------------
(***************************************************************************)
(* Three keys in dimension four, packed three bits to a word: one codebook *)
(* of near-orthogonal keys, one whose unstored key is as far from one      *)
(* stored key as from the other, and one of close keys.                    *)
(***************************************************************************)
EXTENDS Memory

Vec(a, b, c, d) == <<a, b, c, d>>
MCBooks ==
  {[a |-> Vec(1, 1, 1, 1),   b |-> Vec(1, -1, 1, -1),  c |-> Vec(1, 1, -1, -1)],
   [a |-> Vec(1, 1, 1, -1),  b |-> Vec(1, 1, -1, 1),   c |-> Vec(1, 1, 1, 1)],
   [a |-> Vec(-1, 1, 1, 1),  b |-> Vec(-1, -1, -1, 1), c |-> Vec(-1, 1, 1, -1)]}
MCName == {"a", "b", "c"}

=============================================================================
