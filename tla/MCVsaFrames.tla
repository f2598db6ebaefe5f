----------------------------- MODULE MCVsaFrames -----------------------------
(***************************************************************************)
(* Two registers, two roles, two fillers: enough for a stale note beside a *)
(* fresh vector, a moved vector, and a callee whose register has the name  *)
(* of its caller's.                                                        *)
(***************************************************************************)
EXTENDS VsaFrames, TLC

Symbols == Permutations(Role) \cup Permutations(Filler)

=============================================================================
