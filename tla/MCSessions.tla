----------------------------- MODULE MCSessions -----------------------------
(* Sessions for TLC: tokens are interchangeable.                           *)
EXTENDS Sessions, TLC

Symmetry ==
  Permutations(Tokens) \cup Permutations(Objects) \cup Permutations(Refreshers)
    \cup Permutations(Pollers)
=============================================================================
