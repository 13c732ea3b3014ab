------------------------------ MODULE MCSnooze ------------------------------
(* Snooze for TLC: requests are interchangeable, and so are messages.      *)
EXTENDS Snooze, TLC

Symmetry == Permutations(Requests) \cup Permutations(Messages)
=============================================================================
