-------------------------- MODULE MCScheduledSends --------------------------
(* ScheduledSends for TLC: messages and requests are interchangeable.      *)
EXTENDS ScheduledSends, TLC

Symmetry == Permutations(Rows) \cup Permutations(Senders) \cup Permutations(Requests)
=============================================================================
