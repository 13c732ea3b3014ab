------------------------- MODULE MCMailboxLifecycle -------------------------
(* MailboxLifecycle for TLC: requests, operation ids and passwords are     *)
(* each interchangeable among themselves.                                  *)
EXTENDS MailboxLifecycle, TLC

Symmetry ==
  Permutations(Requests) \cup Permutations(Ops) \cup Permutations(Passwords)
=============================================================================
