-------------------------- MODULE MCManagedAddress --------------------------
(* One managed address for TLC.                                            *)
EXTENDS ManagedAddress, TLC
=============================================================================
