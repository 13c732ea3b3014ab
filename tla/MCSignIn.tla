------------------------------ MODULE MCSignIn ------------------------------
(* SignIn for TLC: browsers, subjects and handlers are interchangeable.    *)
EXTENDS SignIn, TLC

Symmetry == Permutations(Browsers) \cup Permutations(Subjects) \cup Permutations(Requests)
=============================================================================
