---------------------------- MODULE MCSieveSync ----------------------------
(* Three requests of two users for TLC.                                    *)
EXTENDS SieveSync, TLC
CONSTANTS ann, bob, work
McUserOf == (1 :> ann) @@ (2 :> ann) @@ (3 :> bob)
McAsks == (1 :> Kinds) @@ (2 :> Kinds) @@ (3 :> {"sync"})
McContents ==
  {[on |-> TRUE, folder |-> work, body |-> FALSE],
   [on |-> FALSE, folder |-> work, body |-> FALSE],
   [on |-> TRUE, folder |-> NoFolder, body |-> TRUE]}
=============================================================================
