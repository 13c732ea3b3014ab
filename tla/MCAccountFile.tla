--------------------------- MODULE MCAccountFile ---------------------------
(* Two accounts, two requests to the server and two to the agent.          *)
EXTENDS AccountFile, TLC
CONSTANTS ann, bob
McAsks == [r \in Requests |-> Kinds]
=============================================================================
