----------------------------- MODULE MCPairing ------------------------------
(* Pairing with the constants of the model checker's runs.                 *)
EXTENDS PairingProps, TLC

\* Requests are interchangeable, and so are tokens.
Alike == Permutations(Req) \cup Permutations(Token)
=============================================================================
