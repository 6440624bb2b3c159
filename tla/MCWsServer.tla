----------------------------- MODULE MCWsServer -----------------------------
(***************************************************************************)
(* WsServer as TLC checks it.  Tokens are interchangeable, and so are      *)
(* connections, so safety runs use symmetry.                               *)
(***************************************************************************)
EXTENDS WsServer, TLC

CONSTANTS t1, t2, t3, c1, c2, c3

Symmetry == Permutations(Tokens) \cup Permutations(Conns)
=============================================================================
