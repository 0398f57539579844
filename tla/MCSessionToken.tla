--------------------------- MODULE MCSessionToken ---------------------------
(* Finite instances of SessionToken.                                          *)
EXTENDS SessionToken
=============================================================================
