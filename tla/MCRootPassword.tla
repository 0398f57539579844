---------------------------- MODULE MCRootPassword ----------------------------
(* Finite instances of RootPassword: restores are alike, and so are the        *)
(* passwords the provider generates.                                         *)
EXTENDS RootPassword, TLC

Alike == Permutations(Restores) \cup Permutations(Generated)
===============================================================================
