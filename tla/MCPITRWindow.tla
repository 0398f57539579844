---------------------------- MODULE MCPITRWindow ----------------------------
(* Finite instances of PITRWindow.                                            *)
EXTENDS PITRWindow
=============================================================================
