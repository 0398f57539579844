-------------------------- MODULE MCInstanceStatus --------------------------
(* Finite instances of InstanceStatus.                                        *)
EXTENDS InstanceStatus
=============================================================================
