----------------------------- MODULE MCForceWake -----------------------------
(***************************************************************************)
(* Constants of ForceWake for TLC.                                         *)
(***************************************************************************)
EXTENDS ForceWake

CONSTANTS t1, t2     \* two contexts of the driver

NormalAndInterrupt == [c \in Callers |-> IF c = t1 THEN 1 ELSE 2]
=============================================================================
