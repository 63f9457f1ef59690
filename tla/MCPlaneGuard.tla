---------------------------- MODULE MCPlaneGuard ----------------------------
(***************************************************************************)
(* Constants of PlaneGuard for TLC.                                        *)
(***************************************************************************)
EXTENDS PlaneGuard, TLC

CONSTANTS d1, d2

DriverSymmetry == Permutations(Drivers)
=============================================================================
