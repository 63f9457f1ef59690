---------------------------- MODULE MCGtScenarios ----------------------------
(***************************************************************************)
(* Constants of GtScenarios for TLC.                                       *)
(***************************************************************************)
EXTENDS GtScenarios

NoLimit == -1

\* The driver turns all interrupts off during its start; it turns two levels
\* off with the monitor running too; it opens error masks while it resets engines;
\* the hangcheck falls into its start.
FourScenarios ==
  {[runs |-> {"v54"}, disturbed |-> InterruptRegs],
   [runs |-> {"v54", "v60"}, disturbed |-> {"RC_INTR_EN", "RCS_MASK"}],
   [runs |-> {"reset", "v71"}, disturbed |-> {"EMR_RCS", "EMR_BCS", "ERROR_GEN6"}],
   [runs |-> {"hang", "v54"}, disturbed |-> {"MSTR_IRQ"}]}
=============================================================================
