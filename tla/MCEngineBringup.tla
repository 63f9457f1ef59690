--------------------------- MODULE MCEngineBringup ---------------------------
EXTENDS EngineBringup, TLC

\* Every combination of the platform flags is an initial state.
AllPlatforms == Platform

CONSTANTS t1, t2
OneThreadEach == (t1 :> "RCS") @@ (t2 :> "BCS")

Ending == <<"updateRingTail", "submitToRing", "prepareExecListAndSubmit">>
BothOrders ==
  {<<"contextInit", "initRingRegisters", "initRingControlOn">> \o Ending,
   <<"contextInit", "initRingControlOn", "initRingRegisters">> \o Ending}
=============================================================================
