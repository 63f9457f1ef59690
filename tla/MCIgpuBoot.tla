----------------------------- MODULE MCIgpuBoot -----------------------------
(* IgpuBoot for TLC.  The mode selects are the last below and the first in *)
(* each range that the code tells apart.                                   *)
EXTENDS IgpuBoot

EveryArgs == SUBSET AllArgs
EdgeGms == {3, 15, 16, 64, 239, 240, 254, 255}
=============================================================================
