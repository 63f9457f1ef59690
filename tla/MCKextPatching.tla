--------------------------- MODULE MCKextPatching ---------------------------
(* KextPatching for TLC.  Between them the sets of boot arguments take     *)
(* every branch of the steps both ways.                                    *)
EXTENDS KextPatching

SomeArgs ==
  {{}, {"rcsTrace", "tglTrace", "ngreenRefProbeF2"}, {"nbwegcoex"},
   {"nbwegcoex", "ngreenfullmtl"}}
=============================================================================
