----------------------------- MODULE GtScenarios -----------------------------
(***************************************************************************)
(* GtInterrupts, one scenario at a time: which callbacks run beside start()*)
(* and which registers are disturbed.  The threads a scenario leaves out   *)
(* do not touch the registers it disturbs, or only write the wanted value  *)
(* to them; what start() does, the arming of the timers included, is the   *)
(* same in all of them.                                                    *)
(***************************************************************************)
EXTENDS GtInterrupts

CONSTANT Scenarios

ASSUME ScenariosAssumption ==
  Scenarios \subseteq [runs : SUBSET Callbacks, disturbed : SUBSET DriverRegs]

VARIABLE scenario

SInit == Init /\ scenario \in Scenarios

SStep(t) == t \in scenario.runs \cup {"start"} /\ Step(t) /\ UNCHANGED scenario

SNext ==
  \/ \E t \in Threads : SStep(t)
  \/ \E h \in {"reset", "hang"} \cap scenario.runs : HookBegins(h) /\ UNCHANGED scenario
  \/ \E r \in scenario.disturbed : \E v \in SUBSET Bits[r] :
       DriverWrites(r, v) /\ UNCHANGED scenario

SSpec == SInit /\ [][SNext]_<<vars, scenario>>

\* A thread that runs goes on running, and a timer that is due fires.
FairSSpec == SSpec /\ \A t \in Threads : WF_<<vars, scenario>>(SStep(t))

\* Where the enforcer runs, each engine's errors are masked again and again,
\* and pending errors cleared, for ever (v71EmrEnforcer), however often the
\* driver unmasks them and whatever stale value start() writes back.
EnforcedForever == "v71" \in scenario.runs => ErrorsKeptMasked
=============================================================================
