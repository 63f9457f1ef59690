--------------------------- MODULE MCAccelService ---------------------------
(***************************************************************************)
(* AccelService for TLC: boots that between them take every branch of the  *)
(* policies and of the scheduler's choice.                                 *)
(***************************************************************************)
EXTENDS AccelService

Plain == [real |-> TRUE, gate |-> FALSE, mapped |-> TRUE, flags |-> {}, sched |-> Absent,
          plist |-> Absent, delay |-> Absent, calls |-> {1}, personality |-> "plist"]

Spoofed == [Plain EXCEPT !.real = FALSE]

SixBoots ==
  {\* pipes forced off behind a personality that shows them, killed by the last tick only
   [Plain EXCEPT !.plist = 2, !.flags = {"ngreendp0=1", "-ngreenexp"}, !.delay = 1],
   \* pipes on; Info.plist asks for scheduler 4 on hardware that has no firmware for
   \* it; no thread call for the checks
   [Spoofed EXCEPT !.plist = 4, !.personality = "injected", !.flags = {"-ngreenexp"}, !.delay = 1,
      !.calls = {}],
   \* ngreendp1 overrules ngreendp0; every tick kills; nothing named
   [Spoofed EXCEPT !.sched = 3, !.personality = "bare",
      !.flags = {"ngreenexp=1", "-ngreendp1", "-ngreendp0"}, !.delay = -1],
   \* the monitor stops at its first tick, there are no registers to read
   [Plain EXCEPT !.sched = 4, !.flags = {"ngreendp1=0", "-ngreendp0", "ngreenexp=1"}, !.delay = 0,
      !.mapped = FALSE],
   \* external displays gated, values overrule flags, no monitor
   [Spoofed EXCEPT !.gate = TRUE,
      !.flags = {"-ngreendp0", "ngreendp0=0", "ngreenexp=0", "-ngreenexp"}],
   \* no monitor, two checks, default pipes
   [Plain EXCEPT !.plist = 5, !.calls = {1, 2}]}
=============================================================================
