------------------------------ MODULE ForceWake ------------------------------
(***************************************************************************)
(* The ForceWake handshake.  Gen11::forceWake replaces the driver's        *)
(* SafeForceWakeMultithreaded: for every power domain it is given it sets  *)
(* or clears one bit of a masked request register and polls the domain's   *)
(* acknowledge register, falling back to toggling a second bit when the    *)
(* hardware missed the request.  Gen11::start and the hangcheck inside     *)
(* forceWake use bit 0 of the same registers without waiting.  Every       *)
(* register access is a step.                                              *)
(***************************************************************************)
EXTENDS Integers, FiniteSets

CONSTANTS
  Callers,       \* the driver's contexts that call forceWake
  Ctx,           \* the bit each of them uses: 1 normal, 2 interrupt
  DomSets,       \* the domain masks the driver passes
  Passes,        \* attempts of forceWakeWaitAckFallback (10)
  HangcheckCall, \* the call of forceWake that runs the hangcheck (15)
  StartAt        \* "first": start() runs beside the calls; "done": it is over

\* Apple's three domains; Media is two engines with a register pair each.
Domain == {"Render", "VDBOX0", "VEBOX0", "Blitter"}
RegsOf == [RENDER |-> {"Render"}, MEDIA |-> {"VDBOX0", "VEBOX0"},
           BLITTER |-> {"Blitter"}]
Rank == [Render |-> 1, VDBOX0 |-> 2, VEBOX0 |-> 3, Blitter |-> 4]

FALLBACK == 15     \* FORCEWAKE_KERNEL_FALLBACK

\* The driver never lets two contexts use one bit: forceWake does not count.
ASSUME CallersAssumption ==
  /\ Ctx \in [Callers -> {1, 2}]
  /\ \A c, d \in Callers : c # d => Ctx[c] # Ctx[d]
ASSUME BoundsAssumption ==
  /\ DomSets \subseteq SUBSET DOMAIN RegsOf
  /\ StartAt \in {"first", "done"}
  /\ Passes \in Nat \ {0} /\ HangcheckCall \in Nat \ {0}

Bit == {0, 1, 2, FALLBACK}

\* The domains whose acknowledge some call polls; the others' is never read.
Polled == UNION {RegsOf[m] : m \in UNION DomSets}

PC == {"idle", "count", "counted", "check", "dump", "hangRender", "hangBlitter",
       "hangEndRender", "hangEndBlitter", "domain", "poll", "fallback", "toggled",
       "acked", "missed", "repoll"}

\* start(): acquire Render, work, release; the driver's start; acquire both,
\* work, release both.
StartPC == {"first", "workarounds", "driver", "render", "blitter", "report",
            "unblitter", "done"}

VARIABLES
  req,      \* the bits requested of each domain
  ack,      \* the bits each domain acknowledges
  missed,   \* the domains whose hardware did not notice its last request
  fwCallCount, hangcheckDumped,  \* the statics of forceWake, unlocked
  pc,       \* where each caller is
  acquiring, \* the callers whose current (or last) call has set = true
  todo,     \* the domains its call has still to go through
  pass,     \* its fallback attempts on the current one
  tmp,      \* the counter value it is about to increment
  holds,    \* the domains it was told are awake and has not released
  dumps,    \* how many hangchecks ran
  spc       \* where start() is

hw == <<req, ack, missed>>
statics == <<fwCallCount, hangcheckDumped>>
call == <<pc, acquiring, todo, pass, tmp>>
vars == <<hw, statics, call, holds, dumps, spc>>

\* The request bits, the statics and the calls of forceWake are well formed; in
\* particular a call never makes more than Passes fallback attempts.
TypeOK ==
  /\ req \in [Domain -> SUBSET Bit] /\ ack \in [Domain -> SUBSET Bit]
  /\ missed \subseteq Domain
  /\ fwCallCount \in 0 .. HangcheckCall + 1 /\ hangcheckDumped \in BOOLEAN
  /\ pc \in [Callers -> PC] /\ acquiring \subseteq Callers
  /\ todo \in [Callers -> SUBSET Domain]
  /\ pass \in [Callers -> 1 .. Passes]
  /\ tmp \in [Callers -> 0 .. HangcheckCall + 1]
  /\ holds \in [Callers -> SUBSET Domain]
  /\ dumps \in Nat
  /\ spc \in StartPC

Init ==
  /\ req = [d \in Domain |-> {}] /\ ack = [d \in Domain |-> {}]
  /\ missed = {}
  /\ fwCallCount = 0 /\ hangcheckDumped = FALSE
  /\ pc = [c \in Callers |-> "idle"] /\ acquiring = {}
  /\ todo = [c \in Callers |-> {}]
  /\ pass = [c \in Callers |-> 1] /\ tmp = [c \in Callers |-> 0]
  /\ holds = [c \in Callers |-> {}]
  /\ dumps = 0
  /\ spc = StartAt

-----------------------------------------------------------------------------
(* Hardware.                                                               *)

\* Mutant: the write has no mask, so it clears the other bits.
MutRequestUnmasked(d, b, on) ==
  /\ req' = [req EXCEPT ![d] = IF on THEN {b} ELSE {}]
  /\ \/ missed' = missed \ {d}
     \/ b # FALLBACK /\ d \in Polled /\ missed' = missed \cup {d}
  /\ UNCHANGED ack

\* A masked write of one bit.  The hardware may fail to notice it; toggling
\* the fallback bit makes it look again.
Request(d, b, on) ==
  /\ req' = [req EXCEPT ![d] = IF on THEN @ \cup {b} ELSE @ \ {b}]
  /\ \/ missed' = missed \ {d}
     \/ b # FALLBACK /\ d \in Polled /\ missed' = missed \cup {d}
  /\ UNCHANGED ack

Acknowledge(d) ==
  /\ d \in Polled \ missed /\ ack[d] # req[d]
  /\ ack' = [ack EXCEPT ![d] = req[d]]
  /\ UNCHANGED <<req, missed, statics, call, holds, dumps, spc>>

-----------------------------------------------------------------------------
(* forceWake.                                                              *)

Goto(c, l) == pc' = [pc EXCEPT ![c] = l]

\* The driver acquires a set of domains, or releases what it acquired last.
Enter(c, dom) ==
  /\ pc[c] = "idle"
  /\ acquiring' = IF c \in acquiring THEN acquiring \ {c} ELSE acquiring \cup {c}
  /\ todo' = [todo EXCEPT ![c] = UNION {RegsOf[d] : d \in dom}]
  /\ c \in acquiring => holds[c] \subseteq todo'[c]
  /\ Goto(c, "count")
  /\ UNCHANGED <<hw, statics, pass, tmp, holds, dumps, spc>>

\* fwCallCount++ on an unlocked static: a read and a write.  The count is
\* capped, it is only ever compared with HangcheckCall.
CountRead(c) ==
  /\ pc[c] = "count"
  /\ tmp' = [tmp EXCEPT ![c] = fwCallCount]
  /\ Goto(c, "counted")
  /\ UNCHANGED <<hw, statics, acquiring, todo, pass, holds, dumps, spc>>

CountWrite(c) ==
  /\ pc[c] = "counted"
  /\ fwCallCount' = IF tmp[c] > HangcheckCall THEN tmp[c] ELSE tmp[c] + 1
  /\ tmp' = [tmp EXCEPT ![c] = 0]
  /\ Goto(c, "check")
  /\ UNCHANGED <<hw, hangcheckDumped, acquiring, todo, pass, holds, dumps, spc>>

CheckHang(c) ==
  /\ pc[c] = "check"
  /\ Goto(c, IF ~hangcheckDumped /\ fwCallCount = HangcheckCall
             THEN "dump" ELSE "domain")
  /\ UNCHANGED <<hw, statics, acquiring, todo, pass, tmp, holds, dumps, spc>>

\* Mutant: the dump does not set the flag.
MutDump(c) ==
  /\ pc[c] = "dump"
  /\ dumps' = dumps + 1
  /\ Goto(c, "hangRender")
  /\ UNCHANGED <<hw, statics, acquiring, todo, pass, tmp, holds, spc>>

Dump(c) ==
  /\ pc[c] = "dump"
  /\ hangcheckDumped' = TRUE
  /\ dumps' = dumps + 1
  /\ Goto(c, "hangRender")
  /\ UNCHANGED <<hw, fwCallCount, acquiring, todo, pass, tmp, holds, spc>>

HangWrite(c, at, d, on, next) ==
  /\ pc[c] = at
  /\ Request(d, 0, on)
  /\ Goto(c, next)
  /\ UNCHANGED <<statics, acquiring, todo, pass, tmp, holds, dumps, spc>>

\* Mutant: the hangcheck drops the domain it took last, and forgets the other.
MutHangcheck(c) ==
  \/ Dump(c)
  \/ HangWrite(c, "hangRender", "Render", TRUE, "hangBlitter")
  \/ HangWrite(c, "hangBlitter", "Blitter", TRUE, "hangEndBlitter")
  \/ HangWrite(c, "hangEndBlitter", "Blitter", FALSE, "domain")

\* The hangcheck takes and drops bit 0 of Render and Blitter.
Hangcheck(c) ==
  \/ Dump(c)
  \/ HangWrite(c, "hangRender", "Render", TRUE, "hangBlitter")
  \/ HangWrite(c, "hangBlitter", "Blitter", TRUE, "hangEndRender")
  \/ HangWrite(c, "hangEndRender", "Render", FALSE, "hangEndBlitter")
  \/ HangWrite(c, "hangEndBlitter", "Blitter", FALSE, "domain")

\* The domain a call is working on: the first that is left.
First(D) == CHOOSE d \in D : \A e \in D : Rank[d] <= Rank[e]
Current(c) == First(todo[c])

\* (ack & mask) == ack_exp
Acked(c) == Ctx[c] \in ack[Current(c)] <=> c \in acquiring

RequestDomain(c) ==
  /\ pc[c] = "domain" /\ todo[c] # {}
  /\ Request(Current(c), Ctx[c], c \in acquiring)
  /\ holds' = [holds EXCEPT ![c] = IF c \in acquiring THEN @ ELSE @ \ {Current(c)}]
  /\ Goto(c, "poll")
  /\ UNCHANGED <<statics, acquiring, todo, pass, tmp, dumps, spc>>

\* On to the next domain, whether or not this one was acknowledged.
NextDomain(c, ok) ==
  /\ todo' = [todo EXCEPT ![c] = @ \ {Current(c)}]
  /\ holds' = [holds EXCEPT ![c] = IF ok /\ c \in acquiring THEN @ \cup {Current(c)} ELSE @]
  /\ pass' = [pass EXCEPT ![c] = 1]
  /\ Goto(c, "domain")
  /\ UNCHANGED <<hw, statics, acquiring, tmp, dumps, spc>>

\* pollRegister sees the acknowledge, in the first poll or in the last.
PollSucceeds(c) == pc[c] \in {"poll", "repoll"} /\ Acked(c) /\ NextDomain(c, TRUE)

\* pollRegister times out; it may also do so just before the acknowledge.
PollTimesOut(c) ==
  /\ pc[c] = "poll"
  /\ Goto(c, "fallback")
  /\ UNCHANGED <<hw, statics, acquiring, todo, pass, tmp, holds, dumps, spc>>

\* Mutant: a timeout is taken for an acknowledge.
MutGiveUp(c) == pc[c] = "repoll" /\ NextDomain(c, TRUE)

GiveUp(c) == pc[c] = "repoll" /\ NextDomain(c, FALSE)

\* forceWakeWaitAckFallback.  The outcomes of its own two polls are not used.
FallbackSet(c) ==
  /\ pc[c] = "fallback"
  /\ Request(Current(c), FALLBACK, TRUE)
  /\ Goto(c, "toggled")
  /\ UNCHANGED <<statics, acquiring, todo, pass, tmp, holds, dumps, spc>>

FallbackRead(c) ==
  /\ pc[c] = "toggled"
  /\ Goto(c, IF Acked(c) THEN "acked" ELSE "missed")
  /\ UNCHANGED <<hw, statics, acquiring, todo, pass, tmp, holds, dumps, spc>>

\* Mutant: an acknowledged fallback does not clear its bit.
MutFallbackKeeps(c) ==
  /\ pc[c] = "acked"
  /\ todo' = [todo EXCEPT ![c] = @ \ {Current(c)}]
  /\ holds' = [holds EXCEPT ![c] = IF c \in acquiring THEN @ \cup {Current(c)} ELSE @]
  /\ pass' = [pass EXCEPT ![c] = 1]
  /\ Goto(c, "domain")
  /\ UNCHANGED <<hw, statics, acquiring, tmp, dumps, spc>>

\* The bit is cleared again and the acknowledge that was read is returned.
FallbackAcked(c) ==
  /\ pc[c] = "acked"
  /\ Request(Current(c), FALLBACK, FALSE)
  /\ todo' = [todo EXCEPT ![c] = @ \ {Current(c)}]
  /\ holds' = [holds EXCEPT ![c] = IF c \in acquiring THEN @ \cup {Current(c)} ELSE @]
  /\ pass' = [pass EXCEPT ![c] = 1]
  /\ Goto(c, "domain")
  /\ UNCHANGED <<statics, acquiring, tmp, dumps, spc>>

\* while (!ack && pass++ < 10)
FallbackMissed(c) ==
  /\ pc[c] = "missed"
  /\ Request(Current(c), FALLBACK, FALSE)
  /\ IF pass[c] < Passes
     THEN pass' = [pass EXCEPT ![c] = @ + 1] /\ Goto(c, "fallback")
     ELSE UNCHANGED pass /\ Goto(c, "repoll")
  /\ UNCHANGED <<statics, acquiring, todo, tmp, holds, dumps, spc>>

Return(c) ==
  /\ pc[c] = "domain" /\ todo[c] = {}
  /\ Goto(c, "idle")
  /\ UNCHANGED <<hw, statics, acquiring, todo, pass, tmp, holds, dumps, spc>>

-----------------------------------------------------------------------------
\* start()'s own use of bit 0, by plain writes.
StartWrite(at, d, on, next) ==
  /\ spc = at /\ spc' = next
  /\ Request(d, 0, on)
  /\ UNCHANGED <<statics, call, holds, dumps>>

DriverStart ==
  /\ spc = "driver" /\ spc' = "render"
  /\ UNCHANGED <<hw, statics, call, holds, dumps>>

Start ==
  \/ StartWrite("first", "Render", TRUE, "workarounds")
  \/ StartWrite("workarounds", "Render", FALSE, "driver")
  \/ DriverStart
  \/ StartWrite("render", "Render", TRUE, "blitter")
  \/ StartWrite("blitter", "Blitter", TRUE, "report")
  \/ StartWrite("report", "Render", FALSE, "unblitter")
  \/ StartWrite("unblitter", "Blitter", FALSE, "done")

\* A caller's step inside forceWake.
Step(c) ==
  \/ CountRead(c) \/ CountWrite(c) \/ CheckHang(c) \/ Hangcheck(c)
  \/ RequestDomain(c) \/ PollSucceeds(c) \/ PollTimesOut(c) \/ GiveUp(c)
  \/ FallbackSet(c) \/ FallbackRead(c) \/ FallbackAcked(c) \/ FallbackMissed(c)
  \/ Return(c)

Next ==
  \/ \E c \in Callers : Step(c) \/ \E dom \in DomSets : Enter(c, dom)
  \/ \E d \in Domain : Acknowledge(d)
  \/ Start

Spec == Init /\ [][Next]_vars

-----------------------------------------------------------------------------
(* Properties.                                                             *)

\* A context that was told its domain is awake keeps it awake until it asks
\* for the release: neither the other context's handshake or fallback, nor the
\* hangcheck, nor start() takes the domain away.
HeldUntilReleased ==
  \A c \in Callers : \A d \in holds[c] : Ctx[c] \in req[d] /\ Ctx[c] \in ack[d]

InFallback(c, d) == pc[c] \in {"toggled", "acked", "missed"} /\ Current(c) = d

\* The fallback bit is not left behind: it is set only while some call is
\* between setting and clearing it, also when two calls toggle one domain.
FallbackTransient ==
  \A d \in Domain : FALLBACK \in req[d] => \E c \in Callers : InFallback(c, d)

\* Who is between taking and dropping bit 0 of a domain by a plain write.
Bit0Start == [Render |-> {"workarounds", "blitter", "report"}, VDBOX0 |-> {},
              VEBOX0 |-> {}, Blitter |-> {"report", "unblitter"}]
Bit0Hang == [Render |-> {"hangBlitter", "hangEndRender"}, VDBOX0 |-> {},
             VEBOX0 |-> {}, Blitter |-> {"hangEndRender", "hangEndBlitter"}]

\* start() and the hangchecks share bit 0 without a count, so the first to drop
\* it drops it for all; but none leaves it behind: it is set only while one of
\* them is between taking and dropping it, and the GPU can power down after.
Bit0Transient ==
  \A d \in Domain : 0 \in req[d] =>
    spc \in Bit0Start[d] \/ \E c \in Callers : pc[c] \in Bit0Hang[d]

\* TGL.cpp:3916 dumps the state of a hung GPU once.  The test and the setting
\* of hangcheckDumped race, and so does the counter, but no context gets past
\* the test twice.
DumpsBounded == dumps <= Cardinality(Callers)
=============================================================================
