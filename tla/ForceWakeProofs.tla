--------------------------- MODULE ForceWakeProofs ---------------------------
(***************************************************************************)
(* For any number of fallback attempts, any domain masks and any hangcheck *)
(* call: a held domain stays awake, the fallback bit and bit 0 are         *)
(* transient, and each context dumps a hung GPU's state once at most.      *)
(***************************************************************************)
EXTENDS ForceWake, FiniteSetTheorems, TLAPS

Handshake == {"poll", "fallback", "toggled", "acked", "missed", "repoll"}

\* A call in its handshake has a current domain, has its request in place, and
\* an acknowledge it read in the fallback is still there.
CallInv ==
  \A c \in Callers :
    /\ pc[c] \in Handshake => todo[c] # {}
    /\ pc[c] \in Handshake /\ c \in acquiring => Ctx[c] \in req[Current(c)]
    /\ pc[c] = "acked" /\ c \in acquiring => Ctx[c] \in ack[Current(c)]

IInv == TypeOK /\ CallInv /\ HeldUntilReleased /\ FallbackTransient

\* The domain loop of forceWake picks one of the domains that are left.
LEMMA FirstMember ==
  ASSUME NEW D \in SUBSET Domain, D # {} PROVE First(D) \in D
<1> DEFINE P(d) == \A e \in D : Rank[d] <= Rank[e]
<1>1. CASE "Render" \in D
  <2>1. P("Render") BY DEF Domain, Rank
  <2>. QED BY <1>1, <2>1 DEF First
<1>2. CASE "Render" \notin D /\ "VDBOX0" \in D
  <2>1. P("VDBOX0") BY <1>2 DEF Domain, Rank
  <2>. QED BY <1>2, <2>1 DEF First
<1>3. CASE "Render" \notin D /\ "VDBOX0" \notin D /\ "VEBOX0" \in D
  <2>1. P("VEBOX0") BY <1>3 DEF Domain, Rank
  <2>. QED BY <1>3, <2>1 DEF First
<1>4. CASE "Render" \notin D /\ "VDBOX0" \notin D /\ "VEBOX0" \notin D
  <2>1. D = {"Blitter"} BY <1>4, Zenon DEF Domain
  <2>2. P("Blitter") BY <2>1 DEF Rank
  <2>. QED BY <2>1, <2>2 DEF First
<1>. QED BY <1>1, <1>2, <1>3, <1>4

\* The masked write of one bit leaves every other bit of every domain alone.
LEMMA RequestFrame ==
  ASSUME TypeOK, NEW d \in Domain, NEW b \in Bit, NEW on \in BOOLEAN,
         Request(d, b, on)
  PROVE  /\ req' \in [Domain -> SUBSET Bit] /\ ack' = ack
         /\ missed' \subseteq Domain
         /\ \A e \in Domain, x \in Bit :
              e # d \/ x # b => (x \in req'[e] <=> x \in req[e])
         /\ b \in req'[d] <=> on
BY DEF TypeOK, Request

\* Init establishes the invariant.
LEMMA Started ==
  Init => IInv
<1> SUFFICES ASSUME Init PROVE IInv OBVIOUS
<1>1. TypeOK
  <2>2. /\ Passes \in Nat \ {0} /\ HangcheckCall \in Nat \ {0}
        /\ StartAt \in StartPC
    BY BoundsAssumption DEF StartPC
  <2>1. 0 \in 0 .. HangcheckCall + 1 /\ 1 \in 1 .. Passes BY <2>2
  <2>3. /\ fwCallCount \in 0 .. HangcheckCall + 1 /\ hangcheckDumped \in BOOLEAN
        /\ pass \in [Callers -> 1 .. Passes]
        /\ tmp \in [Callers -> 0 .. HangcheckCall + 1]
    BY <2>1, Zenon DEF Init
  <2>4. /\ req \in [Domain -> SUBSET Bit] /\ ack \in [Domain -> SUBSET Bit]
        /\ missed \subseteq Domain
        /\ pc \in [Callers -> PC] /\ acquiring \subseteq Callers
        /\ todo \in [Callers -> SUBSET Domain]
        /\ holds \in [Callers -> SUBSET Domain] /\ dumps \in Nat
    BY DEF Init, PC
  <2>. QED BY <2>2, <2>3, <2>4 DEF TypeOK, Init
<1>2. CallInv BY DEF Init, CallInv, Handshake
<1>3. HeldUntilReleased BY DEF Init, HeldUntilReleased
<1>4. FallbackTransient BY DEF Init, FallbackTransient
<1>. QED BY <1>1, <1>2, <1>3, <1>4 DEF IInv

-----------------------------------------------------------------------------
(* The four kinds of step.                                                 *)

\* A call that does not move.
Untouched(x) ==
  /\ pc'[x] = pc[x] /\ todo'[x] = todo[x] /\ holds'[x] = holds[x]
  /\ x \in acquiring' <=> x \in acquiring

Elsewhere(c) == \A x \in Callers \ {c} : Untouched(x)

\* A step of a call outside the handshake, with the registers and what it holds
\* unchanged, keeps the invariant.
LEMMA QuietStep ==
  ASSUME IInv, TypeOK', NEW c \in Callers, Elsewhere(c),
         req' = req, ack' = ack, holds' = holds,
         pc[c] \notin {"toggled", "acked", "missed"},
         pc'[c] \notin Handshake \/
           /\ pc[c] \in Handshake /\ pc'[c] # "acked" /\ todo'[c] = todo[c]
           /\ (c \in acquiring' <=> c \in acquiring)
  PROVE  IInv'
<1>1. CallInv'
  BY DEF IInv, CallInv, Elsewhere, Untouched, Current, Handshake
<1>2. HeldUntilReleased' BY DEF IInv, HeldUntilReleased
<1>3. FallbackTransient'
  <2> SUFFICES ASSUME NEW d \in Domain, FALLBACK \in req[d]
               PROVE  \E x \in Callers : InFallback(x, d)'
    BY DEF FallbackTransient
  <2>1. PICK x \in Callers : InFallback(x, d) BY DEF IInv, FallbackTransient
  <2>2. x # c BY <2>1 DEF InFallback
  <2>3. InFallback(x, d)' BY <2>1, <2>2 DEF InFallback, Elsewhere, Untouched, Current
  <2>. QED BY <2>3
<1>. QED BY <1>1, <1>2, <1>3 DEF IInv

\* A caller's own bit is not one of the two that others write.
LEMMA OwnBit ==
  \A c \in Callers : Ctx[c] \in Bit /\ Ctx[c] # 0 /\ Ctx[c] # FALLBACK
BY CallersAssumption DEF Bit, FALLBACK

\* Writing bit 0, as start() and the hangcheck do, keeps the invariant.
LEMMA PlainWrite ==
  ASSUME IInv, TypeOK', ack' = ack, holds' = holds,
         \A e \in Domain, x \in Bit : x # 0 => (x \in req'[e] <=> x \in req[e]),
         \A x \in Callers :
           Untouched(x) \/ (pc[x] \notin Handshake /\ pc'[x] \notin Handshake)
  PROVE  IInv'
<1>2. \A x \in Callers : pc[x] \in Handshake => Current(x) \in Domain
  BY FirstMember DEF IInv, CallInv, TypeOK, Current
<1>3. CallInv'
  BY <1>2, OwnBit DEF IInv, CallInv, Untouched, Current, Handshake
<1>4. HeldUntilReleased'
  BY OwnBit DEF IInv, TypeOK, HeldUntilReleased
<1>5. FallbackTransient'
  <2> SUFFICES ASSUME NEW e \in Domain, FALLBACK \in req'[e]
               PROVE  \E x \in Callers : InFallback(x, e)'
    BY DEF FallbackTransient
  <2>0. FALLBACK \in req[e] BY DEF Bit, FALLBACK
  <2>1. PICK x \in Callers : InFallback(x, e) BY <2>0 DEF IInv, FallbackTransient
  <2>2. Untouched(x) BY <2>1 DEF InFallback, Handshake
  <2>3. InFallback(x, e)' BY <2>1, <2>2 DEF InFallback, Untouched, Current
  <2>. QED BY <2>3
<1>. QED BY <1>3, <1>4, <1>5 DEF IInv

-----------------------------------------------------------------------------
(* Types.                                                                  *)

\* Every step keeps the types.
LEMMA StepTyped ==
  ASSUME IInv, Next PROVE TypeOK'
<1> USE DEF IInv
<1>0. /\ Passes \in Nat \ {0} /\ HangcheckCall \in Nat \ {0}
      /\ DomSets \subseteq SUBSET {"RENDER", "MEDIA", "BLITTER"}
      /\ \A dom \in DomSets : UNION {RegsOf[d] : d \in dom} \subseteq Domain
  BY BoundsAssumption DEF RegsOf, Domain
<1>1. ASSUME NEW c \in Callers, Step(c) PROVE TypeOK'
  <2>0. /\ todo[c] # {} => Current(c) \in Domain
        /\ pc[c] \in Handshake => Current(c) \in Domain
    BY FirstMember DEF TypeOK, CallInv, Current
  <2>1. CASE CountRead(c)
    BY <2>1 DEF CountRead, Goto, TypeOK, PC, hw, statics
  <2>2. CASE CountWrite(c)
    BY <1>0, <2>2 DEF CountWrite, Goto, TypeOK, PC, hw
  <2>3. CASE CheckHang(c)
    BY <2>3 DEF CheckHang, Goto, TypeOK, PC, hw, statics
  <2>4. CASE Dump(c)
    BY <2>4 DEF Dump, Goto, TypeOK, PC, hw
  <2>5. ASSUME NEW at, NEW d \in {"Render", "Blitter"}, NEW on \in BOOLEAN,
               NEW next \in PC, HangWrite(c, at, d, on, next)
        PROVE  TypeOK'
    <3>1. d \in Domain /\ 0 \in Bit /\ Request(d, 0, on)
      BY <2>5 DEF Domain, Bit, HangWrite
    <3>2. req' \in [Domain -> SUBSET Bit] /\ ack' = ack /\ missed' \subseteq Domain
      BY <3>1, RequestFrame
    <3>. QED BY <2>5, <3>2 DEF HangWrite, Goto, TypeOK, statics
  <2>6. CASE RequestDomain(c)
    <3>1. Current(c) \in Domain /\ Ctx[c] \in Bit /\ (c \in acquiring) \in BOOLEAN
      BY <2>0, <2>6, OwnBit DEF RequestDomain
    <3>2. req' \in [Domain -> SUBSET Bit] /\ ack' = ack /\ missed' \subseteq Domain
      BY <2>6, <3>1, RequestFrame, Zenon DEF RequestDomain
    <3>. QED BY <2>6, <3>1, <3>2 DEF RequestDomain, Goto, TypeOK, PC, statics
  <2>7. ASSUME pc[c] \in Handshake, NEW ok \in BOOLEAN, NextDomain(c, ok)
        PROVE  TypeOK'
    BY <1>0, <2>0, <2>7 DEF NextDomain, Goto, TypeOK, PC, hw, statics
  <2>8. CASE PollTimesOut(c)
    BY <2>8 DEF PollTimesOut, Goto, TypeOK, PC, hw, statics
  <2>9. CASE FallbackRead(c)
    BY <2>9 DEF FallbackRead, Goto, TypeOK, PC, hw, statics
  <2>10. CASE Return(c)
    BY <2>10 DEF Return, Goto, TypeOK, PC, hw, statics
  <2>11. ASSUME pc[c] \in Handshake, NEW on \in BOOLEAN,
                Request(Current(c), FALLBACK, on)
         PROVE  req' \in [Domain -> SUBSET Bit] /\ ack' = ack /\ missed' \subseteq Domain
    BY <2>0, <2>11, RequestFrame DEF Bit
  <2>12. CASE FallbackSet(c)
    BY <2>11, <2>12, Zenon DEF FallbackSet, Goto, TypeOK, PC, statics, Handshake
  <2>13. CASE FallbackAcked(c)
    <3>1. req' \in [Domain -> SUBSET Bit] /\ ack' = ack /\ missed' \subseteq Domain
      BY <2>11, <2>13, Zenon DEF FallbackAcked, Handshake
    <3>2. Current(c) \in Domain BY <2>0, <2>13 DEF FallbackAcked, Handshake
    <3>. QED BY <1>0, <2>13, <3>1, <3>2
             DEF FallbackAcked, Goto, TypeOK, PC, statics
  <2>14. CASE FallbackMissed(c)
    <3>1. req' \in [Domain -> SUBSET Bit] /\ ack' = ack /\ missed' \subseteq Domain
      BY <2>11, <2>14, Zenon DEF FallbackMissed, Handshake
    <3>2. pass' \in [Callers -> 1 .. Passes]
      BY <1>0, <2>14 DEF FallbackMissed, TypeOK
    <3>3. pc' \in [Callers -> PC]
      BY <2>14 DEF FallbackMissed, Goto, TypeOK, PC
    <3>. QED BY <2>14, <3>1, <3>2, <3>3 DEF FallbackMissed, TypeOK, statics
  <2>15. CASE PollSucceeds(c)
    BY <2>7, <2>15, Zenon DEF PollSucceeds, Handshake
  <2>16. CASE GiveUp(c)
    BY <2>7, <2>16, Zenon DEF GiveUp, Handshake
  <2>17. CASE Hangcheck(c)
    BY <2>4, <2>5, <2>17, Zenon DEF Hangcheck, PC
  <2>. QED BY <1>1, <2>1, <2>2, <2>3, <2>6, <2>8, <2>9, <2>10, <2>12, <2>13,
              <2>14, <2>15, <2>16, <2>17 DEF Step
<1>2. ASSUME NEW c \in Callers, NEW dom \in DomSets, Enter(c, dom) PROVE TypeOK'
  BY <1>0, <1>2 DEF Enter, Goto, TypeOK, PC, hw, statics
<1>3. ASSUME NEW d \in Domain, Acknowledge(d) PROVE TypeOK'
  BY <1>3 DEF Acknowledge, TypeOK, statics, call
<1>4. CASE Start
  <2>1. ASSUME NEW at, NEW d \in {"Render", "Blitter"}, NEW on \in BOOLEAN,
               NEW next \in StartPC, StartWrite(at, d, on, next)
        PROVE  TypeOK'
    <3>1. d \in Domain /\ 0 \in Bit /\ Request(d, 0, on)
      BY <2>1 DEF Domain, Bit, StartWrite
    <3>2. req' \in [Domain -> SUBSET Bit] /\ ack' = ack /\ missed' \subseteq Domain
      BY <3>1, RequestFrame
    <3>. QED BY <2>1, <3>2 DEF StartWrite, TypeOK, statics, call
  <2>2. CASE DriverStart
    BY <2>2 DEF DriverStart, TypeOK, StartPC, statics, call, hw
  <2>. QED BY <1>4, <2>1, <2>2, Zenon DEF Start, StartPC
<1>. QED BY <1>1, <1>2, <1>3, <1>4 DEF Next

-----------------------------------------------------------------------------
(* The handshake.                                                          *)

\* A write of c's own bit or of the fallback bit to its current domain, or no
\* write, leaves what the other calls rely on.
LEMMA OthersKeep ==
  ASSUME IInv, NEW c \in Callers, Elsewhere(c), NEW d \in Domain, ack' = ack,
         NEW b \in {Ctx[c], FALLBACK},
         \A e \in Domain, x \in Bit :
           e # d \/ x # b => (x \in req'[e] <=> x \in req[e]),
         NEW o \in Callers, o # c
  PROVE  /\ pc'[o] \in Handshake => todo'[o] # {}
         /\ pc'[o] \in Handshake /\ o \in acquiring' => Ctx[o] \in req'[Current(o)']
         /\ pc'[o] = "acked" /\ o \in acquiring' => Ctx[o] \in ack'[Current(o)']
         /\ \A e \in holds'[o] : Ctx[o] \in req'[e] /\ Ctx[o] \in ack'[e]
         /\ \A e \in Domain : InFallback(o, e)' <=> InFallback(o, e)
<1>1. Ctx[o] # b /\ Ctx[o] \in Bit BY OwnBit, CallersAssumption
<1>2. Untouched(o) BY DEF Elsewhere
<1>3. Current(o)' = Current(o) BY <1>2 DEF Untouched, Current
<1>4. pc[o] \in Handshake => Current(o) \in Domain
  BY FirstMember DEF IInv, CallInv, TypeOK, Current
<1>5. \A e \in holds'[o] : Ctx[o] \in req'[e] /\ Ctx[o] \in ack'[e]
  BY <1>1, <1>2 DEF Untouched, IInv, TypeOK, HeldUntilReleased
<1>6. \A e \in Domain : InFallback(o, e)' <=> InFallback(o, e)
  BY <1>2, <1>3 DEF Untouched, InFallback
<1>. QED BY <1>1, <1>2, <1>3, <1>4, <1>5, <1>6 DEF Untouched, IInv, CallInv, Handshake

\* To keep the invariant it is enough that the moving call keeps its part.
LEMMA MovesAlone ==
  ASSUME IInv, TypeOK', NEW c \in Callers, Elsewhere(c), NEW d \in Domain,
         ack' = ack, NEW b \in {Ctx[c], FALLBACK},
         \A e \in Domain, x \in Bit :
           e # d \/ x # b => (x \in req'[e] <=> x \in req[e]),
         pc'[c] \in Handshake => todo'[c] # {},
         pc'[c] \in Handshake /\ c \in acquiring' => Ctx[c] \in req'[Current(c)'],
         pc'[c] = "acked" /\ c \in acquiring' => Ctx[c] \in ack[Current(c)'],
         \A e \in holds'[c] : Ctx[c] \in req'[e] /\ Ctx[c] \in ack[e],
         \A e \in Domain :
           FALLBACK \in req'[e] /\ InFallback(c, e) => InFallback(c, e)',
         FALLBACK \in req'[d] /\ FALLBACK \notin req[d] => InFallback(c, d)'
  PROVE  IInv'
<1>1. CallInv'
  BY OthersKeep DEF CallInv
<1>2. HeldUntilReleased'
  BY OthersKeep DEF HeldUntilReleased
<1>3. FallbackTransient'
  <2> SUFFICES ASSUME NEW e \in Domain, FALLBACK \in req'[e]
               PROVE  \E x \in Callers : InFallback(x, e)'
    BY DEF FallbackTransient
  <2>1. CASE FALLBACK \in req[e]
    <3>1. PICK x \in Callers : InFallback(x, e)
      BY <2>1 DEF IInv, FallbackTransient
    <3>. QED BY <3>1, OthersKeep
  <2>2. CASE FALLBACK \notin req[e]
    <3>1. FALLBACK \in Bit BY DEF Bit
    <3>2. e = d BY <2>2, <3>1
    <3>. QED BY <2>2, <3>2
  <2>. QED BY <2>1, <2>2
<1>. QED BY <1>1, <1>2, <1>3 DEF IInv

\* The handshake of one call keeps the invariant, action by action.
LEMMA HandshakeStep ==
  ASSUME IInv, TypeOK', NEW c \in Callers,
         \/ RequestDomain(c) \/ PollSucceeds(c) \/ GiveUp(c)
         \/ FallbackSet(c) \/ FallbackRead(c) \/ FallbackAcked(c) \/ FallbackMissed(c)
  PROVE  IInv'
<1>a. PICK d : d = Current(c) OBVIOUS
<1> USE <1>a
<1>0. /\ todo[c] # {} /\ d \in todo[c] /\ d \in Domain
      /\ Ctx[c] \in Bit /\ FALLBACK \in Bit /\ Ctx[c] # FALLBACK
      /\ (c \in acquiring) \in BOOLEAN /\ TypeOK
  <2>1. todo[c] # {}
    BY Zenon DEF IInv, CallInv, Handshake, RequestDomain, PollSucceeds, GiveUp,
           FallbackSet, FallbackRead, FallbackAcked, FallbackMissed
  <2>2. d \in todo[c] /\ d \in Domain
    BY <2>1, FirstMember, ZenonT(30) DEF IInv, TypeOK, Current
  <2>. QED BY <2>1, <2>2, OwnBit DEF IInv, Bit
<1>1. CASE RequestDomain(c)
  <2>1. Request(d, Ctx[c], c \in acquiring) BY <1>1 DEF RequestDomain
  <2>2. /\ ack' = ack
        /\ \A e \in Domain, x \in Bit :
             e # d \/ x # Ctx[c] => (x \in req'[e] <=> x \in req[e])
        /\ Ctx[c] \in req'[d] <=> c \in acquiring
    BY <1>0, <2>1, ZenonT(30) DEF Request, TypeOK
  <2>3. /\ Elsewhere(c) /\ pc'[c] = "poll" /\ pc[c] = "domain"
        /\ todo' = todo /\ acquiring' = acquiring /\ Current(c)' = d
    BY <1>0, <1>1 DEF RequestDomain, Goto, TypeOK, Elsewhere, Untouched, Current
  <2>4. holds'[c] = IF c \in acquiring THEN holds[c] ELSE holds[c] \ {d}
    BY <1>0, <1>1 DEF RequestDomain, TypeOK
  <2>5. \A e \in holds'[c] : Ctx[c] \in req'[e] /\ Ctx[c] \in ack[e]
    BY <1>0, <2>2, <2>4, Zenon DEF IInv, TypeOK, HeldUntilReleased
  <2>6. \A e \in Domain : ~InFallback(c, e) BY <2>3, Zenon DEF InFallback
  <2>7. FALLBACK \in req'[d] => FALLBACK \in req[d] BY <1>0, <2>2, Zenon
  <2>. QED BY <1>0, <2>2, <2>3, <2>5, <2>6, <2>7, MovesAlone
<1>2. ASSUME NEW ok \in BOOLEAN, NextDomain(c, ok), pc[c] \in {"poll", "repoll"},
             ok => Acked(c)
      PROVE  IInv'
  <2>1. /\ Elsewhere(c) /\ pc'[c] = "domain" /\ req' = req /\ ack' = ack
        /\ acquiring' = acquiring
    BY <1>0, <1>2, Zenon DEF NextDomain, Goto, TypeOK, Elsewhere, Untouched, hw
  <2>a. holds' = [holds EXCEPT ![c] = IF ok /\ c \in acquiring
                                      THEN @ \cup {d} ELSE @]
    BY <1>2 DEF NextDomain
  <2>2. \A e \in holds'[c] : e \in holds[c] \/ (e = d /\ ok /\ c \in acquiring)
    BY <1>0, <2>a, Zenon DEF TypeOK
  <2>3. ok /\ c \in acquiring => Ctx[c] \in req[d] /\ Ctx[c] \in ack[d]
    BY <1>2, ZenonT(30) DEF IInv, CallInv, Handshake, Acked
  <2>4. \A e \in holds'[c] : Ctx[c] \in req'[e] /\ Ctx[c] \in ack[e]
    BY <2>1, <2>2, <2>3 DEF IInv, HeldUntilReleased
  <2>5. \A e \in Domain : ~InFallback(c, e) BY <1>2 DEF InFallback
  <2>6. pc'[c] \notin Handshake BY <2>1 DEF Handshake
  <2>. QED BY <1>0, <2>1, <2>4, <2>5, <2>6, MovesAlone, Zenon
<1>3. CASE PollSucceeds(c) BY <1>2, <1>3, Zenon DEF PollSucceeds
<1>4. CASE GiveUp(c) BY <1>2, <1>4, Zenon DEF GiveUp
<1>5. CASE FallbackRead(c)
  <2>1. /\ Elsewhere(c) /\ req' = req /\ ack' = ack /\ pc[c] = "toggled"
        /\ pc'[c] = IF Acked(c) THEN "acked" ELSE "missed"
        /\ todo' = todo /\ acquiring' = acquiring /\ holds' = holds
        /\ Current(c)' = d
    BY <1>0, <1>5, Zenon
       DEF FallbackRead, Goto, TypeOK, Elsewhere, Untouched, Current, hw
  <2>2. c \in acquiring => Ctx[c] \in req[d]
    BY <2>1, Zenon DEF IInv, CallInv, Handshake
  <2>3. pc'[c] = "acked" /\ c \in acquiring => Ctx[c] \in ack[d]
    BY <2>1 DEF Acked
  <2>4. \A e \in holds'[c] : Ctx[c] \in req'[e] /\ Ctx[c] \in ack[e]
    BY <2>1 DEF IInv, HeldUntilReleased
  <2>5. \A e \in Domain : InFallback(c, e) => InFallback(c, e)'
    BY <2>1, Zenon DEF InFallback
  <2>. QED BY <1>0, <2>1, <2>2, <2>3, <2>4, <2>5, MovesAlone, Zenon
<1>6. ASSUME NEW on \in BOOLEAN, Request(d, FALLBACK, on)
      PROVE  /\ ack' = ack
             /\ \A e \in Domain, x \in Bit :
                  e # d \/ x # FALLBACK => (x \in req'[e] <=> x \in req[e])
             /\ \A e \in Domain : Ctx[c] \in req'[e] <=> Ctx[c] \in req[e]
             /\ FALLBACK \in req'[d] <=> on
  BY <1>0, <1>6, RequestFrame
<1>7. CASE FallbackSet(c)
  <2>1. Request(d, FALLBACK, TRUE) BY <1>7, Zenon DEF FallbackSet
  <2>2. /\ Elsewhere(c) /\ pc[c] = "fallback" /\ pc'[c] = "toggled"
        /\ todo' = todo /\ acquiring' = acquiring /\ holds' = holds
        /\ Current(c)' = d
    BY <1>0, <1>7, Zenon DEF FallbackSet, Goto, TypeOK, Elsewhere, Untouched, Current
  <2>3. c \in acquiring => Ctx[c] \in req'[d]
    BY <1>0, <1>6, <2>1, <2>2, Zenon DEF IInv, CallInv, Handshake
  <2>4. \A e \in holds'[c] : Ctx[c] \in req'[e] /\ Ctx[c] \in ack[e]
    BY <1>6, <2>1, <2>2, Zenon DEF IInv, TypeOK, HeldUntilReleased
  <2>5. InFallback(c, d)' /\ \A e \in Domain : ~InFallback(c, e)
    BY <2>2 DEF InFallback
  <2>. QED BY <1>0, <1>6, <2>1, <2>2, <2>3, <2>4, <2>5, MovesAlone, Zenon
<1>8. CASE FallbackAcked(c)
  <2>1. Request(d, FALLBACK, FALSE) BY <1>8, Zenon DEF FallbackAcked
  <2>2. /\ Elsewhere(c) /\ pc[c] = "acked" /\ pc'[c] = "domain"
        /\ acquiring' = acquiring
    BY <1>0, <1>8, Zenon DEF FallbackAcked, Goto, TypeOK, Elsewhere, Untouched
  <2>3. \A e \in holds'[c] : e \in holds[c] \/ (e = d /\ c \in acquiring)
    BY <1>0, <1>8, Zenon DEF FallbackAcked, TypeOK
  <2>4. c \in acquiring => Ctx[c] \in req[d] /\ Ctx[c] \in ack[d]
    BY <2>2 DEF IInv, CallInv, Handshake
  <2>5. \A e \in holds'[c] : Ctx[c] \in req'[e] /\ Ctx[c] \in ack[e]
    BY <1>0, <1>6, <2>1, <2>3, <2>4, Zenon DEF IInv, TypeOK, HeldUntilReleased
  <2>6. FALLBACK \notin req'[d] BY <1>6, <2>1, Zenon
  <2>7. \A e \in Domain : InFallback(c, e) => e = d BY DEF InFallback
  <2>8. pc'[c] \notin Handshake /\ pc'[c] # "acked" BY <2>2 DEF Handshake
  <2>. QED BY <1>0, <1>6, <2>1, <2>2, <2>5, <2>6, <2>7, <2>8, MovesAlone, Zenon
<1>9. CASE FallbackMissed(c)
  <2>1. Request(d, FALLBACK, FALSE) BY <1>9, Zenon DEF FallbackMissed
  <2>2. /\ Elsewhere(c) /\ pc[c] = "missed" /\ pc'[c] \in {"fallback", "repoll"}
        /\ todo' = todo /\ acquiring' = acquiring /\ holds' = holds
        /\ Current(c)' = d
    <3>1. /\ pc' = [pc EXCEPT ![c] = "fallback"] \/ pc' = [pc EXCEPT ![c] = "repoll"]
          /\ pc[c] = "missed"
          /\ todo' = todo /\ acquiring' = acquiring /\ holds' = holds
      BY <1>9 DEF FallbackMissed, Goto
    <3>. QED BY <1>0, <3>1 DEF TypeOK, Elsewhere, Untouched, Current
  <2>3. c \in acquiring => Ctx[c] \in req'[d]
    BY <1>0, <1>6, <2>1, <2>2, Zenon DEF IInv, CallInv, Handshake
  <2>4. \A e \in holds'[c] : Ctx[c] \in req'[e] /\ Ctx[c] \in ack[e]
    BY <1>6, <2>1, <2>2, Zenon DEF IInv, TypeOK, HeldUntilReleased
  <2>5. FALLBACK \notin req'[d] BY <1>6, <2>1, Zenon
  <2>6. \A e \in Domain : InFallback(c, e) => e = d BY DEF InFallback
  <2>7. pc'[c] # "acked" BY <2>2
  <2>. QED BY <1>0, <1>6, <2>1, <2>2, <2>3, <2>4, <2>5, <2>6, <2>7, MovesAlone, Zenon
<1>. QED BY <1>1, <1>3, <1>4, <1>5, <1>7, <1>8, <1>9

-----------------------------------------------------------------------------
\* The hardware's acknowledge copies the request, so it takes no held bit away.
LEMMA AcknowledgeKeeps ==
  ASSUME IInv, TypeOK', NEW d \in Domain, Acknowledge(d) PROVE IInv'
<1>1. \A x \in Callers : pc[x] \in Handshake => Current(x) \in Domain
  BY FirstMember, Zenon DEF IInv, CallInv, TypeOK, Current
<1>2. CallInv'
  BY <1>1 DEF Acknowledge, IInv, CallInv, TypeOK, Current, call, Handshake
<1>3. HeldUntilReleased'
  BY DEF Acknowledge, IInv, HeldUntilReleased, TypeOK
<1>4. FallbackTransient'
  BY DEF Acknowledge, IInv, FallbackTransient, InFallback, Current, call
<1>. QED BY <1>2, <1>3, <1>4 DEF IInv

\* Every step of the contexts, the hardware and start() keeps the invariant.
LEMMA NextKeeps ==
  ASSUME IInv, Next PROVE IInv'
<1>0. TypeOK' /\ TypeOK BY StepTyped DEF IInv
<1>1. ASSUME NEW c \in Callers, Step(c) PROVE IInv'
  <2>1. CASE CountRead(c)
    BY <1>0, <2>1, QuietStep, Zenon
       DEF CountRead, Goto, TypeOK, Elsewhere, Untouched, Handshake, hw
  <2>2. CASE CountWrite(c)
    BY <1>0, <2>2, QuietStep, Zenon
       DEF CountWrite, Goto, TypeOK, Elsewhere, Untouched, Handshake, hw
  <2>3. CASE CheckHang(c)
    BY <1>0, <2>3, QuietStep, ZenonT(30)
       DEF CheckHang, Goto, TypeOK, Elsewhere, Untouched, Handshake, hw
  <2>4. CASE Dump(c)
    BY <1>0, <2>4, QuietStep
       DEF Dump, Goto, TypeOK, Elsewhere, Untouched, Handshake, hw
  <2>5. ASSUME NEW at \in PC \ Handshake, NEW d \in {"Render", "Blitter"},
               NEW on \in BOOLEAN, NEW next \in PC \ Handshake,
               HangWrite(c, at, d, on, next)
        PROVE  IInv'
    <3>0. d \in Domain /\ 0 \in Bit /\ Request(d, 0, on)
      BY <2>5 DEF Domain, Bit, HangWrite
    <3>1. /\ ack' = ack
          /\ \A e \in Domain, x \in Bit : x # 0 => (x \in req'[e] <=> x \in req[e])
      BY <1>0, <3>0 DEF Request, TypeOK
    <3>2. holds' = holds BY <2>5 DEF HangWrite
    <3>3. \A x \in Callers :
            Untouched(x) \/ (pc[x] \notin Handshake /\ pc'[x] \notin Handshake)
      <4>1. /\ pc' = [pc EXCEPT ![c] = next] /\ pc[c] = at
            /\ todo' = todo /\ holds' = holds /\ acquiring' = acquiring
        BY <2>5 DEF HangWrite, Goto
      <4>2. pc[c] \notin Handshake /\ pc'[c] \notin Handshake
        BY <1>0, <4>1 DEF TypeOK
      <4>3. \A x \in Callers \ {c} : Untouched(x)
        BY <1>0, <4>1, Zenon DEF TypeOK, Untouched
      <4>. QED BY <4>2, <4>3
    <3>. QED BY <1>0, <3>1, <3>2, <3>3, PlainWrite
  <2>6. CASE PollTimesOut(c)
    BY <1>0, <2>6, QuietStep, ZenonT(30)
       DEF PollTimesOut, Goto, TypeOK, Elsewhere, Untouched, Handshake, hw
  <2>7. CASE Return(c)
    BY <1>0, <2>7, QuietStep
       DEF Return, Goto, TypeOK, Elsewhere, Untouched, Handshake, hw
  <2>8. CASE Hangcheck(c)
    BY <2>4, <2>5, <2>8, ZenonT(30) DEF Hangcheck, PC, Handshake
  <2>. QED BY <1>0, <1>1, <2>1, <2>2, <2>3, <2>6, <2>7, <2>8, HandshakeStep, Zenon DEF Step
<1>2. ASSUME NEW c \in Callers, NEW dom \in DomSets, Enter(c, dom) PROVE IInv'
  BY <1>0, <1>2, QuietStep
     DEF Enter, Goto, TypeOK, Elsewhere, Untouched, Handshake, hw
<1>3. ASSUME NEW d \in Domain, Acknowledge(d) PROVE IInv'
  BY <1>0, <1>3, AcknowledgeKeeps
<1>4. CASE Start
  <2>1. ASSUME NEW at, NEW d \in {"Render", "Blitter"}, NEW on \in BOOLEAN,
               NEW next, StartWrite(at, d, on, next)
        PROVE  IInv'
    <3>0. d \in Domain /\ 0 \in Bit /\ Request(d, 0, on)
      BY <2>1, Zenon DEF Domain, Bit, StartWrite
    <3>1. /\ ack' = ack
          /\ \A e \in Domain, x \in Bit : x # 0 => (x \in req'[e] <=> x \in req[e])
      BY <1>0, <3>0 DEF Request, TypeOK
    <3>2. holds' = holds BY <2>1 DEF StartWrite
    <3>3. \A x \in Callers :
            Untouched(x) \/ (pc[x] \notin Handshake /\ pc'[x] \notin Handshake)
      <4>1. pc' = pc /\ todo' = todo /\ holds' = holds /\ acquiring' = acquiring
        BY <2>1, Zenon DEF StartWrite, call
      <4>. QED BY <4>1 DEF Untouched
    <3>. QED BY <1>0, <3>1, <3>2, <3>3, PlainWrite
  <2>2. CASE DriverStart
    BY <1>0, <2>2 DEF DriverStart, IInv, CallInv, HeldUntilReleased,
       FallbackTransient, InFallback, Current, hw, call
  <2>. QED BY <1>4, <2>1, <2>2, ZenonT(30) DEF Start
<1>. QED BY <1>1, <1>2, <1>3, <1>4 DEF Next

\* The inductive invariant of the ForceWake handshake holds.
THEOREM ForceWakeInvariant == Spec => []IInv
<1>1. IInv /\ UNCHANGED vars => IInv'
  BY DEF IInv, TypeOK, CallInv, HeldUntilReleased, FallbackTransient, InFallback,
         Current, vars, hw, statics, call
<1>. QED BY <1>1, Started, NextKeeps, PTL DEF Spec

\* forceWake never takes a domain from a context that holds it, whatever the
\* other context, the fallback, the hangcheck and start() write.
THEOREM DomainStaysAwake == Spec => []HeldUntilReleased
BY ForceWakeInvariant, PTL DEF IInv

\* forceWakeWaitAckFallback leaves no fallback bit behind.
THEOREM NoFallbackLeft == Spec => []FallbackTransient
BY ForceWakeInvariant, PTL DEF IInv

\* The calls of forceWake stay well formed: in particular the fallback never
\* makes more attempts than its bound.
THEOREM ForceWakeTyped == Spec => []TypeOK
BY ForceWakeInvariant, PTL DEF IInv

-----------------------------------------------------------------------------
(* Bit 0.                                                                  *)

\* A step that writes no bit 0, and moves neither start() nor a caller that is
\* in the hangcheck, keeps Bit0Transient.
LEMMA Bit0Frame ==
  ASSUME Bit0Transient, spc' = spc,
         \A d \in Domain : 0 \in req'[d] => 0 \in req[d],
         \A d \in Domain, c \in Callers :
           pc[c] \in Bit0Hang[d] => pc'[c] \in Bit0Hang[d]
  PROVE  Bit0Transient'
BY DEF Bit0Transient

\* The places where bit 0 is held are places of the hangcheck.
LEMMA Bit0Places ==
  \A d \in Domain : Bit0Hang[d] \subseteq {"hangBlitter", "hangEndRender", "hangEndBlitter"}
BY DEF Bit0Hang, Domain

\* A call's step outside the hangcheck touches no bit 0.
LEMMA OutsideHangcheck ==
  ASSUME IInv, Bit0Transient, NEW c \in Callers, NEW l, Goto(c, l), spc' = spc,
         pc[c] \notin {"hangBlitter", "hangEndRender", "hangEndBlitter"},
         \/ req' = req
         \/ \E d \in Domain, b \in Bit \ {0}, on \in BOOLEAN : Request(d, b, on)
  PROVE  Bit0Transient'
<1>1. \A d \in Domain : 0 \in req'[d] => 0 \in req[d]
  <2>1. CASE req' = req BY <2>1
  <2>2. ASSUME NEW d \in Domain, NEW b \in Bit \ {0}, NEW on \in BOOLEAN,
               Request(d, b, on)
        PROVE  \A e \in Domain : 0 \in req'[e] => 0 \in req[e]
    <3>1. 0 \in Bit /\ 0 # b BY DEF Bit
    <3>. QED BY <2>2, <3>1, RequestFrame DEF IInv
  <2>. QED BY <2>1, <2>2
<1>2. \A d \in Domain, x \in Callers : pc[x] \in Bit0Hang[d] => pc'[x] \in Bit0Hang[d]
  BY Bit0Places DEF Goto, IInv, TypeOK
<1>. QED BY <1>1, <1>2, Bit0Frame, Zenon

\* The hangcheck's own steps keep Bit0Transient: whoever sets the bit is then
\* inside, and whoever leaves has cleared it.
LEMMA HangcheckBit0 ==
  ASSUME IInv, Bit0Transient, NEW c \in Callers, Hangcheck(c)
  PROVE  Bit0Transient'
<1>0. "Render" \in Domain /\ "Blitter" \in Domain /\ 0 \in Bit /\ TypeOK
  BY DEF Domain, Bit, IInv
<1>1. CASE Dump(c)
  BY <1>1, OutsideHangcheck DEF Dump, hw
<1>2. ASSUME NEW at, NEW d \in {"Render", "Blitter"}, NEW on \in BOOLEAN,
             NEW next, HangWrite(c, at, d, on, next),
             on => next \in Bit0Hang[d],
             \A e \in Domain : e # d /\ at \in Bit0Hang[e] => next \in Bit0Hang[e]
      PROVE  Bit0Transient'
  <2>1. /\ Request(d, 0, on) /\ pc[c] = at /\ spc' = spc
        /\ pc' = [pc EXCEPT ![c] = next]
    BY <1>2 DEF HangWrite, Goto
  <2>2. /\ \A e \in Domain : e # d => (0 \in req'[e] <=> 0 \in req[e])
        /\ 0 \in req'[d] <=> on
    BY <1>0, <2>1, RequestFrame
  <2>3. pc'[c] = next /\ \A x \in Callers \ {c} : pc'[x] = pc[x]
    BY <1>0, <2>1 DEF TypeOK
  <2> SUFFICES ASSUME NEW e \in Domain, 0 \in req'[e]
               PROVE  spc \in Bit0Start[e] \/ \E x \in Callers : pc'[x] \in Bit0Hang[e]
    BY <2>1, Zenon DEF Bit0Transient
  <2>4. CASE e = d
    BY <1>2, <2>2, <2>3, <2>4
  <2>5. CASE e # d
    <3>1. spc \in Bit0Start[e] \/ \E x \in Callers : pc[x] \in Bit0Hang[e]
      BY <2>2, <2>5 DEF Bit0Transient
    <3>. QED BY <1>2, <2>1, <2>3, <2>5, <3>1
  <2>. QED BY <2>4, <2>5
<1>3. CASE HangWrite(c, "hangRender", "Render", TRUE, "hangBlitter")
  <2>1. /\ "hangBlitter" \in Bit0Hang["Render"]
        /\ \A e \in Domain : e # "Render" /\ "hangRender" \in Bit0Hang[e] => "hangBlitter" \in Bit0Hang[e]
    BY DEF Bit0Hang, Domain
  <2>. QED BY <1>2, <1>3, <2>1, Zenon
<1>4. CASE HangWrite(c, "hangBlitter", "Blitter", TRUE, "hangEndRender")
  <2>1. /\ "hangEndRender" \in Bit0Hang["Blitter"]
        /\ \A e \in Domain : e # "Blitter" /\ "hangBlitter" \in Bit0Hang[e] => "hangEndRender" \in Bit0Hang[e]
    BY DEF Bit0Hang, Domain
  <2>. QED BY <1>2, <1>4, <2>1, Zenon
<1>5. CASE HangWrite(c, "hangEndRender", "Render", FALSE, "hangEndBlitter")
  <2>1. /\ \A e \in Domain : e # "Render" /\ "hangEndRender" \in Bit0Hang[e] => "hangEndBlitter" \in Bit0Hang[e]
    BY DEF Bit0Hang, Domain
  <2>. QED BY <1>2, <1>5, <2>1, Zenon
<1>6. CASE HangWrite(c, "hangEndBlitter", "Blitter", FALSE, "domain")
  <2>1. /\ \A e \in Domain : e # "Blitter" /\ "hangEndBlitter" \in Bit0Hang[e] => "domain" \in Bit0Hang[e]
    BY DEF Bit0Hang, Domain
  <2>. QED BY <1>2, <1>6, <2>1, Zenon
<1>. QED BY <1>1, <1>3, <1>4, <1>5, <1>6, Zenon DEF Hangcheck

\* So do the plain writes of start().
LEMMA StartBit0 ==
  ASSUME IInv, Bit0Transient, Start
  PROVE  Bit0Transient'
<1>0. "Render" \in Domain /\ "Blitter" \in Domain /\ 0 \in Bit /\ TypeOK
  BY DEF Domain, Bit, IInv
<1>1. ASSUME NEW at, NEW d \in {"Render", "Blitter"}, NEW on \in BOOLEAN,
             NEW next, StartWrite(at, d, on, next),
             on => next \in Bit0Start[d],
             \A e \in Domain : e # d /\ at \in Bit0Start[e] => next \in Bit0Start[e]
      PROVE  Bit0Transient'
  <2>1. Request(d, 0, on) /\ spc = at /\ spc' = next /\ pc' = pc
    BY <1>1 DEF StartWrite, call
  <2>2. /\ \A e \in Domain : e # d => (0 \in req'[e] <=> 0 \in req[e])
        /\ 0 \in req'[d] <=> on
    BY <1>0, <2>1, RequestFrame, ZenonT(30)
  <2>. QED BY <1>1, <2>1, <2>2 DEF Bit0Transient
<1>2. CASE DriverStart
  BY <1>2 DEF DriverStart, Bit0Transient, Bit0Start, Domain, hw, call
<1>3. CASE StartWrite("first", "Render", TRUE, "workarounds")
  <2>1. /\ "workarounds" \in Bit0Start["Render"]
        /\ \A e \in Domain : e # "Render" /\ "first" \in Bit0Start[e] => "workarounds" \in Bit0Start[e]
    BY DEF Bit0Start, Domain
  <2>. QED BY <1>1, <1>3, <2>1, Zenon
<1>4. CASE StartWrite("workarounds", "Render", FALSE, "driver")
  <2>1. /\ \A e \in Domain : e # "Render" /\ "workarounds" \in Bit0Start[e] => "driver" \in Bit0Start[e]
    BY DEF Bit0Start, Domain
  <2>. QED BY <1>1, <1>4, <2>1, Zenon
<1>5. CASE StartWrite("render", "Render", TRUE, "blitter")
  <2>1. /\ "blitter" \in Bit0Start["Render"]
        /\ \A e \in Domain : e # "Render" /\ "render" \in Bit0Start[e] => "blitter" \in Bit0Start[e]
    BY DEF Bit0Start, Domain
  <2>. QED BY <1>1, <1>5, <2>1, Zenon
<1>6. CASE StartWrite("blitter", "Blitter", TRUE, "report")
  <2>1. /\ "report" \in Bit0Start["Blitter"]
        /\ \A e \in Domain : e # "Blitter" /\ "blitter" \in Bit0Start[e] => "report" \in Bit0Start[e]
    BY DEF Bit0Start, Domain
  <2>. QED BY <1>1, <1>6, <2>1, Zenon
<1>7. CASE StartWrite("report", "Render", FALSE, "unblitter")
  <2>1. /\ \A e \in Domain : e # "Render" /\ "report" \in Bit0Start[e] => "unblitter" \in Bit0Start[e]
    BY DEF Bit0Start, Domain
  <2>. QED BY <1>1, <1>7, <2>1, Zenon
<1>8. CASE StartWrite("unblitter", "Blitter", FALSE, "done")
  <2>1. /\ \A e \in Domain : e # "Blitter" /\ "unblitter" \in Bit0Start[e] => "done" \in Bit0Start[e]
    BY DEF Bit0Start, Domain
  <2>. QED BY <1>1, <1>8, <2>1, Zenon
<1>. QED BY <1>2, <1>3, <1>4, <1>5, <1>6, <1>7, <1>8 DEF Start

\* start() and the hangcheck leave no request behind in bit 0, which nothing
\* counts, whichever of them drops it for the other.
THEOREM NoBit0Left == Spec => []Bit0Transient
<1>1. Init => Bit0Transient BY DEF Init, Bit0Transient
<1>2. IInv /\ Bit0Transient /\ [Next]_vars => Bit0Transient'
  <2> SUFFICES ASSUME IInv, Bit0Transient, [Next]_vars PROVE Bit0Transient'
    OBVIOUS
  <2>0. TypeOK /\ FALLBACK \in Bit \ {0} BY DEF IInv, Bit, FALLBACK
  <2>1. CASE UNCHANGED vars BY <2>1 DEF vars, hw, call, Bit0Transient
  <2>2. ASSUME NEW c \in Callers, Step(c) PROVE Bit0Transient'
    <3>0. /\ Ctx[c] \in Bit \ {0} /\ (c \in acquiring) \in BOOLEAN
          /\ todo[c] # {} => Current(c) \in Domain
          /\ pc[c] \in Handshake => Current(c) \in Domain
      BY <2>0, OwnBit, FirstMember DEF IInv, TypeOK, CallInv, Current
    <3>1. CASE CountRead(c) \/ CountWrite(c) \/ PollTimesOut(c) \/ Return(c)
      BY <3>1, OutsideHangcheck
         DEF CountRead, CountWrite, PollTimesOut, Return, hw
    <3>2. CASE CheckHang(c) \/ FallbackRead(c)
      BY <3>2, OutsideHangcheck DEF CheckHang, FallbackRead, hw
    <3>3. CASE PollSucceeds(c) \/ GiveUp(c)
      BY <3>3, OutsideHangcheck DEF PollSucceeds, GiveUp, NextDomain, hw
    <3>4. CASE RequestDomain(c)
      BY <3>0, <3>4, OutsideHangcheck, Zenon DEF RequestDomain
    <3>5. CASE FallbackSet(c) \/ FallbackAcked(c)
      BY <2>0, <3>0, <3>5, OutsideHangcheck, Zenon DEF FallbackSet, FallbackAcked, Handshake
    <3>6. CASE FallbackMissed(c)
      <4>1. Request(Current(c), FALLBACK, FALSE) /\ Current(c) \in Domain
        BY <3>0, <3>6, Zenon DEF FallbackMissed, Handshake
      <4>2. PICK l \in {"fallback", "repoll"} : Goto(c, l)
        BY <3>6, Zenon DEF FallbackMissed
      <4>. QED BY <2>0, <3>6, <4>1, <4>2, OutsideHangcheck, Zenon DEF FallbackMissed
    <3>. QED BY <2>2, <3>1, <3>2, <3>3, <3>4, <3>5, <3>6, HangcheckBit0, Zenon DEF Step
  <2>3. ASSUME NEW c \in Callers, NEW dom \in DomSets, Enter(c, dom)
        PROVE  Bit0Transient'
    BY <2>3, OutsideHangcheck, Zenon DEF Enter, hw
  <2>4. ASSUME NEW d \in Domain, Acknowledge(d) PROVE Bit0Transient'
    BY <2>4 DEF Acknowledge, call, Bit0Transient
  <2>. QED BY <2>1, <2>2, <2>3, <2>4, StartBit0 DEF Next
<1>. QED BY <1>1, <1>2, ForceWakeInvariant, PTL DEF Spec

-----------------------------------------------------------------------------
(* The hangcheck's dump.                                                   *)

\* The callers that passed the unlocked test and have not set the flag yet.
Dumping == {c \in Callers : pc[c] = "dump"}

\* Whoever is past the test counts as if it had dumped; no one has while the
\* flag is clear, and no one passes once it is set.
DumpInv ==
  /\ dumps + Cardinality(Dumping) <= Cardinality(Callers)
  /\ ~hangcheckDumped => dumps = 0

\* forceWake has at most one caller per ForceWake bit, so finitely many.
LEMMA FiniteCallers == IsFiniteSet(Callers)
<1>1. Ctx \in Injection(Callers, 1 .. 2)
  BY CallersAssumption DEF Injection, IsInjective
<1>2. IsFiniteSet(1 .. 2)
  <2>1. 1 \in Int /\ 2 \in Int OBVIOUS
  <2>. QED BY <2>1, FS_Interval, Zenon
<1>. QED BY <1>1, <1>2, FS_Injection

\* The racing callers are among the callers, so they too can be counted.
LEMMA DumpingBounded ==
  ASSUME NEW D \in SUBSET Callers
  PROVE  /\ IsFiniteSet(D) /\ Cardinality(D) \in Nat
         /\ Cardinality(D) <= Cardinality(Callers)
<1>1. IsFiniteSet(D) /\ Cardinality(D) <= Cardinality(Callers)
  BY FiniteCallers, FS_Subset
<1>. QED BY <1>1, FS_CardinalityType

\* A step of forceWake outside the hangcheck's test and dump moves no one into
\* or out of the race and leaves the flag and the count of dumps alone.
LEMMA NoDumpStep ==
  ASSUME TypeOK, DumpInv, NEW c \in Callers, NEW l \in PC \ {"dump"}, Goto(c, l),
         pc[c] # "dump", dumps' = dumps, hangcheckDumped' = hangcheckDumped
  PROVE  DumpInv'
<1>1. Dumping' = Dumping BY DEF Dumping, Goto, TypeOK
<1>. QED BY <1>1 DEF DumpInv

\* The test and the setting of hangcheckDumped keep the count: a caller enters
\* the race only while the flag is clear, and leaves it by dumping.
LEMMA DumpSteps ==
  ASSUME TypeOK, DumpInv, NEW c \in Callers, CheckHang(c) \/ Dump(c)
  PROVE  DumpInv'
<1>0. Dumping \in SUBSET Callers /\ Dumping' \in SUBSET Callers BY DEF Dumping
<1>1. /\ Cardinality(Dumping) \in Nat /\ Cardinality(Dumping') \in Nat
      /\ Cardinality(Dumping') <= Cardinality(Callers)
      /\ Cardinality(Callers) \in Nat /\ IsFiniteSet(Dumping)
  BY <1>0, DumpingBounded
<1>2. CASE CheckHang(c)
  <2>1. /\ dumps' = dumps /\ hangcheckDumped' = hangcheckDumped
    BY <1>2 DEF CheckHang, statics
  <2>2. CASE ~hangcheckDumped
    <3>1. dumps' = 0 BY <2>1, <2>2 DEF DumpInv
    <3>. QED BY <1>1, <3>1 DEF DumpInv
  <2>3. CASE hangcheckDumped
    <3>1. Goto(c, "domain") /\ pc[c] # "dump" BY <1>2, <2>3 DEF CheckHang
    <3>. QED BY <2>1, <3>1, NoDumpStep DEF PC
  <2>. QED BY <2>2, <2>3 DEF TypeOK
<1>3. CASE Dump(c)
  <2>1. c \in Dumping /\ Dumping' = Dumping \ {c}
    BY <1>3 DEF Dump, Goto, Dumping, TypeOK
  <2>2. Cardinality(Dumping') = Cardinality(Dumping) - 1
    BY <1>1, <2>1, FS_RemoveElement, Zenon
  <2>3. dumps' = dumps + 1 /\ hangcheckDumped' = TRUE /\ dumps \in Nat
    BY <1>3 DEF Dump, TypeOK
  <2>. QED BY <1>1, <2>2, <2>3 DEF DumpInv
<1>. QED BY <1>2, <1>3

\* forceWake's unlocked test and setting of hangcheckDumped let each context
\* dump the state of a hung GPU once at most, however they race on the flag
\* and on fwCallCount.
THEOREM DumpsOncePerContext == Spec => []DumpsBounded
<1>1. Init => DumpInv
  <2> SUFFICES ASSUME Init PROVE DumpInv OBVIOUS
  <2>1. Dumping = {} /\ dumps = 0 BY DEF Init, Dumping
  <2>2. Cardinality({}) = 0 BY FS_EmptySet
  <2>3. Cardinality(Callers) \in Nat BY DumpingBounded
  <2>. QED BY <2>1, <2>2, <2>3 DEF DumpInv
<1>2. IInv /\ DumpInv /\ [Next]_vars => DumpInv'
  <2> SUFFICES ASSUME TypeOK, DumpInv, [Next]_vars PROVE DumpInv' BY DEF IInv
  <2>0. ASSUME pc' = pc, dumps' = dumps, hangcheckDumped' = hangcheckDumped
        PROVE  DumpInv'
    BY <2>0 DEF DumpInv, Dumping
  <2>1. ASSUME NEW c \in Callers, Step(c) PROVE DumpInv'
    <3>1. CASE CountRead(c) \/ CountWrite(c) \/ PollTimesOut(c) \/ Return(c)
      BY <3>1, NoDumpStep, Zenon DEF CountRead, CountWrite, PollTimesOut, Return, statics, PC
    <3>2. CASE RequestDomain(c) \/ FallbackSet(c) \/ FallbackAcked(c)
      BY <3>2, NoDumpStep, Zenon DEF RequestDomain, FallbackSet, FallbackAcked, statics, PC
    <3>3. CASE PollSucceeds(c) \/ GiveUp(c)
      BY <3>3, NoDumpStep DEF PollSucceeds, GiveUp, NextDomain, statics, PC
    <3>4. CASE FallbackRead(c) \/ FallbackMissed(c)
      <4>1. PICK l \in {"acked", "missed", "fallback", "repoll"} : Goto(c, l)
        BY <3>4, Zenon DEF FallbackRead, FallbackMissed
      <4>. QED BY <3>4, <4>1, NoDumpStep, Zenon DEF FallbackRead, FallbackMissed, statics, PC
    <3>5. CASE Hangcheck(c)
      BY <3>5, NoDumpStep, DumpSteps, Zenon DEF Hangcheck, HangWrite, statics, PC
    <3>. QED BY <2>1, <3>1, <3>2, <3>3, <3>4, <3>5, DumpSteps, Zenon DEF Step
  <2>2. ASSUME NEW c \in Callers, NEW dom \in DomSets, Enter(c, dom) PROVE DumpInv'
    BY <2>2, NoDumpStep DEF Enter, statics, PC
  <2>3. ASSUME NEW d \in Domain, Acknowledge(d) PROVE DumpInv'
    BY <2>0, <2>3 DEF Acknowledge, statics, call
  <2>4. CASE Start
    BY <2>0, <2>4, Zenon DEF Start, StartWrite, DriverStart, statics, call
  <2>5. CASE UNCHANGED vars BY <2>0, <2>5 DEF vars, statics, call
  <2>. QED BY <2>1, <2>2, <2>3, <2>4, <2>5 DEF Next
<1>3. IInv /\ DumpInv => DumpsBounded
  <2> SUFFICES ASSUME TypeOK, DumpInv PROVE DumpsBounded BY DEF IInv
  <2>1. Cardinality(Dumping) \in Nat /\ Cardinality(Callers) \in Nat
    BY DumpingBounded DEF Dumping
  <2>. QED BY <2>1 DEF DumpInv, DumpsBounded, TypeOK
<1>. QED BY <1>1, <1>2, <1>3, ForceWakeInvariant, PTL DEF Spec
=============================================================================
